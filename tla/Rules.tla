------------------------------- MODULE Rules -------------------------------
(***************************************************************************)
(* The parts of the program that compute and keep no state, each run on a  *)
(* job: classification of a text, the search for a word, a column's value  *)
(* under the rules of a -pii flag, the suggestions of a schema scan and    *)
(* the rules they become, the loading of a configuration, the parsing of a *)
(* duration.  A round of a loop of the code is a step.  The properties     *)
(* compare the answer with a definition of what it should be that does not *)
(* follow the loops.                                                       *)
(***************************************************************************)
EXTENDS Classify, Policy, Config

CONSTANTS
    Strings,       \* what the program may find in a text, a flag or a schema
    Jobs           \* the jobs, by kind of computation

ASSUME StringsAssumption ==
    {"nl", "star", "slash", "redact"} \cup Danger \subseteq Strings

Name == [parts : SUBSET Strings, spelling : Strings]
Part == [kind : {"colon", "bare"}, name : Name, action : Strings] \cup [kind : {"empty"}]
Word == {w \in Seq(Strings) : w # <<>> /\ \A n \in DOMAIN w : isIdentChar(w[n])}

ClassifyJob == [op : {"classify"}, text : Seq(Strings)]
SearchJob   == [op : {"search"}, text : Seq(Strings), word : Word]
StreamJob   == [op : {"stream"}, spec : Seq(Part), column : Name, isText : BOOLEAN,
                value : {Null} \cup [form : {"raw"}, of : Nat]]
DetectJob   == [op : {"detect"}, columns : Seq(Strings \X Name)]
LoadJob     == [op : {"load"},
                file : [mode : Strings, url : Strings, timeout : Strings, tls : Strings,
                        hosts : Strings, cert : Strings, required : BOOLEAN],
                env  : [mode : Strings, url : Strings, timeout : Strings, tls : Strings,
                        hosts : Strings, cert : Strings, required : Strings]]
ParseJob    == [op : {"parse"}, unit : {"d", "go"}, n : Int]

Job == ClassifyJob \cup SearchJob \cup StreamJob \cup DetectJob \cup LoadJob \cup ParseJob

ASSUME JobsAssumption == \A op \in DOMAIN Jobs : Jobs[op] \subseteq Job

VARIABLES
    job, pc, answer,
    at,              \* where what is left of the text begins
    word, from,      \* containsWord's arguments and how far it has come
    i,               \* index of the loop in progress
    rules,           \* rules of a connection
    byColumn,        \* Policy.byColumn
    matches,         \* what Scan has found
    byCol, order     \* detectAndRespond's suggestions

textVars == <<at, word, from>>
ruleVars == <<rules, byColumn>>
scanVars == <<matches, byCol, order>>
vars == <<job, pc, answer, i, textVars, ruleVars, scanVars>>

\* What a job begins with.
Begin(op) ==
    CASE op = "classify" -> "strip"
      [] op = "search"   -> "search"
      [] op = "stream"   -> "split"
      [] op = "detect"   -> "scan"
      [] OTHER           -> op

Init ==
    /\ \E op \in DOMAIN Jobs : job \in Jobs[op]
    /\ pc = Begin(job.op) /\ answer = "none" /\ i = 1
    /\ at = 1 /\ word = (IF job.op = "search" THEN job.word ELSE <<>>) /\ from = 1
    /\ rules = <<>> /\ byColumn = <<>>
    /\ matches = <<>> /\ byCol = <<>> /\ order = <<>>

Answer(value) == pc' = "done" /\ answer' = value

-----------------------------------------------------------------------------
(* Classify *)

\* Mutant: one comment is removed, not all of them.
stripLeadingOnce ==
    /\ pc = "strip"
    /\ LET p     == TrimLeft(job.text, at)
           close == Closer(job.text, p)
           end   == Index(job.text, close, p)
       IN  at' = IF close = <<>> THEN p ELSE IF end = 0 THEN End(job.text) ELSE end + Len(close)
    /\ pc' = "token"
    /\ UNCHANGED <<job, answer, i, word, from, ruleVars, scanVars>>

\* A round of stripLeading: blanks, then a comment; without one, or when it
\* does not end, what is left is returned.  The end is looked for from where
\* the comment begins, so that it may overlap the opening.
stripLeading ==
    /\ pc = "strip"
    /\ LET p     == TrimLeft(job.text, at)
           close == Closer(job.text, p)
           end   == Index(job.text, close, p)
       IN  \/ close = <<>> /\ at' = p /\ pc' = "token"
           \/ close # <<>> /\ end = 0 /\ at' = End(job.text) /\ pc' = "token"
           \/ close # <<>> /\ end # 0 /\ at' = end + Len(close) /\ UNCHANGED pc
    /\ UNCHANGED <<job, answer, i, word, from, ruleVars, scanVars>>

\* Classify's switch.
Classify ==
    /\ pc = "token"
    /\ LET kind == Switch(firstToken(job.text, at))
       IN  \/ kind # "search" /\ Answer(kind) /\ UNCHANGED <<word, from>>
           \/ /\ kind = "search" /\ pc' = "search" /\ UNCHANGED answer
              /\ word' = <<dangerKeywords[i]>> /\ from' = at
    /\ UNCHANGED <<job, at, i, ruleVars, scanVars>>

\* containsWord returns: to whoever called it, or to containsDanger, which goes
\* on to the next keyword.
Return(found) ==
    \/ job.op = "search" /\ Answer(found) /\ UNCHANGED <<i, word, from>>
    \/ /\ job.op = "classify" /\ (found \/ i = Len(dangerKeywords))
       /\ Answer(IF found THEN "mutation" ELSE "read") /\ UNCHANGED <<i, word, from>>
    \/ /\ job.op = "classify" /\ ~found /\ i < Len(dangerKeywords)
       /\ i' = i + 1 /\ word' = <<dangerKeywords[i + 1]>> /\ from' = at
       /\ UNCHANGED <<pc, answer>>

\* A round of containsWord: an occurrence inside a longer identifier is jumped
\* over as a whole.
containsWord ==
    /\ pc = "search"
    /\ LET n == Index(job.text, word, from)
       IN  \/ n = 0 /\ Return(FALSE)
           \/ n # 0 /\ Alone(job.text, word, n, at) /\ Return(TRUE)
           \/ /\ n # 0 /\ ~Alone(job.text, word, n, at) /\ from' = n + Len(word)
              /\ UNCHANGED <<pc, answer, i, word>>
    /\ UNCHANGED <<job, at, ruleVars, scanVars>>

-----------------------------------------------------------------------------
(* Policy and detection *)

\* A round of parsePII.
parsePII ==
    /\ pc = "split"
    /\ \/ /\ i <= Len(job.spec) /\ i' = i + 1 /\ rules' = rules \o RuleOf(job.spec[i])
          /\ UNCHANGED pc
       \/ i > Len(job.spec) /\ i' = 1 /\ pc' = "compile" /\ UNCHANGED rules
    /\ UNCHANGED <<job, answer, textVars, byColumn, scanVars>>

\* A round of New.
New ==
    /\ pc = "compile" /\ i <= Len(rules)
    /\ byColumn' = Assign(byColumn, Lower(rules[i].name), ParseAction(rules[i].action))
    /\ i' = i + 1
    /\ UNCHANGED <<job, pc, answer, textVars, rules, scanVars>>

\* streamResult and schemaRows, for one column and one value.
streamResult ==
    /\ pc = "compile" /\ i > Len(rules) /\ job.op = "stream"
    /\ LET action == ActionFor(byColumn, job.column)
       IN  Answer([annotated |-> action,
                   value |-> AnonymizeValue(action, job.isText, job.value)])
    /\ UNCHANGED <<job, i, textVars, ruleVars, scanVars>>

\* A round of Scan's loop over the rows of the schema.
Scan ==
    /\ pc = "scan"
    /\ \/ /\ i <= Len(job.columns) /\ i' = i + 1 /\ matches' = matches \o MatchOf(job.columns[i])
          /\ UNCHANGED pc
       \/ i > Len(job.columns) /\ i' = 1 /\ pc' = "collect" /\ UNCHANGED matches
    /\ UNCHANGED <<job, answer, textVars, ruleVars, byCol, order>>

\* A round of detectAndRespond.
detectAndRespond ==
    /\ pc = "collect" /\ i <= Len(matches)
    /\ LET m == matches[i]
       IN  /\ byCol' = AddSuggestion(byCol, m)
           /\ order' = IF m[2] \in DOMAIN byCol THEN order ELSE Append(order, m[2])
    /\ i' = i + 1
    /\ UNCHANGED <<job, pc, answer, textVars, ruleVars, matches>>

\* The response; the operator accepts all of it, and the connection's sessions
\* compile it.
Accept ==
    /\ pc = "collect" /\ i > Len(matches)
    /\ rules' = Suggestions(byCol, order)
    /\ i' = 1 /\ pc' = "compile"
    /\ UNCHANGED <<job, answer, textVars, byColumn, scanVars>>

Compiled ==
    /\ pc = "compile" /\ i > Len(rules) /\ job.op = "detect"
    /\ Answer(rules)
    /\ UNCHANGED <<job, i, textVars, ruleVars, scanVars>>

-----------------------------------------------------------------------------
(* Configuration *)

DoLoad ==
    /\ pc = "load" /\ Answer(Load(job.file, job.env))
    /\ UNCHANGED <<job, i, textVars, ruleVars, scanVars>>

DoParse ==
    /\ pc = "parse" /\ Answer(parseHumanDuration(job.unit, job.n))
    /\ UNCHANGED <<job, i, textVars, ruleVars, scanVars>>

Next == \/ stripLeading \/ Classify \/ containsWord
        \/ parsePII \/ New \/ streamResult \/ Scan \/ detectAndRespond \/ Accept \/ Compiled
        \/ DoLoad \/ DoParse

Spec == Init /\ [][Next]_vars

Answered(op) == pc = "done" /\ job.op = op

-----------------------------------------------------------------------------
(* Properties *)

\* A line ends at n, as PostgreSQL reads it: a carriage return counts too, of
\* which a newline behind it is a part.
LineEnd(s, n) == s[n] = "nl" \/ (s[n] = "cr" /\ ~At(s, <<"cr", "nl">>, n))

\* From b up to e stands a comment, as PostgreSQL reads it.  Comments inside of
\* others are left to Odd.
Comment(s, b, e) ==
    \/ /\ At(s, <<"dash", "dash">>, b) /\ b + 2 < e /\ LineEnd(s, e - 1)
       /\ \A n \in (b + 2)..(e - 2) : ~LineEnd(s, n)
    \/ /\ At(s, <<"slash", "star">>, b) /\ b + 4 <= e /\ At(s, <<"star", "slash">>, e - 2)
       /\ \A n \in (b + 2)..(e - 3) : ~At(s, <<"star", "slash">>, n) /\ ~At(s, <<"slash", "star">>, n)

\* The characters from b up to e are a run of blanks or a comment.
Gap(s, b, e) ==
    \/ (\A n \in b..(e - 1) : s[n] \in Blanks) /\ (e = End(s) \/ s[e] \notin Blanks)
    \/ Comment(s, b, e)

\* There is nothing but gaps from b up to e.
Gaps(s, b, e) ==
    \E cuts \in SUBSET (b..e) :
        /\ b \in cuts /\ e \in cuts
        /\ \A c \in cuts \ {e} : \E d \in cuts : c < d /\ Gap(s, c, d)

\* Neither a blank nor the beginning of a comment.
Solid(s, p) == s[p] \notin Blanks /\ Closer(s, p) = <<>>

\* The statement begins at p.
CodeAt(s, p) == Solid(s, p) /\ Gaps(s, 1, p)

\* A comment at b that PostgreSQL may end elsewhere than stripLeading: there is
\* a carriage return in its line, its opening is that of /*/, or another one
\* opens inside it.
Odd(s, b) ==
    \/ /\ At(s, <<"dash", "dash">>, b)
       /\ \E n \in (b + 2)..Len(s) : LineEnd(s, n) /\ \A m \in (b + 2)..n : s[m] # "nl"
    \/ /\ At(s, <<"slash", "star">>, b)
       /\ \/ At(s, <<"star", "slash">>, b + 1)
          \/ \E n \in (b + 2)..Len(s) : /\ At(s, <<"slash", "star">>, n)
                                        /\ \A m \in (b + 2)..(n - 1) : ~At(s, <<"star", "slash">>, m)

\* No comment in front of the statement is of that kind.
Plain(s) == \A b \in DOMAIN s : Odd(s, b) => ~Gaps(s, 1, b)

\* The text is one statement.
Single(s) == \A n \in DOMAIN s : s[n] = "semicolon" => \A m \in n..Len(s) : s[m] \in Blanks \cup {"semicolon"}

\* Word stands in s between delimiters, at n or anywhere from p on.
DelimitedAt(s, w, p, n) ==
    /\ At(s, w, n)
    /\ n > p => ~isIdentChar(s[n - 1])
    /\ n + Len(w) <= Len(s) => ~isIdentChar(s[n + Len(w)])

Delimited(s, w, p) == \E n \in p..Len(s) : DelimitedAt(s, w, p, n)

\* One of the keywords stands at p as a whole token.
Begins(s, p, keywords) == s[p] \in keywords /\ (p < Len(s) => s[p + 1] \in Blanks \cup {"lparen", "semicolon"})

\* No data-changing keyword stands from p on.
Clean(s, p) == \A k \in DOMAIN dangerKeywords : ~Delimited(s, <<dangerKeywords[k]>>, p)

\* The comment in front of Classify: "anything not clearly a read or a
\* session-control statement is treated as a mutation so it gets gated".  A
\* text is let through only when the first keyword of its first statement,
\* wherever comments and blanks put it, is a read or a session keyword, and a
\* WITH or EXPLAIN only without any data-changing keyword in all of the text
\* behind it; a single statement that is so is let through.  Nothing is
\* said of the statements behind the first, which only a WITH or EXPLAIN looks
\* at, nor of a text in front of whose statement there is a comment that
\* PostgreSQL may end elsewhere: EachStatementIsGated fails for both.
\* containsWord finds a word exactly when it stands somewhere between
\* delimiters, although the search jumps over whole occurrences and words may
\* overlap themselves.
ClassifyIsConservative ==
    /\ Answered("classify") /\ Plain(job.text) =>
          LET s       == job.text
              start   == {p \in DOMAIN s : CodeAt(s, p)}
              read    == \E p \in start : \/ Begins(s, p, readKeywords)
                                          \/ Begins(s, p, {"WITH", "EXPLAIN"}) /\ Clean(s, p)
              session == \E p \in start : Begins(s, p, sessionKeywords \cup {"PREPARE"})
          IN  /\ (answer = "read" => read) /\ (answer = "session" => session)
              /\ Single(s) => (read => answer = "read") /\ (session => answer = "session")
    /\ Answered("search") => (answer <=> Delimited(job.text, job.word, 1))

\* README: "Each statement is classified and gated conservatively", and "When in
\* doubt, a statement is treated as a mutation".  A text is a mutation when its
\* first statement, behind comments and blanks, begins with a data-changing
\* keyword, or, in a text without comments, one behind a semicolon does.
EachStatementIsGated ==
    Answered("classify") =>
        LET s         == job.text
            Behind(p) == /\ \A n \in DOMAIN s : s[n] \notin {"dash", "slash", "star"}
                         /\ \E b \in 1..(p - 1) : /\ s[b] = "semicolon"
                                                  /\ \A n \in (b + 1)..(p - 1) : s[n] \in Blanks
        IN  (\E p \in DOMAIN s : (CodeAt(s, p) \/ Behind(p)) /\ Begins(s, p, Danger)) => answer = "mutation"

\* Part n of the flag is about column c, and no later one of the first k is.
LastAbout(n, k, c) ==
    /\ job.spec[n].kind # "empty" /\ Lower(job.spec[n].name) = c
    /\ \A l \in (n + 1)..k : job.spec[l].kind # "empty" => Lower(job.spec[l].name) # c

\* What part n of the flag asks for.
Asked(n) == IF job.spec[n].kind = "bare" THEN "redact" ELSE ParseAction(job.spec[n].action)

\* A value of a column whose last rule is to hash or to redact never leaves as
\* it is, whatever its type and however rule and column are spelled; a rule
\* without a colon redacts, and the schema call announces exactly what is done
\* to the value.  A column whose last rule has any other action, or none behind
\* its colon, is sent as it is, like one without a rule, although README says
\* of the columns of a connection that "The raw value never reaches the client".
KnownRuleNeverRaw ==
    Answered("stream") =>
        LET ruled == \E n \in DOMAIN job.spec :
                        LastAbout(n, Len(job.spec), Lower(job.column)) /\ Asked(n) # "none"
        IN  /\ ruled /\ job.value # Null => answer.value.form # "raw"
            /\ ~ruled => answer.value = job.value
            /\ answer.annotated = "none" <=> ~ruled
            /\ answer.value.form \in {"raw", "null"} \cup {answer.annotated}

\* The rows of the schema that have a hint.
Flagged == {job.columns[n] : n \in {m \in DOMAIN job.columns : SuggestAction(job.columns[m][2]) # "none"}}

\* An operator who accepts every suggestion of a scan gets every flagged column
\* protected as suggested, in all spellings, and sees every table it is in;
\* no column is suggested twice.
SuggestionsProtect ==
    Answered("detect") =>
        /\ \A c \in Flagged :
              /\ ActionFor(byColumn, c[2]) = SuggestAction(c[2])
              /\ \E n \in DOMAIN answer : answer[n].name = c[2] /\ Contains(answer[n].tables, c[1])
        /\ \A m, n \in DOMAIN answer : answer[m].name = answer[n].name => m = n
        /\ \A n \in DOMAIN answer : \A t \in DOMAIN answer[n].tables :
              <<answer[n].tables[t], answer[n].name>> \in Flagged

\* What is accepted from an operator can be used as it says.  In a
\* configuration everything is approved only if that was written where it
\* counts, the HTTP mode has a URL and is the mode when only a URL is given in
\* either place, acme has hosts and file mode its files, and the environment
\* wins over the file.  A ttl or a rotation interval is positive, unless it was
\* given in days and is zero or too long for a time.Duration.
AcceptedIsSound ==
    /\ Answered("load") /\ answer # Rejected =>
          LET mode == setString(job.file.mode, job.env.mode)
              url  == setString(job.file.url, job.env.url)
          IN  /\ answer.mode = "auto_approve" <=> mode = "auto_approve"
              /\ answer.mode = "http" => answer.url # Unset
              /\ mode = Unset => answer.mode = (IF url = Unset THEN "auto_deny" ELSE "http")
              /\ job.env.mode # Unset => answer.mode = job.env.mode
              /\ answer.tls = "acme" => answer.hosts # Unset
              /\ answer.tls = "file" => answer.cert # Unset
              /\ answer.timeout \notin {Unset, "0", "bad"}
    /\ Answered("parse") /\ answer.ok =>
          answer.d > 0 \/ (job.unit = "d" /\ (job.n = 0 \/ job.n * Day > MaxWord))

-----------------------------------------------------------------------------
(* Loop invariants *)

\* Searching: nothing before from is what containsWord looks for.
SearchInv ==
    job.op \in {"classify", "search"} =>
        /\ at \in 1..End(job.text)
        /\ job.op = "search" => pc \in {"search", "done"} /\ at = 1 /\ word = job.word
        /\ pc = "search" => /\ word \in Word /\ from \in at..End(job.text)
                            /\ \A n \in at..(from - 1) : ~DelimitedAt(job.text, word, at, n)

\* Classification: at is on the way to the statement, then where it begins;
\* the keywords before i are not in it.
ClassifyInv ==
    job.op = "classify" =>
        LET s == job.text
        IN  /\ pc \in {"strip", "token", "search", "done"}
            /\ pc \in {"strip", "token"} => i = 1
            /\ pc = "strip" /\ Plain(s) =>
                  /\ Gaps(s, 1, at)
                  /\ \A p \in DOMAIN s : Solid(s, p) => (Gaps(s, 1, p) <=> Gaps(s, at, p))
            /\ pc # "strip" /\ Plain(s) => \A p \in DOMAIN s : CodeAt(s, p) <=> p = at
            /\ pc = "search" => /\ i \in DOMAIN dangerKeywords /\ word = <<dangerKeywords[i]>>
                                /\ at \in DOMAIN s /\ Begins(s, at, {"WITH", "EXPLAIN"})
                                /\ \A k \in 1..(i - 1) : ~Delimited(s, <<dangerKeywords[k]>>, at)

\* The last of the first k parts of the flag, or of the first k rules, that is
\* about column c asks for action a.
FlagGives(k, c, a) == \E n \in 1..k : LastAbout(n, k, c) /\ Asked(n) = a

RuleGives(k, c, a) ==
    \E n \in 1..k : /\ Lower(rules[n].name) = c /\ ParseAction(rules[n].action) = a
                    /\ \A l \in (n + 1)..k : Lower(rules[l].name) # c

\* Compilation of a flag: the rules say what the parts read so far say, and the
\* map what the rules read so far say.
StreamInv ==
    job.op = "stream" =>
        LET c == Lower(job.column)
        IN  /\ pc \in {"split", "compile", "done"} /\ i \in Nat \ {0}
            /\ rules \in Seq([name : Name, action : Strings])
            /\ pc = "split" => i <= Len(job.spec) + 1 /\ byColumn = <<>>
            /\ c \in DOMAIN byColumn => byColumn[c] \in {"none", "hash", "redact"}
            /\ \A a \in {"none", "hash", "redact"} :
                  /\ pc = "split" => (FlagGives(i - 1, c, a) <=> RuleGives(Len(rules), c, a))
                  /\ pc = "compile" =>
                        /\ i <= Len(rules) + 1
                        /\ FlagGives(Len(job.spec), c, a) <=> RuleGives(Len(rules), c, a)
                        /\ RuleGives(i - 1, c, a) <=> c \in DOMAIN byColumn /\ byColumn[c] = a

\* A suggestion is there for match m, with its table.
Collected(m) == m[2] \in DOMAIN byCol /\ Contains(byCol[m[2]].tables, m[1])

\* Detection: matches are the flagged rows read so far, suggestions those of
\* the matches read so far, each column once.
DetectInv ==
    job.op = "detect" =>
        /\ pc \in {"scan", "collect", "compile", "done"} /\ i \in Nat \ {0}
        /\ matches \in Seq(Flagged) /\ order \in Seq(Name)
        /\ pc = "scan" =>
              /\ i <= Len(job.columns) + 1 /\ order = <<>> /\ byCol = <<>>
              /\ \A n \in 1..(i - 1) : SuggestAction(job.columns[n][2]) # "none"
                                         => \E m \in DOMAIN matches : matches[m] = job.columns[n]
        /\ pc # "scan" => \A c \in Flagged : \E m \in DOMAIN matches : matches[m] = c
        /\ pc = "collect" => i <= Len(matches) + 1 /\ \A m \in 1..(i - 1) : Collected(matches[m])
        /\ \A n \in DOMAIN order : order[n] \in DOMAIN byCol
        /\ \A d \in DOMAIN byCol : \E n \in DOMAIN order : order[n] = d
        /\ \A m, n \in DOMAIN order : order[m] = order[n] => m = n
        /\ \A d \in DOMAIN byCol :
              /\ byCol[d] \in [action : {SuggestAction(d)}, tables : Seq(Strings)]
              /\ \A t \in DOMAIN byCol[d].tables : <<byCol[d].tables[t], d>> \in Flagged
        /\ pc = "compile" =>
              /\ \A m \in DOMAIN matches : Collected(matches[m])
              /\ rules = Suggestions(byCol, order) /\ i <= Len(rules) + 1
              /\ \A n \in 1..(i - 1) : /\ Lower(rules[n].name) \in DOMAIN byColumn
                                        /\ ActionFor(byColumn, rules[n].name) = SuggestAction(rules[n].name)

ConfigInv == job.op \in {"load", "parse"} => pc \in {job.op, "done"}

IInv ==
    /\ job \in Job
    /\ SearchInv /\ ClassifyInv /\ StreamInv /\ DetectInv /\ ConfigInv
    /\ ClassifyIsConservative /\ KnownRuleNeverRaw /\ SuggestionsProtect /\ AcceptedIsSound
=============================================================================
