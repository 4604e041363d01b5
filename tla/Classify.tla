------------------------------ MODULE Classify ------------------------------
(***************************************************************************)
(* internal/policy/classify.go: what kind of statement a text is.          *)
(*                                                                         *)
(* A text is a sequence of characters, but that a run of letters, with     *)
(* case folded as ToUpper does, is one element; two of them in a row are   *)
(* one longer identifier.  A rest of the text, sql[i:] in the code, is the *)
(* position it begins at; the empty one begins behind the last character.  *)
(* The loops of the code are actions of module Rules.                      *)
(***************************************************************************)
EXTENDS Integers, Sequences, FiniteSetsExt

\* A tab is like a space everywhere.
Blanks == {"sp", "cr", "nl"}
Marks  == {"dash", "slash", "star", "lparen", "semicolon", "dot"}

readKeywords == {"SELECT", "SHOW", "TABLE", "VALUES", "FETCH"}

sessionKeywords ==
    {"BEGIN", "START", "COMMIT", "END", "ROLLBACK", "SAVEPOINT", "RELEASE", "SET", "RESET",
     "DISCARD", "DEALLOCATE", "CLOSE", "LISTEN", "UNLISTEN", "CHECKPOINT"}

dangerKeywords ==
    <<"INSERT", "UPDATE", "DELETE", "TRUNCATE", "MERGE", "DROP", "CREATE", "ALTER", "GRANT",
      "REVOKE", "COPY">>

Danger == {dangerKeywords[k] : k \in DOMAIN dangerKeywords}

isIdentChar(c) == c \notin Blanks \cup Marks

End(s) == Len(s) + 1

At(s, word, i) == i + Len(word) <= End(s) /\ \A n \in DOMAIN word : s[i + n - 1] = word[n]

\* strings.Index: the first place of word at or after from, or 0.
Index(s, word, from) ==
    LET places == {i \in from..Len(s) : At(s, word, i)}
    IN  IF places = {} THEN 0 ELSE Min(places)

\* strings.TrimLeft.
TrimLeft(s, from) ==
    LET solid == {i \in from..Len(s) : s[i] \notin Blanks}
    IN  IF solid = {} THEN End(s) ELSE Min(solid)

\* What stripLeading looks for behind the comment that begins at i; empty if
\* none does.
Closer(s, i) ==
    IF At(s, <<"dash", "dash">>, i) THEN <<"nl">>
    ELSE IF At(s, <<"slash", "star">>, i) THEN <<"star", "slash">>
    ELSE <<>>

firstToken(s, from) ==
    LET ends == {i \in from..Len(s) : s[i] \in Blanks \cup {"lparen", "semicolon"}}
    IN  SubSeq(s, from, (IF ends = {} THEN End(s) ELSE Min(ends)) - 1)

\* The word at i is an identifier of its own in the text that begins at from.
Alone(s, word, i, from) ==
    LET before == IF i = from THEN TRUE ELSE ~isIdentChar(s[i - 1])
        after  == IF i + Len(word) = End(s) THEN TRUE ELSE ~isIdentChar(s[i + Len(word)])
    IN  before /\ after

\* Classify's switch over the first token; "search" where it scans the body for
\* danger keywords.  EXPLAIN ANALYZE is a read like EXPLAIN once none was found.
Switch(token) ==
    LET Is(keywords) == \E kw \in keywords : token = <<kw>>
    IN  IF Is({"WITH", "EXPLAIN"}) THEN "search"
        ELSE IF Is(readKeywords) THEN "read"
        ELSE IF Is(sessionKeywords \cup {"PREPARE"}) THEN "session"
        ELSE "mutation"
=============================================================================
