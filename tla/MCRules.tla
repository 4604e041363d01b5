------------------------------ MODULE MCRules ------------------------------
(* The jobs of Rules: all inputs of a bounded size over a few samples. *)
EXTENDS Rules

SeqsUpTo(S, n) == UNION {[1..k -> S] : k \in 0..n}

\* Texts of up to four characters and words; behind each of these heads up to
\* three more; and the ways a comment may go on.
Lexemes == {"sp", "nl", "cr", "dash", "slash", "star", "lparen", "semicolon",
            "SELECT", "WITH", "DELETE", "SET", "x"}

Heads == {<<"slash", "star", "star", "slash", "dash", "dash", "nl">>,
          <<"dash", "dash", "x", "cr", "nl", "EXPLAIN", "sp">>,
          <<"WITH", "sp", "x", "DELETE", "sp">>}

CommentTexts(n) ==
    {<<"slash", "star">> \o t : t \in SeqsUpTo({"slash", "star", "sp", "SELECT", "DELETE"}, n)}

Classifying(texts) == {[op |-> "classify", text |-> t] : t \in texts}

ClassifyJobs ==
    Classifying(SeqsUpTo(Lexemes, 4) \cup {h \o t : h \in Heads, t \in SeqsUpTo(Lexemes, 3)}
                  \cup CommentTexts(5))

\* Words that overlap themselves or each other.
SearchJobs ==
    {[op |-> "search", text |-> t, word |-> w] :
        t \in SeqsUpTo({"A", "B", "dot"}, 7), w \in {<<"A">>, <<"A", "A">>, <<"A", "B", "A">>}}

Email == {"email"}
Names == {[parts |-> p, spelling |-> s] : p \in {Email, {"email", "token"}, {"note"}}, s \in {"lower", "Upper"}}

Parts ==
    {[kind |-> "colon", name |-> n, action |-> a] : n \in Names, a \in {"HASH", "redact", "mask", "nothing"}}
       \cup {[kind |-> "bare", name |-> n, action |-> "none"] : n \in Names}
       \cup {[kind |-> "empty"]}

StreamJobs ==
    {[op |-> "stream", spec |-> s, column |-> c, isText |-> t, value |-> v] :
        s \in SeqsUpTo(Parts, 2), c \in {n \in Names : n.parts # {"note"}}, t \in BOOLEAN,
        v \in {Null, [form |-> "raw", of |-> 1]}}

DetectJobs == {[op |-> "detect", columns |-> c] : c \in SeqsUpTo({"t1", "t2"} \X Names, 3)}

File == [mode : {Unset, "http", "auto_approve"}, url : {Unset, "u"}, timeout : {Unset, "5s", "bad"},
         tls : {Unset, "acme"}, hosts : {Unset, "h"}, cert : {Unset, "c"}, required : BOOLEAN]

Env == [mode : {Unset, "dashboard", "open"}, url : {Unset, "v"}, timeout : {Unset, "bad"},
        tls : {Unset, "file"}, hosts : {Unset, "commas"}, cert : {Unset}, required : {Unset, "1", "yes"}]

LoadJobs == {[op |-> "load", file |-> f, env |-> e] : f \in File, e \in Env}

ParseJobs == {[op |-> "parse", unit |-> u, n |-> n] : u \in {"d", "go"}, n \in -3..300}

MCJobs == [classify |-> ClassifyJobs, search |-> SearchJobs, stream |-> StreamJobs,
           detect |-> DetectJobs, load |-> LoadJobs, parse |-> ParseJobs]

\* Two statements, and comments with a statement inside and one behind them.
GateJobs ==
    [classify |-> Classifying(SeqsUpTo({"SELECT", "DELETE", "semicolon", "sp"}, 4) \cup CommentTexts(6))]

MCStrings == STRING
=============================================================================
