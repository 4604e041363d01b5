----------------------------- MODULE MCSession -----------------------------
(* Small instances of Session. *)
EXTENDS Session

\* One text of each sort the handlers tell apart.
MCKind == [q \in Query |-> CASE q = "select" -> "read"
                              [] q = "update" -> "mutation"
                              [] q = "schema" -> "read"
                              [] OTHER -> "session"]

MCTxEffect == [q \in Query |-> CASE q = "begin" -> "begin"
                                  [] q = "commit" -> "end"
                                  [] OTHER -> "none"]
=============================================================================
