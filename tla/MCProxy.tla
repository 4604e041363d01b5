------------------------------ MODULE MCProxy ------------------------------
(* Small instances of Proxy. *)
EXTENDS Proxy

MCKind == [q \in Query |-> IF q = "update" THEN "mutation" ELSE "read"]

MCTxEffect == [q \in Query |-> "none"]
=============================================================================
