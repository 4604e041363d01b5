----------------------------- MODULE MCRegistry -----------------------------
(* Small instances of Registry: operators, agents and tokens are model values. *)
EXTENDS Registry
=============================================================================
