------------------------------ MODULE MCBroker ------------------------------
(* Small instances of Broker: requests and operators are model values. *)
EXTENDS Broker
=============================================================================
