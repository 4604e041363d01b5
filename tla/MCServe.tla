------------------------------ MODULE MCServe ------------------------------
(* A small instance of Serve: four configurations that differ in what matters. *)
EXTENDS Serve

CONSTANTS t1, t2

Setting(tls, required, loopback, token) ==
    [tls |-> tls, required |-> required, loopback |-> loopback, token |-> token]

MCConfigs ==
    {Setting("self_signed", TRUE, FALSE, t1),
     Setting("acme", TRUE, FALSE, NoToken),
     Setting("file", FALSE, TRUE, t2),
     Setting("off", TRUE, TRUE, NoToken)}
=============================================================================
