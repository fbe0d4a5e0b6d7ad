-------------------------- MODULE MCActiveMessages --------------------------
(* Small instances of ActiveMessages: an endpoint e1 and a later one, e2, that *)
(* may get its handle.                                                         *)
EXTENDS ActiveMessages, TLC

CONSTANTS e1, e2, r1, r2, r3, m1, m2, m3

MCCallOn == (r1 :> e1) @@ (r2 :> e1) @@ (r3 :> e2)
MCMsgTo  == (m1 :> e1) @@ (m2 :> e1) @@ (m3 :> e2)
=============================================================================
