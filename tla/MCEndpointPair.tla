--------------------------- MODULE MCEndpointPair ---------------------------
(* Small instances of EndpointPair: a client a and a server b. *)
EXTENDS EndpointPair, TLC

CONSTANTS a, b, c1, c2, d1

MCOther == (a :> b) @@ (b :> a)
\* Two concurrent close() calls of a, one of b.
MCCaller == [c \in Calls |-> IF c = d1 THEN b ELSE a]
OneSends == (a :> 2) @@ (b :> 0)
ServerSends == (a :> 0) @@ (b :> 1)
=============================================================================
