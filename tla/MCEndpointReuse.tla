--------------------------- MODULE MCEndpointReuse ---------------------------
(* A small instance of EndpointReuse: two connections one way, then one back.  *)
EXTENDS EndpointReuse, TLC

CONSTANTS a, b

MCFrom == [c \in Conns |-> IF c = 3 THEN b ELSE a]
MCTo   == [c \in Conns |-> IF c = 3 THEN a ELSE b]
MCAborters == {Client(1)}
MCClosers == {Client(1), Server(1), Client(2)}
=============================================================================
