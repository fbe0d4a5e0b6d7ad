---------------------------- MODULE MCUcxObjects ----------------------------
(* A small instance of UcxObjects: a remote key of one of two endpoints.  A *)
(* behaviour is followed while it has made at most MaxMade objects besides  *)
(* the context, the worker and the ApplicationContext.                      *)
EXTENDS UcxObjects, FiniteSets, TLC

CONSTANTS e1, e2, r1, MaxMade

MCEpOf == r1 :> e1

FewMade == Cardinality({o \in Objects \ Trunk : py[o] # "none"}) <= MaxMade
=============================================================================
