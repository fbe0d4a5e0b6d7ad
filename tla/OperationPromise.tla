-------------------------- MODULE OperationPromise --------------------------
(***************************************************************************)
(* What a communication call of ucx-py promises its caller, and nothing of *)
(* how: the asyncio.Future of a call leaves "idle" once, settles once, and *)
(* is settled with a cancellation or a connection error only when the      *)
(* endpoint (or the worker) it was issued on had failed or was closed.     *)
(* An owner only ever moves from open to error to closed.                  *)
(***************************************************************************)
CONSTANTS
    Ops,        \* the calls
    Owners,     \* endpoints and the worker
    Owner       \* the owner of each call

VARIABLES
    promise,    \* what the caller of each call sees
    life        \* "open", "error" or "closed", for each owner

vars == <<promise, life>>

Blameless == {"ok", "UCXMsgTruncated", "abandoned"}
Blaming   == {"UCXCanceled", "UCXError", "UCXNotConnected"}

Init ==
    /\ promise = [o \in Ops |-> "idle"]
    /\ life = [w \in Owners |-> "open"]

\* One call keeps its promise, or is made, or settles.
Kept(o) ==
    \/ promise'[o] = promise[o]
    \/ /\ promise[o] = "idle"
       /\ life[Owner[o]] # "closed"
       /\ promise'[o] \in {"pending", "ok", "raised"}
    \/ /\ promise[o] = "pending"
       /\ promise'[o] \in Blameless
    \/ /\ promise[o] = "pending"
       /\ life'[Owner[o]] # "open"
       /\ promise'[o] \in Blaming

Ages(w) ==
    \/ life'[w] = life[w]
    \/ life[w] = "open" /\ life'[w] = "error"
    \/ life'[w] = "closed"

Next ==
    /\ promise' \in [Ops -> {"idle", "pending", "raised"} \cup Blameless \cup Blaming]
    /\ life' \in [Owners -> {"open", "error", "closed"}]
    /\ \A o \in Ops : Kept(o)
    /\ \A w \in Owners : Ages(w)

Spec == Init /\ [][Next]_vars
=============================================================================
