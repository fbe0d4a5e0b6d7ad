---------------------------- MODULE MCUcxRequest ----------------------------
(* Small instances of UcxRequest: two endpoints, of which e1 detects errors, *)
(* a worker, and calls that share two request handles.                       *)
EXTENDS UcxRequest, TLC

CONSTANTS e1, e2, wk, snd, rcv, other, fls

\* A stream send and receive on e1; a tag receive on e2 and a worker flush
\* that may get their memory.
OwnerReuse == (snd :> e1) @@ (rcv :> e1) @@ (other :> e2) @@ (fls :> wk)
KindReuse  == (snd :> "stream_send") @@ (rcv :> "stream_recv")
              @@ (other :> "tag_recv") @@ (fls :> "flush")

\* A send and a tag receive on e1, a tag receive on e2.
OwnerLive == (snd :> e1) @@ (rcv :> e1) @@ (other :> e2)
KindLive  == (snd :> "tag_send") @@ (rcv :> "tag_recv") @@ (other :> "tag_recv")

\* Tag receives on a healthy endpoint only.
OwnerTags == [o \in Ops |-> e2]
KindTags  == [o \in Ops |-> "tag_recv"]
=============================================================================
