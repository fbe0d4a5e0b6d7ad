-------------------------- MODULE UcxRequestProofs --------------------------
(***************************************************************************)
(* Proofs about UcxRequest, for every set of calls, handles and endpoints. *)
(* The inductive invariant Inv strengthens the checked ones with bounds on *)
(* the uids in use and with what the wrappers scheduled for cancellation   *)
(* can still point at.                                                     *)
(***************************************************************************)
EXTENDS UcxRequest, TLAPS

\* No wrapper carries a uid that is still to be given out, and a wrapper
\* scheduled for cancellation is stale or belongs to an owner that failed.
UidsIssued ==
    /\ \A h \in Handles : uid[h] <= counter
    /\ \A w \in toCancel : w.uid # 0 /\ w.uid <= counter

ToCancelOwned ==
    \A w \in toCancel : Live(w) => info[w.h] # NoOp /\ state[Owner[info[w.h]]] # "open"

\* Only requests of failed or closed owners are bound to complete.
DueOwned ==
    \A h \in due : info[h] # NoOp /\ state[Owner[info[h]]] # "open"

\* A call that was never made, or raised, or settled has no request.
InfoPending ==
    \A h \in Handles : info[h] # NoOp => future[info[h]] \in {"pending", "abandoned"}

Inv ==
    /\ TypeOK
    /\ RequestIdentity
    /\ UidsIssued
    /\ InflightLive
    /\ ToCancelOwned
    /\ DueOwned
    /\ InfoPending
    /\ NoOrphan
    /\ NoStrayCancel

-----------------------------------------------------------------------------
Settled == {"ok", "UCXCanceled", "UCXError", "UCXNotConnected", "UCXMsgTruncated"}

\* A completion callback always settles the future, and with a cancellation
\* only for the cancelled status (the three callbacks of transfer_*.pyx).
LEMMA OutcomeSettles ==
    ASSUME NEW o \in Ops, NEW s \in Statuses
    PROVE  /\ Outcome(o, s) \in Settled
           /\ Outcome(o, s) = "UCXCanceled" <=> s = "CANCELED"
BY DEF Outcome, SendCallback, TagRecvCallback, StreamRecvCallback, Settled, Statuses

\* The initial state satisfies the invariant.
LEMMA InitInv == Init => Inv
<1> SUFFICES ASSUME Init PROVE Inv
  OBVIOUS
<1> USE RequestAssumption DEF Init
<1>1. TypeOK
  BY DEF TypeOK, Futures, Wrappers
<1>2. RequestIdentity /\ UidsIssued /\ InfoPending
  BY DEF RequestIdentity, UidsIssued, InfoPending
<1>3. InflightLive /\ ToCancelOwned /\ DueOwned
  BY DEF InflightLive, ToCancelOwned, DueOwned
<1>4. NoOrphan /\ NoStrayCancel
  BY DEF NoOrphan, NoStrayCancel
<1> QED BY <1>1, <1>2, <1>3, <1>4 DEF Inv

\* A step that leaves every variable alone keeps the invariant.
LEMMA StutterInv == Inv /\ UNCHANGED vars => Inv'
BY DEF Inv, vars, TypeOK, RequestIdentity, UidsIssued, InflightLive, Live, ToCancelOwned,
       DueOwned, InfoPending, NoOrphan, NoStrayCancel

\* A call that settles without a request changes nothing but its own future,
\* which had no request before either.
LEMMA NoRequestInv ==
    ASSUME Inv, NEW o \in Ops, future[o] = "idle",
           NEW r \in {"ok", "raised"}, future' = [future EXCEPT ![o] = r],
           counter' \in counter..MaxUid,
           verdict' \in [Ops -> Statuses \cup {"none"}],
           UNCHANGED <<uid, info, inflight, toCancel, due, state>>
    PROVE  Inv'
<1> USE DEF Inv
<1>1. TypeOK'
  <2>1. counter' \in 0..MaxUid
    BY RequestAssumption DEF TypeOK
  <2>2. future' \in [Ops -> Futures]
    BY DEF TypeOK, Futures
  <2> QED BY <2>1, <2>2 DEF TypeOK
<1>2. RequestIdentity' /\ InflightLive' /\ ToCancelOwned' /\ DueOwned'
  BY DEF RequestIdentity, InflightLive, ToCancelOwned, DueOwned, Live
<1>3. UidsIssued'
  BY RequestAssumption DEF UidsIssued, TypeOK, Wrappers
<1>4. InfoPending'
  BY RequestAssumption DEF InfoPending, TypeOK
<1>5. NoOrphan'
  BY DEF NoOrphan, TypeOK
<1>6. NoStrayCancel'
  BY DEF NoStrayCancel, TypeOK
<1> QED BY <1>1, <1>2, <1>3, <1>4, <1>5, <1>6

\* Registering a request in progress keeps the invariant: its uid is new.
LEMMA IssuePendingInv ==
    ASSUME Inv, NEW o \in Ops, NEW h \in Handles, IssuePending(o, h)
    PROVE  Inv'
<1> USE DEF Inv
<1> DEFINE w == [h |-> h, uid |-> counter + 1]
<1>0. /\ counter \in Nat /\ counter + 1 \in 1..MaxUid /\ w \in Wrappers
      /\ Owner[o] \in Owners /\ info[h] = NoOp /\ o # NoOp /\ uid[h] = 0
      /\ \A g \in Handles : uid[g] \in Nat /\ uid[g] # counter + 1
  <2>1. counter \in Nat /\ counter + 1 \in 1..MaxUid /\ MaxUid \in Nat
    BY RequestAssumption DEF TypeOK, IssuePending
  <2>2. w \in Wrappers
    BY <2>1 DEF Wrappers
  <2>3. Owner[o] \in Owners /\ o # NoOp
    BY RequestAssumption
  <2>4. info[h] = NoOp /\ uid[h] = 0
    BY DEF Free, RequestIdentity, IssuePending
  <2>5. \A g \in Handles : uid[g] \in Nat /\ uid[g] # counter + 1
    BY <2>1 DEF UidsIssued, TypeOK
  <2> QED BY <2>1, <2>2, <2>3, <2>4, <2>5
<1>1. TypeOK'
  BY <1>0, RequestAssumption DEF TypeOK, Futures, IssuePending
<1>2. RequestIdentity'
  <2>1. \A g \in Handles : info[g] # o
    BY <1>0 DEF InfoPending, IssuePending, Started, CanIssue
  <2> QED BY <1>0, <2>1 DEF RequestIdentity, TypeOK, IssuePending
<1>3. UidsIssued'
  BY <1>0 DEF UidsIssued, TypeOK, Wrappers, IssuePending
<1>4. InflightLive'
  <2> SUFFICES ASSUME NEW e \in Owners, NEW v \in inflight'[e]
               PROVE  /\ v.uid # 0 /\ Live(v)'
                      /\ info'[v.h] # NoOp /\ Owner[info'[v.h]] = e
    BY DEF InflightLive
  <2>1. CASE v \in inflight[e]
    BY <2>1, <1>0 DEF InflightLive, TypeOK, Wrappers, Live, IssuePending
  <2>2. CASE v \notin inflight[e]
    <3>1. v = w /\ e = Owner[o]
      BY <2>2, <1>0 DEF TypeOK, IssuePending
    <3> QED BY <3>1, <1>0 DEF TypeOK, Live, IssuePending
  <2> QED BY <2>1, <2>2
<1>5. ToCancelOwned'
  <2> SUFFICES ASSUME NEW v \in toCancel, Live(v)'
               PROVE  info'[v.h] # NoOp /\ state[Owner[info'[v.h]]] # "open"
    BY DEF ToCancelOwned, IssuePending
  <2>1. v.h # h
    BY <1>0 DEF UidsIssued, TypeOK, Wrappers, Live, IssuePending
  <2> QED BY <2>1, <1>0 DEF ToCancelOwned, TypeOK, Wrappers, Live, IssuePending
<1>6. DueOwned'
  BY <1>0 DEF DueOwned, TypeOK, IssuePending
<1>7. InfoPending'
  BY <1>0 DEF InfoPending, TypeOK, IssuePending
<1>8. NoOrphan'
  <2> SUFFICES ASSUME NEW p \in Ops, future'[p] = "pending", state[Worker] = "open"
               PROVE  \E g \in Handles :
                        /\ info'[g] = p
                        /\ \/ [h |-> g, uid |-> uid'[g]] \in inflight'[Owner[p]]
                           \/ g \in due'
    BY DEF NoOrphan, IssuePending
  <2>1. CASE p = o
    BY <2>1, <1>0 DEF TypeOK, IssuePending
  <2>2. CASE p # o
    <3>1. PICK g \in Handles :
            /\ info[g] = p
            /\ [h |-> g, uid |-> uid[g]] \in inflight[Owner[p]] \/ g \in due
      BY <2>2 DEF NoOrphan, TypeOK, IssuePending
    <3>2. g # h
      BY <3>1, <1>0, RequestAssumption
    <3>4. info'[g] = p /\ uid'[g] = uid[g]
      BY <3>1, <3>2 DEF TypeOK, IssuePending
    <3>5. due \subseteq due'
      BY DEF IssuePending
    <3>3. inflight[Owner[p]] \subseteq inflight'[Owner[p]]
      BY <1>0, RequestAssumption DEF TypeOK, IssuePending
    <3> QED BY <3>1, <3>3, <3>4, <3>5
  <2> QED BY <2>1, <2>2
<1>9. NoStrayCancel'
  BY DEF NoStrayCancel, TypeOK, IssuePending
<1> QED BY <1>1, <1>2, <1>3, <1>4, <1>5, <1>6, <1>7, <1>8, <1>9

-----------------------------------------------------------------------------
(* Callbacks, in general: S is the set of requests whose callbacks run, all  *)
(* with status s.                                                            *)

\* What the callbacks do to the requests alone: identity and bounds survive.
LEMMA CallbacksRequests ==
    ASSUME Inv, NEW S \in SUBSET Handles, NEW s \in Statuses, Callbacks(S, s)
    PROVE  /\ uid' \in [Handles -> 0..MaxUid]
           /\ info' \in [Handles -> Ops \cup {NoOp}]
           /\ verdict' \in [Ops -> Statuses \cup {"none"}]
           /\ RequestIdentity'
           /\ \A h \in Handles : uid'[h] <= counter
<1> USE DEF Inv, Callbacks
<1>1. uid' \in [Handles -> 0..MaxUid] /\ info' \in [Handles -> Ops \cup {NoOp}]
  BY RequestAssumption DEF TypeOK
<1>2. verdict' \in [Ops -> Statuses \cup {"none"}]
  BY DEF TypeOK
<1>3. RequestIdentity'
  BY DEF RequestIdentity, TypeOK
<1>4. \A h \in Handles : uid'[h] <= counter
  BY DEF UidsIssued, TypeOK
<1> QED BY <1>1, <1>2, <1>3, <1>4

\* What the callbacks do to the futures: a future changes only from pending
\* to settled, and only when its request was called back.
LEMMA CallbacksFutures ==
    ASSUME Inv, NEW S \in SUBSET Handles, NEW s \in Statuses, Callbacks(S, s)
    PROVE  /\ future' \in [Ops -> Futures]
           /\ \A o \in Ops : \/ future'[o] = future[o]
                            \/ /\ future[o] = "pending"
                               /\ \E h \in S : info[h] = o
                               /\ future'[o] = Outcome(o, s)
                               /\ future'[o] \in Settled
           /\ \A h \in S : info[h] \in Ops => future'[info[h]] # "pending"
           /\ InfoPending'
<1> USE DEF Inv, Callbacks, CbFunc
<1>1. \A o \in Ops : Outcome(o, s) \in Settled
  BY OutcomeSettles
<1>2. \A o \in Ops : \/ future'[o] = future[o]
                     \/ /\ future[o] = "pending"
                        /\ \E h \in S : info[h] = o
                        /\ future'[o] = Outcome(o, s)
                        /\ future'[o] \in Settled
  BY <1>1
<1>3. future' \in [Ops -> Futures]
  BY <1>1 DEF TypeOK, Futures, Settled
<1>4. \A h \in S : info[h] \in Ops => future'[info[h]] # "pending"
  BY <1>1 DEF Settled
<1>5. InfoPending'
  BY <1>2, <1>4 DEF InfoPending, TypeOK, RequestIdentity
<1> QED BY <1>2, <1>3, <1>4, <1>5

\* No orphan: a request that survives keeps its place in the in-flight set of
\* its owner, or was asked to complete (D).
LEMMA CallbacksNoOrphan ==
    ASSUME Inv, NEW S \in SUBSET Handles, NEW s \in Statuses, Callbacks(S, s),
           state'[Worker] = "open" => state[Worker] = "open",
           \A h \in Handles \ S : info[h] \in Ops =>
              \/ h \in due'
              \/ /\ h \notin due
                 /\ [h |-> h, uid |-> uid[h]] \in inflight[Owner[info[h]]] =>
                       [h |-> h, uid |-> uid[h]] \in inflight'[Owner[info[h]]]
    PROVE  NoOrphan'
<1> SUFFICES ASSUME NEW p \in Ops, future'[p] = "pending", state[Worker] = "open"
             PROVE  \E g \in Handles :
                      /\ info'[g] = p
                      /\ \/ [h |-> g, uid |-> uid'[g]] \in inflight'[Owner[p]]
                         \/ g \in due'
  BY DEF NoOrphan
<1>1. future[p] = "pending"
  <2>1. \/ future'[p] = future[p]
        \/ future'[p] \in Settled
    BY CallbacksFutures
  <2> QED BY <2>1 DEF Settled
<1>2. PICK g \in Handles :
        /\ info[g] = p
        /\ [h |-> g, uid |-> uid[g]] \in inflight[Owner[p]] \/ g \in due
  BY <1>1 DEF NoOrphan, Inv
<1>3. g \notin S
  <2>1. \A h \in S : info[h] \in Ops => future'[info[h]] # "pending"
    BY CallbacksFutures
  <2> QED BY <1>2, <2>1
<1>4. info'[g] = p /\ uid'[g] = uid[g]
  BY <1>2, <1>3 DEF Callbacks
<1> QED BY <1>2, <1>3, <1>4

\* A wrapper that survives discard() still names its own request.
LEMMA DiscardedLive ==
    ASSUME Inv, NEW S \in SUBSET Handles, NEW s \in Statuses, Callbacks(S, s),
           NEW e \in Owners, NEW v \in Discarded(e, S)
    PROVE  /\ v \in inflight[e] /\ v.uid # 0 /\ v.h \in Handles \ S /\ Live(v)'
           /\ info'[v.h] = info[v.h] /\ info[v.h] # NoOp /\ Owner[info[v.h]] = e
<1>1. v \in inflight[e] /\ v \in Wrappers /\ v.h \in Handles
  BY DEF Inv, TypeOK, Discarded, Wrappers
<1>2. v.uid # 0 /\ v.uid = uid[v.h] /\ info[v.h] # NoOp /\ Owner[info[v.h]] = e
  BY <1>1 DEF Inv, InflightLive, Live
<1>3. v.h \notin S
  BY <1>1, <1>2 DEF Discarded
<1>4. uid'[v.h] = uid[v.h] /\ info'[v.h] = info[v.h]
  BY <1>1, <1>3 DEF Callbacks
<1> QED BY <1>1, <1>2, <1>3, <1>4 DEF Live

\* A wrapper scheduled for cancellation that is live after the callbacks was
\* live before and names the same request.
LEMMA ToCancelLive ==
    ASSUME Inv, NEW S \in SUBSET Handles, NEW s \in Statuses, Callbacks(S, s),
           NEW v \in toCancel, v.uid = uid'[v.h]
    PROVE  /\ v.h \in Handles \ S /\ info'[v.h] = info[v.h]
           /\ info[v.h] # NoOp /\ state[Owner[info[v.h]]] # "open"
<1>1. v \in Wrappers /\ v.h \in Handles /\ v.uid # 0
  BY DEF Inv, TypeOK, UidsIssued, Wrappers
<1>2. v.h \notin S
  BY <1>1 DEF Callbacks
<1>3. v.uid = uid[v.h] /\ info'[v.h] = info[v.h]
  BY <1>1, <1>2 DEF Callbacks
<1>4. info[v.h] # NoOp /\ state[Owner[info[v.h]]] # "open"
  BY <1>3 DEF Inv, ToCancelOwned, Live
<1> QED BY <1>1, <1>2, <1>3, <1>4

\* The owner of a request.
LEMMA InfoOwner ==
    ASSUME Inv, NEW h \in Handles, info[h] # NoOp
    PROVE  info[h] \in Ops /\ Owner[info[h]] \in Owners
BY RequestAssumption DEF Inv, TypeOK

\* A completion keeps the invariant.
LEMMA CompleteInv ==
    ASSUME Inv, NEW h \in Handles, NEW s \in Statuses, Complete(h, s)
    PROVE  Inv'
<1>1. /\ Callbacks({h}, s) /\ {h} \in SUBSET Handles /\ info[h] # NoOp
      /\ inflight' = [e \in Owners |-> Discarded(e, {h})] /\ due' = due \ {h}
      /\ counter' = counter /\ toCancel' = toCancel /\ state' = state
      /\ s = "CANCELED" => state[Owner[info[h]]] # "open"
  BY DEF Complete, Free, Inv, DueOwned
<1>2. TypeOK'
  <2>1. inflight' \in [Owners -> SUBSET Wrappers]
    BY <1>1 DEF Inv, TypeOK, Discarded
  <2> QED BY <1>1, <2>1, CallbacksRequests, CallbacksFutures DEF Inv, TypeOK
<1>3. RequestIdentity' /\ InfoPending'
  BY <1>1, CallbacksRequests, CallbacksFutures
<1>4. UidsIssued'
  <2>1. \A g \in Handles : uid'[g] <= counter
    BY <1>1, CallbacksRequests
  <2> QED BY <1>1, <2>1 DEF Inv, UidsIssued
<1>5. InflightLive'
  BY <1>1, DiscardedLive DEF InflightLive
<1>6. ToCancelOwned'
  BY <1>1, ToCancelLive DEF ToCancelOwned, Live
<1>7. DueOwned'
  BY <1>1 DEF DueOwned, Inv, Callbacks, TypeOK
<1>8. NoOrphan'
  <2>1. ASSUME NEW g \in Handles \ {h}, info[g] \in Ops, g \notin due',
               [h |-> g, uid |-> uid[g]] \in inflight[Owner[info[g]]]
        PROVE  [h |-> g, uid |-> uid[g]] \in inflight'[Owner[info[g]]]
    <3>1. Owner[info[g]] \in Owners /\ info[g] # NoOp
      BY <2>1, InfoOwner, RequestAssumption
    <3>2. uid[g] # uid[h]
      BY <2>1, <3>1, <1>1 DEF Inv, RequestIdentity
    <3> QED BY <1>1, <2>1, <3>1, <3>2 DEF Discarded
  <2>2. \A g \in Handles \ {h} : g \notin due' => g \notin due
    BY <1>1
  <2> QED BY <1>1, <2>1, <2>2, CallbacksNoOrphan
<1>9. NoStrayCancel'
  <2> SUFFICES ASSUME NEW o \in Ops, future'[o] = "UCXCanceled"
               PROVE  state[Owner[o]] # "open"
    BY <1>1 DEF NoStrayCancel
  <2>0. \/ future'[o] = future[o]
        \/ (\E g \in {h} : info[g] = o) /\ future'[o] = Outcome(o, s)
    BY <1>1, CallbacksFutures
  <2>1. CASE future'[o] = future[o]
    BY <2>1 DEF Inv, NoStrayCancel
  <2>2. CASE future'[o] # future[o]
    BY <2>0, <2>2, <1>1, OutcomeSettles
  <2> QED BY <2>1, <2>2
<1> QED BY <1>2, <1>3, <1>4, <1>5, <1>6, <1>7, <1>8, <1>9 DEF Inv

\* Cancelling a set of wrappers keeps the invariant when the live ones among
\* them belong to owners that are not open (any more), and the in-flight sets
\* forget only what was discarded or cancelled.
LEMMA CancelMsgsInv ==
    ASSUME Inv, NEW ws \in SUBSET Wrappers, NEW S \in SUBSET Handles, CancelMsgs(ws, S),
           counter' = counter, toCancel' \subseteq toCancel,
           state' \in [Owners -> {"open", "error", "closed"}],
           \A e \in Owners : state'[e] = state[e] \/ state'[e] = "closed",
           \A w \in ws : Live(w) => info[w.h] # NoOp /\ state'[Owner[info[w.h]]] # "open",
           inflight' \in [Owners -> SUBSET Wrappers],
           \A e \in Owners : inflight'[e] \subseteq Discarded(e, S),
           \A e \in Owners : Discarded(e, S) \subseteq inflight'[e] \/ inflight[e] \subseteq ws
    PROVE  Inv'
<1> DEFINE asked == {w.h : w \in {v \in ws : Live(v)}}
<1>1. /\ Callbacks(S, "CANCELED") /\ "CANCELED" \in Statuses
      /\ due' = (due \cup asked) \ S /\ S \subseteq asked
  BY DEF CancelMsgs, Statuses
<1>2. asked \subseteq Handles /\ \A h \in asked : info[h] # NoOp /\ state'[Owner[info[h]]] # "open"
  BY DEF Wrappers
<1>a. \A e \in Owners : state[e] # "open" => state'[e] # "open"
  OBVIOUS
<1> HIDE DEF asked
<1>b. Worker \in Owners /\ \A o \in Ops : Owner[o] \in Owners
  BY RequestAssumption DEF Owners
<1>3. TypeOK'
  BY <1>1, <1>2, CallbacksRequests, CallbacksFutures DEF Inv, TypeOK
<1>4. RequestIdentity' /\ InfoPending'
  BY <1>1, CallbacksRequests, CallbacksFutures
<1>5. UidsIssued'
  <2>1. \A g \in Handles : uid'[g] <= counter
    BY <1>1, CallbacksRequests
  <2> QED BY <2>1 DEF Inv, UidsIssued
<1>6. InflightLive'
  BY <1>1, DiscardedLive DEF InflightLive
<1>7. ToCancelOwned'
  <2> SUFFICES ASSUME NEW v \in toCancel', v.uid = uid'[v.h]
               PROVE  info'[v.h] # NoOp /\ state'[Owner[info'[v.h]]] # "open"
    BY DEF ToCancelOwned, Live
  <2>1. /\ v.h \in Handles /\ info'[v.h] = info[v.h]
        /\ info[v.h] # NoOp /\ state[Owner[info[v.h]]] # "open"
    BY <1>1, ToCancelLive
  <2>2. Owner[info[v.h]] \in Owners
    BY <2>1, InfoOwner
  <2> QED BY <2>1, <2>2, <1>a
<1>8. DueOwned'
  <2> SUFFICES ASSUME NEW g \in due' PROVE info'[g] # NoOp /\ state'[Owner[info'[g]]] # "open"
    BY DEF DueOwned
  <2>1. g \in Handles \ S /\ info'[g] = info[g]
    BY <1>1, <1>2 DEF Callbacks, Inv, TypeOK
  <2>2. CASE g \in asked
    BY <2>1, <2>2, <1>2
  <2>3. CASE g \in due
    <3>1. info[g] # NoOp /\ state[Owner[info[g]]] # "open"
      BY <2>3 DEF Inv, DueOwned
    <3>2. Owner[info[g]] \in Owners
      BY <3>1, <2>1, InfoOwner
    <3> QED BY <2>1, <3>1, <3>2, <1>a
  <2> QED BY <1>1, <2>2, <2>3
<1>9. NoOrphan'
  <2>1. ASSUME NEW g \in Handles \ S, info[g] \in Ops, g \notin due'
        PROVE  /\ g \notin due
               /\ [h |-> g, uid |-> uid[g]] \in inflight[Owner[info[g]]] =>
                     [h |-> g, uid |-> uid[g]] \in inflight'[Owner[info[g]]]
    <3>1. g \notin due /\ g \notin asked
      BY <2>1, <1>1
    <3> SUFFICES ASSUME [h |-> g, uid |-> uid[g]] \in inflight[Owner[info[g]]]
                 PROVE  [h |-> g, uid |-> uid[g]] \in inflight'[Owner[info[g]]]
      BY <3>1
    <3>2. [h |-> g, uid |-> uid[g]] \notin ws
      BY <3>1 DEF asked, Live
    <3>3. Owner[info[g]] \in Owners /\ info[g] # NoOp
      BY <2>1, InfoOwner, RequestAssumption
    <3>4. \A h \in S : uid[g] # uid[h]
      BY <2>1, <3>3 DEF Inv, RequestIdentity
    <3>5. [h |-> g, uid |-> uid[g]] \in Discarded(Owner[info[g]], S)
      BY <3>4 DEF Discarded
    <3> QED BY <3>2, <3>3, <3>5
  <2>2. state'[Worker] = "open" => state[Worker] = "open"
    BY <1>a, <1>b
  <2> QED BY <1>1, <2>1, <2>2, CallbacksNoOrphan
<1>10. NoStrayCancel'
  <2> SUFFICES ASSUME NEW o \in Ops, future'[o] = "UCXCanceled"
               PROVE  state'[Owner[o]] # "open"
    BY DEF NoStrayCancel
  <2>1. CASE future'[o] = future[o]
    BY <2>1, <1>a, <1>b DEF Inv, NoStrayCancel
  <2>2. CASE future'[o] # future[o]
    <3>1. PICK g \in S : info[g] = o
      BY <2>2, <1>1, CallbacksFutures
    <3> QED BY <3>1, <1>1, <1>2
  <2> QED BY <2>1, <2>2
<1> QED BY <1>3, <1>4, <1>5, <1>6, <1>7, <1>8, <1>9, <1>10 DEF Inv

-----------------------------------------------------------------------------
(* The remaining actions, and the theorem.                                   *)

\* Discarding only takes wrappers away.
LEMMA DiscardedType ==
    ASSUME Inv, NEW S \in SUBSET Handles
    PROVE  \A e \in Owners : Discarded(e, S) \subseteq inflight[e] /\ inflight[e] \subseteq Wrappers
BY DEF Inv, TypeOK, Discarded

\* The arm task cancels only messages of owners that failed or were closed.
LEMMA CancelInflightInv ==
    ASSUME Inv, NEW S \in SUBSET Handles, CancelInflight(S)
    PROVE  Inv'
<1>1. /\ CancelMsgs(toCancel, S) /\ toCancel' = {} /\ counter' = counter /\ state' = state
      /\ inflight' = [e \in Owners |-> Discarded(e, S)]
  BY DEF CancelInflight
<1>2. toCancel \in SUBSET Wrappers /\ state \in [Owners -> {"open", "error", "closed"}]
  BY DEF Inv, TypeOK
<1>3. \A w \in toCancel : Live(w) => info[w.h] # NoOp /\ state[Owner[info[w.h]]] # "open"
  BY DEF Inv, ToCancelOwned
<1>4. inflight' \in [Owners -> SUBSET Wrappers]
  BY <1>1, DiscardedType
<1> QED BY <1>1, <1>2, <1>3, <1>4, CancelMsgsInv

\* The endpoint finalizer cancels only the endpoint's own messages.
LEMMA EpFinalizeInv ==
    ASSUME Inv, NEW e \in Endpoints, NEW S \in SUBSET Handles, EpFinalize(e, S)
    PROVE  Inv'
<1>1. /\ CancelMsgs(inflight[e], S) /\ toCancel' = toCancel /\ counter' = counter
      /\ state' = [state EXCEPT ![e] = "closed"]
      /\ inflight' = [inflight EXCEPT ![e] = {}]
      /\ e \in Owners
  BY DEF EpFinalize, Owners
<1>2. /\ inflight[e] \in SUBSET Wrappers
      /\ state' \in [Owners -> {"open", "error", "closed"}]
      /\ inflight' \in [Owners -> SUBSET Wrappers]
      /\ \A f \in Owners : state'[f] = state[f] \/ state'[f] = "closed"
  BY <1>1 DEF Inv, TypeOK
<1>3. \A w \in inflight[e] : Live(w) => info[w.h] # NoOp /\ state'[Owner[info[w.h]]] # "open"
  BY <1>1 DEF Inv, InflightLive, TypeOK
<1>4. \A w \in inflight[e] : w.h \in Handles /\ Owner[info[w.h]] = e /\ Live(w)
  BY <1>1 DEF Inv, InflightLive, TypeOK, Wrappers
<1>5. \A h \in S : Owner[info[h]] = e
  BY <1>1, <1>4 DEF CancelMsgs
<1>6. \A f \in Owners : f # e => Discarded(f, S) = inflight[f] /\ inflight'[f] = inflight[f]
  BY <1>1, <1>5 DEF Discarded, Inv, TypeOK
<1>7. inflight'[e] = {}
  BY <1>1 DEF Inv, TypeOK
<1> HIDE DEF Discarded
<1>8. /\ \A f \in Owners : inflight'[f] \subseteq Discarded(f, S)
      /\ \A f \in Owners : Discarded(f, S) \subseteq inflight'[f] \/ inflight[f] \subseteq inflight[e]
  BY <1>6, <1>7
<1> QED BY <1>1, <1>2, <1>3, <1>8, CancelMsgsInv

\* The worker finalizer cancels only the worker's own messages.
LEMMA WorkerFinalizeInv ==
    ASSUME Inv, NEW S \in SUBSET Handles, WorkerFinalize(S)
    PROVE  Inv'
<1>1. /\ CancelMsgs(inflight[Worker], S) /\ toCancel' = toCancel /\ counter' = counter
      /\ state' = [state EXCEPT ![Worker] = "closed"]
      /\ inflight' = [inflight EXCEPT ![Worker] = Discarded(Worker, S)]
      /\ Worker \in Owners
  BY DEF WorkerFinalize, Owners
<1>2. /\ inflight[Worker] \in SUBSET Wrappers
      /\ state' \in [Owners -> {"open", "error", "closed"}]
      /\ inflight' \in [Owners -> SUBSET Wrappers]
      /\ \A f \in Owners : state'[f] = state[f] \/ state'[f] = "closed"
  BY <1>1, DiscardedType DEF Inv, TypeOK
<1>3. \A w \in inflight[Worker] :
         Live(w) => info[w.h] # NoOp /\ state'[Owner[info[w.h]]] # "open"
  BY <1>1 DEF Inv, InflightLive, TypeOK
<1>4. \A w \in inflight[Worker] : Owner[info[w.h]] = Worker
  BY <1>1 DEF Inv, InflightLive, TypeOK
<1>5. \A h \in S : Owner[info[h]] = Worker
  BY <1>1, <1>4 DEF CancelMsgs
<1>6. \A f \in Owners : f # Worker => Discarded(f, S) = inflight[f] /\ inflight'[f] = inflight[f]
  BY <1>1, <1>5 DEF Discarded, Inv, TypeOK
<1>7. inflight'[Worker] = Discarded(Worker, S)
  BY <1>1 DEF Inv, TypeOK
<1>8. \A f \in Owners : inflight'[f] = Discarded(f, S)
  BY <1>6, <1>7
<1> QED BY <1>1, <1>2, <1>3, <1>8, CancelMsgsInv

\* An error callback keeps the invariant: what it schedules is its own.
LEMMA ErrCbInv ==
    ASSUME Inv, NEW e \in Endpoints, ErrCb(e)
    PROVE  Inv'
<1>1. /\ state[e] = "open" /\ state' = [state EXCEPT ![e] = "error"]
      /\ toCancel' = toCancel \cup inflight[e] /\ due \subseteq due' /\ due' \subseteq Handles
      /\ \A h \in due' : h \in due \/ (info[h] # NoOp /\ Owner[info[h]] = e)
      /\ UNCHANGED <<uid, info, counter, inflight, future, verdict>>
      /\ e \in Owners
  BY DEF ErrCb, Owners, Inv, TypeOK
<1>2. TypeOK'
  BY <1>1 DEF Inv, TypeOK
<1>3. RequestIdentity' /\ InflightLive' /\ InfoPending'
  BY <1>1 DEF Inv, RequestIdentity, InflightLive, InfoPending, Live
<1>4. \A w \in inflight[e] :
         /\ w.uid # 0 /\ w.uid <= counter
         /\ info[w.h] # NoOp /\ Owner[info[w.h]] = e
  BY <1>1 DEF Inv, InflightLive, UidsIssued, Live, TypeOK, Wrappers
<1>5. UidsIssued'
  BY <1>1, <1>4 DEF Inv, UidsIssued
<1>a. \A f \in Owners : state[f] # "open" => state'[f] # "open"
  BY <1>1 DEF Inv, TypeOK
<1>b. state'[e] # "open"
  BY <1>1 DEF Inv, TypeOK
<1>6. ToCancelOwned'
  <2> SUFFICES ASSUME NEW v \in toCancel', Live(v)
               PROVE  info[v.h] # NoOp /\ state'[Owner[info[v.h]]] # "open"
    BY <1>1 DEF ToCancelOwned, Live
  <2>1. CASE v \in inflight[e]
    BY <2>1, <1>4, <1>b
  <2>2. CASE v \in toCancel
    <3>1. info[v.h] # NoOp /\ state[Owner[info[v.h]]] # "open" /\ v.h \in Handles
      BY <2>2 DEF Inv, ToCancelOwned, TypeOK, Wrappers
    <3> QED BY <3>1, <1>a, InfoOwner
  <2> QED BY <1>1, <2>1, <2>2
<1>7. DueOwned'
  <2> SUFFICES ASSUME NEW h \in due' PROVE info[h] # NoOp /\ state'[Owner[info[h]]] # "open"
    BY <1>1 DEF DueOwned
  <2>1. CASE h \in due
    <3>1. info[h] # NoOp /\ state[Owner[info[h]]] # "open" /\ h \in Handles
      BY <2>1 DEF Inv, DueOwned, TypeOK
    <3> QED BY <3>1, <1>a, InfoOwner
  <2> QED BY <2>1, <1>1, <1>b
<1>8. NoOrphan'
  <2>1. state'[Worker] = "open" => state[Worker] = "open"
    BY <1>a, RequestAssumption DEF Owners
  <2> QED BY <1>1, <2>1 DEF Inv, NoOrphan
<1>9. NoStrayCancel'
  BY <1>1, <1>a, RequestAssumption DEF Inv, NoStrayCancel
<1> QED BY <1>2, <1>3, <1>5, <1>6, <1>7, <1>8, <1>9 DEF Inv

\* A caller that stops waiting leaves the request to complete.
LEMMA AbandonInv ==
    ASSUME Inv, NEW o \in Ops, Abandon(o)
    PROVE  Inv'
<1>1. /\ future[o] = "pending" /\ future' = [future EXCEPT ![o] = "abandoned"]
      /\ UNCHANGED <<uid, info, counter, inflight, toCancel, due, state, verdict>>
  BY DEF Abandon
<1>2. TypeOK' /\ InfoPending'
  BY <1>1, RequestAssumption DEF Inv, TypeOK, InfoPending, Futures
<1>3. RequestIdentity' /\ InflightLive' /\ ToCancelOwned' /\ DueOwned' /\ UidsIssued'
  BY <1>1 DEF Inv, RequestIdentity, InflightLive, ToCancelOwned, DueOwned, UidsIssued, Live
<1>4. NoOrphan' /\ NoStrayCancel'
  BY <1>1 DEF Inv, NoOrphan, NoStrayCancel, TypeOK
<1> QED BY <1>2, <1>3, <1>4 DEF Inv

\* Every step keeps the invariant.
LEMMA NextInv == Inv /\ [Next]_vars => Inv'
<1> SUFFICES ASSUME Inv, [Next]_vars PROVE Inv'
  OBVIOUS
<1>1. CASE UNCHANGED vars
  BY <1>1, StutterInv
<1>2. ASSUME NEW o \in Ops, IssueRaise(o) PROVE Inv'
  <2>1. counter' \in counter..MaxUid /\ verdict' \in [Ops -> Statuses \cup {"none"}]
    BY <1>2, RequestAssumption DEF IssueRaise, Inv, TypeOK
  <2> QED BY <1>2, <2>1, NoRequestInv DEF IssueRaise, CanIssue
<1>3. ASSUME NEW o \in Ops, IssueImmediate(o) PROVE Inv'
  <2>1. counter' \in counter..MaxUid /\ verdict' \in [Ops -> Statuses \cup {"none"}]
    BY <1>3, RequestAssumption DEF IssueImmediate, Inv, TypeOK, Statuses
  <2> QED BY <1>3, <2>1, NoRequestInv DEF IssueImmediate, Started, CanIssue
<1>4. ASSUME NEW o \in Ops, NEW s \in Statuses, IssueEarly(o, s) PROVE Inv'
  <2>1. counter' \in counter..MaxUid
    BY <1>4, RequestAssumption DEF IssueEarly, Inv, TypeOK
  <2>2. verdict' \in [Ops -> Statuses \cup {"none"}]
    BY <1>4 DEF IssueEarly, Inv, TypeOK
  <2> QED BY <1>4, <2>1, <2>2, NoRequestInv DEF IssueEarly, Started, CanIssue
<1>5. ASSUME NEW o \in Ops, NEW h \in Handles, IssuePending(o, h) PROVE Inv'
  BY <1>5, IssuePendingInv
<1>6. ASSUME NEW h \in Handles, NEW s \in Statuses, Complete(h, s) PROVE Inv'
  BY <1>6, CompleteInv
<1>7. ASSUME NEW o \in Ops, Abandon(o) PROVE Inv'
  BY <1>7, AbandonInv
<1>8. ASSUME NEW e \in Endpoints, ErrCb(e) PROVE Inv'
  BY <1>8, ErrCbInv
<1>9. ASSUME NEW S \in SUBSET Handles, CancelInflight(S) PROVE Inv'
  BY <1>9, CancelInflightInv
<1>10. ASSUME NEW e \in Endpoints, NEW S \in SUBSET Handles, EpFinalize(e, S) PROVE Inv'
  BY <1>10, EpFinalizeInv
<1>11. ASSUME NEW S \in SUBSET Handles, WorkerFinalize(S) PROVE Inv'
  BY <1>11, WorkerFinalizeInv
<1> QED BY <1>1, <1>2, <1>3, <1>4, <1>5, <1>6, <1>7, <1>8, <1>9, <1>10, <1>11 DEF Next

\* The invariant holds in every reachable state.
THEOREM InvHolds == Spec => []Inv
BY InitInv, NextInv, PTL DEF Spec

\* Requests, wrappers and futures keep their types, uids at most the counter.
THEOREM TypeHolds == Spec => []TypeOK
BY InvHolds, PTL DEF Inv

\* A wrapper's uid names one request for good, whatever UCX reuses.
THEOREM IdentityHolds == Spec => []RequestIdentity
BY InvHolds, PTL DEF Inv

\* The worker finalizer's assertion `not req.closed()` never fails.
THEOREM InflightLiveHolds == Spec => []InflightLive
BY InvHolds, PTL DEF Inv

\* No caller waits for a request that no longer exists.
THEOREM NoOrphanHolds == Spec => []NoOrphan
BY InvHolds, PTL DEF Inv

\* Cancelling the messages of a failed endpoint spares the healthy ones.
THEOREM NoStrayCancelHolds == Spec => []NoStrayCancel
BY InvHolds, PTL DEF Inv

-----------------------------------------------------------------------------
(* The calls keep their promise: UcxRequest implements OperationPromise.     *)

\* Which statuses give which results.
LEMMA OutcomeBlame ==
    ASSUME NEW o \in Ops, NEW s \in Statuses
    PROVE  /\ Outcome(o, s) = "ok" => s = "OK"
           /\ Outcome(o, s) \in {"UCXError", "UCXNotConnected"} =>
                 \/ s \in {"ERROR", "NOT_CONNECTED"}
                 \/ s = "SHORT" /\ Kind[o] \notin Recvs
BY DEF Outcome, SendCallback, TagRecvCallback, StreamRecvCallback, Statuses, Recvs

\* What a step may do to one future.
KeptStep(o) ==
    \/ future'[o] = future[o]
    \/ /\ future[o] = "idle" /\ state[Owner[o]] # "closed"
       /\ future'[o] \in {"pending", "ok", "raised"}
    \/ /\ future[o] = "pending"
       /\ future'[o] \in {"ok", "UCXMsgTruncated", "abandoned"}
    \/ /\ future[o] = "pending" /\ state'[Owner[o]] # "open"
       /\ future'[o] \in {"UCXCanceled", "UCXError", "UCXNotConnected"}

\* A call is made at most once, on an owner that is not closed.
LEMMA IssueKept ==
    ASSUME Inv, NEW o \in Ops, CanIssue(o), NEW r \in {"pending", "ok", "raised"},
           future' = [future EXCEPT ![o] = r], NEW p \in Ops
    PROVE  KeptStep(p)
BY DEF Inv, TypeOK, CanIssue, KeptStep

\* A cancellation settles calls of owners that are not open any more.
LEMMA CancelKept ==
    ASSUME Inv, Inv', NEW S \in SUBSET Handles, Callbacks(S, "CANCELED"), NEW o \in Ops
    PROVE  KeptStep(o)
<1>1. "CANCELED" \in Statuses
  BY DEF Statuses
<1>2. \/ future'[o] = future[o]
      \/ future[o] = "pending" /\ future'[o] = Outcome(o, "CANCELED")
  BY <1>1, CallbacksFutures
<1>3. Outcome(o, "CANCELED") = "UCXCanceled"
  BY <1>1, OutcomeSettles
<1>4. future'[o] = "UCXCanceled" => state'[Owner[o]] # "open"
  BY DEF Inv, NoStrayCancel
<1> QED BY <1>2, <1>3, <1>4 DEF KeptStep

\* A completion settles one call, and blames its owner only when it may.
LEMMA CompleteKept ==
    ASSUME Inv, NEW h \in Handles, NEW s \in Statuses, Complete(h, s), NEW o \in Ops
    PROVE  KeptStep(o)
<1>1. /\ Callbacks({h}, s) /\ {h} \in SUBSET Handles /\ info[h] # NoOp /\ state' = state
      /\ s = "SHORT" => Kind[info[h]] \in Recvs
      /\ s \in {"CANCELED", "ERROR", "NOT_CONNECTED"} => state[Owner[info[h]]] # "open"
  BY DEF Complete, Free, Inv, DueOwned
<1>2. \/ future'[o] = future[o]
      \/ /\ future[o] = "pending" /\ info[h] = o
         /\ future'[o] = Outcome(o, s) /\ future'[o] \in Settled
  <2>1. \/ future'[o] = future[o]
        \/ /\ future[o] = "pending" /\ (\E g \in {h} : info[g] = o)
           /\ future'[o] = Outcome(o, s) /\ future'[o] \in Settled
    BY <1>1, CallbacksFutures
  <2> QED BY <2>1
<1>3. Outcome(o, s) = "UCXCanceled" => s = "CANCELED"
  BY OutcomeSettles
<1>4. Outcome(o, s) \in {"UCXError", "UCXNotConnected"} =>
         s \in {"ERROR", "NOT_CONNECTED"} \/ (s = "SHORT" /\ Kind[o] \notin Recvs)
  BY OutcomeBlame
<1> QED BY <1>1, <1>2, <1>3, <1>4 DEF KeptStep, Settled

\* Every step of the bindings is a step, or a stutter, of the promise.
LEMMA PromiseStep ==
    ASSUME Inv, Inv', [Next]_vars
    PROVE  [Promise!Next]_<<future, state>>
<1>1. CASE UNCHANGED vars
  BY <1>1 DEF vars
<1>2. CASE Next
  <2>0. /\ future' \in [Ops -> Futures]
        /\ state' \in [Owners -> {"open", "error", "closed"}]
        /\ state \in [Owners -> {"open", "error", "closed"}]
    BY DEF Inv, TypeOK
  <2>1. \A o \in Ops : KeptStep(o)
    <3> SUFFICES ASSUME NEW o \in Ops PROVE KeptStep(o)
      OBVIOUS
    <3>1. ASSUME NEW p \in Ops, IssueRaise(p) PROVE KeptStep(o)
      BY <3>1, IssueKept DEF IssueRaise
    <3>2. ASSUME NEW p \in Ops, IssueImmediate(p) PROVE KeptStep(o)
      BY <3>2, IssueKept DEF IssueImmediate, Started
    <3>3. ASSUME NEW p \in Ops, NEW s \in Statuses, IssueEarly(p, s) PROVE KeptStep(o)
      BY <3>3, IssueKept DEF IssueEarly, Started
    <3>4. ASSUME NEW p \in Ops, NEW h \in Handles, IssuePending(p, h) PROVE KeptStep(o)
      BY <3>4, IssueKept DEF IssuePending, Started
    <3>5. ASSUME NEW h \in Handles, NEW s \in Statuses, Complete(h, s) PROVE KeptStep(o)
      BY <3>5, CompleteKept
    <3>6. ASSUME NEW p \in Ops, Abandon(p) PROVE KeptStep(o)
      BY <3>6 DEF Abandon, KeptStep, Inv, TypeOK
    <3>7. ASSUME NEW e \in Endpoints, ErrCb(e) PROVE KeptStep(o)
      BY <3>7 DEF ErrCb, KeptStep
    <3>8. ASSUME NEW S \in SUBSET Handles, CancelInflight(S) PROVE KeptStep(o)
      BY <3>8, CancelKept DEF CancelInflight, CancelMsgs
    <3>9. ASSUME NEW e \in Endpoints, NEW S \in SUBSET Handles, EpFinalize(e, S)
          PROVE  KeptStep(o)
      BY <3>9, CancelKept DEF EpFinalize, CancelMsgs
    <3>10. ASSUME NEW S \in SUBSET Handles, WorkerFinalize(S) PROVE KeptStep(o)
      BY <3>10, CancelKept DEF WorkerFinalize, CancelMsgs
    <3> QED BY <1>2, <3>1, <3>2, <3>3, <3>4, <3>5, <3>6, <3>7, <3>8, <3>9, <3>10 DEF Next
  <2>2. \A w \in Owners : Promise!Ages(w)
    <3>1. \/ state' = state
          \/ \E e \in Endpoints : state[e] = "open" /\ state' = [state EXCEPT ![e] = "error"]
          \/ \E e \in Owners : state' = [state EXCEPT ![e] = "closed"]
      BY <1>2 DEF Next, IssueRaise, IssueImmediate, IssueEarly, IssuePending, Complete,
                  Abandon, ErrCb, CancelInflight, EpFinalize, WorkerFinalize, Owners
    <3> QED BY <3>1, <2>0 DEF Promise!Ages
  <2>3. \A o \in Ops : Promise!Kept(o)
    BY <2>1 DEF KeptStep, Promise!Kept, Promise!Blameless, Promise!Blaming
  <2>4. future' \in [Ops -> {"idle", "pending", "raised"} \cup Promise!Blameless
                                                        \cup Promise!Blaming]
    BY <2>0 DEF Futures, Promise!Blameless, Promise!Blaming
  <2> QED BY <2>0, <2>2, <2>3, <2>4 DEF Promise!Next
<1> QED BY <1>1, <1>2

\* UcxRequest implements OperationPromise.
THEOREM PromiseHolds == Spec => PromiseSpec
<1>1. Init => Promise!Init
  BY DEF Init, Promise!Init
<1>2. Inv /\ Inv' /\ [Next]_vars => [Promise!Next]_(Promise!vars)
  BY PromiseStep DEF Promise!vars
<1> QED BY <1>1, <1>2, InvHolds, PTL DEF Spec, PromiseSpec, Promise!Spec

\* A future that a completion callback turns from pending to "ok" had its
\* request completed by UCX with UCS_OK and the full length.
THEOREM HonestCallbackHolds == Spec => HonestCallback
<1>1. Inv /\ [Next]_vars =>
        [\A o \in Ops : future[o] = "pending" /\ future'[o] = "ok" => verdict'[o] = "OK"]_vars
  <2> SUFFICES ASSUME Inv, Next, NEW o \in Ops, future[o] = "pending", future'[o] = "ok"
               PROVE  verdict'[o] = "OK"
    OBVIOUS
  <2>1. ASSUME NEW S \in SUBSET Handles, NEW s \in Statuses, Callbacks(S, s)
        PROVE  verdict'[o] = "OK"
    <3>1. (\E h \in S : info[h] = o) /\ Outcome(o, s) = "ok"
      BY <2>1, CallbacksFutures
    <3>2. s = "OK"
      BY <3>1, OutcomeBlame
    <3> QED BY <2>1, <3>1, <3>2 DEF Callbacks
  <2>2. CASE \E h \in Handles, s \in Statuses : Complete(h, s)
    BY <2>2, <2>1 DEF Complete
  <2>3. CASE \E S \in SUBSET Handles : Callbacks(S, "CANCELED")
    BY <2>3, <2>1 DEF Statuses
  <2>4. CASE \E p \in Ops : future[p] = "idle" /\ \E r \in Futures : future' = [future EXCEPT ![p] = r]
    BY <2>4 DEF Inv, TypeOK
  <2>5. CASE \E p \in Ops : Abandon(p)
    BY <2>5 DEF Abandon, Inv, TypeOK
  <2>6. CASE future' = future
    BY <2>6
  <2> QED BY <2>2, <2>3, <2>4, <2>5, <2>6 DEF Next, IssueRaise, IssueImmediate, IssueEarly,
             IssuePending, Started, CanIssue, ErrCb, CancelInflight, EpFinalize, WorkerFinalize,
             CancelMsgs, Futures
<1> QED BY <1>1, InvHolds, PTL DEF Spec, HonestCallback

-----------------------------------------------------------------------------
(* The steps of CloseResolves and ErrorResolves, which a rule for weak         *)
(* fairness joins: where a call that waits on a closed or failed owner has its *)
(* request, that it stays there, and what completes it.                        *)

\* The call waits for a request that UCX is bound to complete, or that the arm
\* task will cancel.
WillComplete(o, h) == future[o] = "pending" /\ info[h] = o /\ h \in due
WillCancel(o, h) ==
    future[o] = "pending" /\ info[h] = o /\ [h |-> h, uid |-> uid[h]] \in toCancel

Resolved(o) == future[o] # "pending" \/ state[Worker] = "closed"

\* Nothing is in flight on a closed endpoint; what is on one that failed will be
\* completed or cancelled.
Bound ==
    /\ state[Worker] # "error"
    /\ \A e \in Endpoints :
        /\ state[e] = "closed" => inflight[e] = {}
        /\ state[e] = "error" => \A w \in inflight[e] : w \in toCancel \/ w.h \in due

\* What every step is to requests: it issues one, or runs the callbacks of some, or
\* leaves them alone; it never forgets what is due or scheduled.
LEMMA RequestSteps ==
    ASSUME Inv, [Next]_vars
    PROVE  \/ UNCHANGED <<uid, info>> /\ due \subseteq due' /\ toCancel \subseteq toCancel'
           \/ \E o \in Ops, h \in Handles : IssuePending(o, h)
           \/ \E S \in SUBSET Handles, s \in Statuses :
                /\ Callbacks(S, s) /\ due \ S \subseteq due'
                /\ \/ toCancel \subseteq toCancel'
                   \/ \A w \in toCancel : Live(w) => w.h \in due' \cup S
<1>1. CASE UNCHANGED vars
  BY <1>1 DEF vars
<1>2. CASE \E o \in Ops : IssueRaise(o) \/ IssueImmediate(o) \/ Abandon(o)
  BY <1>2 DEF IssueRaise, IssueImmediate, Abandon
<1>3. CASE \E o \in Ops, s \in Statuses : IssueEarly(o, s)
  BY <1>3 DEF IssueEarly
<1>4. CASE \E e \in Endpoints : ErrCb(e)
  BY <1>4 DEF ErrCb
<1>5. ASSUME NEW h \in Handles, NEW s \in Statuses, Complete(h, s)
      PROVE  Callbacks({h}, s) /\ due \ {h} \subseteq due' /\ toCancel' = toCancel
  BY <1>5 DEF Complete
<1>6. ASSUME NEW ws, NEW S, CancelMsgs(ws, S)
      PROVE  /\ Callbacks(S, "CANCELED") /\ due \ S \subseteq due'
             /\ \A w \in ws : Live(w) => w.h \in due' \cup S
  BY <1>6 DEF CancelMsgs
<1>7. CASE \E S \in SUBSET Handles : CancelInflight(S)
  BY <1>6, <1>7, "CANCELED" \in Statuses DEF CancelInflight, Statuses
<1>8. CASE \E e \in Endpoints, S \in SUBSET Handles : EpFinalize(e, S)
  BY <1>6, <1>8, "CANCELED" \in Statuses DEF EpFinalize, Statuses
<1>9. CASE \E S \in SUBSET Handles : WorkerFinalize(S)
  BY <1>6, <1>9, "CANCELED" \in Statuses DEF WorkerFinalize, Statuses
<1>10. CASE \E h \in Handles, s \in Statuses : Complete(h, s)
  <2>1. PICK h \in Handles, s \in Statuses : Complete(h, s)
    BY <1>10
  <2> QED BY <1>5, <2>1, {h} \in SUBSET Handles
<1> QED BY <1>1, <1>2, <1>3, <1>4, <1>7, <1>8, <1>9, <1>10 DEF Next

\* A request in progress keeps its memory and its uid until its call is settled.
LEMMA RequestStays ==
    ASSUME Inv, [Next]_vars, NEW o \in Ops, NEW h \in Handles,
           future[o] = "pending", info[h] = o
    PROVE  \/ future'[o] # "pending"
           \/ /\ info'[h] = o /\ uid'[h] = uid[h]
              /\ h \in due => h \in due'
              /\ [h |-> h, uid |-> uid[h]] \in toCancel =>
                     [h |-> h, uid |-> uid[h]] \in toCancel' \/ h \in due'
<1> DEFINE w == [h |-> h, uid |-> uid[h]]
<1>1. Live(w) /\ w.h = h /\ o # NoOp
  BY RequestAssumption DEF Live
<1> HIDE DEF w
<1>2. CASE UNCHANGED <<uid, info>> /\ due \subseteq due' /\ toCancel \subseteq toCancel'
  BY <1>2
<1>3. CASE \E p \in Ops, g \in Handles : IssuePending(p, g)
  <2>1. PICK p \in Ops, g \in Handles : IssuePending(p, g)
    BY <1>3
  <2>2. g # h
    BY <1>1, <2>1 DEF IssuePending, Free
  <2> QED BY <2>1, <2>2 DEF IssuePending, Inv, TypeOK
<1>4. CASE \E S \in SUBSET Handles, s \in Statuses :
             /\ Callbacks(S, s) /\ due \ S \subseteq due'
             /\ \/ toCancel \subseteq toCancel'
                \/ \A v \in toCancel : Live(v) => v.h \in due' \cup S
  <2>1. PICK S \in SUBSET Handles, s \in Statuses :
             /\ Callbacks(S, s) /\ due \ S \subseteq due'
             /\ \/ toCancel \subseteq toCancel'
                \/ \A v \in toCancel : Live(v) => v.h \in due' \cup S
    BY <1>4
  <2>2. CASE h \in S
    BY <2>1, <2>2, CallbacksFutures
  <2>3. CASE h \notin S
    <3>1. info'[h] = o /\ uid'[h] = uid[h] /\ (h \in due => h \in due')
      BY <2>1, <2>3 DEF Callbacks
    <3>2. w \in toCancel => w \in toCancel' \/ h \in due'
      BY <1>1, <2>1, <2>3
    <3> QED BY <3>1, <3>2 DEF w
  <2> QED BY <2>2, <2>3
<1> QED BY <1>2, <1>3, <1>4, RequestSteps DEF w

\* A step that only adds to what is due or scheduled, and takes from what is in
\* flight only, keeps Bound.
LEMMA BoundSame ==
    ASSUME Inv, Bound, UNCHANGED <<inflight, state>>,
           due \subseteq due', toCancel \subseteq toCancel'
    PROVE  Bound'
BY DEF Bound

\* Nothing is in flight, closed or failed at first.
LEMMA BoundInit == Init => Bound
BY RequestAssumption DEF Init, Bound, Owners

\* Every step keeps it: an error callback schedules what is in flight, the arm task asks
\* UCX to cancel what was scheduled, and a finalizer empties the set.
LEMMA BoundNext == Inv /\ Bound /\ [Next]_vars => Bound'
<1> SUFFICES ASSUME Inv, Bound, [Next]_vars PROVE Bound'
  OBVIOUS
<1>0. /\ state \in [Owners -> {"open", "error", "closed"}] /\ Worker \in Owners
      /\ inflight \in [Owners -> SUBSET Wrappers] /\ toCancel \subseteq Wrappers
      /\ Endpoints \subseteq Owners /\ Worker \notin Endpoints
      /\ \A o \in Ops : Owner[o] \in Owners
  BY RequestAssumption DEF Inv, TypeOK, Owners
<1>1. CASE UNCHANGED vars
  BY <1>1, BoundSame DEF vars
<1>2. CASE \E o \in Ops : IssueRaise(o) \/ IssueImmediate(o) \/ Abandon(o)
  BY <1>2, BoundSame DEF IssueRaise, IssueImmediate, Abandon
<1>3. CASE \E o \in Ops, s \in Statuses : IssueEarly(o, s)
  BY <1>3, BoundSame DEF IssueEarly
<1>4. ASSUME NEW o \in Ops, NEW h \in Handles, IssuePending(o, h) PROVE Bound'
  <2>1. /\ state' = state /\ toCancel' = toCancel /\ due \subseteq due'
        /\ state[Owner[o]] = "error" => h \in due'
        /\ state[Owner[o]] # "closed"
        /\ \A e \in Owners : \A w \in inflight'[e] :
              w \in inflight[e] \/ (e = Owner[o] /\ w.h = h)
        /\ \A e \in Owners : e # Owner[o] => inflight'[e] = inflight[e]
    BY <1>0, <1>4 DEF IssuePending, Started, CanIssue
  <2> QED BY <1>0, <2>1 DEF Bound
<1>5. ASSUME NEW h \in Handles, NEW s \in Statuses, Complete(h, s) PROVE Bound'
  <2>1. /\ Callbacks({h}, s) /\ {h} \in SUBSET Handles
        /\ state' = state /\ toCancel' = toCancel /\ due' = due \ {h}
        /\ \A e \in Owners : inflight'[e] = Discarded(e, {h})
    BY <1>5 DEF Complete
  <2>2. ASSUME NEW e \in Endpoints, NEW w \in inflight'[e] PROVE w \in inflight[e] /\ w.h # h
    <3>1. e \in Owners /\ w \in Discarded(e, {h})
      BY <1>0, <2>1
    <3>2. w \in inflight[e] /\ w.h \in Handles \ {h}
      BY <2>1, <3>1, DiscardedLive
    <3> QED BY <3>2
  <2> QED BY <2>1, <2>2 DEF Bound
<1>6. ASSUME NEW e \in Endpoints, ErrCb(e) PROVE Bound'
  <2>1. /\ state' = [state EXCEPT ![e] = "error"] /\ toCancel' = toCancel \cup inflight[e]
        /\ due \subseteq due' /\ inflight' = inflight
    BY <1>6 DEF ErrCb
  <2> QED BY <1>0, <2>1 DEF Bound
<1>7. ASSUME NEW S \in SUBSET Handles, CancelInflight(S) PROVE Bound'
  <2>1. /\ Callbacks(S, "CANCELED") /\ "CANCELED" \in Statuses /\ state' = state
        /\ due' = (due \cup {w.h : w \in {v \in toCancel : Live(v)}}) \ S
        /\ \A e \in Owners : inflight'[e] = Discarded(e, S)
    BY <1>7 DEF CancelInflight, CancelMsgs, Statuses
  <2>2. ASSUME NEW e \in Endpoints, NEW w \in inflight'[e]
        PROVE  w \in inflight[e] /\ w.h \notin S /\ Live(w)
    <3>1. w \in inflight[e] /\ w.h \notin S
      BY <1>0, <2>1, DiscardedLive
    <3> QED BY <1>0, <3>1 DEF Inv, InflightLive
  <2>3. ASSUME NEW e \in Endpoints, state[e] = "error", NEW w \in inflight'[e] PROVE w.h \in due'
    <3>1. w \in toCancel \/ w.h \in due
      BY <2>2, <2>3 DEF Bound
    <3> QED BY <2>1, <2>2, <3>1
  <2> QED BY <2>1, <2>2, <2>3 DEF Bound
<1>8. ASSUME NEW e \in Endpoints, NEW S \in SUBSET Handles, EpFinalize(e, S) PROVE Bound'
  <2>1. /\ CancelMsgs(inflight[e], S) /\ toCancel' = toCancel
        /\ state' = [state EXCEPT ![e] = "closed"] /\ inflight' = [inflight EXCEPT ![e] = {}]
    BY <1>8 DEF EpFinalize
  <2>2. due \ S \subseteq due' /\ \A h \in S : Owner[info[h]] = e
    BY <1>0, <2>1 DEF CancelMsgs, Inv, InflightLive
  <2>3. ASSUME NEW f \in Endpoints, f # e, NEW w \in inflight[f] PROVE w.h \notin S
    BY <1>0, <2>2, <2>3 DEF Inv, InflightLive
  <2> QED BY <1>0, <2>1, <2>2, <2>3 DEF Bound
<1>9. ASSUME NEW S \in SUBSET Handles, WorkerFinalize(S) PROVE Bound'
  <2>1. /\ state' = [state EXCEPT ![Worker] = "closed"]
        /\ inflight' = [inflight EXCEPT ![Worker] = Discarded(Worker, S)]
        /\ \A e \in Endpoints : state[e] = "closed"
    BY <1>9 DEF WorkerFinalize
  <2>2. \A e \in Endpoints : state'[e] = "closed" /\ inflight'[e] = inflight[e]
    BY <1>0, <2>1
  <2>3. state'[Worker] = "closed"
    BY <1>0, <2>1
  <2> QED BY <2>1, <2>2, <2>3 DEF Bound
<1> QED BY <1>1, <1>2, <1>3, <1>4, <1>5, <1>6, <1>7, <1>8, <1>9 DEF Next

\* Where a call has its request, of those that are to be resolved.
AwaitsCompletion ==
    state[Worker] = "open" =>
        \A o \in Ops : future[o] = "pending" =>
            /\ state[Owner[o]] = "closed" => \E h \in Handles : WillComplete(o, h)
            /\ state[Owner[o]] = "error" =>
                   \E h \in Handles : WillComplete(o, h) \/ WillCancel(o, h)

\* While the worker lives, a call that waits on a closed endpoint has a request that UCX is
\* bound to complete, and one that waits on a failed endpoint has such a request or one that
\* the arm task will cancel: from these states the fairness of UCX and of the
\* arm task leads to CloseResolves and ErrorResolves.
THEOREM AwaitsCompletionHolds == Spec => []AwaitsCompletion
<1>1. Inv /\ Bound => AwaitsCompletion
  <2> SUFFICES ASSUME Inv, Bound, state[Worker] = "open", NEW o \in Ops, future[o] = "pending"
               PROVE  /\ state[Owner[o]] = "closed" => \E h \in Handles : WillComplete(o, h)
                      /\ state[Owner[o]] = "error" =>
                             \E h \in Handles : WillComplete(o, h) \/ WillCancel(o, h)
    BY DEF AwaitsCompletion
  <2>1. PICK h \in Handles :
          /\ info[h] = o
          /\ [h |-> h, uid |-> uid[h]] \in inflight[Owner[o]] \/ h \in due
    BY DEF Inv, NoOrphan
  <2>2. Owner[o] \in Endpoints \/ Owner[o] = Worker
    BY RequestAssumption DEF Owners
  <2>3. CASE Owner[o] = Worker
    BY <2>3
  <2>4. CASE Owner[o] \in Endpoints
    BY <2>1, <2>4 DEF Bound, WillComplete, WillCancel
  <2> QED BY <2>2, <2>3, <2>4
<1> QED BY <1>1, InvHolds, BoundInit, BoundNext, PTL DEF Spec

\* A call keeps its request that UCX is bound to complete, or that is scheduled, until it is
\* resolved or, for the latter, UCX is bound to complete it; completing the one and cancelling
\* the other is what that takes.
CompletionSteps ==
    [][\A o \in Ops, h \in Handles :
        /\ WillComplete(o, h) => Resolved(o)' \/ WillComplete(o, h)'
        /\ WillComplete(o, h) /\ CompleteDue(h) => Resolved(o)'
        /\ WillCancel(o, h) => Resolved(o)' \/ WillComplete(o, h)' \/ WillCancel(o, h)'
        /\ WillCancel(o, h) /\ (\E S \in SUBSET Handles : CancelInflight(S)) =>
               Resolved(o)' \/ WillComplete(o, h)']_vars

\* So nothing takes a call off the way to its completion: no step of another call, no
\* reuse of memory, no second error.
THEOREM CompletionStepsHold == Spec => CompletionSteps
<1> DEFINE Step(o, h) ==
        /\ WillComplete(o, h) => Resolved(o)' \/ WillComplete(o, h)'
        /\ WillComplete(o, h) /\ CompleteDue(h) => Resolved(o)'
        /\ WillCancel(o, h) => Resolved(o)' \/ WillComplete(o, h)' \/ WillCancel(o, h)'
        /\ WillCancel(o, h) /\ (\E S \in SUBSET Handles : CancelInflight(S)) =>
               Resolved(o)' \/ WillComplete(o, h)'
<1>1. ASSUME Inv, [Next]_vars, NEW o \in Ops, NEW h \in Handles PROVE Step(o, h)
  <2>1. WillComplete(o, h) => Resolved(o)' \/ WillComplete(o, h)'
    BY <1>1, RequestStays DEF WillComplete, Resolved
  <2>2. ASSUME WillComplete(o, h), CompleteDue(h) PROVE Resolved(o)'
    <3>1. PICK s \in Statuses : Callbacks({h}, s)
      BY <2>2 DEF CompleteDue, Complete
    <3>2. future'[info[h]] # "pending"
      <4>1. {h} \in SUBSET Handles /\ h \in {h} /\ info[h] \in Ops
        BY <2>2 DEF WillComplete
      <4> QED BY <1>1, <3>1, <4>1, CallbacksFutures
    <3> QED BY <2>2, <3>2 DEF WillComplete, Resolved
  <2>3. WillCancel(o, h) => Resolved(o)' \/ WillComplete(o, h)' \/ WillCancel(o, h)'
    BY <1>1, RequestStays DEF WillCancel, WillComplete, Resolved
  <2>4. ASSUME WillCancel(o, h), NEW S \in SUBSET Handles, CancelInflight(S)
        PROVE  Resolved(o)' \/ WillComplete(o, h)'
    BY <2>3, <2>4 DEF CancelInflight, WillCancel
  <2> QED BY <2>1, <2>2, <2>3, <2>4
<1>2. Inv /\ [Next]_vars => [\A o \in Ops, h \in Handles : Step(o, h)]_vars
  <2> HIDE DEF Step
  <2> QED BY <1>1
<1> QED BY <1>2, InvHolds, PTL DEF Spec, CompletionSteps
=============================================================================
