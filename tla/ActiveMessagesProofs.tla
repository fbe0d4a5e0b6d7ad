------------------------ MODULE ActiveMessagesProofs ------------------------
(***************************************************************************)
(* Proofs about ActiveMessages, for every set of endpoints, handles, calls *)
(* and messages.  The inductive invariants: where things are (types), who  *)
(* waits (calls, handles and cancellation), which queue a message is in and*)
(* in what order, and how many messages are lost.                          *)
(***************************************************************************)
EXTENDS ActiveMessages, ListLemmas, TLAPS

\* Only a created endpoint has a handle, and only such an endpoint has calls or
\* messages that are being fetched.
Placed ==
    /\ \A e \in Eps : life[e] = "none" <=> handle[e] = NoHandle
    /\ \A m \in rndv : life[MsgTo[m]] # "none"
    /\ \A c \in Calls : future[c] # "idle" => life[CallOn[c]] # "none"

\* A handle is that of one endpoint that is not closed.
HandleOwned ==
    \A e, f \in Eps :
        e # f /\ handle[e] = handle[f] /\ handle[e] # NoHandle =>
            life[e] = "closed" \/ life[f] = "closed"

\* A call in a list of waiting calls was made on the endpoint that has the
\* handle now.
WaitOwned ==
    \A h \in Handles : \A c \in ToSet(wait[h]) :
        handle[CallOn[c]] = h /\ life[CallOn[c]] \in {"open", "error"}

\* A handle scheduled for cancellation is that of an endpoint with an error.
ScheduledFailed ==
    \A h \in toCancel : \E e \in Eps : handle[e] = h /\ life[e] = "error"

\* A message is in one place: with its sender, being fetched, at one position
\* of one pool, or with one call.
MsgsOnce ==
    /\ unsent \cap rndv = {}
    /\ \A h \in Handles : \A i \in 1..Len(pool[h]) : pool[h][i].msg \notin unsent \cup rndv
    /\ \A c \in Calls : got[c] # NoItem => got[c].msg \notin unsent \cup rndv
    /\ \A h, k \in Handles : \A i \in 1..Len(pool[h]), j \in 1..Len(pool[k]) :
         pool[h][i].msg = pool[k][j].msg => h = k /\ i = j

-----------------------------------------------------------------------------
(* Handing a message over and cancelling, the common parts of the actions. *)

\* The first call in a list of waiting calls is a call.
LEMMA PushServed ==
    ASSUME TypeOK, NEW h \in Handles, wait[h] # <<>>
    PROVE  /\ wait[h][1] \in Calls /\ wait[h][1] \in ToSet(wait[h])
           /\ RemoveAt(wait[h], 1) \in Seq(Calls)
           /\ ToSet(wait[h]) = {wait[h][1]} \cup ToSet(RemoveAt(wait[h], 1))
<1>1. wait[h] \in Seq(Calls)
  BY DEF TypeOK
<1> QED BY <1>1, ToSetTail

\* A push keeps the types.
LEMMA PushTyped ==
    ASSUME TypeOK, NEW h \in Handles, NEW item \in Items, Push(h, item)
    PROVE  /\ keys' \subseteq Handles
           /\ pool' \in [Handles -> Seq(Items)] /\ wait' \in [Handles -> Seq(Calls)]
           /\ future' \in [Calls -> Futures] /\ got' \in [Calls -> Items \cup {NoItem}]
           /\ log' \in Seq(Calls \cup Msgs \cup Eps)
<1>1. keys' \subseteq Handles
  BY DEF Push, TypeOK
<1>2. log' \in Seq(Calls \cup Msgs \cup Eps)
  <2>1. item.msg \in Calls \cup Msgs \cup Eps /\ log \in Seq(Calls \cup Msgs \cup Eps)
    BY DEF Items, TypeOK
  <2>2. log' = Append(log, item.msg)
    BY DEF Push
  <2> QED BY <2>1, <2>2, AppendProperties
<1>3. CASE IsWaiting(h)
  <2> DEFINE c == wait[h][1]
  <2>1. c \in Calls /\ RemoveAt(wait[h], 1) \in Seq(Calls)
    BY <1>3, PushServed DEF IsWaiting
  <2>2. /\ wait' = [wait EXCEPT ![h] = RemoveAt(wait[h], 1)]
        /\ future' = [future EXCEPT ![c] = AmCbFunc(c, Result(item))]
        /\ got' = [got EXCEPT ![c] = IF future[c] = "pending" THEN item ELSE got[c]]
        /\ pool' = pool
    BY <1>3 DEF Push, Served
  <2>3. AmCbFunc(c, Result(item)) \in Futures
    BY <2>1 DEF AmCbFunc, Result, Futures, TypeOK
  <2> HIDE DEF c
  <2> QED BY <1>1, <1>2, <2>1, <2>2, <2>3 DEF TypeOK
<1>4. CASE ~IsWaiting(h)
  <2>1. pool' = [pool EXCEPT ![h] = Append(pool[h], item)] /\ UNCHANGED <<wait, future, got>>
    BY <1>4 DEF Push, Pooled
  <2>2. Append(pool[h], item) \in Seq(Items)
    BY AppendProperties DEF TypeOK
  <2> QED BY <1>1, <1>2, <2>1, <2>2 DEF TypeOK
<1> QED BY <1>3, <1>4

\* A push takes calls from the lists of waiting calls and adds none; the one it
\* takes does not wait any more; it cancels nobody and fills no second queue.
LEMMA PushWaiters ==
    ASSUME TypeOK, NEW h \in Handles, NEW item \in Items, Push(h, item)
    PROVE  /\ \A k \in Handles : ToSet(wait'[k]) \subseteq ToSet(wait[k])
           /\ \A c \in Calls, k \in Handles :
                future'[c] = "pending" =>
                    future[c] = "pending" /\ (c \in ToSet(wait[k]) => c \in ToSet(wait'[k]))
           /\ \A c \in Calls : /\ future'[c] = "UCXCanceled" => future[c] = "UCXCanceled"
                               /\ future'[c] # "idle" => future[c] # "idle"
           /\ NobodyWaitsForPooled => NobodyWaitsForPooled'
<1>1. CASE IsWaiting(h)
  <2> DEFINE d == wait[h][1]
  <2>1. /\ d \in Calls /\ RemoveAt(wait[h], 1) \in Seq(Calls)
        /\ ToSet(wait[h]) = {d} \cup ToSet(RemoveAt(wait[h], 1))
    BY <1>1, PushServed DEF IsWaiting
  <2>2. /\ wait' = [wait EXCEPT ![h] = RemoveAt(wait[h], 1)]
        /\ future' = [future EXCEPT ![d] = AmCbFunc(d, Result(item))]
        /\ pool' = pool
    BY <1>1 DEF Push, Served
  <2>3. /\ AmCbFunc(d, Result(item)) # "pending"
        /\ AmCbFunc(d, Result(item)) = "UCXCanceled" => future[d] = "UCXCanceled"
        /\ AmCbFunc(d, Result(item)) # "idle" => future[d] # "idle"
    BY <2>1 DEF AmCbFunc, Result
  <2>4. wait[h] # <<>>
    BY <1>1 DEF IsWaiting
  <2> HIDE DEF d
  <2>5. ASSUME NEW k \in Handles
        PROVE  /\ ToSet(wait'[k]) \subseteq ToSet(wait[k])
               /\ ToSet(wait[k]) \subseteq ToSet(wait'[k]) \cup {d}
               /\ k # h => wait'[k] = wait[k]
    BY <2>1, <2>2 DEF TypeOK
  <2>6. ASSUME NEW c \in Calls
        PROVE  /\ future'[c] = "pending" => future[c] = "pending" /\ c # d
               /\ future'[c] = "UCXCanceled" => future[c] = "UCXCanceled"
               /\ future'[c] # "idle" => future[c] # "idle"
    BY <2>1, <2>2, <2>3 DEF TypeOK
  <2>7. NobodyWaitsForPooled => NobodyWaitsForPooled'
    BY <2>2, <2>4, <2>5 DEF NobodyWaitsForPooled
  <2> QED BY <2>5, <2>6, <2>7
<1>2. CASE ~IsWaiting(h)
  <2>1. pool' = [pool EXCEPT ![h] = Append(pool[h], item)] /\ UNCHANGED <<wait, future, got>>
    BY <1>2 DEF Push, Pooled
  <2>2. NobodyWaitsForPooled => NobodyWaitsForPooled'
    BY <1>2, <2>1 DEF NobodyWaitsForPooled, IsWaiting, TypeOK
  <2> QED BY <2>1, <2>2
<1> QED BY <1>1, <1>2

\* Cancelling empties lists of waiting calls and cancels calls from them only.
LEMMA CancelMoves ==
    ASSUME TypeOK, NEW hs \in SUBSET Handles, CancelWaiting(hs)
    PROVE  /\ wait' \in [Handles -> Seq(Calls)] /\ future' \in [Calls -> Futures]
           /\ \A k \in Handles : /\ k \in hs => wait'[k] = <<>>
                                 /\ k \notin hs => wait'[k] = wait[k]
           /\ \A c \in Calls :
                /\ future'[c] = "pending" =>
                      future[c] = "pending" /\ \A h \in hs : c \notin ToSet(wait[h])
                /\ future'[c] = "UCXCanceled" =>
                      \/ future[c] = "UCXCanceled"
                      \/ \E h \in hs : c \in ToSet(wait[h])
                /\ future'[c] # "idle" => future[c] # "idle"
<1>1. /\ wait' = [h \in Handles |-> IF h \in hs THEN <<>> ELSE wait[h]]
      /\ future' = [c \in Calls |->
           IF \E h \in hs : c \in ToSet(wait[h]) THEN AmCbFunc(c, "UCXCanceled") ELSE future[c]]
  BY DEF CancelWaiting
<1>2. wait' \in [Handles -> Seq(Calls)]
  BY <1>1, EmptySeq DEF TypeOK
<1>3. \A c \in Calls : AmCbFunc(c, "UCXCanceled") \in Futures
  BY DEF AmCbFunc, Futures, TypeOK
<1>4. future' \in [Calls -> Futures]
  BY <1>1, <1>3 DEF TypeOK
<1>5. ASSUME NEW k \in Handles
      PROVE  (k \in hs => wait'[k] = <<>>) /\ (k \notin hs => wait'[k] = wait[k])
  BY <1>1
<1>6. ASSUME NEW c \in Calls
      PROVE  /\ future'[c] = "pending" =>
                   future[c] = "pending" /\ \A h \in hs : c \notin ToSet(wait[h])
             /\ future'[c] = "UCXCanceled" =>
                   \/ future[c] = "UCXCanceled"
                   \/ \E h \in hs : c \in ToSet(wait[h])
             /\ future'[c] # "idle" => future[c] # "idle"
  <2>1. CASE \E h \in hs : c \in ToSet(wait[h])
    BY <1>1, <2>1 DEF AmCbFunc
  <2>2. CASE ~\E h \in hs : c \in ToSet(wait[h])
    BY <1>1, <2>2
  <2> QED BY <2>1, <2>2
<1> QED BY <1>2, <1>4, <1>5, <1>6

-----------------------------------------------------------------------------
(* Types.                                                                  *)

LEMMA TypeInit == Init => TypeOK
<1> SUFFICES ASSUME Init PROVE TypeOK
  OBVIOUS
<1>1. <<>> \in Seq(Items) /\ <<>> \in Seq(Calls) /\ <<>> \in Seq(Calls \cup Msgs \cup Eps)
  BY EmptySeq
<1> QED BY <1>1 DEF Init, TypeOK, Futures

\* Where a message comes in is the handle of an endpoint that was created.
LEMMA ArrivalHandle ==
    ASSUME TypeOK, Placed, NEW m \in Msgs, life[MsgTo[m]] # "none"
    PROVE  handle[MsgTo[m]] \in Handles
BY AmAssumption DEF TypeOK, Placed

LEMMA TypeNext == TypeOK /\ Placed /\ [Next]_vars => TypeOK'
<1> SUFFICES ASSUME TypeOK, Placed, [Next]_vars PROVE TypeOK'
  OBVIOUS
<1>1. ASSUME NEW e \in Eps, NEW h \in Handles, EpCreate(e, h) PROVE TypeOK'
  BY <1>1 DEF EpCreate, amVars, TypeOK
<1>2. ASSUME NEW c \in Calls, AmRecv(c) PROVE TypeOK'
  <2> DEFINE h == handle[CallOn[c]]
  <2>1. h \in Handles
    BY <1>2, AmAssumption DEF AmRecv, TypeOK, Placed
  <2>2. UNCHANGED <<life, handle, keys, toCancel, unsent, rndv>>
    BY <1>2 DEF AmRecv
  <2>3. log \in Seq(Calls \cup Msgs \cup Eps) /\ wait[h] \in Seq(Calls) /\ pool[h] \in Seq(Items)
    BY <2>1 DEF TypeOK
  <2>4. Append(log, c) \in Seq(Calls \cup Msgs \cup Eps) /\ Append(wait[h], c) \in Seq(Calls)
    BY <2>3, AppendProperties
  <2> HIDE DEF h
  <2>5. CASE future' = [future EXCEPT ![c] = "refused"] /\ UNCHANGED <<pool, wait, got, log>>
    BY <2>2, <2>5 DEF TypeOK, Futures
  <2>6. CASE /\ pool[h] # <<>> /\ future' = [future EXCEPT ![c] = "ok"]
             /\ got' = [got EXCEPT ![c] = Head(pool[h])]
             /\ pool' = [pool EXCEPT ![h] = Tail(pool[h])]
             /\ log' = Append(log, c) /\ UNCHANGED wait
    <3>1. Head(pool[h]) \in Items /\ Tail(pool[h]) \in Seq(Items)
      BY <2>3, <2>6, HeadTailProperties
    <3> QED BY <2>1, <2>2, <2>4, <2>6, <3>1 DEF TypeOK, Futures
  <2>7. CASE /\ future' = [future EXCEPT ![c] = "pending"]
             /\ wait' = [wait EXCEPT ![h] = Append(wait[h], c)]
             /\ log' = Append(log, c) /\ UNCHANGED <<pool, got>>
    BY <2>1, <2>2, <2>4, <2>7 DEF TypeOK, Futures
  <2> QED BY <1>2, <2>5, <2>6, <2>7 DEF AmRecv, PooledResult, PoolRest, h
<1>3. ASSUME NEW c \in Calls, Abandon(c) PROVE TypeOK'
  BY <1>3 DEF Abandon, TypeOK, Futures
<1>4. ASSUME NEW m \in Msgs, NEW failed \in BOOLEAN, Arrive(m, failed) \/ RndvCompleted(m, failed)
      PROVE  TypeOK'
  <2>1. handle[MsgTo[m]] \in Handles
    BY <1>4, ArrivalHandle DEF Arrive, RndvCompleted, Placed
  <2>2. [msg |-> m, failed |-> failed] \in Items
    BY DEF Items
  <2>3. Push(handle[MsgTo[m]], [msg |-> m, failed |-> failed])
    BY <1>4 DEF Arrive, RndvCompleted
  <2>4. /\ unsent' \subseteq Msgs /\ rndv' \subseteq Msgs
        /\ UNCHANGED <<life, handle, toCancel>>
    BY <1>4 DEF Arrive, RndvCompleted, TypeOK
  <2> QED BY <2>1, <2>2, <2>3, <2>4, PushTyped DEF TypeOK
<1>5. ASSUME NEW m \in Msgs, ArriveRndv(m) PROVE TypeOK'
  <2>1. handle[MsgTo[m]] \in Handles
    BY <1>5, ArrivalHandle DEF ArriveRndv
  <2> QED BY <1>5, <2>1 DEF ArriveRndv, TypeOK
<1>6. ASSUME NEW e \in Eps, ErrCb(e) PROVE TypeOK'
  <2>1. handle[e] \in Handles
    BY <1>6 DEF ErrCb, Placed, TypeOK
  <2>2. Append(log, e) \in Seq(Calls \cup Msgs \cup Eps)
    BY AppendProperties DEF TypeOK
  <2> QED BY <1>6, <2>1, <2>2 DEF ErrCb, TypeOK
<1>7. ASSUME NEW e \in Eps, EpFinalize(e) PROVE TypeOK'
  <2>1. {handle[e]} \in SUBSET Handles
    BY <1>7 DEF EpFinalize, Placed, TypeOK
  <2>2. wait' \in [Handles -> Seq(Calls)] /\ future' \in [Calls -> Futures]
    BY <1>7, <2>1, CancelMoves DEF EpFinalize
  <2> QED BY <1>7, <2>2 DEF EpFinalize, TypeOK
<1>8. ASSUME NEW e \in Eps, EpClosed(e) PROVE TypeOK'
  BY <1>8 DEF EpClosed, amVars, TypeOK
<1>9. CASE CancelInflight
  <2>1. wait' \in [Handles -> Seq(Calls)] /\ future' \in [Calls -> Futures]
    BY <1>9, CancelMoves DEF CancelInflight, TypeOK
  <2> QED BY <1>9, <2>1 DEF CancelInflight, TypeOK
<1>10. CASE UNCHANGED vars
  BY <1>10 DEF vars, amVars, TypeOK
<1> QED BY <1>1, <1>2, <1>3, <1>4, <1>5, <1>6, <1>7, <1>8, <1>9, <1>10 DEF Next

LEMMA PlacedInit == Init => Placed
BY AmAssumption DEF Init, Placed

LEMMA PlacedNext == TypeOK /\ Placed /\ [Next]_vars => Placed'
<1> SUFFICES ASSUME TypeOK, Placed, [Next]_vars PROVE Placed'
  OBVIOUS
<1>a. /\ \A c \in Calls : CallOn[c] \in Eps
      /\ \A m \in Msgs : MsgTo[m] \in Eps
  BY AmAssumption
<1>1. ASSUME NEW e \in Eps, NEW h \in Handles, EpCreate(e, h) PROVE Placed'
  <2>1. h # NoHandle
    BY AmAssumption
  <2> QED BY <1>1, <1>a, <2>1 DEF EpCreate, amVars, TypeOK, Placed
<1>2. ASSUME NEW c \in Calls, AmRecv(c) \/ Abandon(c) PROVE Placed'
  <2>1. UNCHANGED <<life, handle, rndv>>
    BY <1>2 DEF AmRecv, Abandon
  <2>2. \A d \in Calls : d # c => future'[d] = future[d]
    BY <1>2 DEF AmRecv, Abandon, TypeOK
  <2>3. life[CallOn[c]] # "none"
    BY <1>2 DEF AmRecv, Abandon, Placed
  <2> QED BY <2>1, <2>2, <2>3 DEF Placed
<1>3. ASSUME NEW m \in Msgs, NEW failed \in BOOLEAN, Arrive(m, failed) \/ RndvCompleted(m, failed)
      PROVE  Placed'
  <2>1. handle[MsgTo[m]] \in Handles
    BY <1>3, ArrivalHandle DEF Arrive, RndvCompleted, Placed
  <2>2. [msg |-> m, failed |-> failed] \in Items
    BY DEF Items
  <2>3. Push(handle[MsgTo[m]], [msg |-> m, failed |-> failed])
    BY <1>3 DEF Arrive, RndvCompleted
  <2>4. rndv' \subseteq rndv /\ UNCHANGED <<life, handle>>
    BY <1>3 DEF Arrive, RndvCompleted
  <2> QED BY <2>1, <2>2, <2>3, <2>4, PushWaiters DEF Placed
<1>4. ASSUME NEW m \in Msgs, ArriveRndv(m) PROVE Placed'
  BY <1>4 DEF ArriveRndv, Placed
<1>5. ASSUME NEW e \in Eps, ErrCb(e) \/ EpClosed(e) PROVE Placed'
  BY <1>5, <1>a DEF ErrCb, EpClosed, amVars, TypeOK, Placed
<1>6. ASSUME NEW e \in Eps, EpFinalize(e) PROVE Placed'
  <2>1. {handle[e]} \in SUBSET Handles
    BY <1>6 DEF EpFinalize, Placed, TypeOK
  <2>2. \A c \in Calls : future'[c] # "idle" => future[c] # "idle"
    BY <1>6, <2>1, CancelMoves DEF EpFinalize
  <2> QED BY <1>6, <1>a, <2>2 DEF EpFinalize, TypeOK, Placed
<1>7. CASE CancelInflight
  <2>1. \A c \in Calls : future'[c] # "idle" => future[c] # "idle"
    BY <1>7, CancelMoves DEF CancelInflight, TypeOK
  <2> QED BY <1>7, <2>1 DEF CancelInflight, Placed
<1>8. CASE UNCHANGED vars
  BY <1>8 DEF vars, amVars, Placed
<1> QED BY <1>1, <1>2, <1>3, <1>4, <1>5, <1>6, <1>7, <1>8 DEF Next

\* Every variable has its type, and endpoints have handles: there is always a
\* list for what a callback or a call looks up.
THEOREM TypeHolds == Spec => [](TypeOK /\ Placed)
BY TypeInit, TypeNext, PlacedInit, PlacedNext, PTL DEF Spec

-----------------------------------------------------------------------------
(* Who waits where.                                                        *)

\* What each kind of step does to the lists of waiting calls and to futures.
LEMMA PushStep ==
    ASSUME TypeOK, Placed, NEW m \in Msgs, NEW failed \in BOOLEAN,
           Arrive(m, failed) \/ RndvCompleted(m, failed)
    PROVE  /\ handle[MsgTo[m]] \in Handles /\ [msg |-> m, failed |-> failed] \in Items
           /\ Push(handle[MsgTo[m]], [msg |-> m, failed |-> failed])
           /\ UNCHANGED <<life, handle, toCancel>>
<1>1. handle[MsgTo[m]] \in Handles
  BY ArrivalHandle DEF Arrive, RndvCompleted, Placed
<1> QED BY <1>1 DEF Arrive, RndvCompleted, Items

LEMMA FinalizeStep ==
    ASSUME TypeOK, Placed, NEW e \in Eps, EpFinalize(e)
    PROVE  /\ handle[e] \in Handles /\ {handle[e]} \in SUBSET Handles
           /\ CancelWaiting({handle[e]})
           /\ life' = [life EXCEPT ![e] = "closing"] /\ life[e] \in {"open", "error"}
           /\ toCancel' = toCancel \ {handle[e]}
           /\ UNCHANGED <<handle, pool, got>>
BY DEF EpFinalize, Placed, TypeOK

\* A call that begins to wait, or does anything else, touches one list.
LEMMA AmRecvStep ==
    ASSUME TypeOK, Placed, NEW c \in Calls, AmRecv(c)
    PROVE  /\ handle[CallOn[c]] \in Handles /\ life[CallOn[c]] \in {"open", "error"}
           /\ UNCHANGED <<life, handle, keys, toCancel, unsent, rndv>>
           /\ \A d \in Calls : d # c => future'[d] = future[d]
           /\ \/ /\ future'[c] \in {"refused", "ok"} /\ wait' = wait
                 /\ \A k \in Handles : pool[k] = <<>> => pool'[k] = <<>>
              \/ /\ future'[c] = "pending" /\ pool' = pool
                 /\ pool[handle[CallOn[c]]] = <<>>
                 /\ \A k \in Handles :
                      /\ ToSet(wait'[k]) =
                          ToSet(wait[k]) \cup IF k = handle[CallOn[c]] THEN {c} ELSE {}
                      /\ k # handle[CallOn[c]] => wait'[k] = wait[k]
<1> DEFINE h == handle[CallOn[c]]
<1>1. h \in Handles /\ life[CallOn[c]] \in {"open", "error"}
  BY AmAssumption DEF AmRecv, TypeOK, Placed
<1>2. /\ UNCHANGED <<life, handle, keys, toCancel, unsent, rndv>>
      /\ \A d \in Calls : d # c => future'[d] = future[d]
  BY DEF AmRecv, TypeOK
<1> HIDE DEF h
<1>3. CASE future' = [future EXCEPT ![c] = "refused"] /\ UNCHANGED <<pool, wait, got, log>>
  BY <1>1, <1>2, <1>3 DEF TypeOK, h
<1>4. CASE /\ pool[h] # <<>> /\ future' = [future EXCEPT ![c] = "ok"]
           /\ pool' = [pool EXCEPT ![h] = Tail(pool[h])] /\ UNCHANGED wait
  <2>1. future'[c] = "ok"
    BY <1>4 DEF TypeOK
  <2>2. \A k \in Handles : pool[k] = <<>> => pool'[k] = <<>>
    BY <1>4 DEF TypeOK
  <2> QED BY <1>1, <1>2, <1>4, <2>1, <2>2 DEF h
<1>5. CASE /\ pool[h] = <<>> /\ future' = [future EXCEPT ![c] = "pending"]
           /\ wait' = [wait EXCEPT ![h] = Append(wait[h], c)] /\ UNCHANGED pool
  <2>1. future'[c] = "pending"
    BY <1>5 DEF TypeOK
  <2>2. ToSet(Append(wait[h], c)) = ToSet(wait[h]) \cup {c}
    <3>1. wait[h] \in Seq(Calls)
      BY <1>1 DEF TypeOK
    <3> QED BY <3>1, ToSetAppend
  <2>3. \A k \in Handles : /\ ToSet(wait'[k]) = ToSet(wait[k]) \cup IF k = h THEN {c} ELSE {}
                           /\ k # h => wait'[k] = wait[k]
    BY <1>5, <2>2 DEF TypeOK
  <2> QED BY <1>1, <1>2, <1>5, <2>1, <2>3 DEF h
<1> QED BY <1>3, <1>4, <1>5 DEF AmRecv, PooledResult, PoolRest, h

LEMMA OwnedInit == Init => HandleOwned /\ WaitOwned /\ ScheduledFailed
BY ToSetEmpty DEF Init, HandleOwned, WaitOwned, ScheduledFailed

LEMMA HandleOwnedNext ==
    ASSUME TypeOK, Placed, HandleOwned, [Next]_vars
    PROVE  HandleOwned'
<1>1. ASSUME NEW e \in Eps, NEW h \in Handles, EpCreate(e, h) PROVE HandleOwned'
  BY <1>1 DEF EpCreate, HandleOwned, TypeOK
<1>2. ASSUME NEW e \in Eps, ErrCb(e) PROVE HandleOwned'
  BY <1>2 DEF ErrCb, HandleOwned, TypeOK
<1>3. ASSUME NEW e \in Eps, EpFinalize(e) PROVE HandleOwned'
  BY <1>3 DEF EpFinalize, HandleOwned, TypeOK
<1>4. ASSUME NEW e \in Eps, EpClosed(e) PROVE HandleOwned'
  BY <1>4 DEF EpClosed, HandleOwned, TypeOK
<1>5. CASE UNCHANGED <<life, handle>>
  BY <1>5 DEF HandleOwned
<1>6. ASSUME NEW c \in Calls, AmRecv(c) \/ Abandon(c) PROVE UNCHANGED <<life, handle>>
  BY <1>6 DEF AmRecv, Abandon
<1>7. ASSUME NEW m \in Msgs,
             \/ \E failed \in BOOLEAN : Arrive(m, failed) \/ RndvCompleted(m, failed)
             \/ ArriveRndv(m)
      PROVE  UNCHANGED <<life, handle>>
  BY <1>7 DEF Arrive, RndvCompleted, ArriveRndv
<1>8. CASE CancelInflight \/ UNCHANGED vars
  BY <1>5, <1>8 DEF CancelInflight, vars
<1> QED BY <1>1, <1>2, <1>3, <1>4, <1>5, <1>6, <1>7, <1>8 DEF Next

LEMMA WaitOwnedNext ==
    ASSUME TypeOK, Placed, HandleOwned, WaitOwned, [Next]_vars
    PROVE  WaitOwned'
<1>a. /\ \A c \in Calls : CallOn[c] \in Eps
      /\ \A h \in Handles : ToSet(wait[h]) \subseteq Calls
  <2>1. \A h \in Handles : wait[h] \in Seq(Calls)
    BY DEF TypeOK
  <2> QED BY <2>1, ToSetIn, AmAssumption
<1>1. ASSUME NEW e \in Eps, NEW h \in Handles, EpCreate(e, h) PROVE WaitOwned'
  BY <1>1, <1>a DEF EpCreate, amVars, WaitOwned, TypeOK
<1>2. ASSUME NEW c \in Calls, AmRecv(c) PROVE WaitOwned'
  BY <1>2, AmRecvStep DEF WaitOwned
<1>3. ASSUME NEW c \in Calls, Abandon(c) PROVE WaitOwned'
  BY <1>3 DEF Abandon, WaitOwned
<1>4. ASSUME NEW m \in Msgs, NEW failed \in BOOLEAN, Arrive(m, failed) \/ RndvCompleted(m, failed)
      PROVE  WaitOwned'
  <2>1. UNCHANGED <<life, handle>>
    BY <1>4, PushStep
  <2>2. \A k \in Handles : ToSet(wait'[k]) \subseteq ToSet(wait[k])
    BY <1>4, PushStep, PushWaiters
  <2> QED BY <2>1, <2>2 DEF WaitOwned
<1>5. ASSUME NEW m \in Msgs, ArriveRndv(m) PROVE WaitOwned'
  BY <1>5 DEF ArriveRndv, WaitOwned
<1>6. ASSUME NEW e \in Eps, ErrCb(e) PROVE WaitOwned'
  BY <1>6, <1>a DEF ErrCb, WaitOwned, TypeOK
<1>7. ASSUME NEW e \in Eps, EpFinalize(e) PROVE WaitOwned'
  <2> SUFFICES ASSUME NEW k \in Handles, NEW c \in ToSet(wait'[k])
               PROVE  handle'[CallOn[c]] = k /\ life'[CallOn[c]] \in {"open", "error"}
    BY DEF WaitOwned
  <2>a. /\ {handle[e]} \in SUBSET Handles /\ CancelWaiting({handle[e]})
        /\ life' = [life EXCEPT ![e] = "closing"] /\ UNCHANGED handle
    BY <1>7, FinalizeStep
  <2>b. k = handle[e] => wait'[k] = <<>>
    BY <2>a, CancelMoves
  <2>c. k # handle[e] => wait'[k] = wait[k]
    BY <2>a, CancelMoves
  <2>1. k # handle[e] /\ c \in ToSet(wait[k])
    BY <2>b, <2>c, ToSetEmpty
  <2>2. handle[CallOn[c]] = k /\ life[CallOn[c]] \in {"open", "error"}
    BY <2>1 DEF WaitOwned
  <2>3. CallOn[c] \in Eps
    BY <2>1, <1>a
  <2>4. CallOn[c] # e /\ life'[CallOn[c]] = life[CallOn[c]]
    BY <2>a, <2>1, <2>2, <2>3 DEF TypeOK
  <2> QED BY <2>a, <2>2, <2>4
<1>8. ASSUME NEW e \in Eps, EpClosed(e) PROVE WaitOwned'
  BY <1>8, <1>a DEF EpClosed, amVars, WaitOwned, TypeOK
<1>9. CASE CancelInflight
  <2>1. toCancel \in SUBSET Handles /\ CancelWaiting(toCancel) /\ UNCHANGED <<life, handle>>
    BY <1>9 DEF CancelInflight, TypeOK
  <2> QED BY <2>1, CancelMoves, ToSetEmpty DEF WaitOwned
<1>10. CASE UNCHANGED vars
  BY <1>10 DEF vars, amVars, WaitOwned
<1> QED BY <1>1, <1>2, <1>3, <1>4, <1>5, <1>6, <1>7, <1>8, <1>9, <1>10 DEF Next

LEMMA ScheduledFailedNext ==
    ASSUME TypeOK, Placed, ScheduledFailed, [Next]_vars
    PROVE  ScheduledFailed'
<1>1. ASSUME NEW e \in Eps, NEW h \in Handles, EpCreate(e, h) PROVE ScheduledFailed'
  BY <1>1 DEF EpCreate, ScheduledFailed, TypeOK
<1>2. ASSUME NEW e \in Eps, ErrCb(e) PROVE ScheduledFailed'
  BY <1>2 DEF ErrCb, ScheduledFailed, TypeOK
<1>3. ASSUME NEW e \in Eps, EpFinalize(e) PROVE ScheduledFailed'
  <2>1. /\ life' = [life EXCEPT ![e] = "closing"] /\ UNCHANGED handle
        /\ toCancel' = toCancel \ {handle[e]}
    BY <1>3 DEF EpFinalize
  <2> QED BY <2>1 DEF ScheduledFailed, TypeOK
<1>4. ASSUME NEW e \in Eps, EpClosed(e) PROVE ScheduledFailed'
  BY <1>4 DEF EpClosed, ScheduledFailed, TypeOK
<1>5. CASE CancelInflight
  BY <1>5 DEF CancelInflight, ScheduledFailed
<1>6. CASE UNCHANGED <<life, handle, toCancel>>
  BY <1>6 DEF ScheduledFailed
<1>7. ASSUME NEW c \in Calls, AmRecv(c) \/ Abandon(c) PROVE UNCHANGED <<life, handle, toCancel>>
  BY <1>7 DEF AmRecv, Abandon
<1>8. ASSUME NEW m \in Msgs,
             \/ \E failed \in BOOLEAN : Arrive(m, failed) \/ RndvCompleted(m, failed)
             \/ ArriveRndv(m)
      PROVE  UNCHANGED <<life, handle, toCancel>>
  BY <1>8 DEF Arrive, RndvCompleted, ArriveRndv
<1>9. CASE UNCHANGED vars
  BY <1>6, <1>9 DEF vars
<1> QED BY <1>1, <1>2, <1>3, <1>4, <1>5, <1>6, <1>7, <1>8, <1>9 DEF Next

\* Handles, waiting calls and the cancellation schedule agree.
LEMMA OwnedHolds == Spec => [](HandleOwned /\ WaitOwned /\ ScheduledFailed)
<1>1. TypeOK /\ Placed /\ HandleOwned /\ WaitOwned /\ ScheduledFailed /\ [Next]_vars
      => (HandleOwned /\ WaitOwned /\ ScheduledFailed)'
  BY HandleOwnedNext, WaitOwnedNext, ScheduledFailedNext
<1> QED BY OwnedInit, <1>1, TypeHolds, PTL DEF Spec

-----------------------------------------------------------------------------
(* What the waiting calls can rely on.                                     *)

LEMMA NobodyWaitsNext ==
    ASSUME TypeOK, Placed, NobodyWaitsForPooled, [Next]_vars
    PROVE  NobodyWaitsForPooled'
<1>1. ASSUME NEW c \in Calls, AmRecv(c) PROVE NobodyWaitsForPooled'
  BY <1>1, AmRecvStep DEF NobodyWaitsForPooled
<1>2. ASSUME NEW m \in Msgs, NEW failed \in BOOLEAN, Arrive(m, failed) \/ RndvCompleted(m, failed)
      PROVE  NobodyWaitsForPooled'
  BY <1>2, PushStep, PushWaiters
<1>3. ASSUME NEW e \in Eps, EpFinalize(e) PROVE NobodyWaitsForPooled'
  BY <1>3, FinalizeStep, CancelMoves DEF NobodyWaitsForPooled
<1>4. CASE CancelInflight
  <2>1. toCancel \in SUBSET Handles /\ CancelWaiting(toCancel) /\ UNCHANGED pool
    BY <1>4 DEF CancelInflight, TypeOK
  <2> QED BY <2>1, CancelMoves DEF NobodyWaitsForPooled
<1>5. CASE UNCHANGED <<pool, wait>>
  BY <1>5 DEF NobodyWaitsForPooled
<1>6. ASSUME NEW e \in Eps,
             (\E h \in Handles : EpCreate(e, h)) \/ ErrCb(e) \/ EpClosed(e)
      PROVE  UNCHANGED <<pool, wait>>
  BY <1>6 DEF EpCreate, ErrCb, EpClosed, amVars
<1>7. ASSUME NEW c \in Calls, Abandon(c) PROVE UNCHANGED <<pool, wait>>
  BY <1>7 DEF Abandon
<1>8. ASSUME NEW m \in Msgs, ArriveRndv(m) PROVE UNCHANGED <<pool, wait>>
  BY <1>8 DEF ArriveRndv
<1>9. CASE UNCHANGED vars
  BY <1>5, <1>9 DEF vars, amVars
<1> QED BY <1>1, <1>2, <1>3, <1>4, <1>5, <1>6, <1>7, <1>8, <1>9 DEF Next

\* A message is kept in a pool only when none of the endpoint's calls waits for
\* one (_am_recv_callback and am_recv_nb take from each other's queue first).
THEOREM NobodyWaitsForPooledHolds == Spec => []NobodyWaitsForPooled
<1>1. Init => NobodyWaitsForPooled
  BY DEF Init, NobodyWaitsForPooled
<1>2. TypeOK /\ Placed /\ NobodyWaitsForPooled /\ [Next]_vars => NobodyWaitsForPooled'
  BY NobodyWaitsNext
<1> QED BY <1>1, <1>2, TypeHolds, PTL DEF Spec

LEMMA WaitersFoundNext ==
    ASSUME TypeOK, Placed, WaitersFound, [Next]_vars
    PROVE  WaitersFound'
<1>a. \A c \in Calls : CallOn[c] \in Eps
  BY AmAssumption
<1>b. \A c \in Calls : life[CallOn[c]] # "none" => handle[CallOn[c]] \in Handles
  BY <1>a DEF Placed, TypeOK
<1>1. ASSUME NEW e \in Eps, NEW h \in Handles, EpCreate(e, h) PROVE WaitersFound'
  BY <1>1, <1>a DEF EpCreate, amVars, WaitersFound, TypeOK
<1>2. ASSUME NEW c \in Calls, AmRecv(c) PROVE WaitersFound'
  <2> SUFFICES ASSUME NEW d \in Calls, future'[d] = "pending"
               PROVE  /\ life'[CallOn[d]] \in {"open", "error"}
                      /\ d \in ToSet(wait'[handle'[CallOn[d]]])
    BY DEF WaitersFound
  <2>1. UNCHANGED <<life, handle>>
    BY <1>2 DEF AmRecv
  <2>2. CASE d = c
    <3>1. /\ handle[CallOn[c]] \in Handles /\ life[CallOn[c]] \in {"open", "error"}
          /\ \A k \in Handles :
               ToSet(wait'[k]) = ToSet(wait[k]) \cup IF k = handle[CallOn[c]] THEN {c} ELSE {}
      BY <1>2, <2>2, AmRecvStep
    <3>2. ToSet(wait'[handle[CallOn[c]]]) = ToSet(wait[handle[CallOn[c]]]) \cup {c}
      BY <3>1
    <3> QED BY <2>1, <2>2, <3>1, <3>2
  <2>3. CASE d # c
    <3>1. /\ life[CallOn[d]] \in {"open", "error"}
          /\ d \in ToSet(wait[handle[CallOn[d]]])
      BY <1>2, <2>3, AmRecvStep DEF WaitersFound
    <3>2. handle[CallOn[d]] \in Handles
      BY <3>1, <1>b
    <3>a. \/ wait' = wait
          \/ \A k \in Handles :
               ToSet(wait'[k]) = ToSet(wait[k]) \cup IF k = handle[CallOn[c]] THEN {c} ELSE {}
      BY <1>2, AmRecvStep
    <3>3. ToSet(wait[handle[CallOn[d]]]) \subseteq ToSet(wait'[handle[CallOn[d]]])
      BY <3>2, <3>a
    <3> QED BY <2>1, <3>1, <3>3
  <2> QED BY <2>2, <2>3
<1>3. ASSUME NEW c \in Calls, Abandon(c) PROVE WaitersFound'
  BY <1>3 DEF Abandon, WaitersFound, TypeOK
<1>4. ASSUME NEW m \in Msgs, NEW failed \in BOOLEAN, Arrive(m, failed) \/ RndvCompleted(m, failed)
      PROVE  WaitersFound'
  <2>1. UNCHANGED <<life, handle>>
    BY <1>4, PushStep
  <2>2. \A c \in Calls, k \in Handles :
          future'[c] = "pending" =>
            future[c] = "pending" /\ (c \in ToSet(wait[k]) => c \in ToSet(wait'[k]))
    BY <1>4, PushStep, PushWaiters
  <2> SUFFICES ASSUME NEW d \in Calls, future'[d] = "pending"
               PROVE  /\ life[CallOn[d]] \in {"open", "error"}
                      /\ d \in ToSet(wait'[handle[CallOn[d]]])
    BY <2>1 DEF WaitersFound
  <2>3. future[d] = "pending"
    <3>1. handle[MsgTo[m]] \in Handles
      BY <1>4, PushStep
    <3> QED BY <2>2, <3>1
  <2>4. life[CallOn[d]] \in {"open", "error"} /\ d \in ToSet(wait[handle[CallOn[d]]])
    BY <2>3 DEF WaitersFound
  <2> QED BY <1>b, <2>2, <2>4
<1>5. ASSUME NEW m \in Msgs, ArriveRndv(m) PROVE WaitersFound'
  BY <1>5 DEF ArriveRndv, WaitersFound
<1>6. ASSUME NEW e \in Eps, ErrCb(e) PROVE WaitersFound'
  BY <1>6, <1>a DEF ErrCb, WaitersFound, TypeOK
<1>7. ASSUME NEW e \in Eps, EpFinalize(e) PROVE WaitersFound'
  <2> SUFFICES ASSUME NEW d \in Calls, future'[d] = "pending"
               PROVE  /\ life'[CallOn[d]] \in {"open", "error"}
                      /\ d \in ToSet(wait'[handle'[CallOn[d]]])
    BY DEF WaitersFound
  <2>1. future[d] = "pending" /\ d \notin ToSet(wait[handle[e]])
    BY <1>7, FinalizeStep, CancelMoves
  <2>2. life[CallOn[d]] \in {"open", "error"} /\ d \in ToSet(wait[handle[CallOn[d]]])
    BY <2>1 DEF WaitersFound
  <2>3. handle[CallOn[d]] # handle[e] /\ CallOn[d] # e
    BY <2>1, <2>2
  <2>4. wait'[handle[CallOn[d]]] = wait[handle[CallOn[d]]]
    BY <1>7, <1>b, <2>2, <2>3, FinalizeStep, CancelMoves
  <2>5. life'[CallOn[d]] = life[CallOn[d]] /\ UNCHANGED handle
    BY <1>7, <1>a, <2>3 DEF EpFinalize, TypeOK
  <2> QED BY <2>2, <2>4, <2>5
<1>8. ASSUME NEW e \in Eps, EpClosed(e) PROVE WaitersFound'
  BY <1>8, <1>a DEF EpClosed, amVars, WaitersFound, TypeOK
<1>9. CASE CancelInflight
  <2>1. /\ toCancel \in SUBSET Handles /\ CancelWaiting(toCancel)
        /\ UNCHANGED <<life, handle>>
    BY <1>9 DEF CancelInflight, TypeOK
  <2> SUFFICES ASSUME NEW d \in Calls, future'[d] = "pending"
               PROVE  /\ life[CallOn[d]] \in {"open", "error"}
                      /\ d \in ToSet(wait'[handle[CallOn[d]]])
    BY <2>1 DEF WaitersFound
  <2>2. future[d] = "pending" /\ \A h \in toCancel : d \notin ToSet(wait[h])
    BY <2>1, CancelMoves
  <2>3. life[CallOn[d]] \in {"open", "error"} /\ d \in ToSet(wait[handle[CallOn[d]]])
    BY <2>2 DEF WaitersFound
  <2>4. handle[CallOn[d]] \in Handles /\ handle[CallOn[d]] \notin toCancel
    BY <1>b, <2>2, <2>3
  <2>5. wait'[handle[CallOn[d]]] = wait[handle[CallOn[d]]]
    BY <2>1, <2>4, CancelMoves
  <2> QED BY <2>3, <2>5
<1>10. CASE UNCHANGED vars
  BY <1>10 DEF vars, amVars, WaitersFound
<1> QED BY <1>1, <1>2, <1>3, <1>4, <1>5, <1>6, <1>7, <1>8, <1>9, <1>10 DEF Next

\* A call that waits is in the list of its endpoint's handle and the endpoint
\* is not closed: its message, an error and the finalizer all find it.
THEOREM WaitersFoundHolds == Spec => []WaitersFound
<1>1. Init => WaitersFound
  BY DEF Init, WaitersFound
<1>2. TypeOK /\ Placed /\ WaitersFound /\ [Next]_vars => WaitersFound'
  BY WaitersFoundNext
<1> QED BY <1>1, <1>2, TypeHolds, PTL DEF Spec

LEMMA NoStrayAmCancelNext ==
    ASSUME TypeOK, Placed, HandleOwned, WaitOwned, ScheduledFailed, NoStrayAmCancel, [Next]_vars
    PROVE  NoStrayAmCancel'
<1>a. \A c \in Calls : CallOn[c] \in Eps
  BY AmAssumption
<1>1. ASSUME NEW e \in Eps, NEW h \in Handles, EpCreate(e, h) PROVE NoStrayAmCancel'
  <2>1. /\ life[e] = "none" /\ life' = [life EXCEPT ![e] = "open"] /\ UNCHANGED future
    BY <1>1 DEF EpCreate, amVars
  <2>2. \A c \in Calls : CallOn[c] = e => future[c] = "idle"
    BY <2>1 DEF Placed
  <2> QED BY <1>a, <2>1, <2>2 DEF NoStrayAmCancel, TypeOK
<1>2. ASSUME NEW c \in Calls, AmRecv(c) PROVE NoStrayAmCancel'
  BY <1>2, AmRecvStep DEF NoStrayAmCancel
<1>3. ASSUME NEW c \in Calls, Abandon(c) PROVE NoStrayAmCancel'
  BY <1>3 DEF Abandon, NoStrayAmCancel, TypeOK
<1>4. ASSUME NEW m \in Msgs, NEW failed \in BOOLEAN, Arrive(m, failed) \/ RndvCompleted(m, failed)
      PROVE  NoStrayAmCancel'
  <2>1. UNCHANGED life /\ \A c \in Calls : future'[c] = "UCXCanceled" => future[c] = "UCXCanceled"
    BY <1>4, PushStep, PushWaiters
  <2> QED BY <2>1 DEF NoStrayAmCancel
<1>5. ASSUME NEW m \in Msgs, ArriveRndv(m) PROVE NoStrayAmCancel'
  BY <1>5 DEF ArriveRndv, NoStrayAmCancel
<1>6. ASSUME NEW e \in Eps, ErrCb(e) \/ EpClosed(e) PROVE NoStrayAmCancel'
  BY <1>6, <1>a DEF ErrCb, EpClosed, amVars, NoStrayAmCancel, TypeOK
<1>7. ASSUME NEW e \in Eps, EpFinalize(e) PROVE NoStrayAmCancel'
  <2> SUFFICES ASSUME NEW c \in Calls, future'[c] = "UCXCanceled"
               PROVE  life'[CallOn[c]] # "open"
    BY DEF NoStrayAmCancel
  <2>1. future[c] = "UCXCanceled" \/ c \in ToSet(wait[handle[e]])
    <3>1. {handle[e]} \in SUBSET Handles /\ CancelWaiting({handle[e]})
      BY <1>7, FinalizeStep
    <3>2. \/ future[c] = "UCXCanceled"
          \/ \E h \in {handle[e]} : c \in ToSet(wait[h])
      BY <3>1, CancelMoves
    <3> QED BY <3>2
  <2>2. life[CallOn[c]] # "open" \/ CallOn[c] = e
    <3>1. CASE c \in ToSet(wait[handle[e]])
      <4>1. /\ handle[e] \in Handles /\ handle[e] # NoHandle
            /\ life[e] # "closed"
        BY <1>7, FinalizeStep, AmAssumption
      <4>2. handle[CallOn[c]] = handle[e] /\ life[CallOn[c]] # "closed"
        BY <3>1, <4>1 DEF WaitOwned
      <4> QED BY <1>a, <4>1, <4>2 DEF HandleOwned
    <3> QED BY <2>1, <3>1 DEF NoStrayAmCancel
  <2> QED BY <1>7, <1>a, <2>2, FinalizeStep DEF TypeOK
<1>8. CASE CancelInflight
  <2>1. toCancel \in SUBSET Handles /\ CancelWaiting(toCancel) /\ UNCHANGED life
    BY <1>8 DEF CancelInflight, TypeOK
  <2> SUFFICES ASSUME NEW c \in Calls, future'[c] = "UCXCanceled"
               PROVE  life[CallOn[c]] # "open"
    BY <2>1 DEF NoStrayAmCancel
  <2>2. CASE future[c] = "UCXCanceled"
    BY <2>2 DEF NoStrayAmCancel
  <2>3. CASE \E h \in toCancel : c \in ToSet(wait[h])
    <3>1. PICK h \in toCancel : c \in ToSet(wait[h])
      BY <2>3
    <3>2. PICK e \in Eps : handle[e] = h /\ life[e] = "error"
      BY <3>1 DEF ScheduledFailed
    <3>3. handle[CallOn[c]] = h /\ life[CallOn[c]] # "closed" /\ h # NoHandle
      BY <2>1, <3>1, AmAssumption DEF WaitOwned
    <3>4. CallOn[c] = e
      BY <1>a, <3>2, <3>3 DEF HandleOwned
    <3> QED BY <3>2, <3>4
  <2> QED BY <2>1, <2>2, <2>3, CancelMoves
<1>9. CASE UNCHANGED vars
  BY <1>9 DEF vars, amVars, NoStrayAmCancel
<1> QED BY <1>1, <1>2, <1>3, <1>4, <1>5, <1>6, <1>7, <1>8, <1>9 DEF Next

\* No call is cancelled while its endpoint is in order, though the schedule and
\* the lists are kept by handles that pass from one endpoint to the next.
THEOREM NoStrayAmCancelHolds == Spec => []NoStrayAmCancel
<1>1. Init => NoStrayAmCancel
  BY DEF Init, NoStrayAmCancel
<1>2. TypeOK /\ Placed /\ HandleOwned /\ WaitOwned /\ ScheduledFailed /\ NoStrayAmCancel
      /\ [Next]_vars => NoStrayAmCancel'
  BY NoStrayAmCancelNext
<1> QED BY <1>1, <1>2, TypeHolds, OwnedHolds, PTL DEF Spec

-----------------------------------------------------------------------------
(* Where a message is.                                                     *)

\* A push adds the item at the end of a pool or gives it to one call, and
\* leaves the other positions and calls as they are.
LEMMA PushPlaces ==
    ASSUME TypeOK, NEW h \in Handles, NEW item \in Items, Push(h, item)
    PROVE  \/ /\ got' = got
              /\ \A k \in Handles : \A i \in 1..Len(pool'[k]) :
                   \/ i \in 1..Len(pool[k]) /\ pool'[k][i] = pool[k][i]
                   \/ k = h /\ i = Len(pool[h]) + 1 /\ pool'[k][i] = item
           \/ /\ pool' = pool
              /\ \E c \in Calls : /\ got'[c] \in {got[c], item}
                                  /\ \A d \in Calls : d # c => got'[d] = got[d]
<1>1. CASE IsWaiting(h)
  <2> DEFINE c == wait[h][1]
  <2>1. c \in Calls
    BY <1>1, PushServed DEF IsWaiting
  <2>2. /\ got' = [got EXCEPT ![c] = IF future[c] = "pending" THEN item ELSE got[c]]
        /\ pool' = pool
    BY <1>1 DEF Push, Served
  <2> HIDE DEF c
  <2>3. got'[c] \in {got[c], item} /\ \A d \in Calls : d # c => got'[d] = got[d]
    BY <2>1, <2>2 DEF TypeOK
  <2> QED BY <2>1, <2>2, <2>3
<1>2. CASE ~IsWaiting(h)
  <2>1. pool' = [pool EXCEPT ![h] = Append(pool[h], item)] /\ got' = got
    BY <1>2 DEF Push, Pooled
  <2>2. pool[h] \in Seq(Items) /\ Len(pool[h]) \in Nat
    BY LenProperties DEF TypeOK
  <2>3. /\ Len(Append(pool[h], item)) = Len(pool[h]) + 1
        /\ \A i \in 1..Len(pool[h]) : Append(pool[h], item)[i] = pool[h][i]
        /\ Append(pool[h], item)[Len(pool[h]) + 1] = item
    BY <2>2, AppendProperties
  <2>4. ASSUME NEW k \in Handles, NEW i \in 1..Len(pool'[k])
        PROVE  \/ i \in 1..Len(pool[k]) /\ pool'[k][i] = pool[k][i]
               \/ k = h /\ i = Len(pool[h]) + 1 /\ pool'[k][i] = item
    <3>1. CASE k # h
      BY <2>1, <3>1 DEF TypeOK
    <3>2. CASE k = h
      <4>1. pool'[k] = Append(pool[h], item)
        BY <2>1, <3>2 DEF TypeOK
      <4> QED BY <2>2, <2>3, <2>4, <3>2, <4>1
    <3> QED BY <3>1, <3>2
  <2> QED BY <2>1, <2>4
<1> QED BY <1>1, <1>2

\* The message that comes in is nowhere else, so that it stays in one place.
LEMMA PushOnce ==
    ASSUME TypeOK, MsgsOnce, GivenOnce, NEW m \in unsent \cup rndv,
           NEW h \in Handles, NEW item \in Items, item.msg = m, Push(h, item),
           unsent' \cup rndv' = (unsent \cup rndv) \ {m}, unsent' \cap rndv' = {}
    PROVE  MsgsOnce' /\ GivenOnce'
<1>a. /\ item.msg \notin unsent' \cup rndv' /\ unsent' \cup rndv' \subseteq unsent \cup rndv
      /\ \A k \in Handles : \A i \in 1..Len(pool[k]) : pool[k][i].msg # item.msg
      /\ \A c \in Calls : got[c] # NoItem => got[c].msg # item.msg
  BY DEF MsgsOnce
<1>1. CASE /\ got' = got
           /\ \A k \in Handles : \A i \in 1..Len(pool'[k]) :
                \/ i \in 1..Len(pool[k]) /\ pool'[k][i] = pool[k][i]
                \/ k = h /\ i = Len(pool[h]) + 1 /\ pool'[k][i] = item
  <2>1. \A k \in Handles : \A i \in 1..Len(pool'[k]) :
          pool'[k][i].msg \notin unsent' \cup rndv'
    BY <1>1, <1>a DEF MsgsOnce
  <2>2. \A c \in Calls : got'[c] # NoItem => got'[c].msg \notin unsent' \cup rndv'
    BY <1>1, <1>a DEF MsgsOnce
  <2>3. \A k, l \in Handles : \A i \in 1..Len(pool'[k]), j \in 1..Len(pool'[l]) :
          pool'[k][i].msg = pool'[l][j].msg => k = l /\ i = j
    <3> SUFFICES ASSUME NEW k \in Handles, NEW l \in Handles,
                        NEW i \in 1..Len(pool'[k]), NEW j \in 1..Len(pool'[l]),
                        pool'[k][i].msg = pool'[l][j].msg
                 PROVE  k = l /\ i = j
      OBVIOUS
    <3>1. /\ \/ i \in 1..Len(pool[k]) /\ pool'[k][i] = pool[k][i]
             \/ k = h /\ i = Len(pool[h]) + 1 /\ pool'[k][i] = item
          /\ \/ j \in 1..Len(pool[l]) /\ pool'[l][j] = pool[l][j]
             \/ l = h /\ j = Len(pool[h]) + 1 /\ pool'[l][j] = item
      BY <1>1
    <3>2. i \in 1..Len(pool[k]) /\ j \in 1..Len(pool[l]) /\ pool[k][i].msg = pool[l][j].msg
          => k = l /\ i = j
      BY DEF MsgsOnce
    <3> QED BY <1>a, <3>1, <3>2
  <2>4. GivenOnce'
    BY <1>1, <1>a DEF GivenOnce
  <2> QED BY <2>1, <2>2, <2>3, <2>4 DEF MsgsOnce
<1>2. ASSUME pool' = pool, NEW c \in Calls, got'[c] \in {got[c], item},
             \A d \in Calls : d # c => got'[d] = got[d]
      PROVE  MsgsOnce' /\ GivenOnce'
  <2>a. \A d \in Calls : got'[d] = got[d] \/ got'[d] = item
    BY <1>2
  <2>b. \A d \in Calls : got'[d] # NoItem => got'[d].msg \notin unsent' \cup rndv'
    BY <1>a, <2>a DEF MsgsOnce
  <2>1. MsgsOnce'
    BY <1>2, <1>a, <2>b DEF MsgsOnce
  <2>2. GivenOnce'
    BY <1>2, <1>a DEF GivenOnce
  <2> QED BY <2>1, <2>2
<1> QED BY <1>1, <1>2, PushPlaces

\* A call that takes the oldest message of a pool takes it out of the pool.
LEMMA TakeOnce ==
    ASSUME TypeOK, Placed, MsgsOnce, GivenOnce, NEW c \in Calls, AmRecv(c)
    PROVE  MsgsOnce' /\ GivenOnce'
<1> DEFINE h == handle[CallOn[c]]
<1>1. h \in Handles /\ UNCHANGED <<unsent, rndv>>
  BY AmRecvStep
<1> HIDE DEF h
<1>2. CASE UNCHANGED <<pool, got>>
  BY <1>1, <1>2 DEF MsgsOnce, GivenOnce
<1>3. CASE /\ pool[h] # <<>> /\ got' = [got EXCEPT ![c] = Head(pool[h])]
           /\ pool' = [pool EXCEPT ![h] = Tail(pool[h])]
  <2>1. pool[h] \in Seq(Items)
    BY <1>1 DEF TypeOK
  <2>2. /\ Head(pool[h]) = pool[h][1] /\ pool[h][1] \in Items
        /\ Len(Tail(pool[h])) = Len(pool[h]) - 1
        /\ \A i \in 1..Len(Tail(pool[h])) : Tail(pool[h])[i] = pool[h][i + 1]
        /\ Len(pool[h]) \in Nat \ {0}
    BY <1>3, <2>1, ToSetTail, HeadTailProperties, EmptySeq, LenProperties
  <2>3. got'[c] = pool[h][1] /\ \A d \in Calls : d # c => got'[d] = got[d]
    BY <1>3, <2>2 DEF TypeOK
  <2>4. ASSUME NEW k \in Handles, NEW i \in 1..Len(pool'[k])
        PROVE  \/ k # h /\ i \in 1..Len(pool[k]) /\ pool'[k][i] = pool[k][i]
               \/ k = h /\ i + 1 \in 1..Len(pool[k]) /\ pool'[k][i] = pool[k][i + 1] /\ i + 1 # 1
    <3>1. CASE k # h
      BY <1>3, <3>1 DEF TypeOK
    <3>2. CASE k = h
      <4>1. pool'[k] = Tail(pool[h])
        BY <1>1, <1>3, <3>2 DEF TypeOK
      <4>2. i \in 1..(Len(pool[h]) - 1) /\ pool'[k][i] = pool[h][i + 1]
        BY <2>2, <4>1
      <4> QED BY <2>2, <3>2, <4>2
    <3> QED BY <3>1, <3>2
  <2>5. 1 \in 1..Len(pool[h])
    BY <2>2
  <2>6. \A k \in Handles : \A i \in 1..Len(pool'[k]) :
          /\ pool'[k][i].msg \notin unsent' \cup rndv'
          /\ pool'[k][i].msg # pool[h][1].msg
    <3> SUFFICES ASSUME NEW k \in Handles, NEW i \in 1..Len(pool'[k])
                 PROVE  /\ pool'[k][i].msg \notin unsent \cup rndv
                        /\ pool'[k][i].msg # pool[h][1].msg
      BY <1>1
    <3>1. /\ \A j \in 1..Len(pool[k]) : pool[k][j].msg \notin unsent \cup rndv
          /\ \A j \in 1..Len(pool[k]) : pool[k][j].msg = pool[h][1].msg => k = h /\ j = 1
      BY <1>1, <2>5 DEF MsgsOnce
    <3>2. CASE k # h /\ i \in 1..Len(pool[k]) /\ pool'[k][i] = pool[k][i]
      BY <3>1, <3>2
    <3>3. CASE /\ k = h /\ i + 1 \in 1..Len(pool[k]) /\ i + 1 # 1
               /\ pool'[k][i] = pool[k][i + 1]
      BY <3>1, <3>3
    <3> QED BY <2>4, <3>2, <3>3
  <2>7. \A k, l \in Handles : \A i \in 1..Len(pool'[k]), j \in 1..Len(pool'[l]) :
          pool'[k][i].msg = pool'[l][j].msg => k = l /\ i = j
    <3> SUFFICES ASSUME NEW k \in Handles, NEW l \in Handles,
                        NEW i \in 1..Len(pool'[k]), NEW j \in 1..Len(pool'[l]),
                        pool'[k][i].msg = pool'[l][j].msg
                 PROVE  k = l /\ i = j
      OBVIOUS
    <3>a. /\ \/ k # h /\ i \in 1..Len(pool[k]) /\ pool'[k][i] = pool[k][i]
             \/ k = h /\ i + 1 \in 1..Len(pool[k]) /\ pool'[k][i] = pool[k][i + 1]
          /\ \/ l # h /\ j \in 1..Len(pool[l]) /\ pool'[l][j] = pool[l][j]
             \/ l = h /\ j + 1 \in 1..Len(pool[l]) /\ pool'[l][j] = pool[l][j + 1]
      BY <2>4
    <3>b. ASSUME NEW x \in 1..Len(pool[k]), NEW y \in 1..Len(pool[l]),
                 pool[k][x].msg = pool[l][y].msg
          PROVE  k = l /\ x = y
      BY <3>b DEF MsgsOnce
    <3>1. CASE k # h /\ l # h
      BY <3>1, <3>a, <3>b
    <3>2. CASE k = h /\ l = h
      <4>1. i + 1 = j + 1
        BY <3>2, <3>a, <3>b
      <4>2. Len(pool'[k]) \in Nat /\ Len(pool'[l]) \in Nat
        BY <1>1, <1>3, <2>2, <3>2 DEF TypeOK
      <4> QED BY <3>2, <4>1, <4>2
    <3>3. CASE (k = h /\ l # h) \/ (k # h /\ l = h)
      BY <3>3, <3>a, <3>b
    <3> QED BY <3>1, <3>2, <3>3
  <2>8. \A d \in Calls : got'[d] # NoItem => got'[d].msg \notin unsent' \cup rndv'
    BY <1>1, <2>3, <2>5 DEF MsgsOnce
  <2>9. GivenOnce'
    <3>1. \A d \in Calls : got[d] # NoItem => got[d].msg # pool[h][1].msg
      BY <1>1, <2>5 DEF GivenOnce
    <3>2. \A d, e \in Calls : d # e /\ got'[d] # NoItem /\ got'[e] # NoItem =>
            got'[d].msg # got'[e].msg
      BY <2>3, <3>1 DEF GivenOnce
    <3>3. \A d \in Calls, k \in Handles :
            got'[d] # NoItem => \A i \in 1..Len(pool'[k]) : pool'[k][i].msg # got'[d].msg
      <4> SUFFICES ASSUME NEW d \in Calls, NEW k \in Handles, got'[d] # NoItem,
                          NEW i \in 1..Len(pool'[k])
                   PROVE  pool'[k][i].msg # got'[d].msg
        OBVIOUS
      <4>1. CASE d = c
        BY <2>3, <2>6, <4>1
      <4>2. CASE d # c
        BY <2>3, <2>4, <4>2 DEF GivenOnce
      <4> QED BY <4>1, <4>2
    <3> QED BY <3>2, <3>3 DEF GivenOnce
  <2>10. unsent' \cap rndv' = {}
    BY <1>1 DEF MsgsOnce
  <2> QED BY <2>6, <2>7, <2>8, <2>9, <2>10 DEF MsgsOnce
<1> QED BY <1>2, <1>3 DEF AmRecv, PoolRest, h

LEMMA OnceNext ==
    ASSUME TypeOK, Placed, MsgsOnce, GivenOnce, [Next]_vars
    PROVE  MsgsOnce' /\ GivenOnce'
<1>1. ASSUME NEW c \in Calls, AmRecv(c) PROVE MsgsOnce' /\ GivenOnce'
  BY <1>1, TakeOnce
<1>2. ASSUME NEW m \in Msgs, NEW failed \in BOOLEAN, Arrive(m, failed) \/ RndvCompleted(m, failed)
      PROVE  MsgsOnce' /\ GivenOnce'
  <2> DEFINE item == [msg |-> m, failed |-> failed]
  <2>1. handle[MsgTo[m]] \in Handles /\ item \in Items /\ Push(handle[MsgTo[m]], item)
    BY <1>2, PushStep
  <2>2. /\ m \in unsent \cup rndv
        /\ unsent' \cup rndv' = (unsent \cup rndv) \ {m} /\ unsent' \cap rndv' = {}
    BY <1>2 DEF Arrive, RndvCompleted, MsgsOnce
  <2>3. item.msg = m
    OBVIOUS
  <2> HIDE DEF item
  <2> QED BY <2>1, <2>2, <2>3, PushOnce
<1>3. ASSUME NEW m \in Msgs, ArriveRndv(m) PROVE MsgsOnce' /\ GivenOnce'
  <2>1. /\ unsent' \cup rndv' = unsent \cup rndv /\ unsent' \cap rndv' = {}
        /\ UNCHANGED <<pool, got>>
    BY <1>3 DEF ArriveRndv, MsgsOnce
  <2> QED BY <2>1 DEF MsgsOnce, GivenOnce
<1>4. CASE UNCHANGED <<pool, got, unsent, rndv>>
  BY <1>4 DEF MsgsOnce, GivenOnce
<1>5. ASSUME NEW e \in Eps,
             \/ \E h \in Handles : EpCreate(e, h)
             \/ ErrCb(e) \/ EpFinalize(e) \/ EpClosed(e)
      PROVE  UNCHANGED <<pool, got, unsent, rndv>>
  BY <1>5 DEF EpCreate, ErrCb, EpFinalize, EpClosed, amVars
<1>6. ASSUME NEW c \in Calls, Abandon(c) PROVE UNCHANGED <<pool, got, unsent, rndv>>
  BY <1>6 DEF Abandon
<1>7. CASE CancelInflight \/ UNCHANGED vars
  BY <1>4, <1>7 DEF CancelInflight, vars, amVars
<1> QED BY <1>1, <1>2, <1>3, <1>4, <1>5, <1>6, <1>7 DEF Next

LEMMA OnceHolds == Spec => [](MsgsOnce /\ GivenOnce)
<1>1. Init => MsgsOnce /\ GivenOnce
  <2> SUFFICES ASSUME Init PROVE MsgsOnce /\ GivenOnce
    OBVIOUS
  <2>1. /\ \A h \in Handles : Len(pool[h]) = 0
        /\ \A c \in Calls : got[c] = NoItem
        /\ rndv = {}
    BY EmptySeq DEF Init
  <2> QED BY <2>1 DEF MsgsOnce, GivenOnce
<1>2. TypeOK /\ Placed /\ MsgsOnce /\ GivenOnce /\ [Next]_vars => MsgsOnce' /\ GivenOnce'
  BY OnceNext
<1> QED BY <1>1, <1>2, TypeHolds, PTL DEF Spec

\* No message is given twice: what a call gets is neither another call's nor
\* still in a pool (_am_recv_callback, am_recv_nb).
THEOREM GivenOnceHolds == Spec => []GivenOnce
BY OnceHolds, PTL

-----------------------------------------------------------------------------
(* The order of messages and calls.                                         *)

\* The log has a call from when it is made and is not refused, a message from
\* when it is handed over and an endpoint from its error, each once.
Logged ==
    /\ IsInjective(log)
    /\ \A c \in Calls : c \in ToSet(log) <=> future[c] \notin {"idle", "refused"}
    /\ (unsent \cup rndv) \cap ToSet(log) = {}
    /\ \A e \in Eps : e \in ToSet(log) => life[e] \notin {"none", "open"}

\* Only a call that is done has a message, only one that is not done waits, or
\* was abandoned, and what a call or a pool has was handed over.
Holders ==
    /\ \A c \in Calls : got[c] # NoItem =>
         got[c] \in Items /\ future[c] \in {"ok", "UCXError"} /\ got[c].msg \in ToSet(log)
    /\ \A h \in Handles : \A c \in ToSet(wait[h]) : future[c] \in {"pending", "abandoned"}
    /\ \A h \in Handles : \A i \in 1..Len(pool[h]) : pool[h][i].msg \in ToSet(log)

\* Pools and lists of waiting calls are in the order of the log.
Queues ==
    \A h \in Handles :
        /\ \A i, j \in 1..Len(pool[h]) : i < j => Ahead(log, pool[h][i].msg, pool[h][j].msg)
        /\ \A i, j \in 1..Len(wait[h]) : i < j => Ahead(log, wait[h][i], wait[h][j])

\* What a call was given came before all that is in the pool of its handle, and
\* the call before those of its endpoint that wait; and InOrder.
Given ==
    \A c \in Calls : got[c] # NoItem =>
        /\ \A i \in 1..Len(pool[handle[CallOn[c]]]) :
             Ahead(log, got[c].msg, pool[handle[CallOn[c]]][i].msg)
        /\ \A h \in Handles : \A d \in ToSet(wait[h]) :
             CallOn[d] = CallOn[c] => ~Ahead(log, d, c)
        /\ \A d \in Calls : got[d] # NoItem /\ CallOn[c] = CallOn[d] /\ Ahead(log, c, d) =>
             Ahead(log, got[c].msg, got[d].msg)

OrderInv == Logged /\ Holders /\ Queues /\ Given

\* A new entry of the log.
LEMMA LogGrows ==
    ASSUME TypeOK, NEW z \in Calls \cup Msgs \cup Eps, z \notin ToSet(log), IsInjective(log),
           log' = Append(log, z)
    PROVE  /\ IsInjective(log')
           /\ \A x : x \in ToSet(log') <=> x \in ToSet(log) \/ x = z
           /\ \A x, y : Ahead(log', x, y) <=> Ahead(log, x, y) \/ (x \in ToSet(log) /\ y = z)
<1>1. log \in Seq(Calls \cup Msgs \cup Eps)
  BY DEF TypeOK
<1>2. IsInjective(Append(log, z))
  BY <1>1, InjectiveAppend
<1>3. ToSet(Append(log, z)) = ToSet(log) \cup {z}
  BY <1>1, ToSetAppend
<1>4. \A x, y : Ahead(Append(log, z), x, y) <=>
        Ahead(log, x, y) \/ (x \in ToSet(log) /\ y = z)
  BY <1>1, AheadAppend
<1> QED BY <1>2, <1>3, <1>4

\* What has an order in the log is in it, and the order is strict.
LEMMA LogOrder ==
    ASSUME TypeOK, Logged
    PROVE  \A x, y : Ahead(log, x, y) =>
               x \in ToSet(log) /\ y \in ToSet(log) /\ ~Ahead(log, y, x)
<1>1. log \in Seq(Calls \cup Msgs \cup Eps)
  BY DEF TypeOK
<1> QED BY <1>1, AheadIn DEF Logged

\* The endpoint of a call that was given a message has a handle.
LEMMA HolderHandle ==
    ASSUME TypeOK, Placed, Holders, NEW c \in Calls, got[c] # NoItem
    PROVE  CallOn[c] \in Eps /\ life[CallOn[c]] # "none" /\ handle[CallOn[c]] \in Handles
<1>1. CallOn[c] \in Eps
  BY AmAssumption
<1>2. future[c] # "idle"
  BY DEF Holders
<1> QED BY <1>1, <1>2 DEF Placed, TypeOK

\* Steps that hand nothing over: calls stop waiting, or an endpoint has an error.
LEMMA QuietOrder ==
    ASSUME TypeOK, Placed, OrderInv, UNCHANGED <<pool, got>>,
           \/ log' = log /\ \A e \in Eps : life[e] \notin {"none", "open"} =>
                                             life'[e] \notin {"none", "open"}
           \/ \E e \in Eps : /\ log' = Append(log, e) /\ e \notin ToSet(log)
                             /\ life'[e] \notin {"none", "open"}
                             /\ \A f \in Eps : f # e => life'[f] = life[f],
           \A h \in Handles : wait'[h] = wait[h] \/ wait'[h] = <<>>,
           unsent' \cup rndv' \subseteq unsent \cup rndv,
           \A c \in Calls :
               /\ future'[c] \in {"idle", "refused"} <=> future[c] \in {"idle", "refused"}
               /\ future[c] \in {"ok", "UCXError"} => future'[c] = future[c]
               /\ got[c] # NoItem => handle'[CallOn[c]] = handle[CallOn[c]],
           \A h \in Handles : \A c \in ToSet(wait'[h]) : future'[c] \in {"pending", "abandoned"}
    PROVE  OrderInv'
<1> USE DEF OrderInv
<1>1. /\ IsInjective(log') /\ \A x \in Calls \cup Msgs : x \in ToSet(log') <=> x \in ToSet(log)
      /\ \A e \in Eps : e \in ToSet(log') => life'[e] \notin {"none", "open"}
      /\ \A x \in Calls \cup Msgs, y \in Calls \cup Msgs : Ahead(log', x, y) <=> Ahead(log, x, y)
  <2>1. CASE log' = log /\ \A e \in Eps : life[e] \notin {"none", "open"} =>
                                             life'[e] \notin {"none", "open"}
    BY <2>1 DEF Logged
  <2>2. CASE \E e \in Eps : /\ log' = Append(log, e) /\ e \notin ToSet(log)
                            /\ life'[e] \notin {"none", "open"}
                            /\ \A f \in Eps : f # e => life'[f] = life[f]
    <3>1. PICK e \in Eps : /\ log' = Append(log, e) /\ e \notin ToSet(log)
                           /\ life'[e] \notin {"none", "open"}
                           /\ \A f \in Eps : f # e => life'[f] = life[f]
      BY <2>2
    <3>2. \A x \in Calls \cup Msgs : x # e
      BY AmAssumption
    <3>3. /\ IsInjective(log')
          /\ \A x : x \in ToSet(log') <=> x \in ToSet(log) \/ x = e
          /\ \A x, y : Ahead(log', x, y) <=> Ahead(log, x, y) \/ (x \in ToSet(log) /\ y = e)
      BY <3>1, LogGrows DEF Logged
    <3> QED BY <3>1, <3>2, <3>3 DEF Logged
  <2> QED BY <2>1, <2>2
<1>2. \A h \in Handles : \A i \in 1..Len(pool[h]) : pool[h][i].msg \in Msgs
  <2> SUFFICES ASSUME NEW h \in Handles, NEW i \in 1..Len(pool[h]) PROVE pool[h][i].msg \in Msgs
    OBVIOUS
  <2>1. pool[h] \in Seq(Items)
    BY DEF TypeOK
  <2>2. pool[h][i] \in Items
    BY <2>1, ElementOfSeq
  <2> QED BY <2>2 DEF Items
<1>3. \A c \in Calls : got[c] # NoItem => got[c].msg \in Msgs
  BY DEF Holders, Items
<1>4. \A h \in Handles : wait[h] \in Seq(Calls) /\ (wait'[h] = wait[h] \/ Len(wait'[h]) = 0)
                         /\ ToSet(wait'[h]) \subseteq ToSet(wait[h]) /\ ToSet(wait[h]) \subseteq Calls
  <2>1. Len(<<>>) = 0
    BY EmptySeq
  <2>2. \A h \in Handles : wait[h] \in Seq(Calls)
    BY DEF TypeOK
  <2> QED BY <2>1, <2>2, ToSetEmpty, ToSetIn
<1>5. \A h \in Handles : \A i \in 1..Len(wait[h]) : wait[h][i] \in Calls
  BY <1>4, ElementOfSeq
<1>6. Logged'
  <2>1. (unsent' \cup rndv') \cap ToSet(log') = {}
    BY <1>1 DEF Logged, TypeOK
  <2> QED BY <1>1, <2>1 DEF Logged
<1>7. Holders'
  BY <1>1, <1>2, <1>3 DEF Holders
<1>8. Queues'
  BY <1>1, <1>2, <1>4, <1>5 DEF Queues
<1>9. Given'
  <2> SUFFICES ASSUME NEW c \in Calls, got[c] # NoItem
               PROVE  /\ \A i \in 1..Len(pool[handle'[CallOn[c]]]) :
                           Ahead(log', got[c].msg, pool[handle'[CallOn[c]]][i].msg)
                      /\ \A h \in Handles : \A d \in ToSet(wait'[h]) :
                           CallOn[d] = CallOn[c] => ~Ahead(log', d, c)
                      /\ \A d \in Calls : got[d] # NoItem /\ CallOn[c] = CallOn[d]
                                          /\ Ahead(log', c, d) =>
                           Ahead(log', got[c].msg, got[d].msg)
    BY DEF Given
  <2>1. handle'[CallOn[c]] = handle[CallOn[c]]
    OBVIOUS
  <2>2. \A i \in 1..Len(pool[handle[CallOn[c]]]) :
          Ahead(log', got[c].msg, pool[handle[CallOn[c]]][i].msg)
    <3> SUFFICES ASSUME NEW i \in 1..Len(pool[handle[CallOn[c]]])
                 PROVE  Ahead(log', got[c].msg, pool[handle[CallOn[c]]][i].msg)
      OBVIOUS
    <3>1. Ahead(log, got[c].msg, pool[handle[CallOn[c]]][i].msg)
      BY DEF Given
    <3>2. handle[CallOn[c]] \in Handles
      BY HolderHandle
    <3>3. pool[handle[CallOn[c]]][i].msg \in Calls \cup Msgs /\ got[c].msg \in Calls \cup Msgs
      BY <1>2, <1>3, <3>2
    <3> QED BY <1>1, <3>1, <3>3
  <2>3. \A h \in Handles : \A d \in ToSet(wait'[h]) :
          CallOn[d] = CallOn[c] => ~Ahead(log', d, c)
    BY <1>1, <1>4 DEF Given
  <2>4. \A d \in Calls : got[d] # NoItem /\ CallOn[c] = CallOn[d] /\ Ahead(log', c, d) =>
          Ahead(log', got[c].msg, got[d].msg)
    BY <1>1, <1>3 DEF Given
  <2> QED BY <2>1, <2>2, <2>3, <2>4
<1> QED BY <1>6, <1>7, <1>8, <1>9

\* What is in the queues.
LEMMA QueueTyped ==
    ASSUME TypeOK, NEW h \in Handles
    PROVE  /\ \A i \in 1..Len(pool[h]) : pool[h][i] \in Items /\ pool[h][i].msg \in Msgs
           /\ \A i \in 1..Len(wait[h]) : wait[h][i] \in Calls /\ wait[h][i] \in ToSet(wait[h])
           /\ \A c \in ToSet(wait[h]) : c \in Calls /\ \E i \in 1..Len(wait[h]) : c = wait[h][i]
           /\ Len(pool[h]) \in Nat /\ Len(wait[h]) \in Nat
<1>1. pool[h] \in Seq(Items) /\ wait[h] \in Seq(Calls)
  BY DEF TypeOK
<1>2. \A i \in 1..Len(pool[h]) : pool[h][i] \in Items
  BY <1>1, ElementOfSeq
<1>3. \A i \in 1..Len(wait[h]) : wait[h][i] \in Calls
  BY <1>1, ElementOfSeq
<1>4. DOMAIN wait[h] = 1..Len(wait[h]) /\ Len(wait[h]) \in Nat /\ Len(pool[h]) \in Nat
  BY <1>1, LenProperties
<1> QED BY <1>2, <1>3, <1>4 DEF Items, ToSet

\* A call that begins to wait.
LEMMA WaitOrder ==
    ASSUME TypeOK, Placed, OrderInv, NEW c \in Calls, future[c] = "idle",
           NEW h \in Handles, handle[CallOn[c]] = h,
           UNCHANGED <<pool, got, unsent, rndv, handle, life>>,
           future' = [future EXCEPT ![c] = "pending"],
           wait' = [wait EXCEPT ![h] = Append(wait[h], c)], log' = Append(log, c)
    PROVE  OrderInv'
<1> USE DEF OrderInv
<1>1. c \notin ToSet(log) /\ got[c] = NoItem
  BY DEF Logged, Holders
<1>2. /\ IsInjective(log')
      /\ \A x : x \in ToSet(log') <=> x \in ToSet(log) \/ x = c
      /\ \A x, y : Ahead(log', x, y) <=> Ahead(log, x, y) \/ (x \in ToSet(log) /\ y = c)
  BY <1>1, LogGrows DEF Logged
<1>3. \A d \in Calls : (d # c => future'[d] = future[d]) /\ future'[c] = "pending"
  BY DEF TypeOK
<1>4. \A k \in Handles : k # h => wait'[k] = wait[k]
  BY DEF TypeOK
<1>5. wait'[h] = Append(wait[h], c) /\ wait[h] \in Seq(Calls)
  BY DEF TypeOK
<1>6. /\ ToSet(wait'[h]) = ToSet(wait[h]) \cup {c}
      /\ Len(wait'[h]) = Len(wait[h]) + 1 /\ Len(wait[h]) \in Nat
      /\ \A i \in 1..Len(wait[h]) : wait'[h][i] = wait[h][i]
      /\ wait'[h][Len(wait[h]) + 1] = c
  BY <1>5, ToSetAppend, AppendProperties, LenProperties
<1>7. \A k \in Handles : ToSet(wait[k]) \subseteq Calls
  BY QueueTyped
<1>8. Logged'
  <2>1. \A d \in Calls : d \in ToSet(log') <=> future'[d] \notin {"idle", "refused"}
    BY <1>2, <1>3 DEF Logged
  <2>2. (unsent' \cup rndv') \cap ToSet(log') = {}
    <3>1. c \notin unsent \cup rndv
      BY AmAssumption DEF TypeOK
    <3> QED BY <1>2, <3>1 DEF Logged
  <2>3. \A e \in Eps : e \in ToSet(log') => life'[e] \notin {"none", "open"}
    BY <1>2, AmAssumption DEF Logged
  <2> QED BY <1>2, <2>1, <2>2, <2>3 DEF Logged
<1>9. Holders'
  <2>1. \A d \in Calls : got'[d] # NoItem =>
          /\ got'[d] \in Items /\ future'[d] \in {"ok", "UCXError"}
          /\ got'[d].msg \in ToSet(log')
    BY <1>1, <1>2, <1>3 DEF Holders
  <2>2. \A k \in Handles : \A d \in ToSet(wait'[k]) : future'[d] \in {"pending", "abandoned"}
    BY <1>3, <1>4, <1>6, <1>7 DEF Holders
  <2>3. \A k \in Handles : \A i \in 1..Len(pool'[k]) : pool'[k][i].msg \in ToSet(log')
    BY <1>2 DEF Holders
  <2> QED BY <2>1, <2>2, <2>3 DEF Holders
<1>10. Queues'
  <2> SUFFICES ASSUME NEW k \in Handles
               PROVE  /\ \A i, j \in 1..Len(pool'[k]) : i < j =>
                           Ahead(log', pool'[k][i].msg, pool'[k][j].msg)
                      /\ \A i, j \in 1..Len(wait'[k]) : i < j =>
                           Ahead(log', wait'[k][i], wait'[k][j])
    BY DEF Queues
  <2>1. \A i, j \in 1..Len(pool'[k]) : i < j => Ahead(log', pool'[k][i].msg, pool'[k][j].msg)
    BY <1>2 DEF Queues
  <2>2. CASE k # h
    BY <1>2, <1>4, <2>1, <2>2 DEF Queues
  <2>3. CASE k = h
    <3> SUFFICES ASSUME NEW i \in 1..(Len(wait[h]) + 1), NEW j \in 1..(Len(wait[h]) + 1), i < j
                 PROVE  Ahead(log', wait'[h][i], wait'[h][j])
      BY <1>6, <2>1, <2>3
    <3>1. i \in 1..Len(wait[h]) /\ wait'[h][i] = wait[h][i]
      BY <1>6
    <3>2. CASE j = Len(wait[h]) + 1
      <4>1. wait[h][i] \in ToSet(log)
        <5>1. wait[h][i] \in ToSet(wait[h]) /\ wait[h][i] \in Calls
          BY <3>1, QueueTyped
        <5>2. future[wait[h][i]] \in {"pending", "abandoned"}
          BY <5>1 DEF Holders
        <5> QED BY <5>1, <5>2 DEF Logged
      <4>2. wait'[h][j] = c
        BY <1>6, <3>2
      <4> QED BY <1>2, <3>1, <4>1, <4>2
    <3>3. CASE j # Len(wait[h]) + 1
      <4>1. j \in 1..Len(wait[h]) /\ wait'[h][j] = wait[h][j]
        BY <1>6, <3>3
      <4>2. Ahead(log, wait[h][i], wait[h][j])
        BY <3>1, <4>1 DEF Queues
      <4> QED BY <1>2, <3>1, <4>1, <4>2
    <3> QED BY <3>2, <3>3
  <2> QED BY <2>2, <2>3
<1>11. Given'
  <2> SUFFICES ASSUME NEW d \in Calls, got[d] # NoItem
               PROVE  /\ \A i \in 1..Len(pool[handle[CallOn[d]]]) :
                           Ahead(log', got[d].msg, pool[handle[CallOn[d]]][i].msg)
                      /\ \A k \in Handles : \A e \in ToSet(wait'[k]) :
                           CallOn[e] = CallOn[d] => ~Ahead(log', e, d)
                      /\ \A e \in Calls : got[e] # NoItem /\ CallOn[d] = CallOn[e]
                                          /\ Ahead(log', d, e) =>
                           Ahead(log', got[d].msg, got[e].msg)
    BY DEF Given
  <2>1. \A i \in 1..Len(pool[handle[CallOn[d]]]) :
          Ahead(log', got[d].msg, pool[handle[CallOn[d]]][i].msg)
    BY <1>2 DEF Given
  <2>2. \A k \in Handles : \A e \in ToSet(wait'[k]) :
          CallOn[e] = CallOn[d] => ~Ahead(log', e, d)
    <3> SUFFICES ASSUME NEW k \in Handles, NEW e \in ToSet(wait'[k]), CallOn[e] = CallOn[d]
                 PROVE  ~Ahead(log', e, d)
      OBVIOUS
    <3>1. Ahead(log', e, d) <=> Ahead(log, e, d)
      BY <1>1, <1>2
    <3>2. e \in ToSet(wait[k]) \/ e = c
      BY <1>4, <1>6
    <3>3. ~Ahead(log, c, d)
      BY <1>1, LogOrder
    <3> QED BY <3>1, <3>2, <3>3 DEF Given
  <2>3. \A e \in Calls : got[e] # NoItem /\ CallOn[d] = CallOn[e] /\ Ahead(log', d, e) =>
          Ahead(log', got[d].msg, got[e].msg)
    BY <1>1, <1>2 DEF Given
  <2> QED BY <2>1, <2>2, <2>3
<1> QED BY <1>8, <1>9, <1>10, <1>11

\* A call that takes the oldest message of its pool.
LEMMA TakeOrder ==
    ASSUME TypeOK, Placed, WaitOwned, NobodyWaitsForPooled, OrderInv,
           NEW c \in Calls, future[c] = "idle",
           NEW h \in Handles, handle[CallOn[c]] = h, pool[h] # <<>>,
           UNCHANGED <<wait, unsent, rndv, handle, life>>,
           future' = [future EXCEPT ![c] = "ok"],
           got' = [got EXCEPT ![c] = Head(pool[h])],
           pool' = [pool EXCEPT ![h] = Tail(pool[h])], log' = Append(log, c)
    PROVE  OrderInv'
<1> USE DEF OrderInv
<1>1. c \notin ToSet(log) /\ got[c] = NoItem
  BY DEF Logged, Holders
<1>2. /\ IsInjective(log')
      /\ \A x : x \in ToSet(log') <=> x \in ToSet(log) \/ x = c
      /\ \A x, y : Ahead(log', x, y) <=> Ahead(log, x, y) \/ (x \in ToSet(log) /\ y = c)
  BY <1>1, LogGrows DEF Logged
<1>3. \A d \in Calls : (d # c => future'[d] = future[d]) /\ future'[c] = "ok"
  BY DEF TypeOK
<1>4. \A d \in Calls : (d # c => got'[d] = got[d]) /\ got'[c] = Head(pool[h])
  BY DEF TypeOK
<1>5. \A k \in Handles : (k # h => pool'[k] = pool[k]) /\ pool'[h] = Tail(pool[h])
  BY DEF TypeOK
<1>6. /\ Len(pool[h]) \in Nat \ {0} /\ Head(pool[h]) = pool[h][1] /\ 1 \in 1..Len(pool[h])
      /\ pool[h][1] \in Items /\ Len(Tail(pool[h])) = Len(pool[h]) - 1
      /\ \A i \in 1..Len(Tail(pool[h])) : Tail(pool[h])[i] = pool[h][i + 1]
  <2>1. pool[h] \in Seq(Items)
    BY DEF TypeOK
  <2>2. /\ Len(pool[h]) \in Nat \ {0} /\ Head(pool[h]) = pool[h][1] /\ pool[h][1] \in Items
        /\ Len(Tail(pool[h])) = Len(pool[h]) - 1
        /\ \A i \in 1..Len(Tail(pool[h])) : Tail(pool[h])[i] = pool[h][i + 1]
    BY <2>1, ToSetTail, HeadTailProperties, EmptySeq, LenProperties
  <2> QED BY <2>2
<1>7. \A i \in 1..Len(pool'[h]) : i \in Int /\ i + 1 \in 1..Len(pool[h])
                                  /\ pool'[h][i] = pool[h][i + 1]
  <2> SUFFICES ASSUME NEW i \in 1..Len(pool'[h])
               PROVE  i \in Int /\ i + 1 \in 1..Len(pool[h]) /\ pool'[h][i] = pool[h][i + 1]
    OBVIOUS
  <2>1. pool'[h] = Tail(pool[h])
    BY <1>5
  <2>2. i \in 1..(Len(pool[h]) - 1)
    BY <1>6, <2>1
  <2>3. i \in 1..Len(Tail(pool[h]))
    BY <2>1
  <2>4. pool'[h][i] = pool[h][i + 1]
    BY <1>6, <2>1, <2>3
  <2>5. i \in Int /\ i + 1 \in 1..Len(pool[h])
    BY <1>6, <2>2
  <2> QED BY <2>4, <2>5
<1>8. ToSet(wait[h]) = {}
  BY ToSetEmpty DEF NobodyWaitsForPooled
<1>9. \A k \in Handles : \A d \in ToSet(wait[k]) : d \in Calls /\ d # c /\ CallOn[d] # CallOn[c]
  <2> SUFFICES ASSUME NEW k \in Handles, NEW d \in ToSet(wait[k])
               PROVE  d \in Calls /\ CallOn[d] # CallOn[c]
    OBVIOUS
  <2>1. d \in Calls /\ handle[CallOn[d]] = k
    BY QueueTyped DEF WaitOwned
  <2> QED BY <1>8, <2>1
<1>10. Logged'
  <2>1. \A d \in Calls : d \in ToSet(log') <=> future'[d] \notin {"idle", "refused"}
    BY <1>2, <1>3 DEF Logged
  <2>2. (unsent' \cup rndv') \cap ToSet(log') = {}
    <3>1. c \notin unsent \cup rndv
      BY AmAssumption DEF TypeOK
    <3> QED BY <1>2, <3>1 DEF Logged
  <2>3. \A e \in Eps : e \in ToSet(log') => life'[e] \notin {"none", "open"}
    BY <1>2, AmAssumption DEF Logged
  <2> QED BY <1>2, <2>1, <2>2, <2>3 DEF Logged
<1>11. Holders'
  <2>0. pool[h][1].msg \in ToSet(log)
    BY <1>6 DEF Holders
  <2>1. \A d \in Calls : got'[d] # NoItem =>
          /\ got'[d] \in Items /\ future'[d] \in {"ok", "UCXError"}
          /\ got'[d].msg \in ToSet(log')
    BY <1>2, <1>3, <1>4, <1>6, <2>0 DEF Holders
  <2>2. \A k \in Handles : \A d \in ToSet(wait'[k]) : future'[d] \in {"pending", "abandoned"}
    BY <1>3, <1>9 DEF Holders
  <2>3. ASSUME NEW k \in Handles, NEW i \in 1..Len(pool'[k])
        PROVE  pool'[k][i].msg \in ToSet(log')
    <3>1. CASE k = h
      BY <1>2, <1>7, <3>1 DEF Holders
    <3>2. CASE k # h
      BY <1>2, <1>5, <3>2 DEF Holders
    <3> QED BY <3>1, <3>2
  <2> QED BY <2>1, <2>2, <2>3 DEF Holders
<1>12. Queues'
  <2> SUFFICES ASSUME NEW k \in Handles
               PROVE  /\ \A i, j \in 1..Len(pool'[k]) : i < j =>
                           Ahead(log', pool'[k][i].msg, pool'[k][j].msg)
                      /\ \A i, j \in 1..Len(wait[k]) : i < j =>
                           Ahead(log', wait[k][i], wait[k][j])
    BY DEF Queues
  <2>1. \A i, j \in 1..Len(wait[k]) : i < j => Ahead(log', wait[k][i], wait[k][j])
    BY <1>2 DEF Queues
  <2>2. CASE k # h
    BY <1>2, <1>5, <2>1, <2>2 DEF Queues
  <2>3. CASE k = h
    <3> SUFFICES ASSUME NEW i \in 1..Len(pool'[h]), NEW j \in 1..Len(pool'[h]), i < j
                 PROVE  Ahead(log', pool'[h][i].msg, pool'[h][j].msg)
      BY <2>1, <2>3
    <3>1. i + 1 \in 1..Len(pool[h]) /\ j + 1 \in 1..Len(pool[h]) /\ i + 1 < j + 1
      BY <1>7
    <3>2. Ahead(log, pool[h][i + 1].msg, pool[h][j + 1].msg)
      BY <3>1 DEF Queues
    <3> QED BY <1>2, <1>7, <3>2
  <2> QED BY <2>2, <2>3
<1>13. Given'
  <2> SUFFICES ASSUME NEW d \in Calls, got'[d] # NoItem
               PROVE  /\ \A i \in 1..Len(pool'[handle[CallOn[d]]]) :
                           Ahead(log', got'[d].msg, pool'[handle[CallOn[d]]][i].msg)
                      /\ \A k \in Handles : \A e \in ToSet(wait[k]) :
                           CallOn[e] = CallOn[d] => ~Ahead(log', e, d)
                      /\ \A e \in Calls : got'[e] # NoItem /\ CallOn[d] = CallOn[e]
                                          /\ Ahead(log', d, e) =>
                           Ahead(log', got'[d].msg, got'[e].msg)
    BY DEF Given
  <2>1. CASE d = c
    <3>1. \A i \in 1..Len(pool'[h]) : Ahead(log', pool[h][1].msg, pool'[h][i].msg)
      <4> SUFFICES ASSUME NEW i \in 1..Len(pool'[h])
                   PROVE  Ahead(log', pool[h][1].msg, pool'[h][i].msg)
        OBVIOUS
      <4>1. i + 1 \in 1..Len(pool[h]) /\ 1 < i + 1 /\ pool'[h][i] = pool[h][i + 1]
        BY <1>7
      <4>2. Ahead(log, pool[h][1].msg, pool[h][i + 1].msg)
        BY <1>6, <4>1 DEF Queues
      <4> QED BY <1>2, <4>1, <4>2
    <3>2. \A k \in Handles : \A e \in ToSet(wait[k]) : CallOn[e] # CallOn[d]
      BY <1>9, <2>1
    <3>3. \A e \in Calls : ~Ahead(log', c, e)
      BY <1>1, <1>2, LogOrder
    <3> QED BY <1>4, <1>6, <2>1, <3>1, <3>2, <3>3
  <2>2. CASE d # c
    <3>0. got'[d] = got[d] /\ got[d] # NoItem
      BY <1>4, <2>2
    <3>1. handle[CallOn[d]] \in Handles
      BY <3>0, HolderHandle
    <3>2. ASSUME NEW i \in 1..Len(pool'[handle[CallOn[d]]])
          PROVE  Ahead(log', got[d].msg, pool'[handle[CallOn[d]]][i].msg)
      <4>1. CASE handle[CallOn[d]] = h
        <5>1. i + 1 \in 1..Len(pool[h]) /\ pool'[h][i] = pool[h][i + 1]
          BY <1>7, <4>1
        <5>2. Ahead(log, got[d].msg, pool[h][i + 1].msg)
          BY <3>0, <4>1, <5>1 DEF Given
        <5> QED BY <1>2, <4>1, <5>1, <5>2
      <4>2. CASE handle[CallOn[d]] # h
        <5>1. pool'[handle[CallOn[d]]] = pool[handle[CallOn[d]]]
          BY <1>5, <3>1, <4>2
        <5>2. Ahead(log, got[d].msg, pool[handle[CallOn[d]]][i].msg)
          BY <3>0, <5>1 DEF Given
        <5> QED BY <1>2, <5>1, <5>2
      <4> QED BY <4>1, <4>2
    <3>3. \A k \in Handles : \A e \in ToSet(wait[k]) :
            CallOn[e] = CallOn[d] => ~Ahead(log', e, d)
      BY <1>2, <2>2, <3>0 DEF Given
    <3>4. ASSUME NEW e \in Calls, got'[e] # NoItem, CallOn[d] = CallOn[e], Ahead(log', d, e)
          PROVE  Ahead(log', got[d].msg, got'[e].msg)
      <4>1. CASE e = c
        <5>1. Ahead(log, got[d].msg, pool[h][1].msg)
          BY <1>6, <3>0, <3>4, <4>1 DEF Given
        <5> QED BY <1>2, <1>4, <1>6, <4>1, <5>1
      <4>2. CASE e # c
        <5>1. got'[e] = got[e] /\ got[e] # NoItem /\ Ahead(log, d, e)
          BY <1>2, <1>4, <3>4, <4>2
        <5>2. Ahead(log, got[d].msg, got[e].msg)
          BY <3>0, <3>4, <5>1 DEF Given
        <5> QED BY <1>2, <5>1, <5>2
      <4> QED BY <4>1, <4>2
    <3> QED BY <3>0, <3>2, <3>3, <3>4
  <2> QED BY <2>1, <2>2
<1> QED BY <1>10, <1>11, <1>12, <1>13

\* A message goes to the call that has waited longest: it leaves the list, where
\* it was once, and is given the message, unless its caller stopped waiting.
LEMMA ServeStep ==
    ASSUME TypeOK, WaitOwned, NobodyWaitsForPooled, OrderInv, NEW m \in Msgs,
           NEW item \in Items, item.msg = m, NEW h \in Handles, IsWaiting(h), Push(h, item)
    PROVE  \E c \in Calls :
               /\ c \in ToSet(wait[h]) /\ handle[CallOn[c]] = h /\ got[c] = NoItem
               /\ pool' = pool /\ pool[h] = <<>> /\ log' = Append(log, m)
               /\ \/ future[c] = "pending" /\ future'[c] \in {"ok", "UCXError"} /\ got'[c] = item
                  \/ future[c] = "abandoned" /\ future'[c] = "abandoned" /\ got'[c] = NoItem
               /\ \A d \in Calls : d # c => future'[d] = future[d] /\ got'[d] = got[d]
               /\ \A k \in Handles : \A d \in ToSet(wait'[k]) :
                    d \in Calls /\ d \in ToSet(wait[k]) /\ d # c
               /\ \A d \in ToSet(wait'[h]) : ~Ahead(log, d, c)
               /\ \A k \in Handles : \A i, j \in 1..Len(wait'[k]) :
                    i < j => Ahead(log, wait'[k][i], wait'[k][j])
<1> USE DEF OrderInv
<1> DEFINE c == wait[h][1]
<1>1. /\ c \in Calls /\ c \in ToSet(wait[h]) /\ RemoveAt(wait[h], 1) = Tail(wait[h])
      /\ Tail(wait[h]) \in Seq(Calls)
      /\ ToSet(wait[h]) = {c} \cup ToSet(Tail(wait[h]))
  <2>1. wait[h] \in Seq(Calls) /\ wait[h] # <<>>
    BY DEF TypeOK, IsWaiting
  <2>2. /\ RemoveAt(wait[h], 1) = Tail(wait[h]) /\ Tail(wait[h]) \in Seq(Calls)
        /\ wait[h][1] \in Calls
        /\ ToSet(wait[h]) = {wait[h][1]} \cup ToSet(Tail(wait[h]))
    BY <2>1, ToSetTail
  <2> QED BY <2>2
<1>2. /\ wait' = [wait EXCEPT ![h] = Tail(wait[h])]
      /\ future' = [future EXCEPT ![c] = AmCbFunc(c, Result(item))]
      /\ got' = [got EXCEPT ![c] = IF future[c] = "pending" THEN item ELSE got[c]]
      /\ pool' = pool /\ log' = Append(log, m)
  BY <1>1 DEF Push, Served, IsWaiting
<1>3. /\ Len(wait[h]) \in Nat \ {0} /\ Len(Tail(wait[h])) = Len(wait[h]) - 1
      /\ \A i \in 1..Len(Tail(wait[h])) : Tail(wait[h])[i] = wait[h][i + 1]
  <2>1. wait[h] \in Seq(Calls) /\ wait[h] # <<>>
    BY DEF TypeOK, IsWaiting
  <2> QED BY <2>1, HeadTailProperties, EmptySeq, LenProperties
<1>4. \A i \in 1..Len(Tail(wait[h])) :
        i \in Int /\ i + 1 \in 1..Len(wait[h]) /\ Tail(wait[h])[i] = wait[h][i + 1]
        /\ Ahead(log, c, wait[h][i + 1])
  <2> SUFFICES ASSUME NEW i \in 1..Len(Tail(wait[h]))
               PROVE  i \in Int /\ i + 1 \in 1..Len(wait[h]) /\ Ahead(log, c, wait[h][i + 1])
    BY <1>3
  <2>1. i \in 1..(Len(wait[h]) - 1)
    BY <1>3
  <2>2. i + 1 \in 1..Len(wait[h]) /\ 1 \in 1..Len(wait[h]) /\ 1 < i + 1
    BY <1>3, <2>1
  <2> QED BY <2>1, <2>2 DEF Queues
<1>5. \A d \in ToSet(Tail(wait[h])) : d # c /\ ~Ahead(log, d, c)
  <2> SUFFICES ASSUME NEW d \in ToSet(Tail(wait[h])) PROVE d # c /\ ~Ahead(log, d, c)
    OBVIOUS
  <2>1. PICK i \in 1..Len(Tail(wait[h])) : d = Tail(wait[h])[i]
    BY <1>1, LenProperties DEF ToSet
  <2>2. Ahead(log, c, d)
    BY <1>4, <2>1
  <2> QED BY <2>2, LogOrder
<1>8. /\ future[c] \in {"pending", "abandoned"}
      /\ handle[CallOn[c]] = h /\ pool[h] = <<>> /\ got[c] = NoItem
  <2>1. wait[h] # <<>>
    BY DEF IsWaiting
  <2> QED BY <1>1, <2>1 DEF Holders, WaitOwned, NobodyWaitsForPooled
<1> HIDE DEF c
<1>9. \A d \in Calls : d # c => future'[d] = future[d] /\ got'[d] = got[d]
  BY <1>2 DEF TypeOK
<1>10. \/ future[c] = "pending" /\ future'[c] \in {"ok", "UCXError"} /\ got'[c] = item
       \/ future[c] = "abandoned" /\ future'[c] = "abandoned" /\ got'[c] = NoItem
  BY <1>1, <1>2, <1>8 DEF TypeOK, AmCbFunc, Result
<1>11. \A k \in Handles : k # h => wait'[k] = wait[k]
  BY <1>2 DEF TypeOK
<1>12. wait'[h] = Tail(wait[h])
  BY <1>2 DEF TypeOK
<1>13. \A k \in Handles : \A d \in ToSet(wait'[k]) :
         d \in Calls /\ d \in ToSet(wait[k]) /\ d # c
  <2> SUFFICES ASSUME NEW k \in Handles, NEW d \in ToSet(wait'[k])
               PROVE  d \in Calls /\ d \in ToSet(wait[k]) /\ d # c
    OBVIOUS
  <2>1. CASE k = h
    <3>1. d \in ToSet(wait[h]) /\ d # c
      BY <1>1, <1>5, <1>12, <2>1
    <3> QED BY <2>1, <3>1, QueueTyped
  <2>2. CASE k # h
    <3>1. d \in ToSet(wait[k])
      BY <1>11, <2>2
    <3>2. d \in Calls /\ handle[CallOn[d]] = k
      BY <3>1, QueueTyped DEF WaitOwned
    <3> QED BY <1>8, <2>2, <3>1, <3>2
  <2> QED BY <2>1, <2>2
<1>14. \A d \in ToSet(wait'[h]) : ~Ahead(log, d, c)
  BY <1>5, <1>12
<1>15. ASSUME NEW k \in Handles, NEW i \in 1..Len(wait'[k]), NEW j \in 1..Len(wait'[k]), i < j
       PROVE  Ahead(log, wait'[k][i], wait'[k][j])
  <2>1. CASE k # h
    BY <1>11, <1>15, <2>1 DEF Queues
  <2>2. CASE k = h
    <3>0. i \in 1..Len(Tail(wait[h])) /\ j \in 1..Len(Tail(wait[h]))
      BY <1>12, <2>2
    <3>1. i + 1 \in 1..Len(wait[h]) /\ j + 1 \in 1..Len(wait[h]) /\ i + 1 < j + 1
      BY <1>4, <1>15, <3>0
    <3>2. Ahead(log, wait[h][i + 1], wait[h][j + 1])
      BY <3>1 DEF Queues
    <3>3. wait'[k][i] = wait[h][i + 1] /\ wait'[k][j] = wait[h][j + 1]
      BY <1>4, <1>12, <2>2, <3>0
    <3> QED BY <3>2, <3>3
  <2> QED BY <2>1, <2>2
<1>16. pool' = pool /\ log' = Append(log, m)
  BY <1>2
<1> QED BY <1>1, <1>8, <1>9, <1>10, <1>13, <1>14, <1>15, <1>16

\* Serving keeps the order.
LEMMA ServeOrder ==
    ASSUME TypeOK, Placed, WaitOwned, NobodyWaitsForPooled, OrderInv,
           NEW m \in Msgs, m \notin ToSet(log),
           NEW item \in Items, item.msg = m, NEW h \in Handles, IsWaiting(h), Push(h, item),
           unsent' \cup rndv' = (unsent \cup rndv) \ {m}, UNCHANGED <<handle, life>>
    PROVE  OrderInv'
<1>1. PICK c \in Calls :
        /\ c \in ToSet(wait[h]) /\ handle[CallOn[c]] = h /\ got[c] = NoItem
        /\ pool' = pool /\ pool[h] = <<>> /\ log' = Append(log, m)
        /\ \/ future[c] = "pending" /\ future'[c] \in {"ok", "UCXError"} /\ got'[c] = item
           \/ future[c] = "abandoned" /\ future'[c] = "abandoned" /\ got'[c] = NoItem
        /\ \A d \in Calls : d # c => future'[d] = future[d] /\ got'[d] = got[d]
        /\ \A k \in Handles : \A d \in ToSet(wait'[k]) :
             d \in Calls /\ d \in ToSet(wait[k]) /\ d # c
        /\ \A d \in ToSet(wait'[h]) : ~Ahead(log, d, c)
        /\ \A k \in Handles : \A i, j \in 1..Len(wait'[k]) :
             i < j => Ahead(log, wait'[k][i], wait'[k][j])
  BY ServeStep
<1> USE DEF OrderInv
<1>6. \A x \in Calls \cup Eps : x # m
  BY AmAssumption
<1>7. /\ IsInjective(log')
      /\ \A x : x \in ToSet(log') <=> x \in ToSet(log) \/ x = m
      /\ \A x, y : Ahead(log', x, y) <=> Ahead(log, x, y) \/ (x \in ToSet(log) /\ y = m)
  BY <1>1, LogGrows DEF Logged
<1>14. Logged'
  <2>1. \A d \in Calls : d \in ToSet(log') <=> future'[d] \notin {"idle", "refused"}
    BY <1>1, <1>6, <1>7 DEF Logged
  <2>2. (unsent' \cup rndv') \cap ToSet(log') = {}
    BY <1>7 DEF Logged
  <2>3. \A e \in Eps : e \in ToSet(log') => life'[e] \notin {"none", "open"}
    BY <1>6, <1>7 DEF Logged
  <2> QED BY <1>7, <2>1, <2>2, <2>3 DEF Logged
<1>15. Holders'
  <2>1. \A d \in Calls : got'[d] # NoItem =>
          /\ got'[d] \in Items /\ future'[d] \in {"ok", "UCXError"}
          /\ got'[d].msg \in ToSet(log')
    BY <1>7, <1>1 DEF Holders
  <2>2. \A k \in Handles : \A d \in ToSet(wait'[k]) : future'[d] \in {"pending", "abandoned"}
    BY <1>1 DEF Holders
  <2>3. \A k \in Handles : \A i \in 1..Len(pool'[k]) : pool'[k][i].msg \in ToSet(log')
    BY <1>1, <1>7 DEF Holders
  <2> QED BY <2>1, <2>2, <2>3 DEF Holders
<1>16. Queues'
  BY <1>1, <1>7 DEF Queues
<1>17. Given'
  <2> SUFFICES ASSUME NEW d \in Calls, got'[d] # NoItem
               PROVE  /\ \A i \in 1..Len(pool[handle[CallOn[d]]]) :
                           Ahead(log', got'[d].msg, pool[handle[CallOn[d]]][i].msg)
                      /\ \A k \in Handles : \A e \in ToSet(wait'[k]) :
                           CallOn[e] = CallOn[d] => ~Ahead(log', e, d)
                      /\ \A e \in Calls : got'[e] # NoItem /\ CallOn[d] = CallOn[e]
                                          /\ Ahead(log', d, e) =>
                           Ahead(log', got'[d].msg, got'[e].msg)
    BY <1>1 DEF Given
  <2>0. \A x \in Calls, y \in Calls : Ahead(log', x, y) <=> Ahead(log, x, y)
    BY <1>6, <1>7
  <2>1. CASE d = c
    <3>1. Len(pool[handle[CallOn[d]]]) = 0
      BY <1>1, <2>1, EmptySeq
    <3>2. ASSUME NEW k \in Handles, NEW e \in ToSet(wait'[k]), CallOn[e] = CallOn[d]
          PROVE  ~Ahead(log', e, d)
      <4>1. e \in Calls /\ handle[CallOn[e]] = k
        BY <1>1 DEF WaitOwned
      <4>2. k = h
        BY <1>1, <2>1, <3>2, <4>1
      <4>3. ~Ahead(log, e, c)
        BY <1>1, <4>2
      <4> QED BY <1>1, <2>0, <2>1, <4>1, <4>3
    <3>3. ASSUME NEW e \in Calls, got'[e] # NoItem, CallOn[d] = CallOn[e], Ahead(log', d, e)
          PROVE  FALSE
      <4>1. Ahead(log, c, e)
        BY <1>1, <2>0, <2>1, <3>3
      <4>2. e # c
        BY <4>1, LogOrder
      <4>3. got[e] # NoItem /\ CallOn[c] = CallOn[e]
        BY <1>1, <2>1, <3>3, <4>2
      <4> QED BY <1>1, <4>1, <4>3 DEF Given
    <3> QED BY <3>1, <3>2, <3>3
  <2>2. CASE d # c
    <3>0. got'[d] = got[d] /\ got[d] # NoItem
      BY <1>1, <2>2
    <3>1. \A i \in 1..Len(pool[handle[CallOn[d]]]) :
            Ahead(log', got[d].msg, pool[handle[CallOn[d]]][i].msg)
      BY <1>7, <3>0 DEF Given
    <3>2. \A k \in Handles : \A e \in ToSet(wait'[k]) :
            CallOn[e] = CallOn[d] => ~Ahead(log', e, d)
      BY <1>1, <2>0, <3>0 DEF Given
    <3>3. ASSUME NEW e \in Calls, got'[e] # NoItem, CallOn[d] = CallOn[e], Ahead(log', d, e)
          PROVE  Ahead(log', got[d].msg, got'[e].msg)
      <4>1. CASE e = c
        <5>1. got'[e] = item
          BY <1>1, <3>3, <4>1
        <5>2. got[d].msg \in ToSet(log)
          BY <3>0 DEF Holders
        <5> QED BY <1>7, <5>1, <5>2
      <4>2. CASE e # c
        <5>1. got'[e] = got[e] /\ got[e] # NoItem /\ Ahead(log, d, e)
          BY <1>1, <2>0, <3>3, <4>2
        <5>2. Ahead(log, got[d].msg, got[e].msg)
          BY <3>0, <3>3, <5>1 DEF Given
        <5> QED BY <1>7, <5>1, <5>2
      <4> QED BY <4>1, <4>2
    <3> QED BY <3>0, <3>1, <3>2, <3>3
  <2> QED BY <2>1, <2>2
<1> QED BY <1>14, <1>15, <1>16, <1>17

\* A message that nobody waits for.
LEMMA PoolOrder ==
    ASSUME TypeOK, Placed, OrderInv, NEW m \in Msgs, m \notin ToSet(log),
           NEW item \in Items, item.msg = m, NEW h \in Handles, ~IsWaiting(h), Push(h, item),
           unsent' \cup rndv' = (unsent \cup rndv) \ {m}, UNCHANGED <<handle, life>>
    PROVE  OrderInv'
<1> USE DEF OrderInv
<1>1. /\ pool' = [pool EXCEPT ![h] = Append(pool[h], item)]
      /\ wait' = wait /\ future' = future /\ got' = got /\ log' = Append(log, m)
  BY DEF Push, Pooled
<1>2. /\ IsInjective(log')
      /\ \A x : x \in ToSet(log') <=> x \in ToSet(log) \/ x = m
      /\ \A x, y : Ahead(log', x, y) <=> Ahead(log, x, y) \/ (x \in ToSet(log) /\ y = m)
  BY <1>1, LogGrows DEF Logged
<1>3. \A x \in Calls \cup Eps : x # m
  BY AmAssumption
<1>4. \A k \in Handles : (k # h => pool'[k] = pool[k]) /\ pool'[h] = Append(pool[h], item)
  BY <1>1 DEF TypeOK
<1>5. /\ Len(pool'[h]) = Len(pool[h]) + 1 /\ Len(pool[h]) \in Nat
      /\ \A i \in 1..Len(pool[h]) : pool'[h][i] = pool[h][i]
      /\ pool'[h][Len(pool[h]) + 1] = item
  <2>1. pool[h] \in Seq(Items)
    BY DEF TypeOK
  <2>2. /\ Len(Append(pool[h], item)) = Len(pool[h]) + 1 /\ Len(pool[h]) \in Nat
        /\ \A i \in 1..Len(pool[h]) : Append(pool[h], item)[i] = pool[h][i]
        /\ Append(pool[h], item)[Len(pool[h]) + 1] = item
    BY <2>1, AppendProperties, LenProperties
  <2> QED BY <1>4, <2>2
<1>6. ASSUME NEW k \in Handles, NEW i \in 1..Len(pool'[k])
      PROVE  \/ i \in 1..Len(pool[k]) /\ pool'[k][i] = pool[k][i] /\ pool[k][i].msg \in ToSet(log)
             \/ k = h /\ i = Len(pool[h]) + 1 /\ pool'[k][i] = item
  <2>1. CASE k # h
    BY <1>4, <2>1 DEF Holders
  <2>2. CASE k = h /\ i # Len(pool[h]) + 1
    <3>1. i \in 1..Len(pool[h])
      BY <1>5, <2>2
    <3> QED BY <1>5, <2>2, <3>1 DEF Holders
  <2>3. CASE k = h /\ i = Len(pool[h]) + 1
    BY <1>5, <2>3
  <2> QED BY <2>1, <2>2, <2>3
<1>7. Logged'
  <2>1. \A d \in Calls : d \in ToSet(log') <=> future'[d] \notin {"idle", "refused"}
    BY <1>1, <1>2, <1>3 DEF Logged
  <2>2. (unsent' \cup rndv') \cap ToSet(log') = {}
    BY <1>2 DEF Logged
  <2>3. \A e \in Eps : e \in ToSet(log') => life'[e] \notin {"none", "open"}
    BY <1>2, <1>3 DEF Logged
  <2> QED BY <1>2, <2>1, <2>2, <2>3 DEF Logged
<1>8. Holders'
  <2>1. \A k \in Handles : \A i \in 1..Len(pool'[k]) : pool'[k][i].msg \in ToSet(log')
    <3> SUFFICES ASSUME NEW k \in Handles, NEW i \in 1..Len(pool'[k])
                 PROVE  pool'[k][i].msg \in ToSet(log')
      OBVIOUS
    <3> QED BY <1>2, <1>6
  <2> QED BY <1>1, <1>2, <2>1 DEF Holders
<1>9. Queues'
  <2> SUFFICES ASSUME NEW k \in Handles
               PROVE  /\ \A i, j \in 1..Len(pool'[k]) : i < j =>
                           Ahead(log', pool'[k][i].msg, pool'[k][j].msg)
                      /\ \A i, j \in 1..Len(wait[k]) : i < j =>
                           Ahead(log', wait[k][i], wait[k][j])
    BY <1>1 DEF Queues
  <2>1. \A i, j \in 1..Len(wait[k]) : i < j => Ahead(log', wait[k][i], wait[k][j])
    BY <1>2 DEF Queues
  <2>2. ASSUME NEW i \in 1..Len(pool'[k]), NEW j \in 1..Len(pool'[k]), i < j
        PROVE  Ahead(log', pool'[k][i].msg, pool'[k][j].msg)
    <3>1. i \in 1..Len(pool[k]) /\ pool'[k][i] = pool[k][i] /\ pool[k][i].msg \in ToSet(log)
      <4>1. CASE k = h /\ i = Len(pool[h]) + 1
        BY <1>5, <2>2, <4>1
      <4> QED BY <1>6, <4>1
    <3>2. CASE j \in 1..Len(pool[k]) /\ pool'[k][j] = pool[k][j]
      <4>1. Ahead(log, pool[k][i].msg, pool[k][j].msg)
        BY <2>2, <3>1, <3>2 DEF Queues
      <4> QED BY <1>2, <3>1, <3>2, <4>1
    <3>3. CASE pool'[k][j] = item
      BY <1>2, <3>1, <3>3
    <3> QED BY <1>6, <3>2, <3>3
  <2> QED BY <2>1, <2>2
<1>10. Given'
  <2> SUFFICES ASSUME NEW d \in Calls, got[d] # NoItem
               PROVE  /\ \A i \in 1..Len(pool'[handle[CallOn[d]]]) :
                           Ahead(log', got[d].msg, pool'[handle[CallOn[d]]][i].msg)
                      /\ \A k \in Handles : \A e \in ToSet(wait[k]) :
                           CallOn[e] = CallOn[d] => ~Ahead(log', e, d)
                      /\ \A e \in Calls : got[e] # NoItem /\ CallOn[d] = CallOn[e]
                                          /\ Ahead(log', d, e) =>
                           Ahead(log', got[d].msg, got[e].msg)
    BY <1>1 DEF Given
  <2>0. \A x : \A y \in Calls : Ahead(log', x, y) <=> Ahead(log, x, y)
    BY <1>2, <1>3
  <2>1. ASSUME NEW i \in 1..Len(pool'[handle[CallOn[d]]])
        PROVE  Ahead(log', got[d].msg, pool'[handle[CallOn[d]]][i].msg)
    <3>1. handle[CallOn[d]] \in Handles
      BY HolderHandle
    <3>2. CASE i \in 1..Len(pool[handle[CallOn[d]]])
               /\ pool'[handle[CallOn[d]]][i] = pool[handle[CallOn[d]]][i]
      <4>1. Ahead(log, got[d].msg, pool[handle[CallOn[d]]][i].msg)
        BY <3>2 DEF Given
      <4> QED BY <1>2, <3>2, <4>1
    <3>3. CASE pool'[handle[CallOn[d]]][i] = item
      <4>1. got[d].msg \in ToSet(log)
        BY DEF Holders
      <4> QED BY <1>2, <3>3, <4>1
    <3> QED BY <1>6, <3>1, <3>2, <3>3
  <2>2. \A k \in Handles : \A e \in ToSet(wait[k]) :
          CallOn[e] = CallOn[d] => ~Ahead(log', e, d)
    BY <2>0 DEF Given
  <2>3. \A e \in Calls : got[e] # NoItem /\ CallOn[d] = CallOn[e] /\ Ahead(log', d, e) =>
          Ahead(log', got[d].msg, got[e].msg)
    BY <1>2, <2>0 DEF Given
  <2> QED BY <2>1, <2>2, <2>3
<1> QED BY <1>7, <1>8, <1>9, <1>10

\* Every step keeps the order.
LEMMA OrderNext ==
    ASSUME TypeOK, Placed, WaitOwned, NobodyWaitsForPooled, MsgsOnce, OrderInv, [Next]_vars
    PROVE  OrderInv'
<1>0. /\ \A c \in Calls : future[c] # "idle" => CallOn[c] \in Eps /\ life[CallOn[c]] # "none"
      /\ \A h \in Handles : \A c \in ToSet(wait[h]) :
           c \in Calls /\ future[c] \in {"pending", "abandoned"}
      /\ \A c \in Calls : got[c] # NoItem => future[c] # "idle"
  BY AmAssumption, QueueTyped DEF Placed, OrderInv, Holders
<1>1. ASSUME NEW e \in Eps, NEW h \in Handles, EpCreate(e, h) PROVE OrderInv'
  <2>1. UNCHANGED <<pool, got, log, wait, unsent, rndv, future>>
    BY <1>1 DEF EpCreate, amVars
  <2>2. \A f \in Eps : life[f] \notin {"none", "open"} => life'[f] \notin {"none", "open"}
    BY <1>1 DEF EpCreate, TypeOK
  <2>3. \A c \in Calls : got[c] # NoItem => handle'[CallOn[c]] = handle[CallOn[c]]
    BY <1>0, <1>1 DEF EpCreate, TypeOK
  <2> QED BY <1>0, <2>1, <2>2, <2>3, QuietOrder
<1>2. ASSUME NEW c \in Calls, AmRecv(c) PROVE OrderInv'
  <2> DEFINE h == handle[CallOn[c]]
  <2>1. /\ h \in Handles /\ UNCHANGED <<life, handle, keys, toCancel, unsent, rndv>>
        /\ future[c] = "idle"
    BY <1>2, AmRecvStep DEF AmRecv
  <2> HIDE DEF h
  <2>2. CASE future' = [future EXCEPT ![c] = "refused"] /\ UNCHANGED <<pool, wait, got, log>>
    <3>1. \A d \in Calls : (d # c => future'[d] = future[d]) /\ future'[c] = "refused"
      BY <2>2 DEF TypeOK
    <3>2. \A d \in Calls :
            /\ future'[d] \in {"idle", "refused"} <=> future[d] \in {"idle", "refused"}
            /\ future[d] \in {"ok", "UCXError"} => future'[d] = future[d]
      BY <2>1, <3>1
    <3>3. \A k \in Handles : \A d \in ToSet(wait'[k]) : future'[d] \in {"pending", "abandoned"}
      BY <1>0, <2>1, <2>2, <3>1
    <3> QED BY <2>1, <2>2, <3>2, <3>3, QuietOrder
  <2>3. CASE /\ pool[h] # <<>> /\ future' = [future EXCEPT ![c] = "ok"]
             /\ got' = [got EXCEPT ![c] = Head(pool[h])]
             /\ pool' = [pool EXCEPT ![h] = Tail(pool[h])]
             /\ log' = Append(log, c) /\ UNCHANGED wait
    <3>1. handle[CallOn[c]] = h
      BY DEF h
    <3> QED BY <2>1, <2>3, <3>1, TakeOrder
  <2>4. CASE /\ pool[h] = <<>> /\ future' = [future EXCEPT ![c] = "pending"]
             /\ wait' = [wait EXCEPT ![h] = Append(wait[h], c)]
             /\ log' = Append(log, c) /\ UNCHANGED <<pool, got>>
    <3>1. handle[CallOn[c]] = h
      BY DEF h
    <3> QED BY <2>1, <2>4, <3>1, WaitOrder
  <2> QED BY <1>2, <2>2, <2>3, <2>4 DEF AmRecv, PooledResult, PoolRest, h
<1>3. ASSUME NEW c \in Calls, Abandon(c) PROVE OrderInv'
  <2>1. UNCHANGED <<pool, got, log, wait, unsent, rndv, handle, life>> /\ future[c] = "pending"
    BY <1>3 DEF Abandon
  <2>2. \A d \in Calls : (d # c => future'[d] = future[d]) /\ future'[c] = "abandoned"
    BY <1>3 DEF Abandon, TypeOK
  <2>3. \A d \in Calls :
          /\ future'[d] \in {"idle", "refused"} <=> future[d] \in {"idle", "refused"}
          /\ future[d] \in {"ok", "UCXError"} => future'[d] = future[d]
    BY <2>1, <2>2
  <2>4. \A k \in Handles : \A d \in ToSet(wait'[k]) : future'[d] \in {"pending", "abandoned"}
    BY <1>0, <2>1, <2>2
  <2> QED BY <2>1, <2>3, <2>4, QuietOrder
<1>4. ASSUME NEW m \in Msgs, NEW failed \in BOOLEAN, Arrive(m, failed) \/ RndvCompleted(m, failed)
      PROVE  OrderInv'
  <2> DEFINE item == [msg |-> m, failed |-> failed]
             h == handle[MsgTo[m]]
  <2>1. h \in Handles /\ item \in Items /\ item.msg = m /\ Push(h, item) /\ UNCHANGED <<handle, life>>
    BY <1>4, PushStep
  <2>2. m \notin ToSet(log)
    BY <1>4 DEF Arrive, RndvCompleted, OrderInv, Logged
  <2>3. unsent' \cup rndv' = (unsent \cup rndv) \ {m}
    <3>1. CASE Arrive(m, failed)
      <4>1. m \notin rndv
        BY <1>4, <3>1 DEF Arrive, RndvCompleted, MsgsOnce
      <4> QED BY <3>1, <4>1 DEF Arrive
    <3>2. CASE RndvCompleted(m, failed)
      <4>1. m \notin unsent
        BY <1>4, <3>2 DEF Arrive, RndvCompleted, MsgsOnce
      <4> QED BY <3>2, <4>1 DEF RndvCompleted
    <3> QED BY <1>4, <3>1, <3>2
  <2> HIDE DEF item, h
  <2> QED BY <2>1, <2>2, <2>3, ServeOrder, PoolOrder
<1>5. ASSUME NEW m \in Msgs, ArriveRndv(m) PROVE OrderInv'
  <2>1. /\ UNCHANGED <<pool, got, log, wait, future, handle, life>>
        /\ unsent' \cup rndv' \subseteq unsent \cup rndv
    BY <1>5 DEF ArriveRndv
  <2> QED BY <1>0, <2>1, QuietOrder
<1>6. ASSUME NEW e \in Eps, ErrCb(e) PROVE OrderInv'
  <2>1. /\ UNCHANGED <<pool, got, wait, future, handle, unsent, rndv>>
        /\ life[e] = "open" /\ log' = Append(log, e)
    BY <1>6 DEF ErrCb
  <2>2. life'[e] = "error" /\ \A f \in Eps : f # e => life'[f] = life[f]
    BY <1>6 DEF ErrCb, TypeOK
  <2>3. e \notin ToSet(log)
    BY <2>1 DEF OrderInv, Logged
  <2> QED BY <1>0, <2>1, <2>2, <2>3, QuietOrder
<1>7. ASSUME NEW hs \in SUBSET Handles, CancelWaiting(hs),
             UNCHANGED <<pool, got, log, unsent, rndv, handle>>,
             \A e \in Eps : life[e] \notin {"none", "open"} => life'[e] \notin {"none", "open"}
      PROVE  OrderInv'
  <2>1. \A k \in Handles : /\ wait'[k] = wait[k] \/ wait'[k] = <<>>
                           /\ k \in hs => wait'[k] = <<>>
    BY <1>7, CancelMoves
  <2>2. ASSUME NEW c \in Calls
        PROVE  \/ future'[c] = future[c]
               \/ /\ future[c] = "pending" /\ future'[c] = "UCXCanceled"
                  /\ \E k \in hs : c \in ToSet(wait[k])
    BY <1>7 DEF CancelWaiting, AmCbFunc
  <2>3. \A c \in Calls :
          /\ future'[c] \in {"idle", "refused"} <=> future[c] \in {"idle", "refused"}
          /\ future[c] \in {"ok", "UCXError"} => future'[c] = future[c]
    BY <2>2
  <2>4. \A k \in Handles : \A c \in ToSet(wait'[k]) : future'[c] \in {"pending", "abandoned"}
    <3> SUFFICES ASSUME NEW k \in Handles, NEW c \in ToSet(wait'[k])
                 PROVE  future'[c] \in {"pending", "abandoned"}
      OBVIOUS
    <3>1. wait'[k] = wait[k] /\ c \in ToSet(wait[k]) /\ k \notin hs
      BY <2>1, ToSetEmpty
    <3>2. \A l \in hs : c \in ToSet(wait[l]) => l = k
      BY <1>0, <3>1 DEF WaitOwned
    <3> QED BY <1>0, <2>2, <3>1, <3>2
  <2> QED BY <1>7, <2>1, <2>3, <2>4, QuietOrder
<1>8. ASSUME NEW e \in Eps, EpFinalize(e) PROVE OrderInv'
  <2>1. /\ {handle[e]} \in SUBSET Handles /\ CancelWaiting({handle[e]})
        /\ UNCHANGED <<pool, got, log, unsent, rndv, handle>>
        /\ life' = [life EXCEPT ![e] = "closing"]
    BY <1>8, FinalizeStep DEF EpFinalize
  <2>2. \A f \in Eps : life[f] \notin {"none", "open"} => life'[f] \notin {"none", "open"}
    BY <2>1 DEF TypeOK
  <2> QED BY <1>7, <2>1, <2>2
<1>9. ASSUME NEW e \in Eps, EpClosed(e) PROVE OrderInv'
  <2>1. UNCHANGED <<pool, got, log, wait, unsent, rndv, future, handle>>
    BY <1>9 DEF EpClosed, amVars
  <2>2. \A f \in Eps : life[f] \notin {"none", "open"} => life'[f] \notin {"none", "open"}
    BY <1>9 DEF EpClosed, TypeOK
  <2> QED BY <1>0, <2>1, <2>2, QuietOrder
<1>10. CASE CancelInflight
  <2>1. /\ toCancel \in SUBSET Handles /\ CancelWaiting(toCancel)
        /\ UNCHANGED <<pool, got, log, unsent, rndv, handle, life>>
    BY <1>10 DEF CancelInflight, TypeOK
  <2> QED BY <1>7, <2>1
<1>11. CASE UNCHANGED vars
  <2>1. UNCHANGED <<pool, got, log, wait, unsent, rndv, future, handle, life>>
    BY <1>11 DEF vars
  <2> QED BY <1>0, <2>1, QuietOrder
<1> QED BY <1>1, <1>2, <1>3, <1>4, <1>5, <1>6, <1>8, <1>9, <1>10, <1>11 DEF Next

LEMMA OrderInit == Init => OrderInv
<1> SUFFICES ASSUME Init PROVE OrderInv
  OBVIOUS
<1>1. /\ \A h \in Handles : Len(pool[h]) = 0 /\ Len(wait[h]) = 0 /\ ToSet(wait[h]) = {}
      /\ \A c \in Calls : got[c] = NoItem /\ future[c] = "idle"
      /\ ToSet(log) = {}
  BY EmptySeq, ToSetEmpty DEF Init
<1>2. IsInjective(log)
  BY EmptySeq DEF Init, IsInjective
<1>3. Logged /\ Holders
  BY <1>1, <1>2 DEF Logged, Holders
<1>4. Queues /\ Given
  BY <1>1 DEF Queues, Given
<1> QED BY <1>3, <1>4 DEF OrderInv

LEMMA OrderHolds == Spec => []OrderInv
<1>1. TypeOK /\ Placed /\ WaitOwned /\ NobodyWaitsForPooled /\ MsgsOnce /\ OrderInv /\ [Next]_vars
      => OrderInv'
  BY OrderNext
<1> QED BY <1>1, OrderInit, TypeHolds, OwnedHolds, NobodyWaitsForPooledHolds, OnceHolds,
           PTL DEF Spec

\* Calls made on an endpoint get its messages in the order in which these were
\* handed over, eager or fetched, pooled or waited for, though the pool and the
\* list of waiting calls are those of the handle (_am_recv_callback, am_recv_nb).
THEOREM InOrderHolds == Spec => []InOrder
<1>1. OrderInv => InOrder
  BY DEF OrderInv, Given, InOrder, Before, Ahead
<1> QED BY <1>1, OrderHolds, PTL

-----------------------------------------------------------------------------
(* What is lost.                                                            *)

\* A pool or a call has a message; the calls whose callers stopped waiting and
\* that have been served.
Held(m) ==
    \/ \E c \in Calls : got[c] # NoItem /\ got[c].msg = m
    \/ \E h \in Handles : \E i \in 1..Len(pool[h]) : pool[h][i].msg = m

Gone == {c \in Calls : future[c] = "abandoned" /\ \A h \in Handles : c \notin ToSet(wait[h])}

\* The two sets LostOnlyToAbandoned compares, which are finite.
LEMMA LostGone ==
    ASSUME TypeOK, OrderInv
    PROVE  /\ IsFiniteSet(Lost) /\ IsFiniteSet(Gone)
           /\ \A m : m \in Lost <=> m \in Msgs /\ m \in ToSet(log) /\ ~Held(m)
           /\ LostOnlyToAbandoned <=> Cardinality(Lost) <= Cardinality(Gone)
<1>1. IsFiniteSet(ToSet(log))
  <2>1. log \in Seq(Calls \cup Msgs \cup Eps)
    BY DEF TypeOK
  <2> QED BY <2>1, ToSetFinite
<1>2. Lost \subseteq ToSet(log) /\ Gone \subseteq ToSet(log)
  BY DEF Lost, Gone, OrderInv, Logged
<1>3. IsFiniteSet(Lost) /\ IsFiniteSet(Gone)
  BY <1>1, <1>2, FS_Subset
<1>4. \A m : m \in Lost <=> m \in Msgs /\ m \in ToSet(log) /\ ~Held(m)
  BY DEF Lost, Held
<1> QED BY <1>3, <1>4 DEF LostOnlyToAbandoned, Gone

\* The same after a step.
LEMMA LostGoneNext ==
    ASSUME TypeOK', OrderInv'
    PROVE  /\ IsFiniteSet(Lost') /\ IsFiniteSet(Gone')
           /\ \A m : m \in Lost' <=> m \in Msgs /\ m \in ToSet(log') /\ ~Held(m)'
           /\ LostOnlyToAbandoned' <=> Cardinality(Lost') <= Cardinality(Gone')
<1>1. IsFiniteSet(ToSet(log'))
  <2>1. log' \in Seq(Calls \cup Msgs \cup Eps)
    BY DEF TypeOK
  <2> QED BY <2>1, ToSetFinite
<1>2. Lost' \subseteq ToSet(log') /\ Gone' \subseteq ToSet(log')
  BY DEF Lost, Gone, OrderInv, Logged
<1>3. IsFiniteSet(Lost') /\ IsFiniteSet(Gone')
  BY <1>1, <1>2, FS_Subset
<1>4. \A m : m \in Lost' <=> m \in Msgs /\ m \in ToSet(log') /\ ~Held(m)'
  BY DEF Lost, Held
<1> QED BY <1>3, <1>4 DEF LostOnlyToAbandoned, Gone

\* A step that loses nothing, and brings no call that is gone back.
LEMMA NothingLost ==
    ASSUME TypeOK, TypeOK', OrderInv, OrderInv', LostOnlyToAbandoned,
           \A m \in Msgs : m \in ToSet(log') => Held(m)' \/ (m \in ToSet(log) /\ ~Held(m)),
           \A c \in Gone : c \in Gone'
    PROVE  LostOnlyToAbandoned'
<1>1. Lost' \subseteq Lost
  <2>1. \A m : m \in Lost' <=> m \in Msgs /\ m \in ToSet(log') /\ ~Held(m)'
    BY LostGoneNext
  <2> QED BY <2>1, LostGone
<1>2. IsFiniteSet(Lost) /\ IsFiniteSet(Gone) /\ Cardinality(Lost) <= Cardinality(Gone)
  BY LostGone
<1>3. IsFiniteSet(Gone') /\ (LostOnlyToAbandoned' <=> Cardinality(Lost') <= Cardinality(Gone'))
  BY LostGoneNext
<1>4. Cardinality(Lost') <= Cardinality(Lost) /\ Cardinality(Gone) <= Cardinality(Gone')
  BY <1>1, <1>2, <1>3, FS_Subset
<1>5. /\ Cardinality(Lost) \in Nat /\ Cardinality(Gone) \in Nat
      /\ Cardinality(Gone') \in Nat /\ Cardinality(Lost') \in Nat
  BY <1>1, <1>2, <1>3, FS_Subset, FS_CardinalityType
<1> QED BY <1>2, <1>3, <1>4, <1>5

\* A step that loses one message to a call that is gone now.
LEMMA OneLost ==
    ASSUME TypeOK, TypeOK', OrderInv, OrderInv', LostOnlyToAbandoned,
           NEW m, \A x \in Lost' : x \in Lost \/ x = m,
           NEW c, c \in Gone', c \notin Gone, \A x \in Gone : x \in Gone'
    PROVE  LostOnlyToAbandoned'
<1>1. IsFiniteSet(Lost) /\ IsFiniteSet(Gone) /\ Cardinality(Lost) <= Cardinality(Gone)
  BY LostGone
<1>2. /\ IsFiniteSet(Gone') /\ IsFiniteSet(Lost')
      /\ LostOnlyToAbandoned' <=> Cardinality(Lost') <= Cardinality(Gone')
  BY LostGoneNext
<1>3. IsFiniteSet(Lost \cup {m}) /\ Cardinality(Lost \cup {m}) <= Cardinality(Lost) + 1
  BY <1>1, FS_AddElement, FS_CardinalityType
<1>4. IsFiniteSet(Gone \cup {c}) /\ Cardinality(Gone \cup {c}) = Cardinality(Gone) + 1
  BY <1>1, FS_AddElement
<1>5. Cardinality(Lost') <= Cardinality(Lost \cup {m})
  <2>1. Lost' \subseteq Lost \cup {m}
    OBVIOUS
  <2> QED BY <1>3, <2>1, FS_Subset
<1>6. Cardinality(Gone \cup {c}) <= Cardinality(Gone')
  <2>1. Gone \cup {c} \subseteq Gone'
    OBVIOUS
  <2> QED BY <1>2, <2>1, FS_Subset
<1>7. /\ Cardinality(Lost) \in Nat /\ Cardinality(Gone) \in Nat
      /\ Cardinality(Gone') \in Nat /\ Cardinality(Lost') \in Nat
      /\ Cardinality(Lost \cup {m}) \in Nat /\ Cardinality(Gone \cup {c}) \in Nat
  BY <1>1, <1>2, <1>3, <1>4, FS_CardinalityType
<1> QED BY <1>1, <1>2, <1>3, <1>4, <1>5, <1>6, <1>7

\* Steps that hand nothing over lose nothing.
LEMMA QuietLoss ==
    ASSUME TypeOK, TypeOK', OrderInv, OrderInv', LostOnlyToAbandoned,
           UNCHANGED <<pool, got>>,
           \A m \in Msgs : m \in ToSet(log') => m \in ToSet(log),
           \A c \in Calls : future[c] = "abandoned" => future'[c] = "abandoned",
           \A k \in Handles : \A c \in ToSet(wait'[k]) :
               c \in ToSet(wait[k]) \/ future[c] = "idle"
    PROVE  LostOnlyToAbandoned'
<1>1. \A m : Held(m)' <=> Held(m)
  BY DEF Held
<1>2. \A m \in Msgs : m \in ToSet(log') => Held(m)' \/ (m \in ToSet(log) /\ ~Held(m))
  BY <1>1
<1>3. \A c \in Gone : c \in Gone'
  BY DEF Gone
<1> QED BY <1>2, <1>3, NothingLost

\* Taking a message out of a pool does not lose it.
LEMMA TakeLoss ==
    ASSUME TypeOK, TypeOK', OrderInv, OrderInv', LostOnlyToAbandoned,
           NEW c \in Calls, future[c] = "idle", NEW h \in Handles, pool[h] # <<>>,
           future' = [future EXCEPT ![c] = "ok"], got' = [got EXCEPT ![c] = Head(pool[h])],
           pool' = [pool EXCEPT ![h] = Tail(pool[h])], log' = Append(log, c), wait' = wait
    PROVE  LostOnlyToAbandoned'
<1>1. got[c] = NoItem
  BY DEF OrderInv, Holders
<1>2. \A d \in Calls : (d # c => got'[d] = got[d] /\ future'[d] = future[d])
                       /\ got'[c] = Head(pool[h])
  BY DEF TypeOK
<1>3. \A k \in Handles : (k # h => pool'[k] = pool[k]) /\ pool'[h] = Tail(pool[h])
  BY DEF TypeOK
<1>4. /\ Len(pool[h]) \in Nat \ {0} /\ Head(pool[h]) = pool[h][1] /\ pool[h][1] \in Items
      /\ Len(Tail(pool[h])) = Len(pool[h]) - 1
      /\ \A i \in 1..Len(Tail(pool[h])) : Tail(pool[h])[i] = pool[h][i + 1]
  <2>1. pool[h] \in Seq(Items)
    BY DEF TypeOK
  <2> QED BY <2>1, ToSetTail, HeadTailProperties, EmptySeq, LenProperties
<1>5. \A m : Held(m) => Held(m)'
  <2> SUFFICES ASSUME NEW m, Held(m) PROVE Held(m)'
    OBVIOUS
  <2>1. CASE \E d \in Calls : got[d] # NoItem /\ got[d].msg = m
    BY <1>1, <1>2, <2>1 DEF Held
  <2>2. CASE \E k \in Handles : \E i \in 1..Len(pool[k]) : pool[k][i].msg = m
    <3>1. PICK k \in Handles : \E i \in 1..Len(pool[k]) : pool[k][i].msg = m
      BY <2>2
    <3>2. PICK i \in 1..Len(pool[k]) : pool[k][i].msg = m
      BY <3>1
    <3>3. CASE k # h
      <4>1. pool'[k] = pool[k]
        BY <1>3, <3>3
      <4> QED BY <3>2, <4>1 DEF Held
    <3>4. CASE k = h /\ i = 1
      <4>1. got'[c] # NoItem /\ got'[c].msg = m
        BY <1>2, <1>4, <3>2, <3>4, ItemAssumption
      <4> QED BY <4>1 DEF Held
    <3>5. CASE k = h /\ i # 1
      <4>1. i - 1 \in 1..Len(Tail(pool[h])) /\ i - 1 + 1 = i
        BY <1>4, <3>5
      <4>2. Tail(pool[h])[i - 1] = pool[h][i]
        BY <1>4, <4>1
      <4>3. i - 1 \in 1..Len(pool'[h]) /\ pool'[h][i - 1].msg = m
        BY <1>3, <3>2, <3>5, <4>1, <4>2
      <4> QED BY <4>3 DEF Held
    <3> QED BY <3>3, <3>4, <3>5
  <2> QED BY <2>1, <2>2 DEF Held
<1>6. \A m \in Msgs : m \in ToSet(log') => m \in ToSet(log)
  <2>1. log \in Seq(Calls \cup Msgs \cup Eps) /\ c \in Calls \cup Msgs \cup Eps
    BY DEF TypeOK
  <2>2. ToSet(Append(log, c)) = ToSet(log) \cup {c}
    BY <2>1, ToSetAppend
  <2> QED BY <2>2, AmAssumption
<1>7. \A x \in Gone : x \in Gone'
  BY <1>2 DEF Gone
<1>8. \A m \in Msgs : m \in ToSet(log') => Held(m)' \/ (m \in ToSet(log) /\ ~Held(m))
  BY <1>5, <1>6
<1> QED BY <1>7, <1>8, NothingLost

\* A message that is handed over goes to the pool, to a call, or is lost to a
\* call whose caller stopped waiting.
LEMMA PushLoss ==
    ASSUME TypeOK, TypeOK', WaitOwned, NobodyWaitsForPooled, OrderInv, OrderInv',
           LostOnlyToAbandoned, NEW m \in Msgs, NEW item \in Items, item.msg = m,
           NEW h \in Handles, Push(h, item)
    PROVE  LostOnlyToAbandoned'
<1>1. \A x : x \in ToSet(log') <=> x \in ToSet(log) \/ x = m
  <2>1. log \in Seq(Calls \cup Msgs \cup Eps) /\ m \in Calls \cup Msgs \cup Eps
    BY DEF TypeOK
  <2>2. ToSet(Append(log, m)) = ToSet(log) \cup {m}
    BY <2>1, ToSetAppend
  <2> QED BY <2>2 DEF Push
<1>2. CASE ~IsWaiting(h)
  <2>1. pool' = [pool EXCEPT ![h] = Append(pool[h], item)] /\ UNCHANGED <<wait, future, got>>
    BY <1>2 DEF Push, Pooled
  <2>2. /\ \A k \in Handles : (k # h => pool'[k] = pool[k]) /\ pool'[h] = Append(pool[h], item)
        /\ Len(Append(pool[h], item)) = Len(pool[h]) + 1 /\ Len(pool[h]) \in Nat
        /\ \A i \in 1..Len(pool[h]) : Append(pool[h], item)[i] = pool[h][i]
        /\ Append(pool[h], item)[Len(pool[h]) + 1] = item
    <3>1. pool[h] \in Seq(Items)
      BY DEF TypeOK
    <3> QED BY <2>1, <3>1, AppendProperties, LenProperties DEF TypeOK
  <2>3. Held(m)'
    <3>1. Len(pool[h]) + 1 \in 1..Len(pool'[h]) /\ pool'[h][Len(pool[h]) + 1].msg = m
      BY <2>2
    <3> QED BY <3>1 DEF Held
  <2>4. \A x : Held(x) => Held(x)'
    <3> SUFFICES ASSUME NEW x, Held(x) PROVE Held(x)'
      OBVIOUS
    <3>1. CASE \E d \in Calls : got[d] # NoItem /\ got[d].msg = x
      BY <2>1, <3>1 DEF Held
    <3>2. CASE \E k \in Handles : \E i \in 1..Len(pool[k]) : pool[k][i].msg = x
      <4>1. PICK k \in Handles : \E i \in 1..Len(pool[k]) : pool[k][i].msg = x
        BY <3>2
      <4>2. PICK i \in 1..Len(pool[k]) : pool[k][i].msg = x
        BY <4>1
      <4>3. i \in 1..Len(pool'[k]) /\ pool'[k][i] = pool[k][i]
        <5>1. CASE k = h
          BY <2>2, <4>2, <5>1
        <5>2. CASE k # h
          BY <2>2, <4>2, <5>2
        <5> QED BY <5>1, <5>2
      <4> QED BY <4>2, <4>3 DEF Held
    <3> QED BY <3>1, <3>2 DEF Held
  <2>5. \A c \in Gone : c \in Gone'
    BY <2>1 DEF Gone
  <2>6. \A x \in Msgs : x \in ToSet(log') => Held(x)' \/ (x \in ToSet(log) /\ ~Held(x))
    BY <1>1, <2>3, <2>4
  <2> QED BY <2>5, <2>6, NothingLost
<1>3. CASE IsWaiting(h)
  <2>1. PICK c \in Calls :
          /\ c \in ToSet(wait[h]) /\ got[c] = NoItem /\ pool' = pool
          /\ \/ future[c] = "pending" /\ future'[c] \in {"ok", "UCXError"} /\ got'[c] = item
             \/ future[c] = "abandoned" /\ future'[c] = "abandoned" /\ got'[c] = NoItem
          /\ \A d \in Calls : d # c => future'[d] = future[d] /\ got'[d] = got[d]
          /\ \A k \in Handles : \A d \in ToSet(wait'[k]) :
               d \in Calls /\ d \in ToSet(wait[k]) /\ d # c
    BY <1>3, ServeStep
  <2>2. c \notin Gone /\ \A x \in Gone : x \in Gone'
    BY <2>1 DEF Gone
  <2>3. \A x : Held(x) => Held(x)'
    BY <2>1 DEF Held
  <2>4. CASE future[c] = "pending" /\ got'[c] = item
    <3>1. Held(m)'
      BY <2>4, ItemAssumption DEF Held
    <3>2. \A x \in Msgs : x \in ToSet(log') => Held(x)' \/ (x \in ToSet(log) /\ ~Held(x))
      BY <1>1, <2>3, <3>1
    <3> QED BY <2>2, <3>2, NothingLost
  <2>5. CASE future'[c] = "abandoned"
    <3>1. c \in Gone'
      BY <2>1, <2>5 DEF Gone
    <3>2. \A x : x \in Lost' <=> x \in Msgs /\ x \in ToSet(log') /\ ~Held(x)'
      BY LostGoneNext
    <3>3. \A x \in Lost' : x \in Lost \/ x = m
      BY <1>1, <2>3, <3>2, LostGone
    <3> QED BY <2>2, <3>1, <3>3, OneLost
  <2> QED BY <2>1, <2>4, <2>5
<1> QED BY <1>2, <1>3

\* Every step loses messages only to calls whose callers stopped waiting.
LEMMA LostNext ==
    ASSUME TypeOK, TypeOK', Placed, WaitOwned, NobodyWaitsForPooled, OrderInv, OrderInv',
           LostOnlyToAbandoned, [Next]_vars
    PROVE  LostOnlyToAbandoned'
<1>1. ASSUME NEW z \in Calls \cup Eps, log' = Append(log, z)
      PROVE  \A m \in Msgs : m \in ToSet(log') => m \in ToSet(log)
  <2>1. log \in Seq(Calls \cup Msgs \cup Eps) /\ z \in Calls \cup Msgs \cup Eps
    BY DEF TypeOK
  <2>2. ToSet(Append(log, z)) = ToSet(log) \cup {z}
    BY <2>1, ToSetAppend
  <2> QED BY <1>1, <2>2, AmAssumption
<1>2. CASE UNCHANGED <<pool, got, log, wait, future>>
  BY <1>2, QuietLoss
<1>3. ASSUME NEW c \in Calls, AmRecv(c) PROVE LostOnlyToAbandoned'
  <2> DEFINE h == handle[CallOn[c]]
  <2>1. h \in Handles /\ future[c] = "idle"
    BY <1>3, AmRecvStep DEF AmRecv
  <2> HIDE DEF h
  <2>2. CASE future' = [future EXCEPT ![c] = "refused"] /\ UNCHANGED <<pool, wait, got, log>>
    <3>1. \A d \in Calls : future[d] = "abandoned" => future'[d] = "abandoned"
      BY <2>1, <2>2 DEF TypeOK
    <3> QED BY <2>2, <3>1, QuietLoss
  <2>3. CASE /\ pool[h] # <<>> /\ future' = [future EXCEPT ![c] = "ok"]
             /\ got' = [got EXCEPT ![c] = Head(pool[h])]
             /\ pool' = [pool EXCEPT ![h] = Tail(pool[h])]
             /\ log' = Append(log, c) /\ UNCHANGED wait
    BY <2>1, <2>3, TakeLoss
  <2>4. CASE /\ pool[h] = <<>> /\ future' = [future EXCEPT ![c] = "pending"]
             /\ wait' = [wait EXCEPT ![h] = Append(wait[h], c)]
             /\ log' = Append(log, c) /\ UNCHANGED <<pool, got>>
    <3>1. \A d \in Calls : future[d] = "abandoned" => future'[d] = "abandoned"
      BY <2>1, <2>4 DEF TypeOK
    <3>2. ToSet(Append(wait[h], c)) = ToSet(wait[h]) \cup {c}
      <4>1. wait[h] \in Seq(Calls)
        BY <2>1 DEF TypeOK
      <4> QED BY <4>1, ToSetAppend
    <3>3. \A k \in Handles : \A d \in ToSet(wait'[k]) :
            d \in ToSet(wait[k]) \/ future[d] = "idle"
      BY <2>1, <2>4, <3>2 DEF TypeOK
    <3> QED BY <1>1, <2>4, <3>1, <3>3, QuietLoss
  <2> QED BY <1>3, <2>2, <2>3, <2>4 DEF AmRecv, PooledResult, PoolRest, h
<1>4. ASSUME NEW c \in Calls, Abandon(c) PROVE LostOnlyToAbandoned'
  <2>1. UNCHANGED <<pool, got, log, wait>>
    BY <1>4 DEF Abandon
  <2>2. \A d \in Calls : future[d] = "abandoned" => future'[d] = "abandoned"
    BY <1>4 DEF Abandon, TypeOK
  <2> QED BY <2>1, <2>2, QuietLoss
<1>5. ASSUME NEW m \in Msgs, NEW failed \in BOOLEAN, Arrive(m, failed) \/ RndvCompleted(m, failed)
      PROVE  LostOnlyToAbandoned'
  <2> DEFINE item == [msg |-> m, failed |-> failed]
             h == handle[MsgTo[m]]
  <2>1. h \in Handles /\ item \in Items /\ item.msg = m /\ Push(h, item)
    BY <1>5, PushStep
  <2> HIDE DEF item, h
  <2> QED BY <2>1, PushLoss
<1>6. ASSUME NEW m \in Msgs, ArriveRndv(m) PROVE UNCHANGED <<pool, got, log, wait, future>>
  BY <1>6 DEF ArriveRndv
<1>7. ASSUME NEW e \in Eps, ErrCb(e) PROVE LostOnlyToAbandoned'
  <2>1. UNCHANGED <<pool, got, wait, future>> /\ log' = Append(log, e)
    BY <1>7 DEF ErrCb
  <2> QED BY <1>1, <2>1, QuietLoss
<1>8. ASSUME NEW hs \in SUBSET Handles, CancelWaiting(hs), UNCHANGED <<pool, got, log>>
      PROVE  LostOnlyToAbandoned'
  <2>1. \A k \in Handles : wait'[k] = wait[k] \/ wait'[k] = <<>>
    BY <1>8, CancelMoves
  <2>2. \A k \in Handles : \A c \in ToSet(wait'[k]) : c \in ToSet(wait[k])
    BY <2>1, ToSetEmpty
  <2>3. \A c \in Calls : future[c] = "abandoned" => future'[c] = "abandoned"
    BY <1>8 DEF CancelWaiting, AmCbFunc
  <2> QED BY <1>8, <2>2, <2>3, QuietLoss
<1>9. ASSUME NEW e \in Eps, EpFinalize(e) PROVE LostOnlyToAbandoned'
  BY <1>8, <1>9, FinalizeStep DEF EpFinalize
<1>10. CASE CancelInflight
  BY <1>8, <1>10 DEF CancelInflight, TypeOK
<1>11. ASSUME NEW e \in Eps, EpClosed(e) \/ \E h \in Handles : EpCreate(e, h)
       PROVE  UNCHANGED <<pool, got, log, wait, future>>
  BY <1>11 DEF EpClosed, EpCreate, amVars
<1>12. CASE UNCHANGED vars
  BY <1>2, <1>12 DEF vars
<1> QED BY <1>2, <1>3, <1>4, <1>5, <1>6, <1>7, <1>9, <1>10, <1>11, <1>12 DEF Next

\* A message that has been handed over and that neither the pool nor a call has
\* went to an am_recv() whose caller had stopped waiting (a timeout), a message
\* for each: no other message is dropped (_am_recv_callback, am_recv_nb).
THEOREM LostOnlyToAbandonedHolds == Spec => []LostOnlyToAbandoned
<1>1. Init => LostOnlyToAbandoned
  <2> SUFFICES ASSUME Init PROVE LostOnlyToAbandoned
    OBVIOUS
  <2>1. TypeOK /\ OrderInv
    BY TypeInit, OrderInit
  <2>2. ToSet(log) = {}
    BY ToSetEmpty DEF Init
  <2>3. Lost = {}
    BY <2>2 DEF Lost
  <2>4. Cardinality(Lost) = 0 /\ Cardinality(Gone) \in Nat
    BY <2>1, <2>3, LostGone, FS_EmptySet, FS_CardinalityType
  <2> QED BY <2>1, <2>4, LostGone
<1>2. /\ TypeOK /\ Placed /\ WaitOwned /\ NobodyWaitsForPooled /\ OrderInv /\ LostOnlyToAbandoned
      /\ [Next]_vars /\ TypeOK' /\ OrderInv'
      => LostOnlyToAbandoned'
  BY LostNext
<1> QED BY <1>1, <1>2, TypeHolds, OwnedHolds, NobodyWaitsForPooledHolds, OrderHolds, PTL DEF Spec
-----------------------------------------------------------------------------
(* The steps of ErrorReleases, which a rule for weak fairness joins.         *)

\* A call that waits though its endpoint has had an error since it was made.
Overdue(c) == future[c] = "pending" /\ Before(c, CallOn[c])

\* The arm task will find its list of waiting calls.
OverdueScheduled == \A c \in Calls : Overdue(c) => handle[CallOn[c]] \in toCancel

\* What was in an order stays in it, and only the error callback adds an endpoint.
LEMMA BeforeSteps ==
    ASSUME TypeOK, Placed, OrderInv, [Next]_vars, NEW c \in Calls
    PROVE  /\ Before(c, CallOn[c]) => Before(c, CallOn[c])'
           /\ Before(c, CallOn[c])' => Before(c, CallOn[c]) \/ ErrCb(CallOn[c])
<1> DEFINE Kept == log' = log
           Grown(z) == log' = Append(log, z)
<1>1. CallOn[c] \in Eps /\ CallOn[c] \notin Msgs /\ CallOn[c] \notin Calls
  BY AmAssumption
<1>2. ASSUME NEW z \in Calls \cup Msgs \cup Eps, Grown(z)
      PROVE  Before(c, CallOn[c])' <=>
                 Before(c, CallOn[c]) \/ (c \in ToSet(log) /\ CallOn[c] = z)
  <2>1. log \in Seq(Calls \cup Msgs \cup Eps)
    BY DEF TypeOK
  <2>2. Ahead(Append(log, z), c, CallOn[c]) <=>
            Ahead(log, c, CallOn[c]) \/ (c \in ToSet(log) /\ CallOn[c] = z)
    BY <2>1, AheadAppend
  <2> QED BY <1>2, <2>2 DEF Before, Ahead
<1>3. \/ Kept
      \/ \E z \in Calls \cup Msgs : Grown(z)
      \/ \E e \in Eps : ErrCb(e) /\ Grown(e)
  <2>1. CASE \E d \in Calls : AmRecv(d)
    BY <2>1 DEF AmRecv
  <2>2. CASE \E m \in Msgs, failed \in BOOLEAN : Arrive(m, failed) \/ RndvCompleted(m, failed)
    BY <2>2 DEF Arrive, RndvCompleted, Push
  <2>3. CASE \E e \in Eps : ErrCb(e)
    BY <2>3 DEF ErrCb
  <2>4. CASE \/ \E e \in Eps, h \in Handles : EpCreate(e, h)
             \/ \E d \in Calls : Abandon(d)
             \/ \E m \in Msgs : ArriveRndv(m)
             \/ \E e \in Eps : EpFinalize(e) \/ EpClosed(e)
             \/ CancelInflight \/ UNCHANGED vars
    BY <2>4 DEF EpCreate, Abandon, ArriveRndv, EpFinalize, EpClosed, CancelInflight, vars, amVars
  <2> QED BY <2>1, <2>2, <2>3, <2>4 DEF Next
<1>4. CASE Kept
  BY <1>4 DEF Before
<1>5. CASE \E z \in Calls \cup Msgs : Grown(z)
  BY <1>1, <1>2, <1>5
<1>6. CASE \E e \in Eps : ErrCb(e) /\ Grown(e)
  BY <1>2, <1>6
<1> QED BY <1>3, <1>4, <1>5, <1>6

\* A call that waits after a step waited before it, or has been made by it.
LEMMA WaitedBefore ==
    ASSUME TypeOK, Placed, OrderInv, [Next]_vars, NEW c \in Calls, future'[c] = "pending"
    PROVE  future[c] = "pending" \/ (future[c] = "idle" /\ AmRecv(c))
<1>1. CASE \E d \in Calls : AmRecv(d)
  <2>1. PICK d \in Calls : AmRecv(d)
    BY <1>1
  <2>2. CASE d = c
    BY <2>1, <2>2 DEF AmRecv
  <2>3. CASE d # c
    BY <2>1, <2>3, AmRecvStep
  <2> QED BY <2>2, <2>3
<1>2. CASE \E m \in Msgs, failed \in BOOLEAN : Arrive(m, failed) \/ RndvCompleted(m, failed)
  <2>1. PICK m \in Msgs, failed \in BOOLEAN : Arrive(m, failed) \/ RndvCompleted(m, failed)
    BY <1>2
  <2>2. /\ handle[MsgTo[m]] \in Handles /\ [msg |-> m, failed |-> failed] \in Items
        /\ Push(handle[MsgTo[m]], [msg |-> m, failed |-> failed])
    BY <2>1, PushStep
  <2> QED BY <2>2, PushWaiters
<1>3. CASE \E e \in Eps : EpFinalize(e)
  BY <1>3, FinalizeStep, CancelMoves
<1>4. CASE CancelInflight
  BY <1>4, CancelMoves DEF CancelInflight, TypeOK
<1>5. CASE \E d \in Calls : Abandon(d)
  BY <1>5 DEF Abandon, TypeOK
<1>6. CASE \/ \E e \in Eps, h \in Handles : EpCreate(e, h)
           \/ \E m \in Msgs : ArriveRndv(m)
           \/ \E e \in Eps : ErrCb(e) \/ EpClosed(e)
           \/ UNCHANGED vars
  BY <1>6 DEF EpCreate, ArriveRndv, ErrCb, EpClosed, vars, amVars
<1> QED BY <1>1, <1>2, <1>3, <1>4, <1>5, <1>6 DEF Next

\* So a call is overdue from the error of its endpoint on: one that is made after the error is not.
LEMMA OverdueSince ==
    ASSUME TypeOK, Placed, OrderInv, [Next]_vars, NEW c \in Calls, Overdue(c)'
    PROVE  future[c] = "pending" /\ (Before(c, CallOn[c]) \/ ErrCb(CallOn[c]))
<1>1. future'[c] = "pending" /\ (Before(c, CallOn[c]) \/ ErrCb(CallOn[c]))
  BY BeforeSteps DEF Overdue
<1>2. ASSUME future[c] = "idle", AmRecv(c) PROVE FALSE
  <2>1. c \notin ToSet(log)
    BY <1>2 DEF OrderInv, Logged
  <2>2. ~Before(c, CallOn[c])
    BY <2>1, LogOrder DEF OrderInv, Before, Ahead
  <2>3. ErrCb(CallOn[c])
    BY <1>1, <2>2
  <2>4. CallOn[c] \in Eps /\ life'[CallOn[c]] = life[CallOn[c]]
    BY <1>2, AmAssumption DEF AmRecv
  <2> QED BY <2>3, <2>4 DEF ErrCb, TypeOK
<1> QED BY <1>1, <1>2, WaitedBefore

\* The schedule is kept: only the arm task and the finalizer of the endpoint itself take a handle
\* off it, and both release the calls that wait under it.
LEMMA OverdueScheduledNext ==
    ASSUME TypeOK, Placed, OrderInv, WaitersFound, OverdueScheduled, [Next]_vars
    PROVE  OverdueScheduled'
<1> SUFFICES ASSUME NEW c \in Calls, Overdue(c)' PROVE handle'[CallOn[c]] \in toCancel'
  BY DEF OverdueScheduled
<1>1. future[c] = "pending" /\ future'[c] = "pending" /\ CallOn[c] \in Eps
  BY OverdueSince, AmAssumption DEF Overdue
<1>2. life[CallOn[c]] \in {"open", "error"} /\ c \in ToSet(wait[handle[CallOn[c]]])
  BY <1>1 DEF WaitersFound
<1>3. CASE ErrCb(CallOn[c])
  BY <1>3 DEF ErrCb
<1>4. CASE Before(c, CallOn[c])
  <2>1. handle[CallOn[c]] \in toCancel
    BY <1>1, <1>4 DEF OverdueScheduled, Overdue
  <2>2. CASE \E e \in Eps, h \in Handles : EpCreate(e, h)
    BY <1>1, <1>2, <2>1, <2>2 DEF EpCreate, TypeOK
  <2>3. CASE \E e \in Eps : EpFinalize(e)
    <3>1. PICK e \in Eps : EpFinalize(e)
      BY <2>3
    <3>2. handle' = handle /\ toCancel' = toCancel \ {handle[e]} /\ handle[CallOn[c]] # handle[e]
      BY <1>1, <1>2, <3>1, FinalizeStep, CancelMoves
    <3> QED BY <2>1, <3>2
  <2>4. CASE CancelInflight
    <3>1. \A h \in toCancel : c \notin ToSet(wait[h])
      BY <1>1, <2>4, CancelMoves DEF CancelInflight, TypeOK
    <3> QED BY <1>2, <2>1, <3>1
  <2>5. CASE UNCHANGED <<handle, toCancel>>
    BY <2>1, <2>5
  <2>6. ASSUME NEW e \in Eps, ErrCb(e) PROVE handle'[CallOn[c]] \in toCancel'
    BY <2>1, <2>6 DEF ErrCb
  <2>7. \/ UNCHANGED <<handle, toCancel>>
        \/ \E e \in Eps : ErrCb(e)
        \/ \E e \in Eps, h \in Handles : EpCreate(e, h)
        \/ \E e \in Eps : EpFinalize(e)
        \/ CancelInflight
    BY DEF Next, AmRecv, Abandon, Arrive, RndvCompleted, ArriveRndv, EpClosed, vars
  <2> QED BY <2>2, <2>3, <2>4, <2>5, <2>6, <2>7
<1> QED BY <1>3, <1>4, OverdueSince

\* Nobody waits at first.
LEMMA OverdueScheduledInit == Init => OverdueScheduled
BY DEF Init, OverdueScheduled, Overdue

\* A call that waits though its endpoint has had an error is scheduled for cancellation under the
\* handle the endpoint still has (_err_cb).
THEOREM OverdueScheduledHolds == Spec => []OverdueScheduled
<1>1. TypeOK /\ Placed /\ OrderInv /\ WaitersFound /\ OverdueScheduled /\ [Next]_vars
      => OverdueScheduled'
  BY OverdueScheduledNext
<1> QED BY <1>1, OverdueScheduledInit, TypeHolds, OrderHolds, WaitersFoundHolds, PTL DEF Spec

\* An overdue call stays so until it is released, and the arm task's cancelling releases it.
ReleaseSteps ==
    [][\A c \in Calls : Overdue(c) =>
         /\ future'[c] # "pending" \/ Overdue(c)'
         /\ CancelInflight => future'[c] # "pending"]_vars

\* Once the arm task comes round after an error no call made before it waits on, and
\* till then no step hides the call from it (cancel_inflight_messages).
THEOREM ReleaseStepsHold == Spec => ReleaseSteps
<1> DEFINE Step(c) == Overdue(c) =>
             /\ future'[c] # "pending" \/ Overdue(c)'
             /\ CancelInflight => future'[c] # "pending"
<1>1. ASSUME TypeOK, Placed, OrderInv, WaitersFound, OverdueScheduled, [Next]_vars,
             NEW c \in Calls
      PROVE  Step(c)
  <2> SUFFICES ASSUME Overdue(c), future'[c] = "pending" PROVE Overdue(c)' /\ ~CancelInflight
    OBVIOUS
  <2>1. Overdue(c)'
    BY <1>1, BeforeSteps DEF Overdue
  <2>2. ASSUME CancelInflight PROVE FALSE
    <3>1. \A h \in toCancel : c \notin ToSet(wait[h])
      BY <1>1, <2>2, CancelMoves DEF CancelInflight, TypeOK
    <3> QED BY <1>1, <3>1 DEF WaitersFound, OverdueScheduled, Overdue
  <2> QED BY <2>1, <2>2
<1>2. TypeOK /\ Placed /\ OrderInv /\ WaitersFound /\ OverdueScheduled /\ [Next]_vars
      => [\A c \in Calls : Step(c)]_vars
  <2> HIDE DEF Step
  <2> QED BY <1>1
<1> QED BY <1>2, TypeHolds, OrderHolds, WaitersFoundHolds, OverdueScheduledHolds,
           PTL DEF Spec, ReleaseSteps
=============================================================================
