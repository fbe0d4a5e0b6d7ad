------------------------- MODULE EndpointPairProofs -------------------------
(***************************************************************************)
(* Proofs about EndpointPair, for every pair of peers, every set of calls, *)
(* every number of messages and every choice of the users' liberties:      *)
(* types, the conservation of messages, and what the shutdown promises.    *)
(***************************************************************************)
EXTENDS EndpointPair, TLAPS

-----------------------------------------------------------------------------
(* What Abort, the common part of most actions, does to each variable.     *)

\* The part of the type invariant that Abort touches.
AbortTypes ==
    /\ life \in [Peers -> {"open", "error", "gone"}]
    /\ pendS \in [Peers -> Nat]  /\ net \in [Peers -> Nat]
    /\ posted \in [Peers -> Nat] /\ stray \in [Peers -> Nat] /\ canR \in [Peers -> Nat]
    /\ lost \in [Peers -> Nat]
    /\ ctrl \in [Peers -> {"none", "transit", "lost", "arrived"}]
    /\ ctrlFut \in [Peers -> {"none", "pending", "ok", "UCXError", "UCXCanceled"}]
    /\ cb \in [Peers -> {"unset", "set", "run"}] /\ cbRuns \in [Peers -> Nat]

\* Cancelling the receives of an endpoint keeps their number in Nat.
LEMMA CancelRecvsTyped ==
    ASSUME TypeOK, NEW p \in Peers, CancelRecvs(p)
    PROVE  /\ posted' \in [Peers -> Nat]
           /\ stray' \in [Peers -> Nat]
           /\ canR' \in [Peers -> Nat]
<1>1. PICK k \in 0..posted[p], j \in 0..stray[p] :
        /\ posted' = [posted EXCEPT ![p] = k]
        /\ stray' = [stray EXCEPT ![p] = j]
        /\ canR' = [canR EXCEPT ![p] = @ + posted[p] - k]
  BY DEF CancelRecvs
<1>2. posted[p] \in Nat /\ stray[p] \in Nat /\ canR[p] \in Nat
  BY DEF TypeOK
<1>3. k \in Nat /\ j \in Nat /\ canR[p] + posted[p] - k \in Nat
  BY <1>2
<1> QED  BY <1>1, <1>3 DEF TypeOK

\* So does cancelling the send of its control message, for its two variables.
LEMMA CancelCtrlSendTyped ==
    ASSUME TypeOK, NEW p \in Peers, CancelCtrlSend(p)
    PROVE  /\ ctrl' \in [Peers -> {"none", "transit", "lost", "arrived"}]
           /\ ctrlFut' \in [Peers -> {"none", "pending", "ok", "UCXError", "UCXCanceled"}]
  BY DEF CancelCtrlSend, TypeOK

\* Abort keeps every type.
LEMMA AbortTyped ==
    ASSUME TypeOK, NEW p \in Peers, Abort(p) \/ NoAbort
    PROVE  AbortTypes'
<1>1. CASE NoAbort \/ life[p] = "gone"
  BY <1>1 DEF NoAbort, Abort, AbortTypes, TypeOK
<1>2. CASE Abort(p) /\ life[p] # "gone"
  <2>1. CancelRecvs(p) /\ CancelCtrlSend(p) /\ RunCloseCallback(p)
    BY <1>2 DEF Abort
  <2>2. /\ life' = [life EXCEPT ![p] = "gone"]
        /\ pendS' = [pendS EXCEPT ![p] = 0]
    BY <1>2 DEF Abort
  <2>3. PICK l \in 0..pendS[p] :
          /\ l <= net[p]
          /\ net' = [net EXCEPT ![p] = @ - l]
          /\ lost' = [lost EXCEPT ![p] = @ + l]
    BY <1>2 DEF Abort
  <2>4. net' \in [Peers -> Nat] /\ lost' \in [Peers -> Nat]
    <3>1. net[p] \in Nat /\ lost[p] \in Nat /\ pendS[p] \in Nat
      BY DEF TypeOK
    <3>2. net[p] - l \in Nat /\ lost[p] + l \in Nat
      BY <2>3, <3>1
    <3> QED  BY <2>3, <3>2 DEF TypeOK
  <2>5. /\ ctrl' \in [Peers -> {"none", "transit", "lost", "arrived"}]
        /\ ctrlFut' \in [Peers -> {"none", "pending", "ok", "UCXError", "UCXCanceled"}]
    BY <2>1, CancelCtrlSendTyped
  <2>6. cb' \in [Peers -> {"unset", "set", "run"}] /\ cbRuns' \in [Peers -> Nat]
    BY <2>1 DEF RunCloseCallback, TypeOK
  <2> QED  BY <2>1, <2>2, <2>4, <2>5, <2>6, CancelRecvsTyped DEF AbortTypes, TypeOK
<1> QED  BY <1>1, <1>2

\* Abort loses messages only from the net and creates none.
LEMMA AbortMoves ==
    ASSUME TypeOK, NEW p \in Peers, Abort(p) \/ NoAbort, NEW x \in Peers
    PROVE  net'[x] + lost'[x] = net[x] + lost[x]
<1>1. CASE NoAbort \/ life[p] = "gone"
  BY <1>1 DEF NoAbort, Abort
<1>2. CASE Abort(p) /\ life[p] # "gone"
  <2>1. PICK l \in 0..pendS[p] :
          /\ l <= net[p]
          /\ net' = [net EXCEPT ![p] = @ - l]
          /\ lost' = [lost EXCEPT ![p] = @ + l]
    BY <1>2 DEF Abort
  <2>2. net \in [Peers -> Nat] /\ lost \in [Peers -> Nat] /\ pendS[p] \in Nat
    BY DEF TypeOK
  <2> QED  BY <2>1, <2>2
<1> QED  BY <1>1, <1>2

\* Abort closes its endpoint and no other.
LEMMA AbortGone ==
    ASSUME TypeOK, NEW p \in Peers, Abort(p)
    PROVE  life'[p] = "gone" /\ \A x \in Peers : x # p => life'[x] = life[x]
  BY DEF Abort, TypeOK

\* Abort may cancel the send of the control message, and never undoes one.
LEMMA AbortCtrl ==
    ASSUME TypeOK, NEW p \in Peers, Abort(p) \/ NoAbort, NEW x \in Peers
    PROVE  /\ ctrlFut[x] = "none" => ctrlFut'[x] = "none"
           /\ ctrlFut[x] = "none" => ctrl'[x] = ctrl[x]
           /\ ctrl'[x] # ctrl[x] => ctrl'[x] = "lost"
  BY DEF Abort, NoAbort, CancelCtrlSend, TypeOK

-----------------------------------------------------------------------------
(* Types.                                                                  *)

LEMMA TypeInit == Init => TypeOK
  BY PairAssumption DEF Init, TypeOK, None

\* The frame of AbortTypes: what a step that leaves Abort's variables alone keeps.
LEMMA NoAbortTyped == TypeOK => AbortTypes
  BY DEF TypeOK, AbortTypes

\* Counting a finished receive keeps the types.
LEMMA RecvFinishTyped ==
    ASSUME TypeOK, NEW q \in Peers, RecvFinish(q)
    PROVE  /\ AbortTypes'
           /\ finished' \in [Peers -> Nat]
           /\ ctrlRecv' \in [Peers -> {"posted", "matched", "canceled", "handled"}]
           /\ counted' \in [Peers -> BOOLEAN]
<1>1. Abort(q) \/ NoAbort
  BY DEF RecvFinish
<1>2. AbortTypes'
  BY <1>1, AbortTyped
<1>3. finished' \in [Peers -> Nat]
  BY DEF RecvFinish, TypeOK
<1>4. ctrlRecv' \in [Peers -> {"posted", "matched", "canceled", "handled"}]
  BY DEF RecvFinish, CtrlRecvCanceled, TypeOK
<1>5. counted' \in [Peers -> BOOLEAN]
  <2>1. counted \in [Peers -> BOOLEAN]
    BY DEF TypeOK
  <2>2. \/ counted' = counted
        \/ counted' = [counted EXCEPT ![q] = @ \/ life[q] # "gone"]
    BY Zenon DEF RecvFinish
  <2> QED  BY <2>1, <2>2
<1> QED  BY <1>2, <1>3, <1>4, <1>5

\* So does being told how many messages to receive.
LEMMA CloseAfterTyped ==
    ASSUME TypeOK, NEW q \in Peers, NEW n \in Int, CloseAfterNRecv(q, n)
    PROVE  /\ AbortTypes'
           /\ closeAfter' \in [Peers -> Nat \cup {None}]
           /\ counted' \in [Peers -> BOOLEAN]
<1>1. Abort(q) \/ NoAbort
  BY DEF CloseAfterNRecv
<1>2. AbortTypes'
  BY <1>1, AbortTyped
<1>3. closeAfter' \in [Peers -> Nat \cup {None}]
  <2>1. finished[q] \in Nat /\ closeAfter \in [Peers -> Nat \cup {None}]
    BY DEF TypeOK
  <2>2. closeAfter' = closeAfter \/ (n > finished[q] /\ closeAfter' = [closeAfter EXCEPT ![q] = n])
    BY Zenon DEF CloseAfterNRecv
  <2> QED  BY <2>1, <2>2
<1>4. counted' \in [Peers -> BOOLEAN]
  <2>1. counted \in [Peers -> BOOLEAN]
    BY DEF TypeOK
  <2>2. \/ counted' = counted
        \/ counted' = [counted EXCEPT ![q] = @ \/ life[q] # "gone"]
    BY Zenon DEF CloseAfterNRecv
  <2> QED  BY <2>1, <2>2
<1> QED  BY <1>2, <1>3, <1>4

LEMMA TypeNext == TypeOK /\ [Next]_vars => TypeOK'
<1> SUFFICES ASSUME TypeOK, [Next]_vars
             PROVE  TypeOK'
  OBVIOUS
<1> USE PairAssumption
<1>1. ASSUME NEW p \in Peers, SendCall(p)
      PROVE  TypeOK'
  <2>1. PICK d \in {0, 1} : pendS' = [pendS EXCEPT ![p] = @ + d]
    BY <1>1 DEF SendCall
  <2>2. pendS' \in [Peers -> Nat]
    BY <2>1 DEF TypeOK
  <2> QED  BY <1>1, <2>2 DEF SendCall, TypeOK, ctrlVars, closeVars, histVars
<1>2. ASSUME NEW p \in Peers, SendRejected(p)
      PROVE  TypeOK'
  BY <1>2 DEF SendRejected, TypeOK, ctrlVars, closeVars
<1>3. ASSUME NEW p \in Peers, SendDone(p)
      PROVE  TypeOK'
  BY <1>3 DEF SendDone, TypeOK, ctrlVars, closeVars, histVars
<1>4. ASSUME NEW q \in Peers, RecvNow(q)
      PROVE  TypeOK'
  <2>1. RecvFinish(q)
    BY <1>4 DEF RecvNow
  <2>2. unexp' \in [Peers -> Nat]
    BY <1>4 DEF RecvNow, TypeOK
  <2> QED  BY <1>4, <2>1, <2>2, RecvFinishTyped DEF RecvNow, TypeOK, AbortTypes, closeVars
<1>5. ASSUME NEW q \in Peers, RecvWait(q)
      PROVE  TypeOK'
  <2>a. posted' = [posted EXCEPT ![q] = @ + 1] /\ posted \in [Peers -> Nat]
    BY <1>5 DEF RecvWait, TypeOK
  <2>b. \/ UNCHANGED <<unexp, net>>
        \/ /\ unexp[q] # 0
           /\ unexp' = [unexp EXCEPT ![q] = @ - 1] /\ net' = [net EXCEPT ![Other[q]] = @ + 1]
    BY <1>5 DEF RecvWait
  <2>c. unexp \in [Peers -> Nat] /\ net \in [Peers -> Nat]
    BY DEF TypeOK
  <2>d. posted' \in [Peers -> Nat]
    BY <2>a
  <2>1. unexp' \in [Peers -> Nat] /\ net' \in [Peers -> Nat] /\ posted' \in [Peers -> Nat]
    <3>1. CASE UNCHANGED <<unexp, net>>
      BY <2>c, <2>d, <3>1
    <3>2. CASE /\ unexp[q] # 0
               /\ unexp' = [unexp EXCEPT ![q] = @ - 1] /\ net' = [net EXCEPT ![Other[q]] = @ + 1]
      <4>1. unexp[q] - 1 \in Nat
        BY <2>c, <3>2
      <4>2. unexp' \in [Peers -> Nat]
        BY <2>c, <3>2, <4>1
      <4>3. net' \in [Peers -> Nat]
        BY <2>c, <3>2
      <4> QED BY <2>d, <4>2, <4>3
    <3> QED BY <2>b, <3>1, <3>2
  <2> QED  BY <1>5, <2>1 DEF RecvWait, TypeOK, ctrlVars, closeVars, histVars
<1>6. ASSUME NEW q \in Peers, Deliver(q)
      PROVE  TypeOK'
  <2>1. net' \in [Peers -> Nat]
    BY <1>6 DEF Deliver, TypeOK
  <2>2. /\ posted' \in [Peers -> Nat] /\ okR' \in [Peers -> Nat] /\ stray' \in [Peers -> Nat]
        /\ stolen' \in [Peers -> Nat] /\ unexp' \in [Peers -> Nat]
    <3>1. /\ posted \in [Peers -> Nat] /\ okR \in [Peers -> Nat] /\ stray \in [Peers -> Nat]
          /\ stolen \in [Peers -> Nat] /\ unexp \in [Peers -> Nat]
      BY DEF TypeOK
    <3>2. CASE /\ posted[q] > 0
               /\ posted' = [posted EXCEPT ![q] = @ - 1]
               /\ okR' = [okR EXCEPT ![q] = @ + 1]
               /\ UNCHANGED <<unexp, stray, stolen>>
      BY <3>1, <3>2
    <3>3. CASE /\ stray[q] > 0
               /\ stray' = [stray EXCEPT ![q] = @ - 1]
               /\ stolen' = [stolen EXCEPT ![q] = @ + 1]
               /\ UNCHANGED <<unexp, posted, okR>>
      BY <3>1, <3>3
    <3>4. CASE /\ posted[q] = 0 /\ stray[q] = 0
               /\ unexp' = [unexp EXCEPT ![q] = @ + 1]
               /\ UNCHANGED <<posted, okR, stray, stolen>>
      BY <3>1, <3>4
    <3> QED  BY <1>6, <3>2, <3>3, <3>4 DEF Deliver
  <2> QED  BY <1>6, <2>1, <2>2 DEF Deliver, TypeOK, ctrlVars, closeVars
<1>7. ASSUME NEW q \in Peers, RecvResume(q)
      PROVE  TypeOK'
  <2>1. RecvFinish(q)
    BY <1>7 DEF RecvResume
  <2>2. okR' \in [Peers -> Nat]
    BY <1>7 DEF RecvResume, TypeOK
  <2> QED  BY <1>7, <2>1, <2>2, RecvFinishTyped DEF RecvResume, TypeOK, AbortTypes, closeVars
<1>8. ASSUME NEW q \in Peers, RecvRaise(q)
      PROVE  TypeOK'
  BY <1>8 DEF RecvRaise, TypeOK, ctrlVars, closeVars, histVars
<1>9. ASSUME NEW q \in Peers, Timeout(q)
      PROVE  TypeOK'
  <2>1. /\ posted' \in [Peers -> Nat] /\ okR' \in [Peers -> Nat] /\ stray' \in [Peers -> Nat]
        /\ stolen' \in [Peers -> Nat]
    <3>1. /\ posted \in [Peers -> Nat] /\ okR \in [Peers -> Nat] /\ stray \in [Peers -> Nat]
          /\ stolen \in [Peers -> Nat]
      BY DEF TypeOK
    <3>2. CASE /\ posted[q] > 0
               /\ posted' = [posted EXCEPT ![q] = @ - 1]
               /\ stray' = [stray EXCEPT ![q] = @ + 1]
               /\ UNCHANGED <<okR, stolen>>
      BY <3>1, <3>2
    <3>3. CASE /\ okR[q] > 0
               /\ okR' = [okR EXCEPT ![q] = @ - 1]
               /\ stolen' = [stolen EXCEPT ![q] = @ + 1]
               /\ UNCHANGED <<posted, stray>>
      BY <3>1, <3>3
    <3> QED  BY <1>9, <3>2, <3>3 DEF Timeout
  <2> QED  BY <1>9, <2>1 DEF Timeout, TypeOK, ctrlVars, closeVars
<1>10. ASSUME NEW q \in Peers, UserCloseAfter(q)
       PROVE  TypeOK'
  <2>1. CloseAfterNRecv(q, finished[q] + 1) /\ finished[q] + 1 \in Int
    BY <1>10 DEF UserCloseAfter, TypeOK
  <2>2. /\ AbortTypes' /\ closeAfter' \in [Peers -> Nat \cup {None}]
        /\ counted' \in [Peers -> BOOLEAN]
    BY <2>1, CloseAfterTyped
  <2> QED  BY <1>10, <2>2 DEF UserCloseAfter, TypeOK, AbortTypes
<1>11. ASSUME NEW p \in Peers, AbortCall(p)
       PROVE  TypeOK'
  <2>1. AbortTypes'
    BY <1>11, AbortTyped DEF AbortCall
  <2> QED  BY <1>11, <2>1 DEF AbortCall, CtrlRecvCanceled, TypeOK, AbortTypes, closeVars
<1>12. ASSUME NEW p \in Peers, SetCloseCallback(p)
       PROVE  TypeOK'
  BY <1>12 DEF SetCloseCallback, TypeOK, dataVars, ctrlVars, closeVars, histVars
<1>13. ASSUME NEW p \in Peers, CtrlSendDone(p)
       PROVE  TypeOK'
  <2>1. /\ ctrl' \in [Peers -> {"none", "transit", "lost", "arrived"}]
        /\ ctrlFut' \in [Peers -> {"none", "pending", "ok", "UCXError", "UCXCanceled"}]
    <3>1. CASE ctrlFut' = [ctrlFut EXCEPT ![p] = "ok"] /\ UNCHANGED ctrl
      BY <3>1 DEF TypeOK
    <3>2. CASE /\ ctrlFut' = [ctrlFut EXCEPT ![p] = "UCXError"]
               /\ \E m \in {ctrl[p], "lost"} : ctrl' = [ctrl EXCEPT ![p] = m]
      BY <3>2 DEF TypeOK
    <3> QED  BY <1>13, <3>1, <3>2 DEF CtrlSendDone
  <2> QED  BY <1>13, <2>1 DEF CtrlSendDone, TypeOK, dataVars, closeVars, histVars
<1>14. ASSUME NEW q \in Peers, CtrlArrive(q)
       PROVE  TypeOK'
  BY <1>14 DEF CtrlArrive, TypeOK, dataVars, closeVars, histVars
<1>15. ASSUME NEW q \in Peers, HandleCtrl(q)
       PROVE  TypeOK'
  <2>1. ctrlRecv' \in [Peers -> {"posted", "matched", "canceled", "handled"}]
    BY <1>15 DEF HandleCtrl, TypeOK
  <2>2. CASE /\ Closed(q) /\ Abort(q)
             /\ UNCHANGED <<closeAfter, counted, ctrlRaised>>
    <3>1. AbortTypes'
      BY <2>2, AbortTyped
    <3> QED  BY <1>15, <2>1, <2>2, <3>1 DEF HandleCtrl, TypeOK, AbortTypes
  <2>3. CASE /\ ~Closed(q) /\ CloseAfterNRecv(q, LimitTold(q))
             /\ ctrlRaised' = [ctrlRaised EXCEPT ![q] = CloseAfterRefused(q, LimitTold(q))]
    <3>1. LimitTold(q) \in Int
      BY DEF LimitTold, TypeOK, None
    <3>2. /\ AbortTypes' /\ closeAfter' \in [Peers -> Nat \cup {None}]
          /\ counted' \in [Peers -> BOOLEAN]
      BY <2>3, <3>1, CloseAfterTyped
    <3>3. ctrlRaised' \in [Peers -> BOOLEAN]
      <4>1. CloseAfterRefused(q, LimitTold(q)) \in BOOLEAN
        BY Zenon DEF CloseAfterRefused
      <4> QED  BY <2>3, <4>1 DEF TypeOK
    <3> QED  BY <1>15, <2>1, <3>2, <3>3 DEF HandleCtrl, TypeOK, AbortTypes
  <2> QED  BY <1>15, <2>2, <2>3 DEF HandleCtrl
<1>16. ASSUME NEW p \in Peers, Lose(p)
       PROVE  TypeOK'
  <2>1. /\ net' \in [Peers -> Nat] /\ lost' \in [Peers -> Nat]
        /\ ctrl' \in [Peers -> {"none", "transit", "lost", "arrived"}]
    <3>1. CASE /\ net[p] > 0 /\ net' = [net EXCEPT ![p] = @ - 1]
               /\ lost' = [lost EXCEPT ![p] = @ + 1] /\ ctrl' = ctrl
      <4>1. net \in [Peers -> Nat] /\ lost \in [Peers -> Nat]
        BY DEF TypeOK
      <4>2. net' \in [Peers -> Nat] /\ lost' \in [Peers -> Nat]
        BY <3>1, <4>1
      <4> QED  BY <3>1, <4>2 DEF TypeOK
    <3>2. CASE ctrl' = [ctrl EXCEPT ![p] = "lost"] /\ UNCHANGED <<net, lost>>
      BY <3>2 DEF TypeOK
    <3> QED  BY <1>16, <3>1, <3>2 DEF Lose
  <2>2. UNCHANGED <<life, sendCount, pendS, unexp, posted, stray, okR, canR, finished, ctrlN,
                    ctrlFut, ctrlRecv, closeVars, sched, cb, rejected, stolen, told, counted,
                    ctrlRaised, cbRuns>>
    BY <1>16 DEF Lose
  <2> QED  BY <2>1, <2>2 DEF TypeOK, closeVars
<1>17. ASSUME NEW q \in Peers, ErrCb(q)
       PROVE  TypeOK'
  BY <1>17 DEF ErrCb, RunCloseCallback, TypeOK, dataVars, ctrlVars, closeVars, histVars
<1>18. ASSUME NEW q \in Peers, CancelInflight(q)
       PROVE  TypeOK'
  <2>1. posted' \in [Peers -> Nat] /\ stray' \in [Peers -> Nat] /\ canR' \in [Peers -> Nat]
    <3>1. CancelRecvs(q) \/ UNCHANGED <<posted, stray, canR>>
      BY <1>18 DEF CancelInflight
    <3> QED  BY <3>1, CancelRecvsTyped DEF TypeOK
  <2>2. /\ ctrl' \in [Peers -> {"none", "transit", "lost", "arrived"}]
        /\ ctrlFut' \in [Peers -> {"none", "pending", "ok", "UCXError", "UCXCanceled"}]
        /\ ctrlRecv' \in [Peers -> {"posted", "matched", "canceled", "handled"}]
    <3>1. CASE CancelCtrlSend(q) /\ CtrlRecvCanceled(q)
      <4>1. ctrlRecv' \in [Peers -> {"posted", "matched", "canceled", "handled"}]
        BY <3>1 DEF CtrlRecvCanceled, TypeOK
      <4> QED  BY <3>1, <4>1, CancelCtrlSendTyped
    <3>2. CASE UNCHANGED <<ctrlFut, ctrl, ctrlRecv>>
      BY <3>2 DEF TypeOK
    <3> QED  BY <1>18, <3>1, <3>2 DEF CancelInflight
  <2> QED  BY <1>18, <2>1, <2>2 DEF CancelInflight, TypeOK, closeVars, histVars
<1>19. ASSUME NEW q \in Peers, CancelLate(q)
       PROVE  TypeOK'
  BY <1>19 DEF CancelLate, TypeOK, ctrlVars, closeVars, histVars
<1>20. ASSUME NEW c \in Calls, CloseCall(c)
       PROVE  TypeOK'
  <2> DEFINE p == Caller[c]
  <2>0. p \in Peers
    OBVIOUS
  <2>1. CASE /\ Abort(p) /\ CtrlRecvCanceled(p)
             /\ pc' = [pc EXCEPT ![c] = "done"] /\ res' = [res EXCEPT ![c] = "ok"]
             /\ UNCHANGED <<shutting, told, ctrlN>>
    <3>1. AbortTypes'
      BY <2>0, <2>1, AbortTyped
    <3> QED  BY <1>20, <2>0, <2>1, <3>1 DEF CloseCall, CtrlRecvCanceled, TypeOK, AbortTypes
  <2>2. CASE /\ pc' = [pc EXCEPT ![c] = "sleeping"] /\ res' = [res EXCEPT ![c] = "ok"]
             /\ NoAbort /\ UNCHANGED <<shutting, told, ctrlN, ctrlRecv>>
    BY <1>20, <2>2 DEF CloseCall, NoAbort, TypeOK
  <2>3. CASE /\ ~Closed(p) /\ ~shutting[p]
             /\ shutting' = [shutting EXCEPT ![p] = TRUE]
             /\ told' = [told EXCEPT ![p] = @ + 1]
             /\ ctrlN' = [ctrlN EXCEPT ![p] = SentBeforeClose(p)]
             /\ UNCHANGED <<life, posted, stray, canR, pendS, net, lost, cb, cbRuns, ctrlRecv>>
    <3>1. ctrlN' \in [Peers -> Nat \cup {None}] /\ told' \in [Peers -> Nat]
      BY <2>0, <2>3 DEF SentBeforeClose, TypeOK
    <3>2. shutting' \in [Peers -> BOOLEAN]
      BY <2>0, <2>3 DEF TypeOK
    <3>3. /\ pc' \in [Calls -> {"idle", "sending", "sleeping", "done"}]
          /\ res' \in [Calls -> {"none", "ok", "UCXCanceled", "AttributeError"}]
          /\ ctrl' \in [Peers -> {"none", "transit", "lost", "arrived"}]
          /\ ctrlFut' \in [Peers -> {"none", "pending", "ok", "UCXError", "UCXCanceled"}]
      <4>1. CASE /\ pc' = [pc EXCEPT ![c] = "sending"]
                 /\ ctrlFut' = [ctrlFut EXCEPT ![p] = "pending"]
                 /\ ctrl' = [ctrl EXCEPT ![p] = "transit"]
                 /\ UNCHANGED res
        BY <2>0, <4>1 DEF TypeOK
      <4>2. CASE /\ pc' = [pc EXCEPT ![c] = "sleeping"]
                 /\ res' = [res EXCEPT ![c] = "ok"]
                 /\ ctrlFut' = [ctrlFut EXCEPT ![p] = "ok"]
                 /\ ctrl' = [ctrl EXCEPT ![p] = "transit"]
        BY <2>0, <4>2 DEF TypeOK
      <4>3. CASE /\ pc' = [pc EXCEPT ![c] = "sleeping"]
                 /\ res' = [res EXCEPT ![c] = "ok"]
                 /\ ctrlFut' = [ctrlFut EXCEPT ![p] = "UCXError"]
                 /\ ctrl' = [ctrl EXCEPT ![p] = "lost"]
        BY <2>0, <4>3 DEF TypeOK
      <4> QED  BY <1>20, <2>3, <4>1, <4>2, <4>3 DEF CloseCall
    <3> QED  BY <1>20, <2>3, <3>1, <3>2, <3>3 DEF CloseCall, TypeOK
  <2> QED  BY <1>20, <2>1, <2>2, <2>3 DEF CloseCall
<1>21. ASSUME NEW c \in Calls, CloseResume(c)
       PROVE  TypeOK'
  <2>1. CtrlSendRaised(Caller[c]) \in {"ok", "UCXCanceled", "AttributeError"}
    BY Zenon DEF CtrlSendRaised
  <2> QED  BY <1>21, <2>1 DEF CloseResume, TypeOK, dataVars, ctrlVars, histVars
<1>22. ASSUME NEW c \in Calls, CloseAbort(c)
       PROVE  TypeOK'
  <2>1. Caller[c] \in Peers /\ Abort(Caller[c])
    BY <1>22 DEF CloseAbort
  <2>2. AbortTypes'
    BY <2>1, AbortTyped
  <2> QED  BY <1>22, <2>1, <2>2 DEF CloseAbort, CtrlRecvCanceled, TypeOK, AbortTypes
<1>23. CASE UNCHANGED vars
  BY <1>23 DEF vars, dataVars, ctrlVars, closeVars, histVars, TypeOK
<1> QED
  BY <1>1, <1>2, <1>3, <1>4, <1>5, <1>6, <1>7, <1>8, <1>9, <1>10, <1>11, <1>12, <1>13,
     <1>14, <1>15, <1>16, <1>17, <1>18, <1>19, <1>20, <1>21, <1>22, <1>23 DEF Next

\* The variables of the protocol keep their types, for any number of messages.
THEOREM TypeHolds == Spec => []TypeOK
  BY TypeInit, TypeNext, PTL DEF Spec

-----------------------------------------------------------------------------
(* Every message is somewhere.                                             *)

\* Counters that only change by the way of Abort keep the balance.
LEMMA ConservedByAbort ==
    ASSUME TypeOK, NEW p \in Peers, Abort(p) \/ NoAbort, NEW x \in Peers, ConservedFor(x),
           UNCHANGED <<sendCount, rejected, unexp, okR, stolen, finished>>
    PROVE  ConservedFor(x)'
<1>1. net'[x] + lost'[x] = net[x] + lost[x]
  BY AbortMoves
<1>2. net'[x] \in Nat /\ lost'[x] \in Nat
  BY AbortTyped DEF AbortTypes
<1>3. Other[x] \in Peers
  BY PairAssumption
<1> QED  BY <1>1, <1>2, <1>3 DEF ConservedFor, TypeOK

\* A step that counts a receive takes its message from unexp or from okR.
LEMMA ConservedByFinish ==
    ASSUME TypeOK, NEW q \in Peers, RecvFinish(q), NEW x \in Peers, ConservedFor(x),
           UNCHANGED <<sendCount, rejected, stolen>>,
           \/ /\ unexp[q] > 0
              /\ unexp' = [unexp EXCEPT ![q] = @ - 1] /\ okR' = okR
           \/ /\ okR[q] > 0
              /\ okR' = [okR EXCEPT ![q] = @ - 1] /\ unexp' = unexp
    PROVE  ConservedFor(x)'
<1>1. net'[x] + lost'[x] = net[x] + lost[x]
  BY AbortMoves DEF RecvFinish
<1>2. net'[x] \in Nat /\ lost'[x] \in Nat
  BY RecvFinishTyped DEF AbortTypes
<1>3. Other[x] \in Peers
  BY PairAssumption
<1>4. finished' = [finished EXCEPT ![q] = @ + 1]
  BY DEF RecvFinish
<1>5. /\ unexp \in [Peers -> Nat] /\ okR \in [Peers -> Nat] /\ finished \in [Peers -> Nat]
      /\ stolen[Other[x]] \in Nat /\ rejected[x] \in Nat /\ net[x] \in Nat /\ lost[x] \in Nat
  BY <1>3 DEF TypeOK
<1>6. /\ sendCount'[x] = sendCount[x] /\ rejected'[x] = rejected[x]
      /\ stolen'[Other[x]] = stolen[Other[x]]
  OBVIOUS
<1>7. CASE Other[x] # q
  <2>1. /\ unexp'[Other[x]] = unexp[Other[x]] /\ okR'[Other[x]] = okR[Other[x]]
        /\ finished'[Other[x]] = finished[Other[x]]
    BY <1>3, <1>4, <1>5, <1>7
  <2>2. /\ unexp[Other[x]] \in Nat /\ okR[Other[x]] \in Nat /\ finished[Other[x]] \in Nat
    BY <1>3, <1>5
  <2> QED  BY <1>1, <1>2, <1>5, <1>6, <2>1, <2>2 DEF ConservedFor
<1>8. CASE Other[x] = q
  <2>1. finished'[q] = finished[q] + 1
    BY <1>4, <1>5
  <2>2. \/ unexp'[q] = unexp[q] - 1 /\ okR'[q] = okR[q]
        \/ okR'[q] = okR[q] - 1 /\ unexp'[q] = unexp[q]
    BY <1>5
  <2>3. unexp[q] \in Nat /\ okR[q] \in Nat /\ finished[q] \in Nat
    BY <1>5
  <2> QED  BY <1>1, <1>2, <1>5, <1>6, <1>8, <2>1, <2>2, <2>3 DEF ConservedFor
<1> QED  BY <1>7, <1>8

LEMMA ConservationNext == TypeOK /\ Conservation /\ [Next]_vars => Conservation'
<1> SUFFICES ASSUME TypeOK, Conservation, [Next]_vars, NEW x \in Peers
             PROVE  ConservedFor(x)'
  BY DEF Conservation
<1> USE PairAssumption
<1>a. ConservedFor(x)
  BY DEF Conservation
<1>b. Other[x] \in Peers /\ Other[Other[x]] = x /\ Other[x] # x
  OBVIOUS
<1>c. /\ net \in [Peers -> Nat] /\ unexp \in [Peers -> Nat] /\ okR \in [Peers -> Nat]
      /\ sendCount \in [Peers -> Nat] /\ finished \in [Peers -> Nat]
      /\ rejected \in [Peers -> Nat] /\ lost \in [Peers -> Nat] /\ stolen \in [Peers -> Nat]
  BY DEF TypeOK
<1>1. ASSUME NEW p \in Peers, SendCall(p)
      PROVE  ConservedFor(x)'
  BY <1>1, <1>a, <1>b, <1>c DEF SendCall, ConservedFor, histVars
<1>2. ASSUME NEW p \in Peers, SendRejected(p)
      PROVE  ConservedFor(x)'
  BY <1>2, <1>a, <1>b, <1>c DEF SendRejected, ConservedFor
<1>3. ASSUME NEW p \in Peers, SendDone(p) \/ RecvRaise(p) \/ CancelLate(p)
      PROVE  ConservedFor(x)'
  BY <1>3, <1>a, <1>b DEF SendDone, RecvRaise, CancelLate, ConservedFor, histVars
<1>4. ASSUME NEW q \in Peers, RecvNow(q) \/ RecvResume(q)
      PROVE  ConservedFor(x)'
  BY <1>4, <1>a, ConservedByFinish DEF RecvNow, RecvResume
<1>5. ASSUME NEW q \in Peers, RecvWait(q)
      PROVE  ConservedFor(x)'
  <2>1. /\ UNCHANGED <<sendCount, rejected, lost, okR, stolen, finished>>
        /\ \/ UNCHANGED <<unexp, net>>
           \/ /\ unexp' = [unexp EXCEPT ![q] = @ - 1]
              /\ net' = [net EXCEPT ![Other[q]] = @ + 1]
    BY <1>5 DEF RecvWait, histVars
  <2> QED  BY <2>1, <1>a, <1>b, <1>c DEF ConservedFor
<1>6. ASSUME NEW q \in Peers, Deliver(q)
      PROVE  ConservedFor(x)'
  <2>1. /\ UNCHANGED <<sendCount, rejected, lost, finished>>
        /\ net' = [net EXCEPT ![Other[q]] = @ - 1]
        /\ \/ okR' = [okR EXCEPT ![q] = @ + 1] /\ UNCHANGED <<unexp, stolen>>
           \/ stolen' = [stolen EXCEPT ![q] = @ + 1] /\ UNCHANGED <<unexp, okR>>
           \/ unexp' = [unexp EXCEPT ![q] = @ + 1] /\ UNCHANGED <<okR, stolen>>
    BY <1>6 DEF Deliver
  <2> QED  BY <2>1, <1>a, <1>b, <1>c DEF ConservedFor
<1>7. ASSUME NEW q \in Peers, Timeout(q)
      PROVE  ConservedFor(x)'
  <2>1. /\ UNCHANGED <<sendCount, rejected, lost, net, unexp, finished>>
        /\ \/ UNCHANGED <<okR, stolen>>
           \/ /\ okR' = [okR EXCEPT ![q] = @ - 1]
              /\ stolen' = [stolen EXCEPT ![q] = @ + 1]
    BY <1>7 DEF Timeout
  <2> QED  BY <2>1, <1>a, <1>b, <1>c DEF ConservedFor
<1>8. ASSUME NEW q \in Peers, UserCloseAfter(q) \/ HandleCtrl(q) \/ AbortCall(q)
      PROVE  ConservedFor(x)'
  <2>1. /\ Abort(q) \/ NoAbort
        /\ UNCHANGED <<sendCount, rejected, unexp, okR, stolen, finished>>
    BY <1>8 DEF UserCloseAfter, HandleCtrl, AbortCall, CloseAfterNRecv
  <2> QED  BY <2>1, <1>a, ConservedByAbort
<1>9. ASSUME NEW c \in Calls, CloseCall(c) \/ CloseAbort(c)
      PROVE  ConservedFor(x)'
  <2>1. UNCHANGED <<sendCount, rejected, unexp, okR, stolen, finished>>
    BY <1>9 DEF CloseCall, CloseAbort
  <2>2. Abort(Caller[c]) \/ UNCHANGED <<net, lost>>
    BY <1>9 DEF CloseCall, CloseAbort, NoAbort
  <2>3. CASE Abort(Caller[c])
    BY <2>1, <2>3, <1>a, ConservedByAbort
  <2>4. CASE UNCHANGED <<net, lost>>
    BY <2>1, <2>4, <1>a DEF ConservedFor
  <2> QED  BY <2>2, <2>3, <2>4
<1>10. ASSUME NEW p \in Peers, Lose(p)
       PROVE  ConservedFor(x)'
  <2>1. /\ UNCHANGED <<sendCount, rejected, unexp, okR, stolen, finished>>
        /\ \/ UNCHANGED <<net, lost>>
           \/ /\ net' = [net EXCEPT ![p] = @ - 1]
              /\ lost' = [lost EXCEPT ![p] = @ + 1]
    BY <1>10 DEF Lose
  <2> QED  BY <2>1, <1>a, <1>b, <1>c DEF ConservedFor
<1>11. ASSUME NEW p \in Peers,
              \/ SetCloseCallback(p) \/ CtrlSendDone(p) \/ CtrlArrive(p)
              \/ ErrCb(p) \/ CancelInflight(p)
       PROVE  ConservedFor(x)'
  <2>1. UNCHANGED <<sendCount, net, unexp, okR, finished, histVars>>
    BY <1>11 DEF SetCloseCallback, CtrlSendDone, CtrlArrive, ErrCb, CancelInflight, dataVars
  <2> QED  BY <2>1, <1>a DEF ConservedFor, histVars
<1>12. ASSUME NEW c \in Calls, CloseResume(c)
       PROVE  ConservedFor(x)'
  BY <1>12, <1>a DEF CloseResume, ConservedFor, dataVars, histVars
<1>13. CASE UNCHANGED vars
  BY <1>13, <1>a DEF vars, dataVars, histVars, ConservedFor
<1> QED
  BY <1>1, <1>2, <1>3, <1>4, <1>5, <1>6, <1>7, <1>8, <1>9, <1>10, <1>11, <1>12, <1>13
  DEF Next

\* Every counted send is in exactly one place, whatever is lost, refused,
\* timed out or cancelled (send() and recv() of core.Endpoint).
THEOREM ConservationHolds == Spec => []Conservation
<1>1. Init => Conservation
  <2> SUFFICES ASSUME Init, NEW p \in Peers
               PROVE  ConservedFor(p)
    BY DEF Conservation
  <2>1. Other[p] \in Peers
    BY PairAssumption
  <2>2. /\ sendCount[p] = 0 /\ rejected[p] = 0 /\ lost[p] = 0 /\ net[p] = 0
        /\ unexp[Other[p]] = 0 /\ okR[Other[p]] = 0 /\ stolen[Other[p]] = 0
        /\ finished[Other[p]] = 0
    BY <2>1 DEF Init
  <2> QED  BY <2>2 DEF ConservedFor
<1>2. TypeOK /\ Conservation /\ [Next]_vars => Conservation'
  BY ConservationNext
<1> QED  BY <1>1, <1>2, TypeHolds, PTL DEF Spec

-----------------------------------------------------------------------------
(* What the control message says.                                          *)

\* What never goes back: a count, a message once sent, a request once handled.
Forward(x) ==
    /\ finished'[x] >= finished[x]
    /\ shutting[x] => shutting'[x] /\ ctrlN'[x] = ctrlN[x]
    /\ ctrlRecv[x] = "handled" => ctrlRecv'[x] = "handled"

LEMMA Monotone ==
    ASSUME TypeOK, [Next]_vars, NEW x \in Peers
    PROVE  Forward(x)
<1> USE PairAssumption
<1>a. /\ finished \in [Peers -> Nat] /\ shutting \in [Peers -> BOOLEAN]
      /\ ctrlN \in [Peers -> Nat \cup {None}]
      /\ ctrlRecv \in [Peers -> {"posted", "matched", "canceled", "handled"}]
  BY DEF TypeOK
<1>1. ASSUME UNCHANGED <<finished, shutting, ctrlN, ctrlRecv>>
      PROVE  Forward(x)
  BY <1>1, <1>a DEF Forward
<1>2. ASSUME NEW p \in Peers,
             \/ SendCall(p) \/ SendRejected(p) \/ SendDone(p) \/ RecvWait(p) \/ Deliver(p)
             \/ RecvRaise(p) \/ Timeout(p) \/ UserCloseAfter(p) \/ SetCloseCallback(p)
             \/ CtrlSendDone(p) \/ Lose(p) \/ ErrCb(p) \/ CancelLate(p)
      PROVE  Forward(x)
  <2>1. UNCHANGED <<finished, shutting, ctrlN, ctrlRecv>>
    BY <1>2 DEF SendCall, SendRejected, SendDone, RecvWait, Deliver, RecvRaise, Timeout,
       UserCloseAfter, SetCloseCallback, CtrlSendDone, Lose, ErrCb, CancelLate, dataVars,
       ctrlVars, closeVars
  <2> QED  BY <2>1, <1>1
<1>3. ASSUME NEW q \in Peers, RecvNow(q) \/ RecvResume(q)
      PROVE  Forward(x)
  <2>1. RecvFinish(q) /\ UNCHANGED <<shutting, ctrlN>>
    BY <1>3 DEF RecvNow, RecvResume, closeVars
  <2>2. finished'[x] >= finished[x]
    BY <2>1, <1>a DEF RecvFinish
  <2>3. ctrlRecv[x] = "handled" => ctrlRecv'[x] = "handled"
    BY <2>1, <1>a DEF RecvFinish, CtrlRecvCanceled
  <2> QED  BY <2>1, <2>2, <2>3 DEF Forward
<1>4. ASSUME NEW q \in Peers, AbortCall(q) \/ CtrlArrive(q) \/ HandleCtrl(q) \/ CancelInflight(q)
      PROVE  Forward(x)
  <2>1. UNCHANGED <<finished, shutting, ctrlN>>
    BY <1>4 DEF AbortCall, CtrlArrive, HandleCtrl, CancelInflight, closeVars, dataVars
  <2>2. \/ CtrlRecvCanceled(q)
        \/ ctrlRecv' = [ctrlRecv EXCEPT ![q] = IF @ = "posted" THEN "matched" ELSE @]
        \/ ctrlRecv' = [ctrlRecv EXCEPT ![q] = "handled"]
        \/ ctrlRecv' = ctrlRecv
    BY <1>4 DEF AbortCall, CtrlArrive, HandleCtrl, CancelInflight
  <2>3. ctrlRecv[x] = "handled" => ctrlRecv'[x] = "handled"
    BY <2>2, <1>a DEF CtrlRecvCanceled
  <2> QED  BY <2>1, <2>3, <1>a DEF Forward
<1>5. ASSUME NEW c \in Calls, CloseCall(c)
      PROVE  Forward(x)
  <2>1. finished' = finished
    BY <1>5 DEF CloseCall
  <2>2. \/ UNCHANGED <<shutting, ctrlN>>
        \/ /\ ~shutting[Caller[c]]
           /\ shutting' = [shutting EXCEPT ![Caller[c]] = TRUE]
           /\ ctrlN' = [ctrlN EXCEPT ![Caller[c]] = SentBeforeClose(Caller[c])]
    BY <1>5 DEF CloseCall
  <2>3. CtrlRecvCanceled(Caller[c]) \/ UNCHANGED ctrlRecv
    BY <1>5 DEF CloseCall
  <2>4. shutting[x] => shutting'[x] /\ ctrlN'[x] = ctrlN[x]
    BY <2>2, <1>a
  <2>5. ctrlRecv[x] = "handled" => ctrlRecv'[x] = "handled"
    BY <2>3, <1>a DEF CtrlRecvCanceled
  <2> QED  BY <2>1, <2>4, <2>5, <1>a DEF Forward
<1>6. ASSUME NEW c \in Calls, CloseResume(c)
      PROVE  Forward(x)
  BY <1>6, <1>1 DEF CloseResume, dataVars, ctrlVars
<1>7. ASSUME NEW c \in Calls, CloseAbort(c)
      PROVE  Forward(x)
  <2>1. UNCHANGED <<finished, shutting, ctrlN>> /\ CtrlRecvCanceled(Caller[c])
    BY <1>7 DEF CloseAbort
  <2> QED  BY <2>1, <1>a DEF Forward, CtrlRecvCanceled
<1>8. CASE UNCHANGED vars
  BY <1>8, <1>1 DEF vars, dataVars, ctrlVars, closeVars
<1> QED  BY <1>2, <1>3, <1>4, <1>5, <1>6, <1>7, <1>8 DEF Next

\* A control message exists once its endpoint is shutting its peer down, and
\* only then: it is the only one, and a polite endpoint's count is complete.
CtrlSent ==
    \A p \in Peers :
        /\ shutting[p] <=> ctrlN[p] # None
        /\ told[p] = IF shutting[p] THEN 1 ELSE 0
        /\ ~shutting[p] => ctrl[p] = "none" /\ ctrlFut[p] = "none"
        /\ ctrlRecv[Other[p]] = "matched" => shutting[p]
        /\ Polite /\ shutting[p] => ctrlN[p] = sendCount[p]

\* Steps that send no control message keep it so.
LEMMA CtrlSentKept ==
    ASSUME TypeOK, CtrlSent, UNCHANGED <<shutting, ctrlN, told, sendCount>>,
           \A x \in Peers : ctrl[x] = "none" /\ ctrlFut[x] = "none" =>
                                ctrl'[x] = "none" /\ ctrlFut'[x] = "none",
           \A x \in Peers : ctrlRecv'[x] = "matched" =>
                                ctrlRecv[x] = "matched" \/ ctrl[Other[x]] # "none"
    PROVE  CtrlSent'
<1> SUFFICES ASSUME NEW p \in Peers
             PROVE  /\ ~shutting[p] => ctrl'[p] = "none" /\ ctrlFut'[p] = "none"
                    /\ ctrlRecv'[Other[p]] = "matched" => shutting[p]
  BY DEF CtrlSent
<1>1. Other[p] \in Peers /\ Other[Other[p]] = p
  BY PairAssumption
<1> QED  BY <1>1 DEF CtrlSent

LEMMA CtrlSentNext == TypeOK /\ CtrlSent /\ [Next]_vars => CtrlSent'
<1> SUFFICES ASSUME TypeOK, CtrlSent, [Next]_vars
             PROVE  CtrlSent'
  OBVIOUS
<1> USE PairAssumption
<1>a. /\ sendCount \in [Peers -> Nat] /\ shutting \in [Peers -> BOOLEAN]
      /\ ctrlN \in [Peers -> Nat \cup {None}] /\ told \in [Peers -> Nat]
      /\ ctrl \in [Peers -> {"none", "transit", "lost", "arrived"}]
      /\ ctrlFut \in [Peers -> {"none", "pending", "ok", "UCXError", "UCXCanceled"}]
      /\ ctrlRecv \in [Peers -> {"posted", "matched", "canceled", "handled"}]
  BY DEF TypeOK
<1>1. ASSUME NEW p \in Peers, SendCall(p) \/ SendRejected(p)
      PROVE  CtrlSent'
  <2>1. /\ UNCHANGED <<shutting, ctrlN, told, ctrl, ctrlFut, ctrlRecv>>
        /\ sendCount' = [sendCount EXCEPT ![p] = @ + 1]
        /\ Polite => ~shutting[p]
    BY <1>1 DEF SendCall, SendRejected, ctrlVars, closeVars, histVars
  <2> QED  BY <2>1, <1>a DEF CtrlSent
<1>2. ASSUME NEW p \in Peers,
             \/ SendDone(p) \/ RecvWait(p) \/ Deliver(p) \/ RecvRaise(p) \/ Timeout(p)
             \/ SetCloseCallback(p) \/ ErrCb(p) \/ CancelLate(p)
      PROVE  CtrlSent'
  <2>1. UNCHANGED <<shutting, ctrlN, told, sendCount, ctrl, ctrlFut, ctrlRecv>>
    BY <1>2 DEF SendDone, RecvWait, Deliver, RecvRaise, Timeout, SetCloseCallback, ErrCb,
       CancelLate, dataVars, ctrlVars, closeVars, histVars
  <2> QED  BY <2>1, CtrlSentKept
<1>3. ASSUME NEW q \in Peers,
             \/ RecvNow(q) \/ RecvResume(q) \/ UserCloseAfter(q) \/ AbortCall(q) \/ HandleCtrl(q)
      PROVE  CtrlSent'
  <2>1. /\ UNCHANGED <<shutting, ctrlN, told, sendCount>>
        /\ Abort(q) \/ NoAbort
    BY <1>3 DEF RecvNow, RecvResume, RecvFinish, UserCloseAfter, AbortCall, HandleCtrl,
       CloseAfterNRecv, closeVars
  <2>2. \/ CtrlRecvCanceled(q) \/ UNCHANGED ctrlRecv
        \/ ctrlRecv' = [ctrlRecv EXCEPT ![q] = "handled"]
    BY <1>3 DEF RecvNow, RecvResume, RecvFinish, UserCloseAfter, AbortCall, HandleCtrl
  <2>3. \A x \in Peers : ctrlRecv'[x] = "matched" => ctrlRecv[x] = "matched"
    BY <2>2, <1>a DEF CtrlRecvCanceled
  <2>4. \A x \in Peers : ctrl[x] = "none" /\ ctrlFut[x] = "none" =>
                             ctrl'[x] = "none" /\ ctrlFut'[x] = "none"
    BY <2>1, AbortCtrl
  <2> QED  BY <2>1, <2>3, <2>4, CtrlSentKept
<1>4. ASSUME NEW p \in Peers, CtrlSendDone(p) \/ Lose(p)
      PROVE  CtrlSent'
  <2>1. UNCHANGED <<shutting, ctrlN, told, sendCount, ctrlRecv>>
    BY <1>4 DEF CtrlSendDone, Lose, dataVars, closeVars, histVars
  <2>2. \A x \in Peers : ctrl[x] = "none" /\ ctrlFut[x] = "none" =>
                             ctrl'[x] = "none" /\ ctrlFut'[x] = "none"
    <3>1. CASE CtrlSendDone(p)
      BY <3>1, <1>a DEF CtrlSendDone
    <3>2. CASE Lose(p)
      BY <3>2, <1>a DEF Lose
    <3> QED  BY <1>4, <3>1, <3>2
  <2> QED  BY <2>1, <2>2, CtrlSentKept
<1>5. ASSUME NEW q \in Peers, CtrlArrive(q)
      PROVE  CtrlSent'
  <2>1. UNCHANGED <<shutting, ctrlN, told, sendCount, ctrlFut>>
    BY <1>5 DEF CtrlArrive, dataVars, closeVars, histVars
  <2>2. /\ ctrl[Other[q]] = "transit"
        /\ ctrl' = [ctrl EXCEPT ![Other[q]] = "arrived"]
        /\ ctrlRecv' = [ctrlRecv EXCEPT ![q] = IF @ = "posted" THEN "matched" ELSE @]
    BY <1>5 DEF CtrlArrive
  <2>3. \A x \in Peers : ctrl[x] = "none" => ctrl'[x] = "none"
    BY <2>2, <1>a
  <2>4. \A x \in Peers : ctrlRecv'[x] = "matched" =>
                             ctrlRecv[x] = "matched" \/ ctrl[Other[x]] # "none"
    BY <2>2, <1>a
  <2> QED  BY <2>1, <2>3, <2>4, CtrlSentKept
<1>6. ASSUME NEW q \in Peers, CancelInflight(q)
      PROVE  CtrlSent'
  <2>1. UNCHANGED <<shutting, ctrlN, told, sendCount>>
    BY <1>6 DEF CancelInflight, closeVars, histVars
  <2>2. (CancelCtrlSend(q) /\ CtrlRecvCanceled(q)) \/ UNCHANGED <<ctrl, ctrlFut, ctrlRecv>>
    BY <1>6 DEF CancelInflight
  <2>3. \A x \in Peers : ctrl[x] = "none" /\ ctrlFut[x] = "none" =>
                             ctrl'[x] = "none" /\ ctrlFut'[x] = "none"
    BY <2>2, <1>a DEF CancelCtrlSend
  <2>4. \A x \in Peers : ctrlRecv'[x] = "matched" => ctrlRecv[x] = "matched"
    BY <2>2, <1>a DEF CtrlRecvCanceled
  <2> QED  BY <2>1, <2>3, <2>4, CtrlSentKept
<1>7. ASSUME NEW c \in Calls, CloseCall(c) \/ CloseAbort(c), Abort(Caller[c]) \/ NoAbort,
             UNCHANGED <<shutting, ctrlN, told>>
      PROVE  CtrlSent'
  <2>1. UNCHANGED sendCount
    BY <1>7 DEF CloseCall, CloseAbort
  <2>2. CtrlRecvCanceled(Caller[c]) \/ UNCHANGED ctrlRecv
    BY <1>7 DEF CloseCall, CloseAbort
  <2>3. \A x \in Peers : ctrlRecv'[x] = "matched" => ctrlRecv[x] = "matched"
    BY <2>2, <1>a DEF CtrlRecvCanceled
  <2>4. \A x \in Peers : ctrl[x] = "none" /\ ctrlFut[x] = "none" =>
                             ctrl'[x] = "none" /\ ctrlFut'[x] = "none"
    BY <1>7, AbortCtrl
  <2> QED  BY <1>7, <2>1, <2>3, <2>4, CtrlSentKept
<1>8. ASSUME NEW c \in Calls, CloseCall(c)
      PROVE  CtrlSent'
  <2> DEFINE p == Caller[c]
  <2>1. CASE /\ Abort(p) \/ NoAbort
             /\ UNCHANGED <<shutting, told, ctrlN>>
    BY <1>8, <2>1, <1>7
  <2>2. CASE /\ ~shutting[p]
             /\ shutting' = [shutting EXCEPT ![p] = TRUE]
             /\ told' = [told EXCEPT ![p] = @ + 1]
             /\ ctrlN' = [ctrlN EXCEPT ![p] = SentBeforeClose(p)]
             /\ \E m : ctrl' = [ctrl EXCEPT ![p] = m]
             /\ \E m : ctrlFut' = [ctrlFut EXCEPT ![p] = m]
             /\ UNCHANGED <<ctrlRecv, sendCount>>
    BY <2>2, <1>a DEF CtrlSent, SentBeforeClose, None
  <2> QED  BY <1>8, <2>1, <2>2 DEF CloseCall
<1>9. ASSUME NEW c \in Calls, CloseResume(c)
      PROVE  CtrlSent'
  <2>1. UNCHANGED <<shutting, ctrlN, told, sendCount, ctrl, ctrlFut, ctrlRecv>>
    BY <1>9 DEF CloseResume, dataVars, ctrlVars, histVars
  <2> QED  BY <2>1, CtrlSentKept
<1>10. ASSUME NEW c \in Calls, CloseAbort(c)
       PROVE  CtrlSent'
  BY <1>10, <1>7 DEF CloseAbort
<1>11. CASE UNCHANGED vars
  <2>1. UNCHANGED <<shutting, ctrlN, told, sendCount, ctrl, ctrlFut, ctrlRecv>>
    BY <1>11 DEF vars, dataVars, ctrlVars, closeVars, histVars
  <2> QED  BY <2>1, CtrlSentKept
<1> QED
  BY <1>1, <1>2, <1>3, <1>4, <1>5, <1>6, <1>8, <1>9, <1>10, <1>11 DEF Next

LEMMA CtrlSentHolds == Spec => []CtrlSent
<1>1. Init => CtrlSent
  <2> SUFFICES ASSUME Init, NEW p \in Peers
               PROVE  /\ ~shutting[p] /\ ctrlN[p] = None /\ told[p] = 0 /\ ctrl[p] = "none"
                      /\ ctrlFut[p] = "none" /\ ctrlRecv[Other[p]] # "matched"
    BY DEF CtrlSent
  <2>1. Other[p] \in Peers
    BY PairAssumption
  <2> QED  BY <2>1 DEF Init
<1> QED  BY <1>1, CtrlSentNext, TypeHolds, PTL DEF Spec

\* An endpoint tells its peer to shut down at most once, and a polite one
\* tells it the number of all its sends (Endpoint.close).
THEOREM CtrlTruthfulHolds == Spec => []CtrlTruthful
<1>1. TypeOK /\ CtrlSent => CtrlTruthful
  <2> SUFFICES ASSUME TypeOK, CtrlSent, NEW p \in Peers
               PROVE  /\ told[p] <= 1
                      /\ Polite /\ ctrlN[p] # None => ctrlN[p] = sendCount[p]
    BY DEF CtrlTruthful
  <2>1. told[p] = 0 \/ told[p] = 1
    BY DEF CtrlSent
  <2>2. Polite /\ ctrlN[p] # None => ctrlN[p] = sendCount[p]
    BY DEF CtrlSent
  <2> QED  BY <2>1, <2>2
<1> QED  BY <1>1, CtrlSentHolds, TypeHolds, PTL

-----------------------------------------------------------------------------
(* What is done with it.                                                   *)

\* Only the peer's control message sets the limit, to the number it carries,
\* unless the user calls close_after_n_recv on that endpoint.
LimitTruthful ==
    \A q \in Peers : closeAfter[q] # None /\ q \notin Counters =>
        /\ ctrlRecv[q] = "handled" /\ shutting[Other[q]]
        /\ closeAfter[q] = ctrlN[Other[q]]

LEMMA LimitTruthfulNext ==
    TypeOK /\ CtrlSent /\ LimitTruthful /\ [Next]_vars => LimitTruthful'
<1> SUFFICES ASSUME TypeOK, CtrlSent, LimitTruthful, [Next]_vars,
                    NEW x \in Peers, closeAfter'[x] # None, x \notin Counters
             PROVE  /\ ctrlRecv'[x] = "handled" /\ shutting'[Other[x]]
                    /\ closeAfter'[x] = ctrlN'[Other[x]]
  BY DEF LimitTruthful
<1> USE PairAssumption
<1>a. Forward(x) /\ Forward(Other[x])
  BY Monotone
<1>b. closeAfter \in [Peers -> Nat \cup {None}]
  BY DEF TypeOK
<1>1. ASSUME closeAfter'[x] = closeAfter[x]
      PROVE  /\ ctrlRecv'[x] = "handled" /\ shutting'[Other[x]]
             /\ closeAfter'[x] = ctrlN'[Other[x]]
  BY <1>1, <1>a DEF LimitTruthful, Forward
<1>2. ASSUME NEW q \in Peers, HandleCtrl(q), closeAfter'[x] # closeAfter[x]
      PROVE  /\ ctrlRecv'[x] = "handled" /\ shutting'[Other[x]]
             /\ closeAfter'[x] = ctrlN'[Other[x]]
  <2>1. /\ closeAfter' = [closeAfter EXCEPT ![q] = LimitTold(q)]
        /\ ctrlRecv[q] = "matched"
        /\ ctrlRecv' = [ctrlRecv EXCEPT ![q] = "handled"]
    BY <1>2 DEF HandleCtrl, CloseAfterNRecv
  <2>2. x = q
    BY <1>2, <1>b, <2>1
  <2>3. shutting[Other[x]]
    BY <2>1, <2>2 DEF CtrlSent
  <2> QED  BY <1>a, <1>b, <2>1, <2>2, <2>3 DEF Forward, LimitTold, TypeOK
<1>3. ASSUME NEW q \in Peers, UserCloseAfter(q)
      PROVE  closeAfter'[x] = closeAfter[x]
  <2>1. q # x
    BY <1>3 DEF UserCloseAfter
  <2>2. UNCHANGED closeAfter \/ \E n : closeAfter' = [closeAfter EXCEPT ![q] = n]
    BY <1>3 DEF UserCloseAfter, CloseAfterNRecv
  <2> QED  BY <2>1, <2>2, <1>b
<1>4. ASSUME NEW p \in Peers,
             \/ SendCall(p) \/ SendRejected(p) \/ SendDone(p) \/ RecvNow(p) \/ RecvWait(p)
             \/ Deliver(p) \/ RecvResume(p) \/ RecvRaise(p) \/ Timeout(p) \/ AbortCall(p)
             \/ SetCloseCallback(p) \/ CtrlSendDone(p) \/ CtrlArrive(p) \/ Lose(p) \/ ErrCb(p)
             \/ CancelInflight(p) \/ CancelLate(p)
      PROVE  closeAfter'[x] = closeAfter[x]
  BY <1>4 DEF SendCall, SendRejected, SendDone, RecvNow, RecvWait, Deliver, RecvResume,
     RecvRaise, Timeout, AbortCall, SetCloseCallback, CtrlSendDone, CtrlArrive, Lose, ErrCb,
     CancelInflight, CancelLate, closeVars
<1>5. ASSUME NEW c \in Calls, CloseCall(c) \/ CloseResume(c) \/ CloseAbort(c)
      PROVE  closeAfter'[x] = closeAfter[x]
  BY <1>5 DEF CloseCall, CloseResume, CloseAbort
<1>6. CASE UNCHANGED vars
  BY <1>6, <1>1 DEF vars, closeVars
<1> QED  BY <1>1, <1>2, <1>3, <1>4, <1>5, <1>6 DEF Next

LEMMA LimitTruthfulHolds == Spec => []LimitTruthful
<1>1. Init => LimitTruthful
  BY DEF Init, LimitTruthful
<1> QED  BY <1>1, LimitTruthfulNext, CtrlSentHolds, TypeHolds, PTL DEF Spec

\* An endpoint that closed because it had counted far enough has received at
\* least as many messages as its peer announced.
CountedRight ==
    \A q \in Peers : counted[q] /\ q \notin Counters =>
        shutting[Other[q]] /\ finished[q] >= ctrlN[Other[q]]

LEMMA CountedRightNext ==
    TypeOK /\ CtrlSent /\ LimitTruthful /\ CountedRight /\ [Next]_vars => CountedRight'
<1> SUFFICES ASSUME TypeOK, CtrlSent, LimitTruthful, CountedRight, [Next]_vars,
                    NEW x \in Peers, counted'[x], x \notin Counters
             PROVE  shutting'[Other[x]] /\ finished'[x] >= ctrlN'[Other[x]]
  BY DEF CountedRight
<1> USE PairAssumption
<1>a. Forward(x) /\ Forward(Other[x])
  BY Monotone
<1>b. /\ counted \in [Peers -> BOOLEAN] /\ finished \in [Peers -> Nat]
      /\ closeAfter \in [Peers -> Nat \cup {None}] /\ ctrlN \in [Peers -> Nat \cup {None}]
  BY DEF TypeOK
<1>c. finished'[x] \in Nat
  BY TypeNext DEF TypeOK
<1>1. ASSUME shutting[Other[x]], finished'[x] >= ctrlN[Other[x]]
      PROVE  shutting'[Other[x]] /\ finished'[x] >= ctrlN'[Other[x]]
  BY <1>1, <1>a DEF Forward
<1>2. ASSUME counted[x]
      PROVE  shutting'[Other[x]] /\ finished'[x] >= ctrlN'[Other[x]]
  <2>1. shutting[Other[x]] /\ finished[x] >= ctrlN[Other[x]]
    BY <1>2 DEF CountedRight
  <2>2. finished'[x] >= ctrlN[Other[x]]
    <3>1. ctrlN[Other[x]] \in Int /\ finished[x] \in Int
      BY <1>b DEF None
    <3> QED  BY <2>1, <3>1, <1>a, <1>c DEF Forward
  <2> QED  BY <2>1, <2>2, <1>1
<1>3. ASSUME NEW q \in Peers, RecvNow(q) \/ RecvResume(q), ~counted[x]
      PROVE  shutting'[Other[x]] /\ finished'[x] >= ctrlN'[Other[x]]
  <2>1. RecvFinish(q)
    BY <1>3 DEF RecvNow, RecvResume
  <2>2. /\ ReachedLimit(q) /\ finished' = [finished EXCEPT ![q] = @ + 1]
        /\ counted' = [counted EXCEPT ![q] = @ \/ life[q] # "gone"]
    BY <1>3, <2>1 DEF RecvFinish
  <2>3. x = q
    BY <1>3, <1>b, <2>2
  <2>4. closeAfter[x] # None /\ finished'[x] >= closeAfter[x]
    BY <2>2, <2>3, <1>b DEF ReachedLimit
  <2>5. shutting[Other[x]] /\ closeAfter[x] = ctrlN[Other[x]]
    BY <2>4 DEF LimitTruthful
  <2> QED  BY <2>4, <2>5, <1>1
<1>4. ASSUME NEW q \in Peers, HandleCtrl(q), ~counted[x]
      PROVE  shutting'[Other[x]] /\ finished'[x] >= ctrlN'[Other[x]]
  <2>1. /\ ctrlRecv[q] = "matched" /\ LimitTold(q) = finished[q] /\ finished' = finished
        /\ counted' = [counted EXCEPT ![q] = @ \/ life[q] # "gone"]
    BY <1>4 DEF HandleCtrl, CloseAfterNRecv
  <2>2. x = q
    BY <1>4, <1>b, <2>1
  <2>3. shutting[Other[x]]
    BY <2>1, <2>2 DEF CtrlSent
  <2> QED  BY <2>1, <2>2, <2>3, <1>1, <1>b DEF LimitTold
<1>5. ASSUME NEW q \in Peers, UserCloseAfter(q)
      PROVE  counted[x]
  <2>1. q # x
    BY <1>5 DEF UserCloseAfter
  <2>2. \/ UNCHANGED counted
        \/ counted' = [counted EXCEPT ![q] = @ \/ life[q] # "gone"]
    BY <1>5 DEF UserCloseAfter, CloseAfterNRecv
  <2> QED  BY <2>1, <2>2, <1>b
<1>6. ASSUME NEW p \in Peers,
             \/ SendCall(p) \/ SendRejected(p) \/ SendDone(p) \/ RecvWait(p) \/ Deliver(p)
             \/ RecvRaise(p) \/ Timeout(p) \/ AbortCall(p) \/ SetCloseCallback(p)
             \/ CtrlSendDone(p) \/ CtrlArrive(p) \/ Lose(p) \/ ErrCb(p)
             \/ CancelInflight(p) \/ CancelLate(p)
      PROVE  counted[x]
  BY <1>6 DEF SendCall, SendRejected, SendDone, RecvWait, Deliver, RecvRaise, Timeout,
     AbortCall, SetCloseCallback, CtrlSendDone, CtrlArrive, Lose, ErrCb, CancelInflight,
     CancelLate, histVars
<1>7. ASSUME NEW c \in Calls, CloseCall(c) \/ CloseResume(c) \/ CloseAbort(c)
      PROVE  counted[x]
  BY <1>7 DEF CloseCall, CloseResume, CloseAbort, histVars
<1>8. CASE UNCHANGED vars
  BY <1>8, <1>2 DEF vars, histVars
<1> QED  BY <1>2, <1>3, <1>4, <1>5, <1>6, <1>7, <1>8 DEF Next

LEMMA CountedRightHolds == Spec => []CountedRight
<1>1. Init => CountedRight
  BY DEF Init, CountedRight
<1> QED
  BY <1>1, CountedRightNext, LimitTruthfulHolds, CtrlSentHolds, TypeHolds, PTL DEF Spec

\* A peer told to shut down closes no earlier than it was told, and when the
\* sender was polite it has then read every message (close_after_n_recv).
THEOREM NothingUnreadHolds == Spec => []NothingUnread
<1>1. ASSUME TypeOK, Conservation, CtrlSent, CountedRight
      PROVE  NothingUnread
  <2> SUFFICES ASSUME NEW q \in Peers, counted[q], q \notin Counters
               PROVE  /\ ctrlN[Other[q]] # None /\ finished[q] >= ctrlN[Other[q]]
                      /\ Polite => net[Other[q]] + unexp[q] + okR[q] = 0
    BY DEF NothingUnread
  <2>1. Other[q] \in Peers /\ Other[Other[q]] = q
    BY PairAssumption
  <2>2. shutting[Other[q]] /\ finished[q] >= ctrlN[Other[q]]
    BY <1>1 DEF CountedRight
  <2>3. ctrlN[Other[q]] # None /\ (Polite => ctrlN[Other[q]] = sendCount[Other[q]])
    BY <1>1, <2>1, <2>2 DEF CtrlSent
  <2>4. sendCount[Other[q]] = rejected[Other[q]] + lost[Other[q]] + net[Other[q]] + unexp[q]
                              + okR[q] + stolen[q] + finished[q]
    BY <1>1, <2>1 DEF Conservation, ConservedFor
  <2>5. /\ rejected[Other[q]] \in Nat /\ lost[Other[q]] \in Nat /\ net[Other[q]] \in Nat
        /\ unexp[q] \in Nat /\ okR[q] \in Nat /\ stolen[q] \in Nat /\ finished[q] \in Nat
    BY <1>1, <2>1 DEF TypeOK
  <2>6. Polite => net[Other[q]] + unexp[q] + okR[q] = 0
    BY <2>2, <2>3, <2>4, <2>5
  <2> QED  BY <2>2, <2>3, <2>6
<1> QED  BY <1>1, CountedRightHolds, CtrlSentHolds, ConservationHolds, TypeHolds, PTL

\* The control message of a polite sender is never refused: it announces no
\* fewer messages than were received, and there was no limit before it.
LEMMA NeverRefusedNext ==
    TypeOK /\ Conservation /\ CtrlSent /\ LimitTruthful /\ CtrlNeverRefused /\ [Next]_vars
        => CtrlNeverRefused'
<1> SUFFICES ASSUME TypeOK, Conservation, CtrlSent, LimitTruthful, CtrlNeverRefused,
                    [Next]_vars, NEW x \in Peers, Polite, x \notin Counters
             PROVE  ~ctrlRaised'[x]
  BY DEF CtrlNeverRefused
<1>a. ~ctrlRaised[x] /\ ctrlRaised \in [Peers -> BOOLEAN]
  BY DEF CtrlNeverRefused, TypeOK
<1>1. ASSUME NEW q \in Peers, HandleCtrl(q)
      PROVE  ~ctrlRaised'[x]
  <2>1. CASE q # x \/ ctrlRaised' = ctrlRaised
    BY <1>1, <1>a, <2>1 DEF HandleCtrl
  <2>2. CASE q = x /\ ctrlRaised' # ctrlRaised
    <3>1. /\ ctrlRecv[x] = "matched"
          /\ ctrlRaised' = [ctrlRaised EXCEPT ![x] = CloseAfterRefused(x, LimitTold(x))]
      BY <1>1, <2>2 DEF HandleCtrl
    <3>2. closeAfter[x] = None
      BY <3>1 DEF LimitTruthful
    <3>3. Other[x] \in Peers /\ Other[Other[x]] = x
      BY PairAssumption
    <3>4. ctrlN[Other[x]] = sendCount[Other[x]]
      BY <3>1, <3>3 DEF CtrlSent
    <3>5. sendCount[Other[x]] = rejected[Other[x]] + lost[Other[x]] + net[Other[x]]
                                + unexp[x] + okR[x] + stolen[x] + finished[x]
      BY <3>3 DEF Conservation, ConservedFor
    <3>6. /\ rejected[Other[x]] \in Nat /\ lost[Other[x]] \in Nat /\ net[Other[x]] \in Nat
          /\ unexp[x] \in Nat /\ okR[x] \in Nat /\ stolen[x] \in Nat /\ finished[x] \in Nat
      BY <3>3 DEF TypeOK
    <3>7. ~(ctrlN[Other[x]] < finished[x])
      BY <3>4, <3>5, <3>6
    <3>8. ~CloseAfterRefused(x, LimitTold(x))
      BY <3>2, <3>7 DEF CloseAfterRefused, LimitTold
    <3> QED  BY <3>1, <3>8, <1>a
  <2> QED  BY <2>1, <2>2
<1>2. ASSUME NEW p \in Peers,
             \/ SendCall(p) \/ SendRejected(p) \/ SendDone(p) \/ RecvNow(p) \/ RecvWait(p)
             \/ Deliver(p) \/ RecvResume(p) \/ RecvRaise(p) \/ Timeout(p) \/ UserCloseAfter(p)
             \/ AbortCall(p) \/ SetCloseCallback(p) \/ CtrlSendDone(p) \/ CtrlArrive(p)
             \/ Lose(p) \/ ErrCb(p) \/ CancelInflight(p) \/ CancelLate(p)
      PROVE  ctrlRaised' = ctrlRaised
  BY <1>2 DEF SendCall, SendRejected, SendDone, RecvNow, RecvWait, Deliver, RecvResume,
     RecvRaise, Timeout, UserCloseAfter, AbortCall, SetCloseCallback, CtrlSendDone, CtrlArrive,
     Lose, ErrCb, CancelInflight, CancelLate, histVars
<1>3. ASSUME NEW c \in Calls, CloseCall(c) \/ CloseResume(c) \/ CloseAbort(c)
      PROVE  ctrlRaised' = ctrlRaised
  BY <1>3 DEF CloseCall, CloseResume, CloseAbort, histVars
<1>4. CASE UNCHANGED vars
  BY <1>4, <1>a DEF vars, histVars
<1> QED  BY <1>a, <1>1, <1>2, <1>3, <1>4 DEF Next

\* A polite shutdown is never turned down by the peer (CtrlMsg.handle_ctrl_msg
\* calling close_after_n_recv, whose exceptions nobody would hear).
THEOREM CtrlNeverRefusedHolds == Spec => []CtrlNeverRefused
<1>1. Init => CtrlNeverRefused
  BY DEF Init, CtrlNeverRefused
<1> QED
  BY <1>1, NeverRefusedNext, LimitTruthfulHolds, CtrlSentHolds, ConservationHolds, TypeHolds,
     PTL DEF Spec

-----------------------------------------------------------------------------
(* Closing.                                                                *)

\* A receive that is counted closes the endpoint when it reaches the limit.
LEMMA LimitClosesFinish ==
    ASSUME TypeOK, LimitCloses, NEW q \in Peers, RecvFinish(q), UNCHANGED closeAfter
    PROVE  LimitCloses'
<1> SUFFICES ASSUME NEW x \in Peers, life'[x] # "gone", closeAfter[x] # None
             PROVE  finished'[x] < closeAfter[x]
  BY DEF LimitCloses
<1>a. finished \in [Peers -> Nat] /\ closeAfter \in [Peers -> Nat \cup {None}]
  BY DEF TypeOK
<1>b. finished' = [finished EXCEPT ![q] = @ + 1]
  BY DEF RecvFinish
<1>1. CASE ReachedLimit(q)
  <2>1. life'[q] = "gone" /\ \A y \in Peers : y # q => life'[y] = life[y]
    BY <1>1, AbortGone DEF RecvFinish
  <2> QED  BY <2>1, <1>a, <1>b DEF LimitCloses
<1>2. CASE ~ReachedLimit(q)
  <2>1. life' = life
    BY <1>2 DEF RecvFinish, NoAbort
  <2>2. CASE x = q
    <3>1. ~(finished[q] + 1 >= closeAfter[q])
      BY <1>2, <2>2 DEF ReachedLimit
    <3> QED  BY <3>1, <2>2, <1>a, <1>b DEF None
  <2>3. CASE x # q
    BY <2>1, <2>3, <1>a, <1>b DEF LimitCloses
  <2> QED  BY <2>2, <2>3
<1> QED  BY <1>1, <1>2

\* A new limit is above what has been received.
LEMMA LimitClosesAfter ==
    ASSUME TypeOK, LimitCloses, NEW q \in Peers, NEW n \in Int, CloseAfterNRecv(q, n),
           UNCHANGED finished
    PROVE  LimitCloses'
<1> SUFFICES ASSUME NEW x \in Peers, life'[x] # "gone", closeAfter'[x] # None
             PROVE  finished[x] < closeAfter'[x]
  BY DEF LimitCloses
<1>a. finished \in [Peers -> Nat] /\ closeAfter \in [Peers -> Nat \cup {None}]
  BY DEF TypeOK
<1>1. life[x] # "gone"
  <2>1. Abort(q) \/ NoAbort
    BY DEF CloseAfterNRecv
  <2>2. CASE Abort(q)
    BY <2>2, AbortGone
  <2>3. CASE NoAbort
    BY <2>3 DEF NoAbort
  <2> QED  BY <2>1, <2>2, <2>3
<1>2. CASE UNCHANGED closeAfter
  BY <1>1, <1>2 DEF LimitCloses
<1>3. CASE n > finished[q] /\ closeAfter' = [closeAfter EXCEPT ![q] = n]
  BY <1>1, <1>3, <1>a DEF LimitCloses
<1> QED  BY <1>2, <1>3 DEF CloseAfterNRecv

LEMMA LimitClosesNext == TypeOK /\ LimitCloses /\ [Next]_vars => LimitCloses'
<1> SUFFICES ASSUME TypeOK, LimitCloses, [Next]_vars
             PROVE  LimitCloses'
  OBVIOUS
<1>a. ASSUME UNCHANGED <<finished, closeAfter>>,
             \A x \in Peers : life[x] = "gone" => life'[x] = "gone"
      PROVE  LimitCloses'
  BY <1>a DEF LimitCloses
<1>b. life \in [Peers -> {"open", "error", "gone"}]
  BY DEF TypeOK
<1>1. ASSUME NEW p \in Peers,
             \/ SendCall(p) \/ SendRejected(p) \/ SendDone(p) \/ RecvWait(p) \/ Deliver(p)
             \/ RecvRaise(p) \/ Timeout(p) \/ SetCloseCallback(p) \/ CtrlSendDone(p)
             \/ CtrlArrive(p) \/ Lose(p) \/ CancelInflight(p) \/ CancelLate(p)
      PROVE  LimitCloses'
  <2>1. UNCHANGED <<finished, closeAfter, life>>
    BY <1>1 DEF SendCall, SendRejected, SendDone, RecvWait, Deliver, RecvRaise, Timeout,
       SetCloseCallback, CtrlSendDone, CtrlArrive, Lose, CancelInflight, CancelLate, dataVars,
       closeVars
  <2> QED  BY <2>1, <1>a
<1>2. ASSUME NEW q \in Peers, RecvNow(q) \/ RecvResume(q)
      PROVE  LimitCloses'
  BY <1>2, LimitClosesFinish DEF RecvNow, RecvResume, closeVars
<1>3. ASSUME NEW q \in Peers, UserCloseAfter(q)
      PROVE  LimitCloses'
  <2>1. finished[q] + 1 \in Int
    BY DEF TypeOK
  <2> QED  BY <1>3, <2>1, LimitClosesAfter DEF UserCloseAfter
<1>4. ASSUME NEW q \in Peers, HandleCtrl(q)
      PROVE  LimitCloses'
  <2>1. LimitTold(q) \in Int
    BY PairAssumption DEF LimitTold, TypeOK, None
  <2>2. CASE Abort(q) /\ UNCHANGED closeAfter
    <3>1. UNCHANGED finished
      BY <1>4 DEF HandleCtrl
    <3> QED  BY <2>2, <3>1, <1>a, AbortGone
  <2>3. CASE CloseAfterNRecv(q, LimitTold(q))
    BY <1>4, <2>1, <2>3, LimitClosesAfter DEF HandleCtrl
  <2> QED  BY <1>4, <2>2, <2>3 DEF HandleCtrl
<1>5. ASSUME NEW p \in Peers, AbortCall(p)
      PROVE  LimitCloses'
  BY <1>5, <1>a, AbortGone DEF AbortCall, closeVars
<1>6. ASSUME NEW p \in Peers, ErrCb(p)
      PROVE  LimitCloses'
  BY <1>6, <1>a, <1>b DEF ErrCb, dataVars, closeVars
<1>7. ASSUME NEW c \in Calls, CloseCall(c) \/ CloseAbort(c)
      PROVE  LimitCloses'
  <2>1. UNCHANGED <<finished, closeAfter>> /\ Caller[c] \in Peers
    BY <1>7, PairAssumption DEF CloseCall, CloseAbort
  <2>2. Abort(Caller[c]) \/ UNCHANGED life
    BY <1>7 DEF CloseCall, CloseAbort, NoAbort
  <2> QED  BY <2>1, <2>2, <1>a, AbortGone
<1>8. ASSUME NEW c \in Calls, CloseResume(c)
      PROVE  LimitCloses'
  BY <1>8, <1>a DEF CloseResume, dataVars
<1>9. CASE UNCHANGED vars
  BY <1>9, <1>a DEF vars, dataVars, closeVars
<1> QED  BY <1>1, <1>2, <1>3, <1>4, <1>5, <1>6, <1>7, <1>8, <1>9 DEF Next

\* No endpoint is left open at or beyond the number of messages it was to
\* receive (the tail of Endpoint.recv and close_after_n_recv).
THEOREM LimitClosesHolds == Spec => []LimitCloses
<1>1. Init => LimitCloses
  BY DEF Init, LimitCloses
<1> QED  BY <1>1, LimitClosesNext, TypeHolds, PTL DEF Spec

-----------------------------------------------------------------------------
(* The close callback.                                                     *)

LEMMA CallbackRuns ==
    ASSUME TypeOK, CloseCallbackOnce, NEW p \in Peers, RunCloseCallback(p),
           \A x \in Peers : x # p /\ life'[x] = "gone" => life[x] = "gone"
    PROVE  CloseCallbackOnce'
<1>a. cb \in [Peers -> {"unset", "set", "run"}] /\ cbRuns \in [Peers -> Nat]
  BY DEF TypeOK
<1> SUFFICES ASSUME NEW x \in Peers
             PROVE  /\ cbRuns'[x] <= 1 /\ (cbRuns'[x] = 1 <=> cb'[x] = "run")
                    /\ life'[x] = "gone" => cb'[x] # "set"
  BY DEF CloseCallbackOnce
<1>1. CASE x # p
  BY <1>a, <1>1 DEF RunCloseCallback, CloseCallbackOnce
<1>2. CASE x = p
  <2>1. cbRuns[p] = 0 \/ cbRuns[p] = 1
    BY <1>a DEF CloseCallbackOnce
  <2> QED  BY <1>a, <1>2, <2>1 DEF RunCloseCallback, CloseCallbackOnce
<1> QED  BY <1>1, <1>2

LEMMA CallbackAbort ==
    ASSUME TypeOK, CloseCallbackOnce, NEW p \in Peers, Abort(p) \/ NoAbort
    PROVE  CloseCallbackOnce'
<1>1. CASE UNCHANGED <<life, cb, cbRuns>>
  BY <1>1 DEF CloseCallbackOnce
<1>2. CASE Abort(p) /\ RunCloseCallback(p)
  BY <1>2, AbortGone, CallbackRuns
<1> QED  BY <1>1, <1>2 DEF Abort, NoAbort

LEMMA CallbackNext == TypeOK /\ CloseCallbackOnce /\ [Next]_vars => CloseCallbackOnce'
<1> SUFFICES ASSUME TypeOK, CloseCallbackOnce, [Next]_vars
             PROVE  CloseCallbackOnce'
  OBVIOUS
<1>a. ASSUME UNCHANGED <<life, cb, cbRuns>>
      PROVE  CloseCallbackOnce'
  BY <1>a DEF CloseCallbackOnce
<1>1. ASSUME NEW p \in Peers,
             \/ SendCall(p) \/ SendRejected(p) \/ SendDone(p) \/ RecvWait(p) \/ Deliver(p)
             \/ RecvRaise(p) \/ Timeout(p) \/ CtrlSendDone(p)
             \/ CtrlArrive(p) \/ Lose(p) \/ CancelInflight(p) \/ CancelLate(p)
      PROVE  CloseCallbackOnce'
  <2>1. UNCHANGED <<life, cb, cbRuns>>
    BY <1>1 DEF SendCall, SendRejected, SendDone, RecvWait, Deliver, RecvRaise, Timeout,
       CtrlSendDone, CtrlArrive, Lose, CancelInflight, CancelLate
  <2> QED  BY <2>1, <1>a
<1>2. ASSUME NEW q \in Peers,
             \/ RecvNow(q) \/ RecvResume(q) \/ UserCloseAfter(q) \/ HandleCtrl(q)
             \/ AbortCall(q)
      PROVE  CloseCallbackOnce'
  <2>1. Abort(q) \/ NoAbort
    BY <1>2 DEF RecvNow, RecvResume, RecvFinish, UserCloseAfter, HandleCtrl, AbortCall,
       CloseAfterNRecv
  <2> QED  BY <2>1, CallbackAbort
<1>3. ASSUME NEW p \in Peers, ErrCb(p)
      PROVE  CloseCallbackOnce'
  <2>1. RunCloseCallback(p) /\ life' = [life EXCEPT ![p] = "error"]
    BY <1>3 DEF ErrCb
  <2>2. \A x \in Peers : x # p /\ life'[x] = "gone" => life[x] = "gone"
    BY <2>1 DEF TypeOK
  <2> QED  BY <2>1, <2>2, CallbackRuns
<1>4. ASSUME NEW p \in Peers, SetCloseCallback(p)
      PROVE  CloseCallbackOnce'
  <2>1. /\ life[p] # "gone" /\ cb[p] = "unset" /\ cb' = [cb EXCEPT ![p] = "set"]
        /\ UNCHANGED <<life, cbRuns>>
    BY <1>4 DEF SetCloseCallback
  <2>2. cb \in [Peers -> {"unset", "set", "run"}]
    BY DEF TypeOK
  <2> QED  BY <2>1, <2>2 DEF CloseCallbackOnce
<1>5. ASSUME NEW c \in Calls, CloseCall(c) \/ CloseAbort(c)
      PROVE  CloseCallbackOnce'
  <2>1. Caller[c] \in Peers
    BY PairAssumption
  <2>2. Abort(Caller[c]) \/ UNCHANGED <<life, cb, cbRuns>>
    BY <1>5 DEF CloseCall, CloseAbort, NoAbort
  <2> QED  BY <2>1, <2>2, <1>a, CallbackAbort
<1>6. ASSUME NEW c \in Calls, CloseResume(c)
      PROVE  CloseCallbackOnce'
  BY <1>6, <1>a DEF CloseResume
<1>7. CASE UNCHANGED vars
  BY <1>7, <1>a DEF vars
<1> QED  BY <1>1, <1>2, <1>3, <1>4, <1>5, <1>6, <1>7 DEF Next

\* The close callback runs once, from the error callback or the finalizer,
\* and never after the endpoint is gone (UCXEndpointCloseCallback.run).
THEOREM CloseCallbackOnceHolds == Spec => []CloseCallbackOnce
<1>1. Init => CloseCallbackOnce
  <2> SUFFICES ASSUME Init, NEW p \in Peers
               PROVE  /\ cbRuns[p] <= 1 /\ (cbRuns[p] = 1 <=> cb[p] = "run")
                      /\ life[p] = "gone" => cb[p] # "set"
    BY DEF CloseCallbackOnce
  <2>1. cbRuns[p] = 0 /\ cb[p] = "unset"
    BY DEF Init
  <2> QED  BY <2>1
<1> QED  BY <1>1, CallbackNext, TypeHolds, PTL DEF Spec
-----------------------------------------------------------------------------
(* The steps of CloseReachesPeer and NoRecvHang, which a rule for weak       *)
(* fairness joins.                                                           *)

\* The control message for q has been sent if its peer shuts it down; it comes to the
\* receive set up for it, unless that was cancelled with the endpoint; handling it closes the
\* endpoint, or sets a limit, or is refused.  After an error, cancellation is scheduled.
PathFor(q) ==
    LET p == Other[q] IN
    /\ shutting[p] => ctrl[p] # "none"
    /\ ctrl[p] = "arrived" => ctrlRecv[q] # "posted"
    /\ ctrlRecv[q] = "canceled" => Closed(q)
    /\ ctrlRecv[q] = "handled" => Closed(q) \/ closeAfter[q] # None \/ ctrlRaised[q]
    /\ life[q] = "error" => sched[q] # "none"

CtrlPath == \A q \in Peers : PathFor(q)

\* What most steps are to an endpoint: they may lose its control message, and cancel the
\* receive for it with the endpoint.
PathSteps(q) ==
    LET p == Other[q] IN
    /\ shutting'[p] = shutting[p] /\ ctrl'[p] \in {ctrl[p], "lost"}
    /\ ctrlRecv'[q] = ctrlRecv[q] \/ (ctrlRecv'[q] = "canceled" /\ life'[q] # "open")
    /\ \/ life'[q] = life[q] \/ life'[q] = "gone"
       \/ life'[q] = "error" /\ sched'[q] # "none"
    /\ closeAfter[q] # None => closeAfter'[q] # None
    /\ ctrlRaised'[q] = ctrlRaised[q]
    /\ sched'[q] = sched[q] \/ sched'[q] # "none"

LEMMA PathKept == \A q \in Peers : PathFor(q) /\ PathSteps(q) => PathFor(q)'
<1> SUFFICES ASSUME NEW q \in Peers, PathFor(q), PathSteps(q)
             PROVE  PathFor(q)'
  OBVIOUS
<1>1. Closed(q) => Closed(q)'
  BY DEF PathSteps, Closed
<1>2. life'[q] = "error" => sched'[q] # "none"
  BY DEF PathFor, PathSteps
<1> QED  BY <1>1, <1>2 DEF PathFor, PathSteps, Closed

\* Of a step of the endpoint p that may abort it.
LEMMA PathAbort ==
    ASSUME TypeOK, NEW p \in Peers, Abort(p) \/ NoAbort,
           UNCHANGED <<shutting, ctrlRaised, sched>>,
           UNCHANGED ctrlRecv \/ (Abort(p) /\ CtrlRecvCanceled(p)),
           \A x \in Peers : closeAfter[x] # None => closeAfter'[x] # None,
           NEW q \in Peers
    PROVE  PathSteps(q)
<1>1. Other[q] \in Peers
  BY PairAssumption
<1>2. ctrl'[Other[q]] \in {ctrl[Other[q]], "lost"}
  BY <1>1, AbortCtrl
<1>3. life'[q] = life[q] \/ life'[q] = "gone"
  BY AbortGone DEF NoAbort
<1>4. ctrlRecv'[q] = ctrlRecv[q] \/ (ctrlRecv'[q] = "canceled" /\ life'[q] # "open")
  BY AbortGone DEF CtrlRecvCanceled, TypeOK
<1> QED  BY <1>2, <1>3, <1>4 DEF PathSteps

\* The control message arrives, is handled and is sent; all other steps are PathSteps.
LEMMA CtrlPathNext == TypeOK /\ CtrlPath /\ [Next]_vars => CtrlPath'
<1> SUFFICES ASSUME TypeOK, CtrlPath, [Next]_vars, NEW x \in Peers
             PROVE  PathFor(x)'
  BY DEF CtrlPath
<1> USE PairAssumption
<1>a. /\ closeAfter \in [Peers -> Nat \cup {None}]
      /\ life \in [Peers -> {"open", "error", "gone"}]
      /\ sched \in [Peers -> {"none", "scheduled", "done"}]
      /\ shutting \in [Peers -> BOOLEAN] /\ ctrlRaised \in [Peers -> BOOLEAN]
      /\ ctrl \in [Peers -> {"none", "transit", "lost", "arrived"}]
      /\ ctrlRecv \in [Peers -> {"posted", "matched", "canceled", "handled"}]
  BY DEF TypeOK
<1>b. PathFor(x) /\ Other[x] \in Peers /\ Other[x] # x /\ Other[Other[x]] = x
  BY DEF CtrlPath
<1>1. ASSUME NEW p \in Peers,
             \/ SendCall(p) \/ SendRejected(p) \/ SendDone(p) \/ RecvWait(p) \/ Deliver(p)
             \/ RecvRaise(p) \/ Timeout(p) \/ SetCloseCallback(p) \/ CancelLate(p)
      PROVE  PathSteps(x)
  <2>1. UNCHANGED <<life, shutting, ctrl, ctrlRecv, closeAfter, ctrlRaised, sched>>
    BY <1>1 DEF SendCall, SendRejected, SendDone, RecvWait, Deliver, RecvRaise, Timeout,
       SetCloseCallback, CancelLate, ctrlVars, closeVars, histVars
  <2> QED  BY <2>1 DEF PathSteps
<1>2. ASSUME NEW q \in Peers, RecvNow(q) \/ RecvResume(q) \/ AbortCall(q)
      PROVE  PathSteps(x)
  <2>1. /\ Abort(q) \/ NoAbort
        /\ UNCHANGED ctrlRecv \/ (Abort(q) /\ CtrlRecvCanceled(q))
        /\ UNCHANGED <<shutting, ctrlRaised, sched, closeAfter>>
    BY <1>2 DEF RecvNow, RecvResume, RecvFinish, AbortCall, closeVars
  <2> QED  BY <2>1, PathAbort
<1>3. ASSUME NEW q \in Peers, UserCloseAfter(q)
      PROVE  PathSteps(x)
  <2>1. /\ Abort(q) \/ NoAbort
        /\ UNCHANGED <<ctrlRecv, shutting, ctrlRaised, sched>>
    BY <1>3 DEF UserCloseAfter, CloseAfterNRecv
  <2>2. ASSUME NEW y \in Peers, closeAfter[y] # None PROVE closeAfter'[y] # None
    BY <1>3, <1>a, <2>2 DEF UserCloseAfter, CloseAfterNRecv, CloseAfterRefused
  <2> QED  BY <2>1, <2>2, PathAbort
<1>4. ASSUME NEW p \in Peers, CtrlSendDone(p) \/ Lose(p)
      PROVE  PathSteps(x)
  <2>1. UNCHANGED <<life, shutting, ctrlRecv, closeAfter, ctrlRaised, sched>>
    BY <1>4 DEF CtrlSendDone, Lose, closeVars, histVars
  <2>2. ctrl' = ctrl \/ \E m \in {ctrl[p], "lost"} : ctrl' = [ctrl EXCEPT ![p] = m]
    BY <1>4 DEF CtrlSendDone, Lose
  <2>3. ctrl'[Other[x]] \in {ctrl[Other[x]], "lost"}
    BY <1>a, <1>b, <2>2
  <2> QED  BY <2>1, <2>3 DEF PathSteps
<1>5. ASSUME NEW q \in Peers, CtrlArrive(q)
      PROVE  PathFor(x)'
  <2>1. /\ UNCHANGED <<life, shutting, closeAfter, ctrlRaised, sched>>
        /\ ctrl' = [ctrl EXCEPT ![Other[q]] = "arrived"]
        /\ ctrlRecv' = [ctrlRecv EXCEPT ![q] = IF @ = "posted" THEN "matched" ELSE @]
    BY <1>5 DEF CtrlArrive, closeVars, histVars
  <2>2. CASE q = x
    BY <1>a, <1>b, <2>1, <2>2 DEF PathFor, Closed
  <2>3. CASE q # x
    <3>1. Other[q] # Other[x]
      BY <1>b, <2>3
    <3>2. PathSteps(x)
      BY <1>a, <1>b, <2>1, <2>3, <3>1 DEF PathSteps
    <3> QED  BY <1>b, <3>2, PathKept
  <2> QED  BY <2>2, <2>3
<1>6. ASSUME NEW q \in Peers, HandleCtrl(q)
      PROVE  PathFor(x)'
  <2>1. /\ Abort(q) \/ NoAbort
        /\ UNCHANGED <<shutting, sched>>
        /\ ctrlRecv' = [ctrlRecv EXCEPT ![q] = "handled"]
        /\ \A y \in Peers : y # q => ctrlRaised'[y] = ctrlRaised[y]
        /\ closeAfter' = closeAfter \/ closeAfter' = [closeAfter EXCEPT ![q] = LimitTold(q)]
        /\ closeAfter[q] # None => closeAfter'[q] # None
    BY <1>6, <1>a DEF HandleCtrl, CloseAfterNRecv, CloseAfterRefused
  <2>2. /\ ctrl'[Other[x]] \in {ctrl[Other[x]], "lost"}
        /\ life'[x] = life[x] \/ life'[x] = "gone"
    BY <1>b, <2>1, AbortCtrl, AbortGone DEF NoAbort
  <2>3. CASE q # x
    <3>1. PathSteps(x)
      BY <1>a, <2>1, <2>2, <2>3 DEF PathSteps
    <3> QED  BY <1>b, <3>1, PathKept
  <2>4. CASE q = x
    <3>1. Closed(x)' \/ closeAfter'[x] # None \/ ctrlRaised'[x]
      <4>1. CASE Abort(x)
        BY <4>1, AbortGone DEF Closed
      <4>2. CASE CloseAfterRefused(x, LimitTold(x)) /\ ~Closed(x)
        BY <1>6, <1>a, <2>4, <4>2 DEF HandleCtrl
      <4>3. CASE /\ LimitTold(x) > finished[x]
                 /\ closeAfter' = [closeAfter EXCEPT ![x] = LimitTold(x)]
        <5>1. finished[x] \in Nat /\ LimitTold(x) \in Nat \cup {None}
          BY <1>b DEF TypeOK, LimitTold
        <5>2. LimitTold(x) # None
          BY <4>3, <5>1 DEF None
        <5> QED  BY <1>a, <4>3, <5>2
      <4> QED  BY <1>6, <2>4, <4>1, <4>2, <4>3 DEF HandleCtrl, CloseAfterNRecv
    <3> QED  BY <1>a, <1>b, <2>1, <2>2, <2>4, <3>1 DEF PathFor, Closed
  <2> QED  BY <2>3, <2>4
<1>7. ASSUME NEW p \in Peers, ErrCb(p)
      PROVE  PathSteps(x)
  <2>1. /\ UNCHANGED <<shutting, ctrl, ctrlRecv, closeAfter, ctrlRaised>>
        /\ life' = [life EXCEPT ![p] = "error"] /\ sched' = [sched EXCEPT ![p] = "scheduled"]
    BY <1>7 DEF ErrCb, ctrlVars, closeVars, histVars
  <2> QED  BY <1>a, <2>1 DEF PathSteps
<1>8. ASSUME NEW q \in Peers, CancelInflight(q)
      PROVE  PathSteps(x)
  <2>1. /\ UNCHANGED <<life, shutting, closeAfter, ctrlRaised>>
        /\ sched' = [sched EXCEPT ![q] = "done"]
        /\ \/ life[q] = "error" /\ CancelCtrlSend(q) /\ CtrlRecvCanceled(q)
           \/ UNCHANGED <<ctrl, ctrlRecv>>
    BY <1>8 DEF CancelInflight, closeVars, histVars
  <2>2. ctrl'[Other[x]] \in {ctrl[Other[x]], "lost"}
    BY <1>a, <1>b, <2>1 DEF CancelCtrlSend
  <2>3. ctrlRecv'[x] = ctrlRecv[x] \/ (ctrlRecv'[x] = "canceled" /\ life'[x] # "open")
    BY <1>a, <2>1 DEF CtrlRecvCanceled
  <2> QED  BY <1>a, <2>1, <2>2, <2>3 DEF PathSteps
<1>9. ASSUME NEW c \in Calls, CloseCall(c) \/ CloseAbort(c), Abort(Caller[c]) \/ NoAbort,
             UNCHANGED shutting
      PROVE  PathSteps(x)
  <2>1. /\ Caller[c] \in Peers /\ UNCHANGED <<sched, ctrlRaised, closeAfter>>
        /\ UNCHANGED ctrlRecv \/ (Abort(Caller[c]) /\ CtrlRecvCanceled(Caller[c]))
    BY <1>9 DEF CloseCall, CloseAbort
  <2> QED  BY <1>9, <2>1, PathAbort
<1>10. ASSUME NEW c \in Calls, CloseCall(c)
       PROVE  PathFor(x)'
  <2> DEFINE p == Caller[c]
  <2>1. CASE (Abort(p) \/ NoAbort) /\ UNCHANGED shutting
    BY <1>9, <1>10, <1>b, <2>1, PathKept
  <2>2. CASE /\ shutting' = [shutting EXCEPT ![p] = TRUE]
             /\ \E m \in {"transit", "lost"} : ctrl' = [ctrl EXCEPT ![p] = m]
             /\ UNCHANGED <<life, ctrlRecv, closeAfter, ctrlRaised, sched>>
    BY <1>a, <1>b, <2>2 DEF PathFor, Closed
  <2> QED  BY <1>10, <2>1, <2>2 DEF CloseCall
<1>11. ASSUME NEW c \in Calls, CloseResume(c)
       PROVE  PathSteps(x)
  <2>1. UNCHANGED <<life, shutting, ctrl, ctrlRecv, closeAfter, ctrlRaised, sched>>
    BY <1>11 DEF CloseResume, ctrlVars, histVars
  <2> QED  BY <2>1 DEF PathSteps
<1>12. ASSUME NEW c \in Calls, CloseAbort(c)
       PROVE  PathSteps(x)
  BY <1>9, <1>12 DEF CloseAbort
<1>13. ASSUME UNCHANGED vars
       PROVE  PathSteps(x)
  <2>1. UNCHANGED <<life, shutting, ctrl, ctrlRecv, closeAfter, ctrlRaised, sched>>
    BY <1>13 DEF vars, ctrlVars, closeVars, histVars
  <2> QED  BY <2>1 DEF PathSteps
<1>14. PathSteps(x) => PathFor(x)'
  BY <1>b, PathKept
<1> QED
  BY <1>1, <1>2, <1>3, <1>4, <1>5, <1>6, <1>7, <1>8, <1>10, <1>11, <1>12, <1>13, <1>14 DEF Next

LEMMA CtrlPathHolds == Spec => []CtrlPath
<1>1. Init => CtrlPath
  <2> SUFFICES ASSUME Init, NEW q \in Peers PROVE PathFor(q)
    BY DEF CtrlPath
  <2>1. Other[q] \in Peers
    BY PairAssumption
  <2> QED  BY <2>1 DEF Init, PathFor
<1> QED  BY <1>1, CtrlPathNext, TypeHolds, PTL DEF Spec

\* An endpoint that its peer, which is polite, has told to shut down and that is open: the
\* message is in transit or to be handled, or the endpoint closes with the
\* last of the messages it was told of, each of which it is still to read unless it was refused
\* or lost, or its receive had timed out.
ToldWillClose ==
    Polite => \A q \in Peers \ Counters :
        LET p       == Other[q]
            toRead  == net[p] + unexp[q] + okR[q]
            missing == rejected[p] + lost[p] + stolen[q]
        IN
        shutting[p] /\ ~Closed(q) /\ ctrl[p] # "lost" =>
            \/ ctrl[p] = "transit"
            \/ ctrlRecv[q] = "matched"
            \/ /\ finished[q] < closeAfter[q]
               /\ closeAfter[q] - finished[q] = toRead + missing

\* So from close() to the closing of the peer there is always a next step: no message is
\* waited for that was never sent (Endpoint.close, CtrlMsg, close_after_n_recv, recv).
THEOREM ToldWillCloseHolds == Spec => []ToldWillClose
<1>1. ASSUME TypeOK, Conservation, CtrlSent, LimitTruthful, CtrlNeverRefused, LimitCloses, CtrlPath
      PROVE  ToldWillClose
  <2> SUFFICES ASSUME Polite, NEW q \in Peers \ Counters,
                      shutting[Other[q]], ~Closed(q), ctrl[Other[q]] # "lost",
                      ctrl[Other[q]] # "transit", ctrlRecv[q] # "matched"
               PROVE  /\ finished[q] < closeAfter[q]
                      /\ closeAfter[q] - finished[q] =
                             net[Other[q]] + unexp[q] + okR[q]
                             + (rejected[Other[q]] + lost[Other[q]] + stolen[q])
    BY DEF ToldWillClose
  <2>1. Other[q] \in Peers /\ Other[Other[q]] = q
    BY PairAssumption
  <2>2. ctrlRecv[q] = "handled"
    <3>1. /\ ctrl[Other[q]] \in {"none", "transit", "lost", "arrived"}
          /\ ctrlRecv[q] \in {"posted", "matched", "canceled", "handled"}
      BY <1>1, <2>1 DEF TypeOK
    <3> QED  BY <1>1, <3>1 DEF CtrlPath, PathFor
  <2>3. closeAfter[q] # None
    BY <1>1, <2>2 DEF CtrlPath, PathFor, CtrlNeverRefused
  <2>4. closeAfter[q] = sendCount[Other[q]]
    BY <1>1, <2>1, <2>3 DEF LimitTruthful, CtrlSent
  <2>5. finished[q] < closeAfter[q]
    BY <1>1, <2>3 DEF LimitCloses, Closed
  <2>6. sendCount[Other[q]] = rejected[Other[q]] + lost[Other[q]] + net[Other[q]] + unexp[q]
                              + okR[q] + stolen[q] + finished[q]
    BY <1>1, <2>1 DEF Conservation, ConservedFor
  <2>7. /\ rejected[Other[q]] \in Nat /\ lost[Other[q]] \in Nat /\ net[Other[q]] \in Nat
        /\ unexp[q] \in Nat /\ okR[q] \in Nat /\ stolen[q] \in Nat /\ finished[q] \in Nat
    BY <1>1, <2>1 DEF TypeOK
  <2> QED  BY <2>4, <2>5, <2>6, <2>7
<1> QED  BY <1>1, CtrlPathHolds, LimitClosesHolds, CtrlNeverRefusedHolds, LimitTruthfulHolds,
            CtrlSentHolds, ConservationHolds, TypeHolds, PTL

\* A receive that waits on an endpoint that is not open is to be cancelled: by the arm task, or,
\* when it has outlasted that or the finalizer, by UCX.
RecvWillCancel ==
    \A q \in Peers : posted[q] > 0 /\ Closed(q) =>
        life[q] = "gone" \/ sched[q] \in {"scheduled", "done"}

\* No receive is forgotten by the error callback (_err_cb, cancel_inflight_messages).
THEOREM RecvWillCancelHolds == Spec => []RecvWillCancel
<1>1. TypeOK /\ CtrlPath => RecvWillCancel
  BY DEF TypeOK, CtrlPath, PathFor, RecvWillCancel, Closed
<1> QED  BY <1>1, CtrlPathHolds, TypeHolds, PTL
=============================================================================
