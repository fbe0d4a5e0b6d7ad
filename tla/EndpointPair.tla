---------------------------- MODULE EndpointPair ----------------------------
(***************************************************************************)
(* Two connected ucp.core.Endpoint objects and the clean shutdown between  *)
(* them: send(), recv(), close(), abort(), close_after_n_recv() and the    *)
(* control message, over UCX tag messages.                                 *)
(*                                                                         *)
(* A peer that closes tells the other how many messages it has sent, on a  *)
(* tag of its own; the other closes once it has received that many.  The   *)
(* control message may overtake the data, receives may be pending, timed   *)
(* out or cancelled, and both peers may close at once.                     *)
(*                                                                         *)
(* Messages carry nothing the protocol looks at, so each place a message   *)
(* or a call can be in is a counter.  Coroutines run without preemption    *)
(* from one await to the next: every action is one such stretch, or one    *)
(* callback.  Ready callbacks run in any order (asyncio's is FIFO).        *)
(***************************************************************************)
EXTENDS Integers

CONSTANTS
    Peers,          \* the two endpoints
    Other,          \* the endpoint each is connected to
    Calls,          \* calls of close(), each made at most once
    Caller,         \* the endpoint each is made on
    ErrorHandling,  \* endpoints created with endpoint_error_handling
    Blocking,       \* blocking progress mode: the arm task cancels messages
    Faults,         \* the connection may break
    Polite,         \* send() is awaited before close() and not called after
    Rejects,        \* endpoints whose send() may be given an unusable buffer
    Timeouts,       \* endpoints whose recv() may be timed out by the caller
    Aborters,       \* endpoints on which the user may call abort()
    Counters,       \* endpoints on which the user may call close_after_n_recv()
    Watchers,       \* endpoints given a close callback
    MaxSend,        \* bound: calls of send() on an endpoint
    MaxRecv         \* bound: receives posted on an endpoint, timed out or not

None == -1          \* _close_after_n_recv is None; no control message yet

ASSUME PairAssumption ==
    /\ Other \in [Peers -> Peers]
    /\ \A p \in Peers : Other[p] # p /\ Other[Other[p]] = p
    /\ Caller \in [Calls -> Peers]
    /\ {Blocking, Faults, Polite} \subseteq BOOLEAN
    /\ MaxSend \in [Peers -> Nat] /\ MaxRecv \in Nat

VARIABLES
    life,       \* "open", "error" (UCX status # OK), "gone" (_ep is None)
    sendCount,  \* _send_count
    finished,   \* _finished_recv_count
    closeAfter, \* _close_after_n_recv
    shutting,   \* _shutting_down_peer
    pendS,      \* sends whose future is pending
    net,        \* messages an endpoint sent that are in transit
    unexp,      \* messages that arrived at an endpoint before a receive
    posted,     \* receives waiting for a message
    stray,      \* receives still posted whose caller timed out
    okR,        \* receives completed whose coroutine has not resumed
    canR,       \* receives cancelled whose coroutine has not resumed
    ctrl,       \* an endpoint's control message: none, transit, lost, arrived
    ctrlN,      \* the close_after_n_recv in it
    ctrlFut,    \* future of its send: none, pending, ok, UCXError, UCXCanceled
    ctrlRecv,   \* the receive set up for the peer's: posted, matched, canceled, handled
    sched,      \* cancellation of what is in flight: none, scheduled, done
    pc,         \* close() calls: idle, sending, sleeping, done
    res,        \* what a close() call raised, or "ok"
    cb,         \* close callback: unset, set, run
    rejected, lost, stolen, told, counted, ctrlRaised, cbRuns   \* history

dataVars  == <<sendCount, pendS, net, unexp, posted, stray, okR, canR, finished>>
ctrlVars  == <<ctrl, ctrlN, ctrlFut, ctrlRecv>>
closeVars == <<closeAfter, shutting, pc, res>>
histVars  == <<rejected, lost, stolen, told, counted, ctrlRaised>>
vars == <<life, dataVars, ctrlVars, closeVars, sched, cb, histVars, cbRuns>>

Init ==
    /\ life = [p \in Peers |-> "open"]
    /\ sendCount = [p \in Peers |-> 0] /\ pendS = [p \in Peers |-> 0]
    /\ net = [p \in Peers |-> 0]       /\ unexp = [p \in Peers |-> 0]
    /\ posted = [p \in Peers |-> 0]    /\ stray = [p \in Peers |-> 0]
    /\ okR = [p \in Peers |-> 0]       /\ canR = [p \in Peers |-> 0]
    /\ finished = [p \in Peers |-> 0]
    /\ closeAfter = [p \in Peers |-> None]
    /\ shutting = [p \in Peers |-> FALSE]
    /\ ctrl = [p \in Peers |-> "none"] /\ ctrlN = [p \in Peers |-> None]
    /\ ctrlFut = [p \in Peers |-> "none"]
    /\ ctrlRecv = [p \in Peers |-> "posted"]
    /\ sched = [p \in Peers |-> "none"]
    /\ pc = [c \in Calls |-> "idle"]   /\ res = [c \in Calls |-> "none"]
    /\ cb = [p \in Peers |-> "unset"]  /\ cbRuns = [p \in Peers |-> 0]
    /\ rejected = [p \in Peers |-> 0]  /\ lost = [p \in Peers |-> 0]
    /\ stolen = [p \in Peers |-> 0]    /\ told = [p \in Peers |-> 0]
    /\ counted = [p \in Peers |-> FALSE]
    /\ ctrlRaised = [p \in Peers |-> FALSE]

-----------------------------------------------------------------------------
(* Closing the UCX endpoint                                                *)

\* Endpoint.closed()
Closed(p) == life[p] # "open"

\* Fault: the callback stays registered when it is run.
RunCloseCallbackKeep(p) ==
    /\ cb' = cb
    /\ cbRuns' = [cbRuns EXCEPT ![p] = IF cb[p] = "set" THEN @ + 1 ELSE @]

\* UCXEndpointCloseCallback.run(): deregister the callback, then call it.
RunCloseCallback(p) ==
    /\ cb' = [cb EXCEPT ![p] = IF @ = "set" THEN "run" ELSE @]
    /\ cbRuns' = [cbRuns EXCEPT ![p] = IF cb[p] = "set" THEN @ + 1 ELSE @]

\* The receives of p are cancelled.  One matched with a message already being
\* transferred may outlast its cancellation.
CancelRecvs(p) ==
    \E k \in 0..posted[p], j \in 0..stray[p] :
        /\ k + j <= net[Other[p]]
        /\ posted' = [posted EXCEPT ![p] = k]
        /\ stray' = [stray EXCEPT ![p] = j]
        /\ canR' = [canR EXCEPT ![p] = @ + posted[p] - k]

\* The control message of p, if its send is pending, is cancelled, or is
\* completed by the flush that closes the endpoint.
CancelCtrlSend(p) ==
    IF ctrlFut[p] = "pending"
    THEN \/ /\ ctrlFut' = [ctrlFut EXCEPT ![p] = "UCXCanceled"]
            /\ \E c \in {ctrl[p], "lost"} : ctrl' = [ctrl EXCEPT ![p] = c]
         \/ /\ ctrlFut' = [ctrlFut EXCEPT ![p] = "ok"]
            /\ ctrl' = ctrl
    ELSE UNCHANGED <<ctrlFut, ctrl>>

CtrlRecvCanceled(p) ==
    ctrlRecv' = [ctrlRecv EXCEPT ![p] = IF @ = "posted" THEN "canceled" ELSE @]

\* Endpoint.abort() and the endpoint finalizer: cancel what is in flight,
\* flush and close, run the close callback.  Only a pending send may be lost.
\* The receive of the control message is left to the caller of Abort.
Abort(p) ==
    IF life[p] = "gone"
    THEN UNCHANGED <<life, posted, stray, canR, pendS, net, lost, ctrlFut, ctrl, cb, cbRuns>>
    ELSE /\ life' = [life EXCEPT ![p] = "gone"]
         /\ CancelRecvs(p)
         /\ \E l \in 0..pendS[p] :
              /\ l <= net[p]
              /\ net' = [net EXCEPT ![p] = @ - l]
              /\ lost' = [lost EXCEPT ![p] = @ + l]
         /\ pendS' = [pendS EXCEPT ![p] = 0]
         /\ CancelCtrlSend(p)
         /\ RunCloseCallback(p)

NoAbort == UNCHANGED <<life, posted, stray, canR, pendS, net, lost, ctrlFut, ctrl, cb, cbRuns>>

-----------------------------------------------------------------------------
(* Sending and receiving                                                   *)

\* Endpoint.send(): counted, then handed to UCX, which may finish at once.
SendCall(p) ==
    /\ ~Closed(p) /\ sendCount[p] < MaxSend[p]
    /\ Polite => ~shutting[p]
    /\ sendCount' = [sendCount EXCEPT ![p] = @ + 1]
    /\ net' = [net EXCEPT ![p] = @ + 1]
    /\ \E d \in {0, 1} : pendS' = [pendS EXCEPT ![p] = @ + d]
    /\ UNCHANGED <<life, unexp, posted, stray, okR, canR, finished, ctrlVars, closeVars,
                   sched, cb, histVars, cbRuns>>

\* The same with a buffer comm.tag_send refuses (or that UCX refuses): the
\* call raises after it has been counted.
SendRejected(p) ==
    /\ p \in Rejects
    /\ ~Closed(p) /\ sendCount[p] < MaxSend[p]
    /\ Polite => ~shutting[p]
    /\ sendCount' = [sendCount EXCEPT ![p] = @ + 1]
    /\ rejected' = [rejected EXCEPT ![p] = @ + 1]
    /\ UNCHANGED <<life, pendS, net, unexp, posted, stray, okR, canR, finished, ctrlVars,
                   closeVars, sched, cb, lost, stolen, told, counted, ctrlRaised, cbRuns>>

SendDone(p) ==
    /\ pendS[p] > 0
    /\ pendS' = [pendS EXCEPT ![p] = @ - 1]
    /\ UNCHANGED <<life, sendCount, net, unexp, posted, stray, okR, canR, finished, ctrlVars,
                   closeVars, sched, cb, histVars, cbRuns>>

\* Faults: the limit is taken one message early, or one late.
ReachedLimitEarly(q) == closeAfter[q] # None /\ finished[q] + 2 >= closeAfter[q]
ReachedLimitLate(q)  == closeAfter[q] # None /\ finished[q] + 1 > closeAfter[q]

\* The tail of Endpoint.recv(), after its await.
ReachedLimit(q) == closeAfter[q] # None /\ finished[q] + 1 >= closeAfter[q]

RecvFinish(q) ==
    /\ finished' = [finished EXCEPT ![q] = @ + 1]
    /\ IF ReachedLimit(q)
       THEN /\ Abort(q) /\ CtrlRecvCanceled(q)
            /\ counted' = [counted EXCEPT ![q] = @ \/ life[q] # "gone"]
       ELSE NoAbort /\ UNCHANGED <<ctrlRecv, counted>>

\* Endpoint.recv() of a message that is there: the future is done when it is
\* awaited, so the call runs to its end.  An errored endpoint may still do it.
RecvNow(q) ==
    /\ life[q] # "gone" /\ unexp[q] > 0
    /\ unexp' = [unexp EXCEPT ![q] = @ - 1]
    /\ RecvFinish(q)
    /\ UNCHANGED <<sendCount, okR, ctrlN, closeVars, sched, rejected, stolen, told, ctrlRaised>>

\* Endpoint.recv() that has to wait: no message is there and the endpoint is
\* open, or the transfer of the message that is there is only beginning.
RecvWait(q) ==
    /\ ~Closed(q) /\ posted[q] + stray[q] < MaxRecv
    /\ posted' = [posted EXCEPT ![q] = @ + 1]
    /\ IF unexp[q] = 0 THEN UNCHANGED <<unexp, net>>
       ELSE /\ unexp' = [unexp EXCEPT ![q] = @ - 1]
            /\ net' = [net EXCEPT ![Other[q]] = @ + 1]
    /\ UNCHANGED <<life, sendCount, pendS, stray, okR, canR, finished, ctrlVars, closeVars,
                   sched, cb, histVars, cbRuns>>

\* A message of the peer arrives and completes a posted receive, if any.
Deliver(q) ==
    /\ net[Other[q]] > 0
    /\ net' = [net EXCEPT ![Other[q]] = @ - 1]
    /\ \/ /\ posted[q] > 0
          /\ posted' = [posted EXCEPT ![q] = @ - 1]
          /\ okR' = [okR EXCEPT ![q] = @ + 1]
          /\ UNCHANGED <<unexp, stray, stolen>>
       \/ /\ stray[q] > 0
          /\ stray' = [stray EXCEPT ![q] = @ - 1]
          /\ stolen' = [stolen EXCEPT ![q] = @ + 1]
          /\ UNCHANGED <<unexp, posted, okR>>
       \/ /\ posted[q] = 0 /\ stray[q] = 0
          /\ unexp' = [unexp EXCEPT ![q] = @ + 1]
          /\ UNCHANGED <<posted, okR, stray, stolen>>
    /\ UNCHANGED <<life, sendCount, pendS, canR, finished, ctrlVars, closeVars, sched, cb,
                   rejected, lost, told, counted, ctrlRaised, cbRuns>>

\* A receive whose message has arrived resumes.
RecvResume(q) ==
    /\ okR[q] > 0
    /\ okR' = [okR EXCEPT ![q] = @ - 1]
    /\ RecvFinish(q)
    /\ UNCHANGED <<sendCount, unexp, ctrlN, closeVars, sched, rejected, stolen, told, ctrlRaised>>

\* Fault: a cancelled receive is counted as finished.
RecvRaiseCounted(q) ==
    /\ canR[q] > 0
    /\ canR' = [canR EXCEPT ![q] = @ - 1]
    /\ finished' = [finished EXCEPT ![q] = @ + 1]
    /\ UNCHANGED <<life, sendCount, pendS, net, unexp, posted, stray, okR, ctrlVars,
                   closeVars, sched, cb, histVars, cbRuns>>

\* A cancelled receive resumes and raises UCXCanceled to its caller.
RecvRaise(q) ==
    /\ canR[q] > 0
    /\ canR' = [canR EXCEPT ![q] = @ - 1]
    /\ UNCHANGED <<life, sendCount, pendS, net, unexp, posted, stray, okR, finished, ctrlVars,
                   closeVars, sched, cb, histVars, cbRuns>>

\* The caller gives up (asyncio.wait_for).  Before the message came, the
\* receive stays posted; after, the message is consumed and not counted.
Timeout(q) ==
    /\ q \in Timeouts
    /\ \/ /\ posted[q] > 0
          /\ posted' = [posted EXCEPT ![q] = @ - 1]
          /\ stray' = [stray EXCEPT ![q] = @ + 1]
          /\ UNCHANGED <<okR, stolen>>
       \/ /\ okR[q] > 0
          /\ okR' = [okR EXCEPT ![q] = @ - 1]
          /\ stolen' = [stolen EXCEPT ![q] = @ + 1]
          /\ UNCHANGED <<posted, stray>>
    /\ UNCHANGED <<life, sendCount, pendS, net, unexp, canR, finished, ctrlVars, closeVars,
                   sched, cb, rejected, lost, told, counted, ctrlRaised, cbRuns>>

-----------------------------------------------------------------------------
(* Closing                                                                 *)

\* Fault: a limit that is already reached is refused.
CloseAfterRefusedAtLimit(q, n) == closeAfter[q] # None \/ n <= finished[q]

\* Endpoint.close_after_n_recv(n) for an absolute n: raise, close or note n.
CloseAfterRefused(q, n) == closeAfter[q] # None \/ n < finished[q]

CloseAfterNRecv(q, n) ==
    \/ /\ CloseAfterRefused(q, n)
       /\ NoAbort /\ UNCHANGED <<closeAfter, counted>>
    \/ /\ ~CloseAfterRefused(q, n) /\ n = finished[q]
       /\ Abort(q)
       /\ counted' = [counted EXCEPT ![q] = @ \/ life[q] # "gone"]
       /\ UNCHANGED closeAfter
    \/ /\ ~CloseAfterRefused(q, n) /\ n > finished[q]
       /\ closeAfter' = [closeAfter EXCEPT ![q] = n]
       /\ NoAbort /\ UNCHANGED counted

\* The user calls close_after_n_recv(1), counted from now.
UserCloseAfter(q) ==
    /\ q \in Counters /\ life[q] # "gone"
    /\ CloseAfterNRecv(q, finished[q] + 1)
    /\ UNCHANGED <<sendCount, unexp, okR, finished, ctrlN, ctrlRecv, shutting, pc, res, sched,
                   rejected, stolen, told, ctrlRaised>>

\* Fault: the control message counts itself.
SentBeforeCloseAndCtrl(p) == sendCount[p] + 1

\* The close_after_n_recv of the control message.
SentBeforeClose(p) == sendCount[p]

\* Endpoint.close(), up to its first await.
CloseCall(c) ==
    LET p == Caller[c] IN
    /\ pc[c] = "idle"
    /\ Polite => pendS[p] = 0
    /\ \/ /\ Closed(p)                            \* nobody to tell: abort
          /\ Abort(p) /\ CtrlRecvCanceled(p)
          /\ pc' = [pc EXCEPT ![c] = "done"] /\ res' = [res EXCEPT ![c] = "ok"]
          /\ UNCHANGED <<shutting, told, ctrlN>>
       \/ /\ ~Closed(p) /\ shutting[p]             \* told already: only finally
          /\ pc' = [pc EXCEPT ![c] = "sleeping"] /\ res' = [res EXCEPT ![c] = "ok"]
          /\ NoAbort /\ UNCHANGED <<shutting, told, ctrlN, ctrlRecv>>
       \/ /\ ~Closed(p) /\ ~shutting[p]
          /\ shutting' = [shutting EXCEPT ![p] = TRUE]
          /\ told' = [told EXCEPT ![p] = @ + 1]
          /\ ctrlN' = [ctrlN EXCEPT ![p] = SentBeforeClose(p)]
          /\ \/ /\ pc' = [pc EXCEPT ![c] = "sending"]
                /\ ctrlFut' = [ctrlFut EXCEPT ![p] = "pending"]
                /\ ctrl' = [ctrl EXCEPT ![p] = "transit"]
                /\ UNCHANGED res
             \/ /\ pc' = [pc EXCEPT ![c] = "sleeping"]
                /\ res' = [res EXCEPT ![c] = "ok"]
                /\ ctrlFut' = [ctrlFut EXCEPT ![p] = "ok"]
                /\ ctrl' = [ctrl EXCEPT ![p] = "transit"]
             \/ /\ Faults                          \* refused by UCX: a warning
                /\ pc' = [pc EXCEPT ![c] = "sleeping"]
                /\ res' = [res EXCEPT ![c] = "ok"]
                /\ ctrlFut' = [ctrlFut EXCEPT ![p] = "UCXError"]
                /\ ctrl' = [ctrl EXCEPT ![p] = "lost"]
          /\ UNCHANGED <<life, posted, stray, canR, pendS, net, lost, cb, cbRuns, ctrlRecv>>
    /\ UNCHANGED <<sendCount, unexp, okR, finished, closeAfter, sched, rejected, stolen,
                   counted, ctrlRaised>>

\* UCX completes the send of the control message.
CtrlSendDone(p) ==
    /\ ctrlFut[p] = "pending"
    /\ \/ /\ ctrlFut' = [ctrlFut EXCEPT ![p] = "ok"]
          /\ UNCHANGED ctrl
       \/ /\ life[p] = "error"
          /\ ctrlFut' = [ctrlFut EXCEPT ![p] = "UCXError"]
          /\ \E m \in {ctrl[p], "lost"} : ctrl' = [ctrl EXCEPT ![p] = m]
    /\ UNCHANGED <<life, dataVars, ctrlN, ctrlRecv, closeVars, sched, cb, histVars, cbRuns>>

\* Fault: an exception of the control message's send goes straight through.
CtrlSendRaisedAny(p) == ctrlFut[p]

\* close() resumes from sending.  `except UCXError` catches neither
\* UCXCanceled nor the AttributeError of hex(self.uid) in its own warning.
CtrlSendRaised(p) ==
    CASE ctrlFut[p] = "UCXError" /\ life[p] = "gone" -> "AttributeError"
      [] ctrlFut[p] = "UCXCanceled"                  -> "UCXCanceled"
      [] OTHER                                       -> "ok"

\* Fault: only a successful send wakes close() up.
CloseResumeOkOnly(c) ==
    LET p == Caller[c] IN
    /\ pc[c] = "sending" /\ ctrlFut[p] = "ok"
    /\ res' = [res EXCEPT ![c] = CtrlSendRaised(p)]
    /\ pc' = [pc EXCEPT ![c] = IF Closed(p) THEN "done" ELSE "sleeping"]
    /\ UNCHANGED <<life, dataVars, ctrlVars, closeAfter, shutting, sched, cb, histVars, cbRuns>>

CloseResume(c) ==
    LET p == Caller[c] IN
    /\ pc[c] = "sending" /\ ctrlFut[p] # "pending"
    /\ res' = [res EXCEPT ![c] = CtrlSendRaised(p)]
    /\ pc' = [pc EXCEPT ![c] = IF Closed(p) THEN "done" ELSE "sleeping"]
    /\ UNCHANGED <<life, dataVars, ctrlVars, closeAfter, shutting, sched, cb, histVars, cbRuns>>

\* close() resumes from sleep(0), the last chance of outstanding sends.
CloseAbort(c) ==
    /\ pc[c] = "sleeping"
    /\ Abort(Caller[c]) /\ CtrlRecvCanceled(Caller[c])
    /\ pc' = [pc EXCEPT ![c] = "done"]
    /\ UNCHANGED <<sendCount, unexp, okR, finished, ctrlN, closeAfter, shutting, res, sched,
                   rejected, stolen, told, counted, ctrlRaised>>

\* The user calls abort().
AbortCall(p) ==
    /\ p \in Aborters /\ life[p] # "gone"
    /\ Abort(p) /\ CtrlRecvCanceled(p)
    /\ UNCHANGED <<sendCount, unexp, okR, finished, ctrlN, closeVars, sched, rejected, stolen,
                   told, counted, ctrlRaised>>

\* The control message of the peer arrives: into the receive set up for it.
CtrlArrive(q) ==
    /\ ctrl[Other[q]] = "transit"
    /\ ctrl' = [ctrl EXCEPT ![Other[q]] = "arrived"]
    /\ ctrlRecv' = [ctrlRecv EXCEPT ![q] = IF @ = "posted" THEN "matched" ELSE @]
    /\ UNCHANGED <<life, dataVars, ctrlN, ctrlFut, closeVars, sched, cb, histVars, cbRuns>>

\* Fault: the limit is counted from the arrival of the control message.
LimitToldRelative(q) == finished[q] + ctrlN[Other[q]]

\* count_from_ep_creation=True: the n of the message is absolute.
LimitTold(q) == ctrlN[Other[q]]

\* CtrlMsg.handle_ctrl_msg, the done callback of that receive.  A cancelled
\* receive makes it return; so it has no action of its own.
HandleCtrl(q) ==
    /\ ctrlRecv[q] = "matched"
    /\ ctrlRecv' = [ctrlRecv EXCEPT ![q] = "handled"]
    /\ \/ /\ Closed(q)
          /\ Abort(q)
          /\ UNCHANGED <<closeAfter, counted, ctrlRaised>>
       \/ /\ ~Closed(q)
          /\ CloseAfterNRecv(q, LimitTold(q))
          /\ ctrlRaised' = [ctrlRaised EXCEPT ![q] = CloseAfterRefused(q, LimitTold(q))]
    /\ UNCHANGED <<sendCount, unexp, okR, finished, ctrlN, shutting, pc, res, sched, rejected,
                   stolen, told>>

-----------------------------------------------------------------------------
(* Errors and cancellation                                                 *)

\* The connection breaks and what p had in transit goes with it, one by one.
Lose(p) ==
    /\ Faults
    /\ \/ /\ net[p] > 0
          /\ net' = [net EXCEPT ![p] = @ - 1]
          /\ lost' = [lost EXCEPT ![p] = @ + 1]
          /\ UNCHANGED ctrl
       \/ /\ ctrl[p] = "transit"
          /\ ctrl' = [ctrl EXCEPT ![p] = "lost"]
          /\ UNCHANGED <<net, lost>>
    /\ UNCHANGED <<life, sendCount, pendS, unexp, posted, stray, okR, canR, finished, ctrlN,
                   ctrlFut, ctrlRecv, closeVars, sched, cb, rejected, stolen, told, counted,
                   ctrlRaised, cbRuns>>

\* Fault: nothing is scheduled for cancellation.
ErrCbNoSchedule(q) ==
    /\ q \in ErrorHandling /\ life[q] = "open"
    /\ Faults \/ (life[Other[q]] = "gone" /\ net[Other[q]] = 0)
    /\ life' = [life EXCEPT ![q] = "error"]
    /\ RunCloseCallback(q)
    /\ UNCHANGED <<sched, dataVars, ctrlVars, closeVars, histVars>>

\* _err_cb: the peer's endpoint is closed and its data delivered, or the
\* connection broke.  Run the close callback, then schedule what is in flight
\* for cancellation.
ErrCb(q) ==
    /\ q \in ErrorHandling /\ life[q] = "open"
    /\ Faults \/ (life[Other[q]] = "gone" /\ net[Other[q]] = 0)
    /\ life' = [life EXCEPT ![q] = "error"]
    /\ sched' = [sched EXCEPT ![q] = "scheduled"]
    /\ RunCloseCallback(q)
    /\ UNCHANGED <<dataVars, ctrlVars, closeVars, histVars>>

\* cancel_inflight_messages, by the arm task of the blocking mode only.
CancelInflight(q) ==
    /\ Blocking /\ sched[q] = "scheduled"
    /\ sched' = [sched EXCEPT ![q] = "done"]
    /\ IF life[q] = "error"
       THEN CancelRecvs(q) /\ CancelCtrlSend(q) /\ CtrlRecvCanceled(q)
       ELSE UNCHANGED <<posted, stray, canR, ctrlFut, ctrl, ctrlRecv>>
    /\ UNCHANGED <<life, sendCount, pendS, net, unexp, okR, finished, ctrlN, closeVars, cb,
                   histVars, cbRuns>>

\* A receive that outlasted its cancellation is cancelled after all.
CancelLate(q) ==
    /\ posted[q] > 0
    /\ life[q] = "gone" \/ sched[q] = "done"
    /\ posted' = [posted EXCEPT ![q] = @ - 1]
    /\ canR' = [canR EXCEPT ![q] = @ + 1]
    /\ UNCHANGED <<life, sendCount, pendS, net, unexp, stray, okR, finished, ctrlVars,
                   closeVars, sched, cb, histVars, cbRuns>>

\* Endpoint.set_close_callback(), once.
SetCloseCallback(p) ==
    /\ p \in Watchers /\ life[p] # "gone" /\ cb[p] = "unset"
    /\ cb' = [cb EXCEPT ![p] = "set"]
    /\ UNCHANGED <<life, dataVars, ctrlVars, closeVars, sched, histVars, cbRuns>>

Next ==
    \/ \E p \in Peers : \/ SendCall(p) \/ SendRejected(p) \/ SendDone(p)
                       \/ RecvNow(p) \/ RecvWait(p) \/ Deliver(p)
                       \/ RecvResume(p) \/ RecvRaise(p) \/ Timeout(p)
                       \/ UserCloseAfter(p) \/ AbortCall(p) \/ SetCloseCallback(p)
                       \/ CtrlSendDone(p) \/ CtrlArrive(p) \/ HandleCtrl(p)
                       \/ Lose(p) \/ ErrCb(p) \/ CancelInflight(p) \/ CancelLate(p)
    \/ \E c \in Calls : CloseCall(c) \/ CloseResume(c) \/ CloseAbort(c)

Spec == Init /\ [][Next]_vars

\* The event loop and UCX progress run every ready callback and finish every
\* transfer; UCX detects that a peer is gone.  Users of an open endpoint keep
\* reading from it (assumed of the application, not of the code).
Reading(q)    == RecvNow(q) \/ RecvWait(q)
GoneNotice(q) == life[Other[q]] = "gone" /\ net[Other[q]] = 0 /\ ErrCb(q)

FairSpec ==
    /\ Spec
    /\ \A p \in Peers :
         /\ WF_vars(Deliver(p)) /\ WF_vars(SendDone(p)) /\ WF_vars(CtrlSendDone(p))
         /\ WF_vars(CtrlArrive(p)) /\ WF_vars(HandleCtrl(p))
         /\ WF_vars(RecvResume(p)) /\ WF_vars(RecvRaise(p)) /\ WF_vars(Reading(p))
         /\ WF_vars(GoneNotice(p)) /\ WF_vars(CancelInflight(p)) /\ WF_vars(CancelLate(p))
    /\ \A c \in Calls : WF_vars(CloseResume(c)) /\ WF_vars(CloseAbort(c))

-----------------------------------------------------------------------------
(* Properties                                                              *)

\* Every variable has its type.
TypeOK ==
    /\ life \in [Peers -> {"open", "error", "gone"}]
    /\ sendCount \in [Peers -> Nat] /\ pendS \in [Peers -> Nat]
    /\ net \in [Peers -> Nat]       /\ unexp \in [Peers -> Nat]
    /\ posted \in [Peers -> Nat]    /\ stray \in [Peers -> Nat]
    /\ okR \in [Peers -> Nat]       /\ canR \in [Peers -> Nat]
    /\ finished \in [Peers -> Nat]
    /\ closeAfter \in [Peers -> Nat \cup {None}]
    /\ shutting \in [Peers -> BOOLEAN]
    /\ ctrl \in [Peers -> {"none", "transit", "lost", "arrived"}]
    /\ ctrlN \in [Peers -> Nat \cup {None}]
    /\ ctrlFut \in [Peers -> {"none", "pending", "ok", "UCXError", "UCXCanceled"}]
    /\ ctrlRecv \in [Peers -> {"posted", "matched", "canceled", "handled"}]
    /\ sched \in [Peers -> {"none", "scheduled", "done"}]
    /\ pc \in [Calls -> {"idle", "sending", "sleeping", "done"}]
    /\ res \in [Calls -> {"none", "ok", "UCXCanceled", "AttributeError"}]
    /\ cb \in [Peers -> {"unset", "set", "run"}]
    /\ rejected \in [Peers -> Nat] /\ lost \in [Peers -> Nat] /\ stolen \in [Peers -> Nat]
    /\ told \in [Peers -> Nat]     /\ cbRuns \in [Peers -> Nat]
    /\ counted \in [Peers -> BOOLEAN] /\ ctrlRaised \in [Peers -> BOOLEAN]

\* The account of one endpoint's messages.
ConservedFor(p) ==
    sendCount[p] = rejected[p] + lost[p] + net[p] + unexp[Other[p]]
                   + okR[Other[p]] + stolen[Other[p]] + finished[Other[p]]

\* Every counted send is in exactly one place: refused, lost, in transit,
\* unread at the peer, or in one of its receives, and a receive is counted as
\* finished for one message of the peer only (send(), recv(), time-outs).
Conservation == \A p \in Peers : ConservedFor(p)

\* A peer told to shut down closes no earlier than it was told, and when the
\* sender is polite it has then read every message that was sent to it.
NothingUnread ==
    \A q \in Peers : counted[q] /\ q \notin Counters =>
        /\ ctrlN[Other[q]] # None /\ finished[q] >= ctrlN[Other[q]]
        /\ Polite => net[Other[q]] + unexp[q] + okR[q] = 0

\* An endpoint tells its peer to shut down at most once (`_shutting_down_peer`),
\* and a polite one tells it the number of all its sends.
CtrlTruthful ==
    \A p \in Peers :
        /\ told[p] <= 1
        /\ Polite /\ ctrlN[p] # None => ctrlN[p] = sendCount[p]

\* The request to shut down is never refused (close_after_n_recv raising in
\* the callback, where nobody hears it) when the sender is polite.
CtrlNeverRefused ==
    \A q \in Peers : Polite /\ q \notin Counters => ~ctrlRaised[q]

\* An endpoint that has received as many messages as it was to receive before
\* closing is closed: none is left open beyond its limit.
LimitCloses ==
    \A q \in Peers :
        life[q] # "gone" /\ closeAfter[q] # None => finished[q] < closeAfter[q]

\* The close callback runs once: from the error callback or from the
\* finalizer, whichever comes first, and never after the endpoint is gone.
CloseCallbackOnce ==
    \A p \in Peers :
        /\ cbRuns[p] <= 1 /\ (cbRuns[p] = 1 <=> cb[p] = "run")
        /\ life[p] = "gone" => cb[p] # "set"

\* Every close() returns or raises.
CloseReturns == \A c \in Calls : pc[c] # "idle" ~> pc[c] = "done"

\* After a close() the peer, if its application keeps reading, is closed too,
\* also when no endpoint detects errors.
CloseReachesPeer ==
    \A c \in Calls : pc[c] = "done" ~> Closed(Other[Caller[c]])

\* No receive waits for ever on a peer that has closed, or that is gone when
\* this endpoint detects errors: it gets its message or UCXCanceled
\* (tests/test_shutdown.py expects UCXCanceled).
PeerLeft(q) ==
    \/ \E c \in Calls : Caller[c] = Other[q] /\ pc[c] = "done"
    \/ q \in ErrorHandling /\ life[Other[q]] = "gone"

NoRecvHang == \A q \in Peers : PeerLeft(q) ~> posted[q] = 0
=============================================================================
