----------------------------- MODULE UcxRequest -----------------------------
(***************************************************************************)
(* The life of a UCX request under the Python bindings                     *)
(* (ucp/_libs/ucx_request.pyx, transfer_*.pyx, ucx_endpoint.pyx,           *)
(* ucx_worker.pyx and ucp/comm.py).                                        *)
(*                                                                         *)
(* UCX owns the request handles and hands a released handle out again, so  *)
(* Python wrappers (UCXRequest objects) that outlive their request must be *)
(* told apart from the wrapper of the request now using the same memory:   *)
(* that is what the uid stored in the handle is for.  Wrappers sit in the  *)
(* in-flight set of an endpoint or of the worker, and, after an endpoint   *)
(* error, in the set the worker will cancel later.                         *)
(*                                                                         *)
(* Every action runs with the GIL held and without an await, hence whole.  *)
(* UCX itself is external: which status a request completes with, and      *)
(* when, is a nondeterministic choice over what UCX may do.                *)
(***************************************************************************)
EXTENDS Integers, FiniteSets

CONSTANTS
    Ops,            \* communication calls, each made at most once
    Handles,        \* UCX request memory (ucx_py_request), reused
    Endpoints,
    Worker,
    Owner,          \* whose in-flight set a call registers its request in
    Kind,           \* which nonblocking function the call uses
    ErrorHandling,  \* endpoints created with endpoint_error_handling
    Blocking,       \* blocking progress mode: the arm task cancels messages
    MaxUid,         \* bound: requests ever wrapped (2^32 - 1 in the code)
    NoOp            \* info == NULL

Owners   == Endpoints \cup {Worker}
Sends    == {"tag_send", "stream_send", "flush"}
Recvs    == {"tag_recv", "stream_recv"}
Kinds    == Sends \cup Recvs
Statuses == {"OK", "SHORT", "CANCELED", "NOT_CONNECTED", "ERROR"}
Futures  == {"idle", "pending", "abandoned", "raised", "ok", "UCXCanceled",
             "UCXError", "UCXNotConnected", "UCXMsgTruncated"}

ASSUME RequestAssumption ==
    /\ Worker \notin Endpoints
    /\ NoOp \notin Ops
    /\ Owner \in [Ops -> Owners]
    /\ Kind \in [Ops -> Kinds]
    /\ ErrorHandling \subseteq Endpoints
    /\ Blocking \in BOOLEAN
    /\ MaxUid \in Nat

VARIABLES
    uid,        \* handle -> uid stored in the request memory, 0 when released
    info,       \* handle -> the call whose info dict the handle points to
    counter,    \* _ucx_py_request_counter
    inflight,   \* owner -> its _inflight_msgs, a set of wrappers
    toCancel,   \* worker._inflight_msgs_to_cancel["tag"]
    due,        \* handles UCX must complete: cancelled, or purged by an error
    state,      \* owner -> "open", "error" (status != UCS_OK) or "closed"
    future,     \* call -> state of its asyncio.Future ("raised": none was made)
    verdict     \* call -> status UCX completed it with (history variable)

vars == <<uid, info, counter, inflight, toCancel, due, state, future, verdict>>

Wrappers == [h : Handles, uid : 0..MaxUid]

Init ==
    /\ uid = [h \in Handles |-> 0]
    /\ info = [h \in Handles |-> NoOp]
    /\ counter = 0
    /\ inflight = [e \in Owners |-> {}]
    /\ toCancel = {}
    /\ due = {}
    /\ state = [e \in Owners |-> "open"]
    /\ future = [o \in Ops |-> "idle"]
    /\ verdict = [o \in Ops |-> "none"]

-----------------------------------------------------------------------------
(* Requests and wrappers                                                   *)

\* Fault: closed() looks at the handle alone, not at the uid.
LiveByHandle(w) == info[w.h] # NoOp

\* UCXRequest.closed() negated: the handle still belongs to this wrapper.
Live(w) == w.uid = uid[w.h]

Free == {h \in Handles : info[h] = NoOp}

\* Fault: the status is handed on unconverted.
SendCallbackRaw(s) == s

\* The exception, or "ok", that a completion callback gives the future.
SendCallback(s) ==
    CASE s = "OK"       -> "ok"
      [] s = "CANCELED" -> "UCXCanceled"
      [] OTHER          -> "UCXError"

\* Fault: the received length is not compared.
TagRecvAnyLength(s) ==
    CASE s \in {"OK", "SHORT"} -> "ok"
      [] s = "CANCELED"        -> "UCXCanceled"
      [] OTHER                 -> "UCXError"

TagRecvCallback(s) ==
    CASE s = "OK"       -> "ok"
      [] s = "CANCELED" -> "UCXCanceled"
      [] s = "SHORT"    -> "UCXMsgTruncated"
      [] OTHER          -> "UCXError"

\* Fault: the received length is not compared.
StreamRecvAnyLength(s) ==
    CASE s \in {"OK", "SHORT"} -> "ok"
      [] s = "CANCELED"        -> "UCXCanceled"
      [] s = "NOT_CONNECTED"   -> "UCXNotConnected"
      [] OTHER                 -> "UCXError"

StreamRecvCallback(s) ==
    CASE s = "OK"            -> "ok"
      [] s = "CANCELED"      -> "UCXCanceled"
      [] s = "SHORT"         -> "UCXMsgTruncated"
      [] s = "NOT_CONNECTED" -> "UCXNotConnected"
      [] OTHER               -> "UCXError"

Outcome(o, s) ==
    CASE Kind[o] = "tag_recv"    -> TagRecvCallback(s)
      [] Kind[o] = "stream_recv" -> StreamRecvCallback(s)
      [] OTHER                   -> SendCallback(s)

\* Fault: the future is set without asking whether it is done.
CbFuncAlways(o, result) == result

\* comm._cb_func: a future that is already done is left alone.
CbFunc(o, result) == IF future[o] = "pending" THEN result ELSE future[o]

\* Fault: a finished request stays in the in-flight set.
DiscardNothing(e, S) == inflight[e]

\* inflight_msgs.discard(req): wrappers are equal when their uids are.
Discarded(e, S) ==
    {w \in inflight[e] :
        \A h \in S : Owner[info[h]] = e => w.uid # uid[h]}

\* Fault: close() does not reset the uid.
CallbacksKeepUid(S, s) ==
    /\ future' = [o \in Ops |->
         IF \E h \in S : info[h] = o THEN CbFunc(o, Outcome(o, s)) ELSE future[o]]
    /\ verdict' = [o \in Ops |->
         IF \E h \in S : info[h] = o THEN s ELSE verdict[o]]
    /\ uid' = uid
    /\ info' = [h \in Handles |-> IF h \in S THEN NoOp ELSE info[h]]

\* The completion callbacks of the requests in S run with status s: discard
\* from the in-flight set, resolve the future, release the handle (close()).
Callbacks(S, s) ==
    /\ future' = [o \in Ops |->
         IF \E h \in S : info[h] = o THEN CbFunc(o, Outcome(o, s)) ELSE future[o]]
    /\ verdict' = [o \in Ops |->
         IF \E h \in S : info[h] = o THEN s ELSE verdict[o]]
    /\ uid' = [h \in Handles |-> IF h \in S THEN 0 ELSE uid[h]]
    /\ info' = [h \in Handles |-> IF h \in S THEN NoOp ELSE info[h]]

-----------------------------------------------------------------------------
(* Making a call                                                           *)

CanIssue(o) ==
    /\ future[o] = "idle"
    /\ state[Owner[o]] # "closed"
    /\ state[Worker] # "closed"

\* UCXEndpoint.raise_on_error()
RaiseOnError(o) == state[Owner[o]] = "error"

\* How each nonblocking function may hand its call to UCX and return: UCS_OK
\* at once, a request that was called back before the function returned, or a
\* request in progress.  The send functions refuse an endpoint with an error;
\* tag_recv_nb never gets UCS_OK; the receive and flush functions check nothing.
TagSendNb(o, way) ==
    Kind[o] = "tag_send" /\ ~RaiseOnError(o) /\ way \in {"immediate", "early", "pending"}
TagRecvNb(o, way) ==
    Kind[o] = "tag_recv" /\ way \in {"early", "pending"}
StreamSendNb(o, way) ==
    Kind[o] = "stream_send" /\ ~RaiseOnError(o) /\ way \in {"immediate", "early", "pending"}
StreamRecvNb(o, way) ==
    Kind[o] = "stream_recv" /\ way \in {"immediate", "early", "pending"}
FlushNb(o, way) ==
    Kind[o] = "flush" /\ way \in {"immediate", "early", "pending"}

Started(o, way) ==
    /\ CanIssue(o)
    /\ \/ TagSendNb(o, way)
       \/ TagRecvNb(o, way)
       \/ StreamSendNb(o, way)
       \/ StreamRecvNb(o, way)
       \/ FlushNb(o, way)

\* The nonblocking function raises: the endpoint has an error, a missing
\* feature, a buffer that is not contiguous or is read-only, or UCX returned
\* an error pointer.  Nothing was registered and no future is returned.
IssueRaise(o) ==
    /\ CanIssue(o)
    /\ future' = [future EXCEPT ![o] = "raised"]
    /\ UNCHANGED <<uid, info, counter, inflight, toCancel, due, state, verdict>>

\* UCS_OK: no request, _call_ucx_api sets the result itself.
IssueImmediate(o) ==
    /\ Started(o, "immediate")
    /\ future' = [future EXCEPT ![o] = "ok"]
    /\ verdict' = [verdict EXCEPT ![o] = "OK"]
    /\ UNCHANGED <<uid, info, counter, inflight, toCancel, due, state>>

\* The callback ran before the nonblocking function returned.  It wrapped the
\* request, found no "cb_func" and left it "finished"; _handle_status then
\* calls cb_func with no exception and releases the handle.  The "received"
\* key it looks up is written by no callback.
IssueEarly(o, s) ==
    /\ Started(o, "early")
    /\ Free # {} /\ counter < MaxUid
    /\ s \in {"OK", "SHORT", "ERROR"}
    /\ s = "SHORT" => Kind[o] \in Recvs
    /\ s = "ERROR" => state[Owner[o]] = "error"
    /\ counter' = counter + 1
    /\ future' = [future EXCEPT ![o] = "ok"]
    /\ verdict' = [verdict EXCEPT ![o] = s]
    /\ UNCHANGED <<uid, info, inflight, toCancel, due, state>>

\* The request is in progress: wrap it, give it a uid, record the callback
\* and register the wrapper with the owner.  Once the endpoint has an error,
\* a receive only gets here for a message that had already begun to arrive
\* (core.Endpoint.recv probes first), which UCX will complete.
IssuePending(o, h) ==
    /\ Started(o, "pending")
    /\ h \in Free /\ counter < MaxUid
    /\ counter' = counter + 1
    /\ uid' = [uid EXCEPT ![h] = counter + 1]
    /\ info' = [info EXCEPT ![h] = o]
    /\ inflight' = [inflight EXCEPT ![Owner[o]] = @ \cup {[h |-> h, uid |-> counter + 1]}]
    /\ due' = IF state[Owner[o]] = "error" THEN due \cup {h} ELSE due
    /\ future' = [future EXCEPT ![o] = "pending"]
    /\ UNCHANGED <<toCancel, state, verdict>>

-----------------------------------------------------------------------------
(* Completion, errors, cancellation                                        *)

\* UCX progress completes a request and runs its callback.  Success and short
\* messages come at any time; a cancellation only after it was asked for, an
\* error only from an endpoint that has one.
Complete(h, s) ==
    /\ h \notin Free /\ state[Worker] = "open"
    /\ s = "SHORT" => Kind[info[h]] \in Recvs
    /\ s = "CANCELED" => h \in due
    /\ s \in {"ERROR", "NOT_CONNECTED"} => state[Owner[info[h]]] # "open"
    /\ Callbacks({h}, s)
    /\ inflight' = [e \in Owners |-> Discarded(e, {h})]
    /\ due' = due \ {h}
    /\ UNCHANGED <<counter, toCancel, state>>

\* The caller stops waiting (asyncio.wait_for, task cancellation): the future
\* is cancelled, the request is not.
Abandon(o) ==
    /\ future[o] = "pending"
    /\ future' = [future EXCEPT ![o] = "abandoned"]
    /\ UNCHANGED <<uid, info, counter, inflight, toCancel, due, state, verdict>>

\* Fault: the in-flight messages are not scheduled for cancellation.
ErrCbNoSchedule(e) ==
    /\ e \in ErrorHandling /\ state[e] = "open" /\ state[Worker] = "open"
    /\ state' = [state EXCEPT ![e] = "error"]
    /\ UNCHANGED <<uid, info, counter, inflight, toCancel, due, future, verdict>>

\* _err_cb: record the status and schedule the endpoint's requests for
\* cancellation.  UCX purges the sends of a failed endpoint by itself.
ErrCb(e) ==
    /\ e \in ErrorHandling /\ state[e] = "open" /\ state[Worker] = "open"
    /\ state' = [state EXCEPT ![e] = "error"]
    /\ toCancel' = toCancel \cup inflight[e]
    /\ due' = due \cup {h \in Handles : /\ info[h] # NoOp
                                        /\ Owner[info[h]] = e
                                        /\ Kind[info[h]] \in Sends}
    /\ UNCHANGED <<uid, info, counter, inflight, future, verdict>>

\* _cancel_inflight_msgs on a set of wrappers: the live ones are cancelled.
\* For those in S UCX calls back at once, the others complete later.
CancelMsgs(ws, S) ==
    LET asked == {w.h : w \in {v \in ws : Live(v)}}
    IN  /\ S \subseteq asked
        /\ Callbacks(S, "CANCELED")
        /\ due' = (due \cup asked) \ S

\* UCXWorker.cancel_inflight_messages(), run by the arm task of the blocking
\* progress mode and by nothing else.
CancelInflight(S) ==
    /\ Blocking /\ state[Worker] = "open"
    /\ toCancel # {}
    /\ CancelMsgs(toCancel, S)
    /\ inflight' = [e \in Owners |-> Discarded(e, S)]
    /\ toCancel' = {}
    /\ UNCHANGED <<counter, state>>

\* Fault: the finalizer forgets the in-flight messages without cancelling them.
EpFinalizeForget(e, S) ==
    /\ S = {} /\ state[e] # "closed" /\ state[Worker] = "open"
    /\ inflight' = [inflight EXCEPT ![e] = {}]
    /\ state' = [state EXCEPT ![e] = "closed"]
    /\ UNCHANGED <<uid, info, counter, toCancel, due, future, verdict>>

\* _ucx_endpoint_finalizer: cancel the endpoint's requests, forget them, close.
EpFinalize(e, S) ==
    /\ state[e] # "closed" /\ state[Worker] = "open"
    /\ CancelMsgs(inflight[e], S)
    /\ inflight' = [inflight EXCEPT ![e] = {}]
    /\ state' = [state EXCEPT ![e] = "closed"]
    /\ UNCHANGED <<counter, toCancel>>

\* _ucx_worker_handle_finalizer: the endpoints, its children, were finalised
\* before it.  Requests that do not complete at once die with the worker.
WorkerFinalize(S) ==
    /\ state[Worker] = "open"
    /\ \A e \in Endpoints : state[e] = "closed"
    /\ CancelMsgs(inflight[Worker], S)
    /\ inflight' = [inflight EXCEPT ![Worker] = Discarded(Worker, S)]
    /\ state' = [state EXCEPT ![Worker] = "closed"]
    /\ UNCHANGED <<counter, toCancel>>

Next ==
    \/ \E o \in Ops : IssueRaise(o)
    \/ \E o \in Ops : IssueImmediate(o)
    \/ \E o \in Ops, s \in Statuses : IssueEarly(o, s)
    \/ \E o \in Ops, h \in Handles : IssuePending(o, h)
    \/ \E h \in Handles, s \in Statuses : Complete(h, s)
    \/ \E o \in Ops : Abandon(o)
    \/ \E e \in Endpoints : ErrCb(e)
    \/ \E S \in SUBSET Handles : CancelInflight(S)
    \/ \E e \in Endpoints, S \in SUBSET Handles : EpFinalize(e, S)
    \/ \E S \in SUBSET Handles : WorkerFinalize(S)

Spec == Init /\ [][Next]_vars

\* The progress task keeps calling UCX (both modes), so a request UCX is
\* bound to complete completes; in blocking mode the arm task comes round.
CompleteDue(h) == h \in due /\ \E s \in Statuses : Complete(h, s)

FairSpec ==
    /\ Spec
    /\ \A h \in Handles : WF_vars(CompleteDue(h))
    /\ WF_vars(\E S \in SUBSET Handles : CancelInflight(S))

-----------------------------------------------------------------------------
(* Properties                                                              *)

\* Every variable has its type.
TypeOK ==
    /\ uid \in [Handles -> 0..MaxUid]
    /\ info \in [Handles -> Ops \cup {NoOp}]
    /\ counter \in 0..MaxUid
    /\ inflight \in [Owners -> SUBSET Wrappers]
    /\ toCancel \subseteq Wrappers
    /\ due \subseteq Handles
    /\ state \in [Owners -> {"open", "error", "closed"}]
    /\ future \in [Ops -> Futures]
    /\ verdict \in [Ops -> Statuses \cup {"none"}]

\* A released handle has uid 0 and an owned one a uid no other handle has ever
\* had, so a wrapper's uid names one request for good (the assertion on
\* `_handle.uid == 0` in UCXRequest.__init__, and the class comment).
RequestIdentity ==
    /\ \A h \in Handles : uid[h] = 0 <=> info[h] = NoOp
    /\ \A g, h \in Handles : g # h /\ uid[g] # 0 => uid[g] # uid[h]
    /\ \A g, h \in Handles : g # h /\ info[g] # NoOp => info[g] # info[h]

\* No wrapper in an in-flight set is stale: each is live and belongs to a call
\* made on that owner (the worker finalizer asserts `not req.closed()`).
InflightLive ==
    \A e \in Owners : \A w \in inflight[e] :
        /\ w.uid # 0 /\ Live(w)
        /\ info[w.h] # NoOp /\ Owner[info[w.h]] = e

\* A caller is never left waiting for a request that no longer exists: while
\* the worker lives, a pending future has its request, and the request is
\* where a close of the owner will find it or is already bound to complete.
NoOrphan ==
    state[Worker] = "open" =>
        \A o \in Ops : future[o] = "pending" =>
            \E h \in Handles :
                /\ info[h] = o
                /\ \/ [h |-> h, uid |-> uid[h]] \in inflight[Owner[o]]
                   \/ h \in due

\* Cancelling the messages of a failed endpoint never cancels a message of a
\* healthy one, though the wrappers scheduled for cancellation may by then
\* point at memory UCX handed to another request.
NoStrayCancel ==
    \A o \in Ops : future[o] = "UCXCanceled" => state[Owner[o]] # "open"

\* A call that returns normally through a completion callback did what it was
\* asked: "ok" is only ever reported for UCS_OK and the full length ...
HonestCallback ==
    [][\A o \in Ops : future[o] = "pending" /\ future'[o] = "ok" => verdict'[o] = "OK"]_vars

\* ... and so is every "ok", also that of a message received before
\* tag_recv_nb returned (tests/test_send_recv.py:135 expects UCXMsgTruncated
\* of a 3-byte message received into a 100-byte buffer).
HonestOk ==
    \A o \in Ops : future[o] = "ok" => verdict[o] = "OK"

\* The calls keep the promise of OperationPromise: a future settles once, and
\* is settled with a failure only after its owner failed or was closed.
Promise == INSTANCE OperationPromise WITH promise <- future, life <- state
PromiseSpec == Promise!Spec

\* Closing an endpoint settles every call still pending on it.
CloseResolves ==
    \A o \in Ops :
        (future[o] = "pending" /\ state[Owner[o]] = "closed")
            ~> (future[o] # "pending" \/ state[Worker] = "closed")

\* An endpoint error settles every call pending on it: "Schedule inflight
\* messages to be canceled after all UCP progress is complete" (_err_cb).
ErrorResolves ==
    \A o \in Ops :
        (future[o] = "pending" /\ state[Owner[o]] = "error")
            ~> (future[o] # "pending" \/ state[Worker] = "closed")
=============================================================================
