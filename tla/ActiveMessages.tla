--------------------------- MODULE ActiveMessages ---------------------------
(***************************************************************************)
(* Receiving active messages (ucp/_libs/transfer_am.pyx,                   *)
(* ucx_worker_cb.pyx, ucx_endpoint.pyx and am_recv() of ucp/core.py).      *)
(*                                                                         *)
(* A message that arrives before anybody asked for it is kept in a pool, a *)
(* call that comes before its message waits; both per endpoint, and both   *)
(* under the address of the endpoint's UCX handle, which UCX uses again    *)
(* for a later endpoint.  A rendezvous message is fetched by a request of  *)
(* its own and handed over when that completes.                            *)
(*                                                                         *)
(* Every action holds the GIL and awaits nothing.  Closing an endpoint     *)
(* progresses the worker until the close is flushed, so UCX's callbacks    *)
(* (and nothing else) run in the middle of it.                             *)
(***************************************************************************)
EXTENDS Integers, Sequences, FiniteSets, SequencesExt

CONSTANTS
    Eps,            \* endpoint objects, each created at most once
    Handles,        \* ucp_ep_h addresses, reused
    Calls,          \* am_recv() calls
    CallOn,         \* the endpoint each is made on
    Msgs,           \* messages the peers send
    MsgTo,          \* the endpoint each is sent to
    ErrorHandling,  \* endpoints created with endpoint_error_handling
    Blocking,       \* blocking progress mode: the arm task cancels calls
    NoHandle, NoItem

ASSUME AmAssumption ==
    /\ CallOn \in [Calls -> Eps]
    /\ MsgTo \in [Msgs -> Eps]
    /\ ErrorHandling \subseteq Eps
    /\ Blocking \in BOOLEAN
    /\ NoHandle \notin Handles
    /\ Calls \cap Msgs = {} /\ Calls \cap Eps = {} /\ Msgs \cap Eps = {}

\* What is handed over for a message: its buffer, or an exception.
Items == [msg : Msgs, failed : BOOLEAN]

ASSUME ItemAssumption == NoItem \notin Items

Futures == {"idle", "pending", "abandoned", "refused", "ok", "UCXCanceled", "UCXError"}

VARIABLES
    life,       \* "none", "open", "error", "closing" (in its finalizer), "closed"
    handle,     \* the UCX handle an endpoint got
    keys,       \* keys of worker._am_recv_pool
    pool,       \* its lists, by handle
    wait,       \* worker._am_recv_wait, by handle (no key is an empty list)
    toCancel,   \* worker._inflight_msgs_to_cancel["am"]
    unsent,     \* messages that have not arrived
    rndv,       \* rendezvous messages being fetched
    future,     \* call -> state of its future
    got,        \* call -> what it was given
    log         \* history: calls, hand-overs and errors in their order

amVars == <<keys, pool, wait, future, got, log>>
vars == <<life, handle, keys, pool, wait, toCancel, unsent, rndv, future, got, log>>

Init ==
    /\ life = [e \in Eps |-> "none"]
    /\ handle = [e \in Eps |-> NoHandle]
    /\ keys = {}
    /\ pool = [h \in Handles |-> <<>>]
    /\ wait = [h \in Handles |-> <<>>]
    /\ toCancel = {}
    /\ unsent = Msgs
    /\ rndv = {}
    /\ future = [c \in Calls |-> "idle"]
    /\ got = [c \in Calls |-> NoItem]
    /\ log = <<>>

-----------------------------------------------------------------------------
(* Futures and hand-overs                                                  *)

\* comm._am_cb_func: a future that is already done is left alone.
AmCbFunc(c, result) == IF future[c] = "pending" THEN result ELSE future[c]

\* _push_result hands buffer and exception over separately.
Result(item) == IF item.failed THEN "UCXError" ELSE "ok"

\* What am_recv_nb makes of an object from the pool: `isinstance(type(recv_obj),
\* (Exception, ))` asks whether a class is an exception, which none is.
PooledResult(item) == "ok"

\* Faults: the waiting calls are not looked at; the last of them is served;
\* the pool gets the buffer without saying that it failed.
WaitingIgnored(h) == FALSE
ServedLast(h) == Len(wait[h])
PooledBare(h, item) == Append(pool[h], item.msg)

\* _am_recv_callback's _push_result: the call that has waited longest gets the
\* message, whether or not it is still interested; else the pool does.
IsWaiting(h) == wait[h] # <<>>
Served(h) == 1
Pooled(h, item) == Append(pool[h], item)

Push(h, item) ==
    /\ keys' = keys \cup {h}
    /\ log' = Append(log, item.msg)
    /\ \/ /\ IsWaiting(h)
          /\ LET c == wait[h][Served(h)] IN
             /\ wait' = [wait EXCEPT ![h] = RemoveAt(@, Served(h))]
             /\ future' = [future EXCEPT ![c] = AmCbFunc(c, Result(item))]
             /\ got' = [got EXCEPT ![c] = IF future[c] = "pending" THEN item ELSE @]
          /\ UNCHANGED pool
       \/ /\ ~IsWaiting(h)
          /\ pool' = [pool EXCEPT ![h] = Pooled(h, item)]
          /\ UNCHANGED <<wait, future, got>>

\* _cancel_am_recv_single, on each of a set of handles.
CancelWaiting(hs) ==
    /\ wait' = [h \in Handles |-> IF h \in hs THEN <<>> ELSE wait[h]]
    /\ future' = [c \in Calls |->
         IF \E h \in hs : c \in ToSet(wait[h]) THEN AmCbFunc(c, "UCXCanceled") ELSE future[c]]

\* Only callbacks of UCX run while an endpoint is being closed.
Idle == \A e \in Eps : life[e] # "closing"

-----------------------------------------------------------------------------
(* Endpoints and calls                                                     *)

\* UCXEndpoint.__init__: UCX gives the endpoint memory no live endpoint has.
EpCreate(e, h) ==
    /\ Idle /\ life[e] = "none"
    /\ \A f \in Eps : handle[f] = h => life[f] = "closed"
    /\ life' = [life EXCEPT ![e] = "open"]
    /\ handle' = [handle EXCEPT ![e] = h]
    /\ UNCHANGED <<amVars, toCancel, unsent, rndv>>

\* core.Endpoint.am_recv: an endpoint with an error refuses, unless the pool
\* has a key for its handle (am_probe), which no message in it has to have.
AmRefused(e) == handle[e] \notin keys /\ life[e] = "error"

\* Faults: the object stays in the pool; the whole list goes.
PoolRestKept(h) == pool[h]
PoolRestNone(h) == <<>>

PoolRest(h) == Tail(pool[h])

\* am_recv(): refuse, take the oldest object of the pool, or wait.
AmRecv(c) ==
    LET e == CallOn[c]
        h == handle[e]
    IN
    /\ Idle /\ future[c] = "idle"
    /\ life[e] \in {"open", "error"}
    /\ \/ /\ AmRefused(e)
          /\ future' = [future EXCEPT ![c] = "refused"]
          /\ UNCHANGED <<pool, wait, got, log>>
       \/ /\ ~AmRefused(e) /\ pool[h] # <<>>
          /\ future' = [future EXCEPT ![c] = PooledResult(Head(pool[h]))]
          /\ got' = [got EXCEPT ![c] = Head(pool[h])]
          /\ pool' = [pool EXCEPT ![h] = PoolRest(h)]
          /\ log' = Append(log, c)
          /\ UNCHANGED wait
       \/ /\ ~AmRefused(e) /\ pool[h] = <<>>
          /\ future' = [future EXCEPT ![c] = "pending"]
          /\ wait' = [wait EXCEPT ![h] = Append(@, c)]
          /\ log' = Append(log, c)
          /\ UNCHANGED <<pool, got>>
    /\ UNCHANGED <<life, handle, keys, toCancel, unsent, rndv>>

\* The caller stops waiting (asyncio.wait_for): the wait entry stays.
Abandon(c) ==
    /\ Idle /\ future[c] = "pending"
    /\ future' = [future EXCEPT ![c] = "abandoned"]
    /\ UNCHANGED <<life, handle, keys, pool, wait, toCancel, unsent, rndv, got, log>>

-----------------------------------------------------------------------------
(* Callbacks of UCX                                                        *)

\* _am_recv_callback of an eager message, of a rendezvous message that is
\* there at once or was called back early, and of one that fails: unknown
\* memory type or an error of ucp_am_recv_data_nbx.
Arrive(m, failed) ==
    /\ m \in unsent /\ life[MsgTo[m]] \in {"open", "closing"}
    /\ unsent' = unsent \ {m}
    /\ Push(handle[MsgTo[m]], [msg |-> m, failed |-> failed])
    /\ UNCHANGED <<life, handle, toCancel, rndv>>

\* _am_recv_callback of a rendezvous message that has to be fetched: the
\* request goes into the in-flight set of the worker, not of the endpoint.
ArriveRndv(m) ==
    /\ m \in unsent /\ life[MsgTo[m]] \in {"open", "closing"}
    /\ unsent' = unsent \ {m}
    /\ rndv' = rndv \cup {m}
    /\ keys' = keys \cup {handle[MsgTo[m]]}
    /\ UNCHANGED <<life, handle, pool, wait, toCancel, future, got, log>>

\* _am_recv_completed_callback.  It pushes for the handle of the endpoint the
\* message came for, which may be closed by now, and the handle another's.
RndvCompleted(m, failed) ==
    /\ m \in rndv
    /\ failed => life[MsgTo[m]] # "open"
    /\ rndv' = rndv \ {m}
    /\ Push(handle[MsgTo[m]], [msg |-> m, failed |-> failed])
    /\ UNCHANGED <<life, handle, toCancel, unsent>>

\* Fault: the calls are not scheduled for cancellation.
ErrCbNoSchedule(e) ==
    /\ e \in ErrorHandling /\ life[e] = "open"
    /\ life' = [life EXCEPT ![e] = "error"]
    /\ log' = Append(log, e)
    /\ UNCHANGED <<handle, keys, pool, wait, toCancel, unsent, rndv, future, got>>

\* _err_cb: schedule the endpoint's calls for cancellation, by its handle.
ErrCb(e) ==
    /\ e \in ErrorHandling /\ life[e] = "open"
    /\ life' = [life EXCEPT ![e] = "error"]
    /\ toCancel' = toCancel \cup {handle[e]}
    /\ log' = Append(log, e)
    /\ UNCHANGED <<handle, keys, pool, wait, unsent, rndv, future, got>>

\* cancel_inflight_messages, by the arm task of the blocking mode only.
CancelInflight ==
    /\ Idle /\ Blocking /\ toCancel # {}
    /\ CancelWaiting(toCancel)
    /\ toCancel' = {}
    /\ UNCHANGED <<life, handle, keys, pool, unsent, rndv, got, log>>

\* Faults: the handle stays scheduled; the calls are left waiting.
EpFinalizeScheduled(e) ==
    /\ Idle /\ life[e] \in {"open", "error"}
    /\ life' = [life EXCEPT ![e] = "closing"]
    /\ CancelWaiting({handle[e]})
    /\ UNCHANGED <<handle, keys, pool, toCancel, unsent, rndv, got, log>>

EpFinalizeForget(e) ==
    /\ Idle /\ life[e] \in {"open", "error"}
    /\ life' = [life EXCEPT ![e] = "closing"]
    /\ toCancel' = toCancel \ {handle[e]}
    /\ UNCHANGED <<handle, amVars, unsent, rndv>>

\* _ucx_endpoint_finalizer, up to the close: cancel the waiting calls and take
\* the handle off the schedule, for UCX may give it to another endpoint.
EpFinalize(e) ==
    /\ Idle /\ life[e] \in {"open", "error"}
    /\ life' = [life EXCEPT ![e] = "closing"]
    /\ CancelWaiting({handle[e]})
    /\ toCancel' = toCancel \ {handle[e]}
    /\ UNCHANGED <<handle, keys, pool, unsent, rndv, got, log>>

\* The flush of the close is done and the endpoint gone.
EpClosed(e) ==
    /\ life[e] = "closing"
    /\ life' = [life EXCEPT ![e] = "closed"]
    /\ UNCHANGED <<handle, amVars, toCancel, unsent, rndv>>

Next ==
    \/ \E e \in Eps, h \in Handles : EpCreate(e, h)
    \/ \E c \in Calls : AmRecv(c) \/ Abandon(c)
    \/ \E m \in Msgs, failed \in BOOLEAN : Arrive(m, failed) \/ RndvCompleted(m, failed)
    \/ \E m \in Msgs : ArriveRndv(m)
    \/ \E e \in Eps : ErrCb(e) \/ EpFinalize(e) \/ EpClosed(e)
    \/ CancelInflight

Spec == Init /\ [][Next]_vars

\* The flush of a close ends, and in blocking mode the arm task comes round.
FairSpec ==
    /\ Spec
    /\ \A e \in Eps : WF_vars(EpClosed(e))
    /\ WF_vars(CancelInflight)

-----------------------------------------------------------------------------
(* Properties                                                              *)

\* Every variable has its type.
TypeOK ==
    /\ life \in [Eps -> {"none", "open", "error", "closing", "closed"}]
    /\ handle \in [Eps -> Handles \cup {NoHandle}]
    /\ keys \subseteq Handles
    /\ pool \in [Handles -> Seq(Items)]
    /\ wait \in [Handles -> Seq(Calls)]
    /\ toCancel \subseteq Handles
    /\ unsent \subseteq Msgs /\ rndv \subseteq Msgs
    /\ future \in [Calls -> Futures]
    /\ got \in [Calls -> Items \cup {NoItem}]
    /\ log \in Seq(Calls \cup Msgs \cup Eps)

\* No message is kept for an endpoint while one of its calls is waiting: a
\* pool and a list of waiting calls are never both filled.
NobodyWaitsForPooled == \A h \in Handles : pool[h] = <<>> \/ wait[h] = <<>>

\* A call that waits is where the next message for its endpoint, an error and
\* the finalizer will find it, and its endpoint is not closed.
WaitersFound ==
    \A c \in Calls : future[c] = "pending" =>
        /\ life[CallOn[c]] \in {"open", "error"}
        /\ c \in ToSet(wait[handle[CallOn[c]]])

\* A call is cancelled only after an error of its own endpoint or its closing,
\* though calls are scheduled by a handle that may be another endpoint's by then.
NoStrayAmCancel ==
    \A c \in Calls : future[c] = "UCXCanceled" => life[CallOn[c]] # "open"

\* No message is given to two calls, or to one and kept as well.
GivenOnce ==
    /\ \A c, d \in Calls : c # d /\ got[c] # NoItem /\ got[d] # NoItem =>
           got[c].msg # got[d].msg
    /\ \A c \in Calls, h \in Handles :
           got[c] # NoItem => \A i \in 1..Len(pool[h]) : pool[h][i].msg # got[c].msg

\* A message handed over is lost only to a call whose caller stopped waiting:
\* for each that neither the pool nor a call has, there is such a call.
Before(x, y) == \E i, j \in 1..Len(log) : i < j /\ log[i] = x /\ log[j] = y

Lost == {m \in Msgs \cap ToSet(log) :
           /\ \A c \in Calls : got[c] # NoItem => got[c].msg # m
           /\ \A h \in Handles : \A i \in 1..Len(pool[h]) : pool[h][i].msg # m}

LostOnlyToAbandoned ==
    Cardinality(Lost) <=
        Cardinality({c \in Calls : /\ future[c] = "abandoned"
                                   /\ \A h \in Handles : c \notin ToSet(wait[h])})

\* Calls made on an endpoint are given its messages in the order in which the
\* messages were handed over.
InOrder ==
    \A c, d \in Calls :
        /\ CallOn[c] = CallOn[d] /\ Before(c, d)
        /\ got[c] # NoItem /\ got[d] # NoItem
        => Before(got[c].msg, got[d].msg)

\* A call that was made before its endpoint had an error is settled, because
\* the error callback schedules it for cancellation (_err_cb).
ErrorReleases ==
    \A c \in Calls :
        future[c] = "pending" /\ Before(c, CallOn[c]) ~> future[c] # "pending"
=============================================================================
