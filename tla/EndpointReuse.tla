---------------------------- MODULE EndpointReuse ----------------------------
(***************************************************************************)
(* Virtual connections that share endpoints (ucp/endpoint_reuse.py), over  *)
(* connections set up as in PeerExchange.                                  *)
(*                                                                         *)
(* A client sends, over a new endpoint, the tags of the endpoints it has;  *)
(* the server answers with one it has the other end of, or None.  Both go  *)
(* on with that pair, or register the new one.  Endpoints are counted:     *)
(* one per virtual connection, and one per client that has offered it and  *)
(* has not had its answer.  Registered endpoints are never removed.        *)
(*                                                                         *)
(* An EPHandle is named by the end it holds, and so is the EndpointReuse   *)
(* object that the coroutine of that end returns or hands to its callback. *)
(* A send_obj() or recv_obj(), two messages in the code, is one here.      *)
(***************************************************************************)
EXTENDS PeerExchange, FiniteSetsExt, SequencesExt

CONSTANTS
    Closers,    \* ends whose virtual connection the user may close()
    Aborters    \* ... or abort(); the others are used for ever

VARIABLES
    net,        \* objects an end has sent that were not received
    existing,   \* existing_endpoints of each process, oldest first
    refcount,   \* of the EPHandle of each end
    myIds,      \* my_ep_ids: what a client has offered, and counted itself on
    rest,       \* what it has not come to yet of its copy of existing_endpoints
    reply,      \* reuse_ep_id: the server's answer
    target,     \* the endpoint whose close() a coroutine awaits
    handle      \* reuse_ep, existing_ep, and then EndpointReuse.handle

exchangeVars == <<ep, sendTag, stream, broken, pc>>
reuseVars    == <<net, existing, refcount, myIds, rest, reply, target, handle>>
vars == <<exchangeVars, reuseVars>>

Init ==
    /\ ExchangeInit
    /\ net = [e \in Ends |-> <<>>]
    /\ existing = [p \in Procs |-> SetToSeq({e \in Ends : e[1] \in Established /\ Proc(e) = p})]
    /\ refcount = [e \in Ends |-> IF e[1] \in Established THEN 1 ELSE 0]
    /\ myIds = [e \in Ends |-> <<>>] /\ rest = [e \in Ends |-> <<>>]
    /\ reply = [e \in Ends |-> None] /\ target = [e \in Ends |-> None]
    /\ handle = [e \in Ends |-> IF e[1] \in Established THEN e ELSE None]

-----------------------------------------------------------------------------
(* Registered endpoints                                                     *)

Goto(e, where) == pc' = [pc EXCEPT ![e] = where]

\* existing_endpoints.get(tag): entries are filed under the tag their end sends to.
Lookup(p, tag) ==
    IF \E h \in ToSet(existing[p]) : sendTag[h] = tag
    THEN CHOOSE h \in ToSet(existing[p]) : sendTag[h] = tag
    ELSE None

\* A new endpoint becomes the endpoint of its own connection.
Register(e, count) ==
    /\ existing' = [existing EXCEPT ![Proc(e)] = Append(@, e)]
    /\ refcount' = [count EXCEPT ![e] = 1]
    /\ handle' = [handle EXCEPT ![e] = e]
    /\ target' = [target EXCEPT ![e] = None]
    /\ Goto(e, "using")

-----------------------------------------------------------------------------
(* EndpointReuse.create_endpoint()                                          *)

\* Fault: the endpoints that are offered are not counted.
HoldNothing(p) == refcount

\* One more for every endpoint that is not closed.
HoldOpen(p) ==
    [h \in Ends |-> IF h \in ToSet(existing[p]) /\ ~Closed(h) THEN refcount[h] + 1 ELSE refcount[h]]

\* Those of a list that are not closed, in its order.
OpenIn(list) ==
    LET open[i \in 0..Len(list)] ==
            IF i = 0 THEN <<>>
            ELSE IF Closed(list[i]) THEN open[i - 1] ELSE Append(open[i - 1], list[i])
    IN open[Len(list)]

\* core.create_endpoint() has returned: offer what is there.
SendIds(c) ==
    LET e == Client(c)
        p == Proc(e)
        open == OpenIn(existing[p])
    IN
    /\ ClientConnected(c)
    /\ refcount' = HoldOpen(p)
    /\ myIds' = [myIds EXCEPT ![e] = open]
    /\ rest' = [rest EXCEPT ![e] = existing[p]]
    /\ net' = [net EXCEPT ![e] = Append(@, open)]
    /\ Goto(e, "recvReply")
    /\ UNCHANGED <<existing, reply, target, handle>>

\* The answer is used: the pair it names, or the new endpoint.
Adopt(e, tag, count) ==
    LET h == Lookup(Proc(e), tag) IN
    IF tag # None
    THEN /\ refcount' = [x \in Ends |-> IF x = h THEN count[x] + 1 ELSE count[x]]
         /\ handle' = [handle EXCEPT ![e] = h]
         /\ CloseBegins(e)
         /\ target' = [target EXCEPT ![e] = e]
         /\ Goto(e, IF h = None THEN "KeyError" ELSE "closeNew")
         /\ UNCHANGED existing
    ELSE Register(e, count) /\ UNCHANGED ep

\* The loop that drops the counts, up to the first endpoint nobody else counts
\* on, whose close() is awaited, or else to its end and what follows it.
DropHolds(e, list, tag) ==
    LET open(i) == ~Closed(list[i])
        last == {i \in DOMAIN list : open(i) /\ refcount[list[i]] = 1}
        n == IF last = {} THEN Len(list) ELSE Min(last)
        dropped == {list[i] : i \in {j \in 1..n : open(j)}}
        count == [h \in Ends |-> IF h \in dropped THEN refcount[h] - 1 ELSE refcount[h]]
    IN
    /\ rest' = [rest EXCEPT ![e] = SubSeq(list, n + 1, Len(list))]
    /\ myIds' = [myIds EXCEPT ![e] = IF last = {} THEN <<>> ELSE @]
    /\ reply' = [reply EXCEPT ![e] = IF last = {} THEN None ELSE tag]
    /\ IF last # {}
       THEN /\ refcount' = count
            /\ CloseBegins(list[n])
            /\ target' = [target EXCEPT ![e] = list[n]]
            /\ Goto(e, "dropping")
            /\ UNCHANGED <<existing, handle>>
       ELSE Adopt(e, tag, count)

RecvReply(c) ==
    LET e == Client(c)
        tag == Head(net[Peer(e)])
    IN
    /\ pc[e] = "recvReply" /\ net[Peer(e)] # <<>>
    /\ net' = [net EXCEPT ![Peer(e)] = Tail(@)]
    /\ DropHolds(e, rest[e], tag)
    /\ UNCHANGED <<sendTag, stream, broken>>

\* close() of an endpoint nobody else counted on has returned.
GoOnDropping(c) ==
    LET e == Client(c) IN
    /\ pc[e] = "dropping" /\ Closed(target[e])
    /\ DropHolds(e, rest[e], reply[e])
    /\ UNCHANGED <<sendTag, stream, broken, net>>

-----------------------------------------------------------------------------
(* The handler of EndpointReuse.create_listener()                           *)

\* Its core.Endpoint has been made: receive what the client offers.
RecvIdsCall(c) ==
    /\ ServerConnected(c)
    /\ Goto(Server(c), "recvIds")
    /\ UNCHANGED reuseVars

\* Fault: the handler answers with the tag it looked up.
AnswerAsAsked(h) == sendTag[h]

\* existing_ep.ep._tags["msg_recv"]
Answer(h) == h

\* The first endpoint offered that is here and open, or else whatever the last
\* one offered gave: None, or an endpoint that is closed.
Matching(p, ids) ==
    LET found(i) == Lookup(p, ids[i])
        good == {i \in DOMAIN ids : found(i) # None /\ ~Closed(found(i))}
    IN IF good # {} THEN found(Min(good))
       ELSE IF ids # <<>> THEN found(Len(ids)) ELSE None

RecvIds(c) ==
    LET e == Server(c)
        h == Matching(Proc(e), Head(net[Peer(e)]))
    IN
    /\ pc[e] = "recvIds" /\ net[Peer(e)] # <<>>
    /\ handle' = [handle EXCEPT ![e] = h]
    /\ refcount' = [x \in Ends |-> IF x = h THEN refcount[x] + 1 ELSE refcount[x]]
    /\ net' = [net EXCEPT ![Peer(e)] = Tail(@),
                          ![e] = Append(@, IF h = None THEN None ELSE Answer(h))]
    /\ Goto(e, "sendReply")
    /\ UNCHANGED <<ep, sendTag, stream, broken, existing, myIds, rest, reply, target>>

\* The answer is sent: close the new endpoint, or register it and call back.
ReplySent(c) ==
    LET e == Server(c) IN
    /\ pc[e] = "sendReply"
    /\ \/ /\ handle[e] # None
          /\ CloseBegins(e)
          /\ target' = [target EXCEPT ![e] = e]
          /\ Goto(e, "closeNew")
          /\ UNCHANGED <<existing, refcount, handle>>
       \/ /\ handle[e] = None
          /\ Register(e, refcount)
          /\ UNCHANGED ep
    /\ UNCHANGED <<sendTag, stream, broken, net, myIds, rest, reply>>

-----------------------------------------------------------------------------
(* Either side                                                              *)

\* The new endpoint is closed: there is a virtual connection to use.
NewClosed(e) ==
    /\ pc[e] = "closeNew" /\ Closed(target[e])
    /\ Goto(e, "using")
    /\ target' = [target EXCEPT ![e] = None]
    /\ UNCHANGED <<ep, sendTag, stream, broken, net, existing, refcount, myIds, rest, reply, handle>>

\* A call on the new endpoint was cancelled, or a close() was cut short by the
\* peer's: the coroutine raises, no count is dropped, the new endpoint is released.
Raises(e) ==
    /\ \/ pc[e] \in {"recvReply", "recvIds", "sendReply"} /\ Closed(e)
       \/ /\ pc[e] \in {"dropping", "closeNew"} /\ Closed(target[e])
          /\ target[e][1] \in broken \/ Closed(Peer(target[e]))
    /\ Goto(e, "raised")
    /\ ep' = [ep EXCEPT ![e] = "closed"]
    /\ target' = [target EXCEPT ![e] = None]
    /\ UNCHANGED <<sendTag, stream, broken, net, existing, refcount, myIds, rest, reply, handle>>

\* One user less; with the last, the endpoint is closed in the way given.
LastOut(e) == refcount[handle[e]] = 1
CountDown(e) == refcount' = [refcount EXCEPT ![handle[e]] = @ - 1]

\* EndpointReuse.close()
UserClose(e) ==
    /\ e \in Closers
    /\ pc[e] = "using"
    /\ \/ /\ Closed(handle[e])
          /\ Goto(e, "left")
          /\ UNCHANGED <<ep, refcount, target>>
       \/ /\ ~Closed(handle[e]) /\ ~LastOut(e)
          /\ CountDown(e)
          /\ Goto(e, "left")
          /\ UNCHANGED <<ep, target>>
       \/ /\ ~Closed(handle[e]) /\ LastOut(e)
          /\ CountDown(e)
          /\ CloseBegins(handle[e])
          /\ target' = [target EXCEPT ![e] = handle[e]]
          /\ Goto(e, "closing")
    /\ UNCHANGED <<sendTag, stream, broken, net, existing, myIds, rest, reply, handle>>

UserCloseReturns(e) ==
    /\ pc[e] = "closing" /\ Closed(target[e])
    /\ Goto(e, "left")
    /\ target' = [target EXCEPT ![e] = None]
    /\ UNCHANGED <<ep, sendTag, stream, broken, net, existing, refcount, myIds, rest, reply, handle>>

\* EndpointReuse.abort()
UserAbort(e) ==
    /\ e \in Aborters
    /\ pc[e] = "using" /\ ~Closed(handle[e])
    /\ CountDown(e)
    /\ ep' = IF LastOut(e) THEN [ep EXCEPT ![handle[e]] = "closed"] ELSE ep
    /\ Goto(e, "left")
    /\ UNCHANGED <<sendTag, stream, broken, net, existing, myIds, rest, reply, target, handle>>

\* What is in transit to an end is read before the peer's close is complete.
PeerClosesReuse(e) == PeerCloses(e) /\ net[Peer(e)] = <<>> /\ UNCHANGED reuseVars

-----------------------------------------------------------------------------

ClientStep(c) ==
    \/ ClientInfoReceived(c) /\ UNCHANGED reuseVars
    \/ SendIds(c) \/ RecvReply(c) \/ GoOnDropping(c)

ServerStep(c) ==
    \/ ListenerHandler(c) /\ UNCHANGED reuseVars
    \/ RecvIdsCall(c) \/ RecvIds(c) \/ ReplySent(c)

EndStep(e) ==
    \/ NewClosed(e) \/ UserCloseReturns(e) \/ Raises(e)
    \/ ExchangeRaises(e) /\ UNCHANGED reuseVars

UcxStep(e) ==
    \/ CloseAborts(e) /\ UNCHANGED reuseVars
    \/ ErrorCallback(e) /\ UNCHANGED reuseVars

\* What happens without the user: coroutines and callbacks run, messages
\* arrive, close() returns, UCX reports a broken connection.
Progress ==
    \/ \E c \in Conns : ClientStep(c) \/ ServerStep(c)
    \/ \E e \in Ends : EndStep(e) \/ UcxStep(e)

Next ==
    \/ Progress
    \/ \E c \in Conns : (CreateEndpoint(c) \/ Break(c)) /\ UNCHANGED reuseVars
    \/ \E e \in Ends : PeerClosesReuse(e) \/ UserClose(e) \/ UserAbort(e)

Spec == Init /\ [][Next]_vars

\* The event loops run and UCX makes progress (ProgressTasks), and close()
\* returns (EndpointPair).  Users need do nothing.
FairSpec == Spec /\ WF_vars(Progress)

-----------------------------------------------------------------------------

\* The two sides of a virtual connection go on with the two ends of one
\* connection, whatever other connections are being made, closed or broken
\* meanwhile, and the client knows the endpoint the server names.
SamePair ==
    /\ \A c \in Conns :
         LET h == handle[Client(c)]
             g == handle[Server(c)]
         IN h # None /\ g # None => g = Peer(h)
    /\ \A e \in Ends : pc[e] # "KeyError"

\* A coroutine or a virtual connection that counts on an endpoint.  One that
\* raised counts for ever: nothing drops its counts.
CountsOn(e, h) ==
    \/ /\ pc[e] \in {"recvReply", "dropping", "raised"}
       /\ h \in ToSet(myIds[e]) \cap ToSet(rest[e])
    \/ /\ pc[e] \in {"sendReply", "closeNew", "using", "raised"}
       /\ h = handle[e]

\* The reference count of an endpoint that is not closed is the number of those
\* that count on it, so that it is not closed under anyone and, but for
\* coroutines that raised, is closed with the last; users close once.
CountExact ==
    \A h \in Ends :
        h \in ToSet(existing[Proc(h)]) /\ ~Closed(h) =>
            refcount[h] = Cardinality({e \in Ends : CountsOn(e, h)})

\* Every connection that is begun comes to an end, on both sides, in a virtual
\* connection or an exception, though both sides wait for each other in turn.
ConnectionsEnd == <>[](\A e \in Ends : pc[e] = "idle" \/ Ended(e))
=============================================================================
