---------------------------- MODULE PeerExchange ----------------------------
(***************************************************************************)
(* Setting up a connection (ucp/core.py): create_endpoint() on the client, *)
(* the listener's handler on the server, and exchange_peer_info(), by      *)
(* which each tells the other the tags it will receive on, over a stream   *)
(* of the new UCX endpoint.  The server sends first and the client         *)
(* receives first.  Only then is there a core.Endpoint.                    *)
(*                                                                         *)
(* The actions here are those of the two coroutines up to that point and   *)
(* of the life of an endpoint after it; EndpointReuse goes on from there   *)
(* and has the next-state relation.                                        *)
(*                                                                         *)
(* An end of a connection is also the coroutine that sets it up there.     *)
(* Each action runs from one await to the next; the await of a send is     *)
(* joined with that of the receive that follows it, since nothing happens  *)
(* between them.  UCX's streams, tags and error callbacks are external;    *)
(* endpoint_error_handling is on.                                          *)
(***************************************************************************)
EXTENDS Naturals, Sequences, FiniteSets

CONSTANTS
    Conns,      \* connections, numbered in the order they are attempted
    Procs,      \* processes, with a worker and a listener each
    From, To,   \* the client and the server process of each connection
    Established, \* those that have been set up when the model begins
    Faulty,     \* those that may break
    MaxOpening, \* bound: connections being set up at once
    None

ASSUME ExchangeAssumption ==
    /\ Conns \subseteq Nat /\ IsFiniteSet(Conns) /\ MaxOpening \in Nat
    /\ From \in [Conns -> Procs] /\ To \in [Conns -> Procs]
    /\ Established \subseteq Conns /\ Faulty \subseteq Conns

Ends == Conns \X {"client", "server"}
Client(c) == <<c, "client">>
Server(c) == <<c, "server">>
Peer(e) == <<e[1], IF e[2] = "client" THEN "server" ELSE "client">>
Proc(e) == IF e[2] = "client" THEN From[e[1]] ELSE To[e[1]]

ASSUME NoneAssumption == None \notin Ends

VARIABLES
    ep,         \* "none", "raw" (only a UCXEndpoint), "open", "closing", "closed"
    sendTag,    \* _tags["msg_send"]; an end stands for the tag it receives on
    stream,     \* peer information an end has sent that was not received
    broken,     \* connections that broke
    pc          \* where the coroutine of each end is

\* Where it may be: the exchange, then what EndpointReuse does with the Endpoint.
Exchanging == {"sendInfo", "recvInfo"}
Ended(e) == pc[e] \in {"using", "closing", "left", "raised"}
Closed(e) == ep[e] = "closed"

ExchangeInit ==
    /\ ep = [e \in Ends |-> IF e[1] \in Established THEN "open" ELSE "none"]
    /\ sendTag = [e \in Ends |-> IF e[1] \in Established THEN Peer(e) ELSE None]
    /\ stream = [e \in Ends |-> <<>>]
    /\ broken = {}
    /\ pc = [e \in Ends |-> IF e[1] \in Established THEN "using" ELSE "idle"]

-----------------------------------------------------------------------------
(* exchange_peer_info()                                                     *)

\* Fault: both sides receive first.
InfoFirstNever(e) == stream

\* What the side with listener=True does first, and the other second.
InfoFirst(e) == [stream EXCEPT ![e] = Append(@, e)]

\* The half that receives.  The checksum is over what was sent and fits.
StreamRecv(e) ==
    /\ pc[e] = "recvInfo" /\ ~Closed(e)
    /\ stream[Peer(e)] # <<>>
    /\ sendTag' = [sendTag EXCEPT ![e] = Head(stream[Peer(e)])]

\* The exchange is over: the core.Endpoint is made and its control receive posted.
MakeEndpoint(e) == ep' = [ep EXCEPT ![e] = IF @ = "raw" THEN "open" ELSE @]

\* ApplicationContext.create_endpoint(), up to its first await.
CreateEndpoint(c) ==
    /\ pc[Client(c)] = "idle"
    /\ \A d \in Conns : d < c => pc[Client(d)] # "idle"
    /\ Cardinality({d \in Conns : pc[Client(d)] # "idle" /\ ~Ended(Client(d))}) < MaxOpening
    /\ ep' = [ep EXCEPT ![Client(c)] = "raw"]
    /\ pc' = [pc EXCEPT ![Client(c)] = "recvInfo"]
    /\ UNCHANGED <<sendTag, stream, broken>>

\* UCX calls the listener's callback for a client; it schedules the handler.
Accepted(c) == pc[Client(c)] # "idle" /\ c \notin broken

\* _listener_handler_coroutine() begins.
ListenerHandler(c) ==
    LET e == Server(c) IN
    /\ pc[e] = "idle" /\ Accepted(c)
    /\ ep' = [ep EXCEPT ![e] = "raw"]
    /\ pc' = [pc EXCEPT ![e] = "recvInfo"]
    /\ stream' = InfoFirst(e)
    /\ UNCHANGED <<sendTag, broken>>

\* The client has the server's information and sends its own.
ClientInfoReceived(c) ==
    LET e == Client(c) IN
    /\ StreamRecv(e)
    /\ stream' = [stream EXCEPT ![Peer(e)] = Tail(@), ![e] = Append(@, e)]
    /\ pc' = [pc EXCEPT ![e] = "sendInfo"]
    /\ UNCHANGED <<ep, broken>>

\* Each coroutine's last step; the caller goes on without an await and sets pc.
ServerConnected(c) ==
    LET e == Server(c) IN
    /\ StreamRecv(e)
    /\ stream' = [stream EXCEPT ![Peer(e)] = Tail(@)]
    /\ MakeEndpoint(e)
    /\ UNCHANGED broken

ClientConnected(c) ==
    LET e == Client(c) IN
    /\ pc[e] = "sendInfo" /\ ~Closed(e)
    /\ MakeEndpoint(e)
    /\ UNCHANGED <<sendTag, stream, broken>>

-----------------------------------------------------------------------------
(* The life of an endpoint                                                  *)

\* Endpoint.close(), up to its first await, and to its end.
CloseBegins(e) == ep' = [ep EXCEPT ![e] = IF @ = "open" THEN "closing" ELSE @]

CloseAborts(e) ==
    /\ ep[e] = "closing"
    /\ ep' = [ep EXCEPT ![e] = "closed"]
    /\ UNCHANGED <<sendTag, stream, broken, pc>>

\* The peer's control message, or the error its abort causes, closes the endpoint.
PeerCloses(e) ==
    /\ ep[e] \in {"open", "closing"} /\ ep[Peer(e)] \in {"closing", "closed"}
    /\ ep' = [ep EXCEPT ![e] = "closed"]
    /\ UNCHANGED <<sendTag, stream, broken, pc>>

\* The connection breaks.  What is in transit may be received or not.
Break(c) ==
    /\ c \in Faulty \ broken /\ pc[Client(c)] # "idle"
    /\ broken' = broken \cup {c}
    /\ UNCHANGED <<ep, sendTag, stream, pc>>

\* UCX calls the error callback of an end: its requests are cancelled.
ErrorCallback(e) ==
    /\ e[1] \in broken /\ ep[e] \in {"raw", "open", "closing"}
    /\ ep' = [ep EXCEPT ![e] = "closed"]
    /\ UNCHANGED <<sendTag, stream, broken, pc>>

\* A request awaited during the exchange was cancelled: the coroutine raises.
ExchangeRaises(e) ==
    /\ pc[e] \in Exchanging /\ Closed(e)
    /\ pc' = [pc EXCEPT ![e] = "raised"]
    /\ UNCHANGED <<ep, sendTag, stream, broken>>
=============================================================================
