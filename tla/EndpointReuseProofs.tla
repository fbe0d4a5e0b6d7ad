------------------------- MODULE EndpointReuseProofs -------------------------
(***************************************************************************)
(* Proofs about EndpointReuse, for every set of processes and every finite *)
(* set of connections: that both sides of a virtual connection go on with  *)
(* the two ends of one connection, that endpoints are counted exactly, and *)
(* that the set-up of connections has no deadlock.                         *)
(***************************************************************************)
EXTENDS EndpointReuse, ListLemmas, TLAPS

-----------------------------------------------------------------------------
(* OpenIn(): a list without its closed endpoints.                           *)

\* What the function that OpenIn() is made with does.
Keeps(list, f, n) ==
    /\ f[0] = <<>>
    /\ \A i \in 1..n :
         f[i] = IF Closed(list[i]) THEN f[i - 1] ELSE Append(f[i - 1], list[i])

\* There is such a function on every prefix of a list.
LEMMA KeepsExists ==
    ASSUME NEW list \in Seq(Ends), NEW n \in 0..Len(list)
    PROVE  \E f \in [0..n -> Seq(Ends)] : Keeps(list, f, n)
<1> DEFINE next(i) == [l \in Seq(Ends) |-> IF Closed(list[i]) THEN l ELSE Append(l, list[i])]
           steps == [i \in 1..n |-> next(i)]
<1>1. n \in Nat /\ <<>> \in Seq(Ends) /\ \A i \in 1..n : list[i] \in Ends
  <2>1. Len(list) \in Nat
    BY LenProperties
  <2> QED BY <2>1, ElementOfSeq, EmptySeq
<1>2. ASSUME NEW i \in 1..n PROVE next(i) \in [Seq(Ends) -> Seq(Ends)]
  BY <1>1, AppendProperties
<1>3. steps \in [1..n -> [Seq(Ends) -> Seq(Ends)]] /\ \A i \in 1..n : steps[i] = next(i)
  <2> HIDE DEF next
  <2> QED BY <1>2
<1> HIDE DEF steps
<1>4. PICK f \in [0..n -> Seq(Ends)] : Stepwise(f, <<>>, steps, n)
  BY <1>1, <1>3, Recursion
<1>5. ASSUME NEW i \in 1..n
      PROVE  f[i] = IF Closed(list[i]) THEN f[i - 1] ELSE Append(f[i - 1], list[i])
  <2>1. i - 1 \in 0..n
    BY <1>1
  <2>2. f[i] = next(i)[f[i - 1]] /\ f[i - 1] \in Seq(Ends)
    BY <1>3, <1>4, <2>1 DEF Stepwise
  <2> QED BY <2>2
<1> QED BY <1>4, <1>5 DEF Keeps, Stepwise

\* OpenIn() keeps what is not closed.
LEMMA OpenInKeeps ==
    ASSUME NEW list \in Seq(Ends)
    PROVE  /\ OpenIn(list) \in Seq(Ends)
           /\ ToSet(OpenIn(list)) = {h \in ToSet(list) : ~Closed(h)}
<1> DEFINE n == Len(list)
           step(f, i) == IF i = 0 THEN <<>>
                         ELSE IF Closed(list[i]) THEN f[i - 1] ELSE Append(f[i - 1], list[i])
           Is(f) == f = [i \in 0..n |-> step(f, i)]
           open == CHOOSE f : Is(f)
<1>1. n \in Nat /\ n \in 0..n
  BY LenProperties
<1>2. PICK f \in [0..n -> Seq(Ends)] : Keeps(list, f, n)
  BY <1>1, KeepsExists
<1>3. Is(f)
  <2>1. ASSUME NEW i \in 0..n PROVE f[i] = step(f, i)
    <3>1. i = 0 \/ i \in 1..n
      BY <1>1
    <3> QED BY <1>2, <3>1 DEF Keeps
  <2> HIDE DEF step
  <2> QED BY <1>2, <2>1
<1>4. Is(open)
  <2> HIDE DEF Is
  <2> QED BY <1>3
<1>5. OpenIn(list) = open[n]
  BY DEF OpenIn
<1> HIDE DEF open
<1>6. /\ open[0] = <<>>
      /\ \A i \in 1..n :
           open[i] = IF Closed(list[i]) THEN open[i - 1] ELSE Append(open[i - 1], list[i])
  <2>1. \A i \in 0..n : open[i] = step(open, i)
    <3> HIDE DEF step
    <3> QED BY <1>4
  <2>2. 0 \in 0..n /\ \A i \in 1..n : i \in 0..n /\ i # 0
    BY <1>1
  <2> QED BY <2>1, <2>2
<1> HIDE DEF Is
<1> DEFINE Upto(m) == {h \in {list[i] : i \in 1..m} : ~Closed(h)}
           Right(m) == open[m] \in Seq(Ends) /\ ToSet(open[m]) = Upto(m)
           T == {m \in 0..n : Right(m)}
<1>7. 0 \in T
  <2>1. Upto(0) = {}
    OBVIOUS
  <2>2. Right(0)
    BY <1>6, <2>1, EmptySeq, ToSetEmpty
  <2> QED BY <1>1, <2>2
<1>8. ASSUME NEW m \in 1..n, m - 1 \in T PROVE m \in T
  <2>1. m \in 0..n /\ Right(m - 1)
    BY <1>1, <1>8
  <2>2. list[m] \in Ends
    BY ElementOfSeq
  <2>3. open[m] = IF Closed(list[m]) THEN open[m - 1] ELSE Append(open[m - 1], list[m])
    BY <1>6
  <2>4. Upto(m) = Upto(m - 1) \cup (IF Closed(list[m]) THEN {} ELSE {list[m]})
    <3>1. 1..m = 1..(m - 1) \cup {m}
      BY <1>1
    <3>2. {list[i] : i \in 1..m} = {list[i] : i \in 1..(m - 1)} \cup {list[m]}
      BY <3>1
    <3> QED BY <3>2
  <2> HIDE DEF Upto
  <2>5. open[m] \in Seq(Ends)
    BY <2>1, <2>2, <2>3, AppendProperties
  <2>6. ToSet(open[m]) = Upto(m)
    <3>1. CASE Closed(list[m])
      BY <2>1, <2>3, <2>4, <3>1
    <3>2. CASE ~Closed(list[m])
      BY <2>1, <2>2, <2>3, <2>4, <3>2, ToSetAppend
    <3> QED BY <3>1, <3>2
  <2> QED BY <2>1, <2>5, <2>6
<1>9. Right(n)
  <2> HIDE DEF Right
  <2>1. n \in T
    <3> HIDE DEF T
    <3> QED BY <1>1, <1>7, <1>8, UpTo
  <2> QED BY <2>1
<1>10. ToSet(list) = {list[i] : i \in 1..n}
  BY LenProperties DEF ToSet
<1> QED BY <1>5, <1>9, <1>10

-----------------------------------------------------------------------------
(* The inductive invariant.                                                 *)

Places == {"idle", "recvInfo", "sendInfo", "recvReply", "dropping", "KeyError", "recvIds",
           "sendReply", "closeNew", "using", "closing", "left", "raised"}

\* Where the coroutine of an end has not learnt the peer's tags, and where it
\* has not come to the reuse of endpoints.
Untold == {"idle", "recvInfo", "raised"}
Unused == {"idle", "recvInfo", "sendInfo", "recvIds"}

\* Where the end of a connection has a virtual connection or had one.
Settled == {"using", "closing", "left"}

Types ==
    /\ ep \in [Ends -> {"none", "raw", "open", "closing", "closed"}]
    /\ sendTag \in [Ends -> Ends \cup {None}]
    /\ stream \in [Ends -> Seq(Ends)]
    /\ pc \in [Ends -> Places]
    /\ net \in [Ends -> Seq(Seq(Ends)) \cup Seq(Ends \cup {None})]
    /\ existing \in [Procs -> Seq(Ends)]
    /\ refcount \in [Ends -> Int]
    /\ myIds \in [Ends -> Seq(Ends)] /\ rest \in [Ends -> Seq(Ends)]
    /\ reply \in [Ends -> Ends \cup {None}] /\ handle \in [Ends -> Ends \cup {None}]
    /\ target \in [Ends -> Ends \cup {None}]

\* Each side keeps to its own protocol, and sends what the other one expects.
Sides ==
    \A c \in Conns :
        /\ pc[Client(c)] \notin {"recvIds", "sendReply"}
        /\ pc[Server(c)] \notin {"sendInfo", "recvReply", "dropping"}
        /\ net[Client(c)] \in Seq(Seq(Ends)) /\ net[Server(c)] \in Seq(Ends \cup {None})

\* An end sends its own tag, and what an end has been told is its peer's tag.
Tags ==
    \A e \in Ends :
        /\ \A i \in DOMAIN stream[e] : stream[e][i] = e
        /\ sendTag[e] \in {None, Peer(e)}
        /\ pc[e] \notin Untold => sendTag[e] = Peer(e)

\* What a process has registered are endpoints of its own, made before, one
\* entry for each.
Filed ==
    \A p \in Procs :
        /\ IsInjective(existing[p])
        /\ \A h \in ToSet(existing[p]) :
             Proc(h) = p /\ pc[h] \in Settled /\ sendTag[h] = Peer(h)

\* The server answers once: until then neither side has an endpoint to use.
Unanswered ==
    \A c \in Conns :
        pc[Server(c)] \in {"idle", "recvInfo", "recvIds"} =>
            /\ handle[Server(c)] = None /\ handle[Client(c)] = None
            /\ net[Server(c)] = <<>> /\ pc[Client(c)] # "dropping"

\* A client offers endpoints that it has registered.
Offers ==
    \A c \in Conns : \A i \in DOMAIN net[Client(c)] :
        ToSet(net[Client(c)][i]) \subseteq ToSet(existing[From[c]])

\* An answer, in transit or in the client's hands, is what the server goes on
\* with: the other end of an endpoint the client has, or its new endpoint.
AnswerIs(c, v) ==
    IF v = None THEN handle[Server(c)] \in {None, Server(c)}
    ELSE handle[Server(c)] = v /\ Peer(v) \in ToSet(existing[From[c]])

Told(c) ==
    ToSet(net[Server(c)]) \cup IF pc[Client(c)] = "dropping" THEN {reply[Client(c)]} ELSE {}

Answers == \A c \in Conns : \A v \in Told(c) : AnswerIs(c, v)

\* SamePair, and that a client that goes on first has the new endpoint.
Paired ==
    \A c \in Conns :
        handle[Client(c)] # None =>
            \/ handle[Server(c)] = Peer(handle[Client(c)])
            \/ handle[Server(c)] = None /\ handle[Client(c)] = Client(c)

NoKeyError == \A e \in Ends : pc[e] # "KeyError"

PairInv ==
    Types /\ Sides /\ Tags /\ Filed /\ Unanswered /\ Offers /\ Answers /\ Paired /\ NoKeyError

\* What a client offered and has not come to, it counts itself on; before and
\* after it has none.
Listed ==
    \A e \in Ends :
        /\ pc[e] \in Unused => handle[e] = None
        /\ pc[e] \in {"closeNew", "using"} => handle[e] # None
        /\ pc[e] \in {"recvReply", "dropping"} =>
             handle[e] = None /\ \A h \in ToSet(rest[e]) : Closed(h) \/ h \in ToSet(myIds[e])
        /\ IsInjective(rest[e]) /\ ToSet(rest[e]) \subseteq ToSet(existing[Proc(e)])
        /\ pc[e] \notin {"recvReply", "dropping", "raised"} => myIds[e] = <<>>
        /\ handle[e] # None => handle[e] \in ToSet(existing[Proc(e)]) /\ myIds[e] = <<>>

CountInv == PairInv /\ Listed /\ CountExact

-----------------------------------------------------------------------------
(* Ends of connections.                                                     *)

\* The two ends of a connection are different, and each is the other's peer.
LEMMA EndsOfConns ==
    /\ \A c \in Conns :
         /\ Client(c) \in Ends /\ Server(c) \in Ends
         /\ Peer(Client(c)) = Server(c) /\ Peer(Server(c)) = Client(c)
         /\ Proc(Client(c)) = From[c] /\ Proc(Server(c)) = To[c]
    /\ \A c, d \in Conns :
         /\ Client(c) # Server(d)
         /\ Client(c) = Client(d) \/ Server(c) = Server(d) => c = d
    /\ \A e \in Ends :
         /\ Peer(e) \in Ends /\ Peer(Peer(e)) = e /\ Peer(e) # e /\ Proc(e) \in Procs
         /\ e # None /\ e[1] \in Conns
         /\ \E c \in Conns : e = Client(c) \/ e = Server(c)
<1>1. \A c \in Conns :
        /\ Client(c) \in Ends /\ Server(c) \in Ends
        /\ Peer(Client(c)) = Server(c) /\ Peer(Server(c)) = Client(c)
        /\ Proc(Client(c)) = From[c] /\ Proc(Server(c)) = To[c]
  BY DEF Client, Server, Peer, Proc, Ends
<1>2. \A c, d \in Conns :
        /\ Client(c) # Server(d)
        /\ Client(c) = Client(d) \/ Server(c) = Server(d) => c = d
  BY DEF Client, Server
<1>3. ASSUME NEW e \in Ends
      PROVE  /\ Peer(e) \in Ends /\ Peer(Peer(e)) = e /\ Peer(e) # e /\ Proc(e) \in Procs
             /\ e # None /\ e[1] \in Conns
             /\ \E c \in Conns : e = Client(c) \/ e = Server(c)
  <2>1. PICK c \in Conns, k \in {"client", "server"} : e = <<c, k>>
    BY DEF Ends
  <2>2. e[1] = c /\ (e = Client(c) \/ e = Server(c))
    BY <2>1 DEF Client, Server
  <2>3. From[c] \in Procs /\ To[c] \in Procs
    BY ExchangeAssumption
  <2> QED BY <1>1, <1>2, <2>2, <2>3, NoneAssumption
<1> QED BY <1>1, <1>2, <1>3

\* There are finitely many.
LEMMA EndsFinite == IsFiniteSet(Ends)
<1>1. IsFiniteSet({"client", "server"})
  <2>1. {"client", "server"} = {"client"} \cup {"server"}
    OBVIOUS
  <2>2. IsFiniteSet({"client"})
    BY FS_Singleton
  <2> QED BY <2>1, <2>2, FS_AddElement
<1> QED BY <1>1, ExchangeAssumption, FS_Product DEF Ends

\* What lookup finds is the other end of the endpoint that has the tag.
LEMMA LookupIs ==
    ASSUME Types, Filed, NEW p \in Procs, NEW tag \in Ends
    PROVE  /\ Lookup(p, tag) # None =>
                Lookup(p, tag) \in ToSet(existing[p]) /\ Lookup(p, tag) = Peer(tag)
           /\ Peer(tag) \in ToSet(existing[p]) => Lookup(p, tag) = Peer(tag)
<1>1. \A h \in ToSet(existing[p]) : h \in Ends /\ sendTag[h] = Peer(h)
  <2>1. existing[p] \in Seq(Ends)
    BY DEF Types
  <2> QED BY <2>1, ToSetIn DEF Filed
<1>2. \A h \in ToSet(existing[p]) : sendTag[h] = tag <=> h = Peer(tag)
  BY <1>1, EndsOfConns
<1>3. CASE \E h \in ToSet(existing[p]) : sendTag[h] = tag
  <2>1. PICK h \in ToSet(existing[p]) : h = Lookup(p, tag) /\ sendTag[h] = tag
    BY <1>3 DEF Lookup
  <2> QED BY <1>2, <2>1
<1>4. CASE ~\E h \in ToSet(existing[p]) : sendTag[h] = tag
  BY <1>2, <1>4 DEF Lookup
<1> QED BY <1>3, <1>4

\* A count that does not change, of users that do not change.
LEMMA CountKept ==
    ASSUME Types, CountExact, existing' = existing,
           \A h \in Ends : h \in ToSet(existing[Proc(h)]) /\ ~Closed(h)' =>
               /\ ~Closed(h) /\ refcount'[h] = refcount[h]
               /\ \A e \in Ends : CountsOn(e, h)' <=> CountsOn(e, h)
    PROVE  CountExact'
<1> SUFFICES ASSUME NEW h \in Ends, h \in ToSet(existing[Proc(h)]), ~Closed(h)'
             PROVE  refcount'[h] = Cardinality({e \in Ends : CountsOn(e, h)'})
  BY DEF CountExact
<1>1. {e \in Ends : CountsOn(e, h)'} = {e \in Ends : CountsOn(e, h)}
  OBVIOUS
<1> QED BY <1>1 DEF CountExact

-----------------------------------------------------------------------------
(* The initial states.                                                      *)

\* The established connections are registered, and each end counts on itself.
LEMMA InitInv == Init => CountInv
<1> SUFFICES ASSUME Init PROVE CountInv
  OBVIOUS
<1> DEFINE Mine(p) == {e \in Ends : e[1] \in Established /\ Proc(e) = p}
<1>1. \A p \in Procs : /\ existing[p] \in Seq(Ends) /\ IsInjective(existing[p])
                       /\ ToSet(existing[p]) = Mine(p)
  <2> SUFFICES ASSUME NEW p \in Procs
               PROVE  /\ existing[p] \in Seq(Ends) /\ IsInjective(existing[p])
                      /\ ToSet(existing[p]) = Mine(p)
    OBVIOUS
  <2>1. Mine(p) \subseteq Ends
    OBVIOUS
  <2>2. IsFiniteSet(Mine(p))
    <3> HIDE DEF Mine
    <3> QED BY <2>1, EndsFinite, FS_Subset
  <2>3. existing[p] = SetToSeq(Mine(p))
    BY DEF Init
  <2> HIDE DEF Mine
  <2>4. existing[p] \in Seq(Mine(p)) /\ IsInjective(existing[p]) /\ ToSet(existing[p]) = Mine(p)
    BY <2>2, <2>3, ListOfSet
  <2> QED BY <2>1, <2>4, SeqMonotonic
<1>2. \A e \in Ends : pc[e] = (IF e[1] \in Established THEN "using" ELSE "idle")
  BY DEF Init, ExchangeInit
<1>3. \A e \in Ends : /\ handle[e] = (IF e[1] \in Established THEN e ELSE None)
                      /\ refcount[e] = (IF e[1] \in Established THEN 1 ELSE 0)
                      /\ sendTag[e] = (IF e[1] \in Established THEN Peer(e) ELSE None)
                      /\ net[e] = <<>> /\ stream[e] = <<>>
                      /\ myIds[e] = <<>> /\ rest[e] = <<>>
  BY DEF Init, ExchangeInit
<1>4. \A S : <<>> \in Seq(S)
  BY EmptySeq
<1>5. Types
  <2>1. /\ ep \in [Ends -> {"none", "raw", "open", "closing", "closed"}]
        /\ pc \in [Ends -> Places]
    BY DEF Init, ExchangeInit, Places
  <2>2. sendTag \in [Ends -> Ends \cup {None}] /\ stream \in [Ends -> Seq(Ends)]
    BY <1>4, EndsOfConns DEF Init, ExchangeInit
  <2>3. /\ net \in [Ends -> Seq(Seq(Ends)) \cup Seq(Ends \cup {None})]
        /\ myIds \in [Ends -> Seq(Ends)] /\ rest \in [Ends -> Seq(Ends)]
    BY <1>4 DEF Init
  <2>4. existing \in [Procs -> Seq(Ends)]
    BY <1>1 DEF Init
  <2>5. /\ refcount \in [Ends -> Int]
        /\ reply \in [Ends -> Ends \cup {None}] /\ handle \in [Ends -> Ends \cup {None}]
        /\ target \in [Ends -> Ends \cup {None}]
    BY DEF Init
  <2> QED BY <2>1, <2>2, <2>3, <2>4, <2>5 DEF Types
<1>6. Sides
  <2> SUFFICES ASSUME NEW c \in Conns
               PROVE  /\ pc[Client(c)] \notin {"recvIds", "sendReply"}
                      /\ pc[Server(c)] \notin {"sendInfo", "recvReply", "dropping"}
                      /\ net[Client(c)] = <<>> /\ net[Server(c)] = <<>>
    BY <1>4 DEF Sides
  <2>1. Client(c) \in Ends /\ Server(c) \in Ends
    BY EndsOfConns
  <2> QED BY <1>2, <1>3, <2>1
<1>7. Tags
  BY <1>2, <1>3 DEF Tags, Untold
<1>8. Filed
  BY <1>1, <1>2, <1>3 DEF Filed, Settled
<1>9. \A c \in Conns : /\ Client(c)[1] = c /\ Server(c)[1] = c
  BY DEF Client, Server
<1>10. Unanswered
  BY <1>2, <1>3, <1>9, EndsOfConns DEF Unanswered
<1>11. Offers /\ Answers /\ NoKeyError
  BY <1>2, <1>3, EndsOfConns, ToSetEmpty DEF Offers, Answers, Told, NoKeyError
<1>12. Paired
  BY <1>3, <1>9, EndsOfConns DEF Paired
<1>13. \A e \in Ends : handle[e] = e => e \in ToSet(existing[Proc(e)])
  BY <1>1, <1>3, EndsOfConns
<1>14. Listed
  <2>1. ToSet(<<>>) = {} /\ IsInjective(<<>>)
    BY ToSetEmpty DEF IsInjective
  <2> QED BY <1>2, <1>3, <1>13, <2>1, EndsOfConns DEF Listed, Unused
<1>15. CountExact
  <2> SUFFICES ASSUME NEW h \in Ends, h \in ToSet(existing[Proc(h)])
               PROVE  refcount[h] = Cardinality({e \in Ends : CountsOn(e, h)})
    BY DEF CountExact
  <2>1. h[1] \in Established /\ refcount[h] = 1
    BY <1>1, <1>3, EndsOfConns
  <2>2. \A e \in Ends : CountsOn(e, h) <=> e = h
    BY <1>2, <1>3, <2>1, EndsOfConns DEF CountsOn
  <2>3. {e \in Ends : CountsOn(e, h)} = {h}
    BY <2>2
  <2> QED BY <2>1, <2>3, FS_Singleton
<1> QED BY <1>5, <1>6, <1>7, <1>8, <1>10, <1>11, <1>12, <1>14, <1>15 DEF CountInv, PairInv

-----------------------------------------------------------------------------
(* The exchange of peer information, and the life of endpoints.             *)

\* Steps that register, offer, answer and count nothing: coroutines that are
\* setting up a connection go on, and endpoints are closed.
LEMMA ExchangeInv ==
    ASSUME CountInv, UNCHANGED reuseVars,
           ep' \in [Ends -> {"none", "raw", "open", "closing", "closed"}],
           sendTag' \in [Ends -> Ends \cup {None}],
           stream' \in [Ends -> Seq(Ends)], pc' \in [Ends -> Places], Tags',
           \A e \in Ends :
               /\ \/ pc'[e] = pc[e]
                  \/ /\ pc[e] \in {"idle", "recvInfo", "sendInfo"}
                     /\ pc'[e] \in {"recvInfo", "sendInfo", "recvIds", "raised"}
               /\ pc[e] \in Settled => (Closed(e) => Closed(e)'),
           \A c \in Conns : pc'[Server(c)] # "sendInfo" /\ pc'[Client(c)] # "recvIds"
    PROVE  CountInv'
<1> USE DEF CountInv, PairInv
<1>0. /\ net' = net /\ existing' = existing /\ refcount' = refcount /\ myIds' = myIds
      /\ rest' = rest /\ reply' = reply /\ target' = target /\ handle' = handle
  BY DEF reuseVars
<1>1. Types'
  BY <1>0 DEF Types
<1>2. Sides'
  BY EndsOfConns DEF Sides, reuseVars
<1>3. Filed'
  <2>1. \A e \in Ends : pc[e] \in Settled => pc'[e] = pc[e]
    BY DEF Settled
  <2>2. \A p \in Procs : \A h \in ToSet(existing[p]) : h \in Ends /\ pc'[h] \in Settled
    BY <2>1, ToSetIn DEF Filed, Types
  <2>3. \A e \in Ends : pc'[e] \in Settled => sendTag'[e] = Peer(e)
    BY DEF Tags, Settled, Untold
  <2> QED BY <2>2, <2>3 DEF Filed, reuseVars
<1>4. Unanswered'
  <2> SUFFICES ASSUME NEW c \in Conns, pc'[Server(c)] \in {"idle", "recvInfo", "recvIds"}
               PROVE  /\ pc[Server(c)] \in {"idle", "recvInfo", "recvIds"}
                      /\ pc'[Client(c)] = "dropping" => pc[Client(c)] = "dropping"
    BY <1>0 DEF Unanswered
  <2>1. Client(c) \in Ends /\ Server(c) \in Ends
    BY EndsOfConns
  <2> QED BY <2>1 DEF Sides
<1>5. Offers'
  BY DEF Offers, reuseVars
<1>6. Answers'
  <2> SUFFICES ASSUME NEW c \in Conns
               PROVE  pc'[Client(c)] = "dropping" => pc[Client(c)] = "dropping"
    BY <1>0 DEF Answers, AnswerIs, Told
  <2>1. Client(c) \in Ends
    BY EndsOfConns
  <2> QED BY <2>1
<1>7. Paired' /\ NoKeyError'
  BY DEF Paired, NoKeyError, reuseVars
<1>8. Listed'
  <2> SUFFICES ASSUME NEW e \in Ends
               PROVE  /\ pc'[e] \in Unused => handle[e] = None
                      /\ pc'[e] \in {"closeNew", "using"} => handle[e] # None
                      /\ pc'[e] \in {"recvReply", "dropping"} =>
                           /\ handle[e] = None
                           /\ \A h \in ToSet(rest[e]) : Closed(h)' \/ h \in ToSet(myIds[e])
                      /\ pc'[e] \notin {"recvReply", "dropping", "raised"} => myIds[e] = <<>>
    BY DEF Listed, reuseVars
  <2>1. \A h \in ToSet(rest[e]) : h \in Ends /\ pc[h] \in Settled
    BY EndsOfConns, ToSetIn DEF Listed, Filed, Types
  <2> QED BY <2>1 DEF Listed, Unused
<1>9. CountExact'
  <2> SUFFICES ASSUME NEW h \in Ends, h \in ToSet(existing[Proc(h)]), ~Closed(h)'
               PROVE  ~Closed(h) /\ \A e \in Ends : CountsOn(e, h)' <=> CountsOn(e, h)
    BY CountKept DEF reuseVars
  <2>1. pc[h] \in Settled
    BY EndsOfConns DEF Filed
  <2>2. ASSUME NEW e \in Ends PROVE CountsOn(e, h)' <=> CountsOn(e, h)
    <3>1. CASE pc'[e] = pc[e]
      BY <3>1 DEF CountsOn, reuseVars
    <3>2. CASE pc'[e] # pc[e]
      <4>1. handle[e] = None /\ myIds[e] = <<>>
        BY <3>2 DEF Listed, Unused
      <4> QED BY <3>2, <4>1, ToSetEmpty, EndsOfConns DEF CountsOn, reuseVars
    <3> QED BY <3>1, <3>2
  <2> QED BY <2>1, <2>2
<1> QED BY <1>1, <1>2, <1>3, <1>4, <1>5, <1>6, <1>7, <1>8, <1>9

\* What an end has been told is its peer's tag.
LEMMA StreamRecvTag ==
    ASSUME Types, Tags, NEW e \in Ends, StreamRecv(e)
    PROVE  /\ sendTag' = [sendTag EXCEPT ![e] = Peer(e)]
           /\ Tail(stream[Peer(e)]) \in Seq(Ends)
           /\ \A i \in DOMAIN Tail(stream[Peer(e)]) : Tail(stream[Peer(e)])[i] = Peer(e)
<1> DEFINE s == stream[Peer(e)]
<1>1. s \in Seq(Ends) /\ s # <<>> /\ \A i \in DOMAIN s : s[i] = Peer(e)
  BY EndsOfConns DEF Types, Tags, StreamRecv
<1>2. sendTag' = [sendTag EXCEPT ![e] = Head(s)]
  BY DEF StreamRecv
<1> HIDE DEF s
<1>3. Len(s) \in Nat \ {0} /\ DOMAIN s = 1..Len(s)
  BY <1>1, EmptySeq
<1>4. /\ Head(s) = s[1] /\ Tail(s) \in Seq(Ends) /\ Len(Tail(s)) = Len(s) - 1
      /\ \A i \in 1..Len(Tail(s)) : Tail(s)[i] = s[i + 1]
  BY <1>1, HeadTailProperties
<1>5. Head(s) = Peer(e)
  BY <1>1, <1>3, <1>4
<1>6. ASSUME NEW i \in DOMAIN Tail(s) PROVE Tail(s)[i] = Peer(e)
  <2>1. i \in 1..Len(Tail(s)) /\ i + 1 \in 1..Len(s)
    BY <1>3, <1>4
  <2> QED BY <1>1, <1>3, <1>4, <2>1
<1> QED BY <1>2, <1>4, <1>5, <1>6 DEF s

\* A client begins to connect.
LEMMA CreateEndpointInv ==
    ASSUME CountInv, NEW c \in Conns, CreateEndpoint(c), UNCHANGED reuseVars
    PROVE  CountInv'
<1> USE DEF CountInv, PairInv
<1>0. Client(c) \in Ends
  BY EndsOfConns
<1>1. /\ ep' \in [Ends -> {"none", "raw", "open", "closing", "closed"}]
      /\ pc' \in [Ends -> Places]
      /\ sendTag' = sendTag /\ stream' = stream
  BY DEF CreateEndpoint, Types, Places
<1>2. \A e \in Ends : \/ pc'[e] = pc[e] /\ ep'[e] = ep[e]
                      \/ e = Client(c) /\ pc[e] = "idle" /\ pc'[e] = "recvInfo"
  BY DEF CreateEndpoint, Types
<1>3. Tags'
  BY <1>1, <1>2 DEF Tags, Untold
<1>4. \A e \in Ends :
         /\ \/ pc'[e] = pc[e]
            \/ /\ pc[e] \in {"idle", "recvInfo", "sendInfo"}
               /\ pc'[e] \in {"recvInfo", "sendInfo", "recvIds", "raised"}
         /\ pc[e] \in Settled => (Closed(e) => Closed(e)')
  BY <1>2 DEF Settled, Closed
<1>5. \A d \in Conns : pc'[Server(d)] # "sendInfo" /\ pc'[Client(d)] # "recvIds"
  BY <1>2, EndsOfConns DEF Sides
<1> QED BY <1>1, <1>3, <1>4, <1>5, ExchangeInv DEF Types

\* The server's handler begins: it sends its information.
LEMMA ListenerHandlerInv ==
    ASSUME CountInv, NEW c \in Conns, ListenerHandler(c), UNCHANGED reuseVars
    PROVE  CountInv'
<1> USE DEF CountInv, PairInv
<1> DEFINE e == Server(c)
<1>0. e \in Ends
  BY EndsOfConns
<1>1. /\ pc[e] = "idle" /\ ep' = [ep EXCEPT ![e] = "raw"] /\ pc' = [pc EXCEPT ![e] = "recvInfo"]
      /\ stream' = [stream EXCEPT ![e] = Append(stream[e], e)] /\ sendTag' = sendTag
  BY DEF ListenerHandler, InfoFirst
<1> HIDE DEF e
<1>2. /\ ep' \in [Ends -> {"none", "raw", "open", "closing", "closed"}]
      /\ pc' \in [Ends -> Places] /\ sendTag' \in [Ends -> Ends \cup {None}]
  BY <1>1 DEF Types, Places
<1>3. stream[e] \in Seq(Ends)
  BY <1>0 DEF Types
<1>4. Append(stream[e], e) \in Seq(Ends)
  BY <1>0, <1>3, AppendProperties
<1>5. stream' \in [Ends -> Seq(Ends)]
  BY <1>1, <1>4 DEF Types
<1>6. \A x \in Ends : \/ pc'[x] = pc[x] /\ ep'[x] = ep[x]
                      \/ x = e /\ pc[x] = "idle" /\ pc'[x] = "recvInfo"
  BY <1>1 DEF Types
<1>7. \A i \in DOMAIN Append(stream[e], e) : Append(stream[e], e)[i] = e
  <2>1. /\ DOMAIN stream[e] = 1..Len(stream[e]) /\ Len(stream[e]) \in Nat
        /\ \A i \in DOMAIN stream[e] : stream[e][i] = e
    BY <1>0, <1>3 DEF Tags
  <2>2. /\ Len(Append(stream[e], e)) = Len(stream[e]) + 1
        /\ \A i \in 1..Len(stream[e]) : Append(stream[e], e)[i] = stream[e][i]
        /\ Append(stream[e], e)[Len(stream[e]) + 1] = e
    BY <1>0, <1>3, AppendProperties
  <2>3. DOMAIN Append(stream[e], e) = 1..(Len(stream[e]) + 1)
    BY <1>4, <2>2
  <2> QED BY <2>1, <2>2, <2>3
<1>8. Tags'
  <2>1. \A x \in Ends : \A i \in DOMAIN stream'[x] : stream'[x][i] = x
    BY <1>0, <1>1, <1>7 DEF Tags, Types
  <2> QED BY <1>1, <1>6, <2>1 DEF Tags, Untold
<1>9. \A x \in Ends :
         /\ \/ pc'[x] = pc[x]
            \/ /\ pc[x] \in {"idle", "recvInfo", "sendInfo"}
               /\ pc'[x] \in {"recvInfo", "sendInfo", "recvIds", "raised"}
         /\ pc[x] \in Settled => (Closed(x) => Closed(x)')
  BY <1>6 DEF Settled, Closed
<1>10. \A d \in Conns : pc'[Server(d)] # "sendInfo" /\ pc'[Client(d)] # "recvIds"
  BY <1>6, EndsOfConns DEF Sides
<1> QED BY <1>2, <1>5, <1>8, <1>9, <1>10, ExchangeInv

\* The client has the server's information and sends its own.
LEMMA ClientInfoReceivedInv ==
    ASSUME CountInv, NEW c \in Conns, ClientInfoReceived(c), UNCHANGED reuseVars
    PROVE  CountInv'
<1> USE DEF CountInv, PairInv
<1> DEFINE e == Client(c)
           f == Server(c)
<1>0. e \in Ends /\ f \in Ends /\ Peer(e) = f /\ e # f
  BY EndsOfConns
<1>1. /\ StreamRecv(e) /\ pc[e] = "recvInfo" /\ ep' = ep /\ pc' = [pc EXCEPT ![e] = "sendInfo"]
      /\ stream' = [stream EXCEPT ![f] = Tail(stream[f]), ![e] = Append(stream[e], e)]
  BY <1>0 DEF ClientInfoReceived, StreamRecv, Types
<1> HIDE DEF e, f
<1>2. /\ sendTag' = [sendTag EXCEPT ![e] = f]
      /\ Tail(stream[f]) \in Seq(Ends)
      /\ \A i \in DOMAIN Tail(stream[f]) : Tail(stream[f])[i] = f
  BY <1>0, <1>1, StreamRecvTag
<1>3. /\ stream[e] \in Seq(Ends)
      /\ Append(stream[e], e) \in Seq(Ends) /\ Len(Append(stream[e], e)) = Len(stream[e]) + 1
      /\ \A i \in 1..Len(stream[e]) : Append(stream[e], e)[i] = stream[e][i]
      /\ Append(stream[e], e)[Len(stream[e]) + 1] = e
  BY <1>0, AppendProperties DEF Types
<1>4. \A i \in DOMAIN Append(stream[e], e) : Append(stream[e], e)[i] = e
  <2>1. DOMAIN stream[e] = 1..Len(stream[e]) /\ Len(stream[e]) \in Nat
    BY <1>3
  <2>2. DOMAIN Append(stream[e], e) = 1..(Len(stream[e]) + 1)
    BY <1>3
  <2>3. \A i \in 1..Len(stream[e]) : stream[e][i] = e
    BY <1>0, <2>1 DEF Tags
  <2> QED BY <1>3, <2>1, <2>2, <2>3
<1>5. /\ stream'[e] = Append(stream[e], e) /\ stream'[f] = Tail(stream[f])
      /\ \A x \in Ends : x # e /\ x # f => stream'[x] = stream[x]
  BY <1>0, <1>1 DEF Types
<1>6. stream' \in [Ends -> Seq(Ends)]
  BY <1>1, <1>2, <1>3 DEF Types
<1>7. /\ pc' \in [Ends -> Places] /\ sendTag' \in [Ends -> Ends \cup {None}]
      /\ ep' \in [Ends -> {"none", "raw", "open", "closing", "closed"}]
  BY <1>0, <1>1, <1>2 DEF Types, Places
<1>8. \A x \in Ends : /\ x # e => pc'[x] = pc[x] /\ sendTag'[x] = sendTag[x]
                      /\ x = e => pc'[x] = "sendInfo" /\ sendTag'[x] = Peer(x)
  BY <1>0, <1>1, <1>2 DEF Types
<1>9. Tags'
  <2>1. \A x \in Ends : \A i \in DOMAIN stream'[x] : stream'[x][i] = x
    BY <1>2, <1>4, <1>5 DEF Tags
  <2> QED BY <1>8, <2>1 DEF Tags
<1>10. \A x \in Ends :
         /\ \/ pc'[x] = pc[x]
            \/ /\ pc[x] \in {"idle", "recvInfo", "sendInfo"}
               /\ pc'[x] \in {"recvInfo", "sendInfo", "recvIds", "raised"}
         /\ pc[x] \in Settled => (Closed(x) => Closed(x)')
  BY <1>1, <1>8 DEF Closed
<1>11. \A d \in Conns : pc'[Server(d)] # "sendInfo" /\ pc'[Client(d)] # "recvIds"
  BY <1>8, EndsOfConns DEF Sides, e
<1> QED BY <1>6, <1>7, <1>9, <1>10, <1>11, ExchangeInv

\* The server has the client's information, and waits for what it offers.
LEMMA RecvIdsCallInv ==
    ASSUME CountInv, NEW c \in Conns, RecvIdsCall(c) PROVE CountInv'
<1> USE DEF CountInv, PairInv
<1> DEFINE e == Server(c)
           f == Client(c)
<1>0. e \in Ends /\ f \in Ends /\ Peer(e) = f /\ e # f
  BY EndsOfConns
<1>1. /\ StreamRecv(e) /\ pc[e] = "recvInfo" /\ pc' = [pc EXCEPT ![e] = "recvIds"]
      /\ stream' = [stream EXCEPT ![f] = Tail(stream[f])]
      /\ ep' = [ep EXCEPT ![e] = IF ep[e] = "raw" THEN "open" ELSE ep[e]]
      /\ UNCHANGED reuseVars
  BY <1>0 DEF RecvIdsCall, ServerConnected, StreamRecv, MakeEndpoint, Goto
<1> HIDE DEF e, f
<1>2. /\ sendTag' = [sendTag EXCEPT ![e] = f]
      /\ Tail(stream[f]) \in Seq(Ends)
      /\ \A i \in DOMAIN Tail(stream[f]) : Tail(stream[f])[i] = f
  BY <1>0, <1>1, StreamRecvTag
<1>3. /\ stream' \in [Ends -> Seq(Ends)] /\ stream'[f] = Tail(stream[f])
      /\ \A x \in Ends : x # f => stream'[x] = stream[x]
  BY <1>0, <1>1, <1>2 DEF Types
<1>4. ep[e] \in {"none", "raw", "open", "closing", "closed"}
  BY <1>0 DEF Types
<1>5. /\ pc' \in [Ends -> Places] /\ sendTag' \in [Ends -> Ends \cup {None}]
      /\ ep' \in [Ends -> {"none", "raw", "open", "closing", "closed"}]
  BY <1>0, <1>1, <1>2, <1>4 DEF Types, Places
<1>6. \A x \in Ends : /\ x # e => pc'[x] = pc[x] /\ sendTag'[x] = sendTag[x] /\ ep'[x] = ep[x]
                      /\ x = e => pc'[x] = "recvIds" /\ sendTag'[x] = Peer(x)
  BY <1>0, <1>1, <1>2 DEF Types
<1>7. Tags'
  <2>1. \A x \in Ends : \A i \in DOMAIN stream'[x] : stream'[x][i] = x
    BY <1>2, <1>3 DEF Tags
  <2> QED BY <1>6, <2>1 DEF Tags
<1>8. \A x \in Ends :
         /\ \/ pc'[x] = pc[x]
            \/ /\ pc[x] \in {"idle", "recvInfo", "sendInfo"}
               /\ pc'[x] \in {"recvInfo", "sendInfo", "recvIds", "raised"}
         /\ pc[x] \in Settled => (Closed(x) => Closed(x)')
  BY <1>1, <1>6 DEF Closed, Settled
<1>9. \A d \in Conns : pc'[Server(d)] # "sendInfo" /\ pc'[Client(d)] # "recvIds"
  BY <1>6, EndsOfConns DEF Sides, e
<1> QED BY <1>1, <1>3, <1>5, <1>7, <1>8, <1>9, ExchangeInv

\* Endpoints are closed, connections break, and coroutines that were setting
\* them up raise.
LEMMA LifeInv ==
    ASSUME CountInv, UNCHANGED reuseVars,
           \/ \E c \in Conns : Break(c)
           \/ \E e \in Ends : \/ CloseAborts(e) \/ ErrorCallback(e) \/ ExchangeRaises(e)
                              \/ PeerCloses(e)
    PROVE  CountInv'
<1> USE DEF CountInv, PairInv
<1>1. /\ sendTag' = sendTag /\ stream' = stream
      /\ pc' = pc \/ \E e \in Ends : pc[e] \in Exchanging /\ pc' = [pc EXCEPT ![e] = "raised"]
      /\ ep' = ep \/ \E e \in Ends : ep' = [ep EXCEPT ![e] = "closed"]
  BY DEF Break, CloseAborts, ErrorCallback, ExchangeRaises, PeerCloses
<1>2. /\ ep' \in [Ends -> {"none", "raw", "open", "closing", "closed"}]
      /\ \A x \in Ends : ep'[x] \in {ep[x], "closed"}
  BY <1>1 DEF Types
<1>3. /\ pc' \in [Ends -> Places]
      /\ \A x \in Ends : pc'[x] = pc[x] \/ (pc[x] \in Exchanging /\ pc'[x] = "raised")
  BY <1>1 DEF Types, Places
<1>4. Tags'
  BY <1>1, <1>3 DEF Tags, Untold
<1>5. \A x \in Ends :
         /\ \/ pc'[x] = pc[x]
            \/ /\ pc[x] \in {"idle", "recvInfo", "sendInfo"}
               /\ pc'[x] \in {"recvInfo", "sendInfo", "recvIds", "raised"}
         /\ pc[x] \in Settled => (Closed(x) => Closed(x)')
  BY <1>2, <1>3 DEF Closed, Exchanging
<1>6. \A d \in Conns : pc'[Server(d)] # "sendInfo" /\ pc'[Client(d)] # "recvIds"
  BY <1>3, EndsOfConns DEF Sides
<1> QED BY <1>1, <1>2, <1>3, <1>4, <1>5, <1>6, ExchangeInv DEF Types

-----------------------------------------------------------------------------
(* Counting.                                                                *)

\* One user less, or one more, is one less or one more to count.
LEMMA CountLess ==
    ASSUME CountExact, NEW h \in Ends, h \in ToSet(existing[Proc(h)]), ~Closed(h),
           NEW e \in Ends, CountsOn(e, h), ~CountsOn(e, h)',
           \A x \in Ends : x # e => (CountsOn(x, h)' <=> CountsOn(x, h))
    PROVE  Cardinality({x \in Ends : CountsOn(x, h)'}) = refcount[h] - 1
<1> DEFINE U == {x \in Ends : CountsOn(x, h)}
<1>1. {x \in Ends : CountsOn(x, h)'} = U \ {e} /\ e \in U /\ U \subseteq Ends
  OBVIOUS
<1>2. refcount[h] = Cardinality(U)
  BY DEF CountExact
<1> HIDE DEF U
<1>3. IsFiniteSet(U)
  BY <1>1, EndsFinite, FS_Subset
<1>4. Cardinality(U \ {e}) = Cardinality(U) - 1
  BY <1>1, <1>3, FS_RemoveElement
<1> QED BY <1>1, <1>2, <1>4

LEMMA CountMore ==
    ASSUME CountExact, NEW h \in Ends, h \in ToSet(existing[Proc(h)]), ~Closed(h),
           NEW e \in Ends, ~CountsOn(e, h), CountsOn(e, h)',
           \A x \in Ends : x # e => (CountsOn(x, h)' <=> CountsOn(x, h))
    PROVE  Cardinality({x \in Ends : CountsOn(x, h)'}) = refcount[h] + 1
<1> DEFINE U == {x \in Ends : CountsOn(x, h)}
<1>1. {x \in Ends : CountsOn(x, h)'} = U \cup {e} /\ e \notin U /\ U \subseteq Ends
  OBVIOUS
<1>2. refcount[h] = Cardinality(U)
  BY DEF CountExact
<1> HIDE DEF U
<1>3. IsFiniteSet(U)
  BY <1>1, EndsFinite, FS_Subset
<1>4. Cardinality(U \cup {e}) = Cardinality(U) + 1
  BY <1>1, <1>3, FS_AddElement
<1> QED BY <1>1, <1>2, <1>4

\* The same users are the same count.
LEMMA CountSame ==
    ASSUME CountExact, NEW h \in Ends, h \in ToSet(existing[Proc(h)]), ~Closed(h),
           \A x \in Ends : CountsOn(x, h)' <=> CountsOn(x, h)
    PROVE  Cardinality({x \in Ends : CountsOn(x, h)'}) = refcount[h]
<1>1. {x \in Ends : CountsOn(x, h)'} = {x \in Ends : CountsOn(x, h)}
  OBVIOUS
<1> QED BY <1>1 DEF CountExact

-----------------------------------------------------------------------------
(* After the answer: endpoints are closed, and virtual connections used.    *)

\* Steps of coroutines that have an answer, of users, and exceptions: nothing
\* is registered, offered or answered.
LEMMA QuietInv ==
    ASSUME CountInv, UNCHANGED <<sendTag, stream, net, existing, myIds, rest, reply, handle>>,
           ep' \in [Ends -> {"none", "raw", "open", "closing", "closed"}],
           pc' \in [Ends -> Places], refcount' \in [Ends -> Int],
           target' \in [Ends -> Ends \cup {None}],
           \A e \in Ends :
               /\ \/ pc'[e] = pc[e]
                  \/ pc'[e] = "raised" /\ pc[e] \notin Settled
                  \/ pc'[e] \in Settled /\ pc[e] \in {"closeNew", "using"}
                  \/ pc'[e] = "left" /\ pc[e] = "closing"
               /\ pc[e] \in Settled => (Closed(e) => Closed(e)')
    PROVE  PairInv' /\ Listed'
<1> USE DEF CountInv, PairInv
<1>1. Types'
  BY DEF Types
<1>2. Sides'
  BY EndsOfConns DEF Sides, Settled
<1>3. Tags'
  BY DEF Tags, Untold, Settled
<1>4. Filed'
  <2>1. \A p \in Procs : \A h \in ToSet(existing[p]) : h \in Ends /\ pc'[h] \in Settled
    BY ToSetIn DEF Filed, Types, Settled
  <2> QED BY <2>1 DEF Filed
<1>5. Unanswered'
  <2> SUFFICES ASSUME NEW c \in Conns, pc'[Server(c)] \in {"idle", "recvInfo", "recvIds"}
               PROVE  /\ pc[Server(c)] \in {"idle", "recvInfo", "recvIds"}
                      /\ pc'[Client(c)] = "dropping" => pc[Client(c)] = "dropping"
    BY DEF Unanswered
  <2>1. Client(c) \in Ends /\ Server(c) \in Ends
    BY EndsOfConns
  <2> QED BY <2>1 DEF Settled
<1>6. Offers' /\ Paired'
  BY DEF Offers, Paired
<1>7. Answers'
  <2> SUFFICES ASSUME NEW c \in Conns
               PROVE  pc'[Client(c)] = "dropping" => pc[Client(c)] = "dropping"
    BY DEF Answers, AnswerIs, Told
  <2>1. Client(c) \in Ends
    BY EndsOfConns
  <2> QED BY <2>1 DEF Settled
<1>8. NoKeyError'
  BY DEF NoKeyError, Settled
<1>9. Listed'
  <2> SUFFICES ASSUME NEW e \in Ends
               PROVE  /\ pc'[e] \in Unused => handle[e] = None
                      /\ pc'[e] \in {"closeNew", "using"} => handle[e] # None
                      /\ pc'[e] \in {"recvReply", "dropping"} =>
                           /\ handle[e] = None
                           /\ \A h \in ToSet(rest[e]) : Closed(h)' \/ h \in ToSet(myIds[e])
                      /\ pc'[e] \notin {"recvReply", "dropping", "raised"} => myIds[e] = <<>>
    BY DEF Listed
  <2>1. \A h \in ToSet(rest[e]) : h \in Ends /\ pc[h] \in Settled
    BY EndsOfConns, ToSetIn DEF Listed, Filed, Types
  <2>2. CASE pc'[e] = pc[e]
    BY <2>1, <2>2 DEF Listed
  <2>3. CASE pc'[e] = "raised"
    BY <2>3 DEF Unused
  <2>4. CASE pc'[e] \in Settled /\ pc[e] \in {"closeNew", "using"}
    BY <2>4 DEF Listed, Unused, Settled
  <2>5. CASE pc'[e] = "left" /\ pc[e] = "closing"
    BY <2>5 DEF Listed, Unused, Settled
  <2> QED BY <2>2, <2>3, <2>4, <2>5
<1> QED BY <1>1, <1>2, <1>3, <1>4, <1>5, <1>6, <1>7, <1>8, <1>9

\* The new endpoint is closed, and the one that is shared is used.
LEMMA NewClosedInv ==
    ASSUME CountInv, NEW e \in Ends, NewClosed(e) PROVE CountInv'
<1> USE DEF CountInv, PairInv
<1>1. /\ pc[e] = "closeNew" /\ pc' = [pc EXCEPT ![e] = "using"]
      /\ target' = [target EXCEPT ![e] = None]
      /\ UNCHANGED <<ep, sendTag, stream, broken, net, existing, refcount, myIds, rest, reply, handle>>
  BY DEF NewClosed, Goto
<1>2. \A x \in Ends : pc'[x] = pc[x] \/ (x = e /\ pc[x] = "closeNew" /\ pc'[x] = "using")
  BY <1>1 DEF Types
<1>3. pc' \in [Ends -> Places] /\ target' \in [Ends -> Ends \cup {None}]
  BY <1>1 DEF Types, Places
<1>4. PairInv' /\ Listed'
  <2>1. \A x \in Ends :
           /\ \/ pc'[x] = pc[x]
              \/ pc'[x] = "raised" /\ pc[x] \notin Settled
              \/ pc'[x] \in Settled /\ pc[x] \in {"closeNew", "using"}
              \/ pc'[x] = "left" /\ pc[x] = "closing"
           /\ pc[x] \in Settled => (Closed(x) => Closed(x)')
    BY <1>1, <1>2 DEF Settled, Closed
  <2> QED BY <1>1, <1>3, <2>1, QuietInv DEF Types
<1>5. CountExact'
  <2> SUFFICES ASSUME NEW h \in Ends, NEW x \in Ends PROVE CountsOn(x, h)' <=> CountsOn(x, h)
    BY <1>1, CountKept DEF Closed
  <2>1. CASE pc'[x] = pc[x]
    BY <1>1, <2>1 DEF CountsOn
  <2>2. CASE pc[x] = "closeNew" /\ pc'[x] = "using"
    BY <1>1, <2>2 DEF CountsOn
  <2> QED BY <1>2, <2>1, <2>2
<1> QED BY <1>4, <1>5

\* A coroutine that raises goes on counting on what it counted on.
LEMMA RaisesInv ==
    ASSUME CountInv, NEW e \in Ends, Raises(e) PROVE CountInv'
<1> USE DEF CountInv, PairInv
<1>1. /\ pc[e] \in {"recvReply", "recvIds", "sendReply", "dropping", "closeNew"}
      /\ pc' = [pc EXCEPT ![e] = "raised"] /\ ep' = [ep EXCEPT ![e] = "closed"]
      /\ target' = [target EXCEPT ![e] = None]
      /\ UNCHANGED <<sendTag, stream, broken, net, existing, refcount, myIds, rest, reply, handle>>
  BY DEF Raises, Goto
<1>2. \A x \in Ends : \/ pc'[x] = pc[x]
                      \/ /\ pc[x] \in {"recvReply", "recvIds", "sendReply", "dropping", "closeNew"}
                         /\ pc'[x] = "raised"
  BY <1>1 DEF Types
<1>3. /\ pc' \in [Ends -> Places] /\ target' \in [Ends -> Ends \cup {None}]
      /\ ep' \in [Ends -> {"none", "raw", "open", "closing", "closed"}]
      /\ \A x \in Ends : ep'[x] \in {ep[x], "closed"}
  BY <1>1 DEF Types, Places
<1>4. PairInv' /\ Listed'
  <2>1. \A x \in Ends :
           /\ \/ pc'[x] = pc[x]
              \/ pc'[x] = "raised" /\ pc[x] \notin Settled
              \/ pc'[x] \in Settled /\ pc[x] \in {"closeNew", "using"}
              \/ pc'[x] = "left" /\ pc[x] = "closing"
           /\ pc[x] \in Settled => (Closed(x) => Closed(x)')
    BY <1>2, <1>3 DEF Settled, Closed
  <2> QED BY <1>1, <1>3, <2>1, QuietInv DEF Types
<1>5. CountExact'
  <2>1. \A h \in Ends : ~Closed(h)' => ~Closed(h)
    BY <1>3 DEF Closed
  <2> SUFFICES ASSUME NEW h \in Ends, NEW x \in Ends PROVE CountsOn(x, h)' <=> CountsOn(x, h)
    BY <1>1, <2>1, CountKept
  <2>2. h # None
    BY EndsOfConns
  <2>3. CASE pc'[x] = pc[x]
    BY <1>1, <2>3 DEF CountsOn
  <2>4. CASE pc[x] \in {"recvReply", "dropping"} /\ pc'[x] = "raised"
    <3>1. handle[x] = None
      BY <2>4 DEF Listed
    <3> QED BY <1>1, <2>2, <2>4, <3>1 DEF CountsOn
  <2>5. CASE pc[x] = "recvIds" /\ pc'[x] = "raised"
    <3>1. handle[x] = None /\ ToSet(myIds[x]) = {}
      BY <2>5, ToSetEmpty DEF Listed, Unused
    <3> QED BY <1>1, <2>2, <2>5, <3>1 DEF CountsOn
  <2>6. CASE pc[x] \in {"sendReply", "closeNew"} /\ pc'[x] = "raised"
    <3>1. ToSet(myIds[x]) = {}
      BY <2>6, ToSetEmpty DEF Listed
    <3> QED BY <1>1, <2>6, <3>1 DEF CountsOn
  <2> QED BY <1>2, <2>3, <2>4, <2>5, <2>6
<1> QED BY <1>4, <1>5

\* The user's close() returns.
LEMMA UserCloseReturnsInv ==
    ASSUME CountInv, NEW e \in Ends, UserCloseReturns(e) PROVE CountInv'
<1> USE DEF CountInv, PairInv
<1>1. /\ pc[e] = "closing" /\ pc' = [pc EXCEPT ![e] = "left"]
      /\ target' = [target EXCEPT ![e] = None]
      /\ UNCHANGED <<ep, sendTag, stream, broken, net, existing, refcount, myIds, rest, reply, handle>>
  BY DEF UserCloseReturns, Goto
<1>2. \A x \in Ends : pc'[x] = pc[x] \/ (x = e /\ pc[x] = "closing" /\ pc'[x] = "left")
  BY <1>1 DEF Types
<1>3. pc' \in [Ends -> Places] /\ target' \in [Ends -> Ends \cup {None}]
  BY <1>1 DEF Types, Places
<1>4. PairInv' /\ Listed'
  <2>1. \A x \in Ends :
           /\ \/ pc'[x] = pc[x]
              \/ pc'[x] = "raised" /\ pc[x] \notin Settled
              \/ pc'[x] \in Settled /\ pc[x] \in {"closeNew", "using"}
              \/ pc'[x] = "left" /\ pc[x] = "closing"
           /\ pc[x] \in Settled => (Closed(x) => Closed(x)')
    BY <1>1, <1>2 DEF Settled, Closed
  <2> QED BY <1>1, <1>3, <2>1, QuietInv DEF Types
<1>5. CountExact'
  <2> SUFFICES ASSUME NEW h \in Ends, NEW x \in Ends PROVE CountsOn(x, h)' <=> CountsOn(x, h)
    BY <1>1, CountKept DEF Closed
  <2>1. CASE pc'[x] = pc[x]
    BY <1>1, <2>1 DEF CountsOn
  <2>2. CASE pc[x] = "closing" /\ pc'[x] = "left"
    BY <1>1, <2>2 DEF CountsOn
  <2> QED BY <1>2, <2>1, <2>2
<1> QED BY <1>4, <1>5

\* A user leaves: one less counts on an endpoint that is not closed.
LEMMA LeavesInv ==
    ASSUME CountInv, NEW e \in Ends, pc[e] = "using",
           NEW where \in {"left", "closing"}, pc' = [pc EXCEPT ![e] = where],
           UNCHANGED <<sendTag, stream, net, existing, myIds, rest, reply, handle>>,
           ep' \in [Ends -> {"none", "raw", "open", "closing", "closed"}],
           target' \in [Ends -> Ends \cup {None}],
           \A x \in Ends : Closed(x) => Closed(x)',
           \/ Closed(handle[e]) /\ refcount' = refcount
           \/ ~Closed(handle[e]) /\ CountDown(e)
    PROVE  CountInv'
<1> USE DEF CountInv, PairInv
<1> DEFINE g == handle[e]
<1>1. g \in Ends /\ g \in ToSet(existing[Proc(g)])
  <2>1. g \in Ends /\ g \in ToSet(existing[Proc(e)])
    BY DEF Listed, Types
  <2>2. Proc(g) = Proc(e)
    BY <2>1, EndsOfConns DEF Filed
  <2> QED BY <2>1, <2>2
<1>2. \A x \in Ends : \/ x # e /\ pc'[x] = pc[x]
                      \/ x = e /\ pc'[x] \in {"left", "closing"} /\ pc[x] = "using"
  BY DEF Types
<1>3. refcount' = refcount \/ refcount' = [refcount EXCEPT ![g] = refcount[g] - 1]
  BY DEF CountDown
<1>4. pc' \in [Ends -> Places] /\ refcount' \in [Ends -> Int]
  <2>1. pc' \in [Ends -> Places]
    BY DEF Types, Places
  <2>2. refcount[g] - 1 \in Int
    BY <1>1 DEF Types
  <2> QED BY <1>3, <2>1, <2>2 DEF Types
<1>5. PairInv' /\ Listed'
  <2>1. \A x \in Ends :
           /\ \/ pc'[x] = pc[x]
              \/ pc'[x] = "raised" /\ pc[x] \notin Settled
              \/ pc'[x] \in Settled /\ pc[x] \in {"closeNew", "using"}
              \/ pc'[x] = "left" /\ pc[x] = "closing"
           /\ pc[x] \in Settled => (Closed(x) => Closed(x)')
    BY <1>2 DEF Settled
  <2> QED BY <1>4, <2>1, QuietInv
<1>6. CountExact'
  <2> SUFFICES ASSUME NEW h \in Ends, h \in ToSet(existing[Proc(h)]), ~Closed(h)'
               PROVE  refcount'[h] = Cardinality({x \in Ends : CountsOn(x, h)'})
    BY DEF CountExact
  <2>1. ~Closed(h)
    OBVIOUS
  <2>2. \A x \in Ends : x # e => (CountsOn(x, h)' <=> CountsOn(x, h))
    BY <1>2 DEF CountsOn
  <2>3. ~CountsOn(e, h)' /\ (CountsOn(e, h) <=> h = g)
    BY <1>2 DEF CountsOn
  <2>4. CASE h = g
    <3>1. refcount'[h] = refcount[h] - 1
      BY <1>1, <2>1, <2>4 DEF CountDown, Types
    <3>2. Cardinality({x \in Ends : CountsOn(x, h)'}) = refcount[h] - 1
      BY <2>1, <2>2, <2>3, <2>4, CountLess
    <3> QED BY <3>1, <3>2
  <2>5. CASE h # g
    <3>1. refcount'[h] = refcount[h]
      BY <1>3, <2>5 DEF Types
    <3>2. Cardinality({x \in Ends : CountsOn(x, h)'}) = refcount[h]
      <4>1. \A x \in Ends : CountsOn(x, h)' <=> CountsOn(x, h)
        BY <2>2, <2>3, <2>5
      <4> QED BY <2>1, <4>1, CountSame
    <3> QED BY <3>1, <3>2
  <2> QED BY <2>4, <2>5
<1> QED BY <1>5, <1>6

LEMMA UserCloseInv ==
    ASSUME CountInv, NEW e \in Ends, UserClose(e) PROVE CountInv'
<1> USE DEF CountInv, PairInv
<1>1. handle[e] \in Ends
  BY DEF Listed, Types, UserClose
<1>2. /\ pc[e] = "using"
      /\ UNCHANGED <<sendTag, stream, net, existing, myIds, rest, reply, handle>>
  BY DEF UserClose
<1>3. \/ pc' = [pc EXCEPT ![e] = "left"] /\ ep' = ep /\ target' = target
      \/ /\ pc' = [pc EXCEPT ![e] = "closing"] /\ target' = [target EXCEPT ![e] = handle[e]]
         /\ CloseBegins(handle[e])
  BY DEF UserClose, Goto
<1>4. \/ Closed(handle[e]) /\ refcount' = refcount
      \/ ~Closed(handle[e]) /\ CountDown(e)
  BY DEF UserClose
<1>5. /\ ep' \in [Ends -> {"none", "raw", "open", "closing", "closed"}]
      /\ target' \in [Ends -> Ends \cup {None}]
      /\ \A x \in Ends : Closed(x) => Closed(x)'
  <2>1. CASE ep' = ep /\ target' = target
    BY <2>1 DEF Types, Closed
  <2>2. CASE target' = [target EXCEPT ![e] = handle[e]] /\ CloseBegins(handle[e])
    BY <1>1, <2>2 DEF Types, Closed, CloseBegins
  <2> QED BY <1>3, <2>1, <2>2
<1>6. PICK where \in {"left", "closing"} : pc' = [pc EXCEPT ![e] = where]
  BY <1>3
<1> QED BY <1>2, <1>4, <1>5, <1>6, LeavesInv

LEMMA UserAbortInv ==
    ASSUME CountInv, NEW e \in Ends, UserAbort(e) PROVE CountInv'
<1> USE DEF CountInv, PairInv
<1>1. /\ pc[e] = "using" /\ pc' = [pc EXCEPT ![e] = "left"]
      /\ UNCHANGED <<sendTag, stream, net, existing, myIds, rest, reply, target, handle>>
      /\ ~Closed(handle[e]) /\ CountDown(e)
      /\ ep' = ep \/ ep' = [ep EXCEPT ![handle[e]] = "closed"]
  BY DEF UserAbort, Goto
<1>2. /\ ep' \in [Ends -> {"none", "raw", "open", "closing", "closed"}]
      /\ \A x \in Ends : Closed(x) => Closed(x)'
  BY <1>1 DEF Types, Closed
<1> QED BY <1>1, <1>2, LeavesInv DEF Types

-----------------------------------------------------------------------------
(* Offers and answers.                                                      *)

\* The client offers the endpoints that are not closed, and counts on them.
LEMMA SendIdsInv ==
    ASSUME CountInv, NEW c \in Conns, SendIds(c) PROVE CountInv'
<1> USE DEF CountInv, PairInv
<1> DEFINE e == Client(c)
           p == From[c]
           open == OpenIn(existing[p])
<1>0. e \in Ends /\ p \in Procs /\ Proc(e) = p /\ (\A d \in Conns : e # Server(d))
      /\ \A d \in Conns : e = Client(d) => d = c
  BY EndsOfConns, ExchangeAssumption
<1>1. /\ pc[e] = "sendInfo" /\ pc' = [pc EXCEPT ![e] = "recvReply"]
      /\ ep' = [ep EXCEPT ![e] = IF ep[e] = "raw" THEN "open" ELSE ep[e]]
      /\ refcount' = HoldOpen(p)
      /\ myIds' = [myIds EXCEPT ![e] = open] /\ rest' = [rest EXCEPT ![e] = existing[p]]
      /\ net' = [net EXCEPT ![e] = Append(net[e], open)]
      /\ UNCHANGED <<sendTag, stream, existing, reply, target, handle>>
  BY <1>0 DEF SendIds, ClientConnected, MakeEndpoint, Goto
<1>2. existing[p] \in Seq(Ends)
  BY <1>0 DEF Types
<1>3. open \in Seq(Ends) /\ ToSet(open) = {h \in ToSet(existing[p]) : ~Closed(h)}
  BY <1>2, OpenInKeeps
<1> HIDE DEF e, p, open
<1>4. net[e] \in Seq(Seq(Ends))
  BY DEF Sides, e
<1>5. /\ Append(net[e], open) \in Seq(Seq(Ends))
      /\ Len(Append(net[e], open)) = Len(net[e]) + 1
      /\ \A i \in 1..Len(net[e]) : Append(net[e], open)[i] = net[e][i]
      /\ Append(net[e], open)[Len(net[e]) + 1] = open
  BY <1>3, <1>4, AppendProperties
<1>6. \A x \in Ends :
         /\ x # e => /\ pc'[x] = pc[x] /\ net'[x] = net[x]
                     /\ myIds'[x] = myIds[x] /\ rest'[x] = rest[x]
         /\ Closed(x)' <=> Closed(x)
  BY <1>0, <1>1 DEF Types, Closed
<1>7. /\ pc'[e] = "recvReply" /\ myIds'[e] = open /\ rest'[e] = existing[p]
      /\ net'[e] = Append(net[e], open)
  BY <1>0, <1>1 DEF Types
<1>8. Types'
  <2>1. ep' \in [Ends -> {"none", "raw", "open", "closing", "closed"}] /\ pc' \in [Ends -> Places]
    <3>1. ep[e] \in {"none", "raw", "open", "closing", "closed"}
      BY <1>0 DEF Types
    <3> QED BY <1>1, <3>1 DEF Types, Places
  <2>2. refcount' \in [Ends -> Int]
    BY <1>1 DEF Types, HoldOpen
  <2>3. net' \in [Ends -> Seq(Seq(Ends)) \cup Seq(Ends \cup {None})]
    BY <1>1, <1>5 DEF Types
  <2>4. myIds' \in [Ends -> Seq(Ends)] /\ rest' \in [Ends -> Seq(Ends)]
    BY <1>1, <1>2, <1>3 DEF Types
  <2> QED BY <1>1, <2>1, <2>2, <2>3, <2>4 DEF Types
<1>9. Sides'
  <2> SUFFICES ASSUME NEW d \in Conns
               PROVE  /\ pc'[Client(d)] \notin {"recvIds", "sendReply"}
                      /\ pc'[Server(d)] \notin {"sendInfo", "recvReply", "dropping"}
                      /\ net'[Client(d)] \in Seq(Seq(Ends))
                      /\ net'[Server(d)] \in Seq(Ends \cup {None})
    BY DEF Sides
  <2>1. Client(d) \in Ends /\ Server(d) \in Ends /\ Server(d) # e
    BY <1>0, EndsOfConns
  <2> QED BY <1>5, <1>6, <1>7, <2>1 DEF Sides
<1>10. Tags'
  BY <1>1, <1>6 DEF Tags, Untold
<1>11. Filed'
  <2>1. \A q \in Procs : \A h \in ToSet(existing[q]) : h \in Ends /\ pc'[h] \in Settled
    <3>1. \A q \in Procs : \A h \in ToSet(existing[q]) : h \in Ends /\ pc[h] \in Settled
      BY ToSetIn DEF Filed, Types
    <3> QED BY <1>1, <1>6, <3>1 DEF Settled
  <2> QED BY <1>1, <2>1 DEF Filed
<1>12. Unanswered'
  <2> SUFFICES ASSUME NEW d \in Conns, pc'[Server(d)] \in {"idle", "recvInfo", "recvIds"}
               PROVE  /\ handle[Server(d)] = None /\ handle[Client(d)] = None
                      /\ net'[Server(d)] = <<>> /\ pc'[Client(d)] # "dropping"
    BY <1>1 DEF Unanswered
  <2>1. Client(d) \in Ends /\ Server(d) \in Ends /\ Server(d) # e
    BY <1>0, EndsOfConns
  <2> QED BY <1>6, <1>7, <2>1 DEF Unanswered
<1>13. Offers'
  <2> SUFFICES ASSUME NEW d \in Conns, NEW i \in DOMAIN net'[Client(d)]
               PROVE  ToSet(net'[Client(d)][i]) \subseteq ToSet(existing[From[d]])
    BY <1>1 DEF Offers
  <2>1. CASE Client(d) # e
    <3>1. net'[Client(d)] = net[Client(d)]
      BY <1>6, <2>1, EndsOfConns
    <3> QED BY <3>1 DEF Offers
  <2>2. CASE Client(d) = e
    <3>1. d = c /\ net'[Client(d)] = Append(net[e], open)
      BY <1>0, <1>7, <2>2
    <3>2. Len(net[e]) \in Nat /\ DOMAIN net[e] = 1..Len(net[e])
      BY <1>4
    <3>3. i \in 1..(Len(net[e]) + 1)
      BY <1>5, <3>1
    <3>4. CASE i = Len(net[e]) + 1
      BY <1>3, <1>5, <3>1, <3>4 DEF p
    <3>5. CASE i \in 1..Len(net[e])
      BY <1>5, <3>1, <3>2, <3>5, <2>2 DEF Offers
    <3> QED BY <3>2, <3>3, <3>4, <3>5
  <2> QED BY <2>1, <2>2
<1>14. Answers'
  <2> SUFFICES ASSUME NEW d \in Conns
               PROVE  /\ net'[Server(d)] = net[Server(d)]
                      /\ pc'[Client(d)] = "dropping" => pc[Client(d)] = "dropping"
    BY <1>1 DEF Answers, AnswerIs, Told
  <2>1. Client(d) \in Ends /\ Server(d) \in Ends /\ Server(d) # e
    BY <1>0, EndsOfConns
  <2> QED BY <1>6, <1>7, <2>1
<1>15. Paired' /\ NoKeyError'
  BY <1>1, <1>6, <1>7 DEF Paired, NoKeyError
<1>16. handle[e] = None
  BY <1>0, <1>1 DEF Listed, Unused
<1>17. Listed'
  <2> SUFFICES ASSUME NEW x \in Ends
               PROVE  /\ pc'[x] \in Unused => handle[x] = None
                      /\ pc'[x] \in {"closeNew", "using"} => handle[x] # None
                      /\ pc'[x] \in {"recvReply", "dropping"} =>
                           /\ handle[x] = None
                           /\ \A h \in ToSet(rest'[x]) : Closed(h)' \/ h \in ToSet(myIds'[x])
                      /\ IsInjective(rest'[x]) /\ ToSet(rest'[x]) \subseteq ToSet(existing[Proc(x)])
                      /\ pc'[x] \notin {"recvReply", "dropping", "raised"} => myIds'[x] = <<>>
                      /\ handle[x] # None =>
                           handle[x] \in ToSet(existing[Proc(x)]) /\ myIds'[x] = <<>>
    BY <1>1 DEF Listed
  <2>1. CASE x # e
    <3>1. \A h \in ToSet(rest[x]) : h \in Ends
      BY ToSetIn DEF Types
    <3> QED BY <1>6, <2>1, <3>1 DEF Listed
  <2>2. CASE x = e
    <3>1. \A h \in ToSet(existing[p]) : h \in Ends
      BY <1>2, ToSetIn
    <3>2. IsInjective(existing[p])
      BY <1>0 DEF Filed
    <3> QED BY <1>0, <1>3, <1>6, <1>7, <1>16, <2>2, <3>1, <3>2 DEF Unused
  <2> QED BY <2>1, <2>2
<1>18. CountExact'
  <2> SUFFICES ASSUME NEW h \in Ends, h \in ToSet(existing[Proc(h)]), ~Closed(h)
               PROVE  refcount'[h] = Cardinality({x \in Ends : CountsOn(x, h)'})
    BY <1>1, <1>6 DEF CountExact
  <2>1. \A x \in Ends : x # e => (CountsOn(x, h)' <=> CountsOn(x, h))
    BY <1>1, <1>6 DEF CountsOn
  <2>2. ~CountsOn(e, h)
    BY <1>1 DEF CountsOn
  <2>3. CountsOn(e, h)' <=> h \in ToSet(existing[p])
    <3>1. CountsOn(e, h)' <=> h \in ToSet(myIds'[e]) \cap ToSet(rest'[e])
      BY <1>7 DEF CountsOn
    <3> QED BY <1>3, <1>7, <3>1
  <2>4. refcount'[h] = IF h \in ToSet(existing[p]) THEN refcount[h] + 1 ELSE refcount[h]
    BY <1>1 DEF HoldOpen
  <2>5. CASE h \in ToSet(existing[p])
    BY <1>0, <2>1, <2>2, <2>3, <2>4, <2>5, CountMore
  <2>6. CASE h \notin ToSet(existing[p])
    <3>1. \A x \in Ends : CountsOn(x, h)' <=> CountsOn(x, h)
      BY <2>1, <2>2, <2>3, <2>6
    <3> QED BY <2>4, <2>6, <3>1, CountSame
  <2> QED BY <2>5, <2>6
<1> QED BY <1>8, <1>9, <1>10, <1>11, <1>12, <1>13, <1>14, <1>15, <1>17, <1>18

\* The server goes on with an endpoint the client offered, or with none.
LEMMA MatchingIs ==
    ASSUME Types, Filed, NEW p \in Procs, NEW ids \in Seq(Ends)
    PROVE  \/ Matching(p, ids) = None
           \/ /\ Matching(p, ids) \in Ends /\ Matching(p, ids) \in ToSet(existing[p])
              /\ Peer(Matching(p, ids)) \in ToSet(ids)
<1> DEFINE m == Matching(p, ids)
           good == {i \in DOMAIN ids : Lookup(p, ids[i]) # None /\ ~Closed(Lookup(p, ids[i]))}
<1>1. Len(ids) \in Nat /\ DOMAIN ids = 1..Len(ids) /\ \A i \in 1..Len(ids) : ids[i] \in Ends
  BY ElementOfSeq, LenProperties
<1>2. m = None \/ \E i \in DOMAIN ids : m = Lookup(p, ids[i])
  <2>1. m = IF good # {} THEN Lookup(p, ids[Min(good)])
            ELSE IF ids # <<>> THEN Lookup(p, ids[Len(ids)]) ELSE None
    BY DEF Matching
  <2>2. CASE good # {}
    <3>1. good \in SUBSET Nat /\ good \subseteq DOMAIN ids
      BY <1>1
    <3> HIDE DEF good, m
    <3>2. Min(good) \in DOMAIN ids
      BY <2>2, <3>1, Least
    <3> QED BY <2>1, <2>2, <3>2
  <2>3. CASE good = {} /\ ids # <<>>
    <3>1. Len(ids) \in DOMAIN ids
      BY <1>1, <2>3, EmptySeq
    <3> HIDE DEF good, m
    <3> QED BY <2>1, <2>3, <3>1
  <2>4. CASE good = {} /\ ids = <<>>
    <3> HIDE DEF good, m
    <3> QED BY <2>1, <2>4
  <2> QED BY <2>2, <2>3, <2>4
<1> HIDE DEF m
<1>3. ASSUME m # None PROVE m \in Ends /\ m \in ToSet(existing[p]) /\ Peer(m) \in ToSet(ids)
  <2>1. PICK i \in DOMAIN ids : m = Lookup(p, ids[i])
    BY <1>2, <1>3
  <2>2. ids[i] \in Ends /\ ids[i] \in ToSet(ids)
    BY <1>1 DEF ToSet
  <2>3. m \in ToSet(existing[p]) /\ m = Peer(ids[i])
    BY <1>3, <2>1, <2>2, LookupIs
  <2> QED BY <2>2, <2>3, EndsOfConns
<1> QED BY <1>3 DEF m

\* The server answers, and counts on what it goes on with.
LEMMA RecvIdsInv ==
    ASSUME CountInv, NEW c \in Conns, RecvIds(c) PROVE CountInv'
<1> USE DEF CountInv, PairInv
<1> DEFINE e == Server(c)
           f == Client(c)
           p == To[c]
           ids == Head(net[f])
           g == Matching(p, ids)
<1>0. /\ e \in Ends /\ f \in Ends /\ e # f /\ p \in Procs /\ Proc(e) = p
      /\ \A d \in Conns : e # Client(d) /\ f # Server(d)
      /\ \A d \in Conns : e = Server(d) \/ f = Client(d) => d = c
  BY EndsOfConns, ExchangeAssumption
<1>1. /\ pc[e] = "recvIds" /\ pc' = [pc EXCEPT ![e] = "sendReply"]
      /\ net[f] # <<>>
      /\ handle' = [handle EXCEPT ![e] = g]
      /\ refcount' = [x \in Ends |-> IF x = g THEN refcount[x] + 1 ELSE refcount[x]]
      /\ net' = [net EXCEPT ![f] = Tail(net[f]), ![e] = Append(net[e], g)]
      /\ UNCHANGED <<ep, sendTag, stream, existing, myIds, rest, reply, target>>
  <2>1. Peer(e) = f /\ Proc(e) = p /\ e # f
    BY <1>0, EndsOfConns
  <2>2. Answer(g) = g /\ (IF g = None THEN None ELSE Answer(g)) = g
    BY DEF Answer
  <2>3. net' = [net EXCEPT ![f] = Tail(net[f]), ![e] = Append(net[e], IF g = None THEN None ELSE Answer(g))]
    <3> HIDE DEF e, f, p, g
    <3>1. net' = [net EXCEPT ![f] = Tail(@), ![e] = Append(@, IF g = None THEN None ELSE Answer(g))]
      BY <2>1 DEF RecvIds, e, f, p, g, ids
    <3>2. DOMAIN net = Ends
      BY DEF Types
    <3> QED BY <1>0, <3>1, <3>2
  <2>4. refcount' = [x \in Ends |-> IF x = g THEN refcount[x] + 1 ELSE refcount[x]]
    BY <2>1 DEF RecvIds
  <2>5. handle' = [handle EXCEPT ![e] = g]
    BY <2>1 DEF RecvIds
  <2> HIDE DEF g
  <2> QED BY <2>1, <2>2, <2>3, <2>4, <2>5 DEF RecvIds, Goto
<1> HIDE DEF e, f, p
<1>2. net[f] \in Seq(Seq(Ends))
  BY DEF Sides, f
<1>3. /\ ids \in Seq(Ends) /\ ids = net[f][1] /\ Tail(net[f]) \in Seq(Seq(Ends))
      /\ Len(Tail(net[f])) = Len(net[f]) - 1 /\ Len(net[f]) \in Nat \ {0}
      /\ \A i \in 1..Len(Tail(net[f])) : Tail(net[f])[i] = net[f][i + 1]
  <2>1. Len(net[f]) \in Nat /\ Len(net[f]) # 0
    BY <1>1, <1>2, EmptySeq
  <2>2. /\ Head(net[f]) = net[f][1] /\ Tail(net[f]) \in Seq(Seq(Ends))
        /\ Len(Tail(net[f])) = Len(net[f]) - 1
        /\ \A i \in 1..Len(Tail(net[f])) : Tail(net[f])[i] = net[f][i + 1]
    BY <1>1, <1>2, HeadTailProperties
  <2>3. net[f][1] \in Seq(Ends)
    <3>1. 1 \in 1..Len(net[f])
      BY <2>1
    <3> QED BY <1>2, <3>1, ElementOfSeq
  <2>4. ids = net[f][1]
    BY <2>2
  <2> HIDE DEF ids
  <2> QED BY <2>1, <2>2, <2>3, <2>4
<1>4. \A i \in 1..Len(net[f]) : ToSet(net[f][i]) \subseteq ToSet(existing[From[c]])
  <2>1. DOMAIN net[f] = 1..Len(net[f])
    BY <1>2
  <2>2. \A i \in DOMAIN net[f] : ToSet(net[f][i]) \subseteq ToSet(existing[From[c]])
    BY DEF Offers, f
  <2> QED BY <2>1, <2>2
<1>5. ToSet(ids) \subseteq ToSet(existing[From[c]])
  BY <1>3, <1>4
<1> HIDE DEF ids
<1>6. g = None \/ (g \in Ends /\ g \in ToSet(existing[p]) /\ Peer(g) \in ToSet(existing[From[c]]))
  BY <1>0, <1>3, <1>5, MatchingIs
<1> HIDE DEF g
<1>7. handle[e] = None /\ handle[f] = None /\ net[e] = <<>> /\ pc[f] # "dropping"
  BY <1>1 DEF Unanswered, e, f
<1>8. /\ pc'[e] = "sendReply" /\ handle'[e] = g
      /\ net'[f] = Tail(net[f]) /\ net'[e] = Append(<<>>, g)
      /\ \A x \in Ends : x # e => pc'[x] = pc[x] /\ handle'[x] = handle[x]
      /\ \A x \in Ends : x # e /\ x # f => net'[x] = net[x]
  BY <1>0, <1>1, <1>7 DEF Types
<1>9. Append(<<>>, g) \in Seq(Ends \cup {None}) /\ Append(<<>>, g) = <<g>>
  <2>1. <<>> \in Seq(Ends \cup {None}) /\ g \in Ends \cup {None}
    BY <1>6, EmptySeq
  <2> QED BY <2>1, AppendProperties
<1>10. Types'
  <2>1. pc' \in [Ends -> Places] /\ handle' \in [Ends -> Ends \cup {None}]
    BY <1>1, <1>6 DEF Types, Places
  <2>2. refcount' \in [Ends -> Int]
    BY <1>1 DEF Types
  <2>3. net' \in [Ends -> Seq(Seq(Ends)) \cup Seq(Ends \cup {None})]
    <3>1. Append(net[e], g) \in Seq(Ends \cup {None})
      BY <1>7, <1>9
    <3> QED BY <1>1, <1>3, <3>1 DEF Types
  <2> QED BY <1>1, <2>1, <2>2, <2>3 DEF Types
<1>11. Sides'
  <2> SUFFICES ASSUME NEW d \in Conns
               PROVE  /\ pc'[Client(d)] \notin {"recvIds", "sendReply"}
                      /\ pc'[Server(d)] \notin {"sendInfo", "recvReply", "dropping"}
                      /\ net'[Client(d)] \in Seq(Seq(Ends))
                      /\ net'[Server(d)] \in Seq(Ends \cup {None})
    BY DEF Sides
  <2>1. Client(d) \in Ends /\ Server(d) \in Ends /\ Client(d) # e /\ Server(d) # f
    BY <1>0, EndsOfConns
  <2>2. /\ pc'[Client(d)] \notin {"recvIds", "sendReply"}
        /\ pc'[Server(d)] \notin {"sendInfo", "recvReply", "dropping"}
    BY <1>8, <2>1 DEF Sides
  <2>3. net'[Client(d)] \in Seq(Seq(Ends))
    BY <1>3, <1>8, <2>1 DEF Sides
  <2>4. net'[Server(d)] \in Seq(Ends \cup {None})
    BY <1>8, <1>9, <2>1 DEF Sides
  <2> QED BY <2>2, <2>3, <2>4
<1>12. Tags'
  BY <1>1, <1>8 DEF Tags, Untold
<1>13. Filed'
  <2>1. \A q \in Procs : \A h \in ToSet(existing[q]) : h \in Ends /\ pc[h] \in Settled
    BY ToSetIn DEF Filed, Types
  <2>2. \A q \in Procs : \A h \in ToSet(existing[q]) : h \in Ends /\ pc'[h] \in Settled
    BY <1>1, <1>8, <2>1 DEF Settled
  <2> QED BY <1>1, <2>2 DEF Filed
<1>14. Unanswered'
  <2> SUFFICES ASSUME NEW d \in Conns, pc'[Server(d)] \in {"idle", "recvInfo", "recvIds"}
               PROVE  /\ handle'[Server(d)] = None /\ handle'[Client(d)] = None
                      /\ net'[Server(d)] = <<>> /\ pc'[Client(d)] # "dropping"
    BY DEF Unanswered
  <2>1. Client(d) \in Ends /\ Server(d) \in Ends /\ Client(d) # e /\ Server(d) # f
    BY <1>0, EndsOfConns
  <2>2. Server(d) # e
    BY <1>8
  <2> QED BY <1>8, <2>1, <2>2 DEF Unanswered
<1>15. Offers'
  <2> SUFFICES ASSUME NEW d \in Conns, NEW i \in DOMAIN net'[Client(d)]
               PROVE  ToSet(net'[Client(d)][i]) \subseteq ToSet(existing[From[d]])
    BY <1>1 DEF Offers
  <2>1. CASE Client(d) # f
    <3>1. net'[Client(d)] = net[Client(d)]
      BY <1>0, <1>8, <2>1, EndsOfConns
    <3> QED BY <3>1 DEF Offers
  <2>2. CASE Client(d) = f
    <3>1. d = c /\ net'[Client(d)] = Tail(net[f])
      BY <1>0, <1>8, <2>2
    <3>2. i \in 1..Len(Tail(net[f]))
      BY <1>3, <3>1
    <3>3. Tail(net[f])[i] = net[f][i + 1] /\ i + 1 \in 1..Len(net[f])
      BY <1>3, <3>2
    <3> QED BY <1>4, <3>1, <3>3
  <2> QED BY <2>1, <2>2
<1>16. Answers'
  <2> SUFFICES ASSUME NEW d \in Conns, NEW v \in Told(d)' PROVE AnswerIs(d, v)'
    BY DEF Answers
  <2>1. Client(d) \in Ends /\ Server(d) \in Ends /\ Client(d) # e /\ Server(d) # f
    BY <1>0, EndsOfConns
  <2>2. CASE Server(d) # e
    <3>1. /\ net'[Server(d)] = net[Server(d)] /\ handle'[Server(d)] = handle[Server(d)]
          /\ pc'[Client(d)] = pc[Client(d)]
      BY <1>8, <2>1, <2>2
    <3>2. v \in Told(d)
      BY <1>1, <3>1 DEF Told
    <3>3. AnswerIs(d, v)
      BY <3>2 DEF Answers
    <3> QED BY <1>1, <3>1, <3>3 DEF AnswerIs
  <2>3. CASE Server(d) = e
    <3>1. d = c
      BY <1>0, <2>3
    <3>2. Client(d) = f /\ pc'[f] # "dropping"
      BY <1>0, <1>7, <1>8, <3>1 DEF f
    <3>3. net'[e] = <<g>>
      BY <1>8, <1>9
    <3>4. v = g
      BY <2>3, <3>2, <3>3 DEF Told, ToSet
    <3>5. handle'[Server(c)] = g /\ existing' = existing
      BY <1>1, <1>8 DEF e
    <3> QED BY <1>6, <3>1, <3>4, <3>5 DEF AnswerIs
  <2> QED BY <2>2, <2>3
<1>17. Paired'
  <2> SUFFICES ASSUME NEW d \in Conns, handle'[Client(d)] # None
               PROVE  \/ handle'[Server(d)] = Peer(handle'[Client(d)])
                      \/ handle'[Server(d)] = None /\ handle'[Client(d)] = Client(d)
    BY DEF Paired
  <2>1. Client(d) \in Ends /\ Server(d) \in Ends /\ Client(d) # e
    BY <1>0, EndsOfConns
  <2>2. Server(d) # e
    BY <1>0, <1>7, <1>8, <2>1 DEF f
  <2> QED BY <1>8, <2>1, <2>2 DEF Paired
<1>18. NoKeyError'
  BY <1>8 DEF NoKeyError
<1>19. myIds[e] = <<>>
  BY <1>0, <1>1 DEF Listed
<1>20. Listed'
  <2> SUFFICES ASSUME NEW x \in Ends
               PROVE  /\ pc'[x] \in Unused => handle'[x] = None
                      /\ pc'[x] \in {"closeNew", "using"} => handle'[x] # None
                      /\ pc'[x] \in {"recvReply", "dropping"} =>
                           /\ handle'[x] = None
                           /\ \A h \in ToSet(rest[x]) : Closed(h)' \/ h \in ToSet(myIds[x])
                      /\ IsInjective(rest[x]) /\ ToSet(rest[x]) \subseteq ToSet(existing[Proc(x)])
                      /\ pc'[x] \notin {"recvReply", "dropping", "raised"} => myIds[x] = <<>>
                      /\ handle'[x] # None =>
                           handle'[x] \in ToSet(existing[Proc(x)]) /\ myIds[x] = <<>>
    BY <1>1 DEF Listed
  <2>1. CASE x # e
    BY <1>1, <1>8, <2>1 DEF Listed, Closed
  <2>2. CASE x = e
    BY <1>0, <1>6, <1>8, <1>19, <2>2 DEF Listed, Unused
  <2> QED BY <2>1, <2>2
<1>21. CountExact'
  <2> SUFFICES ASSUME NEW h \in Ends, h \in ToSet(existing[Proc(h)]), ~Closed(h)
               PROVE  refcount'[h] = Cardinality({x \in Ends : CountsOn(x, h)'})
    BY <1>1 DEF CountExact, Closed
  <2>1. \A x \in Ends : x # e => (CountsOn(x, h)' <=> CountsOn(x, h))
    BY <1>1, <1>8 DEF CountsOn
  <2>2. ~CountsOn(e, h)
    BY <1>1 DEF CountsOn
  <2>3. CountsOn(e, h)' <=> h = g
    BY <1>8 DEF CountsOn
  <2>4. refcount'[h] = IF h = g THEN refcount[h] + 1 ELSE refcount[h]
    BY <1>1
  <2>5. CASE h = g
    BY <1>0, <2>1, <2>2, <2>3, <2>4, <2>5, CountMore
  <2>6. CASE h # g
    <3>1. \A x \in Ends : CountsOn(x, h)' <=> CountsOn(x, h)
      BY <2>1, <2>2, <2>3, <2>6
    <3> QED BY <2>4, <2>6, <3>1, CountSame
  <2> QED BY <2>5, <2>6
<1> QED BY <1>10, <1>11, <1>12, <1>13, <1>14, <1>15, <1>16, <1>17, <1>18, <1>20, <1>21

-----------------------------------------------------------------------------
(* The client's answer: the loop that drops the counts.                     *)

\* The parts of DropHolds(): the endpoints nobody else counts on, how far the
\* loop comes, which endpoints it drops, and the counts after it.
LastOnes(list) == {i \in DOMAIN list : ~Closed(list[i]) /\ refcount[list[i]] = 1}
CameTo(list) == IF LastOnes(list) = {} THEN Len(list) ELSE Min(LastOnes(list))
Dropped(list) == {list[i] : i \in {j \in 1..CameTo(list) : ~Closed(list[j])}}
Uncounted(list) ==
    [h \in Ends |-> IF h \in Dropped(list) THEN refcount[h] - 1 ELSE refcount[h]]
Remaining(list) == SubSeq(list, CameTo(list) + 1, Len(list))

LEMMA DropHoldsIs ==
    ASSUME NEW e, NEW list, NEW tag, DropHolds(e, list, tag)
    PROVE  /\ rest' = [rest EXCEPT ![e] = Remaining(list)]
           /\ \/ /\ LastOnes(list) # {}
                 /\ myIds' = [myIds EXCEPT ![e] = myIds[e]]
                 /\ reply' = [reply EXCEPT ![e] = tag]
                 /\ refcount' = Uncounted(list)
                 /\ CloseBegins(list[CameTo(list)])
                 /\ target' = [target EXCEPT ![e] = list[CameTo(list)]]
                 /\ pc' = [pc EXCEPT ![e] = "dropping"]
                 /\ UNCHANGED <<existing, handle>>
              \/ /\ LastOnes(list) = {}
                 /\ myIds' = [myIds EXCEPT ![e] = <<>>]
                 /\ reply' = [reply EXCEPT ![e] = None]
                 /\ Adopt(e, tag, Uncounted(list))
BY DEF DropHolds, LastOnes, CameTo, Dropped, Uncounted, Remaining, Goto

\* What is dropped is what the client has come to and is not closed.
LEMMA DropFacts ==
    ASSUME NEW list \in Seq(Ends), IsInjective(list)
    PROVE  /\ Remaining(list) \in Seq(Ends) /\ IsInjective(Remaining(list))
           /\ ToSet(Remaining(list)) \subseteq ToSet(list)
           /\ \A h \in Ends : ~Closed(h) =>
                (h \in Dropped(list) <=> h \in ToSet(list) /\ h \notin ToSet(Remaining(list)))
           /\ LastOnes(list) = {} => Remaining(list) = <<>>
           /\ LastOnes(list) # {} => list[CameTo(list)] \in Ends
<1> DEFINE n == CameTo(list)
<1>1. Len(list) \in Nat /\ DOMAIN list = 1..Len(list)
  BY LenProperties
<1>2. n \in 0..Len(list) /\ (LastOnes(list) # {} => n \in 1..Len(list))
  <2>1. CASE LastOnes(list) = {}
    BY <1>1, <2>1 DEF CameTo
  <2>2. CASE LastOnes(list) # {}
    <3>1. LastOnes(list) \in SUBSET Nat /\ LastOnes(list) \subseteq 1..Len(list)
      BY <1>1 DEF LastOnes
    <3>2. Min(LastOnes(list)) \in LastOnes(list)
      BY <2>2, <3>1, Least
    <3> QED BY <1>1, <2>2, <3>1, <3>2 DEF CameTo
  <2> QED BY <2>1, <2>2
<1>3. LastOnes(list) = {} => n = Len(list)
  BY DEF CameTo
<1>4. Dropped(list) = {list[i] : i \in {j \in 1..n : ~Closed(list[j])}}
  BY DEF Dropped
<1>5. Remaining(list) = SubSeq(list, n + 1, Len(list))
  BY DEF Remaining
<1> HIDE DEF n
<1>6. /\ Remaining(list) \in Seq(Ends) /\ IsInjective(Remaining(list))
      /\ \A x : x \in ToSet(Remaining(list)) <=>
                   x \in ToSet(list) /\ \A i \in 1..n : x # list[i]
  <2>1. n \in 0..Len(list)
    BY <1>2
  <2> HIDE DEF Remaining
  <2> QED BY <1>5, <2>1, RestOfList
<1>7. ASSUME NEW h \in Ends, ~Closed(h)
      PROVE  h \in Dropped(list) <=> h \in ToSet(list) /\ h \notin ToSet(Remaining(list))
  <2>1. h \in Dropped(list) <=> \E i \in 1..n : h = list[i]
    BY <1>4, <1>7
  <2>2. \A i \in 1..n : list[i] \in ToSet(list)
    <3>1. \A i \in 1..n : i \in DOMAIN list
      BY <1>1, <1>2
    <3> QED BY <3>1 DEF ToSet
  <2> QED BY <1>6, <2>1, <2>2
<1>8. LastOnes(list) = {} => Remaining(list) = <<>>
  BY <1>1, <1>3, <1>5, SubSeqEmpty
<1>9. LastOnes(list) # {} => list[n] \in Ends
  BY <1>2, ElementOfSeq
<1> QED BY <1>6, <1>7, <1>8, <1>9 DEF n

\* What the counts are after an end has dropped some endpoints and has come to
\* count on another one, or on none.
LEMMA CountMoves ==
    ASSUME CountExact, NEW h \in Ends, h \in ToSet(existing[Proc(h)]), ~Closed(h),
           NEW e \in Ends, refcount[h] \in Int,
           \A x \in Ends : x # e => (CountsOn(x, h)' <=> CountsOn(x, h)),
           refcount'[h] = refcount[h] - (IF CountsOn(e, h) THEN 1 ELSE 0)
                                      + (IF CountsOn(e, h)' THEN 1 ELSE 0)
    PROVE  refcount'[h] = Cardinality({x \in Ends : CountsOn(x, h)'})
<1>1. CASE CountsOn(e, h) /\ ~CountsOn(e, h)'
  <2>1. refcount'[h] = refcount[h] - 1
    BY <1>1
  <2> QED BY <1>1, <2>1, CountLess
<1>2. CASE ~CountsOn(e, h) /\ CountsOn(e, h)'
  <2>1. refcount'[h] = refcount[h] + 1
    BY <1>2
  <2> QED BY <1>2, <2>1, CountMore
<1>3. CASE CountsOn(e, h)' <=> CountsOn(e, h)
  <2>1. refcount'[h] = refcount[h]
    BY <1>3
  <2>2. \A x \in Ends : CountsOn(x, h)' <=> CountsOn(x, h)
    BY <1>3
  <2> QED BY <2>1, <2>2, CountSame
<1> QED BY <1>1, <1>2, <1>3

-----------------------------------------------------------------------------
(* Going on with an answer.                                                 *)

\* A new entry for an end that has none.
LEMMA FiledAppend ==
    ASSUME Types, Filed, Tags, NEW e \in Ends, pc[e] \notin Settled \cup Untold,
           existing' = [existing EXCEPT ![Proc(e)] = Append(existing[Proc(e)], e)]
    PROVE  /\ existing' \in [Procs -> Seq(Ends)]
           /\ \A p \in Procs : IsInjective(existing'[p])
           /\ \A p \in Procs : ToSet(existing'[p]) =
                ToSet(existing[p]) \cup (IF p = Proc(e) THEN {e} ELSE {})
<1> DEFINE p == Proc(e)
<1>1. p \in Procs /\ existing[p] \in Seq(Ends)
  BY EndsOfConns DEF Types
<1>2. e \notin ToSet(existing[p]) /\ IsInjective(existing[p])
  BY <1>1 DEF Filed
<1>3. /\ Append(existing[p], e) \in Seq(Ends) /\ IsInjective(Append(existing[p], e))
      /\ ToSet(Append(existing[p], e)) = ToSet(existing[p]) \cup {e}
  BY <1>1, <1>2, AppendProperties, InjectiveAppend, ToSetAppend
<1>4. existing' = [existing EXCEPT ![p] = Append(existing[p], e)]
  OBVIOUS
<1> HIDE DEF p
<1>5. \A q \in Procs : existing'[q] = IF q = p THEN Append(existing[p], e) ELSE existing[q]
  BY <1>1, <1>4 DEF Types
<1>6. existing' \in [Procs -> Seq(Ends)]
  BY <1>1, <1>3, <1>4 DEF Types
<1>7. \A q \in Procs : IsInjective(existing'[q])
  BY <1>3, <1>5 DEF Filed
<1>8. \A q \in Procs :
        ToSet(existing'[q]) = ToSet(existing[q]) \cup (IF q = p THEN {e} ELSE {})
  BY <1>3, <1>5
<1> QED BY <1>6, <1>7, <1>8 DEF p

\* An end goes on with an endpoint that is registered, or with none yet.
LEMMA GoesOnInv ==
    ASSUME CountInv, NEW e \in Ends, pc[e] \in {"recvReply", "dropping", "sendReply"},
           NEW w \in {"dropping", "closeNew", "using"}, pc' = [pc EXCEPT ![e] = w],
           NEW g \in Ends \cup {None}, handle' = [handle EXCEPT ![e] = g],
           sendTag' = sendTag, stream' = stream, \A x \in Ends : Closed(x)' <=> Closed(x),
           ep' \in [Ends -> {"none", "raw", "open", "closing", "closed"}],
           net' \in [Ends -> Seq(Seq(Ends)) \cup Seq(Ends \cup {None})],
           refcount' \in [Ends -> Int], target' \in [Ends -> Ends \cup {None}],
           reply' \in [Ends -> Ends \cup {None}],
           myIds' \in [Ends -> Seq(Ends)], rest' \in [Ends -> Seq(Ends)],
           \A d \in Conns : /\ net'[Client(d)] = net[Client(d)]
                            /\ net'[Server(d)] \in Seq(Ends \cup {None})
                            /\ net[Server(d)] = <<>> => net'[Server(d)] = <<>>,
           \/ existing' = existing
           \/ /\ w = "using" /\ g = e
              /\ existing' = [existing EXCEPT ![Proc(e)] = Append(existing[Proc(e)], e)],
           \A x \in Ends : x # e => myIds'[x] = myIds[x] /\ rest'[x] = rest[x],
           IsInjective(rest'[e]), ToSet(rest'[e]) \subseteq ToSet(rest[e]),
           w = "dropping" => g = None /\ pc[e] # "sendReply" /\ myIds'[e] = myIds[e],
           w # "dropping" => /\ g # None /\ g \in ToSet(existing'[Proc(e)])
                             /\ myIds'[e] = <<>>,
           \A d \in Conns : \A v \in Told(d)' : AnswerIs(d, v),
           \A d \in Conns :
               /\ e = Client(d) => pc[Server(d)] \notin {"idle", "recvInfo", "recvIds"}
               /\ e = Client(d) /\ g # None =>
                    \/ handle[Server(d)] = Peer(g)
                    \/ handle[Server(d)] = None /\ g = e
               /\ e = Server(d) => g = handle[e] \/ (handle[e] = None /\ g = e)
    PROVE  PairInv' /\ Listed'
<1> USE DEF CountInv, PairInv
<1>1. \A x \in Ends : /\ x # e => pc'[x] = pc[x] /\ handle'[x] = handle[x]
                      /\ x = e => pc'[x] = w /\ handle'[x] = g
  BY DEF Types
<1>2. pc[e] \notin Settled \cup Untold /\ pc[e] \notin Unused
  BY DEF Settled, Untold, Unused
<1>3. /\ existing' \in [Procs -> Seq(Ends)]
      /\ \A p \in Procs : IsInjective(existing'[p])
      /\ \A p \in Procs : ToSet(existing[p]) \subseteq ToSet(existing'[p])
      /\ \A p \in Procs : \A h \in ToSet(existing'[p]) :
           h \in ToSet(existing[p]) \/ (p = Proc(e) /\ h = e /\ w = "using")
  <2>1. CASE existing' = existing
    BY <2>1 DEF Types, Filed
  <2>2. CASE /\ w = "using"
             /\ existing' = [existing EXCEPT ![Proc(e)] = Append(existing[Proc(e)], e)]
    <3>1. /\ existing' \in [Procs -> Seq(Ends)]
          /\ \A p \in Procs : IsInjective(existing'[p])
          /\ \A p \in Procs : ToSet(existing'[p]) =
               ToSet(existing[p]) \cup (IF p = Proc(e) THEN {e} ELSE {})
      BY <1>2, <2>2, FiledAppend
    <3> QED BY <2>2, <3>1
  <2> QED BY <2>1, <2>2
<1>4. Types'
  <2>1. pc' \in [Ends -> Places] /\ handle' \in [Ends -> Ends \cup {None}]
    BY DEF Types, Places
  <2> QED BY <1>3, <2>1 DEF Types
<1>5. Sides'
  <2> SUFFICES ASSUME NEW d \in Conns
               PROVE  /\ pc'[Client(d)] \notin {"recvIds", "sendReply"}
                      /\ pc'[Server(d)] \notin {"sendInfo", "recvReply", "dropping"}
    BY DEF Sides
  <2>1. Client(d) \in Ends /\ Server(d) \in Ends
    BY EndsOfConns
  <2>2. pc'[Server(d)] \notin {"sendInfo", "recvReply", "dropping"}
    BY <1>1, <2>1 DEF Sides
  <2> QED BY <1>1, <2>1, <2>2 DEF Sides
<1>6. Tags'
  <2>1. sendTag[e] = Peer(e)
    BY <1>2 DEF Tags
  <2> QED BY <1>1, <2>1 DEF Tags
<1>7. \A p \in Procs : \A h \in ToSet(existing[p]) : h \in Ends /\ pc[h] \in Settled /\ h # e
  BY <1>2, ToSetIn DEF Filed, Types
<1>8. Filed'
  <2>1. sendTag[e] = Peer(e)
    BY <1>2 DEF Tags
  <2>2. ASSUME NEW p \in Procs, NEW h \in ToSet(existing'[p])
        PROVE  Proc(h) = p /\ pc'[h] \in Settled /\ sendTag[h] = Peer(h)
    <3>1. CASE h \in ToSet(existing[p])
      BY <1>1, <1>7, <3>1 DEF Filed
    <3>2. CASE p = Proc(e) /\ h = e /\ w = "using"
      BY <1>1, <2>1, <3>2 DEF Settled
    <3> QED BY <1>3, <3>1, <3>2
  <2> QED BY <1>3, <2>2 DEF Filed
<1>9. Unanswered'
  <2> SUFFICES ASSUME NEW d \in Conns, pc'[Server(d)] \in {"idle", "recvInfo", "recvIds"}
               PROVE  /\ handle'[Server(d)] = None /\ handle'[Client(d)] = None
                      /\ net'[Server(d)] = <<>> /\ pc'[Client(d)] # "dropping"
    BY DEF Unanswered
  <2>1. Client(d) \in Ends /\ Server(d) \in Ends
    BY EndsOfConns
  <2>2. Server(d) # e /\ pc'[Server(d)] = pc[Server(d)]
    BY <1>1, <2>1
  <2>3. Client(d) # e
    BY <2>2
  <2> QED BY <1>1, <2>1, <2>2, <2>3 DEF Unanswered
<1>10. Offers'
  <2>1. \A d \in Conns : From[d] \in Procs
    BY ExchangeAssumption
  <2> QED BY <1>3, <2>1 DEF Offers
<1>11. Answers'
  <2> SUFFICES ASSUME NEW d \in Conns, NEW v \in Told(d)' PROVE AnswerIs(d, v)'
    BY DEF Answers
  <2>1. AnswerIs(d, v)
    OBVIOUS
  <2>2. From[d] \in Procs /\ Server(d) \in Ends
    BY ExchangeAssumption, EndsOfConns
  <2>3. CASE Server(d) # e
    BY <1>1, <1>3, <2>1, <2>2, <2>3 DEF AnswerIs
  <2>4. CASE Server(d) = e
    <3>1. g = handle[e] \/ (handle[e] = None /\ g = e)
      BY <2>4
    <3>2. handle'[e] = g
      BY <1>1
    <3>3. \/ handle'[Server(d)] = handle[Server(d)]
          \/ handle[Server(d)] = None /\ handle'[Server(d)] = Server(d)
      BY <2>4, <3>1, <3>2
    <3> QED BY <1>3, <2>1, <2>2, <3>3 DEF AnswerIs
  <2> QED BY <2>3, <2>4
<1>12. Paired'
  <2> SUFFICES ASSUME NEW d \in Conns, handle'[Client(d)] # None
               PROVE  \/ handle'[Server(d)] = Peer(handle'[Client(d)])
                      \/ handle'[Server(d)] = None /\ handle'[Client(d)] = Client(d)
    BY DEF Paired
  <2>1. /\ Client(d) \in Ends /\ Server(d) \in Ends /\ Client(d) # Server(d)
        /\ Peer(Client(d)) = Server(d)
    BY EndsOfConns
  <2>2. CASE Client(d) = e
    BY <1>1, <2>1, <2>2
  <2>3. CASE Server(d) = e
    <3>1. handle'[Client(d)] = handle[Client(d)]
      BY <1>1, <2>1, <2>3
    <3>2. CASE g = handle[e]
      BY <1>1, <2>3, <3>1, <3>2 DEF Paired
    <3>3. CASE handle[e] = None /\ g = e
      <4>1. handle[Client(d)] = Client(d)
        <5>1. handle[Client(d)] \in Ends
          BY <2>1, <3>1 DEF Types
        <5>2. Peer(handle[Client(d)]) # None
          BY <5>1, EndsOfConns
        <5> QED BY <2>3, <3>1, <3>3, <5>2 DEF Paired
      <4> QED BY <1>1, <2>1, <2>3, <3>1, <3>3, <4>1
    <3> QED BY <2>3, <3>2, <3>3
  <2>4. CASE Client(d) # e /\ Server(d) # e
    BY <1>1, <2>1, <2>4 DEF Paired
  <2> QED BY <2>2, <2>3, <2>4
<1>13. NoKeyError'
  BY <1>1 DEF NoKeyError
<1>14. Listed'
  <2> SUFFICES ASSUME NEW x \in Ends
               PROVE  /\ pc'[x] \in Unused => handle'[x] = None
                      /\ pc'[x] \in {"closeNew", "using"} => handle'[x] # None
                      /\ pc'[x] \in {"recvReply", "dropping"} =>
                           /\ handle'[x] = None
                           /\ \A h \in ToSet(rest'[x]) : Closed(h)' \/ h \in ToSet(myIds'[x])
                      /\ IsInjective(rest'[x]) /\ ToSet(rest'[x]) \subseteq ToSet(existing'[Proc(x)])
                      /\ pc'[x] \notin {"recvReply", "dropping", "raised"} => myIds'[x] = <<>>
                      /\ handle'[x] # None =>
                           handle'[x] \in ToSet(existing'[Proc(x)]) /\ myIds'[x] = <<>>
    BY DEF Listed
  <2>1. /\ Proc(x) \in Procs /\ ToSet(rest[x]) \subseteq Ends
        /\ ToSet(existing[Proc(x)]) \subseteq ToSet(existing'[Proc(x)])
    BY <1>3, EndsOfConns, ToSetIn DEF Types
  <2>2. CASE x # e
    BY <1>1, <2>1, <2>2 DEF Listed
  <2>3. CASE x = e
    <3>1. ToSet(rest'[x]) \subseteq ToSet(existing'[Proc(x)])
      BY <2>1, <2>3 DEF Listed
    <3>2. CASE w = "dropping"
      <4>1. \A h \in ToSet(rest'[x]) : Closed(h)' \/ h \in ToSet(myIds'[x])
        BY <2>1, <2>3, <3>2 DEF Listed
      <4> QED BY <1>1, <2>3, <3>1, <3>2, <4>1 DEF Unused
    <3>3. CASE w # "dropping"
      BY <1>1, <2>3, <3>1, <3>3 DEF Unused
    <3> QED BY <3>2, <3>3
  <2> QED BY <2>2, <2>3
<1> QED BY <1>4, <1>5, <1>6, <1>8, <1>9, <1>10, <1>11, <1>12, <1>13, <1>14

\* Only its own end counts on an endpoint that is registered now.
LEMMA CountsOnNew ==
    ASSUME CountInv, NEW e \in Ends, pc[e] \notin Settled, CountsOn(e, e)',
           \A x \in Ends : x # e => (CountsOn(x, e)' <=> CountsOn(x, e))
    PROVE  Cardinality({x \in Ends : CountsOn(x, e)'}) = 1
<1> USE DEF CountInv, PairInv
<1>1. \A p \in Procs : e \notin ToSet(existing[p])
  BY DEF Filed
<1>2. \A x \in Ends : ~CountsOn(x, e)
  <2> SUFFICES ASSUME NEW x \in Ends, CountsOn(x, e) PROVE FALSE
    OBVIOUS
  <2>1. Proc(x) \in Procs /\ e # None
    BY EndsOfConns
  <2>2. e \in ToSet(rest[x]) \/ e = handle[x]
    BY DEF CountsOn
  <2> QED BY <1>1, <2>1, <2>2 DEF Listed
<1>3. {x \in Ends : CountsOn(x, e)'} = {e}
  BY <1>2
<1> QED BY <1>3, FS_Singleton

\* The server goes on with what it answered, or with the new endpoint.
LEMMA ReplySentInv ==
    ASSUME CountInv, NEW c \in Conns, ReplySent(c) PROVE CountInv'
<1> USE DEF CountInv, PairInv
<1> DEFINE e == Server(c)
<1>0. e \in Ends /\ Proc(e) \in Procs /\ (\A d \in Conns : e # Client(d))
  BY EndsOfConns
<1>1. /\ pc[e] = "sendReply"
      /\ UNCHANGED <<sendTag, stream, net, myIds, rest, reply>>
  BY DEF ReplySent
<1>2. \/ /\ handle[e] # None /\ CloseBegins(e) /\ pc' = [pc EXCEPT ![e] = "closeNew"]
         /\ target' = [target EXCEPT ![e] = e] /\ UNCHANGED <<existing, refcount, handle>>
      \/ handle[e] = None /\ Register(e, refcount) /\ ep' = ep
  BY DEF ReplySent, Goto
<1> HIDE DEF e
<1>3. myIds[e] = <<>> /\ IsInjective(rest[e])
  BY <1>0, <1>1 DEF Listed
<1>4. pc[e] \notin Settled /\ pc[e] \notin Untold /\ \A h \in Ends : ~CountsOn(e, h) \/ h = handle[e]
  BY <1>1 DEF Settled, Untold, CountsOn
<1>5. \A d \in Conns : \A v \in Told(d)' : AnswerIs(d, v)
  <2> SUFFICES ASSUME NEW d \in Conns, NEW v \in Told(d)' PROVE AnswerIs(d, v)
    OBVIOUS
  <2>1. Client(d) \in Ends /\ Client(d) # e
    BY <1>0, EndsOfConns
  <2>2. pc'[Client(d)] = pc[Client(d)]
    BY <1>2, <2>1 DEF Types, Register, Goto
  <2>3. v \in Told(d)
    BY <1>1, <2>2 DEF Told
  <2> QED BY <2>3 DEF Answers
<1>6. \A d \in Conns : /\ net'[Client(d)] = net[Client(d)]
                       /\ net'[Server(d)] \in Seq(Ends \cup {None})
                       /\ net[Server(d)] = <<>> => net'[Server(d)] = <<>>
  BY <1>1 DEF Sides
<1>7. CASE /\ handle[e] # None /\ CloseBegins(e) /\ pc' = [pc EXCEPT ![e] = "closeNew"]
           /\ target' = [target EXCEPT ![e] = e] /\ UNCHANGED <<existing, refcount, handle>>
  <2> DEFINE g == handle[e]
  <2>1. g \in Ends \cup {None} /\ handle' = [handle EXCEPT ![e] = g]
    BY <1>0, <1>7 DEF Types
  <2>2. g # None /\ g \in ToSet(existing[Proc(e)])
    BY <1>0, <1>7 DEF Listed
  <2>3. /\ ep' \in [Ends -> {"none", "raw", "open", "closing", "closed"}]
        /\ \A x \in Ends : Closed(x)' <=> Closed(x)
    BY <1>0, <1>7 DEF Types, CloseBegins, Closed
  <2>4. target' \in [Ends -> Ends \cup {None}]
    BY <1>0, <1>7 DEF Types
  <2>5. PairInv' /\ Listed'
    <3>1. \A d \in Conns : (e = Server(d) => g = handle[e] \/ (handle[e] = None /\ g = e)) /\ e # Client(d)
      BY <1>0
    <3> HIDE DEF g
    <3>2. myIds'[e] = <<>> /\ rest' = rest /\ existing' = existing
      BY <1>1, <1>3, <1>7
    <3>3. /\ net' \in [Ends -> Seq(Seq(Ends)) \cup Seq(Ends \cup {None})]
          /\ refcount' \in [Ends -> Int] /\ reply' \in [Ends -> Ends \cup {None}]
          /\ myIds' \in [Ends -> Seq(Ends)] /\ rest' \in [Ends -> Seq(Ends)]
      BY <1>1, <1>7 DEF Types
    <3>4. /\ \A x \in Ends : x # e => myIds'[x] = myIds[x] /\ rest'[x] = rest[x]
          /\ IsInjective(rest'[e]) /\ ToSet(rest'[e]) \subseteq ToSet(rest[e])
      BY <1>1, <1>3
    <3>5. pc' = [pc EXCEPT ![e] = "closeNew"]
      BY <1>7
    <3>6. g \in ToSet(existing'[Proc(e)])
      BY <2>2, <3>2
    <3>7. \A d \in Conns :
             /\ e = Client(d) => pc[Server(d)] \notin {"idle", "recvInfo", "recvIds"}
             /\ e = Client(d) /\ g # None =>
                  \/ handle[Server(d)] = Peer(g)
                  \/ handle[Server(d)] = None /\ g = e
             /\ e = Server(d) => g = handle[e] \/ (handle[e] = None /\ g = e)
      BY <3>1
    <3>8. "closeNew" \in {"dropping", "closeNew", "using"} /\ pc[e] \in {"recvReply", "dropping", "sendReply"}
      BY <1>1
    <3>9. existing' = existing /\ myIds'[e] = <<>> /\ sendTag' = sendTag /\ stream' = stream
      BY <1>1, <3>2
    <3> QED BY <1>0, <1>5, <1>6, <2>1, <2>2, <2>3, <2>4, <3>3, <3>4, <3>5, <3>6, <3>7, <3>8, <3>9,
               GoesOnInv
  <2>6. CountExact'
    <3> SUFFICES ASSUME NEW h \in Ends, NEW x \in Ends PROVE CountsOn(x, h)' <=> CountsOn(x, h)
      BY <1>7, <2>3, CountKept
    <3>1. CASE x # e
      BY <1>0, <1>1, <1>7, <3>1 DEF CountsOn, Types
    <3>2. CASE x = e
      <4>1. pc'[e] = "closeNew"
        BY <1>0, <1>7 DEF Types
      <4> QED BY <1>1, <1>7, <3>2, <4>1 DEF CountsOn
    <3> QED BY <3>1, <3>2
  <2> QED BY <2>5, <2>6
<1>8. CASE handle[e] = None /\ Register(e, refcount) /\ ep' = ep
  <2>1. /\ existing' = [existing EXCEPT ![Proc(e)] = Append(existing[Proc(e)], e)]
        /\ refcount' = [refcount EXCEPT ![e] = 1] /\ handle' = [handle EXCEPT ![e] = e]
        /\ target' = [target EXCEPT ![e] = None] /\ pc' = [pc EXCEPT ![e] = "using"]
    BY <1>0, <1>8 DEF Register, Goto, Types
  <2>2. /\ refcount' \in [Ends -> Int] /\ target' \in [Ends -> Ends \cup {None}]
        /\ \A x \in Ends : Closed(x)' <=> Closed(x)
    <3>0. refcount' = [refcount EXCEPT ![e] = 1] /\ target' = [target EXCEPT ![e] = None]
      BY <2>1
    <3>1. refcount' \in [Ends -> Int]
      <4>1. refcount \in [Ends -> Int]
        BY DEF Types
      <4>2. ASSUME NEW one \in Int PROVE [refcount EXCEPT ![e] = one] \in [Ends -> Int]
        BY <4>1
      <4> QED BY <3>0, <4>2
    <3>2. target' \in [Ends -> Ends \cup {None}]
      BY <3>0 DEF Types
    <3> QED BY <1>8, <3>1, <3>2 DEF Closed
  <2>3. \A p \in Procs : ToSet(existing'[p]) =
          ToSet(existing[p]) \cup (IF p = Proc(e) THEN {e} ELSE {})
    BY <1>0, <1>4, <2>1, FiledAppend
  <2>4. PairInv' /\ Listed'
    <3>1. \A d \in Conns : (e = Server(d) => e = handle[e] \/ (handle[e] = None /\ e = e)) /\ e # Client(d)
      BY <1>0, <1>8
    <3>2. myIds'[e] = <<>> /\ rest' = rest /\ e # None /\ e \in ToSet(existing'[Proc(e)])
      BY <1>0, <1>1, <1>3, <2>3, EndsOfConns
    <3>3. /\ "using" \in {"dropping", "closeNew", "using"} /\ "using" # "dropping"
          /\ pc[e] \in {"recvReply", "dropping", "sendReply"} /\ e \in Ends \cup {None}
      BY <1>0, <1>1
    <3>4. /\ net' \in [Ends -> Seq(Seq(Ends)) \cup Seq(Ends \cup {None})]
          /\ ep' \in [Ends -> {"none", "raw", "open", "closing", "closed"}]
          /\ reply' \in [Ends -> Ends \cup {None}]
          /\ myIds' \in [Ends -> Seq(Ends)] /\ rest' \in [Ends -> Seq(Ends)]
      BY <1>1, <1>8 DEF Types
    <3>5. /\ \A x \in Ends : x # e => myIds'[x] = myIds[x] /\ rest'[x] = rest[x]
          /\ IsInjective(rest'[e]) /\ ToSet(rest'[e]) \subseteq ToSet(rest[e])
      BY <1>1, <1>3
    <3>6. sendTag' = sendTag /\ stream' = stream
      BY <1>1
    <3>7. \A d \in Conns :
             /\ e = Client(d) => pc[Server(d)] \notin {"idle", "recvInfo", "recvIds"}
             /\ e = Client(d) /\ e # None =>
                  \/ handle[Server(d)] = Peer(e)
                  \/ handle[Server(d)] = None /\ e = e
             /\ e = Server(d) => e = handle[e] \/ (handle[e] = None /\ e = e)
      BY <3>1
    <3>8. pc' = [pc EXCEPT ![e] = "using"] /\ handle' = [handle EXCEPT ![e] = e]
          /\ existing' = [existing EXCEPT ![Proc(e)] = Append(existing[Proc(e)], e)]
      BY <2>1
    <3> QED BY <1>0, <1>5, <1>6, <2>2, <3>2, <3>3, <3>4, <3>5, <3>6, <3>7, <3>8, GoesOnInv
  <2>5. \A x \in Ends : x # e => pc'[x] = pc[x] /\ handle'[x] = handle[x]
    BY <2>1 DEF Types
  <2>6. \A h \in Ends : \A x \in Ends : x # e => (CountsOn(x, h)' <=> CountsOn(x, h))
    BY <1>1, <2>5 DEF CountsOn
  <2>7. \A h \in Ends : CountsOn(e, h)' <=> h = e
    BY <1>0, <2>1 DEF CountsOn, Types
  <2>8. CountExact'
    <3> SUFFICES ASSUME NEW h \in Ends, h \in ToSet(existing'[Proc(h)]), ~Closed(h)'
                 PROVE  refcount'[h] = Cardinality({x \in Ends : CountsOn(x, h)'})
      BY DEF CountExact
    <3>1. CASE h = e
      BY <1>0, <1>4, <2>1, <2>6, <2>7, <3>1, CountsOnNew DEF Types
    <3>2. CASE h # e
      <4>1. h \in ToSet(existing[Proc(h)]) /\ ~Closed(h) /\ refcount'[h] = refcount[h]
        BY <2>1, <2>2, <2>3, <3>2, EndsOfConns DEF Types
      <4>2. ~CountsOn(e, h) /\ ~CountsOn(e, h)'
        BY <1>4, <1>8, <2>7, <3>2, EndsOfConns
      <4>3. \A x \in Ends : CountsOn(x, h)' <=> CountsOn(x, h)
        BY <2>6, <4>2
      <4> QED BY <4>1, <4>3, CountSame
    <3> QED BY <3>1, <3>2
  <2> QED BY <2>4, <2>8
<1> QED BY <1>2, <1>7, <1>8

-----------------------------------------------------------------------------
(* The client goes on with its answer.                                      *)

\* What DropHolds() leaves alone, and what the client counts on before it.
LEMMA DropFrame ==
    ASSUME CountInv, NEW c \in Conns, NEW tag \in Ends \cup {None},
           pc[Client(c)] \in {"recvReply", "dropping"},
           DropHolds(Client(c), rest[Client(c)], tag)
    PROVE  LET e == Client(c)
               list == rest[e]
           IN
           /\ list \in Seq(Ends) /\ IsInjective(list)
           /\ handle[e] = None
           /\ \A h \in Ends : ~Closed(h) => (CountsOn(e, h) <=> h \in ToSet(list))
           /\ rest' \in [Ends -> Seq(Ends)] /\ myIds' \in [Ends -> Seq(Ends)]
           /\ reply' \in [Ends -> Ends \cup {None}]
           /\ rest'[e] = Remaining(list)
           /\ IsInjective(rest'[e]) /\ ToSet(rest'[e]) \subseteq ToSet(rest[e])
           /\ \A x \in Ends : x # e => myIds'[x] = myIds[x] /\ rest'[x] = rest[x]
           /\ Uncounted(list) \in [Ends -> Int]
           /\ \A h \in Ends : ~Closed(h) =>
                Uncounted(list)[h] =
                  IF h \in ToSet(list) /\ h \notin ToSet(Remaining(list))
                  THEN refcount[h] - 1 ELSE refcount[h]
<1> USE DEF CountInv, PairInv
<1> DEFINE e == Client(c)
           list == rest[e]
<1>0. e \in Ends
  BY EndsOfConns
<1>1. DropHolds(e, list, tag) /\ pc[e] \in {"recvReply", "dropping"}
  OBVIOUS
<1> HIDE DEF e
<1>2. list \in Seq(Ends) /\ IsInjective(list) /\ handle[e] = None
  BY <1>0, <1>1 DEF Types, Listed
<1>3. \A h \in Ends : ~Closed(h) => (CountsOn(e, h) <=> h \in ToSet(list))
  <2>1. \A h \in Ends : CountsOn(e, h) <=> h \in ToSet(myIds[e]) \cap ToSet(list)
    BY <1>1 DEF CountsOn
  <2>2. \A h \in ToSet(list) : Closed(h) \/ h \in ToSet(myIds[e])
    BY <1>0, <1>1 DEF Listed
  <2> QED BY <2>1, <2>2
<1>4. /\ Remaining(list) \in Seq(Ends) /\ IsInjective(Remaining(list))
      /\ ToSet(Remaining(list)) \subseteq ToSet(list)
      /\ \A h \in Ends : ~Closed(h) =>
           (h \in Dropped(list) <=> h \in ToSet(list) /\ h \notin ToSet(Remaining(list)))
  BY <1>2, DropFacts
<1>5. /\ rest' = [rest EXCEPT ![e] = Remaining(list)]
      /\ \/ myIds' = [myIds EXCEPT ![e] = myIds[e]] /\ reply' = [reply EXCEPT ![e] = tag]
         \/ myIds' = [myIds EXCEPT ![e] = <<>>] /\ reply' = [reply EXCEPT ![e] = None]
  BY <1>1, DropHoldsIs
<1>6. /\ rest' \in [Ends -> Seq(Ends)] /\ rest'[e] = Remaining(list)
      /\ \A x \in Ends : x # e => rest'[x] = rest[x]
  BY <1>0, <1>4, <1>5 DEF Types
<1>7. /\ myIds' \in [Ends -> Seq(Ends)] /\ reply' \in [Ends -> Ends \cup {None}]
      /\ \A x \in Ends : x # e => myIds'[x] = myIds[x]
  <2>1. <<>> \in Seq(Ends) /\ myIds[e] \in Seq(Ends)
    BY <1>0, EmptySeq DEF Types
  <2>2. PICK s \in Seq(Ends) : myIds' = [myIds EXCEPT ![e] = s]
    BY <1>5, <2>1
  <2>3. PICK v \in Ends \cup {None} : reply' = [reply EXCEPT ![e] = v]
    BY <1>5
  <2> QED BY <2>2, <2>3 DEF Types
<1>8. Uncounted(list) \in [Ends -> Int]
  BY DEF Uncounted, Types
<1>9. \A h \in Ends : Uncounted(list)[h] =
        IF h \in Dropped(list) THEN refcount[h] - 1 ELSE refcount[h]
  BY DEF Uncounted
<1> HIDE DEF list
<1>10. \A h \in Ends : ~Closed(h) =>
         Uncounted(list)[h] =
           IF h \in ToSet(list) /\ h \notin ToSet(Remaining(list))
           THEN refcount[h] - 1 ELSE refcount[h]
  BY <1>4, <1>9
<1> QED BY <1>2, <1>3, <1>4, <1>6, <1>7, <1>8, <1>10 DEF e, list

\* A client goes on with an answer it has just received or has held on to.
TakesAnswer(c, tag) ==
    /\ tag \in Ends \cup {None} /\ AnswerIs(c, tag)
    /\ pc[Client(c)] \in {"recvReply", "dropping"}
    /\ pc[Server(c)] \notin {"idle", "recvInfo", "recvIds"}
    /\ DropHolds(Client(c), rest[Client(c)], tag)
    /\ sendTag' = sendTag /\ stream' = stream
    /\ net' \in [Ends -> Seq(Seq(Ends)) \cup Seq(Ends \cup {None})]
    /\ \A d \in Conns : /\ net'[Client(d)] = net[Client(d)]
                        /\ net'[Server(d)] \in Seq(Ends \cup {None})
                        /\ net[Server(d)] = <<>> => net'[Server(d)] = <<>>
                        /\ ToSet(net'[Server(d)]) \subseteq ToSet(net[Server(d)])

\* The answers the clients have then are those they had, or the one taken.
LEMMA TakesTold ==
    ASSUME CountInv, NEW c \in Conns, NEW tag, TakesAnswer(c, tag),
           \/ reply' = [reply EXCEPT ![Client(c)] = tag]
           \/ pc'[Client(c)] # "dropping" /\ reply' = [reply EXCEPT ![Client(c)] = None],
           \A x \in Ends : x # Client(c) => pc'[x] = pc[x]
    PROVE  \A d \in Conns : \A v \in Told(d)' : AnswerIs(d, v)
<1> USE DEF CountInv, PairInv
<1> SUFFICES ASSUME NEW d \in Conns, NEW v \in Told(d)' PROVE AnswerIs(d, v)
  OBVIOUS
<1>1. ToSet(net'[Server(d)]) \subseteq ToSet(net[Server(d)]) /\ Client(d) \in Ends
  BY EndsOfConns DEF TakesAnswer
<1>2. v \in ToSet(net'[Server(d)]) \/ (pc'[Client(d)] = "dropping" /\ v = reply'[Client(d)])
  BY DEF Told
<1>3. CASE v \in ToSet(net'[Server(d)])
  <2>1. v \in Told(d)
    BY <1>1, <1>3 DEF Told
  <2> QED BY <2>1 DEF Answers
<1>4. CASE pc'[Client(d)] = "dropping" /\ v = reply'[Client(d)] /\ Client(d) # Client(c)
  <2>1. v = reply[Client(d)] /\ pc[Client(d)] = "dropping"
    BY <1>1, <1>4 DEF Types
  <2>2. v \in Told(d)
    BY <2>1 DEF Told
  <2> QED BY <2>2 DEF Answers
<1>5. CASE pc'[Client(d)] = "dropping" /\ v = reply'[Client(d)] /\ Client(d) = Client(c)
  <2>1. d = c
    BY <1>5, EndsOfConns
  <2>2. v = tag
    BY <1>1, <1>5 DEF Types
  <2> QED BY <2>1, <2>2 DEF TakesAnswer
<1> QED BY <1>2, <1>3, <1>4, <1>5

\* It drops some of its counts and waits for a close().
LEMMA DropsOn ==
    ASSUME CountInv, NEW c \in Conns, NEW tag, TakesAnswer(c, tag),
           LastOnes(rest[Client(c)]) # {}
    PROVE  CountInv'
<1> USE DEF CountInv, PairInv
<1> DEFINE e == Client(c)
           list == rest[e]
           x0 == list[CameTo(list)]
<1>0. e \in Ends /\ (\A d \in Conns : e = Client(d) => d = c) /\ (\A d \in Conns : e # Server(d))
  BY EndsOfConns
<1>1. /\ DropHolds(e, list, tag) /\ pc[e] \in {"recvReply", "dropping"}
      /\ tag \in Ends \cup {None} /\ sendTag' = sendTag /\ stream' = stream
      /\ pc[Server(c)] \notin {"idle", "recvInfo", "recvIds"}
      /\ net' \in [Ends -> Seq(Seq(Ends)) \cup Seq(Ends \cup {None})]
  BY DEF TakesAnswer
<1>2. /\ list \in Seq(Ends) /\ IsInjective(list) /\ handle[e] = None
      /\ \A h \in Ends : ~Closed(h) => (CountsOn(e, h) <=> h \in ToSet(list))
      /\ rest' \in [Ends -> Seq(Ends)] /\ myIds' \in [Ends -> Seq(Ends)]
      /\ reply' \in [Ends -> Ends \cup {None}]
      /\ rest'[e] = Remaining(list)
      /\ IsInjective(rest'[e]) /\ ToSet(rest'[e]) \subseteq ToSet(rest[e])
      /\ \A x \in Ends : x # e => myIds'[x] = myIds[x] /\ rest'[x] = rest[x]
      /\ Uncounted(list) \in [Ends -> Int]
      /\ \A h \in Ends : ~Closed(h) =>
           Uncounted(list)[h] =
             IF h \in ToSet(list) /\ h \notin ToSet(Remaining(list))
             THEN refcount[h] - 1 ELSE refcount[h]
  BY <1>1, DropFrame
<1>3. x0 \in Ends
  BY <1>2, DropFacts
<1>4. /\ myIds' = [myIds EXCEPT ![e] = myIds[e]] /\ reply' = [reply EXCEPT ![e] = tag]
      /\ refcount' = Uncounted(list) /\ CloseBegins(x0) /\ target' = [target EXCEPT ![e] = x0]
      /\ pc' = [pc EXCEPT ![e] = "dropping"] /\ existing' = existing /\ handle' = handle
  BY <1>1, DropHoldsIs
<1>5. reply' = [reply EXCEPT ![Client(c)] = tag]
  BY <1>4
<1> HIDE DEF x0
<1>6. /\ ep' \in [Ends -> {"none", "raw", "open", "closing", "closed"}]
      /\ \A x \in Ends : Closed(x)' <=> Closed(x)
  BY <1>3, <1>4 DEF Types, Closed, CloseBegins
<1>7. /\ target' \in [Ends -> Ends \cup {None}] /\ refcount' \in [Ends -> Int]
      /\ myIds'[e] = myIds[e] /\ handle' = [handle EXCEPT ![e] = None]
  BY <1>0, <1>2, <1>3, <1>4 DEF Types
<1>8. \A x \in Ends : (x # e => pc'[x] = pc[x]) /\ pc'[e] = "dropping"
  BY <1>0, <1>4 DEF Types
<1>9. \A d \in Conns : \A v \in Told(d)' : AnswerIs(d, v)
  BY <1>5, <1>8, TakesTold
<1>10. \A d \in Conns : /\ net'[Client(d)] = net[Client(d)]
                        /\ net'[Server(d)] \in Seq(Ends \cup {None})
                        /\ net[Server(d)] = <<>> => net'[Server(d)] = <<>>
  BY DEF TakesAnswer
<1>11. PairInv' /\ Listed'
  <2>1. \A d \in Conns :
           /\ e = Client(d) => pc[Server(d)] \notin {"idle", "recvInfo", "recvIds"}
           /\ e # Server(d)
    BY <1>0, <1>1
  <2> HIDE DEF e, list
  <2>2. "dropping" \in {"dropping", "closeNew", "using"} /\ None \in Ends \cup {None}
        /\ pc[e] \in {"recvReply", "dropping", "sendReply"} /\ pc[e] # "sendReply"
    BY <1>1
  <2> QED BY <1>0, <1>1, <1>2, <1>4, <1>6, <1>7, <1>9, <1>10, <2>1, <2>2, GoesOnInv
<1> HIDE DEF e, list
<1>12. CountExact'
  <2> SUFFICES ASSUME NEW h \in Ends, h \in ToSet(existing[Proc(h)]), ~Closed(h)
               PROVE  refcount'[h] = Cardinality({x \in Ends : CountsOn(x, h)'})
    BY <1>4, <1>6 DEF CountExact
  <2>1. \A x \in Ends : x # e => (CountsOn(x, h)' <=> CountsOn(x, h))
    BY <1>2, <1>4, <1>8 DEF CountsOn
  <2>2. CountsOn(e, h) <=> h \in ToSet(list)
    BY <1>2
  <2>3. CountsOn(e, h)' <=> h \in ToSet(Remaining(list))
    <3>1. CountsOn(e, h)' <=> h \in ToSet(myIds[e]) \cap ToSet(Remaining(list))
      BY <1>0, <1>2, <1>7, <1>8 DEF CountsOn
    <3>2. \A x \in ToSet(list) : Closed(x) \/ x \in ToSet(myIds[e])
      BY <1>0, <1>1 DEF Listed, list
    <3>3. ToSet(Remaining(list)) \subseteq ToSet(list)
      BY <1>2, DropFacts
    <3> QED BY <3>1, <3>2, <3>3
  <2>4. ToSet(Remaining(list)) \subseteq ToSet(list)
    BY <1>2, DropFacts
  <2>5. refcount'[h] = IF h \in ToSet(list) /\ h \notin ToSet(Remaining(list))
                       THEN refcount[h] - 1 ELSE refcount[h]
    BY <1>2, <1>4
  <2>6. refcount[h] \in Int
    BY DEF Types
  <2>7. refcount'[h] = refcount[h] - (IF CountsOn(e, h) THEN 1 ELSE 0)
                                   + (IF CountsOn(e, h)' THEN 1 ELSE 0)
    <3>1. CASE h \in ToSet(list) /\ h \notin ToSet(Remaining(list))
      BY <2>2, <2>3, <2>5, <2>6, <3>1
    <3>2. CASE h \in ToSet(list) /\ h \in ToSet(Remaining(list))
      BY <2>2, <2>3, <2>5, <2>6, <3>2
    <3>3. CASE h \notin ToSet(list)
      BY <2>2, <2>3, <2>4, <2>5, <2>6, <3>3
    <3> QED BY <3>1, <3>2, <3>3
  <2> QED BY <1>0, <2>1, <2>6, <2>7, CountMoves
<1> QED BY <1>11, <1>12

\* It has dropped its counts and goes on with an endpoint that it has.
LEMMA AdoptsShared ==
    ASSUME CountInv, NEW c \in Conns, NEW tag, TakesAnswer(c, tag),
           LastOnes(rest[Client(c)]) = {}, tag # None
    PROVE  CountInv'
<1> USE DEF CountInv, PairInv
<1> DEFINE e == Client(c)
           list == rest[e]
           g == Peer(tag)
<1>0. e \in Ends /\ (\A d \in Conns : e = Client(d) => d = c) /\ (\A d \in Conns : e # Server(d))
  BY EndsOfConns
<1>1. /\ DropHolds(e, list, tag) /\ pc[e] \in {"recvReply", "dropping"}
      /\ tag \in Ends /\ tag \in Ends \cup {None} /\ sendTag' = sendTag /\ stream' = stream
      /\ pc[Server(c)] \notin {"idle", "recvInfo", "recvIds"}
      /\ net' \in [Ends -> Seq(Seq(Ends)) \cup Seq(Ends \cup {None})]
      /\ handle[Server(c)] = tag /\ g \in ToSet(existing[From[c]])
  BY DEF TakesAnswer, AnswerIs
<1>2. /\ list \in Seq(Ends) /\ IsInjective(list) /\ handle[e] = None
      /\ \A h \in Ends : ~Closed(h) => (CountsOn(e, h) <=> h \in ToSet(list))
      /\ rest' \in [Ends -> Seq(Ends)] /\ myIds' \in [Ends -> Seq(Ends)]
      /\ reply' \in [Ends -> Ends \cup {None}]
      /\ rest'[e] = Remaining(list)
      /\ IsInjective(rest'[e]) /\ ToSet(rest'[e]) \subseteq ToSet(rest[e])
      /\ \A x \in Ends : x # e => myIds'[x] = myIds[x] /\ rest'[x] = rest[x]
      /\ Uncounted(list) \in [Ends -> Int]
      /\ \A h \in Ends : ~Closed(h) =>
           Uncounted(list)[h] =
             IF h \in ToSet(list) /\ h \notin ToSet(Remaining(list))
             THEN refcount[h] - 1 ELSE refcount[h]
  BY <1>1, DropFrame
<1>3. /\ g \in Ends /\ Peer(g) = tag /\ g # None /\ Proc(e) = From[c] /\ Proc(e) \in Procs
      /\ g \in Ends \cup {None}
  BY <1>0, <1>1, EndsOfConns
<1>4. Lookup(Proc(e), tag) = g
  <2> HIDE DEF e
  <2>1. g \in ToSet(existing[Proc(e)])
    BY <1>1, <1>3
  <2> QED BY <1>1, <1>3, <2>1, LookupIs
<1>5. /\ myIds' = [myIds EXCEPT ![e] = <<>>] /\ reply' = [reply EXCEPT ![e] = None]
      /\ Adopt(e, tag, Uncounted(list))
  BY <1>1, DropHoldsIs
<1> HIDE DEF g
<1>6. /\ refcount' = [x \in Ends |-> IF x = g THEN Uncounted(list)[x] + 1 ELSE Uncounted(list)[x]]
      /\ handle' = [handle EXCEPT ![e] = g] /\ CloseBegins(e)
      /\ target' = [target EXCEPT ![e] = e] /\ pc' = [pc EXCEPT ![e] = "closeNew"]
      /\ existing' = existing
  <2>1. tag # None /\ Adopt(e, tag, Uncounted(list))
    BY <1>5
  <2> HIDE DEF e, list
  <2> QED BY <1>3, <1>4, <2>1 DEF Adopt, Goto
<1>7. /\ ep' \in [Ends -> {"none", "raw", "open", "closing", "closed"}]
      /\ \A x \in Ends : Closed(x)' <=> Closed(x)
  BY <1>0, <1>6 DEF Types, Closed, CloseBegins
<1>8. /\ target' \in [Ends -> Ends \cup {None}] /\ refcount' \in [Ends -> Int]
      /\ myIds'[e] = <<>>
  <2> HIDE DEF list
  <2>1. target' \in [Ends -> Ends \cup {None}] /\ myIds'[e] = <<>>
    BY <1>0, <1>5, <1>6 DEF Types
  <2>2. refcount' \in [Ends -> Int]
    BY <1>2, <1>6
  <2> QED BY <2>1, <2>2
<1>9. /\ \A x \in Ends : x # e => pc'[x] = pc[x] /\ handle'[x] = handle[x]
      /\ pc'[e] = "closeNew" /\ handle'[e] = g
  BY <1>0, <1>6 DEF Types
<1>10. \A d \in Conns : \A v \in Told(d)' : AnswerIs(d, v)
  <2>1. pc'[Client(c)] # "dropping" /\ reply' = [reply EXCEPT ![Client(c)] = None]
    BY <1>5, <1>9
  <2> QED BY <1>9, <2>1, TakesTold
<1>11. \A d \in Conns : /\ net'[Client(d)] = net[Client(d)]
                        /\ net'[Server(d)] \in Seq(Ends \cup {None})
                        /\ net[Server(d)] = <<>> => net'[Server(d)] = <<>>
  BY DEF TakesAnswer
<1>12. PairInv' /\ Listed'
  <2>1. \A d \in Conns :
           /\ e = Client(d) => pc[Server(d)] \notin {"idle", "recvInfo", "recvIds"}
           /\ e = Client(d) /\ g # None =>
                \/ handle[Server(d)] = Peer(g)
                \/ handle[Server(d)] = None /\ g = e
           /\ e = Server(d) => g = handle[e] \/ (handle[e] = None /\ g = e)
    BY <1>0, <1>1, <1>3
  <2>2. g \in ToSet(existing'[Proc(e)])
    BY <1>1, <1>3, <1>6 DEF g
  <2> HIDE DEF e, list
  <2>3. /\ "closeNew" \in {"dropping", "closeNew", "using"}
        /\ pc[e] \in {"recvReply", "dropping", "sendReply"}
    BY <1>1
  <2>4. /\ "closeNew" # "dropping" /\ g # None /\ myIds'[e] = <<>> /\ existing' = existing
        /\ sendTag' = sendTag /\ stream' = stream
    BY <1>1, <1>3, <1>6, <1>8
  <2>5. /\ rest' \in [Ends -> Seq(Ends)] /\ myIds' \in [Ends -> Seq(Ends)]
        /\ reply' \in [Ends -> Ends \cup {None}]
        /\ IsInjective(rest'[e]) /\ ToSet(rest'[e]) \subseteq ToSet(rest[e])
        /\ \A x \in Ends : x # e => myIds'[x] = myIds[x] /\ rest'[x] = rest[x]
        /\ net' \in [Ends -> Seq(Seq(Ends)) \cup Seq(Ends \cup {None})]
    BY <1>1, <1>2
  <2>6. g \in Ends \cup {None} /\ handle' = [handle EXCEPT ![e] = g]
        /\ pc' = [pc EXCEPT ![e] = "closeNew"]
    BY <1>3, <1>6
  <2> QED BY <1>0, <1>7, <1>8, <1>10, <1>11, <2>1, <2>2, <2>3, <2>4, <2>5, <2>6, GoesOnInv
<1> HIDE DEF e, list
<1>13. CountExact'
  <2> SUFFICES ASSUME NEW h \in Ends, h \in ToSet(existing[Proc(h)]), ~Closed(h)
               PROVE  refcount'[h] = Cardinality({x \in Ends : CountsOn(x, h)'})
    BY <1>6, <1>7 DEF CountExact
  <2>1. \A x \in Ends : x # e => (CountsOn(x, h)' <=> CountsOn(x, h))
    BY <1>2, <1>9 DEF CountsOn
  <2>2. CountsOn(e, h) <=> h \in ToSet(list)
    BY <1>2
  <2>3. CountsOn(e, h)' <=> h = g
    BY <1>9 DEF CountsOn
  <2>4. h \notin ToSet(Remaining(list))
    <3>1. LastOnes(list) = {}
      BY DEF list, e
    <3>2. Remaining(list) = <<>>
      BY <1>2, <3>1, DropFacts
    <3> QED BY <3>2, ToSetEmpty
  <2>5. Uncounted(list)[h] = IF h \in ToSet(list) THEN refcount[h] - 1 ELSE refcount[h]
    BY <1>2, <2>4
  <2>6. refcount[h] \in Int
    BY DEF Types
  <2>7. refcount'[h] = IF h = g THEN Uncounted(list)[h] + 1 ELSE Uncounted(list)[h]
    BY <1>6
  <2>8. refcount'[h] = refcount[h] - (IF CountsOn(e, h) THEN 1 ELSE 0)
                                   + (IF CountsOn(e, h)' THEN 1 ELSE 0)
    <3>1. CASE h \in ToSet(list)
      BY <2>2, <2>3, <2>5, <2>6, <2>7, <3>1
    <3>2. CASE h \notin ToSet(list)
      BY <2>2, <2>3, <2>5, <2>6, <2>7, <3>2
    <3> QED BY <3>1, <3>2
  <2> QED BY <1>0, <2>1, <2>6, <2>8, CountMoves
<1> QED BY <1>12, <1>13

\* It has dropped its counts and goes on with the new endpoint.
LEMMA AdoptsNew ==
    ASSUME CountInv, NEW c \in Conns, NEW tag, TakesAnswer(c, tag),
           LastOnes(rest[Client(c)]) = {}, tag = None
    PROVE  CountInv'
<1> USE DEF CountInv, PairInv
<1> DEFINE e == Client(c)
           list == rest[e]
<1>0. e \in Ends /\ (\A d \in Conns : e = Client(d) => d = c) /\ (\A d \in Conns : e # Server(d))
  BY EndsOfConns
<1>1. /\ DropHolds(e, list, tag) /\ pc[e] \in {"recvReply", "dropping"}
      /\ tag \in Ends \cup {None} /\ sendTag' = sendTag /\ stream' = stream
      /\ pc[Server(c)] \notin {"idle", "recvInfo", "recvIds"}
      /\ net' \in [Ends -> Seq(Seq(Ends)) \cup Seq(Ends \cup {None})]
      /\ handle[Server(c)] \in {None, Server(c)}
  BY DEF TakesAnswer, AnswerIs
<1>2. /\ list \in Seq(Ends) /\ IsInjective(list) /\ handle[e] = None
      /\ \A h \in Ends : ~Closed(h) => (CountsOn(e, h) <=> h \in ToSet(list))
      /\ rest' \in [Ends -> Seq(Ends)] /\ myIds' \in [Ends -> Seq(Ends)]
      /\ reply' \in [Ends -> Ends \cup {None}]
      /\ rest'[e] = Remaining(list)
      /\ IsInjective(rest'[e]) /\ ToSet(rest'[e]) \subseteq ToSet(rest[e])
      /\ \A x \in Ends : x # e => myIds'[x] = myIds[x] /\ rest'[x] = rest[x]
      /\ Uncounted(list) \in [Ends -> Int]
      /\ \A h \in Ends : ~Closed(h) =>
           Uncounted(list)[h] =
             IF h \in ToSet(list) /\ h \notin ToSet(Remaining(list))
             THEN refcount[h] - 1 ELSE refcount[h]
  BY <1>1, DropFrame
<1>3. Peer(e) = Server(c) /\ e # None /\ Proc(e) \in Procs /\ e \in Ends \cup {None}
  BY <1>0, EndsOfConns
<1>4. /\ myIds' = [myIds EXCEPT ![e] = <<>>] /\ reply' = [reply EXCEPT ![e] = None]
      /\ Adopt(e, tag, Uncounted(list))
  BY <1>1, DropHoldsIs
<1>5. /\ existing' = [existing EXCEPT ![Proc(e)] = Append(existing[Proc(e)], e)]
      /\ refcount' = [Uncounted(list) EXCEPT ![e] = 1] /\ handle' = [handle EXCEPT ![e] = e]
      /\ target' = [target EXCEPT ![e] = None] /\ pc' = [pc EXCEPT ![e] = "using"]
      /\ ep' = ep
  <2> HIDE DEF e, list
  <2> QED BY <1>4 DEF Adopt, Register, Goto
<1>6. \A x \in Ends : Closed(x)' <=> Closed(x)
  BY <1>5 DEF Closed
<1>7. /\ target' \in [Ends -> Ends \cup {None}] /\ refcount' \in [Ends -> Int]
      /\ myIds'[e] = <<>> /\ ep' \in [Ends -> {"none", "raw", "open", "closing", "closed"}]
  <2> HIDE DEF list
  <2>1. target' \in [Ends -> Ends \cup {None}] /\ myIds'[e] = <<>>
    BY <1>0, <1>4, <1>5 DEF Types
  <2>2. refcount' \in [Ends -> Int]
    <3>1. ASSUME NEW one \in Int PROVE [Uncounted(list) EXCEPT ![e] = one] \in [Ends -> Int]
      BY <1>2
    <3> QED BY <1>5, <3>1
  <2> QED BY <1>5, <2>1, <2>2 DEF Types
<1>8. /\ \A x \in Ends : x # e => pc'[x] = pc[x] /\ handle'[x] = handle[x]
      /\ pc'[e] = "using" /\ handle'[e] = e
  BY <1>0, <1>5 DEF Types
<1>9. \A d \in Conns : \A v \in Told(d)' : AnswerIs(d, v)
  <2>1. pc'[Client(c)] # "dropping" /\ reply' = [reply EXCEPT ![Client(c)] = None]
    BY <1>4, <1>8
  <2> QED BY <1>8, <2>1, TakesTold
<1>10. \A d \in Conns : /\ net'[Client(d)] = net[Client(d)]
                        /\ net'[Server(d)] \in Seq(Ends \cup {None})
                        /\ net[Server(d)] = <<>> => net'[Server(d)] = <<>>
  BY DEF TakesAnswer
<1>11. pc[e] \notin Settled \cup Untold /\ e \notin ToSet(existing[Proc(e)])
  <2>1. pc[e] \notin Settled \cup Untold
    BY <1>1 DEF Settled, Untold
  <2> QED BY <1>3, <2>1 DEF Filed
<1>12. \A p \in Procs : ToSet(existing'[p]) =
         ToSet(existing[p]) \cup (IF p = Proc(e) THEN {e} ELSE {})
  <2> HIDE DEF e, list
  <2> QED BY <1>0, <1>5, <1>11, FiledAppend
<1>13. PairInv' /\ Listed'
  <2>1. \A d \in Conns :
           /\ e = Client(d) => pc[Server(d)] \notin {"idle", "recvInfo", "recvIds"}
           /\ e = Client(d) /\ e # None =>
                \/ handle[Server(d)] = Peer(e)
                \/ handle[Server(d)] = None /\ e = e
           /\ e # Server(d)
    BY <1>0, <1>1, <1>3
  <2>2. e \in ToSet(existing'[Proc(e)])
    BY <1>3, <1>12
  <2> HIDE DEF e, list
  <2>3. /\ "using" \in {"dropping", "closeNew", "using"} /\ "using" = "using" /\ e = e
        /\ pc[e] \in {"recvReply", "dropping", "sendReply"}
    BY <1>1
  <2> QED BY <1>0, <1>1, <1>2, <1>3, <1>5, <1>6, <1>7, <1>9, <1>10, <2>1, <2>2, <2>3, GoesOnInv
<1> HIDE DEF e, list
<1>14. CountExact'
  <2> SUFFICES ASSUME NEW h \in Ends, h \in ToSet(existing'[Proc(h)]), ~Closed(h)
               PROVE  refcount'[h] = Cardinality({x \in Ends : CountsOn(x, h)'})
    BY <1>6 DEF CountExact
  <2>1. \A x \in Ends : x # e => (CountsOn(x, h)' <=> CountsOn(x, h))
    BY <1>2, <1>8 DEF CountsOn
  <2>2. CountsOn(e, h) <=> h \in ToSet(list)
    BY <1>2
  <2>3. CountsOn(e, h)' <=> h = e
    BY <1>8 DEF CountsOn
  <2>4. CASE h = e
    <3>1. \A x \in Ends : x # e => (CountsOn(x, e)' <=> CountsOn(x, e))
      BY <2>1, <2>4
    <3>2. CountsOn(e, e)' /\ refcount'[e] = 1
      BY <1>0, <1>2, <1>5, <2>3, <2>4
    <3> QED BY <1>0, <1>11, <2>1, <2>3, <2>4, <3>1, <3>2, CountsOnNew
  <2>5. CASE h # e
    <3>1. h \in ToSet(existing[Proc(h)])
      <4>1. Proc(h) \in Procs
        BY EndsOfConns
      <4> QED BY <1>12, <2>5, <4>1
    <3>2. h \notin ToSet(Remaining(list))
      <4>1. LastOnes(list) = {}
        BY DEF list, e
      <4>2. Remaining(list) = <<>>
        BY <1>2, <4>1, DropFacts
      <4> QED BY <4>2, ToSetEmpty
    <3>3. refcount[h] \in Int
      BY DEF Types
    <3>4. refcount'[h] = IF h \in ToSet(list) THEN refcount[h] - 1 ELSE refcount[h]
      <4>1. refcount'[h] = Uncounted(list)[h]
        BY <1>2, <1>5, <2>5
      <4> QED BY <1>2, <3>2, <4>1
    <3>5. refcount'[h] = refcount[h] - (IF CountsOn(e, h) THEN 1 ELSE 0)
                                     + (IF CountsOn(e, h)' THEN 1 ELSE 0)
      <4>1. CASE h \in ToSet(list)
        BY <2>2, <2>3, <2>5, <3>3, <3>4, <4>1
      <4>2. CASE h \notin ToSet(list)
        BY <2>2, <2>3, <2>5, <3>3, <3>4, <4>2
      <4> QED BY <4>1, <4>2
    <3> QED BY <1>0, <2>1, <3>1, <3>3, <3>5, CountMoves
  <2> QED BY <2>4, <2>5
<1> QED BY <1>13, <1>14

\* The client goes on with an answer.
LEMMA TakesAnswerInv ==
    ASSUME CountInv, NEW c \in Conns, NEW tag, TakesAnswer(c, tag)
    PROVE  CountInv'
BY DropsOn, AdoptsShared, AdoptsNew

LEMMA RecvReplyInv ==
    ASSUME CountInv, NEW c \in Conns, RecvReply(c)
    PROVE  CountInv'
<1> USE DEF CountInv, PairInv
<1> DEFINE e == Client(c)
           s == Server(c)
           tag == Head(net[s])
<1>0. e \in Ends /\ s \in Ends /\ Peer(e) = s /\ e # s
  BY EndsOfConns
<1>1. \A d \in Conns : /\ Client(d) \in Ends /\ Server(d) \in Ends /\ Client(d) # s
                       /\ d # c => Server(d) # s
  BY EndsOfConns
<1>2. /\ pc[e] = "recvReply" /\ net[s] # <<>>
      /\ net' = [net EXCEPT ![s] = Tail(net[s])]
      /\ DropHolds(e, rest[e], tag) /\ sendTag' = sendTag /\ stream' = stream
  BY <1>0 DEF RecvReply
<1>3. net[s] \in Seq(Ends \cup {None}) /\ pc[s] \notin {"idle", "recvInfo", "recvIds"}
  BY <1>0, <1>2 DEF Sides, Unanswered
<1>4. tag \in ToSet(net[s]) /\ Tail(net[s]) \in Seq(Ends \cup {None})
      /\ ToSet(Tail(net[s])) \subseteq ToSet(net[s])
  BY <1>2, <1>3, ToSetTail, HeadTailProperties
<1>5. tag \in Ends \cup {None} /\ AnswerIs(c, tag)
  <2>1. tag \in Told(c)
    BY <1>4 DEF Told
  <2>2. tag \in Ends \cup {None}
    BY <1>2, <1>3, HeadTailProperties
  <2> QED BY <2>1, <2>2 DEF Answers
<1> HIDE DEF tag
<1>6. /\ net' \in [Ends -> Seq(Seq(Ends)) \cup Seq(Ends \cup {None})]
      /\ net'[s] = Tail(net[s])
      /\ \A x \in Ends : x # s => net'[x] = net[x]
  <2> HIDE DEF s
  <2> QED BY <1>0, <1>2, <1>4 DEF Types
<1>7. ASSUME NEW d \in Conns
      PROVE  /\ net'[Client(d)] = net[Client(d)]
             /\ net'[Server(d)] \in Seq(Ends \cup {None})
             /\ net[Server(d)] = <<>> => net'[Server(d)] = <<>>
             /\ ToSet(net'[Server(d)]) \subseteq ToSet(net[Server(d)])
  <2>1. net'[Client(d)] = net[Client(d)]
    BY <1>1, <1>6
  <2>2. CASE d = c
    <3> HIDE DEF s
    <3>1. Server(d) = s
      BY <2>2 DEF s
    <3> QED BY <1>2, <1>4, <1>6, <2>1, <3>1
  <2>3. CASE d # c
    <3>1. net'[Server(d)] = net[Server(d)] /\ net[Server(d)] \in Seq(Ends \cup {None})
      BY <1>1, <1>6, <2>3 DEF Sides
    <3> QED BY <2>1, <3>1
  <2> QED BY <2>2, <2>3
<1>8. TakesAnswer(c, tag)
  <2>1. pc[e] \in {"recvReply", "dropping"}
    BY <1>2
  <2> QED BY <1>2, <1>3, <1>5, <1>6, <1>7, <2>1 DEF TakesAnswer
<1> QED BY <1>8, TakesAnswerInv

LEMMA GoOnDroppingInv ==
    ASSUME CountInv, NEW c \in Conns, GoOnDropping(c)
    PROVE  CountInv'
<1> USE DEF CountInv, PairInv
<1> DEFINE e == Client(c)
           tag == reply[e]
<1>0. e \in Ends /\ \A d \in Conns : Client(d) \in Ends /\ Server(d) \in Ends
  BY EndsOfConns
<1>1. /\ pc[e] = "dropping" /\ DropHolds(e, rest[e], tag) /\ net' = net
      /\ sendTag' = sendTag /\ stream' = stream
  BY DEF GoOnDropping
<1>2. pc[Server(c)] \notin {"idle", "recvInfo", "recvIds"}
  BY <1>1 DEF Unanswered
<1>3. tag \in Ends \cup {None} /\ AnswerIs(c, tag)
  <2>1. tag \in Told(c)
    BY <1>1 DEF Told
  <2> QED BY <1>0, <2>1 DEF Answers, Types
<1>4. /\ net' \in [Ends -> Seq(Seq(Ends)) \cup Seq(Ends \cup {None})]
      /\ \A d \in Conns : /\ net'[Client(d)] = net[Client(d)]
                          /\ net'[Server(d)] \in Seq(Ends \cup {None})
                          /\ net[Server(d)] = <<>> => net'[Server(d)] = <<>>
                          /\ ToSet(net'[Server(d)]) \subseteq ToSet(net[Server(d)])
  BY <1>0, <1>1 DEF Types, Sides
<1>5. TakesAnswer(c, tag)
  <2>1. pc[e] \in {"recvReply", "dropping"}
    BY <1>1
  <2> QED BY <1>1, <1>2, <1>3, <1>4, <2>1 DEF TakesAnswer
<1> QED BY <1>5, TakesAnswerInv

-----------------------------------------------------------------------------
(* The theorems.                                                            *)

\* A step that changes nothing.
LEMMA StutterInv ==
    ASSUME CountInv, UNCHANGED vars PROVE CountInv'
<1> USE DEF CountInv, PairInv
<1>1. /\ ep' = ep /\ sendTag' = sendTag /\ stream' = stream /\ pc' = pc /\ net' = net
      /\ existing' = existing /\ refcount' = refcount /\ myIds' = myIds /\ rest' = rest
      /\ reply' = reply /\ target' = target /\ handle' = handle
  BY DEF vars, exchangeVars, reuseVars
<1>2. Types' /\ Sides' /\ NoKeyError'
  BY <1>1 DEF Types, Sides, NoKeyError
<1>3. Tags' /\ Filed' /\ Unanswered'
  BY <1>1 DEF Tags, Filed, Unanswered
<1>4. Offers' /\ Answers' /\ Paired'
  BY <1>1 DEF Offers, Answers, Paired, Told, AnswerIs
<1>5. Listed'
  BY <1>1 DEF Listed, Closed
<1>6. CountExact'
  <2>1. \A h \in Ends : \A x \in Ends : CountsOn(x, h)' <=> CountsOn(x, h)
    BY <1>1 DEF CountsOn
  <2>2. \A h \in Ends : Closed(h)' <=> Closed(h)
    BY <1>1 DEF Closed
  <2> QED BY <1>1, <2>1, <2>2, CountKept
<1> QED BY <1>2, <1>3, <1>4, <1>5, <1>6

\* Every step keeps the invariant.
LEMMA NextInv == CountInv /\ [Next]_vars => CountInv'
<1> SUFFICES ASSUME CountInv, [Next]_vars PROVE CountInv'
  OBVIOUS
<1>1. ASSUME NEW c \in Conns, ClientStep(c) PROVE CountInv'
  <2>1. CASE ClientInfoReceived(c) /\ UNCHANGED reuseVars
    BY <2>1, ClientInfoReceivedInv
  <2>2. CASE SendIds(c)
    BY <2>2, SendIdsInv
  <2>3. CASE RecvReply(c)
    BY <2>3, RecvReplyInv
  <2>4. CASE GoOnDropping(c)
    BY <2>4, GoOnDroppingInv
  <2> QED BY <1>1, <2>1, <2>2, <2>3, <2>4 DEF ClientStep
<1>2. ASSUME NEW c \in Conns, ServerStep(c) PROVE CountInv'
  <2>1. CASE ListenerHandler(c) /\ UNCHANGED reuseVars
    BY <2>1, ListenerHandlerInv
  <2>2. CASE RecvIdsCall(c)
    BY <2>2, RecvIdsCallInv
  <2>3. CASE RecvIds(c)
    BY <2>3, RecvIdsInv
  <2>4. CASE ReplySent(c)
    BY <2>4, ReplySentInv
  <2> QED BY <1>2, <2>1, <2>2, <2>3, <2>4 DEF ServerStep
<1>3. ASSUME NEW e \in Ends, EndStep(e) PROVE CountInv'
  <2>1. CASE NewClosed(e)
    BY <2>1, NewClosedInv
  <2>2. CASE UserCloseReturns(e)
    BY <2>2, UserCloseReturnsInv
  <2>3. CASE Raises(e)
    BY <2>3, RaisesInv
  <2>4. CASE ExchangeRaises(e) /\ UNCHANGED reuseVars
    BY <2>4, LifeInv
  <2> QED BY <1>3, <2>1, <2>2, <2>3, <2>4 DEF EndStep
<1>4. ASSUME NEW e \in Ends, UcxStep(e) PROVE CountInv'
  BY <1>4, LifeInv DEF UcxStep
<1>5. ASSUME NEW c \in Conns, CreateEndpoint(c) \/ Break(c), UNCHANGED reuseVars
      PROVE  CountInv'
  <2>1. CASE CreateEndpoint(c)
    BY <1>5, <2>1, CreateEndpointInv
  <2>2. CASE Break(c)
    BY <1>5, <2>2, LifeInv
  <2> QED BY <1>5, <2>1, <2>2
<1>6. ASSUME NEW e \in Ends, PeerClosesReuse(e) PROVE CountInv'
  BY <1>6, LifeInv DEF PeerClosesReuse
<1>7. ASSUME NEW e \in Ends, UserClose(e) \/ UserAbort(e) PROVE CountInv'
  BY <1>7, UserCloseInv, UserAbortInv
<1>8. CASE Progress
  BY <1>1, <1>2, <1>3, <1>4, <1>8 DEF Progress
<1>9. CASE Next
  BY <1>5, <1>6, <1>7, <1>8, <1>9 DEF Next
<1> QED BY <1>9, StutterInv

\* The invariant: what a process has registered, what is offered and answered,
\* and what each coroutine counts on, stay in step at every await.
THEOREM InvHolds == Spec => []CountInv
<1>1. Init => CountInv
  BY InitInv
<1> QED BY <1>1, NextInv, PTL DEF Spec

\* Whatever other connections are made, closed or broken meanwhile, and in
\* whatever order both sides run, the two sides of a virtual connection go on
\* with the two ends of one connection (endpoint_reuse.py, create_endpoint() and
\* _handle()), and existing_endpoints[reuse_ep_id] never raises KeyError.
THEOREM SamePairHolds == Spec => []SamePair
<1>1. CountInv => SamePair
  <2> SUFFICES ASSUME PairInv PROVE SamePair
    BY DEF CountInv
  <2> USE DEF PairInv
  <2>1. ASSUME NEW c \in Conns, handle[Client(c)] # None, handle[Server(c)] # None
        PROVE  handle[Server(c)] = Peer(handle[Client(c)])
    BY <2>1 DEF Paired
  <2> QED BY <2>1 DEF SamePair, NoKeyError
<1> QED BY <1>1, InvHolds, PTL

\* The count of an endpoint that is not closed is the number of coroutines and
\* virtual connections that count on it: EPHandle.refcount is never short, which
\* would close an endpoint in use, and only an exception leaves it too high.
THEOREM CountExactHolds == Spec => []CountExact
<1>1. CountInv => CountExact
  BY DEF CountInv
<1> QED BY <1>1, InvHolds, PTL
-----------------------------------------------------------------------------
(* Nobody is stuck.                                                         *)

Early == {"idle", "recvInfo"}
Agreeing == {"recvReply", "recvIds", "sendReply", "dropping"}
Shut == {"closing", "closed"}

\* How far an endpoint is, by where its coroutine is, and whose close() is awaited.
EndpointAt ==
    \A e \in Ends :
        /\ pc[e] = "idle" => ep[e] = "none"
        /\ pc[e] \in Exchanging => ep[e] = "raw" \/ (Closed(e) /\ e[1] \in broken)
        /\ pc[e] \in Agreeing => ep[e] \in {"open", "closed"}
        /\ pc[e] = "recvIds" /\ Closed(e) => e[1] \in broken \/ ep[Peer(e)] \in Shut
        /\ pc[e] \in Settled \cup {"closeNew"} => ep[e] \in {"open", "closing", "closed"}
        /\ pc[e] = "raised" => Closed(e)
        /\ pc[e] \in {"dropping", "closeNew"} => target[e] \in Ends /\ ep[target[e]] \in Shut

\* How far the two sides of a connection are, and what is in transit: one side
\* is at most one message behind the other, and that message has been sent.
TurnOf(c) ==
    LET ce == Client(c)
        se == Server(c)
    IN
    /\ pc[ce] = "idle" => pc[se] = "idle"
    /\ pc[se] = "idle" => pc[ce] \in Early \cup {"raised"} /\ stream[se] = <<>>
    /\ pc[ce] = "recvInfo" /\ pc[se] # "idle" => stream[se] # <<>>
    /\ pc[ce] \in Early => stream[ce] = <<>> /\ pc[se] # "recvIds"
    /\ pc[ce] \in Early \cup {"sendInfo"} =>
         /\ net[ce] = <<>>
         /\ pc[se] \in Early \cup {"recvIds"} \/ (pc[se] = "raised" /\ c \in broken)
    /\ pc[se] \in Early /\ pc[ce] \notin Early => stream[ce] # <<>> \/ c \in broken
    /\ pc[se] \in Early \cup {"recvIds"} /\ pc[ce] \notin Early \cup {"sendInfo"} =>
         net[ce] # <<>> \/ c \in broken
    /\ pc[ce] = "recvReply" /\ pc[se] \notin Early \cup {"recvIds"} =>
         net[se] # <<>> \/ c \in broken \/ Closed(ce)

Turns == \A c \in Conns : TurnOf(c)

\* What a step may do to an endpoint, ...
EpStep(e) ==
    \/ ep'[e] = ep[e]
    \/ pc[e] = "idle" /\ pc'[e] = "recvInfo" /\ ep'[e] = "raw"
    \/ ep[e] = "raw" /\ ep'[e] = "open" /\ pc'[e] \in {"recvReply", "recvIds"}
    \/ /\ ep[e] # "none" /\ ep'[e] = "closed"
       /\ \/ ep[e] = "closing" \/ e[1] \in broken \/ pc'[e] = "raised" \/ pc[e] \in Settled
          \/ ep[e] = "open" /\ ep[Peer(e)] \in Shut
    \/ ep[e] = "open" /\ ep'[e] = "closing" /\ pc'[e] \in Settled \cup {"closeNew"}

\* ... to a coroutine, ...
PcStep(e) ==
    \/ pc'[e] = pc[e] /\ target'[e] = target[e]
    \/ pc[e] = "idle" /\ pc'[e] = "recvInfo" /\ ep'[e] = "raw"
    \/ pc[e] = "recvInfo" /\ pc'[e] = "sendInfo" /\ ep'[e] = ep[e]
    \/ pc[e] \in Exchanging /\ pc'[e] \in {"recvReply", "recvIds"} /\ ep'[e] = "open"
    \/ pc[e] = "recvIds" /\ pc'[e] = "sendReply"
    \/ /\ pc[e] \in {"recvReply", "sendReply", "dropping"} /\ pc'[e] \in {"dropping", "closeNew"}
       /\ target'[e] \in Ends /\ ep'[target'[e]] \in Shut
    \/ /\ pc[e] \in {"recvReply", "sendReply", "dropping", "closeNew"} \cup Settled
       /\ pc'[e] \in Settled
    \/ pc[e] \notin {"idle", "raised"} /\ pc'[e] = "raised" /\ Closed(e)'

\* ... and to a connection: one side moves, with its messages.
ClientAlone(c) == pc'[Server(c)] = pc[Server(c)]
ServerAlone(c) == pc'[Client(c)] = pc[Client(c)]
StreamsKept(c) == stream'[Client(c)] = stream[Client(c)] /\ stream'[Server(c)] = stream[Server(c)]
NetsKept(c) == net'[Client(c)] = net[Client(c)] /\ net'[Server(c)] = net[Server(c)]

ClientMoves(c) ==
    LET e == Client(c) IN
    /\ ClientAlone(c) /\ StreamsKept(c)
    /\ \/ pc[e] = "idle" /\ pc'[e] = "recvInfo" /\ NetsKept(c)
       \/ pc[e] \in Exchanging /\ pc'[e] = "raised" /\ c \in broken /\ NetsKept(c)
       \/ /\ pc[e] = "sendInfo" /\ pc'[e] = "recvReply"
          /\ net'[e] # <<>> /\ net'[Server(c)] = net[Server(c)]
       \/ /\ pc[e] \notin Early \cup {"sendInfo", "raised"}
          /\ pc'[e] \notin Early \cup {"sendInfo", "recvReply"}
          /\ net'[e] = net[e]

ServerMoves(c) ==
    LET e == Server(c) IN
    /\ ServerAlone(c) /\ StreamsKept(c)
    /\ \/ pc[e] = "recvInfo" /\ pc'[e] = "raised" /\ c \in broken /\ NetsKept(c)
       \/ /\ pc[e] = "recvIds" /\ pc'[e] = "raised" /\ NetsKept(c)
          /\ c \in broken \/ ep[Client(c)] \in Shut
       \/ /\ pc[e] = "recvIds" /\ pc'[e] = "sendReply"
          /\ net[Client(c)] # <<>> /\ net'[e] # <<>>
       \/ /\ pc[e] \notin Early \cup {"recvIds", "raised"}
          /\ pc'[e] \notin Early \cup {"recvIds"}
          /\ NetsKept(c)

InfoMoves(c) ==
    LET ce == Client(c)
        se == Server(c)
    IN
    /\ NetsKept(c)
    /\ \/ /\ ServerAlone(c) /\ pc[se] = "idle" /\ pc'[se] = "recvInfo" /\ pc[ce] # "idle"
          /\ stream'[ce] = stream[ce] /\ stream'[se] # <<>>
       \/ /\ ClientAlone(c) /\ pc[ce] = "recvInfo" /\ pc'[ce] = "sendInfo"
          /\ stream[se] # <<>> /\ stream'[ce] # <<>>
       \/ /\ ServerAlone(c) /\ pc[se] = "recvInfo" /\ pc'[se] = "recvIds"
          /\ stream[ce] # <<>> /\ stream'[se] = stream[se]

TurnStep(c) ==
    \/ ClientAlone(c) /\ ServerAlone(c) /\ StreamsKept(c) /\ NetsKept(c)
    \/ ClientMoves(c) \/ ServerMoves(c) \/ InfoMoves(c)

\* A step, seen from one end.
Moved(e) == EpStep(e) /\ PcStep(e)

\* What is closed or about to be stays so.
LEMMA ShutStays ==
    ASSUME EndpointAt, NEW e \in Ends, EpStep(e)
    PROVE  /\ ep[e] \in Shut => ep'[e] \in Shut
           /\ Closed(e) => Closed(e)'
BY DEF EpStep, EndpointAt, Shut, Closed, Exchanging

\* Such steps keep an endpoint where its coroutine is.
LEMMA EndpointAtNext ==
    ASSUME Types, EndpointAt, Types', broken \subseteq broken', \A e \in Ends : Moved(e)
    PROVE  EndpointAt'
<1> SUFFICES ASSUME NEW e \in Ends
             PROVE  /\ pc'[e] = "idle" => ep'[e] = "none"
                    /\ pc'[e] \in Exchanging => ep'[e] = "raw" \/ (Closed(e)' /\ e[1] \in broken')
                    /\ pc'[e] \in Agreeing => ep'[e] \in {"open", "closed"}
                    /\ pc'[e] = "recvIds" /\ Closed(e)' =>
                         e[1] \in broken' \/ ep'[Peer(e)] \in Shut
                    /\ pc'[e] \in Settled \cup {"closeNew"} => ep'[e] \in {"open", "closing", "closed"}
                    /\ pc'[e] = "raised" => Closed(e)'
                    /\ pc'[e] \in {"dropping", "closeNew"} =>
                         target'[e] \in Ends /\ ep'[target'[e]] \in Shut
  BY DEF EndpointAt
<1>1. EpStep(e) /\ PcStep(e) /\ Peer(e) \in Ends
  BY EndsOfConns DEF Moved
<1>2. \A x \in Ends : ep[x] \in Shut => ep'[x] \in Shut
  BY ShutStays DEF Moved
<1>3. Closed(e) => Closed(e)'
  BY <1>1, ShutStays
<1>4. /\ pc[e] = "idle" => ep[e] = "none"
      /\ pc[e] \in Exchanging => ep[e] = "raw" \/ (Closed(e) /\ e[1] \in broken)
      /\ pc[e] \in Agreeing => ep[e] \in {"open", "closed"}
      /\ pc[e] = "recvIds" /\ Closed(e) => e[1] \in broken \/ ep[Peer(e)] \in Shut
      /\ pc[e] \in Settled \cup {"closeNew"} => ep[e] \in {"open", "closing", "closed"}
      /\ pc[e] = "raised" => Closed(e)
      /\ pc[e] \in {"dropping", "closeNew"} => target[e] \in Ends /\ ep[target[e]] \in Shut
  BY DEF EndpointAt
<1>5. pc[e] \in Places /\ ep'[e] \in {"none", "raw", "open", "closing", "closed"}
  BY DEF Types
<1>6. pc'[e] = "idle" => ep'[e] = "none"
  BY <1>1, <1>4 DEF EpStep, PcStep, Settled, Closed, Exchanging
<1>7. pc'[e] \in Exchanging => ep'[e] = "raw" \/ (Closed(e)' /\ e[1] \in broken')
  BY <1>1, <1>4 DEF EpStep, PcStep, Settled, Closed, Exchanging
<1>8. pc'[e] \in Agreeing => ep'[e] \in {"open", "closed"}
  BY <1>1, <1>4 DEF EpStep, PcStep, Settled, Closed, Exchanging, Agreeing
<1>9. ASSUME pc'[e] = "recvIds", Closed(e)' PROVE e[1] \in broken' \/ ep'[Peer(e)] \in Shut
  <2>1. CASE pc[e] = "recvIds"
    BY <1>1, <1>2, <1>4, <1>9, <2>1 DEF EpStep, Settled, Closed, Exchanging, Agreeing
  <2>2. CASE pc[e] # "recvIds"
    BY <1>1, <1>9, <2>2 DEF PcStep, Settled, Closed
  <2> QED BY <2>1, <2>2
<1>10. pc'[e] \in Settled \cup {"closeNew"} => ep'[e] \in {"open", "closing", "closed"}
  BY <1>1, <1>4 DEF EpStep, PcStep, Settled, Closed, Exchanging, Agreeing
<1>11. pc'[e] = "raised" => Closed(e)'
  BY <1>1, <1>3, <1>4 DEF PcStep, Settled, Exchanging
<1>12. pc'[e] \in {"dropping", "closeNew"} => target'[e] \in Ends /\ ep'[target'[e]] \in Shut
  BY <1>1, <1>2, <1>4 DEF PcStep, Settled, Exchanging
<1> QED BY <1>6, <1>7, <1>8, <1>9, <1>10, <1>11, <1>12

\* ... and the two sides of a connection in turn.
LEMMA TurnsNext ==
    ASSUME Types, EndpointAt, Turns, broken \subseteq broken',
           \A e \in Ends : Moved(e), \A c \in Conns : TurnStep(c)
    PROVE  Turns'
<1> SUFFICES ASSUME NEW c \in Conns PROVE TurnOf(c)'
  BY DEF Turns
<1> DEFINE ce == Client(c)
           se == Server(c)
<1>1. ce \in Ends /\ se \in Ends /\ ce[1] = c
  BY EndsOfConns DEF Client
<1>2. TurnOf(c) /\ TurnStep(c)
  BY DEF Turns
<1>3. Closed(ce) => Closed(ce)'
  BY <1>1, ShutStays DEF Moved
<1>4. ep[ce] \in Shut =>
        /\ pc[ce] = "sendInfo" => c \in broken
        /\ pc[ce] = "recvReply" => Closed(ce)
  BY <1>1 DEF EndpointAt, Exchanging, Agreeing, Closed, Shut
<1>5. c \in broken => c \in broken'
  OBVIOUS
<1>6. CASE ClientAlone(c) /\ ServerAlone(c) /\ StreamsKept(c) /\ NetsKept(c)
  BY <1>2, <1>3, <1>5, <1>6 DEF TurnOf, ClientAlone, ServerAlone, StreamsKept, NetsKept
<1>7. CASE ClientMoves(c)
  <2>1. CASE pc[ce] = "idle" /\ pc'[ce] = "recvInfo" /\ NetsKept(c)
    BY <1>2, <1>5, <1>7, <2>1 DEF TurnOf, ClientMoves, ClientAlone, StreamsKept, NetsKept, Early
  <2>2. CASE pc[ce] \in Exchanging /\ pc'[ce] = "raised" /\ c \in broken /\ NetsKept(c)
    BY <1>2, <1>5, <1>7, <2>2
       DEF TurnOf, ClientMoves, ClientAlone, StreamsKept, NetsKept, Early, Exchanging
  <2>3. CASE /\ pc[ce] = "sendInfo" /\ pc'[ce] = "recvReply"
             /\ net'[ce] # <<>> /\ net'[se] = net[se]
    BY <1>2, <1>5, <1>7, <2>3 DEF TurnOf, ClientMoves, ClientAlone, StreamsKept, Early
  <2>4. CASE /\ pc[ce] \notin Early \cup {"sendInfo", "raised"}
             /\ pc'[ce] \notin Early \cup {"sendInfo", "recvReply"}
             /\ net'[ce] = net[ce]
    BY <1>2, <1>5, <1>7, <2>4 DEF TurnOf, ClientMoves, ClientAlone, StreamsKept, Early
  <2> QED BY <1>7, <2>1, <2>2, <2>3, <2>4 DEF ClientMoves
<1>8. CASE ServerMoves(c)
  <2>1. CASE pc[se] = "recvInfo" /\ pc'[se] = "raised" /\ c \in broken /\ NetsKept(c)
    BY <1>2, <1>5, <1>8, <2>1 DEF TurnOf, ServerMoves, ServerAlone, StreamsKept, NetsKept, Early
  <2>2. CASE /\ pc[se] = "recvIds" /\ pc'[se] = "raised"
             /\ NetsKept(c)
             /\ c \in broken \/ ep[ce] \in Shut
    BY <1>2, <1>3, <1>4, <1>5, <1>8, <2>2
       DEF TurnOf, ServerMoves, ServerAlone, StreamsKept, NetsKept, Early
  <2>3. CASE /\ pc[se] = "recvIds" /\ pc'[se] = "sendReply"
             /\ net[ce] # <<>> /\ net'[se] # <<>>
    BY <1>2, <1>5, <1>8, <2>3 DEF TurnOf, ServerMoves, ServerAlone, StreamsKept, Early
  <2>4. CASE /\ pc[se] \notin Early \cup {"recvIds", "raised"}
             /\ pc'[se] \notin Early \cup {"recvIds"}
             /\ NetsKept(c)
    BY <1>2, <1>3, <1>5, <1>8, <2>4
       DEF TurnOf, ServerMoves, ServerAlone, StreamsKept, NetsKept, Early
  <2> QED BY <1>8, <2>1, <2>2, <2>3, <2>4 DEF ServerMoves
<1>9. CASE InfoMoves(c)
  <2>1. CASE /\ ServerAlone(c) /\ pc[se] = "idle" /\ pc'[se] = "recvInfo" /\ pc[ce] # "idle"
             /\ stream'[ce] = stream[ce] /\ stream'[se] # <<>>
    BY <1>2, <1>5, <1>9, <2>1 DEF TurnOf, InfoMoves, ServerAlone, NetsKept, Early
  <2>2. CASE /\ ClientAlone(c) /\ pc[ce] = "recvInfo" /\ pc'[ce] = "sendInfo"
             /\ stream[se] # <<>> /\ stream'[ce] # <<>>
    BY <1>2, <1>5, <1>9, <2>2 DEF TurnOf, InfoMoves, ClientAlone, NetsKept, Early
  <2>3. CASE /\ ServerAlone(c) /\ pc[se] = "recvInfo" /\ pc'[se] = "recvIds"
             /\ stream[ce] # <<>> /\ stream'[se] = stream[se]
    BY <1>2, <1>5, <1>9, <2>3 DEF TurnOf, InfoMoves, ServerAlone, NetsKept, Early
  <2> QED BY <1>9, <2>1, <2>2, <2>3 DEF InfoMoves
<1> QED BY <1>2, <1>6, <1>7, <1>8, <1>9 DEF TurnStep

\* A step, seen from all ends and connections.
Stepping == (\A e \in Ends : Moved(e)) /\ (\A c \in Conns : TurnStep(c))

\* A step that leaves an end alone, ...
LEMMA MovedNot ==
    ASSUME NEW e \in Ends, pc'[e] = pc[e], target'[e] = target[e], ep'[e] = ep[e]
    PROVE  Moved(e)
BY DEF Moved, EpStep, PcStep

\* ... and one that moves the ends of one connection only.
LEMMA OneConn ==
    ASSUME NEW c \in Conns,
           \A x \in Ends : x # Client(c) /\ x # Server(c) =>
               pc'[x] = pc[x] /\ stream'[x] = stream[x] /\ net'[x] = net[x]
    PROVE  \A d \in Conns : d # c => TurnStep(d)
<1> SUFFICES ASSUME NEW d \in Conns, d # c PROVE TurnStep(d)
  OBVIOUS
<1>1. \A x \in {Client(d), Server(d)} : x \in Ends /\ x # Client(c) /\ x # Server(c)
  BY EndsOfConns
<1>2. ClientAlone(d) /\ ServerAlone(d) /\ StreamsKept(d) /\ NetsKept(d)
  BY <1>1 DEF ClientAlone, ServerAlone, StreamsKept, NetsKept
<1> QED BY <1>2 DEF TurnStep

\* A step of a coroutine that is past the exchange of messages, or back from it, at most the
\* server's answer being read.
LEMMA OneLate ==
    ASSUME Types, Sides, NEW e \in Ends, stream' = stream,
           \A x \in Ends : x # e => pc'[x] = pc[x],
           pc'[e] # pc[e] =>
               /\ pc[e] \notin Early \cup {"sendInfo", "recvIds", "raised"}
               /\ pc'[e] \notin Early \cup {"sendInfo", "recvIds", "recvReply"},
           \A c \in Conns : /\ net'[Client(c)] = net[Client(c)]
                            /\ net'[Server(c)] # net[Server(c)] => e = Client(c) /\ pc'[e] # pc[e]
    PROVE  \A c \in Conns : TurnStep(c)
<1> SUFFICES ASSUME NEW c \in Conns PROVE TurnStep(c)
  OBVIOUS
<1> DEFINE ce == Client(c)
           se == Server(c)
<1>1. ce \in Ends /\ se \in Ends /\ ce # se
  BY EndsOfConns
<1>2. StreamsKept(c) /\ net'[ce] = net[ce]
  BY DEF StreamsKept
<1>3. CASE e # ce /\ e # se
  <2>1. ClientAlone(c) /\ ServerAlone(c) /\ NetsKept(c)
    BY <1>1, <1>3 DEF ClientAlone, ServerAlone, NetsKept
  <2> QED BY <1>2, <2>1 DEF TurnStep
<1>4. CASE e = ce
  <2>1. ClientAlone(c)
    BY <1>1, <1>4 DEF ClientAlone
  <2>2. CASE pc'[e] = pc[e]
    <3>1. ServerAlone(c) /\ NetsKept(c)
      BY <1>4, <2>2 DEF ServerAlone, NetsKept
    <3> QED BY <1>2, <2>1, <3>1 DEF TurnStep
  <2>3. CASE pc'[e] # pc[e]
    <3>1. ClientMoves(c)
      BY <1>2, <1>4, <2>1, <2>3 DEF ClientMoves
    <3> QED BY <3>1 DEF TurnStep
  <2> QED BY <2>2, <2>3
<1>5. CASE e = se
  <2>1. ServerAlone(c) /\ NetsKept(c)
    BY <1>1, <1>5 DEF ServerAlone, NetsKept
  <2>2. CASE pc'[e] = pc[e]
    <3>1. ClientAlone(c)
      BY <1>5, <2>2 DEF ClientAlone
    <3> QED BY <1>2, <2>1, <3>1 DEF TurnStep
  <2>3. CASE pc'[e] # pc[e]
    <3>1. ServerMoves(c)
      BY <1>2, <1>5, <2>1, <2>3 DEF ServerMoves
    <3> QED BY <3>1 DEF TurnStep
  <2> QED BY <2>2, <2>3
<1> QED BY <1>3, <1>4, <1>5

\* A message is in transit once it is sent.
LEMMA AppendMore ==
    ASSUME NEW S, NEW s \in Seq(S), NEW x
    PROVE  Append(s, x) # <<>>
<1>1. Append(s, x)[Len(s) + 1] = x /\ Len(Append(s, x)) = Len(s) + 1
  OBVIOUS
<1>2. Len(s) \in Nat /\ Len(<<>>) = 0
  OBVIOUS
<1> QED BY <1>1, <1>2

\* The client begins.
LEMMA CreateEndpointSteps ==
    ASSUME Types, NEW c \in Conns, CreateEndpoint(c), UNCHANGED reuseVars
    PROVE  Stepping
<1> DEFINE e == Client(c)
<1>0. e \in Ends /\ Server(c) \in Ends /\ e # Server(c)
  BY EndsOfConns
<1>1. /\ pc[e] = "idle" /\ pc' = [pc EXCEPT ![e] = "recvInfo"]
      /\ ep' = [ep EXCEPT ![e] = "raw"]
      /\ stream' = stream /\ net' = net /\ target' = target
  BY DEF CreateEndpoint, reuseVars
<1> HIDE DEF e
<1>2. /\ pc'[e] = "recvInfo" /\ ep'[e] = "raw"
      /\ \A x \in Ends : x # e => pc'[x] = pc[x] /\ ep'[x] = ep[x] /\ target'[x] = target[x]
  BY <1>0, <1>1 DEF Types
<1>3. Moved(e)
  BY <1>1, <1>2 DEF Moved, EpStep, PcStep
<1>4. TurnStep(c)
  <2>1. ClientMoves(c)
    BY <1>0, <1>1, <1>2 DEF ClientMoves, ClientAlone, StreamsKept, NetsKept, e
  <2> QED BY <2>1 DEF TurnStep
<1>5. \A d \in Conns : d # c => TurnStep(d)
  BY <1>1, <1>2, OneConn DEF e
<1> QED BY <1>2, <1>3, <1>4, <1>5, MovedNot DEF Stepping

\* The server begins, and sends its information.
LEMMA ListenerHandlerSteps ==
    ASSUME Types, NEW c \in Conns, ListenerHandler(c), UNCHANGED reuseVars
    PROVE  Stepping
<1> DEFINE e == Server(c)
<1>0. e \in Ends /\ Client(c) \in Ends /\ e # Client(c)
  BY EndsOfConns
<1>1. /\ pc[e] = "idle" /\ pc' = [pc EXCEPT ![e] = "recvInfo"] /\ pc[Client(c)] # "idle"
      /\ ep' = [ep EXCEPT ![e] = "raw"]
      /\ stream' = [stream EXCEPT ![e] = Append(stream[e], e)] /\ net' = net /\ target' = target
  BY DEF ListenerHandler, Accepted, InfoFirst, reuseVars
<1> HIDE DEF e
<1>2. /\ pc'[e] = "recvInfo" /\ ep'[e] = "raw" /\ stream'[e] = Append(stream[e], e)
      /\ \A x \in Ends : x # e => /\ pc'[x] = pc[x] /\ ep'[x] = ep[x] /\ target'[x] = target[x]
                                  /\ stream'[x] = stream[x]
  BY <1>0, <1>1 DEF Types
<1>3. Moved(e)
  BY <1>1, <1>2 DEF Moved, EpStep, PcStep
<1>4. stream'[e] # <<>>
  <2>1. stream[e] \in Seq(Ends)
    BY <1>0 DEF Types
  <2> QED BY <1>0, <1>2, <2>1, AppendMore
<1>5. TurnStep(c)
  <2>1. InfoMoves(c)
    BY <1>0, <1>1, <1>2, <1>4 DEF InfoMoves, ServerAlone, NetsKept, e
  <2> QED BY <2>1 DEF TurnStep
<1>6. \A d \in Conns : d # c => TurnStep(d)
  BY <1>1, <1>2, OneConn DEF e
<1> QED BY <1>2, <1>3, <1>5, <1>6, MovedNot DEF Stepping

\* The client has the server's information and sends its own.
LEMMA ClientInfoReceivedSteps ==
    ASSUME Types, NEW c \in Conns, ClientInfoReceived(c), UNCHANGED reuseVars
    PROVE  Stepping
<1> DEFINE e == Client(c)
           f == Server(c)
<1>0. e \in Ends /\ f \in Ends /\ Peer(e) = f /\ e # f
  BY EndsOfConns
<1>1. /\ pc[e] = "recvInfo" /\ pc' = [pc EXCEPT ![e] = "sendInfo"] /\ stream[f] # <<>> /\ ep' = ep
      /\ stream' = [stream EXCEPT ![f] = Tail(stream[f]), ![e] = Append(stream[e], e)]
      /\ net' = net /\ target' = target
  BY <1>0 DEF ClientInfoReceived, StreamRecv, Types, reuseVars
<1> HIDE DEF e, f
<1>2. /\ pc'[e] = "sendInfo" /\ stream'[e] = Append(stream[e], e)
      /\ \A x \in Ends : x # e => pc'[x] = pc[x]
      /\ \A x \in Ends : x # e /\ x # f => stream'[x] = stream[x]
  BY <1>0, <1>1 DEF Types
<1>3. Moved(e)
  BY <1>1, <1>2 DEF Moved, EpStep, PcStep
<1>4. stream'[e] # <<>>
  <2>1. stream[e] \in Seq(Ends)
    BY <1>0 DEF Types
  <2> QED BY <1>0, <1>2, <2>1, AppendMore
<1>5. TurnStep(c)
  <2>1. InfoMoves(c)
    BY <1>0, <1>1, <1>2, <1>4 DEF InfoMoves, ClientAlone, NetsKept, e, f
  <2> QED BY <2>1 DEF TurnStep
<1>6. \A d \in Conns : d # c => TurnStep(d)
  BY <1>1, <1>2, OneConn DEF e, f
<1>7. \A x \in Ends : x # e => Moved(x)
  BY <1>1, <1>2, MovedNot
<1> QED BY <1>3, <1>5, <1>6, <1>7 DEF Stepping

\* The client offers.
LEMMA SendIdsSteps ==
    ASSUME Types, Sides, EndpointAt, NEW c \in Conns, SendIds(c)
    PROVE  Stepping
<1> DEFINE e == Client(c)
           open == OpenIn(existing[From[c]])
<1>0. e \in Ends /\ Server(c) \in Ends /\ e # Server(c) /\ Proc(e) = From[c] /\ From[c] \in Procs
  BY EndsOfConns, ExchangeAssumption
<1>1. /\ pc[e] = "sendInfo" /\ pc' = [pc EXCEPT ![e] = "recvReply"] /\ ~Closed(e)
      /\ ep' = [ep EXCEPT ![e] = IF ep[e] = "raw" THEN "open" ELSE ep[e]]
      /\ net' = [net EXCEPT ![e] = Append(net[e], open)]
      /\ stream' = stream /\ target' = target
  BY <1>0 DEF SendIds, ClientConnected, MakeEndpoint, Goto
<1>2. net[e] \in Seq(Seq(Ends))
  BY DEF Sides
<1> HIDE DEF e, open
<1>3. ep[e] = "raw"
  BY <1>0, <1>1 DEF EndpointAt, Exchanging
<1>4. /\ pc'[e] = "recvReply" /\ ep'[e] = "open" /\ net'[e] = Append(net[e], open)
      /\ \A x \in Ends : x # e => /\ pc'[x] = pc[x] /\ ep'[x] = ep[x] /\ target'[x] = target[x]
                                  /\ net'[x] = net[x]
  BY <1>0, <1>1, <1>3 DEF Types
<1>5. Moved(e)
  BY <1>1, <1>3, <1>4 DEF Moved, EpStep, PcStep, Exchanging
<1>6. net'[e] # <<>>
  BY <1>2, <1>4, AppendMore
<1>7. TurnStep(c)
  <2>1. ClientMoves(c)
    BY <1>0, <1>1, <1>4, <1>6 DEF ClientMoves, ClientAlone, StreamsKept, e
  <2> QED BY <2>1 DEF TurnStep
<1>8. \A d \in Conns : d # c => TurnStep(d)
  BY <1>1, <1>4, OneConn DEF e
<1> QED BY <1>4, <1>5, <1>7, <1>8, MovedNot DEF Stepping

\* The server is ready for what the client offers.
LEMMA RecvIdsCallSteps ==
    ASSUME Types, EndpointAt, NEW c \in Conns, RecvIdsCall(c)
    PROVE  Stepping
<1> DEFINE e == Server(c)
           f == Client(c)
<1>0. e \in Ends /\ f \in Ends /\ Peer(e) = f /\ e # f
  BY EndsOfConns
<1>1. /\ pc[e] = "recvInfo" /\ pc' = [pc EXCEPT ![e] = "recvIds"] /\ ~Closed(e) /\ stream[f] # <<>>
      /\ stream' = [stream EXCEPT ![f] = Tail(stream[f])]
      /\ ep' = [ep EXCEPT ![e] = IF ep[e] = "raw" THEN "open" ELSE ep[e]]
      /\ net' = net /\ target' = target
  BY <1>0 DEF RecvIdsCall, ServerConnected, StreamRecv, MakeEndpoint, Goto, reuseVars
<1> HIDE DEF e, f
<1>2. ep[e] = "raw"
  BY <1>0, <1>1 DEF EndpointAt, Exchanging
<1>3. /\ pc'[e] = "recvIds" /\ ep'[e] = "open"
      /\ \A x \in Ends : x # e => pc'[x] = pc[x] /\ ep'[x] = ep[x] /\ target'[x] = target[x]
      /\ \A x \in Ends : x # f => stream'[x] = stream[x]
  BY <1>0, <1>1, <1>2 DEF Types
<1>4. Moved(e)
  BY <1>1, <1>2, <1>3 DEF Moved, EpStep, PcStep, Exchanging
<1>5. TurnStep(c)
  <2>1. InfoMoves(c)
    BY <1>0, <1>1, <1>3 DEF InfoMoves, ServerAlone, NetsKept, e, f
  <2> QED BY <2>1 DEF TurnStep
<1>6. \A d \in Conns : d # c => TurnStep(d)
  BY <1>1, <1>3, OneConn DEF e, f
<1> QED BY <1>3, <1>4, <1>5, <1>6, MovedNot DEF Stepping

\* The server answers.
LEMMA RecvIdsSteps ==
    ASSUME Types, Sides, NEW c \in Conns, RecvIds(c), Types'
    PROVE  Stepping
<1> DEFINE e == Server(c)
           f == Client(c)
           h == Matching(Proc(e), Head(net[f]))
           v == IF h = None THEN None ELSE Answer(h)
<1>0. e \in Ends /\ f \in Ends /\ Peer(e) = f /\ e # f
  BY EndsOfConns
<1>1. /\ pc[e] = "recvIds" /\ pc' = [pc EXCEPT ![e] = "sendReply"] /\ net[f] # <<>>
      /\ net' = [net EXCEPT ![f] = Tail(@), ![e] = Append(@, v)]
      /\ ep' = ep /\ stream' = stream /\ target' = target
  BY <1>0 DEF RecvIds, Goto
<1>2. net[e] \in Seq(Ends \cup {None})
  BY DEF Sides
<1> HIDE DEF e, f, v
<1>3. /\ pc'[e] = "sendReply" /\ net'[e] = Append(net[e], v)
      /\ \A x \in Ends : x # e => pc'[x] = pc[x]
      /\ \A x \in Ends : x # e /\ x # f => net'[x] = net[x]
  BY <1>0, <1>1 DEF Types
<1>4. Moved(e)
  BY <1>1, <1>3 DEF Moved, EpStep, PcStep
<1>5. net'[e] # <<>>
  BY <1>2, <1>3, AppendMore
<1>6. TurnStep(c)
  <2>1. ServerMoves(c)
    BY <1>0, <1>1, <1>3, <1>5 DEF ServerMoves, ServerAlone, StreamsKept, e, f
  <2> QED BY <2>1 DEF TurnStep
<1>7. \A d \in Conns : d # c => TurnStep(d)
  BY <1>1, <1>3, OneConn DEF e, f
<1>8. \A x \in Ends : x # e => Moved(x)
  BY <1>1, <1>3, MovedNot
<1> QED BY <1>4, <1>6, <1>7, <1>8 DEF Stepping

\* The endpoint a coroutine awaits the end of, or has come to: one that is registered.
LEMMA FiledAt ==
    ASSUME Types, Filed, EndpointAt, NEW p \in Procs, NEW h \in ToSet(existing[p])
    PROVE  h \in Ends /\ pc[h] \in Settled /\ ep[h] \in {"open", "closing", "closed"}
<1>1. h \in Ends
  <2>1. existing[p] \in Seq(Ends)
    BY DEF Types
  <2> QED BY <2>1, ToSetIn
<1>2. pc[h] \in Settled
  BY DEF Filed
<1> QED BY <1>1, <1>2 DEF EndpointAt

\* The loop stops at one that is not closed.
LEMMA CameToOpen ==
    ASSUME NEW list \in Seq(Ends), LastOnes(list) # {}
    PROVE  list[CameTo(list)] \in ToSet(list) /\ ~Closed(list[CameTo(list)])
<1>1. LastOnes(list) \in SUBSET Nat
  <2>1. Len(list) \in Nat /\ DOMAIN list = 1..Len(list)
    BY LenProperties
  <2> QED BY <2>1 DEF LastOnes
<1>2. CameTo(list) \in LastOnes(list)
  BY <1>1, Least DEF CameTo
<1> QED BY <1>2 DEF LastOnes, ToSet

\* The client goes on with its answer: all it does to endpoints and coroutines.
LEMMA DropHoldsMoves ==
    ASSUME CountInv, EndpointAt, CountInv', NEW c \in Conns, NEW tag \in Ends \cup {None},
           pc[Client(c)] \in {"recvReply", "dropping"},
           DropHolds(Client(c), rest[Client(c)], tag)
    PROVE  /\ \A x \in Ends : Moved(x)
           /\ \A x \in Ends : x # Client(c) => pc'[x] = pc[x]
           /\ pc'[Client(c)] \in {"dropping", "closeNew", "using"}
<1> USE DEF CountInv, PairInv
<1> DEFINE e == Client(c)
           list == rest[e]
<1>0. e \in Ends /\ Proc(e) \in Procs /\ pc[e] \in {"recvReply", "dropping"}
  BY EndsOfConns
<1>1. /\ list \in Seq(Ends) /\ ToSet(list) \subseteq ToSet(existing[Proc(e)])
      /\ ep[e] \in {"open", "closed"}
  BY <1>0 DEF Types, Listed, EndpointAt, Agreeing
<1>2. CASE LastOnes(list) # {}
  <2> DEFINE h == list[CameTo(list)]
  <2>1. /\ CloseBegins(h) /\ target' = [target EXCEPT ![e] = h]
        /\ pc' = [pc EXCEPT ![e] = "dropping"]
    BY <1>2, DropHoldsIs
  <2>2. h \in Ends /\ pc[h] \in Settled /\ ep[h] \in {"open", "closing"}
    <3>1. h \in ToSet(list) /\ ~Closed(h)
      BY <1>1, <1>2, CameToOpen
    <3> HIDE DEF h, list, e
    <3> QED BY <1>0, <1>1, <3>1, FiledAt DEF Closed
  <2> HIDE DEF h, list, e
  <2>3. /\ pc'[e] = "dropping" /\ target'[e] = h /\ ep'[h] = "closing"
        /\ \A x \in Ends : x # e => pc'[x] = pc[x] /\ target'[x] = target[x]
        /\ \A x \in Ends : x # h => ep'[x] = ep[x]
    BY <1>0, <2>1, <2>2 DEF Types, CloseBegins
  <2>4. h # e
    BY <1>0, <2>2 DEF Settled
  <2>5. Moved(e)
    BY <1>0, <2>2, <2>3, <2>4 DEF Moved, EpStep, PcStep, Shut
  <2>6. Moved(h)
    BY <2>2, <2>3, <2>4 DEF Moved, EpStep, PcStep
  <2>7. \A x \in Ends : x # e /\ x # h => Moved(x)
    BY <2>3, MovedNot
  <2> QED BY <2>3, <2>5, <2>6, <2>7 DEF e
<1>3. CASE LastOnes(list) = {}
  <2>1. Adopt(e, tag, Uncounted(list))
    BY <1>3, DropHoldsIs
  <2> HIDE DEF e, list
  <2>2. CASE tag # None
    <3>1. /\ CloseBegins(e) /\ target' = [target EXCEPT ![e] = e]
          /\ pc' = [pc EXCEPT ![e] = "KeyError"] \/ pc' = [pc EXCEPT ![e] = "closeNew"]
      BY <2>1, <2>2 DEF Adopt, Goto
    <3>2. pc'[e] = "closeNew"
      BY <1>0, <3>1 DEF Types, NoKeyError
    <3>3. /\ target'[e] = e /\ ep'[e] \in Shut
          /\ ep'[e] = IF ep[e] = "open" THEN "closing" ELSE ep[e]
          /\ \A x \in Ends : x # e => pc'[x] = pc[x] /\ target'[x] = target[x] /\ ep'[x] = ep[x]
      BY <1>0, <1>1, <3>1 DEF Types, CloseBegins, Shut
    <3>4. Moved(e)
      BY <1>0, <1>1, <3>2, <3>3 DEF Moved, EpStep, PcStep
    <3>5. \A x \in Ends : x # e => Moved(x)
      BY <3>3, MovedNot
    <3> QED BY <3>2, <3>3, <3>4, <3>5 DEF e
  <2>3. CASE tag = None
    <3>1. /\ pc' = [pc EXCEPT ![e] = "using"] /\ target' = [target EXCEPT ![e] = None]
          /\ ep' = ep
      BY <2>1, <2>3 DEF Adopt, Register, Goto
    <3>2. /\ pc'[e] = "using"
          /\ \A x \in Ends : x # e => pc'[x] = pc[x] /\ target'[x] = target[x] /\ ep'[x] = ep[x]
      BY <1>0, <3>1 DEF Types
    <3>3. Moved(e)
      BY <1>0, <3>1, <3>2 DEF Moved, EpStep, PcStep, Settled
    <3>4. \A x \in Ends : x # e => Moved(x)
      BY <3>2, MovedNot
    <3> QED BY <3>2, <3>3, <3>4 DEF e
  <2> QED BY <2>2, <2>3
<1> QED BY <1>2, <1>3

\* The client receives its answer, or has waited for a close().
LEMMA TakesAnswerSteps ==
    ASSUME CountInv, EndpointAt, CountInv', NEW c \in Conns, RecvReply(c) \/ GoOnDropping(c)
    PROVE  Stepping
<1> USE DEF CountInv, PairInv
<1> DEFINE e == Client(c)
           s == Server(c)
<1>0. /\ e \in Ends /\ s \in Ends /\ Peer(e) = s /\ e # s
      /\ \A d \in Conns : /\ Client(d) \in Ends /\ Server(d) \in Ends /\ Client(d) # s
                          /\ Server(d) = s => d = c
                          /\ Client(d) = e => d = c
  BY EndsOfConns
<1>1. /\ pc[e] \in {"recvReply", "dropping"} /\ stream' = stream
      /\ net' = net \/ (pc[e] = "recvReply" /\ net' = [net EXCEPT ![s] = Tail(net[s])])
  BY <1>0 DEF RecvReply, GoOnDropping
<1>2. PICK tag \in Ends \cup {None} : DropHolds(e, rest[e], tag)
  <2>1. CASE RecvReply(c)
    <3>1. net[s] # <<>> /\ DropHolds(e, rest[e], Head(net[s]))
      BY <1>0, <2>1 DEF RecvReply
    <3>2. Head(net[s]) \in Ends \cup {None}
      BY <3>1, HeadTailProperties DEF Sides
    <3> QED BY <3>1, <3>2
  <2>2. CASE GoOnDropping(c)
    <3>1. DropHolds(e, rest[e], reply[e]) /\ reply[e] \in Ends \cup {None}
      BY <1>0, <2>2 DEF GoOnDropping, Types
    <3> QED BY <3>1
  <2> QED BY <2>1, <2>2
<1>3. /\ \A x \in Ends : Moved(x)
      /\ \A x \in Ends : x # e => pc'[x] = pc[x]
      /\ pc'[e] \in {"dropping", "closeNew", "using"}
  BY <1>1, <1>2, DropHoldsMoves
<1> HIDE DEF e, s
<1>4. \A x \in Ends : x # s => net'[x] = net[x]
  BY <1>1 DEF Types
<1>5. CASE pc'[e] # pc[e]
  <2>1. ASSUME NEW d \in Conns
        PROVE  /\ net'[Client(d)] = net[Client(d)]
               /\ net'[Server(d)] # net[Server(d)] => e = Client(d)
    BY <1>0, <1>4 DEF e
  <2> QED BY <1>0, <1>1, <1>3, <1>5, <2>1, OneLate DEF Stepping, Early
<1>6. CASE pc'[e] = pc[e]
  <2>1. net' = net
    BY <1>1, <1>3, <1>6
  <2> QED BY <1>0, <1>1, <1>3, <1>6, <2>1, OneLate DEF Stepping
<1> QED BY <1>5, <1>6

\* The answer is sent.
LEMMA ReplySentSteps ==
    ASSUME Types, Sides, EndpointAt, NEW c \in Conns, ReplySent(c)
    PROVE  Stepping
<1> DEFINE e == Server(c)
<1>0. e \in Ends
  BY EndsOfConns
<1>1. pc[e] = "sendReply" /\ stream' = stream /\ net' = net
  BY DEF ReplySent
<1>2. \/ /\ CloseBegins(e) /\ pc' = [pc EXCEPT ![e] = "closeNew"]
         /\ target' = [target EXCEPT ![e] = e]
      \/ /\ pc' = [pc EXCEPT ![e] = "using"] /\ target' = [target EXCEPT ![e] = None] /\ ep' = ep
  BY DEF ReplySent, Register, Goto
<1> HIDE DEF e
<1>3. ep[e] \in {"open", "closed"}
  BY <1>0, <1>1 DEF EndpointAt, Agreeing
<1>4. /\ \/ /\ pc'[e] = "closeNew" /\ target'[e] = e
            /\ ep'[e] \in Shut /\ ep'[e] = IF ep[e] = "open" THEN "closing" ELSE ep[e]
         \/ pc'[e] = "using" /\ ep'[e] = ep[e]
      /\ \A x \in Ends : x # e => pc'[x] = pc[x] /\ target'[x] = target[x] /\ ep'[x] = ep[x]
  BY <1>0, <1>2, <1>3 DEF Types, CloseBegins, Shut
<1>5. Moved(e)
  BY <1>0, <1>1, <1>3, <1>4 DEF Moved, EpStep, PcStep, Settled
<1>6. \A c1 \in Conns : TurnStep(c1)
  BY <1>0, <1>1, <1>4, OneLate DEF Early
<1> QED BY <1>4, <1>5, <1>6, MovedNot DEF Stepping

\* The new endpoint, or that of a user, is closed.
LEMMA ClosedSteps ==
    ASSUME Types, Sides, NEW e \in Ends, NewClosed(e) \/ UserCloseReturns(e)
    PROVE  Stepping
<1>1. /\ pc[e] \in {"closeNew", "closing"} /\ stream' = stream /\ net' = net /\ ep' = ep
      /\ pc' = [pc EXCEPT ![e] = "using"] \/ pc' = [pc EXCEPT ![e] = "left"]
      /\ target' = [target EXCEPT ![e] = None]
  BY DEF NewClosed, UserCloseReturns, Goto
<1>2. /\ pc'[e] \in {"using", "left"}
      /\ \A x \in Ends : x # e => pc'[x] = pc[x] /\ target'[x] = target[x]
  BY <1>1 DEF Types
<1>3. Moved(e)
  BY <1>1, <1>2 DEF Moved, EpStep, PcStep, Settled
<1>4. \A c \in Conns : TurnStep(c)
  BY <1>1, <1>2, OneLate DEF Early
<1> QED BY <1>1, <1>2, <1>3, <1>4, MovedNot DEF Stepping

\* A user leaves.
LEMMA UserSteps ==
    ASSUME Types, Sides, Listed, Filed, EndpointAt, NEW e \in Ends, UserClose(e) \/ UserAbort(e)
    PROVE  Stepping
<1> DEFINE h == handle[e]
<1>1. /\ pc[e] = "using" /\ stream' = stream /\ net' = net
      /\ pc' = [pc EXCEPT ![e] = "left"] \/ pc' = [pc EXCEPT ![e] = "closing"]
      /\ target' = target \/ target' = [target EXCEPT ![e] = h]
      /\ ep' = ep \/ CloseBegins(h) \/ (~Closed(h) /\ ep' = [ep EXCEPT ![h] = "closed"])
  BY DEF UserClose, UserAbort, Goto
<1>2. h \in Ends /\ pc[h] \in Settled /\ ep[h] \in {"open", "closing", "closed"}
  <2>1. h \in ToSet(existing[Proc(e)]) /\ Proc(e) \in Procs
    BY <1>1, EndsOfConns DEF Listed
  <2> QED BY <2>1, FiledAt
<1> HIDE DEF h
<1>3. /\ pc'[e] \in {"left", "closing"}
      /\ \A x \in Ends : x # e => pc'[x] = pc[x] /\ target'[x] = target[x]
      /\ \A x \in Ends : x # h => ep'[x] = ep[x]
      /\ ep'[h] \in {ep[h], "closed"} \/ (ep[h] = "open" /\ ep'[h] = "closing")
  BY <1>1, <1>2 DEF Types, CloseBegins
<1>4. \A x \in Ends : PcStep(x)
  BY <1>1, <1>3 DEF PcStep, Settled
<1>5. EpStep(h)
  <2>1. pc'[h] \in Settled
    BY <1>2, <1>3 DEF Settled
  <2> QED BY <1>2, <1>3, <2>1 DEF EpStep
<1>6. \A x \in Ends : x # h => EpStep(x)
  BY <1>3 DEF EpStep
<1>7. \A c \in Conns : TurnStep(c)
  BY <1>1, <1>3, OneLate DEF Early
<1> QED BY <1>4, <1>5, <1>6, <1>7 DEF Stepping, Moved

\* A coroutine raises.
LEMMA RaisesSteps ==
    ASSUME Types, Sides, EndpointAt, NEW e \in Ends,
           Raises(e) \/ (ExchangeRaises(e) /\ UNCHANGED reuseVars)
    PROVE  Stepping
<1>1. /\ pc[e] \in {"sendInfo", "recvInfo", "recvReply", "recvIds", "sendReply", "dropping", "closeNew"}
      /\ pc[e] \in {"sendInfo", "recvInfo", "recvReply", "recvIds", "sendReply"} => Closed(e)
      /\ stream' = stream /\ net' = net
      /\ pc' = [pc EXCEPT ![e] = "raised"]
      /\ ep' = [ep EXCEPT ![e] = "closed"]
      /\ target' = target \/ target' = [target EXCEPT ![e] = None]
  BY DEF Raises, ExchangeRaises, Goto, reuseVars, Exchanging, Closed, Types
<1>2. /\ pc'[e] = "raised" /\ ep'[e] = "closed"
      /\ \A x \in Ends : x # e => pc'[x] = pc[x] /\ target'[x] = target[x] /\ ep'[x] = ep[x]
  BY <1>1 DEF Types
<1>3. ep[e] # "none"
  BY <1>1 DEF EndpointAt, Exchanging, Agreeing, Closed
<1>4. Moved(e)
  BY <1>1, <1>2, <1>3 DEF Moved, EpStep, PcStep, Closed
<1>5. CASE pc[e] \notin {"sendInfo", "recvInfo", "recvIds"}
  <2>1. \A c \in Conns : TurnStep(c)
    BY <1>1, <1>2, <1>5, OneLate DEF Early
  <2> QED BY <1>2, <1>4, <2>1, MovedNot DEF Stepping
<1>6. CASE pc[e] \in {"sendInfo", "recvInfo", "recvIds"}
  <2>1. PICK c \in Conns : e = Client(c) \/ e = Server(c)
    BY EndsOfConns
  <2>2. Client(c) \in Ends /\ Server(c) \in Ends /\ Client(c) # Server(c) /\ e[1] = c
    BY <2>1, EndsOfConns DEF Client, Server
  <2>3. \A d \in Conns : d # c => TurnStep(d)
    BY <1>1, <1>2, <2>1, OneConn
  <2>4. StreamsKept(c) /\ NetsKept(c)
    BY <1>1 DEF StreamsKept, NetsKept
  <2>5. ASSUME pc[e] \in {"sendInfo", "recvInfo"} PROVE TurnStep(c)
    <3>1. c \in broken
      BY <1>1, <2>2, <2>5 DEF EndpointAt, Exchanging, Closed
    <3>2. CASE e = Client(c)
      <4>1. ClientMoves(c)
        BY <1>2, <2>2, <2>4, <2>5, <3>1, <3>2 DEF ClientMoves, ClientAlone, Exchanging
      <4> QED BY <4>1 DEF TurnStep
    <3>3. CASE e = Server(c)
      <4>1. pc[e] = "recvInfo"
        BY <2>5, <3>3 DEF Sides
      <4>2. ServerMoves(c)
        BY <1>2, <2>2, <2>4, <3>1, <3>3, <4>1 DEF ServerMoves, ServerAlone
      <4> QED BY <4>2 DEF TurnStep
    <3> QED BY <2>1, <3>2, <3>3
  <2>6. ASSUME pc[e] = "recvIds" PROVE TurnStep(c)
    <3>1. e = Server(c) /\ Peer(e) = Client(c)
      BY <2>1, <2>6, EndsOfConns DEF Sides
    <3>2. c \in broken \/ ep[Client(c)] \in Shut
      BY <1>1, <2>2, <2>6, <3>1 DEF EndpointAt
    <3>3. ServerMoves(c)
      BY <1>2, <2>2, <2>4, <2>6, <3>1, <3>2 DEF ServerMoves, ServerAlone
    <3> QED BY <3>3 DEF TurnStep
  <2>7. TurnStep(c)
    BY <1>6, <2>5, <2>6
  <2> QED BY <1>2, <1>4, <2>3, <2>7, MovedNot DEF Stepping
<1> QED BY <1>5, <1>6

\* UCX and the peer close endpoints, and connections break.
LEMMA LifeSteps ==
    ASSUME Types, Sides,
           \/ \E c \in Conns : Break(c) /\ UNCHANGED reuseVars
           \/ \E e \in Ends : \/ (CloseAborts(e) \/ ErrorCallback(e)) /\ UNCHANGED reuseVars
                              \/ PeerClosesReuse(e)
           \/ UNCHANGED vars
    PROVE  Stepping
<1>1. /\ pc' = pc /\ target' = target /\ stream' = stream /\ net' = net
      /\ \/ ep' = ep
         \/ \E e \in Ends :
              /\ ep' = [ep EXCEPT ![e] = "closed"] /\ ep[e] # "none"
              /\ \/ ep[e] = "closing" \/ e[1] \in broken
                 \/ ep[e] = "open" /\ ep[Peer(e)] \in Shut
  BY DEF Break, CloseAborts, ErrorCallback, PeerClosesReuse, PeerCloses, reuseVars, exchangeVars,
         vars, Shut
<1>2. \A e \in Ends : PcStep(e)
  BY <1>1 DEF PcStep
<1>3. \A e \in Ends : EpStep(e)
  BY <1>1 DEF EpStep, Types
<1>4. \A c \in Conns : TurnStep(c)
  BY <1>1 DEF TurnStep, ClientAlone, ServerAlone, StreamsKept, NetsKept
<1> QED BY <1>2, <1>3, <1>4 DEF Stepping, Moved

\* Every step is such a step.
LEMMA NextSteps ==
    ASSUME CountInv, EndpointAt, [Next]_vars, CountInv'
    PROVE  Stepping /\ broken \subseteq broken'
<1> USE DEF CountInv, PairInv
<1>1. ASSUME NEW c \in Conns, ClientStep(c) PROVE Stepping /\ broken' = broken
  <2>1. CASE ClientInfoReceived(c) /\ UNCHANGED reuseVars
    BY <2>1, ClientInfoReceivedSteps DEF ClientInfoReceived
  <2>2. CASE SendIds(c)
    BY <2>2, SendIdsSteps DEF SendIds, ClientConnected
  <2>3. CASE RecvReply(c) \/ GoOnDropping(c)
    BY <2>3, TakesAnswerSteps DEF RecvReply, GoOnDropping
  <2> QED BY <1>1, <2>1, <2>2, <2>3 DEF ClientStep
<1>2. ASSUME NEW c \in Conns, ServerStep(c) PROVE Stepping /\ broken' = broken
  <2>1. CASE ListenerHandler(c) /\ UNCHANGED reuseVars
    BY <2>1, ListenerHandlerSteps DEF ListenerHandler
  <2>2. CASE RecvIdsCall(c)
    BY <2>2, RecvIdsCallSteps DEF RecvIdsCall, ServerConnected
  <2>3. CASE RecvIds(c)
    BY <2>3, RecvIdsSteps DEF RecvIds
  <2>4. CASE ReplySent(c)
    BY <2>4, ReplySentSteps DEF ReplySent
  <2> QED BY <1>2, <2>1, <2>2, <2>3, <2>4 DEF ServerStep
<1>3. ASSUME NEW e \in Ends, EndStep(e) PROVE Stepping /\ broken' = broken
  <2>1. CASE NewClosed(e) \/ UserCloseReturns(e)
    BY <2>1, ClosedSteps DEF NewClosed, UserCloseReturns
  <2>2. CASE Raises(e) \/ (ExchangeRaises(e) /\ UNCHANGED reuseVars)
    BY <2>2, RaisesSteps DEF Raises, ExchangeRaises
  <2> QED BY <1>3, <2>1, <2>2 DEF EndStep
<1>4. ASSUME NEW e \in Ends, UcxStep(e) PROVE Stepping /\ broken' = broken
  BY <1>4, LifeSteps DEF UcxStep, CloseAborts, ErrorCallback
<1>5. ASSUME NEW c \in Conns, CreateEndpoint(c) \/ Break(c), UNCHANGED reuseVars
      PROVE  Stepping /\ broken \subseteq broken'
  BY <1>5, CreateEndpointSteps, LifeSteps DEF CreateEndpoint, Break
<1>6. ASSUME NEW e \in Ends, PeerClosesReuse(e) PROVE Stepping /\ broken' = broken
  BY <1>6, LifeSteps DEF PeerClosesReuse, PeerCloses
<1>7. ASSUME NEW e \in Ends, UserClose(e) \/ UserAbort(e) PROVE Stepping /\ broken' = broken
  BY <1>7, UserSteps DEF UserClose, UserAbort
<1>8. CASE UNCHANGED vars
  BY <1>8, LifeSteps DEF vars, exchangeVars
<1>9. CASE Progress
  BY <1>1, <1>2, <1>3, <1>4, <1>9 DEF Progress
<1>10. CASE Next
  BY <1>5, <1>6, <1>7, <1>9, <1>10 DEF Next
<1> QED BY <1>8, <1>10

\* The established connections are in use, and nothing is in transit.
LEMMA TurnsInit == Init => EndpointAt /\ Turns
<1> SUFFICES ASSUME Init PROVE EndpointAt /\ Turns
  OBVIOUS
<1>1. \A e \in Ends : /\ pc[e] = (IF e[1] \in Established THEN "using" ELSE "idle")
                      /\ ep[e] = (IF e[1] \in Established THEN "open" ELSE "none")
                      /\ net[e] = <<>> /\ stream[e] = <<>>
  BY DEF Init, ExchangeInit
<1>2. EndpointAt
  BY <1>1 DEF EndpointAt, Exchanging, Agreeing, Settled
<1>3. ASSUME NEW c \in Conns PROVE TurnOf(c)
  <2>1. /\ Client(c) \in Ends /\ Server(c) \in Ends
        /\ Client(c)[1] = c /\ Server(c)[1] = c
    BY EndsOfConns DEF Client, Server
  <2> QED BY <1>1, <2>1 DEF TurnOf, Early
<1> QED BY <1>2, <1>3 DEF Turns

\* The two sides of a connection take turns, in exchange_peer_info() and in what
\* create_endpoint() and _handle() of EndpointReuse send each other: one waits for a message
\* only while it is in transit or the other is on the way to sending it.
THEOREM TurnsHold == Spec => [](EndpointAt /\ Turns)
<1>1. CountInv /\ EndpointAt /\ Turns /\ [Next]_vars /\ CountInv' => EndpointAt' /\ Turns'
  <2> SUFFICES ASSUME CountInv, EndpointAt, Turns, [Next]_vars, CountInv'
               PROVE  EndpointAt' /\ Turns'
    OBVIOUS
  <2>1. Stepping /\ broken \subseteq broken'
    BY NextSteps
  <2>2. Types /\ Types'
    BY DEF CountInv, PairInv
  <2> QED BY <2>1, <2>2, EndpointAtNext, TurnsNext DEF Stepping
<1> QED BY <1>1, TurnsInit, InvHolds, PTL DEF Spec

\* What can happen next on a connection without the user: a message that is there is received,
\* a coroutine that need not wait goes on or raises, or UCX closes an endpoint.
CanGoOn(c) ==
    LET ce == Client(c)
        se == Server(c)
    IN
    \/ pc[se] = "idle" /\ Accepted(c)
    \/ pc[ce] = "recvInfo" /\ stream[se] # <<>>
    \/ pc[ce] = "sendInfo"
    \/ pc[se] = "recvInfo" /\ stream[ce] # <<>>
    \/ pc[se] = "recvIds" /\ net[ce] # <<>>
    \/ pc[se] = "sendReply"
    \/ pc[ce] = "recvReply" /\ net[se] # <<>>
    \/ \E e \in {ce, se} :
         \/ pc[e] \in {"recvInfo", "sendInfo", "recvReply", "recvIds", "sendReply"} /\ Closed(e)
         \/ c \in broken /\ ep[e] \in {"raw", "open", "closing"}
         \/ pc[e] \in {"dropping", "closeNew"} /\ ep[target[e]] \in Shut

\* A coroutine that has begun and has come to no end, neither to a virtual connection nor to an
\* exception, does not wait for ever: on its connection there is a next step.
NobodyStuck ==
    \A c \in Conns :
        (\E e \in {Client(c), Server(c)} : pc[e] # "idle" /\ ~Ended(e)) => CanGoOn(c)

\* Both sides of a connection wait for each other in turn, over a stream and then with tags, and
\* for close() of endpoints that they share with others, but never all at once: there is no
\* deadlock, however many connections are made at the same time, broken or closed.
THEOREM NobodyStuckHolds == Spec => []NobodyStuck
<1>1. PairInv /\ EndpointAt /\ Turns => NobodyStuck
  <2> SUFFICES ASSUME PairInv, EndpointAt, Turns,
                      NEW c \in Conns, NEW e \in {Client(c), Server(c)}, pc[e] # "idle", ~Ended(e)
               PROVE  CanGoOn(c)
    BY DEF NobodyStuck
  <2> DEFINE ce == Client(c)
             se == Server(c)
  <2>1. ce \in Ends /\ se \in Ends /\ ce[1] = c /\ se[1] = c
    BY EndsOfConns DEF Client, Server
  <2>2. TurnOf(c)
    BY DEF Turns
  <2>3. pc[e] \in {"recvInfo", "sendInfo", "recvReply", "dropping", "recvIds", "sendReply", "closeNew"}
    BY <2>1 DEF PairInv, Types, Places, NoKeyError, Ended
  <2>4. CASE pc[e] \in {"dropping", "closeNew"}
    BY <2>1, <2>4 DEF EndpointAt, CanGoOn
  <2>5. CASE pc[e] \in {"sendInfo", "sendReply"}
    BY <2>1, <2>5 DEF PairInv, Sides, CanGoOn
  <2>6. ASSUME c \in broken, pc[ce] \in {"recvInfo", "recvReply"} PROVE CanGoOn(c)
    BY <2>1, <2>6 DEF EndpointAt, Exchanging, Agreeing, Closed, CanGoOn
  <2>7. ASSUME c \in broken, pc[se] \in {"recvInfo", "recvIds"} PROVE CanGoOn(c)
    BY <2>1, <2>7 DEF EndpointAt, Exchanging, Agreeing, Closed, CanGoOn
  <2>8. CASE e = ce /\ pc[e] = "recvInfo"
    BY <2>2, <2>6, <2>8 DEF TurnOf, CanGoOn, Accepted
  <2>9. CASE e = ce /\ pc[e] = "recvReply"
    <3>1. CASE pc[se] \in Early
      BY <2>2, <2>7, <2>9, <3>1 DEF TurnOf, CanGoOn, Early
    <3>2. CASE pc[se] = "recvIds"
      BY <2>2, <2>7, <2>9, <3>2 DEF TurnOf, CanGoOn, Early
    <3>3. CASE pc[se] \notin Early \cup {"recvIds"}
      BY <2>2, <2>6, <2>9, <3>3 DEF TurnOf, CanGoOn
    <3> QED BY <3>1, <3>2, <3>3
  <2>10. CASE e = se /\ pc[e] = "recvInfo"
    BY <2>2, <2>7, <2>10 DEF TurnOf, CanGoOn, Early
  <2>11. CASE e = se /\ pc[e] = "recvIds"
    BY <2>2, <2>7, <2>11 DEF TurnOf, CanGoOn, Early
  <2>12. pc[ce] # "recvIds" /\ pc[se] # "recvReply"
    BY DEF PairInv, Sides
  <2> QED BY <2>3, <2>4, <2>5, <2>8, <2>9, <2>10, <2>11, <2>12
<1> QED BY <1>1, InvHolds, TurnsHold, PTL DEF CountInv
=============================================================================
