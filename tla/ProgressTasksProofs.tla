------------------------- MODULE ProgressTasksProofs -------------------------
(***************************************************************************)
(* Proofs about ProgressTasks, for every finite set of contexts and every  *)
(* set of event loops and descriptor numbers.  The inductive invariant has *)
(* the types, what would make an event heard (AllHeard), whose callbacks   *)
(* the selectors have (Readers), and who is about to run (Queued).         *)
(***************************************************************************)
EXTENDS ProgressTasks, SequenceTheorems, FiniteSetTheorems, TLAPS

Types ==
    /\ ctx \in Apps \cup {NoApp}
    /\ worker \in [Apps -> {"none", "live", "dead"}]
    /\ blocking \in [Apps -> BOOLEAN]
    /\ fd \in [Apps -> Fds \cup {NoFd}]
    /\ \A a \in Apps : blocking[a] => fd[a] \in Fds
    /\ tasks \in [Apps -> SUBSET Loops]
    /\ asyncio \in [Apps -> [Loops -> {"none", "scheduled", "done"}]]
    /\ reader \in [Loops -> [Fds -> Apps \cup {NoApp}]]
    /\ watched \in [Loops -> SUBSET Fds]
    /\ running \in Loops
    /\ ready \in [Loops -> Seq(Handles)]
    /\ batch \in Nat
    /\ arming \in Apps \cup {NoApp}
    /\ events \in [Apps -> Nat]
    /\ seen \in [Apps -> Nat]
    /\ armed \in [Apps -> BOOLEAN]
    /\ readable \in [Apps -> BOOLEAN]

-----------------------------------------------------------------------------
(* Queues                                                                   *)

ReaderOf(a) == [kind |-> "reader", app |-> a]
TaskOf(a)   == [kind |-> "task", app |-> a]

LEMMA HandleTypes ==
    /\ User \in Handles /\ User.kind = "user"
    /\ \A a \in Apps : /\ ReaderOf(a) \in Handles /\ ReaderOf(a).kind = "reader" /\ ReaderOf(a).app = a
                       /\ TaskOf(a) \in Handles /\ TaskOf(a).kind = "task" /\ TaskOf(a).app = a
    /\ \A h \in Handles : h = [kind |-> h.kind, app |-> h.app] /\ h.kind \in {"reader", "task", "user"}
    /\ \A h \in Handles : h.kind \in {"reader", "task"} => h.app \in Apps
BY DEF Handles, User, ReaderOf, TaskOf

LEMMA ReaderOfOne == \A a, b \in Apps : ReaderOf(a) = ReaderOf(b) => a = b
BY DEF ReaderOf

\* r is what is left of q without its first k elements, and then more, but no reader
\* callback.
Follows(r, q, k) ==
    /\ Len(r) >= Len(q) - k
    /\ \A i \in 1..Len(r) : IF i + k <= Len(q) THEN r[i] = q[i + k] ELSE r[i].kind # "reader"

LEMMA FollowsSelf ==
    ASSUME NEW q \in Seq(Handles)
    PROVE  Follows(q, q, 0)
BY DEF Follows

LEMMA FollowsTail ==
    ASSUME NEW q \in Seq(Handles), q # <<>>
    PROVE  Tail(q) \in Seq(Handles) /\ Follows(Tail(q), q, 1)
<1>1. Tail(q) \in Seq(Handles) /\ Len(Tail(q)) = Len(q) - 1 /\ \A i \in 1..Len(Tail(q)) : Tail(q)[i] = q[i + 1]
  BY HeadTailProperties
<1> QED BY <1>1, LenProperties DEF Follows

LEMMA FollowsAppend ==
    ASSUME NEW q \in Seq(Handles), NEW r \in Seq(Handles), NEW k \in Nat, Follows(r, q, k),
           NEW h \in Handles, h.kind # "reader"
    PROVE  Append(r, h) \in Seq(Handles) /\ Follows(Append(r, h), q, k)
<1>1. /\ Append(r, h) \in Seq(Handles) /\ Len(Append(r, h)) = Len(r) + 1
      /\ \A i \in 1..Len(r) : Append(r, h)[i] = r[i]
      /\ Append(r, h)[Len(r) + 1] = h
  BY AppendProperties
<1>2. Len(r) \in Nat /\ Len(q) \in Nat
  BY LenProperties
<1>3. ASSUME NEW i \in 1..Len(Append(r, h))
      PROVE  IF i + k <= Len(q) THEN Append(r, h)[i] = q[i + k] ELSE Append(r, h)[i].kind # "reader"
  <2>1. CASE i \in 1..Len(r)
    BY <1>1, <2>1 DEF Follows
  <2>2. CASE i = Len(r) + 1
    <3>1. i + k > Len(q)
      BY <1>2, <2>2 DEF Follows
    <3> QED BY <1>1, <1>2, <2>2, <3>1
  <2> QED BY <1>1, <1>2, <2>1, <2>2
<1> QED BY <1>1, <1>2, <1>3 DEF Follows

\* The woken coroutine is no reader callback either.
LEMMA FollowsWoken ==
    ASSUME NEW a, NEW q \in Seq(Handles), NEW r \in Seq(Handles), NEW k \in Nat, Follows(r, q, k)
    PROVE  Woken(a, r) \in Seq(Handles) /\ Follows(Woken(a, r), q, k)
BY FollowsAppend, HandleTypes DEF Woken

LEMMA FunctionIsSeq ==
    ASSUME NEW S, NEW n \in Nat, NEW s \in [1..n -> S]
    PROVE  s \in Seq(S) /\ Len(s) = n
OBVIOUS

\* The reader callbacks of a poll: each once, whatever their order.
LEMMA SetToSeqOnce ==
    ASSUME NEW A \in SUBSET Apps, IsFiniteSet(A)
    PROVE  LET s == SetToSeq([kind : {"reader"}, app : A]) IN
           /\ s \in Seq(Handles)
           /\ \A i \in 1..Len(s) : \E a \in A : s[i] = ReaderOf(a)
           /\ \A i, j \in 1..Len(s) : s[i] = s[j] => i = j
<1> DEFINE S == [kind : {"reader"}, app : A]
           f == [a \in A |-> ReaderOf(a)]
<1>1. f \in Bijection(A, S)
  <2>1. f \in [A -> S]
    BY DEF ReaderOf
  <2>2. \A a, b \in A : f[a] = f[b] => a = b
    BY HandleTypes
  <2>3. \A s \in S : \E a \in A : f[a] = s
    BY DEF ReaderOf
  <2> QED BY <2>1, <2>2, <2>3 DEF Bijection, Injection, Surjection, IsInjective
<1>2. IsFiniteSet(S)
  BY <1>1, FS_Bijection DEF ExistsBijection
<1> DEFINE n == Cardinality(S)
<1>3. n \in Nat /\ Bijection(1..n, S) # {}
  BY <1>2, FS_CardinalityType DEF ExistsBijection
<1>4. \E g \in [1..n -> S] : IsInjective(g)
  BY <1>3 DEF Bijection, Injection, IsInjective
<1> DEFINE s == SetToSeq(S)
<1>5. s \in [1..n -> S] /\ IsInjective(s)
  BY <1>4 DEF SetToSeq
<1>6. s \in Seq(S) /\ Len(s) = n
  <2> HIDE DEF s, n, S
  <2> QED BY <1>3, <1>5, FunctionIsSeq
<1>7. S \subseteq Handles
  BY DEF Handles
<1>8. s \in Seq(Handles)
  BY <1>6, <1>7, SeqMonotonic
<1>9. \A i \in 1..Len(s) : \E a \in A : s[i] = ReaderOf(a)
  BY <1>5, <1>6 DEF ReaderOf
<1>10. \A i, j \in 1..Len(s) : s[i] = s[j] => i = j
  BY <1>5, <1>6 DEF IsInjective
<1> QED BY <1>8, <1>9, <1>10

LEMMA FollowsTaskAndUser ==
    ASSUME NEW q \in Seq(Handles), NEW r \in Seq(Handles), NEW k \in Nat, Follows(r, q, k),
           NEW a \in Apps
    PROVE  LET s == r \o <<TaskOf(a), User>> IN
           /\ s \in Seq(Handles) /\ Follows(s, q, k)
           /\ Len(r) + 1 \in 1..Len(s) /\ s[Len(r) + 1] = TaskOf(a)
<1> DEFINE t == Append(r, TaskOf(a))
<1>1. /\ t \in Seq(Handles) /\ Follows(t, q, k) /\ Len(t) = Len(r) + 1
      /\ t[Len(r) + 1] = TaskOf(a)
  BY FollowsAppend, HandleTypes, AppendProperties
<1> DEFINE u == Append(t, User)
<1>2. u = r \o <<TaskOf(a), User>>
  BY HandleTypes
<1>3. u \in Seq(Handles) /\ Follows(u, q, k)
  <2> HIDE DEF t
  <2> QED BY <1>1, FollowsAppend, HandleTypes
<1>4. Len(u) = Len(t) + 1 /\ \A i \in 1..Len(t) : u[i] = t[i]
  <2> HIDE DEF t
  <2> QED BY <1>1, AppendProperties, HandleTypes
<1>5. Len(r) \in Nat
  BY LenProperties
<1> HIDE DEF t, u
<1> QED BY <1>1, <1>2, <1>3, <1>4, <1>5

-----------------------------------------------------------------------------
(* Types                                                                    *)

Queue == ready[running]

\* A step that takes k callbacks from the queue of the running loop.
Moves(k) ==
    /\ running' = running /\ batch' = batch - k
    /\ \E r \in Seq(Handles) : ready' = [ready EXCEPT ![running] = r] /\ Follows(r, Queue, k)

BatchQueued == batch <= Len(Queue)

LEMMA Popped ==
    ASSUME Types, BatchQueued, NEW kind, NEW a, Run(kind, a)
    PROVE  /\ Queue \in Seq(Handles) /\ Queue # <<>> /\ Queue[1] = [kind |-> kind, app |-> a]
           /\ Rest \in Seq(Handles) /\ Follows(Rest, Queue, 1)
           /\ batch \in Nat \ {0} /\ batch' = batch - 1 /\ batch - 1 \in Nat /\ arming = NoApp
<1>1. Queue \in Seq(Handles) /\ batch > 0
  BY DEF Types, Queue, Run
<1>2. Queue # <<>>
  BY <1>1, EmptySeq DEF BatchQueued, Types
<1> QED BY <1>1, <1>2, FollowsTail DEF Run, InLoop, Types, Rest, Queue

\* Each action that runs a callback takes it from the queue.
LEMMA Requeued ==
    ASSUME Types, NEW r \in Seq(Handles), NEW k, Requeue(r), Follows(r, Queue, k),
           running' = running, batch' = batch - k
    PROVE  Moves(k) /\ Queue' = r
BY DEF Moves, Requeue, Types, Queue

LEMMA ReaderMoves ==
    ASSUME Types, BatchQueued, NEW a \in Apps, ReaderCallback(a)
    PROVE  /\ Moves(1)
           /\ asyncio'[a][running] = "scheduled" /\ asyncio[a][running] # "scheduled" =>
                \E i \in 1..Len(Queue') : Queue'[i] = TaskOf(a)
<1>0. /\ Rest \in Seq(Handles) /\ Follows(Rest, Queue, 1) /\ batch' = batch - 1
      /\ Queue \in Seq(Handles) /\ running' = running
  BY Popped DEF ReaderCallback
<1>1. CASE Gone(a)
  BY <1>0, <1>1, Requeued DEF ReaderCallback
<1>2. CASE ~Gone(a)
  <2> DEFINE q == Woken(a, Rest)
             r == Append(q, TaskOf(a))
  <2>1. q \in Seq(Handles) /\ Follows(q, Queue, 1)
    BY <1>0, FollowsWoken
  <2>2. r \in Seq(Handles) /\ Follows(r, Queue, 1)
    <3> HIDE DEF q
    <3> QED BY <1>0, <2>1, FollowsAppend, HandleTypes
  <2>3. Len(r) \in 1..Len(r) /\ r[Len(r)] = TaskOf(a)
    <3> HIDE DEF q
    <3> QED BY <2>1, AppendProperties, LenProperties, HandleTypes
  <2>4. CASE asyncio[a][running] # "scheduled"
    <3>1. Requeue(r)
      BY <1>2, <2>4 DEF ReaderCallback, TaskOf
    <3> HIDE DEF r
    <3> QED BY <1>0, <2>2, <2>3, <3>1, Requeued
  <2>5. CASE asyncio[a][running] = "scheduled"
    <3>1. Requeue(q)
      BY <1>2, <2>5 DEF ReaderCallback
    <3> HIDE DEF q
    <3> QED BY <1>0, <2>1, <2>5, <3>1, Requeued
  <2> QED BY <2>4, <2>5
<1> QED BY <1>1, <1>2

LEMMA ArmTaskMoves ==
    ASSUME Types, BatchQueued, NEW a \in Apps, ArmTask(a)
    PROVE  Moves(1)
<1>0. /\ Rest \in Seq(Handles) /\ Follows(Rest, Queue, 1) /\ batch' = batch - 1
      /\ Queue \in Seq(Handles) /\ running' = running
  BY Popped DEF ArmTask
<1>1. CASE Gone(a)
  BY <1>0, <1>1, Requeued DEF ArmTask
<1>2. CASE ~Gone(a)
  BY <1>0, <1>2, Requeued, FollowsWoken DEF ArmTask
<1> QED BY <1>1, <1>2

LEMMA ArmWorkerMoves ==
    ASSUME Types, NEW a \in Apps, ArmWorker(a)
    PROVE  Moves(0)
<1>0. Queue \in Seq(Handles) /\ Follows(Queue, Queue, 0) /\ running' = running /\ batch' = batch - 0
  BY FollowsSelf DEF Types, Queue, ArmWorker
<1>1. CASE UNCHANGED ready
  <2>1. ready' = [ready EXCEPT ![running] = Queue]
    BY <1>1 DEF Types, Queue
  <2> QED BY <1>0, <2>1 DEF Moves
<1>2. CASE Requeue(Woken(a, ready[running]))
  BY <1>0, <1>2, Requeued, FollowsWoken DEF Queue
<1> QED BY <1>1, <1>2 DEF ArmWorker

LEMMA NonBlockingMoves ==
    ASSUME Types, BatchQueued, NEW a \in Apps, NonBlockingTask(a)
    PROVE  /\ Moves(1)
           /\ ~Gone(a) => \E i \in 1..Len(Queue') : Queue'[i] = TaskOf(a)
<1>0. /\ Rest \in Seq(Handles) /\ Follows(Rest, Queue, 1) /\ batch' = batch - 1
      /\ Queue \in Seq(Handles) /\ running' = running
  BY Popped DEF NonBlockingTask
<1>1. CASE Gone(a)
  BY <1>0, <1>1, Requeued DEF NonBlockingTask
<1>2. CASE ~Gone(a)
  <2> DEFINE q == Woken(a, Rest)
             r == Append(q, TaskOf(a))
  <2>1. q \in Seq(Handles) /\ Follows(q, Queue, 1)
    BY <1>0, FollowsWoken
  <2>2. /\ r \in Seq(Handles) /\ Follows(r, Queue, 1)
        /\ Len(r) \in 1..Len(r) /\ r[Len(r)] = TaskOf(a)
    <3> HIDE DEF q
    <3> QED BY <1>0, <2>1, FollowsAppend, HandleTypes, AppendProperties, LenProperties
  <2>3. Requeue(r)
    BY <1>2 DEF NonBlockingTask, TaskOf
  <2> HIDE DEF r
  <2> QED BY <1>0, <2>2, <2>3, Requeued
<1> QED BY <1>1, <1>2

\* The application's coroutine: it goes on, waits, or starts a progress task.
UserStep ==
    \/ Await \/ Yield
    \/ \E a \in Apps : ApplicationContext(a) \/ ApiCall(a) \/ Reset(a)

LEMMA ContinuousMoves ==
    ASSUME Types, BatchQueued, Run("user", NoApp), running' = running,
           NEW a \in Apps, NEW mode \in BOOLEAN, NEW f, ContinuousUcxProgress(a, mode, f)
    PROVE  /\ Moves(1)
           /\ ~mode => \E i \in 1..Len(Queue') : Queue'[i] = TaskOf(a)
<1>0. /\ Rest \in Seq(Handles) /\ Follows(Rest, Queue, 1) /\ batch' = batch - 1
      /\ Queue \in Seq(Handles)
  BY Popped
<1>1. CASE mode
  <2>1. Requeue(Append(Rest, User))
    BY <1>1 DEF ContinuousUcxProgress
  <2>2. Append(Rest, User) \in Seq(Handles) /\ Follows(Append(Rest, User), Queue, 1)
    BY <1>0, FollowsAppend, HandleTypes
  <2> QED BY <1>0, <1>1, <2>1, <2>2, Requeued
<1>2. CASE ~mode
  <2> DEFINE r == Rest \o <<TaskOf(a), User>>
  <2>1. Requeue(r)
    BY <1>2 DEF ContinuousUcxProgress, TaskOf
  <2>2. r \in Seq(Handles) /\ Follows(r, Queue, 1) /\ \E i \in 1..Len(r) : r[i] = TaskOf(a)
    BY <1>0, FollowsTaskAndUser
  <2> HIDE DEF r
  <2> QED BY <1>0, <2>1, <2>2, Requeued
<1> QED BY <1>1, <1>2

LEMMA UserMoves ==
    ASSUME Types, BatchQueued, UserStep
    PROVE  Moves(1)
<1>1. Run("user", NoApp) /\ running' = running
  BY DEF UserStep, Await, Yield, ApplicationContext, ApiCall, Reset
<1>2. /\ Rest \in Seq(Handles) /\ Follows(Rest, Queue, 1) /\ batch' = batch - 1
      /\ Queue \in Seq(Handles)
  BY <1>1, Popped
<1>3. Append(Rest, User) \in Seq(Handles) /\ Follows(Append(Rest, User), Queue, 1)
  BY <1>2, FollowsAppend, HandleTypes
<1>4. CASE Await
  BY <1>1, <1>2, <1>4, Requeued DEF Await
<1>5. CASE Yield
  BY <1>1, <1>2, <1>3, <1>5, Requeued DEF Yield
<1>6. ASSUME NEW a \in Apps, ApplicationContext(a) PROVE Moves(1)
  BY <1>1, <1>6, ContinuousMoves DEF ApplicationContext
<1>7. ASSUME NEW a \in Apps, ApiCall(a) PROVE Moves(1)
  BY <1>1, <1>7, ContinuousMoves DEF ApiCall, Types
<1>8. ASSUME NEW a \in Apps, Reset(a) PROVE Moves(1)
  BY <1>1, <1>2, <1>3, <1>8, Requeued DEF Reset
<1> QED BY <1>4, <1>5, <1>6, <1>7, <1>8 DEF UserStep

LEMMA MovesTypes ==
    ASSUME Types, BatchQueued, NEW k \in {0, 1}, batch - k \in Nat, Moves(k)
    PROVE  running' \in Loops /\ ready' \in [Loops -> Seq(Handles)] /\ batch' \in Nat /\ BatchQueued'
<1>1. PICK r \in Seq(Handles) : ready' = [ready EXCEPT ![running] = r] /\ Follows(r, Queue, k)
  BY DEF Moves
<1>2. running \in Loops /\ ready \in [Loops -> Seq(Handles)] /\ batch \in Nat
  BY DEF Types
<1>3. ready'[running] = r /\ ready' \in [Loops -> Seq(Handles)]
  BY <1>1, <1>2
<1>4. Len(r) \in Nat /\ Len(Queue) \in Nat
  BY <1>2, LenProperties DEF Queue
<1>5. Len(r) >= Len(Queue) - k
  BY <1>1 DEF Follows
<1>6. batch - k <= Len(r)
  BY <1>2, <1>4, <1>5 DEF BatchQueued
<1>7. batch' <= Len(ready'[running'])
  BY <1>3, <1>6 DEF Moves
<1> QED BY <1>2, <1>3, <1>7 DEF Moves, BatchQueued, Queue

\* What AddReader and RemoveReader leave of the selectors.
LoopTypes == reader \in [Loops -> [Fds -> Apps \cup {NoApp}]] /\ watched \in [Loops -> SUBSET Fds]

LEMMA TwoLevels ==
    ASSUME NEW A, NEW B, NEW C, NEW f \in [A -> [B -> C]], NEW a \in A, NEW b \in B, NEW c \in C
    PROVE  [f EXCEPT ![a][b] = c] \in [A -> [B -> C]]
OBVIOUS

LEMMA SetTaskTypes ==
    ASSUME Types, NEW a \in Apps, NEW st \in {"scheduled", "done"}, SetTask(a, st)
    PROVE  asyncio' \in [Apps -> [Loops -> {"none", "scheduled", "done"}]]
BY TwoLevels DEF Types, SetTask

LEMMA ProgressTypes ==
    ASSUME Types, NEW a \in Apps, Progress(a)
    PROVE  events' \in [Apps -> Nat]
BY DEF Types, Progress

LEMMA RemoveReaderTypes ==
    ASSUME Types, NEW l \in Loops, NEW f \in Fds, RemoveReader(l, f)
    PROVE  LoopTypes'
<1>1. reader' \in [Loops -> [Fds -> Apps \cup {NoApp}]]
  BY TwoLevels DEF Types, RemoveReader
<1>2. watched' \in [Loops -> SUBSET Fds]
  BY DEF Types, RemoveReader
<1> QED BY <1>1, <1>2 DEF LoopTypes

ContextTypes ==
    /\ tasks \in [Apps -> SUBSET Loops] /\ LoopTypes
    /\ asyncio \in [Apps -> [Loops -> {"none", "scheduled", "done"}]]
    /\ fd \in [Apps -> Fds \cup {NoFd}] /\ blocking \in [Apps -> BOOLEAN]
    /\ \A b \in Apps : blocking[b] => fd[b] \in Fds
    /\ armed \in [Apps -> BOOLEAN]

LEMMA AddReaderTypes ==
    ASSUME Types, NEW a \in Apps, NEW f \in Fds, AddReader(a, f)
    PROVE  LoopTypes'
<1>0. running \in Loops /\ watched \in [Loops -> SUBSET Fds]
  BY DEF Types
<1>1. ASSUME reader' = [reader EXCEPT ![running][f] = a]
      PROVE  reader' \in [Loops -> [Fds -> Apps \cup {NoApp}]]
  BY <1>1, TwoLevels DEF Types
<1>2. ASSUME watched' = watched \/ watched' = [watched EXCEPT ![running] = @ \cup {f}]
      PROVE  watched' \in [Loops -> SUBSET Fds]
  BY <1>0, <1>2
<1> QED BY <1>0, <1>1, <1>2, RemoveReaderTypes DEF AddReader, LoopTypes

\* The poll's queue: what was ready, then the callbacks of what is readable.
LEMMA Polled ==
    ASSUME Types, Poll
    PROVE  \E s \in Seq(Handles) :
             /\ ready' = [ready EXCEPT ![running] = Queue \o s] /\ batch' = Len(Queue \o s)
             /\ \A i \in 1..Len(s) :
                  \E a \in Apps, f \in Fds : s[i] = ReaderOf(a) /\ reader[running][f] = a
             /\ \A i, j \in 1..Len(s) : s[i] = s[j] => i = j
             /\ Queue \o s # <<>>
<1> DEFINE A == {reader[running][f] : f \in Readable(running)} \ {NoApp}
           s == SetToSeq([kind : {"reader"}, app : A])
<1>1. A \in SUBSET Apps /\ \A a \in A : \E f \in Fds : reader[running][f] = a
  BY DEF Types, Readable
<1>2. IsFiniteSet(A)
  BY <1>1, FS_Subset, ProgressAssumption DEF ProgressAssumption
<1>3. /\ s \in Seq(Handles)
      /\ \A i \in 1..Len(s) : \E a \in A : s[i] = ReaderOf(a)
      /\ \A i, j \in 1..Len(s) : s[i] = s[j] => i = j
  <2> HIDE DEF A
  <2> QED BY <1>1, <1>2, SetToSeqOnce
<1>4. /\ ready' = [ready EXCEPT ![running] = Queue \o s] /\ batch' = Len(Queue \o s)
      /\ Queue \o s # <<>>
  BY DEF Poll, Queue
<1> HIDE DEF s
<1>5. \A i \in 1..Len(s) : \E a \in Apps, f \in Fds : s[i] = ReaderOf(a) /\ reader[running][f] = a
  BY <1>1, <1>3
<1> QED BY <1>3, <1>4, <1>5

LEMMA TypesInit == Init => Types /\ BatchQueued
<1> SUFFICES ASSUME Init PROVE Types /\ BatchQueued
  OBVIOUS
<1>1. <<User>> \in Seq(Handles) /\ Len(<<User>>) = 1
  BY HandleTypes
<1>2. ready \in [Loops -> Seq(Handles)] /\ Len(ready[running]) = 1
  BY <1>1 DEF Init
<1> QED BY <1>2 DEF Init, Types, BatchQueued, Queue

LEMMA TypesStep == Types /\ BatchQueued /\ [Next]_vars => (Types /\ BatchQueued)'
<1> SUFFICES ASSUME Types, BatchQueued, [Next]_vars PROVE (Types /\ BatchQueued)'
  OBVIOUS
<1>1. CASE Poll
  <2>1. PICK s \in Seq(Handles) :
          ready' = [ready EXCEPT ![running] = Queue \o s] /\ batch' = Len(Queue \o s)
    BY <1>1, Polled
  <2>2. Queue \o s \in Seq(Handles)
    BY ConcatProperties DEF Types, Queue
  <2>3. ready' \in [Loops -> Seq(Handles)] /\ ready'[running] = Queue \o s /\ batch' \in Nat
    BY <2>1, <2>2, LenProperties DEF Types
  <2>4. batch' <= batch'
    BY <2>3
  <2>5. BatchQueued'
    BY <1>1, <2>1, <2>3, <2>4 DEF BatchQueued, Queue, Poll
  <2> QED BY <1>1, <2>3, <2>5 DEF Poll, Types, appVars, ucxVars, loopVars
<1>2. CASE Await \/ Yield
  <2>1. Moves(1) /\ batch - 1 \in Nat
    BY <1>2, UserMoves, Popped DEF UserStep, Await, Yield
  <2> QED BY <1>2, <2>1, MovesTypes DEF Await, Yield, Types, appVars, ucxVars, loopVars
<1>3. ASSUME NEW a \in Apps, ReaderCallback(a) PROVE (Types /\ BatchQueued)'
  <2>1. Moves(1) /\ batch - 1 \in Nat
    BY <1>3, ReaderMoves, Popped DEF ReaderCallback
  <2>2. /\ asyncio' \in [Apps -> [Loops -> {"none", "scheduled", "done"}]]
        /\ events' \in [Apps -> Nat]
    <3>1. UNCHANGED asyncio \/ SetTask(a, "scheduled")
      BY <1>3 DEF ReaderCallback
    <3>2. UNCHANGED events \/ Progress(a)
      BY <1>3 DEF ReaderCallback, ucxVars
    <3> QED BY <3>1, <3>2, SetTaskTypes, ProgressTypes DEF Types
  <2>3. UNCHANGED <<appVars, loopVars, running, arming, seen, armed, readable>>
    BY <1>3 DEF ReaderCallback, ucxVars
  <2> QED BY <2>1, <2>2, <2>3, MovesTypes DEF Types, appVars, loopVars
<1>4. ASSUME NEW a \in Apps, ArmTask(a) PROVE (Types /\ BatchQueued)'
  <2>1. Moves(1) /\ batch - 1 \in Nat
    BY <1>4, ArmTaskMoves, Popped DEF ArmTask
  <2>2. /\ asyncio' \in [Apps -> [Loops -> {"none", "scheduled", "done"}]]
        /\ events' \in [Apps -> Nat] /\ arming' \in Apps \cup {NoApp}
    BY <1>4, SetTaskTypes DEF ArmTask, Progress, Types
  <2>3. LoopTypes'
    BY <1>4, RemoveReaderTypes DEF ArmTask, Types, LoopTypes, loopVars
  <2> QED BY <1>4, <2>1, <2>2, <2>3, MovesTypes DEF ArmTask, Types, LoopTypes, appVars
<1>5. ASSUME NEW a \in Apps, ArmWorker(a) PROVE (Types /\ BatchQueued)'
  <2>1. Moves(0) /\ batch - 0 \in Nat
    BY <1>5, ArmWorkerMoves DEF Types
  <2>2. /\ asyncio' \in [Apps -> [Loops -> {"none", "scheduled", "done"}]]
        /\ events' \in [Apps -> Nat] /\ arming' \in Apps \cup {NoApp}
    <3>1. UNCHANGED asyncio \/ SetTask(a, "done")
      BY <1>5 DEF ArmWorker
    <3>2. UNCHANGED events \/ Progress(a)
      BY <1>5 DEF ArmWorker
    <3>3. arming' = NoApp \/ arming' = arming
      BY <1>5 DEF ArmWorker
    <3> QED BY <3>1, <3>2, <3>3, SetTaskTypes, ProgressTypes DEF Types
  <2>3. armed' \in [Apps -> BOOLEAN] /\ readable' \in [Apps -> BOOLEAN]
    BY <1>5 DEF ArmWorker, Types
  <2> QED BY <1>5, <2>1, <2>2, <2>3, MovesTypes DEF ArmWorker, Types, appVars, loopVars
<1>6. ASSUME NEW a \in Apps, NonBlockingTask(a) PROVE (Types /\ BatchQueued)'
  <2>1. Moves(1) /\ batch - 1 \in Nat
    BY <1>6, NonBlockingMoves, Popped DEF NonBlockingTask
  <2>2. /\ asyncio' \in [Apps -> [Loops -> {"none", "scheduled", "done"}]]
        /\ events' \in [Apps -> Nat]
    <3>1. UNCHANGED asyncio \/ SetTask(a, "done")
      BY <1>6 DEF NonBlockingTask
    <3>2. UNCHANGED events \/ Progress(a)
      BY <1>6 DEF NonBlockingTask
    <3> QED BY <3>1, <3>2, SetTaskTypes, ProgressTypes DEF Types
  <2> QED BY <1>6, <2>1, <2>2, MovesTypes DEF NonBlockingTask, Types, appVars, loopVars
<1>7. ASSUME NEW a \in Apps, ApplicationContext(a) PROVE (Types /\ BatchQueued)'
  <2>1. Moves(1) /\ batch - 1 \in Nat
    BY <1>7, UserMoves, Popped DEF UserStep, ApplicationContext
  <2>2. ContextTypes'
    <3>1. ASSUME NEW f \in Fds, fd' = [fd EXCEPT ![a] = f], ContinuousUcxProgress(a, TRUE, f),
                 blocking' = [blocking EXCEPT ![a] = TRUE], armed' = [armed EXCEPT ![a] = TRUE]
          PROVE  ContextTypes'
      BY <3>1, AddReaderTypes DEF ContinuousUcxProgress, Types, ContextTypes
    <3>2. ASSUME ContinuousUcxProgress(a, FALSE, NoFd), UNCHANGED <<fd, blocking, armed>>
          PROVE  ContextTypes'
      <4>1. SetTask(a, "scheduled") /\ UNCHANGED loopVars /\ tasks' = [tasks EXCEPT ![a] = @ \cup {running}]
        BY <3>2 DEF ContinuousUcxProgress
      <4>2. asyncio' \in [Apps -> [Loops -> {"none", "scheduled", "done"}]]
        BY <4>1, SetTaskTypes
      <4> QED BY <3>2, <4>1, <4>2 DEF Types, LoopTypes, loopVars, ContextTypes
    <3>3. FdFor[a] \subseteq Fds
      BY ProgressAssumption DEF ProgressAssumption
    <3>4. \/ \E f \in FdFor[a] : /\ fd' = [fd EXCEPT ![a] = f] /\ ContinuousUcxProgress(a, TRUE, f)
                                /\ blocking' = [blocking EXCEPT ![a] = TRUE]
                                /\ armed' = [armed EXCEPT ![a] = TRUE]
          \/ ContinuousUcxProgress(a, FALSE, NoFd) /\ UNCHANGED <<fd, blocking, armed>>
      BY <1>7 DEF ApplicationContext
    <3>5. CASE ContinuousUcxProgress(a, FALSE, NoFd) /\ UNCHANGED <<fd, blocking, armed>>
      BY <3>2, <3>5
    <3>6. CASE \E f \in FdFor[a] : /\ fd' = [fd EXCEPT ![a] = f] /\ ContinuousUcxProgress(a, TRUE, f)
                                  /\ blocking' = [blocking EXCEPT ![a] = TRUE]
                                  /\ armed' = [armed EXCEPT ![a] = TRUE]
      BY <3>1, <3>3, <3>6
    <3> QED BY <3>4, <3>5, <3>6
  <2> QED BY <1>7, <2>1, <2>2, MovesTypes DEF ApplicationContext, Types, LoopTypes, ContextTypes
<1>8. ASSUME NEW a \in Apps, ApiCall(a) PROVE (Types /\ BatchQueued)'
  <2>1. Moves(1) /\ batch - 1 \in Nat
    BY <1>8, UserMoves, Popped DEF UserStep, ApiCall
  <2>2. /\ tasks' \in [Apps -> SUBSET Loops] /\ LoopTypes'
        /\ asyncio' \in [Apps -> [Loops -> {"none", "scheduled", "done"}]]
    <3> QED BY <1>8, AddReaderTypes, SetTaskTypes DEF ApiCall, ContinuousUcxProgress, Types, LoopTypes, loopVars
  <2> QED BY <1>8, <2>1, <2>2, MovesTypes DEF ApiCall, Types, LoopTypes, ucxVars
<1>9. ASSUME NEW a \in Apps, Reset(a) PROVE (Types /\ BatchQueued)'
  <2>1. Moves(1) /\ batch - 1 \in Nat
    BY <1>9, UserMoves, Popped DEF UserStep, Reset
  <2> QED BY <1>9, <2>1, MovesTypes DEF Reset, Types
<1>10. ASSUME NEW a \in Apps, Arrive(a) PROVE (Types /\ BatchQueued)'
  <2>1. readable' \in [Apps -> BOOLEAN]
    BY <1>10 DEF Arrive, Types
  <2> QED BY <1>10, <2>1 DEF Arrive, Types, BatchQueued, Queue, appVars, loopVars
<1>11. ASSUME NEW l \in Loops, RunLoop(l) PROVE (Types /\ BatchQueued)'
  <2> DEFINE r == IF Contains(ready[l], User) THEN ready[l] ELSE Append(ready[l], User)
  <2>1. r \in Seq(Handles)
    BY HandleTypes, AppendProperties DEF Types
  <2>2. ready' = [ready EXCEPT ![l] = r]
    BY <1>11 DEF RunLoop, Types
  <2>3. batch' = 0 /\ ready' \in [Loops -> Seq(Handles)] /\ ready'[l] \in Seq(Handles)
    BY <1>11, <2>1, <2>2 DEF RunLoop, Types
  <2>4. BatchQueued'
    BY <1>11, <2>3, LenProperties DEF BatchQueued, Queue, RunLoop
  <2> QED BY <1>11, <2>3, <2>4 DEF RunLoop, Types, appVars, loopVars, ucxVars
<1>12. CASE UNCHANGED vars
  BY <1>12 DEF vars, Types, BatchQueued, Queue
<1> QED BY <1>1, <1>2, <1>3, <1>4, <1>5, <1>6, <1>7, <1>8, <1>9, <1>10, <1>11, <1>12 DEF Next, LoopStep

-----------------------------------------------------------------------------
(* Contexts and their workers                                               *)

\* Only the live worker of a context has events and progress tasks, and only one in
\* blocking mode a descriptor.
Contexts ==
    /\ ctx # NoApp => worker[ctx] = "live"
    /\ \A a \in Apps : worker[a] # "live" => tasks[a] = {} /\ events[a] = 0
    /\ \A a \in Apps : worker[a] = "none" => ~blocking[a]
    /\ \A a \in Apps : ~blocking[a] => fd[a] = NoFd

\* A worker in blocking mode is armed, or its descriptor readable, or its arm task is
\* about to arm it; and an event that has come is not only armed for.
Heard(a) ==
    worker[a] = "live" /\ blocking[a] =>
        /\ armed[a] \/ readable[a] \/ arming = a
        /\ events[a] > 0 => readable[a] \/ arming = a
AllHeard == \A a \in Apps : Heard(a)

LEMMA ContextsInit == Init => Contexts /\ AllHeard
BY DEF Init, Contexts, AllHeard, Heard

LEMMA ContextsStep ==
    Types /\ BatchQueued /\ Contexts /\ AllHeard /\ [Next]_vars => (Contexts /\ AllHeard)'
<1> SUFFICES ASSUME Types, BatchQueued, Contexts, AllHeard, [Next]_vars
             PROVE  (Contexts /\ AllHeard)'
  OBVIOUS
<1>0. NoApp \notin Apps
  BY ProgressAssumption DEF ProgressAssumption
<1>1. CASE Poll \/ Await \/ Yield
  BY <1>1 DEF Poll, Await, Yield, Contexts, AllHeard, Heard, appVars, ucxVars
<1>2. ASSUME NEW a \in Apps, ReaderCallback(a) PROVE (Contexts /\ AllHeard)'
  <2>1. UNCHANGED events \/ events' = [events EXCEPT ![a] = 0]
    BY <1>2 DEF ReaderCallback, Progress, ucxVars
  <2>2. UNCHANGED <<ctx, worker, blocking, fd, tasks, arming, armed, readable>>
    BY <1>2 DEF ReaderCallback, ucxVars, appVars
  <2>3. \A b \in Apps : events'[b] = events[b] \/ events'[b] = 0
    BY <2>1 DEF Types
  <2> QED BY <2>2, <2>3 DEF Contexts, AllHeard, Heard
<1>3. ASSUME NEW a \in Apps, ArmTask(a) PROVE (Contexts /\ AllHeard)'
  <2>1. arming = NoApp
    BY <1>3, Popped DEF ArmTask
  <2>2. UNCHANGED <<ctx, worker, blocking, fd, tasks, armed, readable>>
    BY <1>3 DEF ArmTask, appVars
  <2>3. \/ UNCHANGED <<arming, events>>
        \/ arming' = a /\ events' = [events EXCEPT ![a] = 0]
    BY <1>3 DEF ArmTask, Progress
  <2> QED BY <1>0, <2>1, <2>2, <2>3 DEF Contexts, AllHeard, Heard, Types
<1>4. ASSUME NEW a \in Apps, ArmWorker(a) PROVE (Contexts /\ AllHeard)'
  <2>1. arming = a /\ readable' = [readable EXCEPT ![a] = FALSE]
    BY <1>4 DEF ArmWorker
  <2>2. UNCHANGED <<ctx, worker, blocking, fd, tasks>>
    BY <1>4 DEF ArmWorker, appVars
  <2>3. CASE Arm(a)
    <3>1. /\ armed' = [armed EXCEPT ![a] = TRUE] /\ arming' = NoApp
          /\ UNCHANGED events /\ events[a] = 0
      BY <1>4, <2>3 DEF ArmWorker, Arm
    <3> QED BY <1>0, <2>1, <2>2, <3>1 DEF Contexts, AllHeard, Heard, Types
  <2>4. CASE ~Arm(a)
    <3>1. /\ arming' = arming /\ events' = [events EXCEPT ![a] = 0]
          /\ \A b \in Apps \ {a} : armed'[b] = armed[b]
      BY <1>4, <2>4 DEF ArmWorker, Progress, Types
    <3> QED BY <1>0, <2>1, <2>2, <3>1 DEF Contexts, AllHeard, Heard, Types
  <2> QED BY <2>3, <2>4
<1>5. ASSUME NEW a \in Apps, NonBlockingTask(a) PROVE (Contexts /\ AllHeard)'
  BY <1>5 DEF NonBlockingTask, Progress, appVars, Contexts, AllHeard, Heard, Types
<1>6. ASSUME NEW a \in Apps, ApplicationContext(a) PROVE (Contexts /\ AllHeard)'
  <2>1. /\ worker[a] = "none" /\ ctx' = a /\ worker' = [worker EXCEPT ![a] = "live"]
        /\ UNCHANGED <<arming, events, readable>>
    BY <1>6 DEF ApplicationContext
  <2>2. tasks' = [tasks EXCEPT ![a] = @ \cup {running}]
    BY <1>6 DEF ApplicationContext, ContinuousUcxProgress
  <2>3. \/ /\ blocking' = [blocking EXCEPT ![a] = TRUE] /\ armed' = [armed EXCEPT ![a] = TRUE]
           /\ \E f \in FdFor[a] : fd' = [fd EXCEPT ![a] = f]
        \/ UNCHANGED <<fd, blocking, armed>>
    BY <1>6 DEF ApplicationContext
  <2>4. Contexts'
    BY <1>0, <2>1, <2>2, <2>3 DEF Contexts, Types
  <2>5. ASSUME NEW b \in Apps PROVE Heard(b)'
    <3>1. CASE b = a
      <4>1. ~blocking[a] /\ events'[a] = 0
        BY <2>1 DEF Contexts
      <4>2. blocking'[a] => armed'[a]
        BY <2>3, <4>1 DEF Types
      <4> QED BY <3>1, <4>1, <4>2 DEF Heard
    <3>2. CASE b # a
      <4>1. worker'[b] = worker[b] /\ blocking'[b] = blocking[b] /\ armed'[b] = armed[b]
        BY <2>1, <2>3, <3>2 DEF Types
      <4> QED BY <2>1, <4>1 DEF Heard, AllHeard
    <3> QED BY <3>1, <3>2
  <2> QED BY <2>4, <2>5 DEF AllHeard
<1>7. ASSUME NEW a \in Apps, ApiCall(a) PROVE (Contexts /\ AllHeard)'
  <2>1. ctx = a /\ UNCHANGED <<ctx, worker, blocking, fd, arming, events, armed, readable>>
    BY <1>7 DEF ApiCall, ucxVars
  <2>2. tasks' = [tasks EXCEPT ![a] = @ \cup {running}]
    BY <1>7 DEF ApiCall, ContinuousUcxProgress
  <2> QED BY <1>0, <2>1, <2>2 DEF Contexts, AllHeard, Heard, Types
<1>8. ASSUME NEW a \in Apps, Reset(a) PROVE (Contexts /\ AllHeard)'
  BY <1>8 DEF Reset, Contexts, AllHeard, Heard, Types
<1>9. ASSUME NEW a \in Apps, Arrive(a) PROVE (Contexts /\ AllHeard)'
  <2>1. /\ worker[a] = "live" /\ events' = [events EXCEPT ![a] = @ + 1]
        /\ armed' = [armed EXCEPT ![a] = FALSE]
        /\ UNCHANGED <<ctx, worker, blocking, fd, tasks, arming>>
    BY <1>9 DEF Arrive, appVars
  <2>2. PICK signal \in {TRUE, readable[a] \/ armed[a]} : readable' = [readable EXCEPT ![a] = signal]
    BY <1>9 DEF Arrive
  <2>3. Contexts'
    BY <2>1 DEF Contexts, Types
  <2>4. ASSUME NEW b \in Apps PROVE Heard(b)'
    <3>1. CASE b # a
      BY <2>1, <2>2, <3>1 DEF Heard, AllHeard, Types
    <3>2. CASE b = a
      <4>1. readable'[a] = signal
        BY <2>2 DEF Types
      <4>2. worker[a] = "live" /\ blocking[a] => signal \/ arming = a
        BY <2>2 DEF Heard, AllHeard
      <4> QED BY <2>1, <3>2, <4>1, <4>2 DEF Heard
    <3> QED BY <3>1, <3>2
  <2> QED BY <2>3, <2>4 DEF AllHeard
<1>10. ASSUME NEW l \in Loops, RunLoop(l) PROVE (Contexts /\ AllHeard)'
  BY <1>10 DEF RunLoop, Contexts, AllHeard, Heard, appVars, ucxVars
<1>11. CASE UNCHANGED vars
  BY <1>11 DEF vars, Contexts, AllHeard, Heard
<1> QED BY <1>1, <1>2, <1>3, <1>4, <1>5, <1>6, <1>7, <1>8, <1>9, <1>10, <1>11 DEF Next, LoopStep

-----------------------------------------------------------------------------
(* Readers                                                                  *)

\* The callback for a number is that of the context with the number, and of a loop that
\* the context knows.
ReadersOwned ==
    \A l \in Loops, f \in Fds :
        reader[l][f] # NoApp =>
            /\ fd[reader[l][f]] = f
            /\ worker[reader[l][f]] = "live" => l \in tasks[reader[l][f]]

\* A context whose number is its own is heard in each loop it has a task for.
ReadersKept ==
    \A a \in Apps, l \in Loops :
        blocking[a] /\ l \in tasks[a] /\ FreshFd(a) => fd[a] \in watched[l] /\ reader[l][fd[a]] = a

Readers == ReadersOwned /\ ReadersKept

LEMMA ReadersInit == Init => Readers
BY DEF Init, Readers, ReadersOwned, ReadersKept

\* Nothing that Readers is about changes, but for workers that die with all their tasks.
LEMMA ReadersSame ==
    ASSUME Readers, UNCHANGED <<fd, blocking, reader, watched>>, worker' = worker, tasks' = tasks
    PROVE  Readers'
BY DEF Readers, ReadersOwned, ReadersKept, FreshFd

LEMMA ReadersAdd ==
    ASSUME Types, Contexts, Readers, NEW a \in Apps, NEW f \in Fds, AddReader(a, f), fd'[a] = f,
           tasks' = [tasks EXCEPT ![a] = @ \cup {running}], running \notin tasks[a],
           \A b \in Apps \ {a} :
              fd'[b] = fd[b] /\ blocking'[b] = blocking[b] /\ worker'[b] = worker[b],
           \/ worker[a] = "none"
           \/ worker[a] = "live" /\ blocking[a] /\ fd[a] = f
    PROVE  Readers'
<1>0. NoApp \notin Apps /\ NoFd \notin Fds /\ running \in Loops
  BY ProgressAssumption DEF ProgressAssumption, Types
<1> DEFINE old == reader[running][f]
<1>1. old \in Apps \cup {NoApp} /\ old # a
  <2>1. old \in Apps \cup {NoApp}
    BY <1>0 DEF Types
  <2>2. ASSUME old = a PROVE FALSE
    <3>1. fd[a] = f /\ (worker[a] = "live" => running \in tasks[a])
      BY <1>0, <2>2 DEF Readers, ReadersOwned
    <3> QED BY <1>0, <3>1 DEF Contexts
  <2> QED BY <2>1, <2>2
<1>2. /\ \A l \in Loops, g \in Fds : <<l, g>> # <<running, f>> => reader'[l][g] = reader[l][g]
      /\ reader'[running][f] \in {a, NoApp}
      /\ old = NoApp => reader'[running][f] = a /\ f \in watched'[running]
      /\ \A l \in Loops, g \in Fds \ {f} : g \in watched[l] => g \in watched'[l]
      /\ \A l \in Loops \ {running} : watched'[l] = watched[l]
  <2>0. /\ reader \in [Loops -> [Fds -> Apps \cup {NoApp}]] /\ reader[running] \in [Fds -> Apps \cup {NoApp}]
        /\ watched \in [Loops -> SUBSET Fds]
    BY <1>0 DEF Types
  <2>1. CASE /\ old = NoApp /\ reader' = [reader EXCEPT ![running][f] = a]
             /\ watched' = [watched EXCEPT ![running] = @ \cup {f}]
    BY <1>0, <2>0, <2>1
  <2>2. CASE old # NoApp /\ reader' = [reader EXCEPT ![running][f] = a] /\ UNCHANGED watched
    BY <1>0, <2>0, <2>2
  <2>3. CASE /\ old # NoApp /\ reader' = [reader EXCEPT ![running][f] = NoApp]
             /\ watched' = [watched EXCEPT ![running] = @ \ {f}]
    BY <1>0, <2>0, <2>3
  <2> QED BY <2>1, <2>2, <2>3 DEF AddReader, RemoveReader
<1>3. \A b \in Apps, l \in Loops : l \in tasks'[b] => l \in tasks[b] \/ (b = a /\ l = running)
  BY DEF Types
<1>4. \A b \in Apps, l \in Loops : l \in tasks[b] => l \in tasks'[b]
  BY DEF Types
<1>5. ReadersOwned'
  <2> SUFFICES ASSUME NEW l \in Loops, NEW g \in Fds, reader'[l][g] # NoApp
               PROVE  /\ fd'[reader'[l][g]] = g
                      /\ worker'[reader'[l][g]] = "live" => l \in tasks'[reader'[l][g]]
    BY DEF ReadersOwned
  <2>1. CASE <<l, g>> = <<running, f>>
    BY <1>0, <1>2, <2>1 DEF Types
  <2>2. CASE <<l, g>> # <<running, f>>
    <3> DEFINE b == reader[l][g]
    <3>1. b \in Apps /\ reader'[l][g] = b /\ fd[b] = g /\ (worker[b] = "live" => l \in tasks[b])
      BY <1>2, <2>2 DEF Types, Readers, ReadersOwned
    <3>2. CASE b # a
      BY <1>4, <3>1, <3>2
    <3>3. CASE b = a
      BY <1>0, <1>4, <3>1, <3>3 DEF Contexts
    <3> QED BY <3>2, <3>3
  <2> QED BY <2>1, <2>2
<1>6. ReadersKept'
  <2> SUFFICES ASSUME NEW b \in Apps, NEW l \in Loops, blocking'[b], l \in tasks'[b], FreshFd(b)'
               PROVE  fd'[b] \in watched'[l] /\ reader'[l][fd'[b]] = b
    BY DEF ReadersKept
  <2>1. CASE b # a
    <3>1. blocking[b] /\ l \in tasks[b] /\ fd'[b] = fd[b] /\ fd[b] \in Fds
      BY <1>3, <2>1 DEF Types
    <3>2. fd[b] # f
      BY <1>0, <2>1, <3>1 DEF FreshFd
    <3>3. FreshFd(b)
      <4> SUFFICES ASSUME NEW c \in Apps \ {b}, fd[c] = fd[b] PROVE FALSE
        BY DEF FreshFd
      <4>1. CASE c # a
        BY <1>0, <3>1, <4>1 DEF FreshFd
      <4>2. CASE c = a
        BY <1>0, <3>1, <3>2, <4>2 DEF Contexts
      <4> QED BY <4>1, <4>2
    <3>4. fd[b] \in watched[l] /\ reader[l][fd[b]] = b
      BY <3>1, <3>3 DEF Readers, ReadersKept
    <3> QED BY <1>2, <3>1, <3>2, <3>4
  <2>2. CASE b = a /\ l = running
    <3>1. old = NoApp
      <4> SUFFICES ASSUME old \in Apps PROVE FALSE
        BY <1>1
      <4>1. fd[old] = f /\ fd'[old] = fd[old]
        BY <1>0, <1>1 DEF Readers, ReadersOwned
      <4> QED BY <1>0, <1>1, <2>2, <4>1 DEF FreshFd
    <3> QED BY <1>2, <2>2, <3>1
  <2>3. CASE b = a /\ l # running
    <3>1. l \in tasks[a] /\ worker[a] = "live" /\ blocking[a] /\ fd[a] = f
      BY <1>3, <2>3 DEF Contexts
    <3>2. FreshFd(a)
      BY <1>0, <2>3, <3>1 DEF FreshFd
    <3> QED BY <1>2, <2>3, <3>1, <3>2 DEF Readers, ReadersKept
  <2> QED BY <2>1, <2>2, <2>3
<1> QED BY <1>5, <1>6 DEF Readers

\* A context that makes a task in non-blocking mode, or none at all, has no number.
LEMMA ReadersNone ==
    ASSUME Types, Contexts, Readers, NEW a \in Apps, ~blocking[a],
           UNCHANGED <<fd, blocking, reader, watched>>,
           tasks' = [tasks EXCEPT ![a] = @ \cup {running}],
           \A b \in Apps \ {a} : worker'[b] = worker[b]
    PROVE  Readers'
<1>0. NoFd \notin Fds
  BY ProgressAssumption DEF ProgressAssumption
<1>1. \A l \in Loops, f \in Fds : reader[l][f] # a
  BY <1>0, ProgressAssumption DEF Contexts, Readers, ReadersOwned, ProgressAssumption
<1> QED BY <1>1 DEF Types, Readers, ReadersOwned, ReadersKept, FreshFd

LEMMA ReadersStep ==
    Types /\ BatchQueued /\ Contexts /\ Readers /\ [Next]_vars => Readers'
<1> SUFFICES ASSUME Types, BatchQueued, Contexts, Readers, [Next]_vars PROVE Readers'
  OBVIOUS
<1>0. NoApp \notin Apps /\ NoFd \notin Fds /\ FdFor \in [Apps -> SUBSET Fds]
  BY ProgressAssumption DEF ProgressAssumption
<1>1. ASSUME UNCHANGED <<appVars, loopVars>> PROVE Readers'
  BY <1>1, ReadersSame DEF appVars, loopVars
<1>2. ASSUME NEW a \in Apps, ArmTask(a) PROVE Readers'
  <2>1. UNCHANGED appVars
    BY <1>2 DEF ArmTask
  <2>2. CASE UNCHANGED loopVars
    BY <1>1, <2>1, <2>2
  <2>3. CASE Gone(a) /\ RemoveReader(running, fd[a])
    <3>1. tasks[a] = {} /\ fd[a] \in Fds /\ running \in Loops
      BY <1>2, <2>3 DEF Gone, Contexts, ArmTask, Types
    <3>2. \A l \in Loops, f \in Fds :
            reader'[l][f] = reader[l][f] \/ (f = fd[a] /\ reader'[l][f] = NoApp)
      BY <2>3, <3>1 DEF RemoveReader, Types
    <3>3. \A l \in Loops, f \in Fds : f # fd[a] => (f \in watched'[l] <=> f \in watched[l])
      BY <2>3, <3>1 DEF RemoveReader, Types
    <3>4. ReadersOwned'
      BY <2>1, <3>2 DEF Readers, ReadersOwned, appVars
    <3>5. \A b \in Apps, l \in Loops : blocking[b] /\ l \in tasks[b] /\ FreshFd(b) => fd[b] # fd[a]
      BY <1>0, <3>1 DEF FreshFd
    <3>6. ReadersKept'
      <4> SUFFICES ASSUME NEW b \in Apps, NEW l \in Loops, blocking[b], l \in tasks[b], FreshFd(b)
                   PROVE  fd[b] \in watched'[l] /\ reader'[l][fd[b]] = b
        BY <2>1 DEF ReadersKept, FreshFd, appVars
      <4>1. fd[b] \in Fds /\ fd[b] # fd[a] /\ fd[b] \in watched[l] /\ reader[l][fd[b]] = b
        BY <3>5 DEF Types, Readers, ReadersKept
      <4> QED BY <1>0, <3>2, <3>3, <4>1
    <3> QED BY <3>4, <3>6 DEF Readers
  <2> QED BY <1>2, <2>2, <2>3 DEF ArmTask
<1>3. ASSUME NEW a \in Apps, ApplicationContext(a) PROVE Readers'
  <2>1. worker[a] = "none" /\ worker' = [worker EXCEPT ![a] = "live"] /\ tasks[a] = {} /\ ~blocking[a]
    BY <1>3 DEF ApplicationContext, Contexts
  <2>2. \A b \in Apps \ {a} : worker'[b] = worker[b]
    BY <2>1 DEF Types
  <2>3. ASSUME NEW f \in FdFor[a], fd' = [fd EXCEPT ![a] = f], ContinuousUcxProgress(a, TRUE, f),
               blocking' = [blocking EXCEPT ![a] = TRUE]
        PROVE  Readers'
    <3>1. /\ AddReader(a, f) /\ f \in Fds /\ tasks' = [tasks EXCEPT ![a] = @ \cup {running}]
          /\ fd'[a] = f /\ running \notin tasks[a]
          /\ \A b \in Apps \ {a} : fd'[b] = fd[b] /\ blocking'[b] = blocking[b]
      BY <1>0, <2>1, <2>3 DEF ContinuousUcxProgress, Types
    <3> QED BY <2>1, <2>2, <3>1, ReadersAdd
  <2>4. ASSUME ContinuousUcxProgress(a, FALSE, NoFd), UNCHANGED <<fd, blocking>>
        PROVE  Readers'
    <3>1. UNCHANGED <<reader, watched>> /\ tasks' = [tasks EXCEPT ![a] = @ \cup {running}]
      BY <2>4 DEF ContinuousUcxProgress, loopVars
    <3> QED BY <2>1, <2>2, <2>4, <3>1, ReadersNone
  <2>5. \/ \E f \in FdFor[a] : /\ fd' = [fd EXCEPT ![a] = f] /\ ContinuousUcxProgress(a, TRUE, f)
                               /\ blocking' = [blocking EXCEPT ![a] = TRUE]
        \/ ContinuousUcxProgress(a, FALSE, NoFd) /\ UNCHANGED <<fd, blocking>>
    BY <1>3 DEF ApplicationContext
  <2> QED BY <2>3, <2>4, <2>5
<1>4. ASSUME NEW a \in Apps, ApiCall(a) PROVE Readers'
  <2>1. /\ worker[a] = "live" /\ running \notin tasks[a] /\ UNCHANGED <<worker, blocking, fd>>
        /\ ContinuousUcxProgress(a, blocking[a], fd[a])
    BY <1>0, <1>4 DEF ApiCall, Contexts
  <2>2. tasks' = [tasks EXCEPT ![a] = @ \cup {running}]
    BY <2>1 DEF ContinuousUcxProgress
  <2>3. CASE blocking[a]
    <3>1. AddReader(a, fd[a]) /\ fd[a] \in Fds
      BY <2>1, <2>3 DEF ContinuousUcxProgress, Types
    <3> QED BY <2>1, <2>2, <2>3, <3>1, ReadersAdd
  <2>4. CASE ~blocking[a]
    <3>1. UNCHANGED <<reader, watched>>
      BY <2>1, <2>4 DEF ContinuousUcxProgress, loopVars
    <3> QED BY <2>1, <2>2, <2>4, <3>1, ReadersNone
  <2> QED BY <2>3, <2>4
<1>5. ASSUME NEW a \in Apps, Reset(a) PROVE Readers'
  <2>1. /\ worker' = [worker EXCEPT ![a] = "dead"] /\ tasks' = [tasks EXCEPT ![a] = {}]
        /\ watched' = [l \in Loops |-> watched[l] \ {fd[a]}]
        /\ UNCHANGED <<blocking, fd, reader>>
    BY <1>5 DEF Reset
  <2>2. ReadersOwned'
    BY <2>1 DEF Readers, ReadersOwned, Types
  <2>3. ReadersKept'
    <3> SUFFICES ASSUME NEW b \in Apps, NEW l \in Loops, blocking[b], l \in tasks'[b], FreshFd(b)
                 PROVE  fd[b] \in watched'[l] /\ reader[l][fd[b]] = b
      BY <2>1 DEF ReadersKept, FreshFd
    <3>1. b # a /\ l \in tasks[b]
      BY <2>1 DEF Types
    <3>2. fd[b] \in Fds /\ fd[b] # fd[a]
      BY <1>0, <3>1 DEF FreshFd, Types
    <3> QED BY <2>1, <3>1, <3>2 DEF Readers, ReadersKept
  <2> QED BY <2>2, <2>3 DEF Readers
<1>6. CASE Poll \/ Await \/ Yield
  BY <1>1, <1>6 DEF Poll, Await, Yield
<1>7. ASSUME NEW a \in Apps,
             ReaderCallback(a) \/ ArmWorker(a) \/ NonBlockingTask(a) \/ Arrive(a)
      PROVE  Readers'
  BY <1>1, <1>7 DEF ReaderCallback, ArmWorker, NonBlockingTask, Arrive
<1>8. ASSUME NEW l \in Loops, RunLoop(l) PROVE Readers'
  BY <1>1, <1>8 DEF RunLoop
<1>9. CASE UNCHANGED vars
  BY <1>1, <1>9 DEF vars, appVars, loopVars
<1> QED BY <1>2, <1>3, <1>4, <1>5, <1>6, <1>7, <1>8, <1>9 DEF Next, LoopStep

-----------------------------------------------------------------------------
(* Who is about to run                                                      *)

\* Reader callbacks are in the part of the queue that the running loop is running,
\* each once.
ReadersNext ==
    /\ \A l \in Loops : \A i \in 1..Len(ready[l]) :
         ready[l][i].kind = "reader" => l = running /\ i <= batch /\ blocking[ready[l][i].app]
    /\ \A i, j \in 1..Len(Queue) : Queue[i].kind = "reader" /\ Queue[i] = Queue[j] => i = j

\* An arm task that is to run, and is not at it already, is in its loop's queue, and
\* before the next reader callback.
ArmFirst ==
    /\ \A a \in Apps, l \in Loops :
         blocking[a] /\ asyncio[a][l] = "scheduled" /\ ~(arming = a /\ l = running) =>
            \E j \in 1..Len(ready[l]) : ready[l][j] = TaskOf(a)
    /\ \A i \in 1..Len(Queue), a \in Apps :
         Queue[i] = ReaderOf(a) /\ asyncio[a][running] = "scheduled" /\ arming # a =>
            \E j \in 1..Len(Queue) : j < i /\ Queue[j] = TaskOf(a)

\* The task of the non-blocking mode is always in the queue.
TurnsQueued ==
    \A a \in Apps, l \in Loops :
        worker[a] = "live" /\ ~blocking[a] /\ l \in tasks[a] =>
            \E j \in 1..Len(ready[l]) : ready[l][j] = TaskOf(a)

\* Tasks are those of contexts that have been made.
TasksMade == \A a \in Apps, l \in Loops : asyncio[a][l] = "scheduled" => worker[a] # "none"

Queued == ReadersNext /\ ArmFirst /\ TurnsQueued /\ TasksMade

LEMMA QueuedInit == Init => Queued
<1> SUFFICES ASSUME Init PROVE Queued
  OBVIOUS
<1>1. \A l \in Loops : ready[l] = <<User>>
  BY DEF Init
<1>2. Len(<<User>>) = 1 /\ <<User>>[1] = User
  BY HandleTypes
<1>3. running \in Loops /\ \A a \in Apps : \A l \in Loops : asyncio[a][l] = "none" /\ tasks[a] = {}
  BY DEF Init
<1>4. \A l \in Loops : \A i \in 1..Len(ready[l]) : ready[l][i].kind # "reader"
  BY <1>1, <1>2, HandleTypes
<1>5. ReadersNext
  BY <1>3, <1>4 DEF ReadersNext, Queue
<1>6. ArmFirst /\ TurnsQueued /\ TasksMade
  BY <1>3 DEF ArmFirst, TurnsQueued, TasksMade, Queue
<1> QED BY <1>5, <1>6 DEF Queued

\* What a step that takes k callbacks leaves of the queues.
LEMMA MovesQueue ==
    ASSUME Types, NEW k \in {0, 1}, Moves(k)
    PROVE  /\ \A l \in Loops \ {running} : ready'[l] = ready[l]
           /\ running' = running /\ batch' = batch - k /\ Queue' = ready'[running]
           /\ Len(Queue) \in Nat /\ Len(Queue') \in Nat
           /\ \A i \in 1..Len(Queue') : Queue'[i].kind = "reader" =>
                i + k \in 1..Len(Queue) /\ Queue'[i] = Queue[i + k]
           /\ \A i \in 1..Len(Queue) : i > k => i - k \in 1..Len(Queue') /\ Queue'[i - k] = Queue[i]
<1>1. PICK r \in Seq(Handles) : ready' = [ready EXCEPT ![running] = r] /\ Follows(r, Queue, k)
  BY DEF Moves
<1>2. running \in Loops /\ ready \in [Loops -> Seq(Handles)]
  BY DEF Types
<1>3. Queue' = r /\ \A l \in Loops \ {running} : ready'[l] = ready[l]
  BY <1>1, <1>2 DEF Queue, Moves
<1>4. Len(r) \in Nat /\ Len(Queue) \in Nat
  BY <1>2, LenProperties DEF Queue
<1>5. \A i \in 1..Len(r) : r[i].kind = "reader" => i + k \in 1..Len(Queue) /\ r[i] = Queue[i + k]
  BY <1>1, <1>4 DEF Follows
<1>6. \A i \in 1..Len(Queue) : i > k => i - k \in 1..Len(r) /\ r[i - k] = Queue[i]
  <2> SUFFICES ASSUME NEW i \in 1..Len(Queue), i > k
               PROVE  i - k \in 1..Len(r) /\ r[i - k] = Queue[i]
    OBVIOUS
  <2>1. i - k \in 1..Len(r) /\ (i - k) + k = i /\ i <= Len(Queue)
    BY <1>1, <1>4 DEF Follows
  <2> QED BY <1>1, <2>1 DEF Follows
<1> QED BY <1>1, <1>2, <1>3, <1>4, <1>5, <1>6 DEF Moves, Queue

\* A step of a callback, or of the arm task, that keeps what the queues have to do with
\* the tasks.
LEMMA QueuedMoves ==
    ASSUME Types, BatchQueued, Queued, NEW k \in {0, 1}, Moves(k),
           \A a \in Apps : blocking[a] => blocking'[a],
           \A a \in Apps :
              blocking'[a] /\ asyncio'[a][running] = "scheduled" /\ arming' # a =>
                \/ /\ blocking[a] /\ asyncio[a][running] = "scheduled" /\ arming # a
                   /\ k = 1 => Queue[1] # TaskOf(a)
                \/ /\ \A i \in 1..Len(Queue') : Queue'[i] # ReaderOf(a)
                   /\ \E i \in 1..Len(Queue') : Queue'[i] = TaskOf(a),
           \A a \in Apps, l \in Loops \ {running} :
              blocking'[a] /\ asyncio'[a][l] = "scheduled" => blocking[a] /\ asyncio[a][l] = "scheduled",
           \A a \in Apps, l \in Loops :
              worker'[a] = "live" /\ ~blocking'[a] /\ l \in tasks'[a] =>
                \/ /\ worker[a] = "live" /\ ~blocking[a] /\ l \in tasks[a]
                   /\ k = 1 /\ l = running => Queue[1] # TaskOf(a)
                \/ l = running /\ \E i \in 1..Len(Queue') : Queue'[i] = TaskOf(a),
           TasksMade'
    PROVE  Queued'
<1>1. /\ \A l \in Loops \ {running} : ready'[l] = ready[l]
      /\ running' = running /\ batch' = batch - k /\ Queue' = ready'[running]
      /\ Len(Queue) \in Nat /\ Len(Queue') \in Nat
      /\ \A i \in 1..Len(Queue') : Queue'[i].kind = "reader" =>
           i + k \in 1..Len(Queue) /\ Queue'[i] = Queue[i + k]
      /\ \A i \in 1..Len(Queue) : i > k => i - k \in 1..Len(Queue') /\ Queue'[i - k] = Queue[i]
  BY MovesQueue
<1>2. running \in Loops /\ batch \in Nat /\ ready \in [Loops -> Seq(Handles)] /\ Queue = ready[running]
  BY DEF Types, Queue
<1>3. \A i \in 1..Len(Queue) : Queue[i] \in Handles
  BY <1>2, ElementOfSeq
<1>4. ReadersNext'
  <2>1. ASSUME NEW l \in Loops, NEW i \in 1..Len(ready'[l]), ready'[l][i].kind = "reader"
        PROVE  l = running' /\ i <= batch' /\ blocking'[ready'[l][i].app]
    <3>1. l = running
      BY <1>1, <2>1 DEF Queued, ReadersNext
    <3>2. i + k \in 1..Len(Queue) /\ ready'[l][i] = Queue[i + k]
      BY <1>1, <2>1, <3>1
    <3>3. i + k <= batch /\ blocking[Queue[i + k].app] /\ Queue[i + k].app \in Apps
      BY <1>2, <1>3, <2>1, <3>2, HandleTypes DEF Queued, ReadersNext
    <3> QED BY <1>1, <1>2, <3>1, <3>2, <3>3
  <2>2. ASSUME NEW i \in 1..Len(Queue'), NEW j \in 1..Len(Queue'),
               Queue'[i].kind = "reader", Queue'[i] = Queue'[j]
        PROVE  i = j
    <3>1. i + k \in 1..Len(Queue) /\ j + k \in 1..Len(Queue) /\ Queue[i + k] = Queue[j + k]
          /\ Queue[i + k].kind = "reader"
      BY <1>1, <2>2
    <3> QED BY <1>1, <3>1 DEF Queued, ReadersNext
  <2> QED BY <2>1, <2>2 DEF ReadersNext
<1>5. ArmFirst'
  <2>1. ASSUME NEW a \in Apps, NEW l \in Loops, blocking'[a], asyncio'[a][l] = "scheduled",
               ~(arming' = a /\ l = running')
        PROVE  \E j \in 1..Len(ready'[l]) : ready'[l][j] = TaskOf(a)
    <3>1. CASE l # running
      BY <1>1, <2>1, <3>1 DEF Queued, ArmFirst
    <3>2. CASE l = running
      <4>1. CASE \E i \in 1..Len(Queue') : Queue'[i] = TaskOf(a)
        BY <1>1, <3>2, <4>1
      <4>2. CASE /\ blocking[a] /\ asyncio[a][running] = "scheduled" /\ arming # a
                 /\ k = 1 => Queue[1] # TaskOf(a)
        <5>1. PICK j \in 1..Len(Queue) : Queue[j] = TaskOf(a)
          BY <1>2, <4>2 DEF Queued, ArmFirst
        <5>2. j > k
          BY <1>1, <4>2, <5>1
        <5>3. j - k \in 1..Len(Queue') /\ Queue'[j - k] = TaskOf(a)
          BY <1>1, <5>1, <5>2
        <5> QED BY <1>1, <3>2, <5>3
      <4> QED BY <1>1, <2>1, <3>2, <4>1, <4>2
    <3> QED BY <3>1, <3>2
  <2>2. ASSUME NEW i \in 1..Len(Queue'), NEW a \in Apps, Queue'[i] = ReaderOf(a),
               asyncio'[a][running'] = "scheduled", arming' # a
        PROVE  \E j \in 1..Len(Queue') : j < i /\ Queue'[j] = TaskOf(a)
    <3>1. i + k \in 1..Len(Queue) /\ Queue[i + k] = ReaderOf(a)
      BY <1>1, <2>2, HandleTypes
    <3>2. blocking[a]
      BY <1>2, <3>1, HandleTypes DEF Queued, ReadersNext
    <3>3. asyncio[a][running] = "scheduled" /\ arming # a /\ (k = 1 => Queue[1] # TaskOf(a))
      BY <1>1, <2>2, <3>2
    <3>4. PICK j \in 1..Len(Queue) : j < i + k /\ Queue[j] = TaskOf(a)
      BY <3>1, <3>3 DEF Queued, ArmFirst
    <3>5. j > k
      BY <1>1, <3>3, <3>4
    <3>6. j - k \in 1..Len(Queue') /\ Queue'[j - k] = TaskOf(a) /\ j - k < i
      BY <1>1, <3>4, <3>5
    <3> QED BY <3>6
  <2> QED BY <2>1, <2>2 DEF ArmFirst
<1>6. TurnsQueued'
  <2> SUFFICES ASSUME NEW a \in Apps, NEW l \in Loops, worker'[a] = "live", ~blocking'[a], l \in tasks'[a]
               PROVE  \E j \in 1..Len(ready'[l]) : ready'[l][j] = TaskOf(a)
    BY DEF TurnsQueued
  <2>1. CASE l = running /\ \E i \in 1..Len(Queue') : Queue'[i] = TaskOf(a)
    BY <1>1, <2>1
  <2>2. CASE /\ worker[a] = "live" /\ ~blocking[a] /\ l \in tasks[a]
             /\ k = 1 /\ l = running => Queue[1] # TaskOf(a)
    <3>1. PICK j \in 1..Len(ready[l]) : ready[l][j] = TaskOf(a)
      BY <2>2 DEF Queued, TurnsQueued
    <3>2. CASE l # running
      BY <1>1, <3>1, <3>2
    <3>3. CASE l = running
      <4>1. j \in 1..Len(Queue) /\ Queue[j] = TaskOf(a) /\ j > k
        BY <1>1, <1>2, <2>2, <3>1, <3>3
      <4>2. j - k \in 1..Len(Queue') /\ Queue'[j - k] = TaskOf(a)
        BY <1>1, <4>1
      <4> QED BY <1>1, <3>3, <4>2
    <3> QED BY <3>2, <3>3
  <2> QED BY <2>1, <2>2
<1> QED BY <1>4, <1>5, <1>6 DEF Queued

\* A poll adds the reader callbacks, after the arm tasks that are still to run.
LEMMA QueuedPoll ==
    ASSUME Types, Contexts, Readers, Queued, Poll
    PROVE  Queued'
<1>0. NoApp \notin Apps /\ NoFd \notin Fds
  BY ProgressAssumption DEF ProgressAssumption
<1>1. PICK s \in Seq(Handles) :
        /\ ready' = [ready EXCEPT ![running] = Queue \o s] /\ batch' = Len(Queue \o s)
        /\ \A i \in 1..Len(s) :
             \E a \in Apps, f \in Fds : s[i] = ReaderOf(a) /\ reader[running][f] = a
        /\ \A i, j \in 1..Len(s) : s[i] = s[j] => i = j
  BY Polled
<1>2. /\ running' = running /\ arming' = NoApp /\ batch = 0 /\ arming = NoApp
      /\ UNCHANGED <<worker, blocking, tasks, asyncio>>
  BY DEF Poll, InLoop, appVars
<1>3. running \in Loops /\ ready \in [Loops -> Seq(Handles)] /\ Queue = ready[running]
      /\ Queue \in Seq(Handles)
  BY DEF Types, Queue
<1> DEFINE n == Len(Queue)
           q == Queue \o s
<1>4. /\ q \in Seq(Handles) /\ Len(q) = n + Len(s) /\ n \in Nat /\ Len(s) \in Nat
      /\ \A i \in 1..n : q[i] = Queue[i]
      /\ \A i \in 1..Len(q) : i > n => i - n \in 1..Len(s) /\ q[i] = s[i - n]
  BY <1>3, ConcatProperties, LenProperties
<1>5. ready' = [ready EXCEPT ![running] = q] /\ batch' = Len(q)
  BY <1>1
<1>6. \A i \in 1..Len(s) : \E a \in Apps : s[i] = ReaderOf(a) /\ blocking[a]
  <2> SUFFICES ASSUME NEW i \in 1..Len(s) PROVE \E a \in Apps : s[i] = ReaderOf(a) /\ blocking[a]
    OBVIOUS
  <2>1. PICK a \in Apps, f \in Fds : s[i] = ReaderOf(a) /\ reader[running][f] = a
    BY <1>1
  <2>2. fd[a] = f
    BY <1>0, <1>3, <2>1 DEF Readers, ReadersOwned
  <2>3. blocking[a]
    BY <1>0, <2>2 DEF Contexts
  <2> QED BY <2>1, <2>3
<1> HIDE DEF n, q
<1>7. Queue' = q /\ ready'[running] = q /\ \A l \in Loops \ {running} : ready'[l] = ready[l]
  BY <1>2, <1>3, <1>5 DEF Queue
<1>8. \A l \in Loops : \A i \in 1..Len(ready[l]) : ready[l][i].kind # "reader"
  BY <1>2 DEF Queued, ReadersNext
<1> DEFINE Kept == \A l \in Loops, i \in Nat :
                     i \in 1..Len(ready[l]) => i \in 1..Len(ready'[l]) /\ ready'[l][i] = ready[l][i]
<1>9. Kept
  <2>1. \A i \in 1..Len(Queue) : i \in 1..Len(q) /\ q[i] = Queue[i]
    BY <1>4 DEF n
  <2> QED BY <1>3, <1>7, <2>1
<1>10. \A i \in 1..Len(q) : q[i].kind = "reader" => i > n
  BY <1>3, <1>4, <1>8 DEF n
<1>11. ReadersNext'
  <2>1. ASSUME NEW l \in Loops, NEW i \in 1..Len(ready'[l]), ready'[l][i].kind = "reader"
        PROVE  l = running' /\ i <= batch' /\ blocking'[ready'[l][i].app]
    <3>1. l = running
      BY <1>7, <1>8, <2>1
    <3>2. i \in 1..Len(q) /\ q[i].kind = "reader"
      BY <1>7, <2>1, <3>1
    <3>3. i > n
      BY <1>10, <3>2
    <3>4. \E a \in Apps : q[i] = ReaderOf(a) /\ blocking[a]
      BY <1>4, <1>6, <3>2, <3>3
    <3>5. blocking[q[i].app]
      BY <3>4, HandleTypes
    <3> QED BY <1>2, <1>4, <1>5, <1>7, <3>1, <3>2, <3>5
  <2>2. ASSUME NEW i \in 1..Len(q), NEW j \in 1..Len(q), q[i].kind = "reader", q[i] = q[j]
        PROVE  i = j
    <3>1. i > n /\ j > n
      BY <1>10, <2>2
    <3>2. i - n \in 1..Len(s) /\ j - n \in 1..Len(s) /\ s[i - n] = s[j - n]
      BY <1>4, <2>2, <3>1
    <3>3. i - n = j - n
      BY <1>1, <3>2
    <3> QED BY <1>4, <3>3
  <2> QED BY <1>7, <2>1, <2>2 DEF ReadersNext
<1>12. ArmFirst'
  <2>1. ASSUME NEW a \in Apps, NEW l \in Loops, blocking'[a], asyncio'[a][l] = "scheduled"
        PROVE  \E j \in 1..Len(ready'[l]) : ready'[l][j] = TaskOf(a)
    <3>1. PICK j \in 1..Len(ready[l]) : ready[l][j] = TaskOf(a)
      BY <1>0, <1>2, <2>1 DEF Queued, ArmFirst
    <3> QED BY <1>9, <3>1
  <2>2. ASSUME NEW i \in 1..Len(q), NEW a \in Apps, q[i] = ReaderOf(a), asyncio[a][running] = "scheduled"
        PROVE  \E j \in 1..Len(q) : j < i /\ q[j] = TaskOf(a)
    <3>1. i > n
      BY <1>10, <2>2, HandleTypes
    <3>2. blocking[a]
      <4>1. \E b \in Apps : q[i] = ReaderOf(b) /\ blocking[b]
        BY <1>4, <1>6, <3>1
      <4>2. \A b \in Apps : q[i] = ReaderOf(b) => a = b
        BY <2>2, ReaderOfOne
      <4> QED BY <4>1, <4>2
    <3>3. PICK j \in 1..Len(Queue) : Queue[j] = TaskOf(a)
      BY <1>0, <1>2, <1>3, <2>2, <3>2 DEF Queued, ArmFirst
    <3>4. j \in 1..Len(q) /\ q[j] = TaskOf(a) /\ j < i
      BY <1>4, <3>1, <3>3 DEF n
    <3> QED BY <3>4
  <2> QED BY <1>2, <1>7, <2>1, <2>2 DEF ArmFirst
<1>13. TurnsQueued' /\ TasksMade'
  <2>1. ASSUME NEW a \in Apps, NEW l \in Loops, worker'[a] = "live", ~blocking'[a], l \in tasks'[a]
        PROVE  \E j \in 1..Len(ready'[l]) : ready'[l][j] = TaskOf(a)
    <3>1. PICK j \in 1..Len(ready[l]) : ready[l][j] = TaskOf(a)
      BY <1>2, <2>1 DEF Queued, TurnsQueued
    <3> QED BY <1>9, <3>1
  <2> QED BY <1>2, <2>1 DEF TurnsQueued, TasksMade, Queued
<1> QED BY <1>11, <1>12, <1>13 DEF Queued

LEMMA QueuedRunLoop ==
    ASSUME Types, Queued, NEW m \in Loops, RunLoop(m)
    PROVE  Queued'
<1>0. NoApp \notin Apps
  BY ProgressAssumption DEF ProgressAssumption
<1>1. running' = m /\ arming' = NoApp /\ batch = 0 /\ arming = NoApp
      /\ UNCHANGED <<worker, blocking, tasks, asyncio>>
  BY DEF RunLoop, InLoop, appVars
<1>2. ready \in [Loops -> Seq(Handles)]
  BY DEF Types
<1>3. \A l \in Loops : \A i \in 1..Len(ready[l]) : ready[l][i].kind # "reader"
  BY <1>1 DEF Queued, ReadersNext
<1>4. \A l \in Loops : ready'[l] = ready[l] \/ ready'[l] = Append(ready[l], User)
  BY <1>2 DEF RunLoop
<1>5. ASSUME NEW l \in Loops
      PROVE  /\ \A i \in 1..Len(ready'[l]) : ready'[l][i].kind # "reader"
             /\ \A i \in 1..Len(ready[l]) : i \in 1..Len(ready'[l]) /\ ready'[l][i] = ready[l][i]
  <2>1. CASE ready'[l] = ready[l]
    BY <1>3, <2>1
  <2>2. CASE ready'[l] = Append(ready[l], User)
    <3> DEFINE q == ready[l]
    <3>1. q \in Seq(Handles)
      BY <1>2
    <3> HIDE DEF q
    <3>2. /\ Len(Append(q, User)) = Len(q) + 1 /\ Len(q) \in Nat
          /\ \A i \in 1..Len(q) : Append(q, User)[i] = q[i]
          /\ Append(q, User)[Len(q) + 1] = User
      BY <3>1, AppendProperties, LenProperties, HandleTypes
    <3> QED BY <1>3, <2>2, <3>2, HandleTypes DEF q
  <2> QED BY <1>4, <2>1, <2>2
<1>6. ReadersNext'
  BY <1>1, <1>5 DEF ReadersNext, Queue
<1>7. ArmFirst'
  <2>1. ASSUME NEW a \in Apps, NEW l \in Loops, blocking[a], asyncio[a][l] = "scheduled"
        PROVE  \E j \in 1..Len(ready'[l]) : ready'[l][j] = TaskOf(a)
    <3>1. PICK j \in 1..Len(ready[l]) : ready[l][j] = TaskOf(a)
      BY <1>0, <1>1, <2>1 DEF Queued, ArmFirst
    <3> QED BY <1>5, <3>1
  <2>2. \A i \in 1..Len(Queue'), a \in Apps : Queue'[i] # ReaderOf(a)
    BY <1>1, <1>5, HandleTypes DEF Queue
  <2> QED BY <1>1, <2>1, <2>2 DEF ArmFirst
<1>8. TurnsQueued' /\ TasksMade'
  <2>1. ASSUME NEW a \in Apps, NEW l \in Loops, worker[a] = "live", ~blocking[a], l \in tasks[a]
        PROVE  \E j \in 1..Len(ready'[l]) : ready'[l][j] = TaskOf(a)
    <3>1. PICK j \in 1..Len(ready[l]) : ready[l][j] = TaskOf(a)
      BY <2>1 DEF Queued, TurnsQueued
    <3> QED BY <1>5, <3>1
  <2> QED BY <1>1, <2>1 DEF TurnsQueued, TasksMade, Queued
<1> QED BY <1>6, <1>7, <1>8 DEF Queued

\* Steps after which no more is due to a task than before: no task is scheduled or made,
\* and none that is still due is the one that ran.
LEMMA QueuedSame ==
    ASSUME Types, BatchQueued, Queued, NEW k \in {0, 1}, Moves(k),
           UNCHANGED <<blocking, arming>>,
           \A a \in Apps : worker'[a] = worker[a] \/ worker'[a] = "dead",
           \A a \in Apps : tasks'[a] \subseteq tasks[a],
           \A a \in Apps, l \in Loops : asyncio'[a][l] = "scheduled" => asyncio[a][l] = "scheduled",
           \A a \in Apps : k = 1 /\ Queue[1] = TaskOf(a) =>
              /\ asyncio'[a][running] # "scheduled" \/ ~blocking[a]
              /\ worker'[a] # "live" \/ blocking[a]
    PROVE  Queued'
<1>1. running \in Loops
  BY DEF Types
<1>2. TasksMade'
  BY DEF TasksMade, Queued
<1>3. \A a \in Apps :
        blocking'[a] /\ asyncio'[a][running] = "scheduled" /\ arming' # a =>
          /\ blocking[a] /\ asyncio[a][running] = "scheduled" /\ arming # a
          /\ k = 1 => Queue[1] # TaskOf(a)
  BY <1>1
<1>4. \A a \in Apps, l \in Loops :
        worker'[a] = "live" /\ ~blocking'[a] /\ l \in tasks'[a] =>
          /\ worker[a] = "live" /\ ~blocking[a] /\ l \in tasks[a]
          /\ k = 1 /\ l = running => Queue[1] # TaskOf(a)
  OBVIOUS
<1> QED BY <1>1, <1>2, <1>3, <1>4, QueuedMoves

LEMMA QueuedReader ==
    ASSUME Types, BatchQueued, Queued, NEW a \in Apps, ReaderCallback(a)
    PROVE  Queued'
<1>1. /\ Moves(1) /\ Queue[1] = ReaderOf(a) /\ arming = NoApp /\ Queue # <<>> /\ batch \in Nat \ {0}
      /\ Queue \in Seq(Handles)
      /\ UNCHANGED <<blocking, arming, worker, tasks>>
  BY ReaderMoves, Popped DEF ReaderCallback, ReaderOf, appVars
<1>2. \A b \in Apps : Queue[1] # TaskOf(b)
  BY <1>1, HandleTypes
<1>3. CASE UNCHANGED asyncio
  BY <1>1, <1>2, <1>3, QueuedSame
<1>4. CASE ~Gone(a) /\ SetTask(a, "scheduled") /\ asyncio[a][running] # "scheduled"
  <2>1. \A i \in 1..Len(Queue') : Queue'[i] # ReaderOf(a)
    <3> SUFFICES ASSUME NEW i \in 1..Len(Queue'), Queue'[i] = ReaderOf(a) PROVE FALSE
      OBVIOUS
    <3>1. i + 1 \in 1..Len(Queue) /\ Queue[i + 1] = ReaderOf(a) /\ 1 \in 1..Len(Queue)
      BY <1>1, MovesQueue, HandleTypes
    <3>2. Queue[1].kind = "reader" /\ Queue[1] = Queue[i + 1]
      BY <1>1, <3>1, HandleTypes
    <3>3. \A m, j \in 1..Len(Queue) : Queue[m].kind = "reader" /\ Queue[m] = Queue[j] => m = j
      BY DEF Queued, ReadersNext
    <3>4. 1 = i + 1 /\ i \in Nat \ {0}
      BY <3>1, <3>2, <3>3
    <3> QED BY <3>4
  <2>2. asyncio \in [Apps -> [Loops -> {"none", "scheduled", "done"}]] /\ running \in Loops
    BY DEF Types
  <2>3. /\ asyncio'[a][running] = "scheduled"
        /\ \A b \in Apps, l \in Loops : ~(b = a /\ l = running) => asyncio'[b][l] = asyncio[b][l]
    BY <1>4, <2>2 DEF SetTask
  <2>4. \E i \in 1..Len(Queue') : Queue'[i] = TaskOf(a)
    BY <1>4, <2>3, ReaderMoves
  <2>5. TasksMade'
    BY <1>1, <1>4, <2>3 DEF TasksMade, Queued, Gone
  <2>6. \A b \in Apps :
          blocking'[b] /\ asyncio'[b][running] = "scheduled" /\ arming' # b =>
            \/ /\ blocking[b] /\ asyncio[b][running] = "scheduled" /\ arming # b
               /\ 1 = 1 => Queue[1] # TaskOf(b)
            \/ /\ \A i \in 1..Len(Queue') : Queue'[i] # ReaderOf(b)
               /\ \E i \in 1..Len(Queue') : Queue'[i] = TaskOf(b)
    BY <1>1, <1>2, <2>1, <2>2, <2>3, <2>4
  <2>7. \A b \in Apps, l \in Loops :
          worker'[b] = "live" /\ ~blocking'[b] /\ l \in tasks'[b] =>
            /\ worker[b] = "live" /\ ~blocking[b] /\ l \in tasks[b]
            /\ 1 = 1 /\ l = running => Queue[1] # TaskOf(b)
    BY <1>1, <1>2
  <2> QED BY <1>1, <2>2, <2>3, <2>5, <2>6, <2>7, QueuedMoves
<1> QED BY <1>3, <1>4 DEF ReaderCallback

LEMMA QueuedArmTask ==
    ASSUME Types, BatchQueued, Queued, NEW a \in Apps, ArmTask(a)
    PROVE  Queued'
<1>1. /\ Moves(1) /\ Queue[1] = TaskOf(a) /\ arming = NoApp /\ blocking[a]
      /\ UNCHANGED <<blocking, worker, tasks>>
  BY ArmTaskMoves, Popped DEF ArmTask, TaskOf, appVars
<1>2. \A b \in Apps \ {a} : Queue[1] # TaskOf(b)
  BY <1>1, HandleTypes
<1>3. asyncio \in [Apps -> [Loops -> {"none", "scheduled", "done"}]] /\ running \in Loops
  BY DEF Types
<1>4. CASE Gone(a)
  <2>1. SetTask(a, "done") /\ UNCHANGED arming
    BY <1>4 DEF ArmTask
  <2>2. /\ asyncio'[a][running] = "done"
        /\ \A b \in Apps, l \in Loops : ~(b = a /\ l = running) => asyncio'[b][l] = asyncio[b][l]
    BY <1>3, <2>1 DEF SetTask
  <2> QED BY <1>1, <1>2, <2>1, <2>2, QueuedSame
<1>5. CASE ~Gone(a)
  <2>1. UNCHANGED asyncio /\ arming' = a
    BY <1>5 DEF ArmTask
  <2>2. \A b \in Apps :
          blocking'[b] /\ asyncio'[b][running] = "scheduled" /\ arming' # b =>
            /\ blocking[b] /\ asyncio[b][running] = "scheduled" /\ arming # b
            /\ 1 = 1 => Queue[1] # TaskOf(b)
    BY <1>1, <1>2, <2>1, ProgressAssumption DEF ProgressAssumption
  <2>3. \A b \in Apps, l \in Loops :
          worker'[b] = "live" /\ ~blocking'[b] /\ l \in tasks'[b] =>
            /\ worker[b] = "live" /\ ~blocking[b] /\ l \in tasks[b]
            /\ 1 = 1 /\ l = running => Queue[1] # TaskOf(b)
    BY <1>1, <1>2
  <2>4. TasksMade'
    BY <1>1, <2>1 DEF Queued, TasksMade
  <2> QED BY <1>1, <2>1, <2>2, <2>3, <2>4, QueuedMoves
<1> QED BY <1>4, <1>5

LEMMA QueuedArmWorker ==
    ASSUME Types, BatchQueued, Queued, NEW a \in Apps, ArmWorker(a)
    PROVE  Queued'
<1>1. Moves(0) /\ arming = a /\ UNCHANGED <<blocking, worker, tasks>>
  BY ArmWorkerMoves DEF ArmWorker, appVars
<1>2. asyncio \in [Apps -> [Loops -> {"none", "scheduled", "done"}]] /\ running \in Loops
  BY DEF Types
<1>3. CASE SetTask(a, "done") /\ arming' = NoApp
  <2>1. /\ asyncio'[a][running] = "done"
        /\ \A b \in Apps, l \in Loops : ~(b = a /\ l = running) => asyncio'[b][l] = asyncio[b][l]
    BY <1>2, <1>3 DEF SetTask
  <2>2. \A b \in Apps :
          blocking'[b] /\ asyncio'[b][running] = "scheduled" /\ arming' # b =>
            /\ blocking[b] /\ asyncio[b][running] = "scheduled" /\ arming # b
            /\ 0 = 1 => Queue[1] # TaskOf(b)
    BY <1>1, <1>2, <2>1
  <2>3. \A b \in Apps, l \in Loops :
          worker'[b] = "live" /\ ~blocking'[b] /\ l \in tasks'[b] =>
            /\ worker[b] = "live" /\ ~blocking[b] /\ l \in tasks[b]
            /\ 0 = 1 /\ l = running => Queue[1] # TaskOf(b)
    BY <1>1
  <2>4. TasksMade'
    BY <1>1, <1>2, <2>1 DEF Queued, TasksMade
  <2>5. \A b \in Apps, l \in Loops \ {running} :
          blocking'[b] /\ asyncio'[b][l] = "scheduled" => blocking[b] /\ asyncio[b][l] = "scheduled"
    BY <1>1, <2>1
  <2> QED BY <1>1, <2>2, <2>3, <2>4, <2>5, QueuedMoves
<1>4. CASE UNCHANGED <<asyncio, arming>>
  BY <1>1, <1>4, QueuedSame
<1> QED BY <1>3, <1>4 DEF ArmWorker

LEMMA QueuedNonBlocking ==
    ASSUME Types, BatchQueued, Queued, NEW a \in Apps, NonBlockingTask(a)
    PROVE  Queued'
<1>1. /\ Moves(1) /\ Queue[1] = TaskOf(a) /\ ~blocking[a]
      /\ UNCHANGED <<blocking, worker, tasks, arming>>
  BY NonBlockingMoves, Popped DEF NonBlockingTask, TaskOf, appVars
<1>2. \A b \in Apps \ {a} : Queue[1] # TaskOf(b)
  BY <1>1, HandleTypes
<1>3. asyncio \in [Apps -> [Loops -> {"none", "scheduled", "done"}]] /\ running \in Loops
  BY DEF Types
<1>4. \A b \in Apps, l \in Loops : asyncio'[b][l] = "scheduled" => asyncio[b][l] = "scheduled"
  <2>1. UNCHANGED asyncio \/ SetTask(a, "done")
    BY DEF NonBlockingTask
  <2>2. CASE SetTask(a, "done")
    BY <1>3, <2>2 DEF SetTask
  <2> QED BY <2>1, <2>2
<1>5. \A b \in Apps :
        blocking'[b] /\ asyncio'[b][running] = "scheduled" /\ arming' # b =>
          /\ blocking[b] /\ asyncio[b][running] = "scheduled" /\ arming # b
          /\ 1 = 1 => Queue[1] # TaskOf(b)
  BY <1>1, <1>2, <1>3, <1>4
<1>6. \A b \in Apps, l \in Loops :
        worker'[b] = "live" /\ ~blocking'[b] /\ l \in tasks'[b] =>
          \/ /\ worker[b] = "live" /\ ~blocking[b] /\ l \in tasks[b]
             /\ 1 = 1 /\ l = running => Queue[1] # TaskOf(b)
          \/ l = running /\ \E i \in 1..Len(Queue') : Queue'[i] = TaskOf(b)
  BY <1>1, <1>2, NonBlockingMoves DEF Gone
<1>7. TasksMade'
  BY <1>1, <1>4 DEF Queued, TasksMade
<1>8. \A b \in Apps, l \in Loops \ {running} :
        blocking'[b] /\ asyncio'[b][l] = "scheduled" => blocking[b] /\ asyncio[b][l] = "scheduled"
  BY <1>1, <1>4
<1> QED BY <1>1, <1>5, <1>6, <1>7, <1>8, QueuedMoves

\* The application starts the progress task of a context, in a loop that has none of it.
LEMMA QueuedContinuous ==
    ASSUME Types, BatchQueued, Queued, Run("user", NoApp), UNCHANGED <<running, arming>>,
           NEW a \in Apps, NEW mode \in BOOLEAN, NEW f, ContinuousUcxProgress(a, mode, f),
           blocking' = [blocking EXCEPT ![a] = mode], worker' = [worker EXCEPT ![a] = "live"],
           \/ worker[a] = "live" /\ blocking[a] = mode
           \/ worker[a] = "none" /\ tasks[a] = {} /\ ~blocking[a]
    PROVE  Queued'
<1>1. /\ Moves(1) /\ Queue[1] = User /\ arming = NoApp /\ arming' = NoApp
      /\ ~mode => \E i \in 1..Len(Queue') : Queue'[i] = TaskOf(a)
  BY ContinuousMoves, Popped DEF User
<1>2. \A b \in Apps : Queue[1] # TaskOf(b)
  BY <1>1, HandleTypes
<1>3. /\ asyncio \in [Apps -> [Loops -> {"none", "scheduled", "done"}]] /\ running \in Loops
      /\ tasks \in [Apps -> SUBSET Loops]
      /\ blocking \in [Apps -> BOOLEAN] /\ worker \in [Apps -> {"none", "live", "dead"}]
  BY DEF Types
<1>4. /\ blocking'[a] = mode /\ worker'[a] = "live"
      /\ \A b \in Apps \ {a} : blocking'[b] = blocking[b] /\ worker'[b] = worker[b]
  BY <1>3
<1>5. /\ tasks'[a] = tasks[a] \cup {running} /\ \A b \in Apps \ {a} : tasks'[b] = tasks[b]
  BY <1>3 DEF ContinuousUcxProgress
<1>6. /\ \A b \in Apps, l \in Loops : ~(b = a /\ l = running) => asyncio'[b][l] = asyncio[b][l]
      /\ mode => UNCHANGED asyncio
  <2>1. mode => UNCHANGED asyncio
    BY DEF ContinuousUcxProgress
  <2>2. UNCHANGED asyncio \/ SetTask(a, "scheduled")
    BY DEF ContinuousUcxProgress
  <2>3. CASE SetTask(a, "scheduled")
    BY <1>3, <2>1, <2>3 DEF SetTask
  <2> QED BY <2>1, <2>2, <2>3
<1>7. \A l \in Loops : blocking'[a] /\ asyncio'[a][l] = "scheduled" =>
        blocking[a] /\ asyncio[a][l] = "scheduled"
  BY <1>4, <1>6 DEF Queued, TasksMade
<1>8. \A b \in Apps :
        blocking'[b] /\ asyncio'[b][running] = "scheduled" /\ arming' # b =>
          /\ blocking[b] /\ asyncio[b][running] = "scheduled" /\ arming # b
          /\ 1 = 1 => Queue[1] # TaskOf(b)
  BY <1>1, <1>2, <1>3, <1>4, <1>6, <1>7
<1>9. \A b \in Apps, l \in Loops :
        worker'[b] = "live" /\ ~blocking'[b] /\ l \in tasks'[b] =>
          \/ /\ worker[b] = "live" /\ ~blocking[b] /\ l \in tasks[b]
             /\ 1 = 1 /\ l = running => Queue[1] # TaskOf(b)
          \/ l = running /\ \E i \in 1..Len(Queue') : Queue'[i] = TaskOf(b)
  <2> SUFFICES ASSUME NEW b \in Apps, NEW l \in Loops,
                      worker'[b] = "live", ~blocking'[b], l \in tasks'[b]
               PROVE  \/ worker[b] = "live" /\ ~blocking[b] /\ l \in tasks[b]
                      \/ l = running /\ \E i \in 1..Len(Queue') : Queue'[i] = TaskOf(b)
    BY <1>2
  <2>1. CASE b # a
    BY <1>4, <1>5, <2>1
  <2>2. CASE b = a /\ l = running
    BY <1>1, <1>4, <2>2
  <2>3. CASE b = a /\ l # running
    BY <1>4, <1>5, <2>3
  <2> QED BY <2>1, <2>2, <2>3
<1>10. TasksMade'
  BY <1>4, <1>6 DEF Queued, TasksMade
<1>11. \A b \in Apps, l \in Loops \ {running} :
         blocking'[b] /\ asyncio'[b][l] = "scheduled" => blocking[b] /\ asyncio[b][l] = "scheduled"
  BY <1>4, <1>6, <1>7
<1>12. \A b \in Apps : blocking[b] => blocking'[b]
  BY <1>4
<1> QED BY <1>1, <1>8, <1>9, <1>10, <1>11, <1>12, QueuedMoves

LEMMA QueuedUser ==
    ASSUME Types, BatchQueued, Contexts, Queued, UserStep
    PROVE  Queued'
<1>1. /\ Run("user", NoApp) /\ running' = running /\ UNCHANGED arming
      /\ Moves(1) /\ Queue[1] = User
  <2>1. Run("user", NoApp) /\ running' = running /\ UNCHANGED arming
    BY DEF UserStep, Await, Yield, ApplicationContext, ApiCall, Reset
  <2> QED BY <2>1, Popped, UserMoves DEF User
<1>2. \A b \in Apps : Queue[1] # TaskOf(b)
  BY <1>1, HandleTypes
<1>3. CASE Await \/ Yield
  <2>1. UNCHANGED <<worker, blocking, tasks, asyncio, arming>>
    BY <1>3 DEF Await, Yield, appVars
  <2> QED BY <1>1, <1>2, <2>1, QueuedSame
<1>4. ASSUME NEW a \in Apps, Reset(a) PROVE Queued'
  <2>1. /\ \A b \in Apps : worker'[b] = worker[b] \/ worker'[b] = "dead"
        /\ \A b \in Apps : tasks'[b] \subseteq tasks[b]
        /\ UNCHANGED <<blocking, asyncio, arming>>
    BY <1>4 DEF Reset, Types
  <2> QED BY <1>1, <1>2, <2>1, QueuedSame
<1>5. ASSUME NEW a \in Apps, ApiCall(a) PROVE Queued'
  <2>1. worker[a] = "live" /\ ContinuousUcxProgress(a, blocking[a], fd[a])
        /\ UNCHANGED <<worker, blocking>>
    BY <1>5, ProgressAssumption DEF ApiCall, Contexts, ProgressAssumption
  <2>2. /\ blocking' = [blocking EXCEPT ![a] = blocking[a]] /\ blocking[a] \in BOOLEAN
        /\ worker' = [worker EXCEPT ![a] = "live"]
    BY <2>1 DEF Types
  <2> QED BY <1>1, <2>1, <2>2, QueuedContinuous
<1>6. ASSUME NEW a \in Apps, ApplicationContext(a) PROVE Queued'
  <2>1. /\ worker[a] = "none" /\ tasks[a] = {} /\ ~blocking[a]
        /\ worker' = [worker EXCEPT ![a] = "live"]
    BY <1>6 DEF ApplicationContext, Contexts
  <2>2. ASSUME NEW f, ContinuousUcxProgress(a, TRUE, f), blocking' = [blocking EXCEPT ![a] = TRUE]
        PROVE  Queued'
    BY <1>1, <2>1, <2>2, QueuedContinuous
  <2>3. CASE ContinuousUcxProgress(a, FALSE, NoFd) /\ UNCHANGED blocking
    <3>1. blocking' = [blocking EXCEPT ![a] = FALSE]
      BY <2>1, <2>3 DEF Types
    <3> QED BY <1>1, <2>1, <2>3, <3>1, QueuedContinuous
  <2>4. \/ \E f \in FdFor[a] : ContinuousUcxProgress(a, TRUE, f) /\ blocking' = [blocking EXCEPT ![a] = TRUE]
        \/ ContinuousUcxProgress(a, FALSE, NoFd) /\ UNCHANGED blocking
    BY <1>6 DEF ApplicationContext
  <2> QED BY <2>2, <2>3, <2>4
<1> QED BY <1>3, <1>4, <1>5, <1>6 DEF UserStep

LEMMA QueuedStep ==
    Types /\ BatchQueued /\ Contexts /\ Readers /\ Queued /\ [Next]_vars => Queued'
<1> SUFFICES ASSUME Types, BatchQueued, Contexts, Readers, Queued, [Next]_vars PROVE Queued'
  OBVIOUS
<1>1. CASE Await \/ Yield
  BY <1>1, QueuedUser DEF UserStep
<1>2. ASSUME NEW a \in Apps, ApplicationContext(a) \/ ApiCall(a) \/ Reset(a) PROVE Queued'
  BY <1>2, QueuedUser DEF UserStep
<1>3. CASE UNCHANGED <<worker, blocking, tasks, asyncio, running, ready, batch, arming>>
  BY <1>3 DEF Queued, ReadersNext, ArmFirst, TurnsQueued, TasksMade, Queue
<1>4. ASSUME NEW a \in Apps, Arrive(a) PROVE Queued'
  BY <1>3, <1>4 DEF Arrive, appVars
<1>5. CASE UNCHANGED vars
  BY <1>3, <1>5 DEF vars
<1> QED BY <1>1, <1>2, <1>4, <1>5, QueuedPoll, QueuedReader, QueuedArmTask, QueuedArmWorker,
           QueuedNonBlocking, QueuedRunLoop DEF Next, LoopStep

-----------------------------------------------------------------------------
(* The properties                                                           *)

Inv == Types /\ BatchQueued /\ Contexts /\ AllHeard /\ Readers /\ Queued

\* What the tasks, the selectors and the queues of the loops always have to do with each
\* other.
THEOREM InvHolds == Spec => []Inv
<1>1. Init => Inv
  BY TypesInit, ContextsInit, ReadersInit, QueuedInit DEF Inv
<1>2. Inv /\ [Next]_vars => Inv'
  BY TypesStep, ContextsStep, ReadersStep, QueuedStep DEF Inv
<1> QED BY <1>1, <1>2, PTL DEF Spec

\* The assertion of _fd_reader_callback: while an arm task is to run, it is before every
\* reader callback in the queue, so that none finds it there.
THEOREM PreviousArmDoneHolds == Spec => []PreviousArmDone
<1>1. Init => PreviousArmDone
  BY DEF Init, PreviousArmDone
<1>2. Inv /\ PreviousArmDone /\ [Next]_vars => PreviousArmDone'
  <2> SUFFICES ASSUME Inv, ~raised, [Next]_vars PROVE raised' = raised
    BY DEF PreviousArmDone
  <2>1. ASSUME NEW a \in Apps, ReaderCallback(a) PROVE raised' = raised
    <3>1. /\ Queue \in Seq(Handles) /\ Queue # <<>> /\ Queue[1] = ReaderOf(a) /\ arming = NoApp
      BY <2>1, Popped DEF Inv, ReaderCallback, ReaderOf
    <3>2. 1 \in 1..Len(Queue) /\ arming # a
      BY <3>1, ProgressAssumption DEF ProgressAssumption
    <3>3. asyncio[a][running] # "scheduled"
      BY <3>1, <3>2 DEF Inv, Queued, ArmFirst
    <3> QED BY <2>1, <3>3 DEF ReaderCallback
  <2>2. ASSUME NEW a \in Apps,
               \/ ArmTask(a) \/ ArmWorker(a) \/ NonBlockingTask(a) \/ Arrive(a)
               \/ ApplicationContext(a) \/ ApiCall(a) \/ Reset(a)
        PROVE  raised' = raised
    BY <2>2 DEF ArmTask, ArmWorker, NonBlockingTask, Arrive, ApplicationContext, ApiCall, Reset
  <2>3. CASE Poll \/ Await \/ Yield \/ (\E l \in Loops : RunLoop(l)) \/ UNCHANGED vars
    BY <2>3 DEF Poll, Await, Yield, RunLoop, vars
  <2> QED BY <2>1, <2>2, <2>3 DEF Next, LoopStep
<1> QED BY <1>1, <1>2, InvHolds, PTL DEF Spec

\* A loop goes to sleep (the select() of asyncio with nothing ready) only when the next
\* event of a context it progresses will wake it.
THEOREM ArmedBeforeSleepHolds == Spec => []ArmedBeforeSleep
<1>1. Inv => ArmedBeforeSleep
  <2> SUFFICES ASSUME Inv, NEW a \in Apps, Asleep, running \in tasks[a], FreshFd(a)
               PROVE  WillWake(a)
    BY DEF ArmedBeforeSleep
  <2>1. arming = NoApp /\ arming # a /\ Len(ready[running]) = 0 /\ running \in Loops
    BY ProgressAssumption DEF Asleep, InLoop, Inv, Types, ProgressAssumption
  <2>2. worker[a] = "live"
    BY DEF Inv, Contexts
  <2>3. blocking[a]
    BY <2>1, <2>2 DEF Inv, Queued, TurnsQueued
  <2> QED BY <2>1, <2>2, <2>3 DEF WillWake, Inv, AllHeard, Heard, Readers, ReadersKept
<1> QED BY <1>1, InvHolds, PTL
=============================================================================
