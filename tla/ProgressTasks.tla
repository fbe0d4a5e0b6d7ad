---------------------------- MODULE ProgressTasks ----------------------------
(***************************************************************************)
(* The tasks that progress UCX from an asyncio event loop                  *)
(* (ucp/continuous_ucx_progress.py, with the parts of ApplicationContext,  *)
(* init() and reset() of ucp/core.py and of ucp/_libs/ucx_worker.pyx that  *)
(* make, feed and end them).                                               *)
(*                                                                         *)
(* In non-blocking mode a task progresses the worker on every turn of its  *)
(* loop.  In blocking mode the loop watches an epoll descriptor of the     *)
(* worker, which becomes readable only when the worker has been armed: a   *)
(* reader callback progresses the worker and schedules the arm task, which *)
(* progresses until arming succeeds.  An event that comes when the worker  *)
(* is not armed, and is not progressed either, is an event nobody hears.   *)
(*                                                                         *)
(* One thread runs one event loop at a time.  A loop polls its descriptors *)
(* and then runs the callbacks that are ready, oldest first; UCX events    *)
(* come at any moment.  asyncio, epoll and UCX are external.               *)
(***************************************************************************)
EXTENDS Integers, Sequences, FiniteSets, SequencesExt

CONSTANTS
    Apps,       \* ApplicationContext objects, each made at most once
    Loops,      \* event loops
    Modes,      \* the values blocking_progress_mode may have
    Fds,        \* descriptor numbers
    FdFor,      \* the numbers epoll_create() may return for each context
    MaxEvents,  \* events UCX has for each worker
    NoApp, NoFd

ASSUME ProgressAssumption ==
    /\ Modes \subseteq BOOLEAN
    /\ FdFor \in [Apps -> SUBSET Fds]
    /\ MaxEvents \in Nat /\ IsFiniteSet(Apps)
    /\ NoApp \notin Apps /\ NoFd \notin Fds

\* What a loop has ready to run: a reader callback, a step of a progress task,
\* or the application's own coroutine.
Handles == [kind : {"reader", "task"}, app : Apps] \cup [kind : {"user"}, app : {NoApp}]
User == [kind |-> "user", app |-> NoApp]

VARIABLES
    ctx,        \* core._ctx
    worker,     \* of each context: "none", "live", "dead"
    blocking,   \* its blocking_progress_mode
    fd,         \* its epoll_fd
    tasks,      \* its progress_tasks, by their event loop
    asyncio,    \* the asyncio_task of each progress task: "none", "scheduled", "done"
    reader,     \* loop -> descriptor number -> whose callback the selector has for it
    watched,    \* loop -> numbers whose open file the kernel watches for it
    running,    \* the loop that runs
    ready,      \* loop -> callbacks to run
    batch,      \* how many of them the running loop runs before it polls again
    arming,     \* the context whose arm task has progressed and is about to arm
    events,     \* events of each worker that were not progressed
    seen,       \* how many there have been
    armed,      \* the next event makes the descriptor readable
    readable,   \* the descriptor is readable
    raised      \* the assertion of _fd_reader_callback failed

ucxVars  == <<events, seen, armed, readable>>
appVars  == <<ctx, worker, blocking, fd, tasks>>
loopVars == <<reader, watched>>
vars == <<ctx, worker, blocking, fd, tasks, asyncio, reader, watched, running,
          ready, batch, arming, events, seen, armed, readable, raised>>

Init ==
    /\ ctx = NoApp
    /\ worker = [a \in Apps |-> "none"]
    /\ blocking = [a \in Apps |-> FALSE]
    /\ fd = [a \in Apps |-> NoFd]
    /\ tasks = [a \in Apps |-> {}]
    /\ asyncio = [a \in Apps |-> [l \in Loops |-> "none"]]
    /\ reader = [l \in Loops |-> [f \in Fds |-> NoApp]]
    /\ watched = [l \in Loops |-> {}]
    /\ running \in Loops
    /\ ready = [l \in Loops |-> <<User>>]
    /\ batch = 0
    /\ arming = NoApp
    /\ events = [a \in Apps |-> 0]
    /\ seen = [a \in Apps |-> 0]
    /\ armed = [a \in Apps |-> FALSE]
    /\ readable = [a \in Apps |-> FALSE]
    /\ raised = FALSE

-----------------------------------------------------------------------------
(* UCX                                                                      *)

\* Something happens that the worker has to progress.  UCX promises to make the
\* descriptor readable when the worker is armed, and may do so when it is not.
Arrive(a) ==
    /\ worker[a] = "live" /\ seen[a] < MaxEvents
    /\ seen' = [seen EXCEPT ![a] = @ + 1]
    /\ events' = [events EXCEPT ![a] = @ + 1]
    /\ \E signal \in {TRUE, readable[a] \/ armed[a]} :
         readable' = [readable EXCEPT ![a] = signal]
    /\ armed' = [armed EXCEPT ![a] = FALSE]
    /\ UNCHANGED <<appVars, asyncio, loopVars, running, ready, batch, arming, raised>>

\* UCXWorker.progress(): all there is to progress; the coroutine that waits for
\* it is woken, after the callbacks that are already ready.
Woken(a, queue) == IF events[a] > 0 /\ ~Contains(queue, User) THEN Append(queue, User) ELSE queue
Progress(a) == events' = [events EXCEPT ![a] = 0]

\* Fault: arm() says that it worked whatever ucp_worker_arm() answered.
ArmIgnored(a) == TRUE

\* UCXWorker.arm(): ucp_worker_arm() empties the descriptor, and answers
\* UCS_ERR_BUSY when it was readable or there is something to progress.
Arm(a) == events[a] = 0 /\ ~readable[a]

-----------------------------------------------------------------------------
(* The event loop                                                           *)

InLoop == arming = NoApp
Readable(l) == {f \in watched[l] : \E a \in Apps : fd[a] = f /\ worker[a] = "live" /\ readable[a]}

\* The callbacks of what is readable come after those that were ready before.
\* With neither, the loop sleeps.
Poll ==
    LET l == running
        io == [kind : {"reader"}, app : {reader[l][f] : f \in Readable(l)} \ {NoApp}]
        queue == ready[l] \o SetToSeq(io)
    IN
    /\ InLoop /\ batch = 0
    /\ queue # <<>>
    /\ ready' = [ready EXCEPT ![l] = queue]
    /\ batch' = Len(queue)
    /\ UNCHANGED <<appVars, asyncio, loopVars, running, arming, ucxVars, raised>>

Run(kind, a) ==
    /\ InLoop /\ batch > 0
    /\ Head(ready[running]) = [kind |-> kind, app |-> a]
    /\ batch' = batch - 1

Rest == Tail(ready[running])
Requeue(queue) == ready' = [ready EXCEPT ![running] = queue]

\* A BlockingMode object is held by the loop's selector (its bound method is the
\* callback), by its arm task, and by progress_tasks.  The last to go makes its
\* finalizer run, which takes whatever callback the number now has out of the loop.
RemoveReader(l, f) ==
    /\ reader' = [reader EXCEPT ![l][f] = NoApp]
    /\ watched' = [watched EXCEPT ![l] = @ \ {f}]

-----------------------------------------------------------------------------
(* The progress tasks                                                       *)

Gone(a) == worker[a] # "live"

SetTask(a, st) == asyncio' = [asyncio EXCEPT ![a][running] = st]

\* BlockingMode._fd_reader_callback.
ReaderCallback(a) ==
    /\ Run("reader", a)
    /\ \/ /\ Gone(a)
          /\ Requeue(Rest)
          /\ UNCHANGED <<asyncio, ucxVars, raised>>
       \/ /\ ~Gone(a)
          /\ Progress(a)
          /\ LET queue == Woken(a, Rest) IN
             \/ /\ asyncio[a][running] # "scheduled"
                /\ Requeue(Append(queue, [kind |-> "task", app |-> a]))
                /\ SetTask(a, "scheduled")
                /\ UNCHANGED raised
             \/ /\ asyncio[a][running] = "scheduled"
                /\ Requeue(queue)
                /\ raised' = TRUE
                /\ UNCHANGED asyncio
          /\ UNCHANGED <<seen, armed, readable>>
    /\ UNCHANGED <<appVars, loopVars, running, arming>>

\* BlockingMode._arm_worker, up to arm().  The await of sock_recv() in it does not
\* give way: the peer of rsock is closed, so asyncio's attempt to read, which it
\* makes before it would wait, succeeds.
ArmTask(a) ==
    /\ Run("task", a) /\ blocking[a]
    /\ \/ /\ Gone(a)
          /\ Requeue(Rest)
          /\ SetTask(a, "done")
          /\ IF reader[running][fd[a]] = a THEN UNCHANGED loopVars ELSE RemoveReader(running, fd[a])
          /\ UNCHANGED <<arming, events>>
       \/ /\ ~Gone(a)
          /\ Progress(a)
          /\ Requeue(Woken(a, Rest))
          /\ arming' = a
          /\ UNCHANGED <<asyncio, loopVars>>
    /\ UNCHANGED <<appVars, running, seen, armed, readable, raised>>

\* Fault: when it is told to try again it lets the others run first.
ArmWorkerYields(a) ==
    /\ arming = a
    /\ readable' = [readable EXCEPT ![a] = FALSE]
    /\ armed' = [armed EXCEPT ![a] = events[a] = 0 /\ ~readable[a]]
    /\ arming' = NoApp
    /\ \/ /\ Arm(a)
          /\ SetTask(a, "done")
          /\ UNCHANGED ready
       \/ /\ ~Arm(a)
          /\ Requeue(Append(ready[running], [kind |-> "task", app |-> a]))
          /\ UNCHANGED asyncio
    /\ UNCHANGED <<appVars, loopVars, running, batch, events, seen, raised>>

\* The end of its loop: done when arm() says so, else progress and try again.
ArmWorker(a) ==
    /\ arming = a
    /\ readable' = [readable EXCEPT ![a] = FALSE]
    /\ armed' = [armed EXCEPT ![a] = events[a] = 0 /\ ~readable[a]]
    /\ \/ /\ Arm(a)
          /\ SetTask(a, "done")
          /\ arming' = NoApp
          /\ UNCHANGED <<events, ready>>
       \/ /\ ~Arm(a)
          /\ Progress(a)
          /\ Requeue(Woken(a, ready[running]))
          /\ UNCHANGED <<asyncio, arming>>
    /\ UNCHANGED <<appVars, loopVars, running, batch, seen, raised>>

\* Fault: the task stops when there was nothing to progress.
NonBlockingOnce(a) ==
    /\ Run("task", a) /\ ~blocking[a]
    /\ Progress(a)
    /\ \/ /\ Gone(a) \/ events[a] = 0
          /\ Requeue(Rest)
          /\ SetTask(a, "done")
       \/ /\ ~Gone(a) /\ events[a] > 0
          /\ Requeue(Append(Woken(a, Rest), [kind |-> "task", app |-> a]))
          /\ UNCHANGED asyncio
    /\ UNCHANGED <<appVars, loopVars, running, arming, seen, armed, readable, raised>>

\* NonBlockingMode._progress_task: one turn, then sleep(0).
NonBlockingTask(a) ==
    /\ Run("task", a) /\ ~blocking[a]
    /\ \/ /\ Gone(a)
          /\ Requeue(Rest)
          /\ SetTask(a, "done")
          /\ UNCHANGED events
       \/ /\ ~Gone(a)
          /\ Progress(a)
          /\ Requeue(Append(Woken(a, Rest), [kind |-> "task", app |-> a]))
          /\ UNCHANGED asyncio
    /\ UNCHANGED <<appVars, loopVars, running, arming, seen, armed, readable, raised>>

-----------------------------------------------------------------------------
(* ApplicationContext                                                       *)

\* event_loop.add_reader().  A number the selector knows has its callback
\* replaced, and the kernel is not told; the BlockingMode of the callback that was
\* there goes, unless its arm task has yet to run.
AddReader(a, f) ==
    LET old == reader[running][f] IN
    \/ /\ old = NoApp
       /\ reader' = [reader EXCEPT ![running][f] = a]
       /\ watched' = [watched EXCEPT ![running] = @ \cup {f}]
    \/ /\ old # NoApp /\ asyncio[old][running] = "scheduled"
       /\ reader' = [reader EXCEPT ![running][f] = a]
       /\ UNCHANGED watched
    \/ /\ old # NoApp /\ asyncio[old][running] # "scheduled"
       /\ RemoveReader(running, f)

\* continuous_ucx_progress() for the running loop, which has no task of `a` yet.
\* `mode` and `f` are the blocking_progress_mode and epoll_fd of `a`.
ContinuousUcxProgress(a, mode, f) ==
    /\ tasks' = [tasks EXCEPT ![a] = @ \cup {running}]
    /\ \/ /\ mode
          /\ AddReader(a, f)
          /\ Requeue(Append(Rest, User))
          /\ UNCHANGED asyncio
       \/ /\ ~mode
          /\ SetTask(a, "scheduled")
          /\ Requeue(Rest \o <<[kind |-> "task", app |-> a], User>>)
          /\ UNCHANGED loopVars

\* A blocking worker is armed by init_blocking_progress_mode().
Open(f) == \E b \in Apps : worker[b] = "live" /\ fd[b] = f

ApplicationContext(a) ==
    /\ Run("user", NoApp)
    /\ ctx = NoApp /\ worker[a] = "none"
    /\ ctx' = a
    /\ worker' = [worker EXCEPT ![a] = "live"]
    /\ \/ /\ TRUE \in Modes
          /\ \E f \in FdFor[a] :
               /\ ~Open(f)
               /\ fd' = [fd EXCEPT ![a] = f]
               /\ ContinuousUcxProgress(a, TRUE, f)
          /\ blocking' = [blocking EXCEPT ![a] = TRUE]
          /\ armed' = [armed EXCEPT ![a] = TRUE]
       \/ /\ FALSE \in Modes
          /\ ContinuousUcxProgress(a, FALSE, NoFd)
          /\ UNCHANGED <<fd, blocking, armed>>
    /\ UNCHANGED <<running, arming, events, seen, readable, raised>>

\* A call that makes sure there is progress in this loop, as most do.
ApiCall(a) ==
    /\ Run("user", NoApp)
    /\ ctx = a /\ running \notin tasks[a]
    /\ ContinuousUcxProgress(a, blocking[a], fd[a])
    /\ UNCHANGED <<ctx, worker, blocking, fd, running, arming, ucxVars, raised>>

\* reset(), when nothing else refers to the context: worker and context are
\* finalised, _epoll_fd_finalizer() empties progress_tasks and closes the file,
\* and with it goes the kernel's interest in it, in every loop.
Reset(a) ==
    /\ Run("user", NoApp)
    /\ ctx = a
    /\ ctx' = NoApp
    /\ worker' = [worker EXCEPT ![a] = "dead"]
    /\ tasks' = [tasks EXCEPT ![a] = {}]
    /\ watched' = [l \in Loops |-> watched[l] \ {fd[a]}]
    /\ events' = [events EXCEPT ![a] = 0]
    /\ armed' = [armed EXCEPT ![a] = FALSE]
    /\ readable' = [readable EXCEPT ![a] = FALSE]
    /\ Requeue(Append(Rest, User))
    /\ UNCHANGED <<blocking, fd, asyncio, reader, running, arming, seen, raised>>

\* The application's coroutine awaits something of UCX, or lets others run.
Await ==
    /\ Run("user", NoApp)
    /\ Requeue(Rest)
    /\ UNCHANGED <<appVars, asyncio, loopVars, running, arming, ucxVars, raised>>

Yield ==
    /\ Run("user", NoApp)
    /\ Requeue(Append(Rest, User))
    /\ UNCHANGED <<appVars, asyncio, loopVars, running, arming, ucxVars, raised>>

\* The coroutine is over and the application runs another in another loop.
RunLoop(l) ==
    /\ InLoop /\ batch = 0
    /\ l # running /\ ~Contains(ready[running], User)
    /\ running' = l
    /\ ready' = [ready EXCEPT ![l] = IF Contains(@, User) THEN @ ELSE Append(@, User)]
    /\ UNCHANGED <<appVars, asyncio, loopVars, batch, arming, ucxVars, raised>>

LoopStep ==
    \/ Poll
    \/ Await \/ Yield
    \/ \E a \in Apps :
         \/ ReaderCallback(a) \/ ArmTask(a) \/ ArmWorker(a) \/ NonBlockingTask(a)
         \/ ApplicationContext(a) \/ ApiCall(a) \/ Reset(a)

Next ==
    \/ LoopStep
    \/ \E a \in Apps : Arrive(a)
    \/ \E l \in Loops : RunLoop(l)

Spec == Init /\ [][Next]_vars

\* asyncio runs its loop for as long as there is something to run.
FairSpec == Spec /\ WF_vars(LoopStep)

-----------------------------------------------------------------------------
(* Properties                                                               *)

\* A loop that has nothing to run and nothing to poll for.
Asleep == InLoop /\ batch = 0 /\ ready[running] = <<>>

\* What wakes it for a worker: the worker is armed, or its descriptor readable and so
\* already if an event has come; and the loop watches it, with this worker's callback.
WillWake(a) ==
    /\ blocking[a]
    /\ armed[a] \/ readable[a]
    /\ events[a] > 0 => readable[a]
    /\ fd[a] \in watched[running] /\ reader[running][fd[a]] = a

\* The descriptor has a number no earlier context had.
FreshFd(a) == \A b \in Apps \ {a} : fd[b] # fd[a] \/ fd[a] = NoFd

\* A loop goes to sleep only if the next event, and one that has come already, will
\* wake it.
ArmedBeforeSleep ==
    \A a \in Apps : Asleep /\ running \in tasks[a] /\ FreshFd(a) => WillWake(a)

\* "We can safely overwrite self.dangling_arm_task since previous arm task is
\* finished by now": the callbacks of descriptors run after what was ready before.
PreviousArmDone == ~raised

\* An event is progressed, while the loop that runs is one the context has a
\* progress task for.
EventsProgressed ==
    \A a \in Apps :
      events[a] > 0 /\ running \in tasks[a] /\ FreshFd(a)
        ~> (events[a] = 0 \/ running \notin tasks[a] \/ ~FreshFd(a))

\* "Guarantees continuous UCX progress": the same of every context, whatever number
\* its descriptor has.
GuaranteedProgress ==
    \A a \in Apps : Asleep /\ running \in tasks[a] => WillWake(a)
=============================================================================
