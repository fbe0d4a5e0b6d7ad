------------------------------ MODULE UcxObjects ------------------------------
(***************************************************************************)
(* Who frees what, and when: the tree of UCX handles (ucp/_libs/           *)
(* ucx_object.pyx and the classes that extend UCXObject), closed by the    *)
(* user, by Python's collector, by the finalizer of a parent, by           *)
(* ucp.reset() or at exit.                                                 *)
(*                                                                         *)
(* A UCXObject frees its handle in the function of a weakref.finalize,     *)
(* which is called at most once and is marked dead before it runs.  That   *)
(* function first closes the children, which it knows by weak reference;   *)
(* its other arguments are held by Python's registry of finalizers for as  *)
(* long as it has not been called.  CPython frees an object as soon as     *)
(* nothing refers to it, and cycles when its collector runs.               *)
(*                                                                         *)
(* One tree: a context, its worker, and what is made from them, either     *)
(* through ucp.core, where an ApplicationContext owns both (`core`), or    *)
(* through ucx_api.  An object of Eps is a UCXEndpoint, with the           *)
(* core.Endpoint that refers to it, and one of Lis a UCXListener.          *)
(***************************************************************************)
EXTENDS Integers, Sequences, FiniteSets, SequencesExt

CONSTANTS
    App, Ctx, Wrk,              \* an ApplicationContext, its context and its worker
    Eps, Lis, Mems, Rkeys, Addrs,
    EpOf,                       \* the endpoint of each remote key
    SelfReferring,              \* listeners whose callback function refers to them
    CanRefuse,                  \* endpoints and keys for which UCX may return an error
    MaxDepth                    \* callbacks of the user that run in one another

Trunk   == {App, Ctx, Wrk}
Objects == Trunk \cup Eps \cup Lis \cup Mems \cup Rkeys \cup Addrs

ASSUME ObjectsAssumption ==
    /\ App # Ctx /\ App # Wrk /\ Ctx # Wrk
    /\ Trunk \cap (Eps \cup Lis \cup Mems \cup Rkeys \cup Addrs) = {}
    /\ Eps \cap (Lis \cup Mems \cup Rkeys \cup Addrs) = {}
    /\ Lis \cap (Mems \cup Rkeys \cup Addrs) = {}
    /\ Mems \cap (Rkeys \cup Addrs) = {} /\ Rkeys \cap Addrs = {}
    /\ EpOf \in [Rkeys -> Eps]
    /\ SelfReferring \subseteq Lis /\ CanRefuse \subseteq Eps \cup Rkeys
    /\ MaxDepth \in Nat

\* The object whose handle is needed to free that of `o`.
Parent(o) ==
    CASE o \in Rkeys             -> EpOf[o]
      [] o \in Mems \cup {Wrk}   -> Ctx
      [] OTHER                   -> Wrk

VARIABLES
    core,      \* used through ucp.core
    py,        \* the Python object: "none", "alive", "dying" (weak references dead), "dead"
    fin,       \* its weakref.finalize: "unset", "alive", "called"
    frees,     \* how often its handle was freed
    held,      \* those that the user refers to
    global,    \* core._ctx refers to the ApplicationContext
    stack,     \* Python's stack, as far as it matters
    flushing,  \* keys whose finalizer waits for a flush to destroy them
    reset,     \* what the last reset() did: "none", "ok", "raised"
    raised,    \* what finalizers have raised: "assertion", or an "error" of UCX
    closed     \* the user has closed the worker or the context

heap == <<py, fin, frees>>
vars == <<core, py, fin, frees, held, global, stack, flushing, reset, raised, closed>>

Init ==
    /\ core \in BOOLEAN
    /\ py = [o \in Objects |-> "none"]
    /\ fin = [o \in Objects |-> "unset"]
    /\ frees = [o \in Objects |-> 0]
    /\ held = {}
    /\ global = FALSE
    /\ stack = <<>>
    /\ flushing = {}
    /\ reset = "none"
    /\ raised = {}
    /\ closed = FALSE

-----------------------------------------------------------------------------
(* What refers to what                                                      *)

Open(o) == fin[o] = "alive"     \* UCXObject.initialized

\* The attributes of an object.
Refs(o) ==
    CASE o = App    -> {Ctx, Wrk}
      [] o = Wrk    -> {Ctx}
      [] o \in Eps  -> {Wrk} \cup (IF core THEN {App} ELSE {})
      [] o \in Lis  -> (IF core THEN {App} ELSE {}) \cup ({o} \cap SelfReferring)
      [] o \in Mems -> {Ctx}
      [] o \in Rkeys -> {EpOf[o]}
      [] OTHER      -> {}

\* Faults: the finalizer of an address is given the UCXAddress and its worker; that of
\* the worker is not given the context.
FinArgsAddress(o) ==
    CASE o \in Rkeys -> {o, EpOf[o]}
      [] o \in Mems \cup {Wrk} -> {Ctx}
      [] o \in Eps  -> {Wrk}
      [] o \in Addrs -> {o, Wrk}
      [] OTHER      -> {}
FinArgsNoContext(o) ==
    CASE o \in Rkeys -> {o, EpOf[o]}
      [] o \in Eps  -> {Wrk}
      [] OTHER      -> {}

\* The objects among the arguments of its finalizer.
FinArgs(o) ==
    CASE o \in Rkeys -> {o, EpOf[o]}
      [] o \in Mems \cup {Wrk} -> {Ctx}
      [] o \in Eps  -> {Wrk}
      [] OTHER      -> {}

Finalizing == {stack[i].obj : i \in {j \in DOMAIN stack : stack[j].kind = "close"}}

\* What Python holds without any object referring to it.
Roots ==
    held \cup (IF global THEN {App} ELSE {}) \cup flushing
         \cup UNION {FinArgs(o) : o \in {p \in Objects : Open(p)} \cup Finalizing}

\* Reference count zero.
Doomed ==
    LET alive == {o \in Objects : py[o] = "alive"} IN
    IF alive \subseteq held THEN {}
    ELSE alive \ (Roots \cup UNION {Refs(p) : p \in {q \in Objects : py[q] \in {"alive", "dying"}}})

\* What the collector of cycles would find.
Reach(S) ==
    LET step(T) == T \cup UNION {Refs(p) : p \in T} IN step(step(step(step(S))))
Garbage ==
    {o \in Objects : py[o] = "alive"} \ Reach(Roots \cup {o \in Objects : py[o] = "dying"})

-----------------------------------------------------------------------------
(* The stack                                                                *)

Top     == IF stack = <<>> THEN [kind |-> "none"] ELSE Last(stack)
Below   == Front(stack)
IsTop(kind) == Top.kind = kind
Push(f) == stack' = Append(stack, f)
Pop     == stack' = Below

CloseFrame(o) == [kind |-> "close", obj |-> o, at |-> "kids"]
Called(o)  == fin' = [fin EXCEPT ![o] = "called"]
At(place)  == stack' = Append(Below, [Top EXCEPT !.at = place])

\* An exception goes up to the callback of a dying object, to the exit function or to
\* UCX's callback, all of which print it, or to the user.
Raise ==
    LET catching == {i \in DOMAIN stack : stack[i].kind \in {"drop", "exit", "ucx"}}
        top == IF catching = {} THEN 0 ELSE CHOOSE i \in catching : \A j \in catching : j <= i
    IN stack' = IF top > 0 /\ stack[top].kind = "ucx" THEN SubSeq(stack, 1, top - 1)
                                                     ELSE SubSeq(stack, 1, top)

Fails(why) == Raise /\ raised' = raised \cup {why}

Free(o) == frees' = [frees EXCEPT ![o] = @ + 1]

-----------------------------------------------------------------------------
(* Python lets an object go                                                 *)

\* Nothing refers to it any more: its finalizer runs, if it was not called before.
Die ==
    /\ \E o \in Doomed :
         \/ /\ Open(o)
            /\ py' = [py EXCEPT ![o] = "dying"]
            /\ Called(o)
            /\ stack' = stack \o <<[kind |-> "drop", objs |-> {o}], CloseFrame(o)>>
         \/ /\ ~Open(o)
            /\ py' = [py EXCEPT ![o] = "dead"]
            /\ UNCHANGED <<fin, stack>>
    /\ UNCHANGED <<core, frees, held, global, flushing, reset, raised, closed>>

\* The collector runs: it clears the weak references to all it has found, and calls
\* their callbacks after that.  It is taken to run between calls of the user, in reset()
\* and in callbacks, where Python objects are made.
Collect ==
    /\ stack = <<>> \/ Top.kind \in {"reset", "ucx", "user"}
    /\ Garbage # {}
    /\ py' = [o \in Objects |-> IF o \in Garbage THEN "dying" ELSE py[o]]
    /\ Push([kind |-> "drop", objs |-> Garbage])
    /\ UNCHANGED <<core, fin, frees, held, global, flushing, reset, raised, closed>>

\* The callback of the weak reference in weakref.finalize.
RunFinalizer ==
    /\ IsTop("drop")
    /\ \E o \in Top.objs : Open(o) /\ Called(o) /\ Push(CloseFrame(o))
    /\ UNCHANGED <<core, py, frees, held, global, flushing, reset, raised, closed>>

Gone ==
    /\ IsTop("drop")
    /\ \A o \in Top.objs : ~Open(o)
    /\ py' = [o \in Objects |-> IF o \in Top.objs THEN "dead" ELSE py[o]]
    /\ Pop
    /\ UNCHANGED <<core, fin, frees, held, global, flushing, reset, raised, closed>>

-----------------------------------------------------------------------------
(* _handle_finalizer_wrapper and the finalizers of the classes              *)

\* Fault: the list of children is never filled.
KidsForgotten(o) == {}

\* The children that close() would do something for: the weak reference is not dead, and
\* the handle open.
Kids(o) == {k \in Objects \ {App, Ctx} : Parent(k) = o /\ py[k] = "alive" /\ Open(k)}

\* child.close() for each child.  They are closed in the order they were made, which the
\* model leaves open.
CloseKid ==
    /\ IsTop("close") /\ Top.at = "kids"
    /\ \E kid \in Kids(Top.obj) : Called(kid) /\ Push(CloseFrame(kid))
    /\ UNCHANGED <<core, py, frees, held, global, flushing, reset, raised, closed>>

Handle(S) == IsTop("close") /\ Top.at = "kids" /\ Top.obj \in S /\ Kids(Top.obj) = {}

\* Finalizers that depend on nothing but what they were given.
FreeAlone(S) ==
    /\ Handle(S)
    /\ Free(Top.obj)
    /\ Pop
    /\ UNCHANGED <<core, py, fin, held, global, flushing, reset, raised, closed>>

\* _ucx_context_handle_finalizer, _ucx_listener_handle_finalizer, _ucx_address_finalizer
\* (which is given the worker's handle, not the worker) and _epoll_fd_finalizer.
FreeContext  == FreeAlone({Ctx})
FreeListener == FreeAlone(Lis)
FreeAddress  == FreeAlone(Addrs)
CloseEpollFd == FreeAlone({App})

\* assert ctx.initialized
FreeUnder(parent, S) ==
    /\ Handle(S)
    /\ \/ Open(parent) /\ Free(Top.obj) /\ Pop /\ UNCHANGED raised
       \/ ~Open(parent) /\ Fails("assertion") /\ UNCHANGED frees
    /\ UNCHANGED <<core, py, fin, held, global, flushing, reset, closed>>

\* _ucx_worker_handle_finalizer, which drains tag messages and cancels what is in flight
\* (see UcxRequest), and _ucx_mem_handle_finalizer.
FreeWorker == FreeUnder(Ctx, {Wrk})
FreeMemory == FreeUnder(Ctx, Mems)

\* Fault: the key is destroyed whatever the flush returned.
FreeRkeyAnyway ==
    /\ Handle(Rkeys)
    /\ Free(Top.obj) /\ Pop
    /\ \E pending \in SUBSET {Top.obj} : flushing' = flushing \cup pending
    /\ UNCHANGED <<core, py, fin, held, global, reset, raised, closed>>

\* _ucx_rkey_finalizer: flush the endpoint, then destroy the key, in
\* _ucx_remote_mem_finalizer_post_flush or at once.  UCX does not call a flush back before
\* it returns: _handle_status would call the callback and return None, and both destroy it.
FreeRkey ==
    /\ Handle(Rkeys)
    /\ \/ Free(Top.obj) /\ Pop /\ UNCHANGED <<flushing, raised>>
       \/ flushing' = flushing \cup {Top.obj} /\ Pop /\ UNCHANGED <<frees, raised>>
       \/ Top.obj \in CanRefuse /\ Fails("error") /\ UNCHANGED <<frees, flushing>>
    /\ UNCHANGED <<core, py, fin, held, global, reset, closed>>

\* UCX completes a flush, when the worker is progressed.
FlushDone ==
    /\ stack = <<>> \/ (IsTop("close") /\ Top.at = "wait")
    /\ \E r \in flushing : Open(Wrk) /\ Free(r) /\ flushing' = flushing \ {r}
    /\ UNCHANGED <<core, py, fin, held, global, stack, reset, raised, closed>>

KeysOf(e) == {r \in Rkeys : EpOf[r] = e}

\* _ucx_endpoint_finalizer: assert worker.initialized, cancel what is in flight (UCX calls
\* back for some of it at once), and close the endpoint.
FreeEp ==
    /\ Handle(Eps)
    /\ LET e == Top.obj IN
       \/ /\ ~Open(Wrk)
          /\ Fails("assertion")
          /\ UNCHANGED <<frees, flushing>>
       \/ /\ Open(Wrk)
          /\ \E cancelled \in SUBSET (flushing \cap KeysOf(e)) :
               /\ frees' = [o \in Objects |-> frees[o] + IF o \in cancelled THEN 1 ELSE 0]
               /\ flushing' = flushing \ cancelled
          /\ \/ At("wait") /\ UNCHANGED raised
             \/ e \in CanRefuse /\ Fails("error")
    /\ UNCHANGED <<core, py, fin, held, global, reset, closed>>

\* UCX closes it once its flushes are done.
EpClosed ==
    /\ IsTop("close") /\ Top.at = "wait"
    /\ flushing \cap KeysOf(Top.obj) = {}
    /\ Free(Top.obj)
    /\ At("callback")
    /\ UNCHANGED <<core, py, fin, held, global, flushing, reset, raised, closed>>

Depth == Len(SelectSeq(stack, LAMBDA f : f.kind \in {"ucx", "user"}))

\* worker.progress() in the finalizer's loop: the error callback of another endpoint runs
\* the user's close callback; the finalizer itself runs that of its endpoint.
Callback ==
    /\ IsTop("close")
    /\ Depth < MaxDepth
    /\ \/ Top.at = "wait" /\ Push([kind |-> "ucx"])
       \/ /\ Top.at = "callback"
          /\ stack' = Append(Append(Below, [Top EXCEPT !.at = "done"]), [kind |-> "user"])
    /\ UNCHANGED <<core, heap, held, global, flushing, reset, raised, closed>>

\* The finalizer of an endpoint, abort(), or a callback of the user returns.
Return ==
    /\ stack # <<>>
    /\ \/ IsTop("close") /\ Top.at \in {"callback", "done"} /\ UNCHANGED held
       \/ IsTop("abort") /\ held' = held \ {Top.obj}
       \/ Top.kind \in {"ucx", "user"} /\ UNCHANGED held
    /\ Pop
    /\ UNCHANGED <<core, heap, global, flushing, reset, raised, closed>>

-----------------------------------------------------------------------------
(* The user                                                                 *)

UserTop  == stack = <<>>
UserTurn == stack = <<>> \/ Top.kind \in {"ucx", "user"}

\* The constructors.  A handle, a finalizer, and a place among the parent's children.
Make(S) ==
    /\ \A o \in S : py[o] = "none"
    /\ py' = [o \in Objects |-> IF o \in S THEN "alive" ELSE py[o]]
    /\ fin' = [o \in Objects |-> IF o \in S THEN "alive" ELSE fin[o]]

\* _get_ctx(), init(): ApplicationContext.__init__.
MakeApp ==
    /\ UserTop /\ core /\ ~global
    /\ Make({Ctx, Wrk, App})
    /\ global' = TRUE
    /\ UNCHANGED <<core, frees, held, stack, flushing, reset, raised, closed>>

\* What the user reaches the worker by.
WorkerAtHand == IF core THEN global ELSE Wrk \in held

MakeHeld(o) ==
    /\ UserTop
    /\ Make({o})
    /\ held' = held \cup {o}
    /\ UNCHANGED <<core, frees, global, stack, flushing, reset, raised, closed>>

\* UCXContext(); UCXWorker() and UCXMemoryHandle.map() or .alloc(), which assert that the
\* context is open; UCXEndpoint.create*(), which assert it of the worker.
MakeContext  == ~core /\ MakeHeld(Ctx)
MakeWorker   == ~core /\ Ctx \in held /\ Open(Ctx) /\ MakeHeld(Wrk)
MakeMemory   == ~core /\ Ctx \in held /\ Open(Ctx) /\ \E m \in Mems : MakeHeld(m)
MakeEndpoint == WorkerAtHand /\ Open(Wrk) /\ \E e \in Eps : MakeHeld(e)

\* UCXListener(), UCXAddress.from_worker() and UCXRkey() assert nothing: the user is
\* trusted not to call them with a parent that was closed, whose freed handle UCX would get.
MakeListener == WorkerAtHand /\ Open(Wrk) /\ \E l \in Lis : MakeHeld(l)
MakeAddress  == WorkerAtHand /\ Open(Wrk) /\ \E a \in Addrs : MakeHeld(a)
MakeRkey     == ~core /\ \E r \in Rkeys : EpOf[r] \in held /\ Open(EpOf[r]) /\ MakeHeld(r)

Drop ==
    /\ UserTurn
    /\ \E o \in held : held' = held \ {o}
    /\ UNCHANGED <<core, heap, global, stack, flushing, reset, raised, closed>>

\* UCXObject.close().  In a callback only that of endpoints and listeners.
Close ==
    /\ UserTurn
    /\ \E o \in held :
         /\ Open(o)
         /\ ~(core /\ o \in Eps)
         /\ stack # <<>> => o \in Eps \cup Lis
         /\ Called(o)
         /\ Push(CloseFrame(o))
         /\ closed' = (closed \/ o \in {Ctx, Wrk})
    /\ UNCHANGED <<core, py, frees, held, global, flushing, reset, raised>>

\* Endpoint.abort(): the name of the endpoint in the message for the log asserts that it
\* is open; afterwards the core.Endpoint refers neither to it nor to the context.
Abort ==
    /\ UserTurn /\ core
    /\ \E e \in Eps \cap held :
         \/ /\ Open(e)
            /\ Called(e)
            /\ stack' = stack \o <<[kind |-> "abort", obj |-> e], CloseFrame(e)>>
         \/ /\ ~Open(e)
            /\ Raise
            /\ UNCHANGED fin
    /\ UNCHANGED <<core, py, frees, held, global, flushing, reset, raised, closed>>

\* reset(): _ctx = None; gc.collect(); an error if the ApplicationContext is still there.
Reset ==
    /\ UserTop /\ global
    /\ global' = FALSE
    /\ Push([kind |-> "reset"])
    /\ UNCHANGED <<core, heap, held, flushing, reset, raised, closed>>

\* Fault: it does not look whether the ApplicationContext is still there.
ResetReturnsUnchecked ==
    /\ IsTop("reset") /\ Garbage = {}
    /\ reset' = "ok"
    /\ Pop
    /\ UNCHANGED <<core, heap, held, global, flushing, raised, closed>>

ResetReturns ==
    /\ IsTop("reset") /\ Garbage = {}
    /\ reset' = IF py[App] = "alive" THEN "raised" ELSE "ok"
    /\ Pop
    /\ UNCHANGED <<core, heap, held, global, flushing, raised, closed>>

\* What was made after it.
Younger(o) ==
    {k \in Objects \ {Ctx} : Parent(k) = o} \cup (IF o = App THEN Eps \cup Lis \cup Addrs ELSE {})

\* The interpreter exits: finalizers that are left are called, the youngest first.
Exit ==
    /\ UserTop
    /\ Push([kind |-> "exit"])
    /\ UNCHANGED <<core, heap, held, global, flushing, reset, raised, closed>>

ExitFinalizer ==
    /\ IsTop("exit")
    /\ \E o \in Objects :
         /\ Open(o) /\ \A k \in Younger(o) : ~Open(k)
         /\ Called(o)
         /\ Push(CloseFrame(o))
    /\ UNCHANGED <<core, py, frees, held, global, flushing, reset, raised, closed>>

FinalizerStep ==
    \/ RunFinalizer \/ CloseKid \/ Gone
    \/ FreeContext \/ FreeListener \/ FreeAddress \/ CloseEpollFd
    \/ FreeWorker \/ FreeMemory \/ FreeRkey \/ FlushDone
    \/ FreeEp \/ EpClosed \/ Callback \/ Return
    \/ ResetReturns \/ ExitFinalizer

UserStep ==
    \/ MakeApp \/ MakeContext \/ MakeWorker \/ MakeMemory
    \/ MakeEndpoint \/ MakeListener \/ MakeAddress \/ MakeRkey
    \/ Drop \/ Close \/ Abort \/ Reset \/ Exit

\* An object dies before the statement that dropped the last reference to it is over.
Next ==
    \/ Die
    \/ Doomed = {} /\ (FinalizerStep \/ UserStep \/ Collect)

Spec == Init /\ [][Next]_vars

-----------------------------------------------------------------------------
(* Properties                                                               *)

\* Types; a handle is freed at most once.
TypeOK ==
    /\ core \in BOOLEAN
    /\ py \in [Objects -> {"none", "alive", "dying", "dead"}]
    /\ fin \in [Objects -> {"unset", "alive", "called"}]
    /\ frees \in [Objects -> {0, 1}]
    /\ held \subseteq Objects
    /\ global \in BOOLEAN
    /\ flushing \subseteq Rkeys
    /\ reset \in {"none", "ok", "raised"}
    /\ raised \subseteq {"assertion", "error"} /\ closed \in BOOLEAN

\* No handle is freed with that of its parent gone: by then its finalizer has been called
\* and waits for nothing.  A listener that only its own callback refers to is the
\* exception: the collector may find it together with the worker.
NoUseAfterFree ==
    \A o \in Objects \ ({Ctx, App} \cup SelfReferring) :
      frees[Parent(o)] > 0 => ~Open(o) /\ o \notin Finalizing \cup flushing

\* The assertions of the finalizers hold unless the user closes a context or a worker
\* that is still in use: not when objects are dropped in any order, not in reset(), not
\* at exit.
AssertionOnlyByUser == "assertion" \in raised => closed

\* "Resets the UCX library by shutting down all of UCX": when reset() returns the
\* worker and the context have been freed.
ResetShutsDown == reset = "ok" => frees[Wrk] = 1 /\ frees[Ctx] = 1 /\ frees[App] = 1

\* A handle that is open belongs to an object the user, or core, can still get at; or it is
\* needed by a remote key, whose finalizer, and then whose flush, keep the key and its
\* endpoint alive.  One whose finalizer has been called has been freed, if no finalizer
\* has raised.
DroppedIsFreed ==
    UserTop /\ Doomed \cup Garbage = {} =>
      \A o \in Objects :
        /\ Open(o) => o \in Reach(held \cup (IF global THEN {App} ELSE {})
                                  \cup {r \in Rkeys : Open(r)} \cup flushing)
        /\ fin[o] = "called" /\ raised = {} => frees[o] = 1 \/ o \in flushing
=============================================================================
