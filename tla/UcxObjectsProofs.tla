--------------------------- MODULE UcxObjectsProofs ---------------------------
(***************************************************************************)
(* The theorems of UcxObjects.  Python's stack is read by index: which     *)
(* frames a step leaves where they are, and what it puts above them.  The  *)
(* steps are first brought into classes that say just that, of which a     *)
(* handful carries each part of the invariant.                             *)
(***************************************************************************)
EXTENDS UcxObjects, SequenceTheorems, FiniteSetTheorems, TLAPS

Leaves == Lis \cup Mems \cup Rkeys \cup Addrs

Frames ==
    [kind : {"close"}, obj : Objects, at : {"kids", "wait", "callback", "done"}]
      \cup [kind : {"drop"}, objs : SUBSET Objects]
      \cup [kind : {"abort"}, obj : Eps]
      \cup [kind : {"reset", "exit", "ucx", "user"}]

\* The finalizer of `o` is at work, at `i`, or anywhere.
CloseAt(i, o) == stack[i].kind = "close" /\ stack[i].obj = o
Closing(o) == \E i \in 1..Len(stack) : CloseAt(i, o)
DropAt(i, o) == stack[i].kind = "drop" /\ o \in stack[i].objs

\* What the finalizer of `o` was given is referred to.
Busy(o) == Open(o) \/ Closing(o)

\* Membership of Roots and Doomed, one object at a time.
Rooted(x) ==
    \/ x \in held \/ (global /\ x = App) \/ x \in flushing
    \/ \E o \in Objects : Busy(o) /\ x \in FinArgs(o)
Referred(x) == \E q \in Objects : py[q] \in {"alive", "dying"} /\ x \in Refs(q)
Loose(x) == py[x] = "alive" /\ ~Rooted(x) /\ ~Referred(x)
Calm == \A x \in Objects : ~Loose(x)

-----------------------------------------------------------------------------
(* The invariant                                                            *)

Types ==
    /\ core \in BOOLEAN
    /\ py \in [Objects -> {"none", "alive", "dying", "dead"}]
    /\ fin \in [Objects -> {"unset", "alive", "called"}]
    /\ frees \in [Objects -> Nat]
    /\ held \subseteq Objects
    /\ global \in BOOLEAN
    /\ stack \in Seq(Frames)
    /\ flushing \subseteq Rkeys
    /\ reset \in {"none", "ok", "raised"}
    /\ raised \subseteq {"assertion", "error"}
    /\ closed \in BOOLEAN

\* A handle is freed after its finalizer was called, by that finalizer or by its flush.
Uncalled ==
    \A o \in Objects : fin[o] # "called" => frees[o] = 0 /\ o \notin flushing /\ ~Closing(o)
Distinct ==
    \A i, j \in 1..Len(stack), o \in Objects : CloseAt(i, o) /\ CloseAt(j, o) => i = j
Places ==
    \A i \in 1..Len(stack), o \in Objects : CloseAt(i, o) =>
      /\ o \notin flushing
      /\ stack[i].at \in {"kids", "wait"} => frees[o] = 0
      /\ stack[i].at \in {"callback", "done"} => frees[o] = 1
      /\ stack[i].at # "kids" => o \in Eps
Freed == \A o \in Objects : frees[o] \in {0, 1} /\ (o \in flushing => frees[o] = 0)
Once == Uncalled /\ Distinct /\ Places /\ Freed

\* The user is trusted with closing the worker and the context through ucx_api only.
Core ==
    /\ core => held \subseteq Eps \cup Lis \cup Addrs
    /\ core => ~closed
    /\ core => \A o \in Mems \cup Rkeys : fin[o] = "unset"
    /\ py[App] # "none" => core /\ py[Ctx] # "none" /\ py[Wrk] # "none"
    /\ global => core
    /\ \A i \in 1..Len(stack) : stack[i].kind = "reset" => py[App] # "none"

\* Reference counts: what anything refers to is alive.
RootsLive == \A x \in Objects : Rooted(x) => py[x] = "alive"
RefsLive == \A x \in Objects : py[x] = "alive" => \A y \in Refs(x) : py[y] = "alive"
Lives ==
    \A x \in Objects : /\ py[x] = "none" <=> fin[x] = "unset"
                       /\ py[x] = "dead" => fin[x] = "called"
Dropping ==
    /\ \A x \in Objects : py[x] = "dying" => \E i \in 1..Len(stack) : DropAt(i, x)
    /\ \A i \in 1..Len(stack), x \in Objects : DropAt(i, x) => py[x] = "dying"
    /\ \A i, j \in 1..Len(stack), x \in Objects : DropAt(i, x) /\ DropAt(j, x) => i = j
DyingOpen == \A x \in Objects : py[x] = "dying" /\ Open(x) => x \in SelfReferring \cup Trunk
Heap == RootsLive /\ RefsLive /\ Lives /\ Dropping /\ DyingOpen

\* Nothing runs above the finalizer of an object without children.
LeafTop == \A i \in 1..Len(stack), o \in Leaves : CloseAt(i, o) => i = Len(stack)
LeafCalm == \A o \in Leaves : stack # <<>> /\ CloseAt(Len(stack), o) => Calm
LeafAlone == \A x \in Leaves : Open(x) /\ Loose(x) => \A y \in Objects : Loose(y) => y = x
Leaf == LeafTop /\ LeafCalm /\ LeafAlone

\* The finalizer of a parent runs below those of its children, or not with them at all.
Order ==
    /\ \A i, j \in 1..Len(stack), e \in Eps : CloseAt(i, Wrk) /\ CloseAt(j, e) => i < j
    /\ \A i, j \in 1..Len(stack), e \in Eps \cup {Wrk} : CloseAt(i, Ctx) /\ CloseAt(j, e) => i < j
    /\ \A i \in 1..Len(stack) : CloseAt(i, Ctx) => ~Open(Wrk) \/ (i = 1 /\ closed)
    /\ \A i \in 1..Len(stack) : stack[i].kind \in {"exit", "reset"} => i = 1

\* What a finalizer is interrupted by.
Inside(f, g) ==
    /\ \/ g.kind \in {"drop", "ucx", "user"}
       \/ /\ f.at = "kids" /\ g.kind = "close" /\ g.obj \notin {App, Ctx}
          /\ Parent(g.obj) = f.obj
    /\ f.at # "done" => g.kind # "user"
Nested ==
    \A i \in 1..Len(stack) : i < Len(stack) /\ stack[i].kind = "close" =>
      Inside(stack[i], stack[i + 1])

\* A parent outlives its children, unless the user closes it.
Under == ~closed => \A o \in Mems \cup {Wrk} \cup Eps : Busy(o) => Open(Parent(o))
KeysDone ==
    \A i \in 1..Len(stack), r \in Rkeys :
      CloseAt(i, EpOf[r]) /\ stack[i].at # "kids" => ~Busy(r)
NoUse ==
    \A o \in Objects \ ({Ctx, App} \cup SelfReferring) :
      frees[Parent(o)] > 0 => ~Busy(o) /\ o \notin flushing

\* Whatever was called is freed in the end, or an exception was printed.
Accounted ==
    \A o \in Objects : fin[o] = "called" =>
      frees[o] = 1 \/ o \in flushing \/ Closing(o) \/ (raised # {} /\ (core => o \notin Trunk))

Shut == reset = "ok" => frees[Wrk] = 1 /\ frees[Ctx] = 1 /\ frees[App] = 1

IInv ==
    /\ Types /\ Once /\ Core /\ Heap /\ Leaf /\ Order /\ Nested
    /\ Under /\ KeysDone /\ NoUse /\ Accounted /\ AssertionOnlyByUser /\ Shut

-----------------------------------------------------------------------------
(* Objects                                                                  *)

USE ObjectsAssumption

LEMMA Kinds ==
    /\ \A o \in Objects : o \in Trunk \/ o \in Eps \/ o \in Leaves
    /\ App \in Objects /\ Ctx \in Objects /\ Wrk \in Objects
    /\ Eps \subseteq Objects /\ Leaves \subseteq Objects /\ Rkeys \subseteq Leaves
    /\ Mems \subseteq Leaves /\ Lis \subseteq Leaves /\ Addrs \subseteq Leaves
    /\ Eps \cap Leaves = {} /\ Trunk \cap Leaves = {} /\ Trunk \cap Eps = {}
BY DEF Objects, Trunk, Leaves

LEMMA ParentOf ==
    /\ \A r \in Rkeys : Parent(r) = EpOf[r] /\ EpOf[r] \in Eps
    /\ \A m \in Mems : Parent(m) = Ctx
    /\ Parent(Wrk) = Ctx /\ Parent(App) = Wrk /\ Parent(Ctx) = Wrk
    /\ \A o \in Eps \cup Lis \cup Addrs : Parent(o) = Wrk
BY DEF Parent, Trunk

\* No object is the child of a leaf or of an ApplicationContext.
LEMMA ParentKinds ==
    \A o \in Objects : /\ Parent(o) \in Objects
                       /\ Parent(o) \in Eps \cup {Wrk, Ctx}
                       /\ Parent(o) \in Eps => o \in Rkeys
                       /\ Parent(o) = Ctx => o \in Mems \cup {Wrk}
                       /\ Parent(o) = Wrk => o \in Eps \cup Lis \cup Addrs \cup {App, Ctx}
<1> SUFFICES ASSUME NEW o \in Objects
             PROVE  /\ Parent(o) \in Eps \cup {Wrk, Ctx}
                    /\ Parent(o) \in Eps => o \in Rkeys
                    /\ Parent(o) = Ctx => o \in Mems \cup {Wrk}
                    /\ Parent(o) = Wrk => o \in Eps \cup Lis \cup Addrs \cup {App, Ctx}
  BY Kinds
<1>1. CASE o \in Rkeys
  BY <1>1, ParentOf DEF Trunk
<1>2. CASE o \in Mems \cup {Wrk}
  BY <1>2, ParentOf DEF Trunk
<1>3. CASE o \in Eps \cup Lis \cup Addrs \cup {App, Ctx}
  BY <1>3, ParentOf DEF Trunk
<1> QED BY <1>1, <1>2, <1>3 DEF Objects, Trunk

LEMMA RefsOf ==
    /\ Refs(App) = {Ctx, Wrk} /\ Refs(Wrk) = {Ctx} /\ Refs(Ctx) = {}
    /\ \A e \in Eps : Refs(e) \subseteq {Wrk, App} /\ Wrk \in Refs(e)
    /\ \A e \in Eps : App \in Refs(e) <=> core
    /\ \A l \in Lis : Refs(l) \subseteq {App, l} /\ (l \in Refs(l) <=> l \in SelfReferring)
    /\ \A l \in Lis : App \in Refs(l) <=> core
    /\ \A m \in Mems : Refs(m) = {Ctx}
    /\ \A r \in Rkeys : Refs(r) = {EpOf[r]}
    /\ \A a \in Addrs : Refs(a) = {}
<1>1. Refs(App) = {Ctx, Wrk} /\ Refs(Wrk) = {Ctx}
  BY DEF Refs, Trunk
<1>2. Refs(Ctx) = {}
  BY DEF Refs, Trunk
<1>3. ASSUME NEW e \in Eps PROVE Refs(e) = {Wrk} \cup (IF core THEN {App} ELSE {})
  BY DEF Refs, Trunk
<1>4. ASSUME NEW l \in Lis
      PROVE  Refs(l) = (IF core THEN {App} ELSE {}) \cup ({l} \cap SelfReferring)
  BY DEF Refs, Trunk
<1>5. \A l \in Lis : l # App
  BY DEF Trunk
<1>6. \A m \in Mems : Refs(m) = {Ctx}
  BY DEF Refs, Trunk
<1>7. \A r \in Rkeys : Refs(r) = {EpOf[r]}
  BY DEF Refs, Trunk
<1>8. \A a \in Addrs : Refs(a) = {}
  BY DEF Refs, Trunk
<1>9. \A e \in Eps : /\ Refs(e) \subseteq {Wrk, App} /\ Wrk \in Refs(e)
                     /\ App \in Refs(e) <=> core
  BY <1>3
<1>10. \A l \in Lis : /\ Refs(l) \subseteq {App, l} /\ (l \in Refs(l) <=> l \in SelfReferring)
                      /\ App \in Refs(l) <=> core
  BY <1>4, <1>5
<1> QED BY <1>1, <1>2, <1>6, <1>7, <1>8, <1>9, <1>10

LEMMA FinArgsOf ==
    /\ FinArgs(App) = {} /\ FinArgs(Ctx) = {} /\ FinArgs(Wrk) = {Ctx}
    /\ \A e \in Eps : FinArgs(e) = {Wrk}
    /\ \A m \in Mems : FinArgs(m) = {Ctx}
    /\ \A r \in Rkeys : FinArgs(r) = {r, EpOf[r]}
    /\ \A o \in Lis \cup Addrs : FinArgs(o) = {}
BY DEF FinArgs, Trunk

\* Who refers to what.
LEMMA Referrers ==
    ASSUME NEW q \in Objects, NEW x \in Refs(q)
    PROVE  /\ x \in Objects
           /\ x \in Leaves => x = q /\ q \in SelfReferring
           /\ x \in Eps => q \in Rkeys /\ x = EpOf[q]
           /\ x = App => core /\ q \in Eps \cup Lis
           /\ x = Wrk => q \in Eps \cup {App}
           /\ x = Ctx => q \in Mems \cup {App, Wrk}
<1> USE Kinds, RefsOf
<1>1. CASE q \in Eps
  BY <1>1 DEF Trunk
<1>2. CASE q \in Lis
  BY <1>2 DEF Trunk
<1>3. CASE q \in Mems \cup Addrs
  BY <1>3 DEF Trunk
<1>4. CASE q \in Rkeys
  BY <1>4 DEF Trunk
<1>5. CASE q \in Trunk
  BY <1>5 DEF Trunk
<1> QED BY <1>1, <1>2, <1>3, <1>4, <1>5 DEF Objects

LEMMA Givers ==
    ASSUME NEW q \in Objects, NEW x \in FinArgs(q)
    PROVE  /\ x \in Objects /\ x # App
           /\ x \in Leaves => x = q /\ q \in Rkeys
           /\ x \in Eps => q \in Rkeys /\ x = EpOf[q]
           /\ x = Wrk => q \in Eps
           /\ x = Ctx => q \in Mems \cup {Wrk}
<1> USE Kinds, FinArgsOf
<1>1. CASE q \in Eps
  BY <1>1 DEF Trunk
<1>2. CASE q \in Lis \cup Addrs
  BY <1>2 DEF Trunk
<1>3. CASE q \in Mems
  BY <1>3 DEF Trunk
<1>4. CASE q \in Rkeys
  BY <1>4 DEF Trunk
<1>5. CASE q \in Trunk
  BY <1>5 DEF Trunk
<1> QED BY <1>1, <1>2, <1>3, <1>4, <1>5 DEF Objects

HIDE ObjectsAssumption

-----------------------------------------------------------------------------
(* The stack                                                                *)

Places4 == {"kids", "wait", "callback", "done"}
DropFrame(S) == [kind |-> "drop", objs |-> S]
AbortFrame(e) == [kind |-> "abort", obj |-> e]
Moving(f, place) == [f EXCEPT !.at = place]

LEMMA FrameOf ==
    ASSUME NEW f \in Frames
    PROVE  /\ f.kind \in {"close", "drop", "abort", "reset", "exit", "ucx", "user"}
           /\ f.kind = "close" => f.obj \in Objects /\ f.at \in Places4
           /\ f.kind = "drop" => f.objs \subseteq Objects
           /\ f.kind = "abort" => f.obj \in Eps
<1>1. CASE f \in [kind : {"close"}, obj : Objects, at : Places4]
  BY <1>1 DEF Places4
<1>2. CASE f \in [kind : {"drop"}, objs : SUBSET Objects]
  BY <1>2
<1>3. CASE f \in [kind : {"abort"}, obj : Eps]
  BY <1>3
<1>4. CASE f \in [kind : {"reset", "exit", "ucx", "user"}]
  BY <1>4
<1> QED BY <1>1, <1>2, <1>3, <1>4 DEF Frames, Places4

LEMMA FrameMade ==
    /\ \A o \in Objects : /\ CloseFrame(o) \in Frames /\ CloseFrame(o).kind = "close"
                          /\ CloseFrame(o).obj = o /\ CloseFrame(o).at = "kids"
    /\ \A S \in SUBSET Objects : /\ DropFrame(S) \in Frames /\ DropFrame(S).kind = "drop"
                                 /\ DropFrame(S).objs = S
    /\ \A e \in Eps : /\ AbortFrame(e) \in Frames /\ AbortFrame(e).kind = "abort"
                      /\ AbortFrame(e).obj = e
    /\ \A k \in {"reset", "exit", "ucx", "user"} :
         [kind |-> k] \in Frames /\ [kind |-> k].kind = k
BY DEF Frames, CloseFrame, DropFrame, AbortFrame

LEMMA FrameMoved ==
    ASSUME NEW f \in Frames, f.kind = "close", NEW place \in Places4
    PROVE  /\ Moving(f, place) \in Frames /\ Moving(f, place).kind = "close"
           /\ Moving(f, place).obj = f.obj /\ Moving(f, place).at = place
<1>1. f \in [kind : {"close"}, obj : Objects, at : Places4]
  BY DEF Frames, Places4
<1>2. Moving(f, place) = [kind |-> "close", obj |-> f.obj, at |-> place]
  BY <1>1 DEF Moving
<1> QED BY <1>1, <1>2 DEF Frames, Places4

\* What a step does to the stack: the first n frames stay, and the others go or come.
Upto(n) ==
    /\ n \in 0..Len(stack) /\ n <= Len(stack')
    /\ \A i \in 1..n : stack'[i] = stack[i]
Cut(n) == Upto(n) /\ Len(stack') = n
Pushed(f) == Upto(Len(stack)) /\ Len(stack') = Len(stack) + 1 /\ stack'[Len(stack) + 1] = f
Pushed2(f, g) ==
    /\ Upto(Len(stack)) /\ Len(stack') = Len(stack) + 2
    /\ stack'[Len(stack) + 1] = f /\ stack'[Len(stack) + 2] = g
Moved(place) ==
    /\ Upto(Len(stack) - 1) /\ Len(stack') = Len(stack)
    /\ stack'[Len(stack)] = Moving(stack[Len(stack)], place)
Raised(n) ==
    /\ Cut(n)
    /\ \A i \in 1..Len(stack) : i > n =>
         stack[i].kind \notin {"drop", "exit"} /\ (stack[i].kind = "ucx" => i = n + 1)
    /\ stack # <<>> /\ stack[Len(stack)].kind = "close" => n < Len(stack)

TopKind(kind) == stack # <<>> /\ stack[Len(stack)].kind = kind
TopClose(o) == stack # <<>> /\ CloseAt(Len(stack), o)
TopAt(place) == stack[Len(stack)].at = place

LEMMA Tops ==
    ASSUME stack \in Seq(Frames)
    PROVE  /\ Len(stack) \in Nat
           /\ stack # <<>> <=> Len(stack) > 0
           /\ stack # <<>> => Len(stack) \in 1..Len(stack)
           /\ stack # <<>> => Top = stack[Len(stack)] /\ stack[Len(stack)] \in Frames
           /\ \A kind \in {"close", "drop", "abort", "reset", "exit", "ucx", "user"} :
                IsTop(kind) <=> TopKind(kind)
           /\ Top.kind \in {"ucx", "user"} <=> TopKind("ucx") \/ TopKind("user")
<1>1. /\ Len(stack) \in Nat
      /\ stack # <<>> <=> Len(stack) > 0
  OBVIOUS
<1>2. stack # <<>> => Len(stack) \in 1..Len(stack) /\ stack[Len(stack)] \in Frames
  BY <1>1
<1>3. stack # <<>> => Top = stack[Len(stack)]
  BY DEF Top, Last
<1>4. stack = <<>> => Top.kind = "none"
  BY DEF Top
<1> QED BY <1>1, <1>2, <1>3, <1>4 DEF IsTop, TopKind

LEMMA Pushes ==
    ASSUME stack \in Seq(Frames), NEW f \in Frames, Push(f)
    PROVE  stack' \in Seq(Frames) /\ Pushed(f)
BY DEF Push, Pushed, Upto

LEMMA PushesTwo ==
    ASSUME stack \in Seq(Frames), NEW f \in Frames, NEW g \in Frames,
           stack' = stack \o <<f, g>>
    PROVE  stack' \in Seq(Frames) /\ Pushed2(f, g)
BY DEF Pushed2, Upto

LEMMA FirstFrames ==
    ASSUME stack \in Seq(Frames), NEW n \in 0..Len(stack)
    PROVE  /\ SubSeq(stack, 1, n) \in Seq(Frames)
           /\ Len(SubSeq(stack, 1, n)) = n
           /\ \A i \in 1..n : SubSeq(stack, 1, n)[i] = stack[i]
OBVIOUS

LEMMA Cuts ==
    ASSUME stack \in Seq(Frames), NEW n \in 0..Len(stack), stack' = SubSeq(stack, 1, n)
    PROVE  stack' \in Seq(Frames) /\ Cut(n)
BY FirstFrames DEF Cut, Upto

LEMMA Pops ==
    ASSUME stack \in Seq(Frames), stack # <<>>, Pop
    PROVE  /\ Len(stack) - 1 \in 0..Len(stack)
           /\ stack' \in Seq(Frames) /\ Cut(Len(stack) - 1)
<1>1. Len(stack) - 1 \in 0..Len(stack)
  OBVIOUS
<1>2. stack' = SubSeq(stack, 1, Len(stack) - 1)
  BY DEF Pop, Below, Front
<1> QED BY <1>1, <1>2, Cuts

LEMMA Moves ==
    ASSUME stack \in Seq(Frames), TopKind("close"), NEW place \in Places4, At(place)
    PROVE  stack' \in Seq(Frames) /\ Moved(place)
<1>1. /\ Len(stack) \in Nat \ {0}
      /\ stack[Len(stack)] \in Frames /\ stack[Len(stack)].kind = "close"
  BY Tops DEF TopKind
<1> DEFINE g == Moving(stack[Len(stack)], place)
<1>2. g \in Frames
  BY <1>1, FrameMoved
<1>3. stack' = Append(SubSeq(stack, 1, Len(stack) - 1), g)
  BY Tops DEF At, Below, Front, Moving, TopKind
<1>4. Len(stack) - 1 \in 0..Len(stack)
  BY <1>1
<1>5. /\ SubSeq(stack, 1, Len(stack) - 1) \in Seq(Frames)
      /\ Len(SubSeq(stack, 1, Len(stack) - 1)) = Len(stack) - 1
      /\ \A i \in 1..(Len(stack) - 1) : SubSeq(stack, 1, Len(stack) - 1)[i] = stack[i]
  BY <1>4, FirstFrames
<1> HIDE DEF g
<1>7. stack' \in Seq(Frames) /\ Len(stack') = Len(stack) /\ stack'[Len(stack)] = g
  BY <1>1, <1>2, <1>3, <1>4, <1>5
<1>8. \A i \in 1..(Len(stack) - 1) : stack'[i] = stack[i]
  BY <1>1, <1>2, <1>3, <1>4, <1>5
<1> QED BY <1>1, <1>7, <1>8 DEF Moved, Upto, g

\* A set of positions that is not empty has a last one: the one above which, in
\* the order of inclusion, there are the fewest.
LEMMA LastPosition ==
    ASSUME NEW n \in Nat, NEW S \in SUBSET (1..n), S # {}
    PROVE  \E i \in S : \A j \in S : j <= i
<1> DEFINE From(i) == {j \in S : i <= j}
           T == {From(i) : i \in S}
<1>0. \A j \in S : j \in Int
  OBVIOUS
<1>1. IsFiniteSet(S)
  <2>1. IsFiniteSet(1..n)
    BY FS_Interval
  <2> QED BY <2>1, FS_Subset
<1>2. T \subseteq FiniteSubsetsOf(S) /\ T # {}
  <2>1. \A i \in S : From(i) \subseteq S
    OBVIOUS
  <2> HIDE DEF From
  <2>2. \A i \in S : IsFiniteSet(From(i))
    BY <1>1, <2>1, FS_Subset
  <2> QED BY <2>1, <2>2 DEF FiniteSubsetsOf
<1>3. \E U \in T : \A V \in T : <<V, U>> \notin StrictSubsetOrdering(S)
  <2> HIDE DEF T
  <2>1. IsWellFoundedOn(StrictSubsetOrdering(S), FiniteSubsetsOf(S))
    BY FS_StrictSubsetOrderingWellFounded
  <2> QED BY <1>2, <2>1, WFMin
<1>4. PICK i \in S : \A j \in S : <<From(j), From(i)>> \notin StrictSubsetOrdering(S)
  BY <1>3
<1>5. ASSUME NEW j \in S, j > i PROVE FALSE
  <2>1. i \in Int /\ j \in Int
    BY <1>0
  <2>2. From(j) \subseteq From(i)
    <3> SUFFICES ASSUME NEW k \in S, j <= k PROVE i <= k
      OBVIOUS
    <3> QED BY <1>0, <1>5, <2>1
  <2>3. i \in From(i) /\ i \notin From(j)
    BY <1>5, <2>1
  <2>4. From(j) \in SUBSET S /\ From(i) \in SUBSET S
    OBVIOUS
  <2> HIDE DEF From
  <2>5. <<From(j), From(i)>> \in StrictSubsetOrdering(S)
    BY <2>2, <2>3, <2>4 DEF StrictSubsetOrdering
  <2> QED BY <2>5, <1>4
<1> QED BY <1>0, <1>5

\* An exception leaves the frame that catches it, if that does not belong to UCX.
LEMMA Raises ==
    ASSUME stack \in Seq(Frames), Raise
    PROVE  \E n \in 0..Len(stack) : stack' \in Seq(Frames) /\ Raised(n)
<1> DEFINE catching == {i \in DOMAIN stack : stack[i].kind \in {"drop", "exit", "ucx"}}
           top == IF catching = {} THEN 0 ELSE CHOOSE i \in catching : \A j \in catching : j <= i
           n == IF top > 0 /\ stack[top].kind = "ucx" THEN top - 1 ELSE top
<1>1. DOMAIN stack = 1..Len(stack) /\ Len(stack) \in Nat
  OBVIOUS
<1>2. catching # {} => \E i \in catching : \A j \in catching : j <= i
  BY <1>1, LastPosition
<1>3. /\ top \in 0..Len(stack)
      /\ \A j \in catching : j <= top
      /\ top > 0 => top \in catching
  <2>1. CASE catching = {}
    BY <2>1, <1>1
  <2>2. CASE catching # {}
    <3>1. top = CHOOSE i \in catching : \A j \in catching : j <= i
      BY <2>2
    <3> HIDE DEF top, catching
    <3>2. top \in catching /\ \A j \in catching : j <= top
      BY <2>2, <3>1, <1>2
    <3>3. catching \subseteq 1..Len(stack)
      BY <1>1 DEF catching
    <3> QED BY <3>2, <3>3, <1>1
  <2> QED BY <2>1, <2>2
<1>4. stack' = IF top > 0 /\ stack[top].kind = "ucx" THEN SubSeq(stack, 1, top - 1)
                                                    ELSE SubSeq(stack, 1, top)
  BY DEF Raise
<1> HIDE DEF top
<1>0. stack' = SubSeq(stack, 1, n)
  BY <1>4
<1>5. n \in 0..Len(stack)
  BY <1>3, <1>1
<1>6. \A i \in 1..Len(stack) : i > n =>
         stack[i].kind \notin {"drop", "exit"} /\ (stack[i].kind = "ucx" => i = n + 1)
  <2> SUFFICES ASSUME NEW i \in 1..Len(stack), i > n
               PROVE  stack[i].kind \notin {"drop", "exit"} /\ (stack[i].kind = "ucx" => i = n + 1)
    OBVIOUS
  <2>1. CASE i \notin catching
    BY <2>1, <1>1
  <2>2. CASE i \in catching
    <3>1. i <= top /\ n # top
      BY <2>2, <1>3, <1>1
    <3>2. n = top - 1 /\ stack[top].kind = "ucx" /\ i = top
      BY <3>1, <1>3, <1>1
    <3> QED BY <3>2, <1>1
  <2> QED BY <2>1, <2>2
<1>7. stack # <<>> /\ stack[Len(stack)].kind = "close" => n < Len(stack)
  <2> SUFFICES ASSUME stack # <<>>, stack[Len(stack)].kind = "close" PROVE n < Len(stack)
    OBVIOUS
  <2>1. Len(stack) > 0
    OBVIOUS
  <2>2. Len(stack) \notin catching
    OBVIOUS
  <2> HIDE DEF catching
  <2>3. top # Len(stack)
    BY <2>1, <2>2, <1>3
  <2>4. n = top \/ n = top - 1
    OBVIOUS
  <2> HIDE DEF n
  <2>5. top \in 0..Len(stack) /\ Len(stack) \in Nat
    BY <1>1, <1>3
  <2> QED BY <2>1, <2>3, <2>4, <2>5
<1> HIDE DEF n
<1>8. stack' \in Seq(Frames) /\ Cut(n)
  BY <1>0, <1>5, Cuts
<1> QED BY <1>5, <1>6, <1>7, <1>8 DEF Raised

-----------------------------------------------------------------------------
(* What is referred to, one object at a time                                *)

LEMMA FinalizingIs ==
    ASSUME Types
    PROVE  \A o \in Objects : o \in Finalizing <=> Closing(o)
<1>1. DOMAIN stack = 1..Len(stack)
  BY DEF Types
<1> QED BY <1>1 DEF Finalizing, Closing, CloseAt

LEMMA RootsAre ==
    ASSUME Types
    PROVE  \A x : x \in Roots <=> Rooted(x)
<1>1. \A i \in DOMAIN stack : stack[i].kind = "close" => stack[i].obj \in Objects
  <2>1. \A i \in DOMAIN stack : stack[i] \in Frames
    BY DEF Types
  <2> QED BY <2>1, FrameOf
<1>2. {p \in Objects : Open(p)} \cup Finalizing = {p \in Objects : Busy(p)}
  BY <1>1, FinalizingIs DEF Finalizing, Busy
<1>3. \A x : x \in UNION {FinArgs(o) : o \in {p \in Objects : Busy(p)}}
               <=> \E o \in Objects : Busy(o) /\ x \in FinArgs(o)
  OBVIOUS
<1> QED BY <1>2, <1>3 DEF Roots, Rooted

LEMMA DoomedAre ==
    ASSUME Types
    PROVE  Doomed \subseteq Objects /\ \A x \in Objects : x \in Doomed <=> Loose(x)
<1> DEFINE alive == {o \in Objects : py[o] = "alive"}
           named == UNION {Refs(p) : p \in {q \in Objects : py[q] \in {"alive", "dying"}}}
<1>1. Doomed = IF alive \subseteq held THEN {} ELSE alive \ (Roots \cup named)
  BY DEF Doomed
<1>2. \A x : x \in named <=> Referred(x)
  BY DEF Referred
<1>3. \A x : x \in held => Rooted(x)
  BY DEF Rooted
<1> HIDE DEF named
<1>4. ASSUME NEW x \in Objects PROVE x \in Doomed <=> Loose(x)
  <2>1. CASE alive \subseteq held
    BY <2>1, <1>1, <1>3 DEF Loose
  <2>2. CASE ~(alive \subseteq held)
    BY <2>2, <1>1, <1>2, RootsAre DEF Loose
  <2> QED BY <2>1, <2>2
<1>5. Doomed \subseteq Objects
  BY <1>1
<1> QED BY <1>4, <1>5

LEMMA CalmIs == Types => (Doomed = {} <=> Calm)
BY DoomedAre DEF Calm

StepOf(T) == T \cup UNION {Refs(p) : p \in T}

LEMMA StepIs ==
    ASSUME NEW T, NEW p \in T
    PROVE  p \in StepOf(T) /\ Refs(p) \subseteq StepOf(T)
BY DEF StepOf

LEMMA StepFrom ==
    ASSUME NEW T, NEW x \in StepOf(T), x \notin T
    PROVE  \E p \in T : x \in Refs(p)
BY DEF StepOf

LEMMA StepObjects ==
    ASSUME NEW T \in SUBSET Objects
    PROVE  StepOf(T) \in SUBSET Objects
BY Referrers DEF StepOf

\* Four steps reach all there is: from a key to its endpoint, then to the
\* ApplicationContext, the worker and the context, which refers to nothing.
LEMMA ReachClosed ==
    ASSUME NEW S \in SUBSET Objects
    PROVE  /\ S \subseteq Reach(S) /\ Reach(S) \subseteq Objects
           /\ \A x \in Reach(S) : Refs(x) \subseteq Reach(S)
<1> DEFINE T1 == StepOf(S)
           T2 == StepOf(T1)
           T3 == StepOf(T2)
           T4 == StepOf(T3)
<1>1. Reach(S) = T4
  BY DEF Reach, StepOf
<1>2. T1 \in SUBSET Objects /\ T2 \in SUBSET Objects /\ T3 \in SUBSET Objects
      /\ T4 \in SUBSET Objects
  BY StepObjects
<1>3. S \subseteq T1 /\ T1 \subseteq T2 /\ T2 \subseteq T3 /\ T3 \subseteq T4
  BY StepIs
<1>4. ASSUME NEW x \in T4 PROVE Refs(x) \subseteq T4
  <2>1. CASE x \in T3
    BY <2>1, StepIs
  <2>2. CASE x \notin T3
    <3>1. PICK p3 \in T3 : x \in Refs(p3)
      BY <2>2, StepFrom
    <3>2. p3 \notin T2
      BY <2>2, <3>1, StepIs
    <3>3. PICK p2 \in T2 : p3 \in Refs(p2)
      BY <3>2, StepFrom
    <3>4. p2 \notin T1
      BY <3>2, <3>3, StepIs
    <3>5. PICK p1 \in T1 : p2 \in Refs(p1)
      BY <3>4, StepFrom
    <3>6. p1 \notin S
      BY <3>4, <3>5, StepIs
    <3>7. PICK p0 \in S : p1 \in Refs(p0)
      BY <3>6, StepFrom
    <3> HIDE DEF T1, T2, T3, T4
    <3>8. p1 \in Objects /\ p1 \notin Leaves
      BY <3>6, <3>7, <1>2, Referrers
    <3>9. p2 \in {App, Wrk, Ctx}
      <4>1. p2 \in Objects /\ p2 \notin Leaves /\ p2 \notin Eps
        BY <3>5, <3>8, Referrers, Kinds
      <4> QED BY <4>1, Kinds DEF Trunk
    <3>10. p3 \in {Ctx, Wrk}
      BY <3>3, <3>9, RefsOf
    <3>11. x = Ctx
      BY <3>1, <3>10, RefsOf
    <3> QED BY <3>11, RefsOf
  <2> QED BY <2>1, <2>2
<1> HIDE DEF T1, T2, T3, T4
<1> QED BY <1>1, <1>2, <1>3, <1>4

\* What is alive and not garbage is reached, and what it refers to is.
LEMMA GarbageIs ==
    ASSUME Types
    PROVE  /\ \A x \in Garbage : x \in Objects /\ py[x] = "alive" /\ ~Rooted(x)
           /\ \A q \in Objects, x \in Garbage :
                x \in Refs(q) => py[q] # "dying" /\ (py[q] = "alive" => q \in Garbage)
<1> DEFINE S == Roots \cup {o \in Objects : py[o] = "dying"}
<1>1. S \in SUBSET Objects
  <2>1. \A x : Rooted(x) => x \in Objects
    BY Kinds, Givers DEF Rooted, Types
  <2>2. Roots \subseteq Objects
    BY <2>1, RootsAre
  <2> QED BY <2>2
<1>2. Garbage = {o \in Objects : py[o] = "alive"} \ Reach(S)
  BY DEF Garbage
<1> HIDE DEF S
<1>3. /\ S \subseteq Reach(S)
      /\ \A x \in Reach(S) : Refs(x) \subseteq Reach(S)
  BY <1>1, ReachClosed
<1>4. \A x : Rooted(x) => x \in S
  BY RootsAre DEF S
<1>5. \A x \in Objects : py[x] = "dying" => x \in S
  BY DEF S
<1>6. \A x \in Garbage : x \in Objects /\ py[x] = "alive" /\ x \notin Reach(S)
  BY <1>2
<1>7. \A x \in Garbage : ~Rooted(x)
  BY <1>3, <1>4, <1>6
<1>8. ASSUME NEW q \in Objects, NEW x \in Garbage, x \in Refs(q)
      PROVE  py[q] # "dying" /\ (py[q] = "alive" => q \in Garbage)
  <2>1. q \notin Reach(S)
    BY <1>3, <1>6, <1>8
  <2> QED BY <2>1, <1>2, <1>3, <1>5
<1> QED BY <1>6, <1>7, <1>8

\* When nothing has a reference count of zero, garbage is in a cycle, or in the trunk.
LEMMA GarbageKinds ==
    ASSUME Types, Calm
    PROVE  \A x \in Garbage : x \in SelfReferring \cup Trunk
<1> SUFFICES ASSUME NEW x \in Garbage, x \notin SelfReferring, x \notin Trunk PROVE FALSE
  OBVIOUS
<1>1. x \in Objects /\ py[x] = "alive" /\ ~Rooted(x) /\ ~Loose(x)
  BY GarbageIs DEF Calm
<1>2. PICK q \in Objects : py[q] \in {"alive", "dying"} /\ x \in Refs(q)
  BY <1>1 DEF Loose, Referred
<1>3. x \notin Leaves
  <2> SUFFICES ASSUME x \in Leaves PROVE FALSE
    OBVIOUS
  <2>1. x = q /\ q \in SelfReferring
    BY <1>2, Referrers
  <2> QED BY <2>1
<1>4. x \in Eps
  BY <1>1, <1>3, Kinds
<1>5. q \in Rkeys
  BY <1>2, <1>4, Referrers
<1>6. py[q] = "alive" /\ q \in Garbage
  BY <1>2, GarbageIs
<1>7. ~Rooted(q) /\ ~Loose(q)
  BY <1>6, <1>2, GarbageIs DEF Calm
<1>8. PICK p \in Objects : q \in Refs(p)
  BY <1>6, <1>7 DEF Loose, Referred
<1>9. q = p /\ p \in SelfReferring /\ q \in Leaves
  BY <1>5, <1>8, Referrers, Kinds
<1> QED BY <1>5, <1>9, ObjectsAssumption

-----------------------------------------------------------------------------
(* The classes of steps                                                     *)

AtUser == stack = <<>> \/ TopKind("ucx") \/ TopKind("user")

\* The finalizer of `o` is called, and what it is called by.
Starts(o) ==
    /\ o \in Objects /\ Open(o) /\ Called(o)
    /\ UNCHANGED <<core, frees, held, global, flushing, reset, raised>>
StartsCalm(o) == Starts(o) /\ Calm /\ py' = py
DieStarts(o) ==
    /\ Starts(o) /\ Loose(o) /\ py' = [py EXCEPT ![o] = "dying"] /\ closed' = closed
    /\ Pushed2(DropFrame({o}), CloseFrame(o))
RunStarts(o) ==
    /\ StartsCalm(o) /\ closed' = closed /\ Pushed(CloseFrame(o))
    /\ TopKind("drop") /\ DropAt(Len(stack), o)
KidStarts(o) ==
    /\ StartsCalm(o) /\ closed' = closed /\ Pushed(CloseFrame(o))
    /\ TopKind("close") /\ TopAt("kids") /\ o \notin {App, Ctx}
    /\ Parent(o) = stack[Len(stack)].obj
UserStarts(o) ==
    /\ StartsCalm(o) /\ closed' = (closed \/ o \in {Ctx, Wrk}) /\ Pushed(CloseFrame(o))
    /\ o \in held /\ AtUser /\ (stack # <<>> => o \in Eps \cup Lis)
AbortStarts(o) ==
    /\ StartsCalm(o) /\ closed' = closed /\ Pushed2(AbortFrame(o), CloseFrame(o))
    /\ o \in Eps /\ core /\ AtUser
ExitStarts(o) ==
    /\ StartsCalm(o) /\ closed' = closed /\ Pushed(CloseFrame(o))
    /\ TopKind("exit") /\ \A k \in Younger(o) : ~Open(k)
Starting(o) ==
    \/ DieStarts(o) \/ RunStarts(o) \/ KidStarts(o) \/ UserStarts(o) \/ AbortStarts(o)
    \/ ExitStarts(o)

\* An object goes.
Vanishes(o) ==
    /\ o \in Objects /\ Loose(o) /\ ~Open(o) /\ py' = [py EXCEPT ![o] = "dead"]
    /\ UNCHANGED <<core, fin, frees, held, global, stack, flushing, reset, raised, closed>>
Collects ==
    /\ Calm /\ (AtUser \/ TopKind("reset")) /\ Pushed(DropFrame(Garbage))
    /\ py' = [o \in Objects |-> IF o \in Garbage THEN "dying" ELSE py[o]]
    /\ UNCHANGED <<core, fin, frees, held, global, flushing, reset, raised, closed>>
Goes ==
    /\ Calm /\ TopKind("drop") /\ \A o \in stack[Len(stack)].objs : ~Open(o)
    /\ py' = [o \in Objects |-> IF o \in stack[Len(stack)].objs THEN "dead" ELSE py[o]]
    /\ Cut(Len(stack) - 1)
    /\ UNCHANGED <<core, fin, frees, held, global, flushing, reset, raised, closed>>

\* A finalizer frees its handle, starts a flush, fails, or goes on.
Works(o) ==
    /\ o \in Objects /\ Calm /\ TopClose(o)
    /\ UNCHANGED <<core, py, fin, held, global, reset, closed>>
Ready(o) == Works(o) /\ TopAt("kids") /\ Kids(o) = {}
FreesOne(o) == frees' = [frees EXCEPT ![o] = @ + 1]
Cancelled(S) ==
    /\ S \subseteq flushing
    /\ frees' = [x \in Objects |-> frees[x] + IF x \in S THEN 1 ELSE 0]
    /\ flushing' = flushing \ S
Frees(o) ==
    /\ Ready(o) /\ o \notin Eps /\ FreesOne(o) /\ Cut(Len(stack) - 1)
    /\ UNCHANGED <<flushing, raised>>
Flushes(o) ==
    /\ Ready(o) /\ o \in Rkeys /\ flushing' = flushing \cup {o} /\ Cut(Len(stack) - 1)
    /\ UNCHANGED <<frees, raised>>
Blames(o, why) ==
    \/ why = "assertion" /\ o \in Mems \cup {Wrk} \cup Eps /\ ~Open(Parent(o))
    \/ why = "error" /\ o \in CanRefuse
FailsAt(o, n) ==
    /\ Ready(o) /\ Raised(n)
    /\ \E why : Blames(o, why) /\ raised' = raised \cup {why}
    /\ \/ UNCHANGED <<frees, flushing>>
       \/ o \in Eps /\ \E S \in SUBSET KeysOf(o) : Cancelled(S)
Waits(o) ==
    /\ Ready(o) /\ o \in Eps /\ Moved("wait") /\ UNCHANGED raised
    /\ \E S \in SUBSET KeysOf(o) : Cancelled(S)
IsClosed(o) ==
    /\ Works(o) /\ TopAt("wait") /\ flushing \cap KeysOf(o) = {} /\ FreesOne(o)
    /\ Moved("callback") /\ UNCHANGED <<flushing, raised>>
CallsUcx(o) ==
    /\ Works(o) /\ TopAt("wait") /\ Pushed([kind |-> "ucx"])
    /\ UNCHANGED <<frees, flushing, raised>>
CallsUser(o) ==
    /\ Works(o) /\ TopAt("callback")
    /\ Upto(Len(stack) - 1) /\ Len(stack') = Len(stack) + 1
    /\ stack'[Len(stack)] = Moving(stack[Len(stack)], "done")
    /\ stack'[Len(stack) + 1] = [kind |-> "user"]
    /\ UNCHANGED <<frees, flushing, raised>>
EndsWell(o) ==
    /\ Works(o) /\ stack[Len(stack)].at \in {"callback", "done"} /\ Cut(Len(stack) - 1)
    /\ UNCHANGED <<frees, flushing, raised>>
Flushed(r) ==
    /\ Calm /\ (stack = <<>> \/ (TopKind("close") /\ TopAt("wait")))
    /\ r \in flushing /\ Cancelled({r})
    /\ UNCHANGED <<core, py, fin, held, global, stack, reset, raised, closed>>

\* What the user does.
MakesApp ==
    /\ Calm /\ stack = <<>> /\ core /\ ~global /\ global' = TRUE
    /\ \A o \in {Ctx, Wrk, App} : py[o] = "none"
    /\ py' = [o \in Objects |-> IF o \in {Ctx, Wrk, App} THEN "alive" ELSE py[o]]
    /\ fin' = [o \in Objects |-> IF o \in {Ctx, Wrk, App} THEN "alive" ELSE fin[o]]
    /\ UNCHANGED <<core, frees, held, stack, flushing, reset, raised, closed>>
Makes(o) ==
    /\ Calm /\ stack = <<>> /\ o \in Objects /\ py[o] = "none"
    /\ \/ o = Ctx /\ ~core
       \/ o \in Mems \cup {Wrk} /\ ~core /\ Ctx \in held /\ Open(Ctx)
       \/ o \in Eps \cup Lis \cup Addrs /\ WorkerAtHand /\ Open(Wrk)
       \/ o \in Rkeys /\ ~core /\ EpOf[o] \in held /\ Open(EpOf[o])
    /\ py' = [py EXCEPT ![o] = "alive"] /\ fin' = [fin EXCEPT ![o] = "alive"]
    /\ held' = held \cup {o}
    /\ UNCHANGED <<core, frees, global, stack, flushing, reset, raised, closed>>
Drops(o) ==
    /\ Calm /\ AtUser /\ o \in held /\ held' = held \ {o}
    /\ UNCHANGED <<core, heap, global, stack, flushing, reset, raised, closed>>
AbortReturns ==
    /\ Calm /\ TopKind("abort") /\ held' = held \ {stack[Len(stack)].obj}
    /\ Cut(Len(stack) - 1)
    /\ UNCHANGED <<core, heap, global, flushing, reset, raised, closed>>
UserReturns ==
    /\ Calm /\ (TopKind("ucx") \/ TopKind("user")) /\ Cut(Len(stack) - 1)
    /\ UNCHANGED <<core, heap, held, global, flushing, reset, raised, closed>>
AbortRaises ==
    /\ Calm /\ AtUser /\ core /\ \E n \in 0..Len(stack) : Raised(n)
    /\ UNCHANGED <<core, heap, held, global, flushing, reset, raised, closed>>
Resets ==
    /\ Calm /\ stack = <<>> /\ global /\ global' = FALSE /\ Pushed([kind |-> "reset"])
    /\ UNCHANGED <<core, heap, held, flushing, reset, raised, closed>>
Exits ==
    /\ Calm /\ stack = <<>> /\ Pushed([kind |-> "exit"])
    /\ UNCHANGED <<core, heap, held, global, flushing, reset, raised, closed>>
ResetsWell ==
    /\ Calm /\ TopKind("reset") /\ Garbage = {} /\ Cut(Len(stack) - 1)
    /\ reset' = IF py[App] = "alive" THEN "raised" ELSE "ok"
    /\ UNCHANGED <<core, heap, held, global, flushing, raised, closed>>

Classes ==
    \/ \E o \in Objects : Starting(o)
    \/ \E o \in Objects : Vanishes(o)
    \/ Collects \/ Goes
    \/ \E o \in Objects : Frees(o) \/ Flushes(o) \/ Waits(o) \/ IsClosed(o) \/ CallsUcx(o)
                            \/ CallsUser(o) \/ EndsWell(o) \/ Makes(o) \/ Drops(o)
    \/ \E o \in Objects, n \in 0..Len(stack) : FailsAt(o, n)
    \/ \E r \in Rkeys : Flushed(r)
    \/ MakesApp \/ AbortReturns \/ UserReturns \/ AbortRaises
    \/ Resets \/ Exits \/ ResetsWell

\* Every step is in one of the classes.
LEMMA DieClass ==
    ASSUME Types, Die
    PROVE  stack' \in Seq(Frames) /\ Classes
<1>1. PICK o \in Doomed :
         \/ /\ Open(o) /\ py' = [py EXCEPT ![o] = "dying"] /\ Called(o)
            /\ stack' = stack \o <<DropFrame({o}), CloseFrame(o)>>
         \/ /\ ~Open(o) /\ py' = [py EXCEPT ![o] = "dead"] /\ UNCHANGED <<fin, stack>>
  BY DEF Die, DropFrame
<1>2. UNCHANGED <<core, frees, held, global, flushing, reset, raised, closed>>
  BY DEF Die
<1>3. o \in Objects /\ Loose(o) /\ stack \in Seq(Frames)
  BY DoomedAre DEF Types
<1>4. CASE Open(o) /\ Called(o) /\ py' = [py EXCEPT ![o] = "dying"]
           /\ stack' = stack \o <<DropFrame({o}), CloseFrame(o)>>
  <2>1. stack' \in Seq(Frames) /\ Pushed2(DropFrame({o}), CloseFrame(o))
    BY <1>3, <1>4, FrameMade, PushesTwo
  <2>2. DieStarts(o)
    BY <1>2, <1>3, <1>4, <2>1 DEF DieStarts, Starts
  <2> QED BY <1>3, <2>1, <2>2 DEF Classes, Starting
<1>5. CASE ~Open(o) /\ py' = [py EXCEPT ![o] = "dead"] /\ UNCHANGED <<fin, stack>>
  <2>1. Vanishes(o)
    BY <1>2, <1>3, <1>5 DEF Vanishes
  <2> QED BY <1>3, <1>5, <2>1 DEF Classes
<1> QED BY <1>1, <1>4, <1>5

LEMMA UserTurns ==
    ASSUME Types
    PROVE  UserTurn <=> AtUser
BY Tops DEF Types, UserTurn, AtUser

LEMMA StartClass ==
    ASSUME Types, Calm, RunFinalizer \/ CloseKid \/ Close \/ ExitFinalizer
    PROVE  stack' \in Seq(Frames) /\ Classes
<1>1. stack \in Seq(Frames)
  BY DEF Types
<1>2. ASSUME NEW o \in Objects, Push(CloseFrame(o))
      PROVE  stack' \in Seq(Frames) /\ Pushed(CloseFrame(o))
  BY <1>1, <1>2, FrameMade, Pushes
<1>3. ASSUME NEW o \in Objects, Starting(o) PROVE Classes
  BY <1>3 DEF Classes
<1>4. CASE RunFinalizer
  <2>1. TopKind("drop") /\ Top = stack[Len(stack)] /\ Top.objs \subseteq Objects
    BY <1>1, <1>4, Tops, FrameOf DEF RunFinalizer, TopKind
  <2>2. PICK o \in Objects : o \in Top.objs /\ Open(o) /\ Called(o) /\ Push(CloseFrame(o))
    BY <1>4, <2>1 DEF RunFinalizer
  <2>3. RunStarts(o)
    BY <1>2, <1>4, <2>1, <2>2 DEF RunFinalizer, RunStarts, StartsCalm, Starts, DropAt, TopKind
  <2> QED BY <1>2, <1>3, <2>2, <2>3 DEF Starting
<1>5. CASE CloseKid
  <2>1. TopKind("close") /\ Top = stack[Len(stack)]
    BY <1>1, <1>5, Tops DEF CloseKid, TopKind
  <2>2. PICK o \in Kids(Top.obj) : Called(o) /\ Push(CloseFrame(o))
    BY <1>5 DEF CloseKid
  <2>3. o \in Objects /\ o \notin {App, Ctx} /\ Parent(o) = Top.obj /\ Open(o)
    BY DEF Kids
  <2>4. KidStarts(o)
    BY <1>2, <1>5, <2>1, <2>2, <2>3 DEF CloseKid, KidStarts, StartsCalm, Starts, TopAt
  <2> QED BY <1>2, <1>3, <2>2, <2>3, <2>4 DEF Starting
<1>6. CASE Close
  <2>1. PICK o \in held : /\ Open(o) /\ (stack # <<>> => o \in Eps \cup Lis)
                          /\ Called(o) /\ Push(CloseFrame(o))
                          /\ closed' = (closed \/ o \in {Ctx, Wrk})
    BY <1>6 DEF Close
  <2>2. o \in Objects
    BY DEF Types
  <2>3. UserStarts(o)
    BY <1>2, <1>6, <2>1, <2>2, UserTurns DEF Close, UserStarts, StartsCalm, Starts
  <2> QED BY <1>2, <1>3, <2>1, <2>2, <2>3 DEF Starting
<1>7. CASE ExitFinalizer
  <2>1. TopKind("exit")
    BY <1>1, <1>7, Tops DEF ExitFinalizer
  <2>2. PICK o \in Objects : /\ Open(o) /\ \A k \in Younger(o) : ~Open(k)
                             /\ Called(o) /\ Push(CloseFrame(o))
    BY <1>7 DEF ExitFinalizer
  <2>3. ExitStarts(o)
    BY <1>2, <1>7, <2>1, <2>2 DEF ExitFinalizer, ExitStarts, StartsCalm, Starts
  <2> QED BY <1>2, <1>3, <2>2, <2>3 DEF Starting
<1> QED BY <1>4, <1>5, <1>6, <1>7

LEMMA AbortClass ==
    ASSUME Types, Calm, Abort
    PROVE  stack' \in Seq(Frames) /\ Classes
<1>1. stack \in Seq(Frames)
  BY DEF Types
<1>2. PICK e \in Eps \cap held :
         \/ Open(e) /\ Called(e) /\ stack' = stack \o <<AbortFrame(e), CloseFrame(e)>>
         \/ ~Open(e) /\ Raise /\ UNCHANGED fin
  BY DEF Abort, AbortFrame
<1>3. /\ UNCHANGED <<core, py, frees, held, global, flushing, reset, raised, closed>>
      /\ AtUser /\ core /\ e \in Objects
  BY UserTurns, Kinds DEF Abort
<1>4. CASE Open(e) /\ Called(e) /\ stack' = stack \o <<AbortFrame(e), CloseFrame(e)>>
  <2>1. stack' \in Seq(Frames) /\ Pushed2(AbortFrame(e), CloseFrame(e))
    BY <1>1, <1>3, <1>4, FrameMade, PushesTwo
  <2>2. AbortStarts(e)
    BY <1>3, <1>4, <2>1 DEF AbortStarts, StartsCalm, Starts
  <2> QED BY <1>3, <2>1, <2>2 DEF Classes, Starting
<1>5. CASE Raise /\ UNCHANGED fin
  <2>1. PICK n \in 0..Len(stack) : stack' \in Seq(Frames) /\ Raised(n)
    BY <1>1, <1>5, Raises
  <2>2. AbortRaises
    BY <1>3, <1>5, <2>1 DEF AbortRaises, heap
  <2> QED BY <2>1, <2>2 DEF Classes
<1> QED BY <1>2, <1>4, <1>5

\* The top of the stack when a finalizer is at work.
LEMMA TopCloses ==
    ASSUME Types, IsTop("close")
    PROVE  /\ stack \in Seq(Frames) /\ stack # <<>> /\ TopKind("close")
           /\ Top = stack[Len(stack)] /\ Top.obj \in Objects /\ Top.at \in Places4
           /\ TopClose(Top.obj)
<1>1. stack \in Seq(Frames)
  BY DEF Types
<1>2. TopKind("close") /\ Top = stack[Len(stack)] /\ Top \in Frames
  BY <1>1, Tops DEF TopKind
<1> QED BY <1>1, <1>2, FrameOf DEF TopKind, TopClose, CloseAt

LEMMA FailClass ==
    ASSUME Types, Ready(Top.obj), IsTop("close"), NEW why, Fails(why), Blames(Top.obj, why),
           \/ UNCHANGED <<frees, flushing>>
           \/ Top.obj \in Eps /\ \E S \in SUBSET KeysOf(Top.obj) : Cancelled(S)
    PROVE  stack' \in Seq(Frames) /\ Classes
<1>1. stack \in Seq(Frames) /\ Top.obj \in Objects
  BY TopCloses
<1>2. Raise /\ raised' = raised \cup {why}
  BY DEF Fails
<1>3. PICK n \in 0..Len(stack) : stack' \in Seq(Frames) /\ Raised(n)
  BY <1>1, <1>2, Raises
<1>4. FailsAt(Top.obj, n)
  BY <1>2, <1>3 DEF FailsAt
<1> QED BY <1>1, <1>3, <1>4 DEF Classes

LEMMA ReadyIs ==
    ASSUME Types, Calm, NEW S, Handle(S),
           UNCHANGED <<core, py, fin, held, global, reset, closed>>
    PROVE  /\ IsTop("close") /\ Top.obj \in S /\ Ready(Top.obj)
           /\ Pop => stack' \in Seq(Frames) /\ Cut(Len(stack) - 1)
<1>1. IsTop("close") /\ Top.obj \in S /\ Top.at = "kids" /\ Kids(Top.obj) = {}
  BY DEF Handle
<1> QED BY <1>1, TopCloses, Pops DEF Ready, Works, TopAt

LEMMA FreeClass ==
    ASSUME Types, Calm, NEW S, Handle(S), S \cap Eps = {},
           UNCHANGED <<core, py, fin, held, global, reset, closed>>,
           Free(Top.obj), Pop, UNCHANGED <<flushing, raised>>
    PROVE  stack' \in Seq(Frames) /\ Classes
<1>1. Ready(Top.obj) /\ IsTop("close") /\ Top.obj \notin Eps
  BY ReadyIs
<1>2. stack' \in Seq(Frames) /\ Cut(Len(stack) - 1)
  BY ReadyIs
<1>3. Top.obj \in Objects
  BY <1>1, TopCloses
<1>4. Frees(Top.obj)
  BY <1>1, <1>2 DEF Frees, FreesOne, Free
<1> QED BY <1>2, <1>3, <1>4 DEF Classes

LEMMA FreeAloneClass ==
    ASSUME Types, Calm, FreeContext \/ FreeListener \/ FreeAddress \/ CloseEpollFd
    PROVE  stack' \in Seq(Frames) /\ Classes
<1>1. PICK S \in {{Ctx}, Lis, Addrs, {App}} : FreeAlone(S)
  BY DEF FreeContext, FreeListener, FreeAddress, CloseEpollFd
<1>2. S \cap Eps = {}
  BY Kinds DEF Trunk
<1> QED BY <1>1, <1>2, FreeClass DEF FreeAlone

LEMMA FreeUnderClass ==
    ASSUME Types, Calm, FreeWorker \/ FreeMemory
    PROVE  stack' \in Seq(Frames) /\ Classes
<1>1. PICK S \in {{Wrk}, Mems} : FreeUnder(Ctx, S)
  BY DEF FreeWorker, FreeMemory
<1>2. S \cap Eps = {} /\ \A o \in S : o \in Mems \cup {Wrk} \cup Eps /\ Parent(o) = Ctx
  BY Kinds, ParentOf DEF Trunk
<1>3. Handle(S) /\ UNCHANGED <<core, py, fin, held, global, reset, closed, flushing>>
  BY <1>1 DEF FreeUnder
<1>4. CASE Free(Top.obj) /\ Pop /\ UNCHANGED raised
  BY <1>2, <1>3, <1>4, FreeClass
<1>5. CASE ~Open(Ctx) /\ Fails("assertion") /\ UNCHANGED frees
  <2>1. IsTop("close") /\ Top.obj \in S /\ Ready(Top.obj)
    BY <1>3, ReadyIs
  <2>2. Blames(Top.obj, "assertion")
    BY <1>2, <1>5, <2>1 DEF Blames
  <2> QED BY <1>3, <1>5, <2>1, <2>2, FailClass
<1> QED BY <1>1, <1>4, <1>5 DEF FreeUnder

LEMMA FreeRkeyClass ==
    ASSUME Types, Calm, FreeRkey
    PROVE  stack' \in Seq(Frames) /\ Classes
<1>1. Handle(Rkeys) /\ UNCHANGED <<core, py, fin, held, global, reset, closed>>
  BY DEF FreeRkey
<1>2. IsTop("close") /\ Top.obj \in Rkeys /\ Ready(Top.obj)
      /\ (Pop => stack' \in Seq(Frames) /\ Cut(Len(stack) - 1))
  BY <1>1, ReadyIs
<1>3. CASE Free(Top.obj) /\ Pop /\ UNCHANGED <<flushing, raised>>
  <2>1. Rkeys \cap Eps = {}
    BY Kinds
  <2> QED BY <1>1, <1>3, <2>1, FreeClass
<1>4. CASE flushing' = flushing \cup {Top.obj} /\ Pop /\ UNCHANGED <<frees, raised>>
  <2>1. Flushes(Top.obj)
    BY <1>2, <1>4 DEF Flushes
  <2> QED BY <1>2, <1>4, <2>1, TopCloses DEF Classes
<1>5. CASE Top.obj \in CanRefuse /\ Fails("error") /\ UNCHANGED <<frees, flushing>>
  <2>1. Blames(Top.obj, "error")
    BY <1>5 DEF Blames
  <2> QED BY <1>2, <1>5, <2>1, FailClass
<1> QED BY <1>3, <1>4, <1>5 DEF FreeRkey

LEMMA FreeEpClass ==
    ASSUME Types, Calm, FreeEp
    PROVE  stack' \in Seq(Frames) /\ Classes
<1> DEFINE e == Top.obj
<1>1. Handle(Eps) /\ UNCHANGED <<core, py, fin, held, global, reset, closed>>
  BY DEF FreeEp
<1>2. IsTop("close") /\ e \in Eps /\ Ready(e)
  BY <1>1, ReadyIs
<1>3. CASE ~Open(Wrk) /\ Fails("assertion") /\ UNCHANGED <<frees, flushing>>
  <2>1. Blames(e, "assertion")
    BY <1>2, <1>3, ParentOf DEF Blames
  <2> QED BY <1>2, <1>3, <2>1, FailClass
<1>4. CASE /\ Open(Wrk)
           /\ \E cancelled \in SUBSET (flushing \cap KeysOf(e)) :
                /\ frees' = [o \in Objects |-> frees[o] + IF o \in cancelled THEN 1 ELSE 0]
                /\ flushing' = flushing \ cancelled
           /\ \/ At("wait") /\ UNCHANGED raised
              \/ e \in CanRefuse /\ Fails("error")
  <2>1. \E S \in SUBSET KeysOf(e) : Cancelled(S)
    BY <1>4 DEF Cancelled
  <2>2. CASE At("wait") /\ UNCHANGED raised
    <3>1. stack' \in Seq(Frames) /\ Moved("wait")
      BY <1>2, <2>2, TopCloses, Moves DEF Places4
    <3>2. Waits(e)
      BY <1>2, <2>1, <2>2, <3>1 DEF Waits
    <3> QED BY <1>2, <3>1, <3>2, TopCloses DEF Classes
  <2>3. CASE e \in CanRefuse /\ Fails("error")
    <3>1. Blames(e, "error")
      BY <2>3 DEF Blames
    <3> QED BY <1>2, <2>1, <2>3, <3>1, FailClass
  <2> QED BY <1>4, <2>2, <2>3
<1> QED BY <1>3, <1>4 DEF FreeEp

LEMMA FlushDoneClass ==
    ASSUME Types, Calm, FlushDone
    PROVE  stack' \in Seq(Frames) /\ Classes
<1>1. PICK r \in flushing : Free(r) /\ flushing' = flushing \ {r}
  BY DEF FlushDone
<1>2. r \in Rkeys /\ r \in Objects /\ frees \in [Objects -> Nat] /\ stack \in Seq(Frames)
  BY Kinds DEF Types
<1>3. frees' = [x \in Objects |-> frees[x] + IF x \in {r} THEN 1 ELSE 0]
  <2>1. \A x \in Objects : frees[x] \in Nat
    BY <1>2
  <2>2. frees' = [frees EXCEPT ![r] = @ + 1]
    BY <1>1 DEF Free
  <2>3. frees' = [x \in Objects |-> IF x = r THEN frees[x] + 1 ELSE frees[x]]
    BY <1>2, <2>2
  <2>4. \A x \in Objects : (IF x = r THEN frees[x] + 1 ELSE frees[x])
                              = frees[x] + IF x \in {r} THEN 1 ELSE 0
    BY <2>1
  <2> QED BY <2>3, <2>4
<1>4. stack = <<>> \/ (TopKind("close") /\ TopAt("wait"))
  <2>1. stack # <<>> => Top = stack[Len(stack)] /\ (IsTop("close") <=> TopKind("close"))
    BY <1>2, Tops
  <2> QED BY <2>1 DEF FlushDone, TopAt
<1>5. Flushed(r)
  BY <1>1, <1>3, <1>4 DEF Flushed, Cancelled, FlushDone
<1> QED BY <1>2, <1>5 DEF Classes, FlushDone

LEMMA EpClosedClass ==
    ASSUME Types, Calm, EpClosed
    PROVE  stack' \in Seq(Frames) /\ Classes
<1>1. IsTop("close") /\ At("callback") /\ Top.at = "wait"
  BY DEF EpClosed
<1>2. stack' \in Seq(Frames) /\ Moved("callback") /\ Works(Top.obj) /\ TopAt("wait")
  BY <1>1, TopCloses, Moves DEF Places4, EpClosed, Works, TopAt
<1>3. IsClosed(Top.obj)
  BY <1>2 DEF IsClosed, EpClosed, FreesOne, Free
<1> QED BY <1>1, <1>2, <1>3, TopCloses DEF Classes

LEMMA CallbackClass ==
    ASSUME Types, Calm, Callback
    PROVE  stack' \in Seq(Frames) /\ Classes
<1>1. IsTop("close") /\ UNCHANGED <<core, heap, held, global, flushing, reset, raised, closed>>
  BY DEF Callback
<1>2. /\ stack \in Seq(Frames) /\ stack # <<>> /\ TopKind("close") /\ TopClose(Top.obj)
      /\ Top = stack[Len(stack)] /\ Top.obj \in Objects /\ Len(stack) \in Nat \ {0}
  BY <1>1, TopCloses
<1>3. Works(Top.obj) /\ UNCHANGED <<frees, flushing, raised>>
  BY <1>1, <1>2 DEF Works, heap
<1>4. CASE Top.at = "wait" /\ Push([kind |-> "ucx"])
  <2>1. stack' \in Seq(Frames) /\ Pushed([kind |-> "ucx"])
    BY <1>2, <1>4, FrameMade, Pushes
  <2>2. CallsUcx(Top.obj)
    BY <1>2, <1>3, <1>4, <2>1 DEF CallsUcx, TopAt
  <2> QED BY <1>2, <2>1, <2>2 DEF Classes
<1>5. CASE /\ Top.at = "callback"
           /\ stack' = Append(Append(Below, [Top EXCEPT !.at = "done"]), [kind |-> "user"])
  <2> DEFINE g == Moving(stack[Len(stack)], "done")
             h == [kind |-> "user"]
             front == SubSeq(stack, 1, Len(stack) - 1)
  <2>1. g \in Frames /\ h \in Frames
    BY <1>2, FrameMoved, FrameMade, Tops DEF TopKind, Places4
  <2>2. stack' = Append(Append(front, g), h)
    BY <1>2, <1>5 DEF Below, Front, Moving
  <2>3. Len(stack) - 1 \in 0..Len(stack)
    BY <1>2
  <2>4. /\ front \in Seq(Frames) /\ Len(front) = Len(stack) - 1
        /\ \A i \in 1..(Len(stack) - 1) : front[i] = stack[i]
    BY <1>2, <2>3, FirstFrames
  <2> HIDE DEF g, h, front
  <2>5. /\ Append(front, g) \in Seq(Frames) /\ Len(Append(front, g)) = Len(stack)
        /\ Append(front, g)[Len(stack)] = g
        /\ \A i \in 1..(Len(stack) - 1) : Append(front, g)[i] = stack[i]
    BY <1>2, <2>1, <2>4
  <2> DEFINE mid == Append(front, g)
  <2> HIDE DEF mid
  <2>6. /\ mid \in Seq(Frames) /\ Len(mid) = Len(stack) /\ mid[Len(stack)] = g
        /\ \A i \in 1..(Len(stack) - 1) : mid[i] = stack[i]
        /\ stack' = Append(mid, h)
    BY <2>2, <2>5 DEF mid
  <2>7. /\ stack' \in Seq(Frames) /\ Len(stack') = Len(stack) + 1
        /\ stack'[Len(stack) + 1] = h /\ stack'[Len(stack)] = g
    BY <1>2, <2>1, <2>6
  <2>8. \A i \in 1..(Len(stack) - 1) : stack'[i] = stack[i]
    BY <1>2, <2>1, <2>6
  <2>9. Upto(Len(stack) - 1)
    BY <1>2, <2>7, <2>8 DEF Upto
  <2>10. CallsUser(Top.obj)
    BY <1>2, <1>3, <1>5, <2>7, <2>9 DEF CallsUser, TopAt, g, h
  <2> QED BY <1>2, <2>7, <2>10 DEF Classes
<1> QED BY <1>4, <1>5 DEF Callback

LEMMA ReturnClass ==
    ASSUME Types, Calm, Return
    PROVE  stack' \in Seq(Frames) /\ Classes
<1>1. stack \in Seq(Frames) /\ stack # <<>>
      /\ UNCHANGED <<core, heap, global, flushing, reset, raised, closed>>
  BY DEF Types, Return
<1>2. stack' \in Seq(Frames) /\ Cut(Len(stack) - 1)
  BY <1>1, Pops DEF Return
<1>3. CASE IsTop("close") /\ Top.at \in {"callback", "done"} /\ UNCHANGED held
  <2>1. EndsWell(Top.obj)
    BY <1>1, <1>2, <1>3, TopCloses DEF EndsWell, Works, heap
  <2> QED BY <1>2, <1>3, <2>1, TopCloses DEF Classes
<1>4. CASE IsTop("abort") /\ held' = held \ {Top.obj}
  <2>1. AbortReturns
    BY <1>1, <1>2, <1>4, Tops DEF AbortReturns
  <2> QED BY <1>2, <2>1 DEF Classes
<1>5. CASE Top.kind \in {"ucx", "user"} /\ UNCHANGED held
  <2>1. UserReturns
    BY <1>1, <1>2, <1>5, Tops DEF UserReturns
  <2> QED BY <1>2, <2>1 DEF Classes
<1> QED BY <1>3, <1>4, <1>5 DEF Return

LEMMA GoneClass ==
    ASSUME Types, Calm, Gone \/ Collect \/ ResetReturns
    PROVE  stack' \in Seq(Frames) /\ Classes
<1>1. stack \in Seq(Frames)
  BY DEF Types
<1>2. CASE Gone
  <2>1. TopKind("drop") /\ Top = stack[Len(stack)] /\ stack # <<>>
    BY <1>1, <1>2, Tops DEF Gone, TopKind
  <2>2. stack' \in Seq(Frames) /\ Cut(Len(stack) - 1)
    BY <1>1, <1>2, <2>1, Pops DEF Gone
  <2>3. Goes
    BY <1>2, <2>1, <2>2 DEF Gone, Goes
  <2> QED BY <2>2, <2>3 DEF Classes
<1>3. CASE Collect
  <2>1. Garbage \in SUBSET Objects /\ Push(DropFrame(Garbage))
    BY <1>3 DEF Collect, Garbage, DropFrame
  <2>2. stack' \in Seq(Frames) /\ Pushed(DropFrame(Garbage))
    BY <1>1, <2>1, FrameMade, Pushes
  <2>3. AtUser \/ TopKind("reset")
    <3>1. stack # <<>> => Top = stack[Len(stack)]
      BY <1>1, Tops
    <3> QED BY <1>3, <3>1 DEF Collect, AtUser, TopKind
  <2>4. Collects
    BY <1>3, <2>2, <2>3 DEF Collect, Collects
  <2> QED BY <2>2, <2>4 DEF Classes
<1>4. CASE ResetReturns
  <2>1. TopKind("reset") /\ stack # <<>>
    BY <1>1, <1>4, Tops DEF ResetReturns, TopKind
  <2>2. stack' \in Seq(Frames) /\ Cut(Len(stack) - 1)
    BY <1>1, <1>4, <2>1, Pops DEF ResetReturns
  <2>3. ResetsWell
    BY <1>4, <2>1, <2>2 DEF ResetReturns, ResetsWell
  <2> QED BY <2>2, <2>3 DEF Classes
<1> QED BY <1>2, <1>3, <1>4

LEMMA MakeClass ==
    ASSUME Types, Calm,
           \/ MakeApp \/ MakeContext \/ MakeWorker \/ MakeMemory
           \/ MakeEndpoint \/ MakeListener \/ MakeAddress \/ MakeRkey
    PROVE  stack' \in Seq(Frames) /\ Classes
<1>1. /\ stack \in Seq(Frames) /\ py \in [Objects -> {"none", "alive", "dying", "dead"}]
      /\ fin \in [Objects -> {"unset", "alive", "called"}]
  BY DEF Types
<1>2. CASE MakeApp
  <2>1. MakesApp
    BY <1>2 DEF MakeApp, MakesApp, Make, UserTop
  <2> QED BY <1>1, <1>2, <2>1 DEF Classes, MakeApp
<1>3. ASSUME NEW o \in Objects, MakeHeld(o),
             \/ o = Ctx /\ ~core
             \/ o \in Mems \cup {Wrk} /\ ~core /\ Ctx \in held /\ Open(Ctx)
             \/ o \in Eps \cup Lis \cup Addrs /\ WorkerAtHand /\ Open(Wrk)
             \/ o \in Rkeys /\ ~core /\ EpOf[o] \in held /\ Open(EpOf[o])
      PROVE  stack' \in Seq(Frames) /\ Classes
  <2>1. /\ py' = [x \in Objects |-> IF x \in {o} THEN "alive" ELSE py[x]]
        /\ fin' = [x \in Objects |-> IF x \in {o} THEN "alive" ELSE fin[x]]
        /\ py[o] = "none"
    BY <1>3 DEF MakeHeld, Make
  <2>2. py' = [py EXCEPT ![o] = "alive"]
    BY <1>1, <2>1
  <2>3. fin' = [fin EXCEPT ![o] = "alive"]
    BY <1>1, <2>1
  <2>4. Makes(o)
    BY <1>3, <2>1, <2>2, <2>3 DEF MakeHeld, Makes, UserTop
  <2> QED BY <1>1, <1>3, <2>4 DEF Classes, MakeHeld
<1>4. CASE MakeContext
  BY <1>3, <1>4, Kinds DEF MakeContext
<1>5. CASE MakeWorker
  BY <1>3, <1>5, Kinds DEF MakeWorker
<1>6. CASE MakeMemory
  BY <1>3, <1>6, Kinds DEF MakeMemory
<1>7. CASE MakeEndpoint
  BY <1>3, <1>7, Kinds DEF MakeEndpoint
<1>8. CASE MakeListener
  BY <1>3, <1>8, Kinds DEF MakeListener
<1>9. CASE MakeAddress
  BY <1>3, <1>9, Kinds DEF MakeAddress
<1>10. CASE MakeRkey
  BY <1>3, <1>10, Kinds DEF MakeRkey
<1> QED BY <1>2, <1>4, <1>5, <1>6, <1>7, <1>8, <1>9, <1>10

LEMMA UserClass ==
    ASSUME Types, Calm, Drop \/ Reset \/ Exit
    PROVE  stack' \in Seq(Frames) /\ Classes
<1>1. stack \in Seq(Frames)
  BY DEF Types
<1>2. CASE Drop
  <2>1. PICK o \in held : held' = held \ {o}
    BY <1>2 DEF Drop
  <2>2. o \in Objects /\ AtUser
    BY <1>2, UserTurns DEF Types, Drop
  <2>3. Drops(o)
    BY <1>2, <2>1, <2>2 DEF Drop, Drops
  <2> QED BY <1>1, <1>2, <2>2, <2>3 DEF Classes, Drop
<1>3. ASSUME NEW k \in {"reset", "exit"}, Push([kind |-> k])
      PROVE  stack' \in Seq(Frames) /\ Pushed([kind |-> k])
  BY <1>1, <1>3, FrameMade, Pushes
<1>4. CASE Reset
  <2>1. Resets
    BY <1>3, <1>4 DEF Reset, Resets, UserTop
  <2> QED BY <1>3, <1>4, <2>1 DEF Classes, Reset
<1>5. CASE Exit
  <2>1. Exits
    BY <1>3, <1>5 DEF Exit, Exits, UserTop
  <2> QED BY <1>3, <1>5, <2>1 DEF Classes, Exit
<1> QED BY <1>2, <1>4, <1>5

LEMMA NextClasses ==
    ASSUME Types, Next
    PROVE  stack' \in Seq(Frames) /\ Classes
<1>1. CASE Die
  BY <1>1, DieClass
<1>2. ASSUME Doomed = {}, FinalizerStep
      PROVE  stack' \in Seq(Frames) /\ Classes
  <2>1. Calm
    BY <1>2, CalmIs
  <2> QED BY <1>2, <2>1, StartClass, GoneClass, FreeAloneClass, FreeUnderClass, FreeRkeyClass,
             FreeEpClass, FlushDoneClass, EpClosedClass, CallbackClass, ReturnClass
          DEF FinalizerStep
<1>3. ASSUME Doomed = {}, UserStep
      PROVE  stack' \in Seq(Frames) /\ Classes
  <2>1. Calm
    BY <1>3, CalmIs
  <2> QED BY <1>3, <2>1, StartClass, AbortClass, MakeClass, UserClass DEF UserStep
<1>4. ASSUME Doomed = {}, Collect
      PROVE  stack' \in Seq(Frames) /\ Classes
  BY <1>4, CalmIs, GoneClass
<1> QED BY <1>1, <1>2, <1>3, <1>4 DEF Next

-----------------------------------------------------------------------------
(* Types, and the frames that stay                                          *)

LEMMA CancelledTypes ==
    ASSUME Types, NEW S, Cancelled(S)
    PROVE  frees' \in [Objects -> Nat] /\ flushing' \subseteq Rkeys
<1>1. \A x \in Objects : frees[x] + (IF x \in S THEN 1 ELSE 0) \in Nat
  BY DEF Types
<1> QED BY <1>1 DEF Cancelled, Types

LEMMA TypesNext ==
    ASSUME Types, Next
    PROVE  Types'
<1>1. stack' \in Seq(Frames) /\ Classes
  BY NextClasses
<1> DEFINE Data ==
      /\ core \in BOOLEAN
      /\ py \in [Objects -> {"none", "alive", "dying", "dead"}]
      /\ fin \in [Objects -> {"unset", "alive", "called"}]
      /\ frees \in [Objects -> Nat]
      /\ held \subseteq Objects
      /\ global \in BOOLEAN
      /\ flushing \subseteq Rkeys
      /\ reset \in {"none", "ok", "raised"}
      /\ raised \subseteq {"assertion", "error"}
      /\ closed \in BOOLEAN
<1>2. Data /\ Rkeys \subseteq Objects
  BY Kinds DEF Types
<1>3. SUFFICES Data'
  BY <1>1 DEF Types
<1>4. ASSUME NEW o \in Objects, Starting(o) PROVE Data'
  <2>1. fin' \in [Objects -> {"unset", "alive", "called"}]
    BY <1>2, <1>4 DEF Starting, DieStarts, RunStarts, KidStarts, UserStarts, AbortStarts,
                      ExitStarts, StartsCalm, Starts, Called
  <2>2. py' \in [Objects -> {"none", "alive", "dying", "dead"}]
    BY <1>2, <1>4 DEF Starting, DieStarts, RunStarts, KidStarts, UserStarts, AbortStarts,
                      ExitStarts, StartsCalm
  <2>3. closed' \in BOOLEAN
    BY <1>2, <1>4 DEF Starting, DieStarts, RunStarts, KidStarts, UserStarts, AbortStarts,
                      ExitStarts
  <2>4. UNCHANGED <<core, frees, held, global, flushing, reset, raised>>
    BY <1>4 DEF Starting, DieStarts, RunStarts, KidStarts, UserStarts, AbortStarts,
                ExitStarts, StartsCalm, Starts
  <2> QED BY <1>2, <2>1, <2>2, <2>3, <2>4
<1>5. ASSUME NEW o \in Objects, Vanishes(o) PROVE Data'
  BY <1>2, <1>5 DEF Vanishes
<1>6. CASE Collects \/ Goes
  <2>1. py' \in [Objects -> {"none", "alive", "dying", "dead"}]
    BY <1>2, <1>6 DEF Collects, Goes
  <2> QED BY <1>2, <1>6, <2>1 DEF Collects, Goes
<1>7. ASSUME NEW o \in Objects, Frees(o) \/ IsClosed(o) PROVE Data'
  <2>1. frees' \in [Objects -> Nat]
    BY <1>2, <1>7 DEF Frees, IsClosed, FreesOne
  <2> QED BY <1>2, <1>7, <2>1 DEF Frees, IsClosed, Ready, Works
<1>8. ASSUME NEW o \in Objects, Flushes(o) \/ CallsUcx(o) \/ CallsUser(o) \/ EndsWell(o)
      PROVE  Data'
  BY <1>2, <1>8 DEF Flushes, CallsUcx, CallsUser, EndsWell, Ready, Works
<1>9. ASSUME NEW o \in Objects, Waits(o) PROVE Data'
  BY <1>2, <1>9, CancelledTypes DEF Waits, Ready, Works
<1>10. ASSUME NEW o \in Objects, NEW n \in 0..Len(stack), FailsAt(o, n) PROVE Data'
  <2>1. raised' \subseteq {"assertion", "error"}
    BY <1>2, <1>10 DEF FailsAt, Blames
  <2>2. frees' \in [Objects -> Nat] /\ flushing' \subseteq Rkeys
    BY <1>2, <1>10, CancelledTypes DEF FailsAt
  <2> QED BY <1>2, <1>10, <2>1, <2>2 DEF FailsAt, Ready, Works
<1>11. ASSUME NEW r \in Rkeys, Flushed(r) PROVE Data'
  BY <1>2, <1>11, CancelledTypes DEF Flushed
<1>12. ASSUME NEW o \in Objects, Makes(o) PROVE Data'
  BY <1>2, <1>12 DEF Makes
<1>13. ASSUME NEW o \in Objects, Drops(o) PROVE Data'
  BY <1>2, <1>13 DEF Drops, heap
<1>14. CASE MakesApp
  <2>1. py' \in [Objects -> {"none", "alive", "dying", "dead"}]
    BY <1>2, <1>14 DEF MakesApp
  <2>2. fin' \in [Objects -> {"unset", "alive", "called"}]
    BY <1>2, <1>14 DEF MakesApp
  <2> QED BY <1>2, <1>14, <2>1, <2>2 DEF MakesApp
<1>15. CASE AbortReturns \/ UserReturns \/ AbortRaises
  BY <1>2, <1>15 DEF AbortReturns, UserReturns, AbortRaises, heap
<1>16. CASE Resets \/ Exits \/ ResetsWell
  BY <1>2, <1>16 DEF Resets, Exits, ResetsWell, heap
<1> HIDE DEF Data
<1> QED BY <1>1, <1>4, <1>5, <1>6, <1>7, <1>8, <1>9, <1>10, <1>11, <1>12, <1>13, <1>14, <1>15,
           <1>16 DEF Classes

\* No finalizer is called: those at work are as before, in the same place.
Keeps ==
    \A i \in 1..Len(stack'), o \in Objects : CloseAt(i, o)' =>
      i \in 1..Len(stack) /\ CloseAt(i, o)
KeepsAt ==
    \A i \in 1..Len(stack') : stack'[i].kind = "close" => stack'[i].at = stack[i].at
\* All that are at work stay so.
KeepsAll == \A o \in Objects : Closing(o) => Closing(o)'

LEMMA PushedKeeps ==
    ASSUME Types, NEW f, f.kind # "close", Pushed(f)
    PROVE  Keeps /\ KeepsAt /\ KeepsAll
<1>1. Len(stack) \in Nat
  BY DEF Types
<1>2. ASSUME NEW i \in 1..Len(stack'), stack'[i].kind = "close"
      PROVE  i \in 1..Len(stack) /\ stack'[i] = stack[i]
  BY <1>1, <1>2 DEF Pushed, Upto
<1>3. Keeps /\ KeepsAt
  BY <1>2 DEF Keeps, KeepsAt, CloseAt
<1>4. KeepsAll
  BY <1>1 DEF Pushed, Upto, KeepsAll, Closing, CloseAt
<1> QED BY <1>3, <1>4

LEMMA CutKeeps ==
    ASSUME Types, NEW n, Cut(n)
    PROVE  Keeps /\ KeepsAt
BY DEF Types, Cut, Upto, Keeps, KeepsAt, CloseAt

\* What has been cut off.
LEMMA CutLoses ==
    ASSUME Types, NEW n, Cut(n), NEW o, Closing(o), ~Closing(o)'
    PROVE  \E i \in 1..Len(stack) : i > n /\ CloseAt(i, o)
<1>1. Len(stack) \in Nat /\ n \in 0..Len(stack)
  BY DEF Types, Cut, Upto
<1>2. PICK i \in 1..Len(stack) : CloseAt(i, o)
  BY DEF Closing
<1>3. i > n
  <2> SUFFICES ASSUME i <= n PROVE FALSE
    BY <1>1
  <2>1. i \in 1..Len(stack') /\ stack'[i] = stack[i]
    BY <1>1 DEF Cut, Upto
  <2> QED BY <1>2, <2>1 DEF Closing, CloseAt
<1> QED BY <1>2, <1>3

LEMMA SameKeeps ==
    ASSUME Types, stack' = stack
    PROVE  Keeps /\ KeepsAt /\ KeepsAll
BY DEF Keeps, KeepsAt, KeepsAll, CloseAt, Closing

LEMMA MovedKeeps ==
    ASSUME Types, TopKind("close"), NEW place \in Places4, Moved(place)
    PROVE  /\ Keeps /\ KeepsAll /\ stack'[Len(stack)].at = place
           /\ \A i \in 1..(Len(stack) - 1) : stack'[i] = stack[i]
<1>1. Len(stack) \in Nat \ {0} /\ stack[Len(stack)] \in Frames
      /\ stack[Len(stack)].kind = "close"
  BY Tops DEF Types, TopKind
<1>2. /\ stack'[Len(stack)].kind = "close" /\ stack'[Len(stack)].obj = stack[Len(stack)].obj
      /\ stack'[Len(stack)].at = place
  BY <1>1, FrameMoved DEF Moved
<1>3. /\ Len(stack') = Len(stack)
      /\ \A i \in 1..(Len(stack) - 1) : stack'[i] = stack[i]
  BY DEF Moved, Upto
<1>4. ASSUME NEW i \in 1..Len(stack), NEW o PROVE CloseAt(i, o)' <=> CloseAt(i, o)
  <2>1. CASE i = Len(stack)
    BY <2>1, <1>1, <1>2 DEF CloseAt
  <2>2. CASE i # Len(stack)
    BY <2>2, <1>1, <1>3 DEF CloseAt
  <2> QED BY <2>1, <2>2
<1> QED BY <1>2, <1>3, <1>4 DEF Keeps, KeepsAll, Closing

LEMMA CallsUserKeeps ==
    ASSUME Types, NEW o \in Objects, CallsUser(o)
    PROVE  /\ Keeps /\ KeepsAll /\ stack'[Len(stack)].at = "done"
           /\ \A i \in 1..(Len(stack) - 1) : stack'[i] = stack[i]
<1>1. Len(stack) \in Nat \ {0} /\ stack[Len(stack)] \in Frames
      /\ stack[Len(stack)].kind = "close"
  BY Tops DEF Types, CallsUser, Works, TopClose, CloseAt
<1>2. /\ stack'[Len(stack)].kind = "close" /\ stack'[Len(stack)].obj = stack[Len(stack)].obj
      /\ stack'[Len(stack)].at = "done"
  BY <1>1, FrameMoved DEF CallsUser, Places4
<1>3. /\ Len(stack') = Len(stack) + 1 /\ stack'[Len(stack) + 1].kind # "close"
      /\ \A i \in 1..(Len(stack) - 1) : stack'[i] = stack[i]
  BY DEF CallsUser, Upto
<1>4. ASSUME NEW i \in 1..Len(stack), NEW x PROVE CloseAt(i, x)' <=> CloseAt(i, x)
  <2>1. CASE i = Len(stack)
    BY <2>1, <1>1, <1>2 DEF CloseAt
  <2>2. CASE i # Len(stack)
    BY <2>2, <1>1, <1>3 DEF CloseAt
  <2> QED BY <2>1, <2>2
<1>5. ASSUME NEW i \in 1..Len(stack'), NEW x, CloseAt(i, x)' PROVE i \in 1..Len(stack)
  BY <1>1, <1>3, <1>5 DEF CloseAt
<1>6. Keeps
  BY <1>4, <1>5 DEF Keeps
<1>7. \A i \in 1..Len(stack) : i \in 1..Len(stack')
  BY <1>1, <1>3
<1>8. KeepsAll
  BY <1>4, <1>7 DEF KeepsAll, Closing
<1> QED BY <1>2, <1>3, <1>6, <1>8

\* A finalizer is called.
LEMMA StartingFrames ==
    ASSUME Types, NEW o \in Objects, Starting(o)
    PROVE  /\ Len(stack') \in Nat /\ Len(stack') > Len(stack)
           /\ stack'[Len(stack')] = CloseFrame(o)
           /\ \A i \in 1..Len(stack) : stack'[i] = stack[i]
           /\ \A i \in 1..Len(stack') :
                i \notin 1..Len(stack) => i = Len(stack') \/ stack'[i].kind \in {"drop", "abort"}
<1>1. Len(stack) \in Nat
  BY DEF Types
<1>2. CASE Pushed(CloseFrame(o))
  <2>1. Len(stack') = Len(stack) + 1 /\ stack'[Len(stack) + 1] = CloseFrame(o)
        /\ \A i \in 1..Len(stack) : stack'[i] = stack[i]
    BY <1>2 DEF Pushed, Upto
  <2> HIDE DEF CloseFrame
  <2>2. Len(stack') \in Nat /\ Len(stack') > Len(stack) /\ stack'[Len(stack')] = CloseFrame(o)
    BY <1>1, <2>1
  <2>3. \A i \in 1..Len(stack') : i \notin 1..Len(stack) => i = Len(stack')
    BY <1>1, <2>1
  <2> QED BY <2>1, <2>2, <2>3
<1>3. ASSUME NEW f, f.kind \in {"drop", "abort"}, Pushed2(f, CloseFrame(o))
      PROVE  /\ Len(stack') \in Nat /\ Len(stack') > Len(stack)
             /\ stack'[Len(stack')] = CloseFrame(o)
             /\ \A i \in 1..Len(stack) : stack'[i] = stack[i]
             /\ \A i \in 1..Len(stack') :
                  i \notin 1..Len(stack) => i = Len(stack') \/ stack'[i].kind \in {"drop", "abort"}
  <2>1. Len(stack') = Len(stack) + 2 /\ stack'[Len(stack) + 2] = CloseFrame(o)
        /\ stack'[Len(stack) + 1] = f /\ \A i \in 1..Len(stack) : stack'[i] = stack[i]
    BY <1>3 DEF Pushed2, Upto
  <2>2. ASSUME NEW i \in 1..Len(stack'), i \notin 1..Len(stack)
        PROVE  i = Len(stack') \/ stack'[i] = f
    BY <1>1, <2>1, <2>2
  <2>3. Len(stack') \in Nat /\ Len(stack') > Len(stack) /\ stack'[Len(stack')] = CloseFrame(o)
    BY <1>1, <2>1
  <2> QED BY <1>3, <2>1, <2>2, <2>3
<1>4. DropFrame({o}).kind = "drop" /\ AbortFrame(o).kind = "abort"
  BY DEF DropFrame, AbortFrame
<1>5. \/ Pushed(CloseFrame(o)) \/ Pushed2(DropFrame({o}), CloseFrame(o))
      \/ Pushed2(AbortFrame(o), CloseFrame(o))
  BY DEF Starting, DieStarts, RunStarts, KidStarts, UserStarts, AbortStarts, ExitStarts
<1> QED BY <1>2, <1>3, <1>4, <1>5

LEMMA StartingCloses ==
    ASSUME Types, NEW o \in Objects, Starting(o)
    PROVE  /\ \A i \in 1..Len(stack'), x \in Objects : CloseAt(i, x)' =>
                (i \in 1..Len(stack) /\ CloseAt(i, x)) \/ (i = Len(stack') /\ x = o)
           /\ \A x \in Objects : Closing(x)' <=> Closing(x) \/ x = o
<1>1. Len(stack) \in Nat /\ Len(stack') \in Nat /\ Len(stack') > Len(stack)
  BY StartingFrames DEF Types
<1>2. /\ stack'[Len(stack')].kind = "close" /\ stack'[Len(stack')].obj = o
  BY StartingFrames, FrameMade
<1>3. ASSUME NEW i \in 1..Len(stack'), NEW x \in Objects, CloseAt(i, x)'
      PROVE  (i \in 1..Len(stack) /\ CloseAt(i, x)) \/ (i = Len(stack') /\ x = o)
  <2>1. CASE i \in 1..Len(stack)
    BY <2>1, <1>3, StartingFrames DEF CloseAt
  <2>2. CASE i \notin 1..Len(stack)
    <3>1. i = Len(stack')
      BY <2>2, <1>3, StartingFrames DEF CloseAt
    <3> QED BY <3>1, <1>2, <1>3 DEF CloseAt
  <2> QED BY <2>1, <2>2
<1>4. ASSUME NEW x \in Objects, Closing(x) PROVE Closing(x)'
  <2>1. PICK i \in 1..Len(stack) : CloseAt(i, x)
    BY <1>4 DEF Closing
  <2>2. i \in 1..Len(stack') /\ stack'[i] = stack[i]
    BY <1>1, StartingFrames
  <2> QED BY <2>1, <2>2 DEF Closing, CloseAt
<1>5. Closing(o)'
  <2>1. Len(stack') \in 1..Len(stack')
    BY <1>1
  <2> QED BY <1>2, <2>1 DEF Closing, CloseAt
<1>6. ASSUME NEW x \in Objects, Closing(x)' PROVE Closing(x) \/ x = o
  <2>1. PICK i \in 1..Len(stack') : CloseAt(i, x)'
    BY <1>6 DEF Closing
  <2> QED BY <1>3, <2>1 DEF Closing
<1> QED BY <1>3, <1>4, <1>5, <1>6

-----------------------------------------------------------------------------
(* A handle is freed once                                                   *)

\* The clause of Places for one frame.
PlaceOK(i, o) ==
    /\ o \notin flushing
    /\ stack[i].at \in {"kids", "wait"} => frees[o] = 0
    /\ stack[i].at \in {"callback", "done"} => frees[o] = 1
    /\ stack[i].at # "kids" => o \in Eps

LEMMA OnceStart ==
    ASSUME Types, Once, NEW o \in Objects, Starting(o)
    PROVE  Once'
<1>1. /\ Open(o) /\ fin' = [fin EXCEPT ![o] = "called"] /\ UNCHANGED <<frees, flushing>>
  BY DEF Starting, DieStarts, RunStarts, KidStarts, UserStarts, AbortStarts, ExitStarts,
         StartsCalm, Starts, Called
<1>2. /\ fin'[o] = "called" /\ \A x \in Objects : x # o => fin'[x] = fin[x]
  BY <1>1 DEF Types
<1>3. frees[o] = 0 /\ o \notin flushing /\ ~Closing(o)
  BY <1>1 DEF Once, Uncalled, Open
<1>4. Uncalled'
  <2> SUFFICES ASSUME NEW x \in Objects, fin'[x] # "called"
               PROVE  frees[x] = 0 /\ x \notin flushing /\ ~Closing(x)'
    BY <1>1 DEF Uncalled
  <2>1. x # o /\ fin[x] # "called"
    BY <1>2
  <2> QED BY <2>1, StartingCloses DEF Once, Uncalled
<1>5. Distinct'
  <2> SUFFICES ASSUME NEW i \in 1..Len(stack'), NEW j \in 1..Len(stack'), NEW x \in Objects,
                      CloseAt(i, x)', CloseAt(j, x)'
               PROVE  i = j
    BY DEF Distinct
  <2>1. (i \in 1..Len(stack) /\ CloseAt(i, x)) \/ (i = Len(stack') /\ x = o)
    BY StartingCloses
  <2>2. (j \in 1..Len(stack) /\ CloseAt(j, x)) \/ (j = Len(stack') /\ x = o)
    BY StartingCloses
  <2>3. \A k \in 1..Len(stack) : ~CloseAt(k, o)
    BY <1>3 DEF Closing
  <2> QED BY <2>1, <2>2, <2>3 DEF Once, Distinct
<1>6. Places'
  <2> SUFFICES ASSUME NEW i \in 1..Len(stack'), NEW x \in Objects, CloseAt(i, x)'
               PROVE  PlaceOK(i, x)'
    BY DEF Places, PlaceOK
  <2>1. CASE i \in 1..Len(stack) /\ CloseAt(i, x)
    <3>1. stack'[i] = stack[i]
      BY <2>1, StartingFrames
    <3>2. PlaceOK(i, x)
      BY <2>1 DEF Once, Places, PlaceOK
    <3> QED BY <1>1, <3>1, <3>2 DEF PlaceOK
  <2>2. CASE i = Len(stack') /\ x = o
    <3>1. stack'[i].at = "kids"
      BY <2>2, StartingFrames, FrameMade
    <3> QED BY <1>1, <1>3, <2>2, <3>1 DEF PlaceOK
  <2> QED BY <2>1, <2>2, StartingCloses
<1> QED BY <1>1, <1>4, <1>5, <1>6 DEF Once, Freed

\* Of the steps that call no finalizer, what there is to show.
LEMMA OnceKept ==
    ASSUME Types, Once, Keeps,
           \A x \in Objects : fin[x] # "called" \/ fin'[x] = "called",
           \A x \in Objects : frees'[x] \in {0, 1} /\ (x \in flushing' => frees'[x] = 0),
           \A x \in Objects : fin[x] # "called" => frees'[x] = 0 /\ x \notin flushing',
           \A i \in 1..Len(stack'), x \in Objects : CloseAt(i, x)' => PlaceOK(i, x)'
    PROVE  Once'
<1>1. Uncalled'
  <2> SUFFICES ASSUME NEW x \in Objects, fin'[x] # "called"
               PROVE  frees'[x] = 0 /\ x \notin flushing' /\ ~Closing(x)'
    BY DEF Uncalled
  <2>1. fin[x] # "called"
    OBVIOUS
  <2>2. ~Closing(x)'
    BY <2>1 DEF Once, Uncalled, Keeps, Closing
  <2> QED BY <2>1, <2>2
<1>2. Distinct'
  BY DEF Once, Distinct, Keeps
<1>3. Places'
  BY DEF Places, PlaceOK
<1> QED BY <1>1, <1>2, <1>3 DEF Once, Freed

\* Nothing is freed.
LEMMA OnceSame ==
    ASSUME Types, Once, Keeps, KeepsAt, UNCHANGED <<frees, flushing>>,
           \A x \in Objects : fin[x] # "called" \/ fin'[x] = "called"
    PROVE  Once'
<1>1. ASSUME NEW i \in 1..Len(stack'), NEW x \in Objects, CloseAt(i, x)'
      PROVE  PlaceOK(i, x)'
  <2>1. i \in 1..Len(stack) /\ CloseAt(i, x) /\ stack'[i].at = stack[i].at
    BY <1>1 DEF Keeps, KeepsAt, CloseAt
  <2> QED BY <2>1 DEF Once, Places, PlaceOK
<1> QED BY <1>1, OnceKept DEF Once, Uncalled, Freed

\* The finalizer at the top of the stack.
LEMMA TopPlace ==
    ASSUME Types, Once, NEW o \in Objects, Works(o)
    PROVE  /\ Len(stack) \in 1..Len(stack) /\ CloseAt(Len(stack), o) /\ PlaceOK(Len(stack), o)
           /\ fin[o] = "called" /\ Closing(o) /\ TopKind("close")
           /\ \A i \in 1..Len(stack) : CloseAt(i, o) => i = Len(stack)
<1>1. stack # <<>> /\ CloseAt(Len(stack), o) /\ Len(stack) \in 1..Len(stack)
  BY Tops DEF Works, TopClose, Types
<1>2. Closing(o) /\ TopKind("close")
  BY <1>1 DEF Closing, TopKind, CloseAt
<1> QED BY <1>1, <1>2 DEF Once, Uncalled, Distinct, Places, PlaceOK

\* It ends.
LEMMA TopCut ==
    ASSUME Types, Once, NEW o \in Objects, Works(o), NEW n, n < Len(stack), Cut(n)
    PROVE  /\ Keeps /\ KeepsAt /\ ~Closing(o)'
           /\ \A i \in 1..Len(stack'), x \in Objects : CloseAt(i, x)' =>
                /\ x # o /\ PlaceOK(i, x) /\ stack'[i].at = stack[i].at
<1>1. Keeps /\ KeepsAt
  BY CutKeeps
<1>2. ASSUME NEW i \in 1..Len(stack'), NEW x \in Objects, CloseAt(i, x)'
      PROVE  x # o /\ PlaceOK(i, x) /\ stack'[i].at = stack[i].at
  <2>1. i \in 1..Len(stack) /\ CloseAt(i, x) /\ stack'[i].at = stack[i].at
    BY <1>1, <1>2 DEF Keeps, KeepsAt, CloseAt
  <2>2. i # Len(stack)
    BY DEF Cut, Upto, Types
  <2>3. x # o
    BY <2>1, <2>2, TopPlace
  <2> QED BY <2>1, <2>3 DEF Once, Places, PlaceOK
<1> QED BY <1>1, <1>2 DEF Closing

LEMMA OnceFrees ==
    ASSUME Types, Once, NEW o \in Objects, Frees(o)
    PROVE  Once'
<1>1. Works(o) /\ TopAt("kids") /\ Cut(Len(stack) - 1) /\ UNCHANGED <<fin, flushing>>
  BY DEF Frees, Ready, Works
<1>2. Len(stack) - 1 < Len(stack)
  BY DEF Types
<1>3. frees'[o] = frees[o] + 1 /\ \A x \in Objects : x # o => frees'[x] = frees[x]
  BY DEF Frees, FreesOne, Types
<1>4. fin[o] = "called" /\ frees[o] = 0 /\ o \notin flushing
  BY <1>1, TopPlace DEF PlaceOK, TopAt
<1>5. ASSUME NEW i \in 1..Len(stack'), NEW x \in Objects, CloseAt(i, x)'
      PROVE  PlaceOK(i, x)'
  BY <1>1, <1>2, <1>3, <1>5, TopCut DEF PlaceOK
<1>6. \A x \in Objects : frees'[x] \in {0, 1} /\ (x \in flushing' => frees'[x] = 0)
  BY <1>1, <1>3, <1>4 DEF Once, Freed
<1>7. \A x \in Objects : fin[x] # "called" => frees'[x] = 0 /\ x \notin flushing'
  BY <1>1, <1>3, <1>4 DEF Once, Uncalled
<1>8. Keeps
  BY <1>1, <1>2, TopCut
<1> QED BY <1>1, <1>5, <1>6, <1>7, <1>8, OnceKept

LEMMA OnceFlushes ==
    ASSUME Types, Once, NEW o \in Objects, Flushes(o)
    PROVE  Once'
<1>1. /\ Works(o) /\ TopAt("kids") /\ Cut(Len(stack) - 1) /\ UNCHANGED <<fin, frees>>
      /\ flushing' = flushing \cup {o}
  BY DEF Flushes, Ready, Works
<1>2. Len(stack) - 1 < Len(stack)
  BY DEF Types
<1>3. fin[o] = "called" /\ frees[o] = 0
  BY <1>1, TopPlace DEF PlaceOK, TopAt
<1>4. ASSUME NEW i \in 1..Len(stack'), NEW x \in Objects, CloseAt(i, x)'
      PROVE  PlaceOK(i, x)'
  BY <1>1, <1>2, <1>4, TopCut DEF PlaceOK
<1>5. \A x \in Objects : frees'[x] \in {0, 1} /\ (x \in flushing' => frees'[x] = 0)
  BY <1>1, <1>3 DEF Once, Freed
<1>6. \A x \in Objects : fin[x] # "called" => frees'[x] = 0 /\ x \notin flushing'
  BY <1>1, <1>3 DEF Once, Uncalled
<1>7. Keeps
  BY <1>1, <1>2, TopCut
<1> QED BY <1>1, <1>4, <1>5, <1>6, <1>7, OnceKept

\* Flushes that are cancelled, or done, free their keys.
LEMMA CancelledFrees ==
    ASSUME Types, Once, NEW S, Cancelled(S)
    PROVE  /\ \A x \in Objects : frees'[x] \in {0, 1} /\ (x \in flushing' => frees'[x] = 0)
           /\ \A x \in Objects : fin[x] # "called" => frees'[x] = 0 /\ x \notin flushing'
           /\ \A x \in Objects : x \notin flushing => x \notin flushing' /\ frees'[x] = frees[x]
           /\ \A x \in Objects : x \in flushing => x \in flushing' \/ frees'[x] = 1
           /\ \A x \in Objects : frees'[x] >= frees[x]
           /\ flushing' \subseteq flushing
<1>1. /\ S \subseteq flushing /\ flushing' = flushing \ S
      /\ \A x \in Objects : frees'[x] = frees[x] + IF x \in S THEN 1 ELSE 0
  BY DEF Cancelled
<1>2. \A x \in Objects : frees[x] \in {0, 1} /\ (x \in flushing => frees[x] = 0)
  BY DEF Once, Freed
<1>3. \A x \in Objects : frees'[x] = IF x \in S THEN 1 ELSE frees[x]
  BY <1>1, <1>2
<1>4. \A x \in Objects : fin[x] # "called" => frees[x] = 0 /\ x \notin flushing
  BY DEF Once, Uncalled
<1> QED BY <1>1, <1>2, <1>3, <1>4

LEMMA OnceCancels ==
    ASSUME Types, Once, Keeps, NEW S, Cancelled(S), fin' = fin,
           \A i \in 1..Len(stack'), x \in Objects : CloseAt(i, x)' =>
             PlaceOK(i, x) /\ stack'[i].at = stack[i].at
    PROVE  Once'
<1>1. ASSUME NEW i \in 1..Len(stack'), NEW x \in Objects, CloseAt(i, x)'
      PROVE  PlaceOK(i, x)'
  BY <1>1, CancelledFrees DEF PlaceOK
<1> QED BY <1>1, CancelledFrees, OnceKept

LEMMA OnceFails ==
    ASSUME Types, Once, NEW o \in Objects, NEW n \in 0..Len(stack), FailsAt(o, n)
    PROVE  Once'
<1>1. Works(o) /\ Cut(n) /\ fin' = fin
  BY DEF FailsAt, Ready, Works, Raised
<1>2. n < Len(stack)
  BY <1>1, TopPlace DEF FailsAt, Raised, TopKind
<1>3. Keeps /\ KeepsAt
  BY <1>1, <1>2, TopCut
<1>4. CASE UNCHANGED <<frees, flushing>>
  BY <1>1, <1>3, <1>4, OnceSame
<1>5. ASSUME NEW S, Cancelled(S) PROVE Once'
  BY <1>1, <1>2, <1>3, <1>5, TopCut, OnceCancels
<1> QED BY <1>4, <1>5 DEF FailsAt

LEMMA OnceWaits ==
    ASSUME Types, Once, NEW o \in Objects, Waits(o)
    PROVE  Once'
<1>1. Works(o) /\ TopAt("kids") /\ Moved("wait") /\ fin' = fin /\ o \in Eps
  BY DEF Waits, Ready, Works
<1>2. PICK S : Cancelled(S)
  BY DEF Waits
<1>3. Keeps /\ stack'[Len(stack)].at = "wait"
      /\ \A i \in 1..(Len(stack) - 1) : stack'[i] = stack[i]
  BY <1>1, TopPlace, MovedKeeps DEF Places4
<1>4. frees[o] = 0 /\ o \notin flushing
  BY <1>1, TopPlace DEF PlaceOK, TopAt
<1>5. ASSUME NEW i \in 1..Len(stack'), NEW x \in Objects, CloseAt(i, x)'
      PROVE  PlaceOK(i, x)'
  <2>1. i \in 1..Len(stack) /\ CloseAt(i, x)
    BY <1>3, <1>5 DEF Keeps
  <2>2. CASE i = Len(stack)
    <3>1. x = o
      BY <1>1, <2>1, <2>2, TopPlace DEF CloseAt
    <3> QED BY <1>1, <1>2, <1>3, <1>4, <2>2, <3>1, CancelledFrees DEF PlaceOK
  <2>3. CASE i # Len(stack)
    <3>1. stack'[i] = stack[i]
      BY <1>3, <2>1, <2>3 DEF Types
    <3>2. PlaceOK(i, x)
      BY <2>1 DEF Once, Places, PlaceOK
    <3> QED BY <1>2, <3>1, <3>2, CancelledFrees DEF PlaceOK
  <2> QED BY <2>2, <2>3
<1> QED BY <1>1, <1>2, <1>3, <1>5, CancelledFrees, OnceKept

LEMMA OnceClosed ==
    ASSUME Types, Once, NEW o \in Objects, IsClosed(o)
    PROVE  Once'
<1>1. /\ Works(o) /\ TopAt("wait") /\ Moved("callback") /\ UNCHANGED <<fin, flushing>>
  BY DEF IsClosed, Works
<1>2. frees'[o] = frees[o] + 1 /\ \A x \in Objects : x # o => frees'[x] = frees[x]
  BY DEF IsClosed, FreesOne, Types
<1>3. Keeps /\ stack'[Len(stack)].at = "callback"
      /\ \A i \in 1..(Len(stack) - 1) : stack'[i] = stack[i]
  BY <1>1, TopPlace, MovedKeeps DEF Places4
<1>4. frees[o] = 0 /\ o \notin flushing /\ o \in Eps /\ fin[o] = "called"
  BY <1>1, TopPlace DEF PlaceOK, TopAt
<1>5. ASSUME NEW i \in 1..Len(stack'), NEW x \in Objects, CloseAt(i, x)'
      PROVE  PlaceOK(i, x)'
  <2>1. i \in 1..Len(stack) /\ CloseAt(i, x)
    BY <1>3, <1>5 DEF Keeps
  <2>2. CASE i = Len(stack)
    <3>1. x = o
      BY <1>1, <2>1, <2>2, TopPlace DEF CloseAt
    <3> QED BY <1>1, <1>2, <1>3, <1>4, <2>2, <3>1 DEF PlaceOK
  <2>3. CASE i # Len(stack)
    <3>1. stack'[i] = stack[i] /\ x # o
      BY <1>1, <1>3, <2>1, <2>3, TopPlace DEF Types
    <3>2. PlaceOK(i, x)
      BY <2>1 DEF Once, Places, PlaceOK
    <3> QED BY <1>1, <1>2, <3>1, <3>2 DEF PlaceOK
  <2> QED BY <2>2, <2>3
<1>6. \A x \in Objects : frees'[x] \in {0, 1} /\ (x \in flushing' => frees'[x] = 0)
  BY <1>1, <1>2, <1>4 DEF Once, Freed
<1>7. \A x \in Objects : fin[x] # "called" => frees'[x] = 0 /\ x \notin flushing'
  BY <1>1, <1>2, <1>4 DEF Once, Uncalled
<1> QED BY <1>1, <1>3, <1>5, <1>6, <1>7, OnceKept

LEMMA OnceCalls ==
    ASSUME Types, Once, NEW o \in Objects, CallsUser(o)
    PROVE  Once'
<1>1. Works(o) /\ TopAt("callback") /\ UNCHANGED <<fin, flushing, frees>>
  BY DEF CallsUser, Works
<1>2. Keeps /\ stack'[Len(stack)].at = "done"
      /\ \A i \in 1..(Len(stack) - 1) : stack'[i] = stack[i]
  BY CallsUserKeeps
<1>3. frees[o] = 1 /\ o \notin flushing /\ o \in Eps
  BY <1>1, TopPlace DEF PlaceOK, TopAt
<1>4. ASSUME NEW i \in 1..Len(stack'), NEW x \in Objects, CloseAt(i, x)'
      PROVE  PlaceOK(i, x)'
  <2>1. i \in 1..Len(stack) /\ CloseAt(i, x)
    BY <1>2, <1>4 DEF Keeps
  <2>2. CASE i = Len(stack)
    <3>1. x = o
      BY <1>1, <2>1, <2>2, TopPlace DEF CloseAt
    <3> QED BY <1>1, <1>2, <1>3, <2>2, <3>1 DEF PlaceOK
  <2>3. CASE i # Len(stack)
    <3>1. stack'[i] = stack[i]
      BY <1>2, <2>1, <2>3 DEF Types
    <3>2. PlaceOK(i, x)
      BY <2>1 DEF Once, Places, PlaceOK
    <3> QED BY <1>1, <3>1, <3>2 DEF PlaceOK
  <2> QED BY <2>2, <2>3
<1> QED BY <1>1, <1>2, <1>4, OnceKept DEF Once, Freed, Uncalled

\* The steps that free nothing and change no place.
Idle ==
    \/ \E o \in Objects : Vanishes(o) \/ CallsUcx(o) \/ Makes(o) \/ Drops(o)
    \/ Collects \/ Goes \/ MakesApp \/ AbortReturns \/ UserReturns
    \/ Resets \/ Exits \/ ResetsWell

\* A frame that is no finalizer's is popped.
LEMMA PoppedKeeps ==
    ASSUME Types, stack # <<>>, stack[Len(stack)].kind # "close", Cut(Len(stack) - 1)
    PROVE  Keeps /\ KeepsAt /\ KeepsAll
<1>1. Keeps /\ KeepsAt
  BY CutKeeps
<1>2. KeepsAll
  <2> SUFFICES ASSUME NEW o \in Objects, Closing(o), ~Closing(o)' PROVE FALSE
    BY DEF KeepsAll
  <2>1. PICK i \in 1..Len(stack) : i > Len(stack) - 1 /\ CloseAt(i, o)
    BY CutLoses
  <2>2. i = Len(stack)
    BY <2>1 DEF Types
  <2> QED BY <2>1, <2>2 DEF CloseAt
<1> QED BY <1>1, <1>2

LEMMA IdleKeeps ==
    ASSUME Types, Idle
    PROVE  Keeps /\ KeepsAt /\ KeepsAll /\ UNCHANGED <<frees, flushing>>
<1>1. ASSUME NEW o \in Objects, Vanishes(o) \/ Makes(o) \/ Drops(o)
      PROVE  stack' = stack /\ UNCHANGED <<frees, flushing>>
  BY <1>1 DEF Vanishes, Makes, Drops, heap
<1>2. CASE MakesApp
  BY <1>2, SameKeeps DEF MakesApp
<1>3. ASSUME NEW o \in Objects, CallsUcx(o)
      PROVE  Pushed([kind |-> "ucx"]) /\ UNCHANGED <<frees, flushing>>
  BY <1>3 DEF CallsUcx
<1>4. CASE Collects
  <2>1. Pushed(DropFrame(Garbage)) /\ DropFrame(Garbage).kind # "close"
        /\ UNCHANGED <<frees, flushing>>
    BY <1>4 DEF Collects, DropFrame
  <2> QED BY <2>1, PushedKeeps
<1>5. CASE Resets \/ Exits
  <2>1. (Pushed([kind |-> "reset"]) \/ Pushed([kind |-> "exit"])) /\ UNCHANGED <<frees, flushing>>
    BY <1>5 DEF Resets, Exits, heap
  <2> QED BY <2>1, PushedKeeps
<1>6. CASE Goes
  BY <1>6, PoppedKeeps DEF Goes, TopKind
<1>7. CASE AbortReturns
  BY <1>7, PoppedKeeps DEF AbortReturns, TopKind, heap
<1>8. CASE UserReturns
  BY <1>8, PoppedKeeps DEF UserReturns, TopKind, heap
<1>9. CASE ResetsWell
  BY <1>9, PoppedKeeps DEF ResetsWell, TopKind, heap
<1> QED BY <1>1, <1>2, <1>3, <1>4, <1>5, <1>6, <1>7, <1>8, <1>9, SameKeeps, PushedKeeps DEF Idle

\* What is made had no finalizer.
LEMMA IdleFin ==
    ASSUME Types, Lives, Idle
    PROVE  \A x \in Objects : \/ fin'[x] = fin[x]
                              \/ fin[x] = "unset" /\ fin'[x] = "alive" /\ py[x] = "none"
                                   /\ py'[x] = "alive"
<1>1. \/ fin' = fin
      \/ MakesApp
      \/ \E o \in Objects : Makes(o)
  BY DEF Idle, Vanishes, CallsUcx, Works, Drops, heap, Collects, Goes, AbortReturns, UserReturns,
         Resets, Exits, ResetsWell
<1>2. CASE MakesApp
  <2>1. \A x \in {Ctx, Wrk, App} : fin[x] = "unset" /\ py[x] = "none"
    BY <1>2, Kinds DEF MakesApp, Lives
  <2>2. \A x \in Objects : /\ fin'[x] = IF x \in {Ctx, Wrk, App} THEN "alive" ELSE fin[x]
                           /\ py'[x] = IF x \in {Ctx, Wrk, App} THEN "alive" ELSE py[x]
    BY <1>2 DEF MakesApp
  <2> QED BY <2>1, <2>2
<1>3. ASSUME NEW o \in Objects, Makes(o), NEW x \in Objects
      PROVE  \/ fin'[x] = fin[x]
             \/ fin[x] = "unset" /\ fin'[x] = "alive" /\ py[x] = "none" /\ py'[x] = "alive"
  <2>1. fin[o] = "unset" /\ py[o] = "none"
    BY <1>3 DEF Makes, Lives
  <2>2. /\ fin'[x] = IF x = o THEN "alive" ELSE fin[x]
        /\ py'[x] = IF x = o THEN "alive" ELSE py[x]
    BY <1>3 DEF Makes, Types
  <2> QED BY <2>1, <2>2
<1> QED BY <1>1, <1>2, <1>3

\* The classes again, with the idle ones together.
LEMMA ClassesAre ==
    ASSUME Classes
    PROVE  \/ \E o \in Objects : Starting(o)
           \/ Idle \/ AbortRaises
           \/ \E o \in Objects : Frees(o) \/ Flushes(o) \/ Waits(o) \/ IsClosed(o)
                                   \/ CallsUser(o) \/ EndsWell(o)
           \/ \E o \in Objects, n \in 0..Len(stack) : FailsAt(o, n)
           \/ \E r \in Rkeys : Flushed(r)
BY Zenon DEF Classes, Idle

LEMMA OnceNext ==
    ASSUME Types, Once, Lives, Next
    PROVE  Once'
<1>1. Classes
  BY NextClasses
<1>2. ASSUME Idle PROVE Once'
  <2>1. \A x \in Objects : fin[x] # "called" \/ fin'[x] = "called"
    BY <1>2, IdleFin
  <2> QED BY <1>2, <2>1, IdleKeeps, OnceSame
<1>3. CASE AbortRaises
  <2>1. UNCHANGED <<fin, frees, flushing>> /\ \E n : Cut(n)
    BY <1>3 DEF AbortRaises, heap, Raised
  <2> QED BY <2>1, CutKeeps, OnceSame
<1>4. ASSUME NEW o \in Objects, EndsWell(o) PROVE Once'
  <2>1. UNCHANGED <<fin, frees, flushing>> /\ Cut(Len(stack) - 1)
    BY <1>4 DEF EndsWell, Works
  <2> QED BY <2>1, CutKeeps, OnceSame
<1>5. ASSUME NEW r \in Rkeys, Flushed(r) PROVE Once'
  <2>1. Cancelled({r}) /\ fin' = fin /\ stack' = stack
    BY <1>5 DEF Flushed
  <2>2. \A i \in 1..Len(stack'), x \in Objects : CloseAt(i, x)' =>
          PlaceOK(i, x) /\ stack'[i].at = stack[i].at
    BY <2>1 DEF CloseAt, Once, Places, PlaceOK
  <2> QED BY <2>1, <2>2, SameKeeps, OnceCancels
<1> QED BY <1>1, <1>2, <1>3, <1>4, <1>5, ClassesAre, OnceStart, OnceFrees, OnceFlushes,
           OnceFails, OnceWaits, OnceClosed, OnceCalls

-----------------------------------------------------------------------------
(* Frames that stay and frames that come                                    *)

\* A frame that stays may only have its finalizer go on, at the top.
StaysAt(i) ==
    \/ stack'[i] = stack[i]
    \/ /\ i = Len(stack) /\ stack[i].kind = "close" /\ stack'[i].kind = "close"
       /\ stack'[i].obj = stack[i].obj

\* What comes: with it, the class of the step.
ComesAt(i) ==
    \/ stack'[i].kind \in {"close", "drop", "abort"} /\ \E o \in Objects : Starting(o)
    \/ stack'[i].kind = "drop" /\ Collects
    \/ stack'[i].kind = "ucx" /\ \E o \in Objects : CallsUcx(o)
    \/ stack'[i].kind = "user" /\ \E o \in Objects : CallsUser(o)
    \/ stack'[i].kind = "reset" /\ i = 1 /\ Resets
    \/ stack'[i].kind = "exit" /\ i = 1 /\ Exits

\* The steps by which the stack only loses frames.
LEMMA CutClasses ==
    ASSUME Types, Classes
    PROVE  \/ \E o \in Objects : \/ Starting(o) \/ CallsUcx(o) \/ CallsUser(o)
                                 \/ Waits(o) \/ IsClosed(o)
           \/ Collects \/ Resets \/ Exits
           \/ stack' = stack
           \/ \E n \in 0..Len(stack) : Cut(n)
<1>1. ASSUME NEW n, Cut(n) PROVE n \in 0..Len(stack)
  BY <1>1 DEF Cut, Upto
<1>2. ASSUME NEW o \in Objects, Vanishes(o) \/ Makes(o) \/ Drops(o) PROVE stack' = stack
  BY <1>2 DEF Vanishes, Makes, Drops
<1>3. ASSUME NEW r, Flushed(r) PROVE stack' = stack
  BY <1>3 DEF Flushed
<1>4. MakesApp => stack' = stack
  BY DEF MakesApp
<1>5. ASSUME Goes \/ AbortReturns \/ UserReturns \/ AbortRaises \/ ResetsWell
      PROVE  \E n : Cut(n)
  BY <1>5 DEF Goes, AbortReturns, UserReturns, AbortRaises, ResetsWell, Raised
<1>6. ASSUME NEW o \in Objects, Frees(o) \/ Flushes(o) \/ EndsWell(o) PROVE \E n : Cut(n)
  BY <1>6 DEF Frees, Flushes, EndsWell
<1>7. ASSUME NEW o \in Objects, NEW n, FailsAt(o, n) PROVE Cut(n)
  BY <1>7 DEF FailsAt, Raised
<1> QED BY <1>1, <1>2, <1>3, <1>4, <1>5, <1>6, <1>7 DEF Classes

LEMMA NextFrames ==
    ASSUME Types, Classes
    PROVE  \A i \in 1..Len(stack') : IF i \in 1..Len(stack) THEN StaysAt(i) ELSE ComesAt(i)
<1>1. Len(stack) \in Nat
  BY DEF Types
<1> SUFFICES ASSUME NEW i \in 1..Len(stack')
             PROVE  IF i \in 1..Len(stack) THEN StaysAt(i) ELSE ComesAt(i)
  OBVIOUS
<1>2. ASSUME NEW o \in Objects, Starting(o)
      PROVE  IF i \in 1..Len(stack) THEN StaysAt(i) ELSE ComesAt(i)
  <2>1. CASE i \in 1..Len(stack)
    BY <1>2, <2>1, StartingFrames DEF StaysAt
  <2>2. CASE i \notin 1..Len(stack)
    <3>1. stack'[i].kind \in {"close", "drop", "abort"}
      BY <1>2, <2>2, StartingFrames, FrameMade
    <3> QED BY <1>2, <2>2, <3>1 DEF ComesAt
  <2> QED BY <2>1, <2>2
<1>3. ASSUME NEW f, Pushed(f)
      PROVE  IF i \in 1..Len(stack) THEN stack'[i] = stack[i]
                                    ELSE stack'[i] = f /\ i = Len(stack) + 1
  BY <1>1, <1>3 DEF Pushed, Upto
<1>4. ASSUME NEW o \in Objects, CallsUcx(o)
      PROVE  IF i \in 1..Len(stack) THEN StaysAt(i) ELSE ComesAt(i)
  <2>1. Pushed([kind |-> "ucx"])
    BY <1>4 DEF CallsUcx
  <2> QED BY <1>3, <1>4, <2>1 DEF StaysAt, ComesAt
<1>5. CASE Collects
  <2>1. Pushed(DropFrame(Garbage)) /\ DropFrame(Garbage).kind = "drop"
    BY <1>5 DEF Collects, DropFrame
  <2> QED BY <1>3, <1>5, <2>1 DEF StaysAt, ComesAt
<1>6. CASE Resets \/ Exits
  <2>1. \/ Pushed([kind |-> "reset"]) /\ Resets
        \/ Pushed([kind |-> "exit"]) /\ Exits
    BY <1>6 DEF Resets, Exits
  <2>2. Len(stack) + 1 = 1
    BY <1>6 DEF Resets, Exits
  <2> QED BY <1>3, <2>1, <2>2 DEF StaysAt, ComesAt
<1>7. ASSUME NEW o \in Objects, CallsUser(o)
      PROVE  IF i \in 1..Len(stack) THEN StaysAt(i) ELSE ComesAt(i)
  <2>1. /\ Len(stack) \in 1..Len(stack) /\ stack[Len(stack)] \in Frames
        /\ stack[Len(stack)].kind = "close"
    BY <1>7, Tops DEF CallsUser, Works, TopClose, CloseAt, Types
  <2>2. /\ stack'[Len(stack)].kind = "close"
        /\ stack'[Len(stack)].obj = stack[Len(stack)].obj
    BY <1>7, <2>1, FrameMoved DEF CallsUser, Places4
  <2>3. \A j \in 1..(Len(stack) - 1) : stack'[j] = stack[j]
    BY <1>7, CallsUserKeeps
  <2>4. Len(stack') = Len(stack) + 1 /\ stack'[Len(stack) + 1].kind = "user"
    BY <1>7 DEF CallsUser
  <2>5. CASE i \in 1..(Len(stack) - 1)
    BY <1>1, <2>3, <2>5 DEF StaysAt
  <2>6. CASE i = Len(stack)
    BY <2>1, <2>2, <2>6 DEF StaysAt
  <2>7. CASE i = Len(stack) + 1
    BY <1>1, <1>7, <2>4, <2>7 DEF ComesAt
  <2> QED BY <1>1, <2>4, <2>5, <2>6, <2>7
<1>8. ASSUME NEW o \in Objects, Waits(o) \/ IsClosed(o)
      PROVE  IF i \in 1..Len(stack) THEN StaysAt(i) ELSE ComesAt(i)
  <2>1. /\ Len(stack) \in 1..Len(stack) /\ stack[Len(stack)] \in Frames
        /\ stack[Len(stack)].kind = "close" /\ TopKind("close")
    BY <1>8, Tops DEF Waits, IsClosed, Ready, Works, TopClose, CloseAt, Types, TopKind
  <2>2. PICK place \in Places4 : Moved(place)
    BY <1>8 DEF Waits, IsClosed, Places4
  <2>3. /\ stack'[Len(stack)].kind = "close"
        /\ stack'[Len(stack)].obj = stack[Len(stack)].obj
    BY <2>1, <2>2, FrameMoved DEF Moved
  <2>4. \A j \in 1..(Len(stack) - 1) : stack'[j] = stack[j]
    BY <2>1, <2>2, MovedKeeps
  <2>5. Len(stack') = Len(stack)
    BY <2>2 DEF Moved
  <2>6. CASE i \in 1..(Len(stack) - 1)
    BY <1>1, <2>4, <2>6 DEF StaysAt
  <2>7. CASE i = Len(stack)
    BY <2>1, <2>3, <2>7 DEF StaysAt
  <2> QED BY <1>1, <2>5, <2>6, <2>7
<1>9. CASE stack' = stack
  BY <1>9 DEF StaysAt
<1>10. ASSUME NEW n \in 0..Len(stack), Cut(n)
       PROVE  i \in 1..Len(stack) /\ StaysAt(i)
  BY <1>1, <1>10 DEF Cut, Upto, StaysAt
<1> QED BY <1>2, <1>4, <1>5, <1>6, <1>7, <1>8, <1>9, <1>10, CutClasses

\* The finalizers at work, in the steps that call none, and fin.
LEMMA NextKeeps ==
    ASSUME Types, Lives, Next
    PROVE  \/ \E o \in Objects : Starting(o)
           \/ /\ Keeps
              /\ \A x \in Objects :
                   \/ fin'[x] = fin[x]
                   \/ /\ fin[x] = "unset" /\ fin'[x] = "alive"
                      /\ py[x] = "none" /\ py'[x] = "alive"
<1>1. Classes
  BY NextClasses
<1> SUFFICES ASSUME ~\E o \in Objects : Starting(o)
             PROVE  /\ Keeps
                    /\ \A x \in Objects :
                         \/ fin'[x] = fin[x]
                         \/ /\ fin[x] = "unset" /\ fin'[x] = "alive"
                            /\ py[x] = "none" /\ py'[x] = "alive"
  OBVIOUS
<1>2. Keeps
  <2> SUFFICES ASSUME NEW i \in 1..Len(stack'), NEW o \in Objects, CloseAt(i, o)'
               PROVE  i \in 1..Len(stack) /\ CloseAt(i, o)
    BY DEF Keeps
  <2>1. i \in 1..Len(stack)
    BY <1>1, NextFrames DEF CloseAt, ComesAt
  <2> QED BY <1>1, <2>1, NextFrames DEF CloseAt, StaysAt
<1>3. CASE Idle
  BY <1>2, <1>3, IdleFin
<1>4. ASSUME NEW o \in Objects, Frees(o) \/ Flushes(o) \/ Waits(o) \/ IsClosed(o)
                                   \/ CallsUser(o) \/ EndsWell(o)
      PROVE  fin' = fin
  BY <1>4 DEF Frees, Flushes, Waits, IsClosed, CallsUser, EndsWell, Ready, Works
<1>5. ASSUME NEW o \in Objects, NEW n, FailsAt(o, n) PROVE fin' = fin
  BY <1>5 DEF FailsAt, Ready, Works
<1>6. ASSUME NEW r, Flushed(r) PROVE fin' = fin
  BY <1>6 DEF Flushed
<1>7. AbortRaises => fin' = fin
  BY DEF AbortRaises, heap
<1> QED BY <1>1, <1>2, <1>3, <1>4, <1>5, <1>6, <1>7, ClassesAre

LEMMA StartingBusy ==
    ASSUME Types, NEW o \in Objects, Starting(o)
    PROVE  /\ \A x \in Objects : Busy(x)' <=> Busy(x)
           /\ Open(o) /\ Busy(o) /\ \A x \in Objects : fin'[x] = IF x = o THEN "called" ELSE fin[x]
           /\ \A x \in Objects : Open(x)' <=> Open(x) /\ x # o
<1>1. Open(o) /\ fin' = [fin EXCEPT ![o] = "called"]
  BY DEF Starting, DieStarts, RunStarts, KidStarts, UserStarts, AbortStarts, ExitStarts,
         StartsCalm, Starts, Called
<1>2. \A x \in Objects : fin'[x] = IF x = o THEN "called" ELSE fin[x]
  BY <1>1 DEF Types
<1>3. \A x \in Objects : Closing(x)' <=> Closing(x) \/ x = o
  BY StartingCloses
<1> QED BY <1>1, <1>2, <1>3 DEF Busy, Open

\* What is busy stays busy, or is let go; only what is made becomes busy.
LEMMA NextBusy ==
    ASSUME Types, Lives, Next
    PROVE  \A x \in Objects : Busy(x)' => Busy(x) \/ (py[x] = "none" /\ py'[x] = "alive")
<1>1. ASSUME NEW o \in Objects, Starting(o)
      PROVE  \A x \in Objects : Busy(x)' <=> Busy(x)
  BY <1>1, StartingBusy
<1>2. ASSUME Keeps PROVE \A x \in Objects : Closing(x)' => Closing(x)
  BY <1>2 DEF Keeps, Closing
<1> QED BY <1>1, <1>2, NextKeeps DEF Busy, Open

-----------------------------------------------------------------------------
(* Reference counts                                                         *)

\* Classes in which objects are not made.
LEMMA StartsUnchanged ==
    ASSUME NEW o \in Objects, Starting(o)
    PROVE  /\ UNCHANGED <<core, frees, held, global, flushing, reset, raised>>
           /\ o \in Objects /\ (closed' = closed \/ UserStarts(o))
           /\ DieStarts(o) \/ (py' = py /\ Calm)
BY DEF Starting, DieStarts, RunStarts, KidStarts, UserStarts, AbortStarts, ExitStarts,
       StartsCalm, Starts

\* Only a constructor lets the user, or core, have more; only a flush keeps a key.
LEMMA NextHolds ==
    ASSUME Classes
    PROVE  /\ core' = core
           /\ \/ held' \subseteq held
              \/ \E o \in Objects : Makes(o)
           /\ (global' => global) \/ MakesApp
           /\ \/ flushing' \subseteq flushing
              \/ \E o \in Objects : Flushes(o)
           /\ closed' = closed \/ \E o \in Objects : UserStarts(o)
           /\ reset' = reset \/ ResetsWell
<1>1. ASSUME NEW o \in Objects, Starting(o)
      PROVE  UNCHANGED <<core, held, global, flushing, reset>>
             /\ (closed' = closed \/ UserStarts(o))
  BY <1>1, StartsUnchanged
<1>2. ASSUME NEW o \in Objects, Vanishes(o)
      PROVE  UNCHANGED <<core, held, global, flushing, reset, closed>>
  BY <1>2 DEF Vanishes
<1>3. ASSUME Collects \/ Goes
      PROVE  UNCHANGED <<core, held, global, flushing, reset, closed>>
  BY <1>3 DEF Collects, Goes
<1>4. ASSUME NEW o \in Objects, Frees(o) \/ IsClosed(o) \/ CallsUcx(o) \/ CallsUser(o) \/ EndsWell(o)
      PROVE  UNCHANGED <<core, held, global, flushing, reset, closed>>
  BY <1>4 DEF Frees, IsClosed, CallsUcx, CallsUser, EndsWell, Ready, Works
<1>5. ASSUME NEW o \in Objects, Flushes(o) \/ Waits(o)
      PROVE  UNCHANGED <<core, held, global, reset, closed>>
             /\ (Flushes(o) \/ flushing' \subseteq flushing)
  BY <1>5 DEF Flushes, Waits, Ready, Works, Cancelled
<1>6. ASSUME NEW o \in Objects, NEW n, FailsAt(o, n)
      PROVE  UNCHANGED <<core, held, global, reset, closed>> /\ flushing' \subseteq flushing
  BY <1>6 DEF FailsAt, Ready, Works, Cancelled
<1>7. ASSUME NEW r, Flushed(r)
      PROVE  UNCHANGED <<core, held, global, reset, closed>> /\ flushing' \subseteq flushing
  BY <1>7 DEF Flushed, Cancelled
<1>8. ASSUME NEW o \in Objects, Makes(o)
      PROVE  UNCHANGED <<core, global, flushing, reset, closed>>
  BY <1>8 DEF Makes
<1>9. ASSUME NEW o \in Objects, Drops(o)
      PROVE  UNCHANGED <<core, global, flushing, reset, closed>> /\ held' \subseteq held
  BY <1>9 DEF Drops
<1>10. MakesApp => UNCHANGED <<core, held, flushing, reset, closed>>
  BY DEF MakesApp
<1>11. AbortReturns \/ UserReturns \/ AbortRaises \/ Exits
         => UNCHANGED <<core, global, flushing, reset, closed>> /\ held' \subseteq held
  BY DEF AbortReturns, UserReturns, AbortRaises, Exits
<1>12. Resets => UNCHANGED <<core, held, flushing, reset, closed>> /\ (global' => global)
  BY DEF Resets
<1>13. ResetsWell => UNCHANGED <<core, held, global, flushing, closed>>
  BY DEF ResetsWell
<1> QED BY <1>1, <1>2, <1>3, <1>4, <1>5, <1>6, <1>7, <1>8, <1>9, <1>10, <1>11, <1>12, <1>13
        DEF Classes

\* What is made, and what its parents are then.
LEMMA MadeIs ==
    ASSUME Types, NEW o \in Objects, Makes(o)
    PROVE  /\ \A x \in Objects : /\ py'[x] = IF x = o THEN "alive" ELSE py[x]
                                 /\ fin'[x] = IF x = o THEN "alive" ELSE fin[x]
           /\ py[o] = "none" /\ o # App /\ stack = <<>> /\ stack' = stack
           /\ \A x : x \in held' <=> x \in held \/ x = o
<1>1. o # App
  <2>1. o \in {Ctx, Wrk} \cup Mems \cup Eps \cup Lis \cup Addrs \cup Rkeys
    BY DEF Makes
  <2> QED BY <2>1, ObjectsAssumption, Kinds DEF Trunk
<1> QED BY <1>1 DEF Makes, Types

LEMMA MadeAppIs ==
    ASSUME Types, MakesApp
    PROVE  /\ \A x \in Objects : /\ py'[x] = IF x \in Trunk THEN "alive" ELSE py[x]
                                 /\ fin'[x] = IF x \in Trunk THEN "alive" ELSE fin[x]
           /\ \A x \in Trunk : py[x] = "none"
           /\ core /\ stack = <<>> /\ stack' = stack
BY DEF MakesApp, Types, Trunk

\* The classes by what they do to the objects and to the frames of the dying.
DropSame ==
    \A x \in Objects :
      /\ \A i \in 1..Len(stack') : DropAt(i, x)' => i \in 1..Len(stack) /\ DropAt(i, x)
      /\ \A i \in 1..Len(stack) : DropAt(i, x) => i \in 1..Len(stack') /\ DropAt(i, x)'

LEMMA DropSameCut ==
    ASSUME Types, NEW n, Cut(n), \A i \in 1..Len(stack) : i > n => stack[i].kind # "drop"
    PROVE  DropSame
<1>1. Len(stack) \in Nat /\ n \in 0..Len(stack) /\ Len(stack') = n
      /\ \A i \in 1..n : stack'[i] = stack[i]
  BY DEF Types, Cut, Upto
<1> SUFFICES ASSUME NEW x \in Objects
             PROVE  /\ \A i \in 1..Len(stack') : DropAt(i, x)' => i \in 1..Len(stack) /\ DropAt(i, x)
                    /\ \A i \in 1..Len(stack) : DropAt(i, x) => i \in 1..Len(stack') /\ DropAt(i, x)'
  BY DEF DropSame
<1>2. ASSUME NEW i \in 1..Len(stack'), DropAt(i, x)' PROVE i \in 1..Len(stack) /\ DropAt(i, x)
  BY <1>1, <1>2 DEF DropAt
<1>3. ASSUME NEW i \in 1..Len(stack), DropAt(i, x) PROVE i \in 1..Len(stack') /\ DropAt(i, x)'
  <2>1. i <= n
    BY <1>1, <1>3 DEF DropAt
  <2> QED BY <1>1, <1>3, <2>1 DEF DropAt
<1> QED BY <1>2, <1>3

LEMMA DropSamePush ==
    ASSUME Types, \A i \in 1..Len(stack') : IF i \in 1..Len(stack) THEN StaysAt(i)
                                                                   ELSE stack'[i].kind # "drop",
           Len(stack') \in Nat /\ Len(stack') >= Len(stack)
    PROVE  DropSame
<1>1. Len(stack) \in Nat
  BY DEF Types
<1> SUFFICES ASSUME NEW x \in Objects
             PROVE  /\ \A i \in 1..Len(stack') : DropAt(i, x)' => i \in 1..Len(stack) /\ DropAt(i, x)
                    /\ \A i \in 1..Len(stack) : DropAt(i, x) => i \in 1..Len(stack') /\ DropAt(i, x)'
  BY DEF DropSame
<1>2. ASSUME NEW i \in 1..Len(stack'), DropAt(i, x)' PROVE i \in 1..Len(stack) /\ DropAt(i, x)
  <2>1. i \in 1..Len(stack)
    BY <1>2 DEF DropAt
  <2> QED BY <1>2, <2>1 DEF DropAt, StaysAt
<1>3. ASSUME NEW i \in 1..Len(stack), DropAt(i, x) PROVE i \in 1..Len(stack') /\ DropAt(i, x)'
  <2>1. i \in 1..Len(stack')
    BY <1>1
  <2> QED BY <1>3, <2>1 DEF DropAt, StaysAt
<1> QED BY <1>2, <1>3

LEMMA NextDrops ==
    ASSUME Types, Next
    PROVE  \/ \E o \in Objects : DieStarts(o)
           \/ Collects \/ Goes
           \/ DropSame /\ \/ py' = py \/ MakesApp
                          \/ \E o \in Objects : Vanishes(o) \/ Makes(o)
<1>1. Classes /\ Len(stack') \in Nat /\ Len(stack) \in Nat
  BY NextClasses DEF Types
<1>3. ASSUME NEW o \in Objects, Starting(o), ~DieStarts(o)
      PROVE  DropSame /\ py' = py
  <2>1. Pushed(CloseFrame(o)) \/ Pushed2(AbortFrame(o), CloseFrame(o))
    BY <1>3 DEF Starting, RunStarts, KidStarts, UserStarts, AbortStarts, ExitStarts
  <2>2. AbortFrame(o).kind # "drop" /\ CloseFrame(o).kind # "drop"
    BY DEF AbortFrame, CloseFrame
  <2>3. /\ Len(stack') >= Len(stack)
        /\ \A i \in 1..Len(stack') : IF i \in 1..Len(stack) THEN stack'[i] = stack[i]
                                                            ELSE stack'[i].kind # "drop"
    <3>1. CASE Pushed(CloseFrame(o))
      <4>1. Len(stack') = Len(stack) + 1 /\ stack'[Len(stack) + 1] = CloseFrame(o)
            /\ \A i \in 1..Len(stack) : stack'[i] = stack[i]
        BY <3>1 DEF Pushed, Upto
      <4> QED BY <1>1, <2>2, <4>1
    <3>2. CASE Pushed2(AbortFrame(o), CloseFrame(o))
      <4>1. Len(stack') = Len(stack) + 2 /\ stack'[Len(stack) + 2] = CloseFrame(o)
            /\ stack'[Len(stack) + 1] = AbortFrame(o)
            /\ \A i \in 1..Len(stack) : stack'[i] = stack[i]
        BY <3>2 DEF Pushed2, Upto
      <4>2. \A i \in 1..Len(stack') : i \notin 1..Len(stack) =>
              i = Len(stack) + 1 \/ i = Len(stack) + 2
        BY <1>1, <4>1
      <4> QED BY <1>1, <2>2, <4>1, <4>2
    <3> QED BY <2>1, <3>1, <3>2
  <2> QED BY <1>1, <1>3, <2>3, DropSamePush, StartsUnchanged DEF StaysAt
<1>4. ASSUME NEW o \in Objects, CallsUcx(o) \/ CallsUser(o) \/ Waits(o) \/ IsClosed(o)
      PROVE  py' = py /\ DropSame
  <2>1. py' = py /\ Len(stack') >= Len(stack)
    BY <1>1, <1>4 DEF CallsUcx, CallsUser, Waits, IsClosed, Ready, Works, Pushed, Moved
  <2>2. \A i \in 1..Len(stack') : i \notin 1..Len(stack) => stack'[i].kind # "drop"
    <3>1. CASE CallsUcx(o)
      <4>1. /\ Len(stack') = Len(stack) + 1 /\ stack'[Len(stack) + 1] = [kind |-> "ucx"]
        BY <3>1 DEF CallsUcx, Pushed
      <4> QED BY <1>1, <4>1
    <3>2. CASE CallsUser(o)
      <4>1. /\ Len(stack') = Len(stack) + 1 /\ stack'[Len(stack) + 1] = [kind |-> "user"]
        BY <3>2 DEF CallsUser
      <4> QED BY <1>1, <4>1
    <3>3. CASE Waits(o) \/ IsClosed(o)
      BY <1>1, <3>3 DEF Waits, IsClosed, Moved
    <3> QED BY <1>4, <3>1, <3>2, <3>3
  <2> QED BY <1>1, <2>1, <2>2, NextFrames, DropSamePush
<1>5. CASE Resets \/ Exits
  <2>1. PICK k \in {"reset", "exit"} : Pushed([kind |-> k])
    BY <1>5 DEF Resets, Exits
  <2>2. /\ Len(stack') = Len(stack) + 1 /\ stack'[Len(stack) + 1] = [kind |-> k]
    BY <2>1 DEF Pushed
  <2>3. \A i \in 1..Len(stack') : i \notin 1..Len(stack) => stack'[i].kind # "drop"
    BY <1>1, <2>2
  <2>4. py' = py /\ Len(stack') >= Len(stack)
    BY <1>1, <1>5, <2>2 DEF Resets, Exits, heap
  <2> QED BY <1>1, <2>3, <2>4, NextFrames, DropSamePush
<1>6. ASSUME stack' = stack PROVE DropSame
  BY <1>6 DEF DropSame, DropAt
<1>7. ASSUME NEW o \in Objects, Vanishes(o) \/ Makes(o) \/ Drops(o)
      PROVE  stack' = stack /\ (Vanishes(o) \/ Makes(o) \/ py' = py)
  BY <1>7 DEF Vanishes, Makes, Drops, heap
<1>8. ASSUME NEW r, Flushed(r) PROVE stack' = stack /\ py' = py
  BY <1>8 DEF Flushed
<1>9. MakesApp => stack' = stack
  BY DEF MakesApp
<1>10. ASSUME NEW kind, TopKind(kind), kind # "drop", Cut(Len(stack) - 1) PROVE DropSame
  <2>1. \A i \in 1..Len(stack) : i > Len(stack) - 1 => i = Len(stack)
    BY <1>1
  <2> QED BY <1>10, <2>1, DropSameCut DEF TopKind
<1>11. ASSUME NEW o \in Objects, Frees(o) \/ Flushes(o) \/ EndsWell(o)
       PROVE  py' = py /\ DropSame
  <2>1. TopKind("close") /\ Cut(Len(stack) - 1) /\ py' = py
    BY <1>11 DEF Frees, Flushes, EndsWell, Ready, Works, TopClose, TopKind, CloseAt
  <2> QED BY <1>10, <2>1
<1>12. ASSUME AbortReturns \/ UserReturns \/ ResetsWell PROVE py' = py /\ DropSame
  <2>1. /\ Cut(Len(stack) - 1) /\ py' = py
        /\ TopKind("abort") \/ TopKind("ucx") \/ TopKind("user") \/ TopKind("reset")
    BY <1>12 DEF AbortReturns, UserReturns, ResetsWell, heap
  <2> QED BY <1>10, <2>1
<1>13. ASSUME NEW n, Raised(n) PROVE DropSame
  BY <1>13, DropSameCut DEF Raised
<1>14. ASSUME NEW o \in Objects, NEW n, FailsAt(o, n) PROVE py' = py /\ Raised(n)
  BY <1>14 DEF FailsAt, Ready, Works
<1>15. AbortRaises => py' = py /\ \E n : Raised(n)
  BY DEF AbortRaises, heap
<1> QED BY <1>1, <1>3, <1>4, <1>5, <1>6, <1>7, <1>8, <1>9, <1>11, <1>12, <1>13, <1>14, <1>15
        DEF Classes

LEMMA RefsSame ==
    ASSUME core' = core
    PROVE  \A x : Refs(x)' = Refs(x)
BY DEF Refs

\* A step that makes nothing gives nothing a new root.
LEMMA NextRooted ==
    ASSUME Types, Once, Lives, Next, ~MakesApp, ~\E o \in Objects : Makes(o)
    PROVE  \A x \in Objects : Rooted(x)' => Rooted(x)
<1>1. Classes
  BY NextClasses
<1>2. \A x \in Objects : Busy(x)' => Busy(x)
  <2>1. CASE \E o \in Objects : Starting(o)
    BY <2>1, StartingBusy
  <2>2. CASE Keeps /\ fin' = fin
    BY <2>2 DEF Busy, Open, Closing, Keeps
  <2>3. ASSUME Idle, ~\E o \in Objects : Starting(o) PROVE Keeps /\ fin' = fin
    <3>1. fin' = fin
      BY <2>3 DEF Idle, Vanishes, CallsUcx, Works, Drops, heap, Collects, Goes, AbortReturns,
                  UserReturns, Resets, Exits, ResetsWell
    <3> QED BY <2>3, <3>1, IdleKeeps
  <2>4. ASSUME ~Idle, ~\E o \in Objects : Starting(o) PROVE fin' = fin
    BY <1>1, <2>4, ClassesAre DEF AbortRaises, heap, Frees, Flushes, Waits, IsClosed, CallsUser,
                                  EndsWell, FailsAt, Flushed, Ready, Works
  <2> QED BY <2>1, <2>2, <2>3, <2>4, NextKeeps
<1> SUFFICES ASSUME NEW x \in Objects, Rooted(x)' PROVE Rooted(x)
  OBVIOUS
<1>3. CASE x \in held' \/ (global' /\ x = App)
  BY <1>1, <1>3, NextHolds DEF Rooted
<1>4. CASE x \in flushing'
  <2>1. CASE x \in flushing
    BY <2>1 DEF Rooted
  <2>2. ASSUME NEW o \in Objects, Flushes(o) PROVE Rooted(x)
    <3>1. x = o \/ x \in flushing
      BY <1>4, <2>2 DEF Flushes
    <3>2. o \in Rkeys /\ Closing(o)
      BY <2>2, TopPlace DEF Flushes, Ready
    <3>3. o \in FinArgs(o)
      BY <3>2, FinArgsOf
    <3> QED BY <3>1, <3>2, <3>3 DEF Rooted, Busy
  <2> QED BY <1>1, <1>4, <2>1, <2>2, NextHolds
<1>5. ASSUME NEW p \in Objects, Busy(p)', x \in FinArgs(p) PROVE Rooted(x)
  BY <1>2, <1>5 DEF Rooted
<1>6. \A p \in Objects : FinArgs(p)' = FinArgs(p)
  BY DEF FinArgs
<1> QED BY <1>3, <1>4, <1>5, <1>6 DEF Rooted

\* What the user needs to make an object is alive.
LEMMA MadeFrom ==
    ASSUME Types, Core, RootsLive, RefsLive, NEW o \in Objects, Makes(o)
    PROVE  \A y \in Refs(o) \cup FinArgs(o) : y = o \/ (y \in Objects /\ py[y] = "alive")
<1>1. \A x \in held : py[x] = "alive"
  BY DEF RootsLive, Rooted, Types
<1>2. WorkerAtHand => py[Wrk] = "alive" /\ (core => py[App] = "alive")
  <2>1. ASSUME global PROVE py[App] = "alive" /\ py[Wrk] = "alive"
    <3>1. py[App] = "alive"
      BY <2>1, Kinds DEF RootsLive, Rooted
    <3>2. Wrk \in Refs(App)
      BY RefsOf
    <3> QED BY <3>1, <3>2, Kinds DEF RefsLive
  <2> QED BY <1>1, <2>1 DEF WorkerAtHand
<1>3. CASE o = Ctx
  BY <1>3, RefsOf, FinArgsOf
<1>4. CASE o \in Mems \cup {Wrk} /\ Ctx \in held
  <2>1. Refs(o) \cup FinArgs(o) = {Ctx}
    BY <1>4, RefsOf, FinArgsOf
  <2> QED BY <1>1, <1>4, <2>1, Kinds
<1>5. CASE o \in Eps /\ WorkerAtHand
  <2>1. \A y \in Refs(o) \cup FinArgs(o) : y = Wrk \/ (y = App /\ core)
    BY <1>5, RefsOf, FinArgsOf
  <2> QED BY <1>2, <1>5, <2>1, Kinds
<1>6. CASE o \in Lis /\ WorkerAtHand
  <2>1. \A y \in Refs(o) \cup FinArgs(o) : y = o \/ (y = App /\ core)
    BY <1>6, RefsOf, FinArgsOf
  <2> QED BY <1>2, <1>6, <2>1, Kinds
<1>7. CASE o \in Addrs
  BY <1>7, RefsOf, FinArgsOf
<1>8. CASE o \in Rkeys /\ EpOf[o] \in held
  <2>1. Refs(o) \cup FinArgs(o) = {o, EpOf[o]}
    BY <1>8, RefsOf, FinArgsOf
  <2> QED BY <1>1, <1>8, <2>1 DEF Types
<1> QED BY <1>3, <1>4, <1>5, <1>6, <1>7, <1>8 DEF Makes

LEMMA RootsLiveNext ==
    ASSUME Types, Once, Core, Heap, Next
    PROVE  RootsLive'
<1> SUFFICES ASSUME NEW x \in Objects, Rooted(x)' PROVE py'[x] = "alive"
  BY DEF RootsLive
<1>0. Lives /\ RootsLive /\ RefsLive /\ Dropping
  BY DEF Heap
<1>1. ASSUME NEW o \in Objects, Makes(o) PROVE py'[x] = "alive"
  <2>1. py'[x] = (IF x = o THEN "alive" ELSE py[x]) /\ o # App /\ py'[o] = "alive"
    BY <1>1, MadeIs
  <2>2. CASE Rooted(x)
    BY <2>1, <2>2, <1>0 DEF RootsLive
  <2>3. CASE x \in held' \/ (global' /\ x = App) \/ x \in flushing'
    <3>1. x \in held \cup {o} \/ (global /\ x = App) \/ x \in flushing
      BY <1>1, <2>3 DEF Makes
    <3> QED BY <2>1, <2>2, <3>1 DEF Rooted
  <2>4. ASSUME NEW p \in Objects, Busy(p)', x \in FinArgs(p) PROVE py'[x] = "alive"
    <3>1. CASE Busy(p)
      BY <2>2, <2>4, <3>1 DEF Rooted
    <3>2. CASE p = o
      BY <1>0, <1>1, <2>1, <2>4, <3>2, MadeFrom
    <3>3. Busy(p) \/ p = o
      BY <1>0, <1>1, <2>4, NextBusy, MadeIs
    <3> QED BY <3>1, <3>2, <3>3
  <2>5. \A p \in Objects : FinArgs(p)' = FinArgs(p)
    BY DEF FinArgs
  <2> QED BY <2>3, <2>4, <2>5 DEF Rooted
<1>2. ASSUME MakesApp PROVE py'[x] = "alive"
  <2>1. py'[x] = IF x \in Trunk THEN "alive" ELSE py[x]
    BY <1>2, MadeAppIs
  <2>2. CASE Rooted(x)
    BY <2>1, <2>2, <1>0 DEF RootsLive
  <2>3. CASE x \in held' \/ (global' /\ x = App) \/ x \in flushing'
    <3>1. x \in held \/ x = App \/ x \in flushing
      BY <1>2, <2>3 DEF MakesApp
    <3> QED BY <2>1, <2>2, <3>1 DEF Rooted, Trunk
  <2>4. ASSUME NEW p \in Objects, Busy(p)', x \in FinArgs(p) PROVE py'[x] = "alive"
    <3>1. CASE Busy(p)
      BY <2>2, <2>4, <3>1 DEF Rooted
    <3>2. CASE p \in Trunk
      <4>1. x = Ctx
        BY <2>4, <3>2, FinArgsOf DEF Trunk
      <4> QED BY <2>1, <4>1 DEF Trunk
    <3>3. Busy(p) \/ p \in Trunk
      BY <1>0, <1>2, <2>4, NextBusy, MadeAppIs
    <3> QED BY <3>1, <3>2, <3>3
  <2>5. \A p \in Objects : FinArgs(p)' = FinArgs(p)
    BY DEF FinArgs
  <2> QED BY <2>3, <2>4, <2>5 DEF Rooted
<1>3. ASSUME ~MakesApp, ~\E o \in Objects : Makes(o) PROVE py'[x] = "alive"
  <2>1. Rooted(x) /\ py[x] = "alive" /\ ~Loose(x)
    BY <1>0, <1>3, NextRooted DEF RootsLive, Loose
  <2>2. ASSUME NEW o \in Objects, DieStarts(o) \/ Vanishes(o) PROVE py'[x] = "alive"
    <3>1. o # x
      BY <2>1, <2>2 DEF DieStarts, Vanishes
    <3> QED BY <2>1, <2>2, <3>1 DEF DieStarts, Vanishes, Types
  <2>3. CASE Collects
    BY <2>1, <2>3, GarbageIs DEF Collects
  <2>4. CASE Goes
    <3>1. x \notin stack[Len(stack)].objs
      <4>1. TopKind("drop") /\ Len(stack) \in 1..Len(stack)
        BY <2>4, Tops DEF Goes, TopKind, Types
      <4> QED BY <1>0, <2>1, <4>1 DEF Dropping, DropAt, TopKind
    <3> QED BY <2>1, <2>4, <3>1 DEF Goes
  <2> QED BY <1>3, <2>1, <2>2, <2>3, <2>4, NextDrops
<1> QED BY <1>1, <1>2, <1>3

\* What a step does to one object.
LEMMA NextPy ==
    ASSUME Types, Core, Heap, Next, NEW x \in Objects
    PROVE  \/ py'[x] = py[x]
           \/ py[x] = "none" /\ py'[x] = "alive" /\ fin[x] = "unset" /\ fin'[x] = "alive"
           \/ py[x] = "alive" /\ py'[x] = "dying" /\ x \in Garbage /\ Collects
           \/ py[x] = "alive" /\ py'[x] = "dying" /\ Loose(x) /\ DieStarts(x)
           \/ py[x] = "alive" /\ py'[x] = "dead" /\ Loose(x) /\ fin[x] = "called" /\ Vanishes(x)
           \/ /\ py[x] = "dying" /\ py'[x] = "dead" /\ fin[x] = "called" /\ Goes
              /\ DropAt(Len(stack), x)
<1>0. Lives /\ Dropping
  BY DEF Heap
<1>1. ASSUME NEW o \in Objects, DieStarts(o)
      PROVE  \/ py'[x] = py[x]
             \/ py[x] = "alive" /\ py'[x] = "dying" /\ Loose(x) /\ DieStarts(x)
  <2>1. py'[x] = (IF x = o THEN "dying" ELSE py[x]) /\ Loose(o) /\ py[o] = "alive"
    BY <1>1 DEF DieStarts, Types, Loose
  <2> QED BY <1>1, <2>1
<1>2. ASSUME NEW o \in Objects, Vanishes(o)
      PROVE  \/ py'[x] = py[x]
             \/ py[x] = "alive" /\ py'[x] = "dead" /\ Loose(x) /\ fin[x] = "called" /\ Vanishes(x)
  <2>1. py'[x] = (IF x = o THEN "dead" ELSE py[x]) /\ Loose(o) /\ py[o] = "alive"
    BY <1>2 DEF Vanishes, Types, Loose
  <2>2. fin[o] # "alive" /\ fin[o] # "unset" /\ fin[o] \in {"unset", "alive", "called"}
    BY <1>0, <1>2, <2>1 DEF Vanishes, Open, Lives, Types
  <2> QED BY <1>2, <2>1, <2>2
<1>3. CASE Collects
  BY <1>3, GarbageIs DEF Collects
<1>4. CASE Goes
  <2>1. TopKind("drop") /\ Len(stack) \in 1..Len(stack)
        /\ py'[x] = IF x \in stack[Len(stack)].objs THEN "dead" ELSE py[x]
    BY <1>4, Tops DEF Goes, TopKind, Types
  <2>2. CASE x \in stack[Len(stack)].objs
    <3>1. DropAt(Len(stack), x) /\ ~Open(x)
      BY <1>4, <2>1, <2>2 DEF DropAt, TopKind, Goes
    <3>2. py[x] = "dying"
      BY <1>0, <2>1, <3>1 DEF Dropping
    <3>3. fin[x] = "called"
      BY <1>0, <3>1, <3>2 DEF Lives, Open, Types
    <3> QED BY <1>4, <2>1, <2>2, <3>1, <3>2, <3>3
  <2> QED BY <2>1, <2>2
<1>5. ASSUME NEW o \in Objects, Makes(o)
      PROVE  \/ py'[x] = py[x]
             \/ py[x] = "none" /\ py'[x] = "alive" /\ fin[x] = "unset" /\ fin'[x] = "alive"
  BY <1>0, <1>5, MadeIs DEF Lives
<1>6. CASE MakesApp
  BY <1>0, <1>6, MadeAppIs DEF Lives
<1> QED BY <1>1, <1>2, <1>3, <1>4, <1>5, <1>6, NextDrops

LEMMA RefsLiveNext ==
    ASSUME Types, Once, Core, Heap, Next
    PROVE  RefsLive'
<1>0. Lives /\ RootsLive /\ RefsLive /\ Dropping /\ core' = core
  BY NextClasses, NextHolds DEF Heap
<1> SUFFICES ASSUME NEW x \in Objects, py'[x] = "alive", NEW y \in Refs(x)
             PROVE  py'[y] = "alive"
  BY <1>0, RefsSame DEF RefsLive
<1>1. y \in Objects
  BY Referrers
<1>2. CASE py[x] = "alive"
  <2>1. py[y] = "alive"
    BY <1>0, <1>2 DEF RefsLive
  <2>2. ~Loose(y)
    BY <1>1, <1>2 DEF Loose, Referred
  <2>3. Collects => y \notin Garbage
    <3> SUFFICES ASSUME Collects, y \in Garbage PROVE FALSE
      OBVIOUS
    <3>1. x \in Garbage
      BY <1>2, GarbageIs
    <3>2. py'[x] = "dying"
      BY <3>1 DEF Collects
    <3> QED BY <3>2
  <2> QED BY <1>1, <2>1, <2>2, <2>3, NextPy
<1>3. CASE py[x] # "alive"
  <2>1. py[x] = "none"
    BY <1>3, NextPy
  <2>2. MakesApp \/ \E o \in Objects : Makes(o)
    BY <2>1, NextDrops, GarbageIs DEF Collects, Goes, DieStarts, Vanishes, Types, Loose
  <2>3. ASSUME NEW o \in Objects, Makes(o) PROVE py'[y] = "alive"
    <3>1. x = o
      BY <1>3, <2>3, MadeIs
    <3>2. y = o \/ py[y] = "alive"
      BY <1>0, <2>3, <3>1, MadeFrom
    <3> QED BY <1>1, <2>3, <3>2, MadeIs
  <2>4. CASE MakesApp
    <3>1. x \in Trunk
      BY <1>3, <2>4, MadeAppIs
    <3>2. y \in Trunk
      BY <3>1, RefsOf DEF Trunk
    <3> QED BY <1>1, <2>4, <3>2, MadeAppIs
  <2> QED BY <2>2, <2>3, <2>4
<1> QED BY <1>2, <1>3

\* What a step does to one finalizer.
LEMMA NextFin ==
    ASSUME Types, Core, Heap, Next, NEW x \in Objects
    PROVE  \/ fin'[x] = fin[x]
           \/ fin[x] = "unset" /\ fin'[x] = "alive" /\ py[x] = "none" /\ py'[x] = "alive"
           \/ fin[x] = "alive" /\ fin'[x] = "called" /\ Starting(x)
<1>1. ASSUME NEW o \in Objects, Starting(o)
      PROVE  fin'[x] = fin[x] \/ (fin[x] = "alive" /\ fin'[x] = "called" /\ Starting(x))
  BY <1>1, StartingBusy DEF Open
<1> QED BY <1>1, NextKeeps DEF Heap

LEMMA LivesNext ==
    ASSUME Types, Core, Heap, Next
    PROVE  Lives'
<1> SUFFICES ASSUME NEW x \in Objects
             PROVE  (py'[x] = "none" <=> fin'[x] = "unset") /\ (py'[x] = "dead" => fin'[x] = "called")
  BY DEF Lives
<1>1. (py[x] = "none" <=> fin[x] = "unset") /\ (py[x] = "dead" => fin[x] = "called")
  BY DEF Heap, Lives
<1>2. CASE py'[x] = py[x]
  BY <1>1, <1>2, NextFin
<1>3. CASE py[x] = "none" /\ py'[x] = "alive" /\ fin[x] = "unset" /\ fin'[x] = "alive"
  BY <1>3
<1>4. CASE py[x] = "alive" /\ py'[x] = "dying"
  BY <1>1, <1>4, NextFin
<1>5. CASE py[x] \in {"alive", "dying"} /\ py'[x] = "dead" /\ fin[x] = "called"
  BY <1>1, <1>5, NextFin
<1> QED BY <1>2, <1>3, <1>4, <1>5, NextPy

\* The frames of the dying.
LEMMA DroppingNext ==
    ASSUME Types, Core, Heap, Next
    PROVE  Dropping'
<1>0. /\ \A x \in Objects : py[x] = "dying" => \E i \in 1..Len(stack) : DropAt(i, x)
      /\ \A i \in 1..Len(stack), x \in Objects : DropAt(i, x) => py[x] = "dying"
      /\ \A i, j \in 1..Len(stack), x \in Objects : DropAt(i, x) /\ DropAt(j, x) => i = j
      /\ Len(stack) \in Nat
  BY DEF Heap, Dropping, Types
<1>1. CASE DropSame /\ (py' = py \/ MakesApp \/ \E o \in Objects : Vanishes(o) \/ Makes(o))
  <2>1. \A x \in Objects : py'[x] = "dying" <=> py[x] = "dying"
    <3> SUFFICES ASSUME NEW x \in Objects PROVE py'[x] = "dying" <=> py[x] = "dying"
      OBVIOUS
    <3>1. ASSUME NEW o \in Objects, Vanishes(o) PROVE py'[x] = "dying" <=> py[x] = "dying"
      BY <3>1 DEF Vanishes, Types, Loose
    <3>2. ASSUME NEW o \in Objects, Makes(o) PROVE py'[x] = "dying" <=> py[x] = "dying"
      BY <3>2, MadeIs
    <3>3. ASSUME MakesApp PROVE py'[x] = "dying" <=> py[x] = "dying"
      BY <3>3, MadeAppIs
    <3> QED BY <1>1, <3>1, <3>2, <3>3
  <2>2. ASSUME NEW x \in Objects, py'[x] = "dying" PROVE \E i \in 1..Len(stack') : DropAt(i, x)'
    BY <1>0, <1>1, <2>1, <2>2 DEF DropSame
  <2>3. ASSUME NEW i \in 1..Len(stack'), NEW x \in Objects, DropAt(i, x)' PROVE py'[x] = "dying"
    BY <1>0, <1>1, <2>1, <2>3 DEF DropSame
  <2>4. ASSUME NEW i \in 1..Len(stack'), NEW j \in 1..Len(stack'), NEW x \in Objects,
               DropAt(i, x)', DropAt(j, x)'
        PROVE  i = j
    BY <1>0, <1>1, <2>4 DEF DropSame
  <2> QED BY <2>2, <2>3, <2>4 DEF Dropping
<1>2. ASSUME NEW S \in SUBSET Objects, NEW k,
             k = Len(stack) + 1 /\ k \in 1..Len(stack'),
             stack'[k] = DropFrame(S),
             \A i \in 1..Len(stack) : i \in 1..Len(stack') /\ stack'[i] = stack[i],
             \A i \in 1..Len(stack') : i \in 1..Len(stack) \/ i = k \/ stack'[i].kind # "drop",
             \A x \in S : py[x] # "dying",
             \A x \in Objects : py'[x] = "dying" <=> py[x] = "dying" \/ x \in S
      PROVE  Dropping'
  <2>1. \A x : DropAt(k, x)' <=> x \in S
    BY <1>2 DEF DropAt, DropFrame
  <2>2. \A i \in 1..Len(stack), x \in Objects : DropAt(i, x)' <=> DropAt(i, x)
    BY <1>2 DEF DropAt
  <2>3. ASSUME NEW i \in 1..Len(stack'), NEW x, DropAt(i, x)' PROVE i \in 1..Len(stack) \/ i = k
    BY <1>2, <2>3 DEF DropAt
  <2>4. ASSUME NEW x \in Objects, py'[x] = "dying" PROVE \E i \in 1..Len(stack') : DropAt(i, x)'
    BY <1>0, <1>2, <2>1, <2>2, <2>4
  <2>5. ASSUME NEW i \in 1..Len(stack'), NEW x \in Objects, DropAt(i, x)' PROVE py'[x] = "dying"
    BY <1>0, <1>2, <2>1, <2>2, <2>3, <2>5
  <2>6. ASSUME NEW i \in 1..Len(stack'), NEW j \in 1..Len(stack'), NEW x \in Objects,
               DropAt(i, x)', DropAt(j, x)'
        PROVE  i = j
    <3>1. CASE x \in S
      BY <1>0, <1>2, <2>2, <2>3, <2>6, <3>1
    <3>2. CASE x \notin S
      BY <1>0, <2>1, <2>2, <2>3, <2>6, <3>2
    <3> QED BY <3>1, <3>2
  <2> QED BY <2>4, <2>5, <2>6 DEF Dropping
<1>3. ASSUME NEW o \in Objects, DieStarts(o) PROVE Dropping'
  <2>1. /\ Len(stack') = Len(stack) + 2 /\ stack'[Len(stack) + 1] = DropFrame({o})
        /\ stack'[Len(stack) + 2] = CloseFrame(o)
        /\ \A i \in 1..Len(stack) : stack'[i] = stack[i]
    BY <1>3 DEF DieStarts, Pushed2, Upto
  <2>2. py[o] # "dying" /\ \A x \in Objects : py'[x] = "dying" <=> py[x] = "dying" \/ x = o
    BY <1>3 DEF DieStarts, Loose, Types
  <2>3. CloseFrame(o).kind # "drop"
    BY DEF CloseFrame
  <2>4. Len(stack) + 1 \in 1..Len(stack')
    BY <1>0, <2>1
  <2>5. \A i \in 1..Len(stack) : i \in 1..Len(stack')
    BY <1>0, <2>1
  <2>6. \A i \in 1..Len(stack') : i \in 1..Len(stack) \/ i = Len(stack) + 1 \/ i = Len(stack) + 2
    BY <1>0, <2>1
  <2> HIDE DEF DropFrame, CloseFrame
  <2> QED BY <1>2, <2>1, <2>2, <2>3, <2>4, <2>5, <2>6
<1>4. CASE Collects
  <2>1. /\ Len(stack') = Len(stack) + 1 /\ stack'[Len(stack) + 1] = DropFrame(Garbage)
        /\ \A i \in 1..Len(stack) : stack'[i] = stack[i]
    BY <1>4 DEF Collects, Pushed, Upto
  <2>2. /\ Garbage \in SUBSET Objects /\ \A x \in Garbage : py[x] # "dying"
        /\ \A x \in Objects : py'[x] = "dying" <=> py[x] = "dying" \/ x \in Garbage
    BY <1>4, GarbageIs DEF Collects
  <2>3. Len(stack) + 1 \in 1..Len(stack')
    BY <1>0, <2>1
  <2>4. \A i \in 1..Len(stack) : i \in 1..Len(stack')
    BY <1>0, <2>1
  <2>5. \A i \in 1..Len(stack') : i \in 1..Len(stack) \/ i = Len(stack) + 1
    BY <1>0, <2>1
  <2> QED BY <1>2, <2>1, <2>2, <2>3, <2>4, <2>5
<1>5. CASE Goes
  <2>1. /\ Len(stack) \in 1..Len(stack) /\ stack[Len(stack)].kind = "drop"
        /\ Len(stack') = Len(stack) - 1
        /\ \A i \in 1..(Len(stack) - 1) : stack'[i] = stack[i]
    BY <1>5, Tops DEF Goes, TopKind, Cut, Upto, Types
  <2>2. \A x \in Objects : py'[x] = IF DropAt(Len(stack), x) THEN "dead" ELSE py[x]
    BY <1>5, <2>1 DEF Goes, DropAt
  <2>3. \A i \in 1..Len(stack') : /\ i \in 1..Len(stack) /\ i # Len(stack)
                                  /\ stack'[i] = stack[i]
    BY <1>0, <2>1
  <2>4. \A i \in 1..Len(stack) : i # Len(stack) => i \in 1..Len(stack')
    BY <1>0, <2>1
  <2>5. \A i \in 1..Len(stack'), x \in Objects : DropAt(i, x)' <=> DropAt(i, x)
    BY <2>3 DEF DropAt
  <2>6. ASSUME NEW x \in Objects, py'[x] = "dying" PROVE \E i \in 1..Len(stack') : DropAt(i, x)'
    <3>1. py[x] = "dying" /\ ~DropAt(Len(stack), x)
      BY <2>2, <2>6
    <3>2. PICK i \in 1..Len(stack) : DropAt(i, x)
      BY <1>0, <3>1
    <3> QED BY <2>4, <2>5, <3>1, <3>2
  <2>7. ASSUME NEW i \in 1..Len(stack'), NEW x \in Objects, DropAt(i, x)' PROVE py'[x] = "dying"
    BY <1>0, <2>1, <2>2, <2>3, <2>5, <2>7
  <2>8. ASSUME NEW i \in 1..Len(stack'), NEW j \in 1..Len(stack'), NEW x \in Objects,
               DropAt(i, x)', DropAt(j, x)'
        PROVE  i = j
    BY <1>0, <2>3, <2>5, <2>8
  <2> QED BY <2>6, <2>7, <2>8 DEF Dropping
<1> QED BY <1>1, <1>3, <1>4, <1>5, NextDrops

LEMMA DyingOpenNext ==
    ASSUME Types, Core, Heap, Next
    PROVE  DyingOpen'
<1> SUFFICES ASSUME NEW x \in Objects, py'[x] = "dying", Open(x)'
             PROVE  x \in SelfReferring \cup Trunk
  BY DEF DyingOpen
<1>1. CASE py[x] = "dying"
  <2>1. Open(x)
    BY <1>1, NextFin DEF Open
  <2> QED BY <1>1, <2>1 DEF Heap, DyingOpen
<1>2. CASE x \in Garbage /\ Collects
  BY <1>2, GarbageKinds DEF Collects
<1>3. CASE DieStarts(x)
  <2>1. ~Open(x)'
    BY <1>3, StartingBusy DEF Starting
  <2> QED BY <2>1
<1> QED BY <1>1, <1>2, <1>3, NextPy

LEMMA HeapNext ==
    ASSUME Types, Once, Core, Heap, Next
    PROVE  Heap'
BY RootsLiveNext, RefsLiveNext, LivesNext, DroppingNext, DyingOpenNext DEF Heap

LEMMA CoreNext ==
    ASSUME Types, Core, Heap, Next
    PROVE  Core'
<1>0. Classes /\ core' = core
  BY NextClasses, NextHolds
<1>1. core => held' \subseteq Eps \cup Lis \cup Addrs
  <2>1. ASSUME NEW o \in Objects, Makes(o), core PROVE held' \subseteq Eps \cup Lis \cup Addrs
    <3>1. held' = held \cup {o} /\ o \in Eps \cup Lis \cup Addrs
      BY <2>1 DEF Makes
    <3> QED BY <2>1, <3>1 DEF Core
  <2> QED BY <1>0, <2>1, NextHolds DEF Core
<1>2. core => ~closed'
  <2>1. ASSUME NEW o \in Objects, UserStarts(o), core PROVE ~closed'
    <3>1. o \in Eps \cup Lis \cup Addrs
      BY <2>1 DEF UserStarts, Core
    <3>2. o \notin {Ctx, Wrk}
      BY <3>1, Kinds DEF Trunk
    <3> QED BY <2>1, <3>2 DEF UserStarts, Core
  <2> QED BY <1>0, <2>1, NextHolds DEF Core
<1>3. core => \A x \in Mems \cup Rkeys : fin'[x] = "unset"
  <2> SUFFICES ASSUME core, NEW x \in Mems \cup Rkeys, fin'[x] # "unset" PROVE FALSE
    OBVIOUS
  <2>1. fin[x] = "unset" /\ x \in Objects /\ x \notin Trunk
    BY Kinds DEF Core
  <2>2. fin'[x] = "alive" /\ py[x] = "none" /\ py'[x] = "alive"
    BY <2>1, NextFin
  <2>3. PICK o \in Objects : Makes(o)
    <3>1. MakesApp \/ \E o \in Objects : Makes(o)
      BY <2>1, <2>2, NextDrops DEF Collects, Goes, DieStarts, Vanishes, Types, Loose
    <3>2. ~MakesApp
      BY <2>1, <2>2, MadeAppIs
    <3> QED BY <3>1, <3>2
  <2>4. x = o
    BY <2>1, <2>2, <2>3, MadeIs
  <2>5. x \in {Ctx} \cup Eps \cup Lis \cup Addrs
    BY <2>3, <2>4 DEF Makes
  <2> QED BY <2>1, <2>5, ObjectsAssumption DEF Trunk
<1>4. \A x \in Objects : py[x] # "none" => py'[x] # "none"
  BY NextPy
<1>5. py'[App] # "none" => core /\ py'[Ctx] # "none" /\ py'[Wrk] # "none"
  <2>1. CASE py[App] # "none"
    BY <1>4, <2>1, Kinds DEF Core
  <2>2. CASE py[App] = "none" /\ py'[App] # "none"
    <3>1. py'[App] = "alive" /\ App \in Objects
      BY <2>2, NextPy, Kinds
    <3>2. MakesApp \/ \E o \in Objects : Makes(o)
      BY <2>2, <3>1, NextDrops DEF Collects, Goes, DieStarts, Vanishes, Types, Loose
    <3>3. ASSUME NEW o \in Objects PROVE ~Makes(o)
      BY <2>2, <3>1, MadeIs
    <3>4. MakesApp
      BY <3>2, <3>3
    <3> QED BY <3>4, MadeAppIs, Kinds DEF Trunk
  <2> QED BY <2>1, <2>2
<1>6. global' => core
  BY <1>0, NextHolds DEF Core, MakesApp
<1>7. ASSUME NEW i \in 1..Len(stack'), stack'[i].kind = "reset" PROVE py'[App] # "none"
  <2>1. CASE i \in 1..Len(stack)
    BY <1>0, <1>4, <1>7, <2>1, NextFrames, Kinds DEF StaysAt, Core
  <2>2. CASE i \notin 1..Len(stack)
    <3>1. Resets
      BY <1>0, <1>7, <2>2, NextFrames DEF ComesAt
    <3>2. py[App] = "alive"
      BY <3>1, Kinds DEF Resets, Heap, RootsLive, Rooted
    <3> QED BY <1>4, <3>2, Kinds
  <2> QED BY <2>1, <2>2
<1> QED BY <1>0, <1>1, <1>2, <1>3, <1>5, <1>6, <1>7 DEF Core

-----------------------------------------------------------------------------
(* Leaves                                                                   *)

\* Objects are made when nothing runs.
LEMMA NextMade ==
    ASSUME Types, Core, Heap, Next, NEW x \in Objects, py[x] = "none", py'[x] = "alive"
    PROVE  stack = <<>> /\ stack' = stack /\ (Makes(x) \/ (MakesApp /\ x \in Trunk))
<1>1. MakesApp \/ \E o \in Objects : Makes(o)
  BY NextDrops DEF Collects, Goes, DieStarts, Vanishes, Types, Loose
<1>2. ASSUME NEW o \in Objects, Makes(o) PROVE Makes(x) /\ stack = <<>> /\ stack' = stack
  BY <1>2, MadeIs
<1> QED BY <1>1, <1>2, MadeAppIs

\* Who stops referring to an object.
LEMMA NextLetsGo ==
    ASSUME Types, Classes, NEW x \in held, x \notin held'
    PROVE  Drops(x) \/ (AbortReturns /\ x \in Eps)
<1>1. ASSUME NEW o \in Objects, Starting(o) PROVE FALSE
  BY <1>1, StartsUnchanged
<1>2. ASSUME NEW o \in Objects,
             Vanishes(o) \/ Frees(o) \/ Flushes(o) \/ Waits(o) \/ IsClosed(o) \/ CallsUcx(o)
               \/ CallsUser(o) \/ EndsWell(o) \/ Makes(o)
      PROVE  FALSE
  BY <1>2 DEF Vanishes, Frees, Flushes, Waits, IsClosed, CallsUcx, CallsUser, EndsWell, Makes,
              Ready, Works
<1>3. ASSUME NEW o \in Objects, NEW n, FailsAt(o, n) PROVE FALSE
  BY <1>3 DEF FailsAt, Ready, Works
<1>4. ASSUME NEW r, Flushed(r) PROVE FALSE
  BY <1>4 DEF Flushed
<1>5. ASSUME Collects \/ Goes \/ MakesApp \/ UserReturns \/ AbortRaises \/ Resets \/ Exits
               \/ ResetsWell
      PROVE  FALSE
  BY <1>5 DEF Collects, Goes, MakesApp, UserReturns, AbortRaises, Resets, Exits, ResetsWell
<1>6. ASSUME NEW o \in Objects, Drops(o) PROVE Drops(x)
  BY <1>6 DEF Drops
<1>7. CASE AbortReturns
  <2>1. stack[Len(stack)] \in Frames /\ stack[Len(stack)].kind = "abort"
    BY <1>7, Tops DEF AbortReturns, TopKind, Types
  <2>2. stack[Len(stack)].obj \in Eps
    BY <2>1, FrameOf
  <2> QED BY <1>7, <2>2 DEF AbortReturns
<1> QED BY <1>1, <1>2, <1>3, <1>4, <1>5, <1>6, <1>7 DEF Classes

\* When a finalizer is called nothing else becomes loose.
LEMMA StartingLoose ==
    ASSUME Types, NEW o \in Objects, Starting(o)
    PROVE  \A x \in Objects : Loose(x)' => Loose(x) /\ (DieStarts(o) => x # o)
<1>1. /\ UNCHANGED <<core, held, global, flushing>>
      /\ DieStarts(o) \/ py' = py
  BY StartsUnchanged
<1>2. \A x \in Objects : Busy(x)' <=> Busy(x)
  BY StartingBusy
<1>3. \A x : FinArgs(x)' = FinArgs(x)
  BY DEF FinArgs
<1>4. \A x \in Objects : Rooted(x)' <=> Rooted(x)
  BY <1>1, <1>2, <1>3 DEF Rooted
<1>5. DieStarts(o) =>
        /\ py[o] = "alive" /\ \A x \in Objects : py'[x] = IF x = o THEN "dying" ELSE py[x]
  BY DEF DieStarts, Loose, Types
<1>6. \A x \in Objects : py[x] \in {"alive", "dying"} => py'[x] \in {"alive", "dying"}
  BY <1>1, <1>5
<1>7. \A x \in Objects : Refs(x)' = Refs(x)
  BY <1>1, RefsSame
<1>8. \A x \in Objects : Referred(x) => Referred(x)'
  BY <1>6, <1>7 DEF Referred
<1>9. \A x \in Objects : py'[x] = "alive" => py[x] = "alive" /\ (DieStarts(o) => x # o)
  BY <1>1, <1>5
<1> QED BY <1>4, <1>8, <1>9 DEF Loose

LEMMA LeafTopNext ==
    ASSUME Types, Once, Core, Heap, Leaf, Next
    PROVE  LeafTop'
<1>0. Classes /\ Len(stack) \in Nat /\ Len(stack') \in Nat /\ Lives
  BY NextClasses DEF Types, Heap
<1> SUFFICES ASSUME NEW i \in 1..Len(stack'), NEW x \in Leaves, CloseAt(i, x)'
             PROVE  i = Len(stack')
  BY DEF LeafTop
<1>x. x \in Objects /\ x \notin Eps
  BY Kinds
<1>1. ASSUME i \in 1..Len(stack), CloseAt(i, x)
      PROVE  i = Len(stack) /\ Calm /\ TopKind("close") /\ TopClose(x)
  BY <1>0, <1>1 DEF Leaf, LeafTop, LeafCalm, TopKind, TopClose, CloseAt
<1>2. ASSUME NEW o \in Objects, Starting(o), i \in 1..Len(stack), CloseAt(i, x) PROVE FALSE
  <2>1. Calm /\ TopKind("close") /\ TopClose(x)
    BY <1>1, <1>2
  <2>2. KidStarts(o)
    BY <1>2, <2>1 DEF Starting, DieStarts, RunStarts, UserStarts, AbortStarts, ExitStarts, Calm,
                      AtUser, TopKind
  <2>3. Parent(o) \in Leaves
    BY <2>1, <2>2 DEF KidStarts, TopClose, CloseAt
  <2> QED BY <2>3, ParentKinds, Kinds DEF Trunk
<1>3. ASSUME NEW o \in Objects, Starting(o) PROVE i = Len(stack')
  BY <1>2, <1>3, <1>x, StartingCloses
<1>4. CASE ~\E o \in Objects : Starting(o)
  <2>1. i \in 1..Len(stack) /\ CloseAt(i, x)
    BY <1>0, <1>4, <1>x, NextKeeps DEF Keeps
  <2>2. i = Len(stack) /\ TopKind("close") /\ TopClose(x)
    BY <1>1, <2>1
  <2>3. ASSUME NEW o \in Objects, CallsUcx(o) \/ CallsUser(o) PROVE FALSE
    <3>1. o = x /\ Works(o) /\ ~TopAt("kids")
      BY <2>2, <2>3 DEF CallsUcx, CallsUser, Works, TopClose, CloseAt, TopAt
    <3> QED BY <3>1, <1>x, TopPlace DEF PlaceOK, TopAt
  <2>4. ~Collects /\ ~Resets /\ ~Exits
    BY <2>2 DEF Collects, Resets, Exits, AtUser, TopKind
  <2>5. ASSUME NEW o \in Objects, Waits(o) \/ IsClosed(o) PROVE Len(stack') = Len(stack)
    BY <2>5 DEF Waits, IsClosed, Moved
  <2>6. ASSUME NEW n \in 0..Len(stack), Cut(n) PROVE i = Len(stack')
    BY <1>0, <2>2, <2>6 DEF Cut, Upto
  <2> QED BY <1>0, <1>4, <2>2, <2>3, <2>4, <2>5, <2>6, CutClasses
<1> QED BY <1>3, <1>4

LEMMA LeafCalmNext ==
    ASSUME Types, Once, Core, Heap, Leaf, Next
    PROVE  LeafCalm'
<1>0. Classes /\ Len(stack) \in Nat /\ Len(stack') \in Nat /\ Lives
  BY NextClasses DEF Types, Heap
<1> SUFFICES ASSUME NEW x \in Leaves, stack' # <<>>,
                    stack'[Len(stack')].kind = "close", stack'[Len(stack')].obj = x
             PROVE  Calm'
  BY DEF LeafCalm, CloseAt
<1>x. x \in Objects /\ x \notin Eps
  BY Kinds
<1>t. Len(stack') \in 1..Len(stack')
  <2>1. Types'
    BY TypesNext
  <2>2. Len(stack') > 0
    BY <2>1 DEF Types
  <2> QED BY <1>0, <2>2
<1>1. ASSUME NEW o \in Objects, Starting(o) PROVE Calm'
  <2>1. x = o
    <3>1. stack'[Len(stack')].obj = o
      BY <1>1, StartingFrames, FrameMade
    <3> QED BY <3>1
  <2>2. CASE DieStarts(o)
    <3>1. Open(o) /\ Loose(o)
      BY <2>2 DEF DieStarts, Starts
    <3>2. \A y \in Objects : Loose(y) => y = o
      BY <2>1, <3>1 DEF Leaf, LeafAlone
    <3>3. \A y \in Objects : ~Loose(y)'
      BY <1>1, <2>2, <3>2, StartingLoose
    <3> QED BY <3>3 DEF Calm
  <2>3. CASE Calm
    BY <1>1, <2>3, StartingLoose DEF Calm
  <2> QED BY <1>1, <2>2, <2>3, StartsUnchanged
<1>2. CASE ~\E o \in Objects : Starting(o)
  <2>1. Len(stack') \in 1..Len(stack) /\ CloseAt(Len(stack'), x)
    <3>1. Keeps
      BY <1>0, <1>2, NextKeeps
    <3>2. \A i \in 1..Len(stack') : stack'[i].kind = "close" /\ stack'[i].obj = x =>
            i \in 1..Len(stack) /\ CloseAt(i, x)
      BY <1>x, <3>1 DEF Keeps, CloseAt
    <3> QED BY <1>t, <3>2
  <2>2. Len(stack') = Len(stack) /\ Calm /\ TopKind("close") /\ TopClose(x)
    BY <1>0, <2>1 DEF Leaf, LeafTop, LeafCalm, TopKind, TopClose, CloseAt
  <2>3. ASSUME NEW o \in Objects, Works(o), ~TopAt("kids") PROVE FALSE
    <3>1. o = x
      BY <2>2, <2>3 DEF Works, TopClose, CloseAt
    <3> QED BY <2>3, <3>1, <1>x, TopPlace DEF PlaceOK, TopAt
  <2>4. ~Cut(Len(stack) - 1)
    BY <1>0, <2>2 DEF Cut
  <2>5. ASSUME NEW o \in Objects,
               Vanishes(o) \/ Frees(o) \/ Flushes(o) \/ Waits(o) \/ IsClosed(o) \/ CallsUcx(o)
                 \/ CallsUser(o) \/ EndsWell(o) \/ Makes(o) \/ Drops(o)
        PROVE  FALSE
    <3>1. ~Vanishes(o)
      BY <2>2 DEF Vanishes, Calm
    <3>2. ~Frees(o) /\ ~Flushes(o) /\ ~EndsWell(o)
      BY <2>4 DEF Frees, Flushes, EndsWell
    <3>3. ~Waits(o)
      <4> SUFFICES ASSUME Waits(o) PROVE FALSE
        OBVIOUS
      <4>1. o = x /\ o \in Eps
        BY <2>2 DEF Waits, Ready, Works, TopClose, CloseAt
      <4> QED BY <4>1, <1>x
    <3>4. ~IsClosed(o) /\ ~CallsUcx(o) /\ ~CallsUser(o)
      BY <2>3 DEF IsClosed, CallsUcx, CallsUser, TopAt
    <3>5. ~Makes(o) /\ ~Drops(o)
      BY <2>2 DEF Makes, Drops, AtUser, TopKind
    <3> QED BY <2>5, <3>1, <3>2, <3>3, <3>4, <3>5
  <2>6. ASSUME NEW o \in Objects, NEW n, FailsAt(o, n) PROVE FALSE
    <3>1. Len(stack') = n /\ n < Len(stack)
      BY <2>2, <2>6 DEF FailsAt, Raised, Cut, TopKind
    <3> QED BY <3>1, <2>2, <1>0
  <2>7. ASSUME NEW r \in Rkeys, Flushed(r) PROVE FALSE
    <3>1. TopAt("wait")
      BY <2>2, <2>7 DEF Flushed, TopKind
    <3>2. PlaceOK(Len(stack), x)
      BY <1>x, <2>1, <2>2 DEF Once, Places, PlaceOK
    <3> QED BY <3>1, <3>2, <1>x DEF PlaceOK, TopAt
  <2>8. ~Collects /\ ~Goes /\ ~MakesApp /\ ~AbortReturns /\ ~UserReturns /\ ~AbortRaises
    BY <2>2 DEF Collects, Goes, MakesApp, AbortReturns, UserReturns, AbortRaises, AtUser, TopKind
  <2>9. ~Resets /\ ~Exits /\ ~ResetsWell
    BY <2>2 DEF Resets, Exits, ResetsWell, TopKind
  <2> QED BY <1>0, <1>2, <2>5, <2>6, <2>7, <2>8, <2>9 DEF Classes
<1> QED BY <1>1, <1>2

\* A leaf that is loose, and was not, was dropped by the user just now.
LEMMA LeafLoose ==
    ASSUME Types, Once, Core, Heap, Next, NEW x \in Leaves, Open(x)', Loose(x)'
    PROVE  Open(x) /\ (Loose(x) \/ Drops(x))
<1>0. Classes /\ Lives /\ x \in Objects /\ x \notin Eps /\ x \notin Trunk /\ core' = core
  BY NextClasses, NextHolds, Kinds DEF Heap
<1>1. py'[x] = "alive" /\ ~Rooted(x)' /\ ~Referred(x)' /\ fin'[x] = "alive"
  BY DEF Loose, Open
<1>2. py[x] # "none"
  <2> SUFFICES ASSUME py[x] = "none" PROVE FALSE
    OBVIOUS
  <2>1. Makes(x)
    BY <1>0, <1>1, NextMade
  <2>2. x \in held'
    BY <2>1 DEF Makes
  <2> QED BY <1>1, <2>2 DEF Rooted
<1>3. Open(x) /\ fin[x] = "alive" /\ py[x] = "alive"
  <2>1. py[x] = "alive"
    BY <1>0, <1>1, <1>2, NextPy
  <2> QED BY <1>0, <1>1, <1>2, <2>1, NextFin DEF Open
<1>4. CASE x \in held
  <2>1. x \notin held'
    BY <1>1 DEF Rooted
  <2> QED BY <1>0, <1>3, <1>4, <2>1, NextLetsGo
<1>5. x \notin flushing
  BY <1>0, <1>3 DEF Once, Uncalled
<1>6. ~(global /\ x = App)
  BY <1>0 DEF Trunk
<1>7. ASSUME NEW o \in Objects, Busy(o), x \in FinArgs(o) PROVE FALSE
  <2>1. x = o /\ x \in FinArgs(x)
    BY <1>7, Givers
  <2>2. Busy(x)' /\ FinArgs(x)' = FinArgs(x)
    BY DEF Busy, FinArgs
  <2> QED BY <1>0, <1>1, <2>1, <2>2 DEF Rooted
<1>8. ~Referred(x)
  <2> SUFFICES ASSUME Referred(x) PROVE FALSE
    OBVIOUS
  <2>1. PICK q \in Objects : x \in Refs(q)
    BY DEF Referred
  <2>2. x \in Refs(x)
    BY <2>1, Referrers
  <2>3. x \in Refs(x)'
    BY <1>0, <2>2, RefsSame
  <2> QED BY <1>0, <1>1, <2>3 DEF Referred
<1>9. CASE x \notin held
  BY <1>3, <1>5, <1>6, <1>7, <1>8, <1>9 DEF Loose, Rooted
<1> QED BY <1>4, <1>9

LEMMA LeafAloneNext ==
    ASSUME Types, Once, Core, Heap, Leaf, Next
    PROVE  LeafAlone'
<1>0. Classes
  BY NextClasses
<1> SUFFICES ASSUME NEW x \in Leaves, Open(x)', Loose(x)', NEW y \in Objects, Loose(y)'
             PROVE  y = x
  BY DEF LeafAlone
<1>x. x \in Objects
  BY Kinds
<1>1. Open(x) /\ (Loose(x) \/ Drops(x))
  BY LeafLoose
<1>2. CASE Loose(x)
  <2>1. \A z \in Objects : Loose(z) => z = x
    BY <1>1, <1>2 DEF Leaf, LeafAlone
  <2>2. ~Calm
    BY <1>2, <1>x DEF Calm
  <2>3. PICK o \in Objects : DieStarts(o) \/ Vanishes(o)
    <3>1. ASSUME NEW o \in Objects, Starting(o) PROVE DieStarts(o)
      BY <2>2, <3>1, StartsUnchanged
    <3>2. ASSUME NEW o \in Objects,
                 \/ Frees(o) \/ Flushes(o) \/ Waits(o) \/ IsClosed(o) \/ CallsUcx(o)
                 \/ CallsUser(o) \/ EndsWell(o) \/ Makes(o) \/ Drops(o)
          PROVE  Calm
      BY <3>2 DEF Frees, Flushes, Waits, IsClosed, CallsUcx, CallsUser, EndsWell, Makes, Drops,
                  Ready, Works
    <3>3. ASSUME NEW o \in Objects, NEW n, FailsAt(o, n) PROVE Calm
      BY <3>3 DEF FailsAt, Ready, Works
    <3>4. ASSUME NEW r, Flushed(r) PROVE Calm
      BY <3>4 DEF Flushed
    <3>5. ASSUME \/ Collects \/ Goes \/ MakesApp \/ AbortReturns \/ UserReturns \/ AbortRaises
                 \/ Resets \/ Exits \/ ResetsWell
          PROVE  Calm
      BY <3>5 DEF Collects, Goes, MakesApp, AbortReturns, UserReturns, AbortRaises, Resets, Exits,
                  ResetsWell
    <3> QED BY <1>0, <2>2, <3>1, <3>2, <3>3, <3>4, <3>5 DEF Classes
  <2>4. CASE DieStarts(o)
    BY <2>1, <2>4, StartingLoose DEF Starting
  <2>5. CASE Vanishes(o)
    BY <1>1, <2>1, <2>5 DEF Vanishes
  <2> QED BY <2>3, <2>4, <2>5
<1>3. CASE Drops(x)
  <2>1. /\ Calm /\ held' = held \ {x}
        /\ UNCHANGED <<core, py, fin, global, stack, flushing>>
    BY <1>3 DEF Drops, heap
  <2>2. \A o : /\ Busy(o)' <=> Busy(o)
               /\ FinArgs(o)' = FinArgs(o) /\ Refs(o)' = Refs(o)
    BY <2>1, RefsSame DEF Busy, Open, Closing, CloseAt, FinArgs
  <2>3. ASSUME y # x PROVE Rooted(y)' <=> Rooted(y)
    BY <2>1, <2>2, <2>3 DEF Rooted
  <2>4. Referred(y)' <=> Referred(y)
    BY <2>1, <2>2 DEF Referred
  <2> QED BY <2>1, <2>3, <2>4 DEF Loose, Calm
<1> QED BY <1>1, <1>2, <1>3

LEMMA LeafNext ==
    ASSUME Types, Once, Core, Heap, Leaf, Next
    PROVE  Leaf'
BY LeafTopNext, LeafCalmNext, LeafAloneNext DEF Leaf

-----------------------------------------------------------------------------
(* The order in which finalizers run                                        *)

\* What a busy object holds on to is not what dies, nor what the collector has found.
LEMMA StartRooted ==
    ASSUME Types, Heap, NEW o \in Objects, Starting(o), Rooted(o) \/ Referred(o), py[o] = "alive",
           o \in {Ctx, Wrk}
    PROVE  KidStarts(o) \/ UserStarts(o) \/ ExitStarts(o)
<1>1. ~DieStarts(o)
  BY DEF DieStarts, Loose
<1>2. ~RunStarts(o)
  <2> SUFFICES ASSUME RunStarts(o) PROVE FALSE
    OBVIOUS
  <2>1. Len(stack) \in 1..Len(stack) /\ DropAt(Len(stack), o)
    BY Tops DEF RunStarts, TopKind, Types
  <2> QED BY <2>1 DEF Heap, Dropping
<1>3. ~AbortStarts(o)
  BY Kinds DEF AbortStarts, Trunk
<1> QED BY <1>1, <1>2, <1>3 DEF Starting

\* What a child at work, or not yet finalized, keeps alive.
LEMMA BusyHolds ==
    ASSUME Types, Heap
    PROVE  /\ \A e \in Eps : Busy(e) => Rooted(Wrk) /\ py[Wrk] = "alive"
           /\ \A e \in Eps : Busy(e) => Referred(Ctx) /\ py[Ctx] = "alive"
           /\ \A o \in Mems \cup {Wrk} : Busy(o) => Rooted(Ctx) /\ py[Ctx] = "alive"
<1>0. RootsLive /\ RefsLive /\ Wrk \in Objects /\ Ctx \in Objects
  BY Kinds DEF Heap
<1>1. ASSUME NEW e \in Eps, Busy(e) PROVE Rooted(Wrk) /\ py[Wrk] = "alive"
  <2>1. e \in Objects /\ Wrk \in FinArgs(e)
    BY Kinds, FinArgsOf
  <2>2. Rooted(Wrk)
    BY <1>1, <2>1 DEF Rooted
  <2> QED BY <1>0, <2>2 DEF RootsLive
<1>2. ASSUME py[Wrk] = "alive" PROVE Referred(Ctx) /\ py[Ctx] = "alive"
  <2>1. Ctx \in Refs(Wrk)
    BY RefsOf
  <2> QED BY <1>0, <1>2, <2>1 DEF RefsLive, Referred
<1>3. ASSUME NEW o \in Mems \cup {Wrk}, Busy(o) PROVE Rooted(Ctx) /\ py[Ctx] = "alive"
  <2>1. o \in Objects /\ Ctx \in FinArgs(o)
    BY Kinds, FinArgsOf
  <2>2. Rooted(Ctx)
    BY <1>3, <2>1 DEF Rooted
  <2> QED BY <1>0, <2>2 DEF RootsLive
<1> QED BY <1>1, <1>2, <1>3

\* The finalizer that the exit function calls is the only one.
LEMMA ExitAlone ==
    ASSUME Types, Order, NEW o \in Objects, ExitStarts(o)
    PROVE  Len(stack) = 1 /\ \A x : ~Closing(x)
<1>1. Len(stack) \in 1..Len(stack) /\ stack[Len(stack)].kind = "exit"
  BY Tops DEF ExitStarts, TopKind, Types
<1>2. Len(stack) = 1
  BY <1>1 DEF Order
<1>3. \A i \in 1..Len(stack) : stack[i].kind = "exit"
  BY <1>1, <1>2
<1> QED BY <1>2, <1>3 DEF Closing, CloseAt

\* The worker's finalizer is not called above that of an endpoint, nor the context's
\* above that of its worker or of an endpoint.
LEMMA WorkerStarts ==
    ASSUME Types, Heap, Order, Starting(Wrk), NEW e \in Eps, Closing(e)
    PROVE  FALSE
<1>0. Wrk \in Objects /\ e \in Objects
  BY Kinds
<1>1. KidStarts(Wrk) \/ UserStarts(Wrk) \/ ExitStarts(Wrk)
  BY <1>0, BusyHolds, StartRooted DEF Busy
<1>2. PICK j \in 1..Len(stack) : CloseAt(j, e)
  BY DEF Closing
<1>3. CASE KidStarts(Wrk)
  <2>1. Len(stack) \in 1..Len(stack) /\ CloseAt(Len(stack), Ctx)
    BY <1>3, Tops, ParentOf DEF KidStarts, TopKind, CloseAt, Types
  <2>2. Len(stack) < j
    BY <1>2, <2>1 DEF Order
  <2> QED BY <2>2, <1>2 DEF Types
<1>4. CASE UserStarts(Wrk)
  <2>1. stack # <<>>
    BY <1>2 DEF Types
  <2>2. Wrk \in Eps \cup Lis
    BY <1>4, <2>1 DEF UserStarts
  <2> QED BY <2>2, Kinds DEF Trunk
<1>5. CASE ExitStarts(Wrk)
  BY <1>0, <1>5, ExitAlone
<1> QED BY <1>1, <1>3, <1>4, <1>5

LEMMA ContextStarts ==
    ASSUME Types, Heap, Order, Starting(Ctx)
    PROVE  /\ \A x \in Eps \cup {Wrk} : ~Closing(x)
           /\ Open(Wrk) => stack = <<>> /\ UserStarts(Ctx)
<1>0. Wrk \in Objects /\ Ctx \in Objects /\ Eps \subseteq Objects
  BY Kinds
<1>1. ASSUME NEW x \in Eps \cup {Wrk}, Busy(x) PROVE UserStarts(Ctx) \/ ExitStarts(Ctx)
  <2>1. (Rooted(Ctx) \/ Referred(Ctx)) /\ py[Ctx] = "alive"
    BY <1>1, BusyHolds
  <2>2. ~KidStarts(Ctx)
    BY DEF KidStarts
  <2> QED BY <1>0, <2>1, <2>2, StartRooted
<1>2. ASSUME UserStarts(Ctx) PROVE stack = <<>>
  <2> SUFFICES ASSUME stack # <<>> PROVE FALSE
    OBVIOUS
  <2>1. Ctx \in Eps \cup Lis
    BY <1>2 DEF UserStarts
  <2> QED BY <2>1, Kinds DEF Trunk
<1>3. ASSUME ExitStarts(Ctx) PROVE ~Open(Wrk) /\ \A x : ~Closing(x)
  <2>1. Wrk \in Younger(Ctx)
    BY <1>0, ParentOf, ObjectsAssumption DEF Younger
  <2> QED BY <1>0, <1>3, <2>1, ExitAlone DEF ExitStarts
<1>4. ASSUME NEW x \in Eps \cup {Wrk}, Closing(x) PROVE FALSE
  <2>1. UserStarts(Ctx) \/ ExitStarts(Ctx)
    BY <1>1, <1>4 DEF Busy
  <2>2. stack # <<>>
    BY <1>4 DEF Closing, Types
  <2> QED BY <1>2, <1>3, <1>4, <2>1, <2>2
<1> QED BY <1>1, <1>2, <1>3, <1>4 DEF Busy

LEMMA OrderNext ==
    ASSUME Types, Core, Heap, Order, Next
    PROVE  Order'
<1>0. /\ Classes /\ Len(stack) \in Nat /\ Len(stack') \in Nat /\ Lives
      /\ Wrk \in Objects /\ Ctx \in Objects /\ Eps \subseteq Objects /\ Wrk \notin Eps
      /\ Ctx \notin Eps /\ Ctx # Wrk
  BY NextClasses, Kinds, ObjectsAssumption DEF Types, Heap, Trunk
<1>1. ASSUME NEW o \in Objects, Starting(o)
      PROVE  /\ \A i \in 1..Len(stack'), x \in Objects : CloseAt(i, x)' =>
                  (i \in 1..Len(stack) /\ CloseAt(i, x)) \/ (i = Len(stack') /\ x = o)
             /\ \A i \in 1..Len(stack) : i < Len(stack')
  BY <1>0, <1>1, StartingCloses, StartingFrames
<1>2. ASSUME NEW i \in 1..Len(stack'), NEW j \in 1..Len(stack'), NEW e \in Eps,
             CloseAt(i, Wrk)', CloseAt(j, e)'
      PROVE  i < j
  <2>1. CASE Keeps
    BY <1>0, <1>2, <2>1 DEF Keeps, Order
  <2>2. ASSUME NEW o \in Objects, Starting(o) PROVE i < j
    <3>1. CASE i \in 1..Len(stack) /\ CloseAt(i, Wrk)
      BY <1>0, <1>1, <1>2, <2>2, <3>1 DEF Order
    <3>2. CASE i = Len(stack') /\ Wrk = o
      <4>1. j \in 1..Len(stack) /\ CloseAt(j, e)
        BY <1>0, <1>1, <1>2, <2>2, <3>2
      <4> QED BY <2>2, <3>2, <4>1, WorkerStarts DEF Closing
    <3> QED BY <1>0, <1>1, <1>2, <2>2, <3>1, <3>2
  <2> QED BY <1>0, <2>1, <2>2, NextKeeps
<1>3. ASSUME NEW i \in 1..Len(stack'), NEW j \in 1..Len(stack'), NEW e \in Eps \cup {Wrk},
             CloseAt(i, Ctx)', CloseAt(j, e)'
      PROVE  i < j
  <2>1. CASE Keeps
    BY <1>0, <1>3, <2>1 DEF Keeps, Order
  <2>2. ASSUME NEW o \in Objects, Starting(o) PROVE i < j
    <3>1. CASE i \in 1..Len(stack) /\ CloseAt(i, Ctx)
      BY <1>0, <1>1, <1>3, <2>2, <3>1 DEF Order
    <3>2. CASE i = Len(stack') /\ Ctx = o
      <4>1. j \in 1..Len(stack) /\ CloseAt(j, e)
        BY <1>0, <1>1, <1>3, <2>2, <3>2
      <4> QED BY <2>2, <3>2, <4>1, ContextStarts DEF Closing
    <3> QED BY <1>0, <1>1, <1>3, <2>2, <3>1, <3>2
  <2> QED BY <1>0, <2>1, <2>2, NextKeeps
<1>4. ASSUME NEW i \in 1..Len(stack'), CloseAt(i, Ctx)'
      PROVE  ~Open(Wrk)' \/ (i = 1 /\ closed')
  <2>1. closed => closed'
    BY <1>0, NextHolds DEF UserStarts
  <2>2. CASE i \in 1..Len(stack) /\ CloseAt(i, Ctx)
    <3>1. ~Open(Wrk) \/ (i = 1 /\ closed)
      BY <2>2 DEF Order
    <3>2. stack # <<>>
      BY <2>2
    <3>3. ~Open(Wrk) => ~Open(Wrk)'
      BY <1>0, <3>2, NextFin, NextMade DEF Open
    <3> QED BY <2>1, <3>1, <3>3
  <2>3. ASSUME NEW o \in Objects, Starting(o), i = Len(stack') /\ Ctx = o
        PROVE  ~Open(Wrk)' \/ (i = 1 /\ closed')
    <3> SUFFICES ASSUME Open(Wrk)' PROVE i = 1 /\ closed'
      OBVIOUS
    <3>1. Open(Wrk)
      BY <1>0, <2>3, StartingBusy
    <3>2. stack = <<>> /\ UserStarts(Ctx)
      BY <2>3, <3>1, ContextStarts
    <3>3. closed' /\ Len(stack') = Len(stack) + 1
      BY <3>2 DEF UserStarts, Pushed
    <3>4. Len(stack) = 0
      BY <3>2
    <3> QED BY <2>3, <3>3, <3>4
  <2>4. CASE Keeps
    BY <1>0, <1>4, <2>2, <2>4 DEF Keeps
  <2> QED BY <1>0, <1>1, <1>4, <2>2, <2>3, <2>4, NextKeeps
<1>5. ASSUME NEW i \in 1..Len(stack'), stack'[i].kind \in {"exit", "reset"}
      PROVE  i = 1
  <2>1. CASE i \in 1..Len(stack)
    BY <1>0, <1>5, <2>1, NextFrames DEF StaysAt, Order
  <2>2. CASE i \notin 1..Len(stack)
    BY <1>0, <1>5, <2>2, NextFrames DEF ComesAt
  <2> QED BY <2>1, <2>2
<1> QED BY <1>2, <1>3, <1>4, <1>5 DEF Order

\* The frame above a finalizer is one it called, or interrupts it.
LEMMA NestedNext ==
    ASSUME Types, Order, Nested, Next
    PROVE  Nested'
<1>0. Classes /\ Len(stack) \in Nat /\ Len(stack') \in Nat
  BY NextClasses DEF Types
<1> SUFFICES ASSUME NEW i \in 1..Len(stack'), i < Len(stack'), stack'[i].kind = "close"
             PROVE  Inside(stack'[i], stack'[i + 1])
  BY DEF Nested
<1>1. i + 1 \in 1..Len(stack')
  BY <1>0
<1>2. CASE i + 1 \in 1..Len(stack)
  <2>1. i \in 1..Len(stack) /\ i < Len(stack) /\ i # Len(stack)
    BY <1>0, <1>2
  <2>2. stack'[i] = stack[i]
    BY <1>0, <2>1, NextFrames DEF StaysAt
  <2>3. Inside(stack[i], stack[i + 1])
    BY <2>1, <2>2 DEF Nested
  <2>4. StaysAt(i + 1)
    BY <1>0, <1>1, <1>2, NextFrames
  <2> QED BY <2>2, <2>3, <2>4 DEF StaysAt, Inside
<1>3. CASE i + 1 \notin 1..Len(stack)
  <2>1. i >= Len(stack) /\ (i \in 1..Len(stack) => i = Len(stack))
    BY <1>0, <1>3
  <2>2. ASSUME NEW f, Pushed(f) PROVE i \in 1..Len(stack) /\ stack'[i] = stack[i] /\ stack'[i + 1] = f
    BY <1>0, <2>1, <2>2 DEF Pushed, Upto
  <2>3. i \in 1..Len(stack) /\ stack'[i] = stack[i] => TopKind("close")
    BY <2>1 DEF TopKind
  <2>4. ASSUME NEW o \in Objects, Starting(o) PROVE Inside(stack'[i], stack'[i + 1])
    <3>1. i \in 1..Len(stack) /\ i = Len(stack) /\ stack'[i] = stack[i] /\ TopKind("close")
      <4>1. i \in 1..Len(stack)
        BY <2>4, StartingFrames
      <4> QED BY <2>1, <2>3, <2>4, <4>1, StartingFrames
    <3>2. DieStarts(o) \/ KidStarts(o)
      BY <2>4, <3>1 DEF Starting, RunStarts, UserStarts, AbortStarts, ExitStarts, AtUser, TopKind
    <3>3. CASE DieStarts(o)
      <4>1. stack'[i + 1] = DropFrame({o})
        BY <3>1, <3>3 DEF DieStarts, Pushed2
      <4> QED BY <4>1 DEF Inside, DropFrame
    <3>4. CASE KidStarts(o)
      <4>1. stack'[i + 1] = CloseFrame(o)
        BY <3>1, <3>4 DEF KidStarts, Pushed
      <4>2. stack'[i + 1].kind = "close" /\ stack'[i + 1].obj = o
        BY <4>1, FrameMade
      <4> QED BY <3>1, <3>4, <4>2 DEF Inside, KidStarts, TopAt
    <3> QED BY <3>2, <3>3, <3>4
  <2>5. ASSUME NEW o \in Objects, CallsUcx(o) PROVE Inside(stack'[i], stack'[i + 1])
    <3>1. stack'[i + 1] = [kind |-> "ucx"]
      BY <2>2, <2>5 DEF CallsUcx
    <3> QED BY <3>1 DEF Inside
  <2>6. ASSUME NEW o \in Objects, CallsUser(o) PROVE Inside(stack'[i], stack'[i + 1])
    <3>1. Len(stack') = Len(stack) + 1 /\ stack'[Len(stack) + 1] = [kind |-> "user"]
          /\ stack'[Len(stack)].at = "done"
      BY <2>6, CallsUserKeeps DEF CallsUser
    <3>2. i = Len(stack)
      BY <1>0, <2>1, <3>1
    <3> QED BY <3>1, <3>2 DEF Inside
  <2>7. ASSUME NEW o \in Objects, Waits(o) \/ IsClosed(o) PROVE FALSE
    <3>1. Len(stack') = Len(stack)
      BY <2>7 DEF Waits, IsClosed, Moved
    <3> QED BY <1>0, <1>3, <3>1
  <2>8. ~Collects
    BY <2>2, <2>3 DEF Collects, AtUser, TopKind
  <2>9. ~Resets /\ ~Exits
    BY <2>2 DEF Resets, Exits
  <2>10. stack' # stack
    BY <1>1, <1>3
  <2>11. ASSUME NEW n \in 0..Len(stack), Cut(n) PROVE FALSE
    BY <1>0, <1>1, <1>3, <2>11 DEF Cut, Upto
  <2> QED BY <1>0, <2>4, <2>5, <2>6, <2>7, <2>8, <2>9, <2>10, <2>11, CutClasses
<1> QED BY <1>2, <1>3

\* No finalizer of a worker or of a context is called with a child of it busy, unless the
\* user calls it.
LEMMA ParentStarts ==
    ASSUME Types, Heap, Order, NEW o \in Mems \cup {Wrk} \cup Eps, Busy(o),
           Open(Parent(o)), Starting(Parent(o))
    PROVE  closed'
<1>0. Wrk \in Objects /\ Ctx \in Objects /\ o \in Objects /\ o # Ctx
  BY Kinds, ObjectsAssumption DEF Trunk
<1>1. ASSUME ExitStarts(Parent(o)), Parent(o) \in Objects PROVE FALSE
  <2>1. o \in Younger(Parent(o))
    BY <1>0 DEF Younger
  <2>2. ~Open(o)
    BY <1>1, <2>1 DEF ExitStarts
  <2>3. ~Closing(o)
    BY <1>1, ExitAlone
  <2> QED BY <2>2, <2>3 DEF Busy
<1>2. CASE o \in Eps
  <2>1. Parent(o) = Wrk /\ Rooted(Wrk) /\ py[Wrk] = "alive"
    BY <1>2, BusyHolds, ParentOf
  <2>2. KidStarts(Wrk) \/ UserStarts(Wrk)
    BY <1>0, <1>1, <2>1, StartRooted
  <2>3. CASE KidStarts(Wrk)
    <3>1. Len(stack) \in 1..Len(stack) /\ CloseAt(Len(stack), Ctx)
      BY <2>3, Tops, ParentOf DEF KidStarts, TopKind, CloseAt, Types
    <3>2. closed /\ closed' = closed
      BY <2>1, <2>3, <3>1 DEF Order, KidStarts
    <3> QED BY <3>2
  <2>4. CASE UserStarts(Wrk)
    BY <2>4 DEF UserStarts
  <2> QED BY <2>2, <2>3, <2>4
<1>3. CASE o \in Mems \cup {Wrk}
  <2>1. Parent(o) = Ctx /\ Rooted(Ctx) /\ py[Ctx] = "alive"
    BY <1>3, BusyHolds, ParentOf
  <2>2. ~KidStarts(Ctx)
    BY DEF KidStarts
  <2>3. UserStarts(Ctx)
    BY <1>0, <1>1, <2>1, <2>2, StartRooted
  <2> QED BY <2>3 DEF UserStarts
<1> QED BY <1>2, <1>3

\* A parent is open when a child is made.
LEMMA MadeUnder ==
    ASSUME Types, Core, Heap, Next, NEW o \in Objects \ {App, Ctx},
           py[o] = "none", py'[o] = "alive"
    PROVE  /\ Open(Parent(o))'
           /\ Open(Parent(o)) \/ (fin[Parent(o)] = "unset" /\ o = Wrk)
<1>0. Ctx \in Objects /\ Wrk \in Objects /\ App # Wrk /\ Ctx # Wrk
      /\ Parent(o) \in Objects
  BY Kinds, ObjectsAssumption, ParentKinds
<1>1. CASE Makes(o)
  <2>1. Open(Parent(o))
    <3>1. CASE o \in Mems \cup {Wrk}
      <4>1. Open(Ctx) \/ o = Ctx \/ o \in Eps \cup Lis \cup Addrs \cup Rkeys
        BY <1>1 DEF Makes
      <4>2. o \notin Eps \cup Lis \cup Addrs \cup Rkeys
        BY <3>1, ObjectsAssumption DEF Trunk
      <4> QED BY <3>1, <4>1, <4>2, ParentOf
    <3>2. CASE o \in Eps \cup Lis \cup Addrs
      <4>1. Open(Wrk)
        BY <1>1, <3>2, ObjectsAssumption DEF Makes, Trunk
      <4> QED BY <3>2, <4>1, ParentOf
    <3>3. CASE o \in Rkeys
      <4>1. Open(EpOf[o])
        BY <1>1, <3>3, ObjectsAssumption DEF Makes, Trunk
      <4> QED BY <3>3, <4>1, ParentOf
    <3> QED BY <3>1, <3>2, <3>3 DEF Objects, Trunk
  <2>2. fin'[Parent(o)] = "alive"
    BY <1>0, <1>1, <2>1, MadeIs DEF Open
  <2> QED BY <2>1, <2>2 DEF Open
<1>2. CASE MakesApp /\ o \in Trunk
  <2>1. o = Wrk /\ Parent(o) = Ctx
    BY <1>2, ParentOf DEF Trunk
  <2>2. fin'[Ctx] = "alive" /\ py[Ctx] = "none"
    BY <1>0, <1>2, MadeAppIs DEF Trunk
  <2> QED BY <1>0, <2>1, <2>2 DEF Open, Heap, Lives
<1> QED BY <1>1, <1>2, NextMade

LEMMA UnderNext ==
    ASSUME Types, Core, Heap, Order, Under, Next
    PROVE  Under'
<1>0. Classes /\ (closed => closed') /\ Lives
  <2>1. Classes /\ Lives
    BY NextClasses DEF Heap
  <2>2. closed' = closed \/ \E o \in Objects : UserStarts(o)
    BY <2>1, NextHolds
  <2>3. (\E o \in Objects : UserStarts(o)) => (closed => closed')
    BY DEF UserStarts
  <2> QED BY <2>1, <2>2, <2>3
<1> SUFFICES ASSUME ~closed', NEW o \in Mems \cup {Wrk} \cup Eps, Busy(o)'
             PROVE  Open(Parent(o))'
  <2>1. \A o : Parent(o)' = Parent(o)
    BY DEF Parent
  <2> QED BY <2>1 DEF Under, Open
<1>1. o \in Objects \ {App, Ctx} /\ Parent(o) \in Objects
  BY Kinds, ParentKinds, ObjectsAssumption DEF Trunk
<1>2. CASE Busy(o)
  <2>1. Open(Parent(o))
    BY <1>0, <1>2 DEF Under
  <2>2. ~Starting(Parent(o))
    BY <1>2, <2>1, ParentStarts
  <2> QED BY <1>1, <2>1, <2>2, NextFin DEF Open
<1>3. CASE py[o] = "none" /\ py'[o] = "alive"
  BY <1>1, <1>3, MadeUnder
<1> QED BY <1>0, <1>1, <1>2, <1>3, NextBusy

\* A frame whose finalizer goes on.
LEMMA NextPlace ==
    ASSUME Types, Classes, NEW i \in 1..Len(stack'), i \in 1..Len(stack), stack'[i] # stack[i]
    PROVE  /\ i = Len(stack)
           /\ \E o \in Objects : CloseAt(i, o) /\ (Waits(o) \/ IsClosed(o) \/ CallsUser(o))
<1>0. Len(stack) \in Nat
  BY DEF Types
<1>1. i = Len(stack)
  BY NextFrames DEF StaysAt
<1>2. ASSUME NEW o \in Objects, Starting(o) PROVE FALSE
  BY <1>2, StartingFrames
<1>3. ASSUME NEW f, Pushed(f) PROVE FALSE
  BY <1>3 DEF Pushed, Upto
<1>4. ASSUME NEW o \in Objects, CallsUcx(o) PROVE FALSE
  BY <1>3, <1>4 DEF CallsUcx
<1>5. ~Collects /\ ~Resets /\ ~Exits
  BY <1>3 DEF Collects, Resets, Exits
<1>6. ASSUME NEW n \in 0..Len(stack), Cut(n) PROVE FALSE
  BY <1>0, <1>6 DEF Cut, Upto
<1>7. ASSUME NEW o \in Objects, Waits(o) \/ IsClosed(o) \/ CallsUser(o) PROVE CloseAt(Len(stack), o)
  BY <1>7 DEF Waits, IsClosed, CallsUser, Ready, Works, TopClose
<1> QED BY <1>1, <1>2, <1>4, <1>5, <1>6, <1>7, CutClasses

\* close() on the children leaves none of them open.
LEMMA NoKids ==
    ASSUME Types, Heap, NEW o, Kids(o) = {}, NEW k \in Objects \ {App, Ctx}, Parent(k) = o, Open(k)
    PROVE  py[k] = "dying" /\ k \in SelfReferring \cup {Wrk}
<1>1. py[k] # "alive"
  BY DEF Kids
<1>2. py[k] # "none" /\ py[k] # "dead"
  BY DEF Heap, Lives, Open
<1>3. py[k] = "dying"
  BY <1>1, <1>2 DEF Types
<1> QED BY <1>3 DEF Heap, DyingOpen, Trunk

\* A key's finalizer is not at work below that of another object.
LEMMA LeafBelow ==
    ASSUME Types, Leaf, NEW o \in Objects, TopClose(o), NEW k \in Leaves, Closing(k)
    PROVE  k = o
<1>1. PICK i \in 1..Len(stack) : CloseAt(i, k)
  BY DEF Closing
<1>2. i = Len(stack)
  BY <1>1 DEF Leaf, LeafTop
<1> QED BY <1>1, <1>2 DEF TopClose, CloseAt

LEMMA KeysDoneNext ==
    ASSUME Types, Core, Heap, Leaf, KeysDone, Next
    PROVE  KeysDone'
<1>0. Classes /\ Lives
  BY NextClasses DEF Heap
<1> SUFFICES ASSUME NEW i \in 1..Len(stack'), NEW r \in Rkeys, CloseAt(i, EpOf[r])',
                    stack'[i].at # "kids"
             PROVE  ~Busy(r)'
  BY DEF KeysDone
<1>1. /\ r \in Objects \ {App, Ctx} /\ r \in Leaves /\ r \notin SelfReferring /\ r # Wrk
      /\ EpOf[r] \in Eps /\ EpOf[r] \in Objects /\ EpOf[r] # r /\ Parent(r) = EpOf[r]
  BY Kinds, ParentOf, ObjectsAssumption DEF Trunk
<1>2. i \in 1..Len(stack) /\ CloseAt(i, EpOf[r])
  <2>1. ASSUME NEW o \in Objects, Starting(o) PROVE i \in 1..Len(stack) /\ CloseAt(i, EpOf[r])
    <3>1. CASE i = Len(stack') /\ EpOf[r] = o
      <4>1. stack'[i].at = "kids"
        BY <1>1, <2>1, <3>1, StartingFrames, FrameMade
      <4> QED BY <4>1
    <3> QED BY <1>1, <2>1, <3>1, StartingCloses
  <2>2. CASE Keeps
    BY <1>1, <2>2 DEF Keeps
  <2> QED BY <1>0, <2>1, <2>2, NextKeeps
<1>3. ~Busy(r)
  <2>1. CASE stack'[i] = stack[i]
    BY <1>2, <2>1 DEF KeysDone
  <2>2. ASSUME stack'[i] # stack[i] PROVE ~Busy(r)
    <3>1. PICK o \in Objects : CloseAt(i, o) /\ (Waits(o) \/ IsClosed(o) \/ CallsUser(o))
      BY <1>0, <1>2, <2>2, NextPlace
    <3>2. o = EpOf[r] /\ i = Len(stack)
      BY <1>0, <1>2, <2>2, <3>1, NextPlace DEF CloseAt
    <3>3. CASE IsClosed(o) \/ CallsUser(o)
      BY <1>2, <3>2, <3>3 DEF IsClosed, CallsUser, TopAt, KeysDone
    <3>4. CASE Waits(o)
      <4>1. Kids(EpOf[r]) = {} /\ TopClose(EpOf[r])
        BY <3>2, <3>4 DEF Waits, Ready, Works
      <4>2. ~Open(r)
        BY <1>1, <4>1, NoKids
      <4>3. ~Closing(r)
        BY <1>1, <4>1, LeafBelow
      <4> QED BY <4>2, <4>3 DEF Busy
    <3> QED BY <3>1, <3>3, <3>4
  <2> QED BY <2>1, <2>2
<1>4. stack # <<>>
  BY <1>2
<1> QED BY <1>0, <1>1, <1>3, <1>4, NextBusy, NextMade

-----------------------------------------------------------------------------
(* No use after free                                                        *)

\* What a step does to one handle.
LEMMA NextFrees ==
    ASSUME Types, Once, Lives, Next, NEW x \in Objects
    PROVE  /\ \/ frees'[x] = frees[x]
              \/ /\ frees[x] = 0 /\ frees'[x] = 1
                 /\ Frees(x) \/ IsClosed(x) \/ x \in flushing
           /\ x \in flushing' => x \in flushing \/ Flushes(x)
           /\ x \in flushing => x \in flushing' \/ frees'[x] = 1
<1>0. Classes /\ frees[x] \in {0, 1} /\ frees'[x] \in {0, 1} /\ frees \in [Objects -> Nat]
  BY NextClasses, OnceNext DEF Types, Once, Freed
<1> DEFINE Done ==
      /\ \/ frees'[x] = frees[x]
         \/ /\ frees[x] = 0 /\ frees'[x] = 1
            /\ Frees(x) \/ IsClosed(x) \/ x \in flushing
      /\ x \in flushing' => x \in flushing \/ Flushes(x)
      /\ x \in flushing => x \in flushing' \/ frees'[x] = 1
<1>1. ASSUME UNCHANGED <<frees, flushing>> PROVE Done
  BY <1>1
<1>2. ASSUME NEW S, Cancelled(S) PROVE Done
  BY <1>0, <1>2, CancelledFrees
<1>3. ASSUME NEW o \in Objects, Frees(o) \/ IsClosed(o) PROVE Done
  <2>1. FreesOne(o) /\ flushing' = flushing
    BY <1>3 DEF Frees, IsClosed
  <2>2. frees'[x] = IF x = o THEN frees[x] + 1 ELSE frees[x]
    BY <1>0, <2>1 DEF FreesOne
  <2> QED BY <1>0, <1>3, <2>1, <2>2
<1>4. ASSUME NEW o \in Objects, Flushes(o) PROVE Done
  BY <1>4 DEF Flushes
<1>5. ASSUME NEW o \in Objects, Starting(o) PROVE UNCHANGED <<frees, flushing>>
  BY <1>5, StartsUnchanged
<1>6. ASSUME NEW o \in Objects, CallsUser(o) \/ EndsWell(o) PROVE UNCHANGED <<frees, flushing>>
  BY <1>6 DEF CallsUser, EndsWell
<1>7. AbortRaises => UNCHANGED <<frees, flushing>>
  BY DEF AbortRaises, heap
<1>8. ASSUME NEW o \in Objects, NEW n, FailsAt(o, n)
      PROVE  UNCHANGED <<frees, flushing>> \/ \E S : Cancelled(S)
  BY <1>8 DEF FailsAt
<1>9. ASSUME NEW o \in Objects, Waits(o) PROVE \E S : Cancelled(S)
  BY <1>9 DEF Waits
<1>10. ASSUME NEW r, Flushed(r) PROVE Cancelled({r})
  BY <1>10 DEF Flushed
<1>11. Idle => UNCHANGED <<frees, flushing>>
  BY IdleKeeps
<1> HIDE DEF Done
<1>12. Done
  BY <1>0, <1>1, <1>2, <1>3, <1>4, <1>5, <1>6, <1>7, <1>8, <1>9, <1>10, <1>11, ClassesAre
<1> QED BY <1>12 DEF Done

\* The finalizer of the worker frees its handle: no child of it is left.
LEMMA WorkerFreed ==
    ASSUME Types, Once, Heap, Leaf, Order, Frees(Wrk), NEW o \in Eps \cup Lis \cup Addrs,
           o \notin SelfReferring
    PROVE  ~Busy(o)
<1>0. /\ o \in Objects \ {App, Ctx} /\ o # Wrk /\ Parent(o) = Wrk /\ Wrk \in Objects
      /\ o \in Eps \/ o \in Leaves
  BY Kinds, ParentOf DEF Trunk, Leaves
<1>1. Works(Wrk) /\ Kids(Wrk) = {} /\ TopClose(Wrk)
  BY DEF Frees, Ready, Works
<1>2. ~Open(o)
  BY <1>0, <1>1, NoKids
<1>3. CASE o \in Leaves
  BY <1>0, <1>1, <1>2, <1>3, LeafBelow DEF Busy
<1>4. CASE o \in Eps
  <2>1. ASSUME NEW j \in 1..Len(stack), CloseAt(j, o) PROVE FALSE
    <3>1. Len(stack) \in 1..Len(stack) /\ CloseAt(Len(stack), Wrk)
      BY <1>0, <1>1, TopPlace
    <3>2. Len(stack) < j
      BY <1>4, <2>1, <3>1 DEF Order
    <3> QED BY <3>2 DEF Types
  <2> QED BY <1>2, <2>1 DEF Busy, Closing
<1> QED BY <1>0, <1>3, <1>4

\* And that of the context.
LEMMA ContextFreed ==
    ASSUME Types, Once, Heap, Leaf, Order, Frees(Ctx), NEW o \in Mems \cup {Wrk}
    PROVE  ~Busy(o)
<1>0. /\ o \in Objects \ {App, Ctx} /\ Parent(o) = Ctx /\ Ctx \in Objects /\ Wrk \in Objects
      /\ o \notin SelfReferring /\ (o \in Mems => o \in Leaves /\ o # Wrk)
  BY Kinds, ParentOf, ObjectsAssumption DEF Trunk
<1>1. Works(Ctx) /\ Kids(Ctx) = {} /\ TopClose(Ctx)
  BY DEF Frees, Ready, Works
<1>2. Len(stack) \in 1..Len(stack) /\ CloseAt(Len(stack), Ctx)
  BY <1>0, <1>1, TopPlace
<1>3. CASE o \in Mems
  <2>1. ~Open(o)
    BY <1>0, <1>1, <1>3, NoKids
  <2> QED BY <1>0, <1>1, <1>3, <2>1, LeafBelow DEF Busy
<1>4. CASE o = Wrk
  <2>1. ASSUME NEW j \in 1..Len(stack), CloseAt(j, Wrk) PROVE FALSE
    <3>1. Len(stack) < j
      BY <1>2, <2>1 DEF Order
    <3> QED BY <3>1 DEF Types
  <2>2. ASSUME Open(Wrk) PROVE FALSE
    <3>1. py[Wrk] = "dying"
      BY <1>0, <1>1, <1>4, <2>2, NoKids
    <3>2. PICK j \in 1..Len(stack) : DropAt(j, Wrk)
      BY <1>0, <3>1 DEF Heap, Dropping
    <3>3. Len(stack) = 1
      BY <1>2, <2>2 DEF Order
    <3>4. j = Len(stack)
      BY <3>2, <3>3
    <3> QED BY <1>2, <3>2, <3>4 DEF DropAt, CloseAt
  <2> QED BY <1>4, <2>1, <2>2 DEF Busy, Closing
<1> QED BY <1>3, <1>4

\* And that of an endpoint.
LEMMA EndpointFreed ==
    ASSUME Types, Once, KeysDone, NEW r \in Rkeys, IsClosed(EpOf[r])
    PROVE  ~Busy(r) /\ r \notin flushing
<1>0. EpOf[r] \in Objects
  BY ParentOf, Kinds
<1>1. Works(EpOf[r]) /\ TopAt("wait") /\ flushing \cap KeysOf(EpOf[r]) = {}
  BY DEF IsClosed
<1>2. Len(stack) \in 1..Len(stack) /\ CloseAt(Len(stack), EpOf[r])
  BY <1>0, <1>1, TopPlace
<1>3. ~Busy(r)
  BY <1>1, <1>2 DEF KeysDone, TopAt
<1> QED BY <1>1, <1>3 DEF KeysOf

LEMMA NoUseNext ==
    ASSUME Types, Once, Core, Heap, Leaf, Order, KeysDone, NoUse, Next
    PROVE  NoUse'
<1>0. Classes /\ Lives
  BY NextClasses DEF Heap
<1> SUFFICES ASSUME NEW o \in Objects \ ({Ctx, App} \cup SelfReferring), frees'[Parent(o)] > 0
             PROVE  ~Busy(o)' /\ o \notin flushing'
  <2>1. \A x : Parent(x)' = Parent(x)
    BY DEF Parent
  <2> QED BY <2>1 DEF NoUse
<1> DEFINE P == Parent(o)
<1>1. /\ P \in Objects /\ P \notin Rkeys
      /\ P \in Eps => o \in Rkeys /\ P = EpOf[o]
      /\ P = Wrk => o \in Eps \cup Lis \cup Addrs
      /\ P = Ctx => o \in Mems \cup {Wrk}
      /\ P \in Eps \/ P = Wrk \/ P = Ctx
      /\ Wrk \notin Eps /\ Ctx \notin Eps
  <2>1. P \in Objects /\ P \in Eps \cup {Wrk, Ctx}
    BY ParentKinds
  <2>2. P \notin Rkeys /\ Wrk \notin Eps /\ Ctx \notin Eps
    BY <2>1, Kinds DEF Trunk
  <2>3. P \in Eps => o \in Rkeys /\ P = EpOf[o]
    BY ParentKinds, ParentOf
  <2>4. P = Wrk => o \in Eps \cup Lis \cup Addrs
    BY ParentKinds
  <2>5. P = Ctx => o \in Mems \cup {Wrk}
    BY ParentKinds
  <2> QED BY <2>1, <2>2, <2>3, <2>4, <2>5
<1>2. CASE frees[P] > 0
  <2>1. ~Busy(o) /\ o \notin flushing
    BY <1>2 DEF NoUse
  <2>2. ASSUME py[o] = "none", py'[o] = "alive" PROVE FALSE
    <3>1. Open(P) \/ fin[P] = "unset"
      BY <2>2, MadeUnder
    <3>2. frees[P] = 0
      BY <1>1, <3>1 DEF Once, Uncalled, Open
    <3> QED BY <1>2, <3>2
  <2>3. ~Busy(o)'
    BY <1>0, <2>1, <2>2, NextBusy
  <2>4. ~Flushes(o)
    BY <2>1, TopPlace DEF Flushes, Ready, Busy
  <2> QED BY <1>0, <2>1, <2>3, <2>4, NextFrees
<1>3. CASE ~(frees[P] > 0)
  <2>1. P \notin flushing
    BY <1>1 DEF Types
  <2>2. Frees(P) \/ IsClosed(P)
    BY <1>0, <1>1, <1>3, <2>1, NextFrees
  <2>3. ~Busy(o) /\ o \notin flushing
    <3>1. CASE Frees(P)
      <4>1. P \notin Eps
        BY <3>1 DEF Frees
      <4>2. ~Busy(o)
        <5>1. CASE P = Wrk
          BY <1>1, <3>1, <5>1, WorkerFreed
        <5>2. CASE P = Ctx
          BY <1>1, <3>1, <5>2, ContextFreed
        <5> QED BY <1>1, <4>1, <5>1, <5>2
      <4>3. o \notin Rkeys
        BY <1>1, <4>1, ObjectsAssumption DEF Trunk
      <4> QED BY <4>2, <4>3 DEF Types
    <3>2. CASE IsClosed(P)
      <4>1. P \in Eps
        BY <1>1, <3>2, TopPlace DEF IsClosed, PlaceOK, TopAt
      <4> QED BY <1>1, <3>2, <4>1, EndpointFreed
    <3> QED BY <2>2, <3>1, <3>2
  <2>4. TopClose(P)
    BY <2>2 DEF Frees, IsClosed, Ready, Works
  <2>5. stack # <<>>
    BY <2>4 DEF TopClose
  <2>6. ~Busy(o)'
    BY <1>0, <2>3, <2>5, NextBusy, NextMade
  <2>7. ~Flushes(o)
    BY <2>3, TopPlace DEF Flushes, Ready, Busy
  <2> QED BY <1>0, <2>3, <2>6, <2>7, NextFrees
<1> QED BY <1>2, <1>3

-----------------------------------------------------------------------------
(* What becomes of a finalizer that was called                              *)

LEMMA NextRaised ==
    ASSUME Classes
    PROVE  \/ raised' = raised
           \/ \E o \in Objects, n \in 0..Len(stack) : FailsAt(o, n)
<1>1. ASSUME NEW o \in Objects, Starting(o) PROVE raised' = raised
  BY <1>1, StartsUnchanged
<1>2. ASSUME NEW o \in Objects,
             Vanishes(o) \/ Frees(o) \/ Flushes(o) \/ Waits(o) \/ IsClosed(o) \/ CallsUcx(o)
               \/ CallsUser(o) \/ EndsWell(o) \/ Makes(o) \/ Drops(o)
      PROVE  raised' = raised
  BY <1>2 DEF Vanishes, Frees, Flushes, Waits, IsClosed, CallsUcx, CallsUser, EndsWell, Makes, Drops
<1>3. ASSUME NEW r, Flushed(r) PROVE raised' = raised
  BY <1>3 DEF Flushed
<1>4. ASSUME \/ Collects \/ Goes \/ MakesApp \/ AbortReturns \/ UserReturns \/ AbortRaises
             \/ Resets \/ Exits \/ ResetsWell
      PROVE  raised' = raised
  BY <1>4 DEF Collects, Goes, MakesApp, AbortReturns, UserReturns, AbortRaises, Resets, Exits,
              ResetsWell
<1> QED BY <1>1, <1>2, <1>3, <1>4 DEF Classes

\* An assertion fails under a parent that was closed: by the user.
LEMMA AssertsClosed ==
    ASSUME Types, Once, Under, NEW o \in Objects, Works(o), Blames(o, "assertion")
    PROVE  closed /\ o \in Mems \cup {Wrk} \cup Eps
<1>1. o \in Mems \cup {Wrk} \cup Eps /\ ~Open(Parent(o))
  BY DEF Blames
<1>2. Busy(o)
  BY TopPlace DEF Busy
<1> QED BY <1>1, <1>2 DEF Under

LEMMA AssertionNext ==
    ASSUME Types, Once, Under, AssertionOnlyByUser, Next
    PROVE  AssertionOnlyByUser'
<1>0. Classes
  BY NextClasses
<1> SUFFICES ASSUME "assertion" \in raised' PROVE closed'
  BY DEF AssertionOnlyByUser
<1>1. closed => closed'
  <2>1. closed' = closed \/ \E o \in Objects : UserStarts(o)
    BY <1>0, NextHolds
  <2>2. (\E o \in Objects : UserStarts(o)) => (closed => closed')
    BY DEF UserStarts
  <2> QED BY <2>1, <2>2
<1>2. CASE "assertion" \in raised
  BY <1>1, <1>2 DEF AssertionOnlyByUser
<1>3. ASSUME "assertion" \notin raised, NEW o \in Objects, NEW n, FailsAt(o, n) PROVE closed
  <2>1. Works(o) /\ Blames(o, "assertion")
    BY <1>3 DEF FailsAt, Ready
  <2> QED BY <2>1, AssertsClosed
<1> QED BY <1>0, <1>1, <1>2, <1>3, NextRaised

\* Through ucp.core, no exception cuts off a finalizer that has called another, but for
\* one that has freed its handle.
LEMMA CutAbove ==
    ASSUME Types, Once, Core, Leaf, Nested, Under, core, NEW n, Raised(n),
           NEW i \in 1..Len(stack), i < Len(stack), i > n, NEW o \in Objects, CloseAt(i, o),
           stack[Len(stack)].kind = "close" => stack[Len(stack)].obj \notin Lis \cup Addrs
    PROVE  frees[o] = 1
<1>0. Len(stack) \in Nat /\ i + 1 \in 1..Len(stack) /\ i + 1 > n /\ n \in 0..Len(stack)
      /\ i # n /\ ~closed
  BY DEF Types, Raised, Cut, Upto, Core
<1>1. Inside(stack[i], stack[i + 1]) /\ stack[i].obj = o
  BY DEF Nested, CloseAt
<1>2. stack[i + 1].kind \notin {"drop", "ucx"}
  <2>1. stack[i + 1].kind # "drop" /\ (stack[i + 1].kind = "ucx" => i + 1 = n + 1)
    BY <1>0 DEF Raised
  <2> QED BY <1>0, <2>1
<1>3. ASSUME stack[i + 1].kind = "close" PROVE FALSE
  <2> DEFINE k == stack[i + 1].obj
  <2>1. k \notin {App, Ctx} /\ Parent(k) = o /\ CloseAt(i + 1, k)
    BY <1>1, <1>3 DEF Inside, CloseAt
  <2>2. k \in Objects /\ k \notin Mems \cup Rkeys
    <3>1. stack[i + 1] \in Frames
      BY <1>0 DEF Types
    <3>2. k \in Objects
      BY <1>3, <3>1, FrameOf
    <3>3. fin[k] = "called"
      BY <1>0, <2>1, <3>2 DEF Once, Uncalled, Closing
    <3> QED BY <3>2, <3>3 DEF Core
  <2>3. k \notin Lis \cup Addrs
    <3> SUFFICES ASSUME k \in Lis \cup Addrs PROVE FALSE
      OBVIOUS
    <3>1. k \in Leaves
      BY Kinds
    <3>2. i + 1 = Len(stack)
      BY <1>0, <2>1, <3>1 DEF Leaf, LeafTop
    <3> QED BY <1>3, <3>2
  <2>4. k \in Eps \cup {Wrk}
    BY <2>1, <2>2, <2>3 DEF Objects, Trunk
  <2>5. Busy(k)
    BY <1>0, <2>1 DEF Busy, Closing
  <2>6. Open(o)
    BY <1>0, <2>1, <2>4, <2>5 DEF Under
  <2>7. ~Open(o)
    BY DEF Once, Uncalled, Closing, Open
  <2> QED BY <2>6, <2>7
<1>4. stack[i].at = "done"
  BY <1>1, <1>2, <1>3 DEF Inside
<1> QED BY <1>4 DEF Once, Places

LEMMA AccountedNext ==
    ASSUME Types, Once, Core, Heap, Leaf, Nested, Under, Accounted, Next
    PROVE  Accounted'
<1>0. Classes /\ Lives /\ core' = core
  BY NextClasses, NextHolds DEF Heap
<1> SUFFICES ASSUME NEW o \in Objects, fin'[o] = "called",
                    ~(frees'[o] = 1 \/ o \in flushing' \/ Closing(o)')
             PROVE  raised' # {} /\ (core => o \notin Trunk)
  BY <1>0 DEF Accounted
<1>1. raised \subseteq raised'
  <2>1. ASSUME NEW p \in Objects, NEW n, FailsAt(p, n) PROVE raised \subseteq raised'
    BY <2>1 DEF FailsAt
  <2> QED BY <1>0, <2>1, NextRaised
<1>2. frees[o] # 1 /\ o \notin flushing
  BY <1>0, NextFrees
<1>3. ~Starting(o) /\ fin[o] = "called"
  <2>1. ~Starting(o)
    BY StartingCloses
  <2> QED BY <2>1, NextFin
<1>4. CASE ~Closing(o)
  BY <1>1, <1>2, <1>3, <1>4 DEF Accounted
<1>5. CASE Closing(o)
  <2>1. ~KeepsAll
    BY <1>5 DEF KeepsAll
  <2>2. ASSUME NEW p \in Objects, Starting(p) PROVE FALSE
    BY <1>5, <2>2, StartingCloses
  <2>3. ~Idle
    BY <2>1, IdleKeeps
  <2>4. ASSUME NEW p \in Objects, Waits(p) \/ IsClosed(p) PROVE FALSE
    <3>1. Works(p) /\ \E place \in Places4 : Moved(place)
      BY <2>4 DEF Waits, IsClosed, Ready, Places4
    <3> QED BY <2>1, <3>1, TopPlace, MovedKeeps
  <2>5. ASSUME NEW p \in Objects, CallsUser(p) PROVE FALSE
    BY <2>1, <2>5, CallsUserKeeps
  <2>6. ASSUME NEW r, Flushed(r) PROVE FALSE
    BY <2>1, <2>6, SameKeeps DEF Flushed
  <2>7. ASSUME NEW p \in Objects, Frees(p) \/ Flushes(p) \/ EndsWell(p) PROVE FALSE
    <3>1. Works(p) /\ Cut(Len(stack) - 1)
      BY <2>7 DEF Frees, Flushes, EndsWell, Ready
    <3>2. PICK i \in 1..Len(stack) : i > Len(stack) - 1 /\ CloseAt(i, o)
      BY <1>5, <3>1, CutLoses
    <3>3. i = Len(stack)
      BY <3>2 DEF Types
    <3>4. p = o
      BY <3>1, <3>2, <3>3, TopPlace DEF CloseAt
    <3>5. CASE Frees(p)
      <4>1. frees'[o] = frees[o] + 1
        BY <3>4, <3>5 DEF Frees, FreesOne, Types
      <4>2. frees[o] = 0
        BY <1>2 DEF Once, Freed
      <4> QED BY <4>1, <4>2
    <3>6. CASE Flushes(p)
      BY <3>4, <3>6 DEF Flushes
    <3>7. CASE EndsWell(p)
      BY <1>2, <3>1, <3>4, <3>7, TopPlace DEF EndsWell, PlaceOK
    <3> QED BY <2>7, <3>5, <3>6, <3>7
  <2>8. ASSUME NEW p \in Objects, NEW n \in 0..Len(stack), FailsAt(p, n)
        PROVE  raised' # {} /\ (core => o \notin Trunk)
    <3>1. Works(p) /\ Raised(n) /\ Cut(n) /\ raised' # {}
      BY <2>8 DEF FailsAt, Ready, Raised
    <3>2. PICK why : Blames(p, why)
      BY <2>8 DEF FailsAt
    <3>3. PICK i \in 1..Len(stack) : i > n /\ CloseAt(i, o)
      BY <1>5, <3>1, CutLoses
    <3>4. p \notin Lis \cup Addrs /\ (p \in Trunk => why = "assertion")
      BY <3>2, ObjectsAssumption DEF Blames, Trunk
    <3>5. CASE i < Len(stack)
      <4>1. stack[Len(stack)].kind = "close" => stack[Len(stack)].obj \notin Lis \cup Addrs
        BY <3>1, <3>4, TopPlace DEF CloseAt
      <4> QED BY <1>2, <3>1, <3>3, <3>5, <4>1, CutAbove
    <3>6. CASE i = Len(stack)
      <4>1. p = o
        BY <3>1, <3>3, <3>6, TopPlace DEF CloseAt
      <4>2. ASSUME core, o \in Trunk PROVE FALSE
        <5>1. Blames(p, "assertion")
          BY <3>2, <3>4, <4>1, <4>2
        <5>2. closed
          BY <3>1, <5>1, AssertsClosed
        <5> QED BY <4>2, <5>2 DEF Core
      <4> QED BY <3>1, <4>2
    <3> QED BY <3>3, <3>5, <3>6 DEF Types
  <2>9. ASSUME AbortRaises PROVE FALSE
    <3>1. PICK n \in 0..Len(stack) : Raised(n)
      BY <2>9 DEF AbortRaises
    <3>2. core /\ AtUser /\ Cut(n)
      BY <2>9, <3>1 DEF AbortRaises, Raised
    <3>3. PICK i \in 1..Len(stack) : i > n /\ CloseAt(i, o)
      BY <1>5, <3>2, CutLoses
    <3>4. stack # <<>> /\ Len(stack) \in Nat
      BY <3>3 DEF Types
    <3>5. stack[Len(stack)].kind # "close"
      BY <3>2, <3>4 DEF AtUser, TopKind
    <3>6. i < Len(stack)
      BY <3>3, <3>4, <3>5 DEF CloseAt
    <3> QED BY <1>2, <3>1, <3>2, <3>3, <3>5, <3>6, CutAbove
  <2> QED BY <1>0, <2>2, <2>3, <2>4, <2>5, <2>6, <2>7, <2>8, <2>9, ClassesAre
<1> QED BY <1>4, <1>5

\* When the collector has been and the ApplicationContext is gone, so are its worker and
\* its context.
LEMMA TrunkDead ==
    ASSUME Types, Once, Core, Heap, Order, Calm, TopKind("reset"), py[App] # "alive"
    PROVE  \A o \in Trunk : py[o] = "dead" /\ ~Closing(o) /\ core
<1>0. /\ RootsLive /\ RefsLive /\ Lives
      /\ App \in Objects /\ Wrk \in Objects /\ Ctx \in Objects /\ Eps \subseteq Objects
  BY Kinds DEF Heap
<1>1. Len(stack) \in 1..Len(stack) /\ stack[Len(stack)].kind = "reset" /\ Len(stack) = 1
  <2>1. Len(stack) \in 1..Len(stack) /\ stack[Len(stack)].kind = "reset"
    BY Tops DEF TopKind, Types
  <2> QED BY <2>1 DEF Order
<1>2. \A i \in 1..Len(stack) : stack[i].kind = "reset"
  BY <1>1
<1>3. \A x \in Objects : ~Closing(x) /\ py[x] # "dying"
  <2>1. \A x \in Objects : ~Closing(x)
    BY <1>2 DEF Closing, CloseAt
  <2>2. \A i \in 1..Len(stack), x \in Objects : ~DropAt(i, x)
    BY <1>2 DEF DropAt
  <2> QED BY <2>1, <2>2 DEF Heap, Dropping
<1>4. core /\ py[App] # "none" /\ py[Ctx] # "none" /\ py[Wrk] # "none"
  BY <1>1 DEF Core
<1>5. \A o \in Trunk : py[o] \in {"alive", "dead"}
  BY <1>0, <1>3, <1>4 DEF Types, Trunk
<1>6. py[App] = "dead"
  BY <1>5 DEF Trunk
<1>7. ASSUME NEW o \in {Ctx, Wrk} PROVE o \notin held /\ o \notin flushing /\ o # App
  <2>1. o \in Trunk /\ o # App
    BY ObjectsAssumption DEF Trunk
  <2> QED BY <1>4, <2>1, ObjectsAssumption DEF Core, Types
<1>8. ASSUME NEW e \in Eps PROVE ~Busy(e) /\ py[e] # "alive" /\ py[e] # "dying"
  <2>1. py[e] # "alive"
    <3> SUFFICES ASSUME py[e] = "alive" PROVE FALSE
      OBVIOUS
    <3>1. App \in Refs(e)
      BY <1>4, RefsOf
    <3> QED BY <1>0, <1>6, <3>1 DEF RefsLive
  <2>2. ~Open(e)
    BY <1>0, <1>3, <2>1 DEF Lives, Open, Types
  <2> QED BY <1>0, <1>3, <2>1, <2>2 DEF Busy
<1>9. py[Wrk] = "dead"
  <2> SUFFICES ASSUME py[Wrk] = "alive" PROVE FALSE
    BY <1>5 DEF Trunk
  <2>1. Rooted(Wrk) \/ Referred(Wrk)
    BY <1>0 DEF Calm, Loose
  <2>2. ~Rooted(Wrk)
    BY <1>7, <1>8, Givers DEF Rooted
  <2>3. ~Referred(Wrk)
    BY <1>6, <1>8, Referrers DEF Referred
  <2> QED BY <2>1, <2>2, <2>3
<1>10. ASSUME NEW m \in Mems PROVE ~Busy(m) /\ py[m] = "none"
  <2>1. m \in Objects /\ fin[m] = "unset"
    BY <1>4, Kinds DEF Core
  <2> QED BY <1>0, <1>3, <2>1 DEF Busy, Open, Lives
<1>11. ~Busy(Wrk)
  <2>1. fin[Wrk] = "called"
    BY <1>0, <1>9 DEF Lives
  <2> QED BY <1>0, <1>3, <2>1 DEF Busy, Open
<1>12. py[Ctx] = "dead"
  <2> SUFFICES ASSUME py[Ctx] = "alive" PROVE FALSE
    BY <1>5 DEF Trunk
  <2>1. Rooted(Ctx) \/ Referred(Ctx)
    BY <1>0 DEF Calm, Loose
  <2>2. ~Rooted(Ctx)
    BY <1>7, <1>10, <1>11, Givers DEF Rooted
  <2>3. ~Referred(Ctx)
    BY <1>6, <1>9, <1>10, Referrers DEF Referred
  <2> QED BY <2>1, <2>2, <2>3
<1> QED BY <1>0, <1>3, <1>4, <1>6, <1>9, <1>12 DEF Trunk

LEMMA ShutNext ==
    ASSUME Types, Once, Core, Heap, Order, Accounted, Shut, Next
    PROVE  Shut'
<1>0. Classes /\ Lives /\ App \in Objects /\ Wrk \in Objects /\ Ctx \in Objects
  BY NextClasses, Kinds DEF Heap
<1> SUFFICES ASSUME reset' = "ok" PROVE frees'[Wrk] = 1 /\ frees'[Ctx] = 1 /\ frees'[App] = 1
  BY DEF Shut
<1>1. ASSUME NEW o \in Objects, frees[o] = 1 PROVE frees'[o] = 1
  BY <1>0, <1>1, NextFrees
<1>2. CASE reset = "ok"
  BY <1>0, <1>1, <1>2 DEF Shut
<1>3. CASE ResetsWell
  <2>1. Calm /\ TopKind("reset") /\ py[App] # "alive"
    BY <1>3 DEF ResetsWell
  <2>2. \A o \in Trunk : py[o] = "dead" /\ ~Closing(o) /\ core
    BY <2>1, TrunkDead
  <2>3. ASSUME NEW o \in Trunk PROVE frees[o] = 1
    <3>1. o \in Objects /\ fin[o] = "called" /\ o \notin flushing
      BY <1>0, <2>2, Kinds DEF Lives, Types, Trunk
    <3> QED BY <2>2, <3>1 DEF Accounted
  <2> QED BY <1>0, <1>1, <2>3 DEF Trunk
<1> QED BY <1>0, <1>2, <1>3, NextHolds

-----------------------------------------------------------------------------
(* The theorems                                                             *)

LEMMA InvInit == Init => IInv
<1> SUFFICES ASSUME Init PROVE IInv
  OBVIOUS
<1>1. /\ stack = <<>> /\ Len(stack) = 0 /\ held = {} /\ flushing = {} /\ raised = {}
      /\ global = FALSE /\ closed = FALSE /\ reset = "none"
      /\ \A o \in Objects : py[o] = "none" /\ fin[o] = "unset" /\ frees[o] = 0
  BY DEF Init
<1>2. Types
  <2>1. stack \in Seq(Frames)
    BY DEF Init
  <2>2. py \in [Objects -> {"none", "alive", "dying", "dead"}]
    BY DEF Init
  <2>3. fin \in [Objects -> {"unset", "alive", "called"}]
    BY DEF Init
  <2>4. frees \in [Objects -> Nat] /\ core \in BOOLEAN
    BY DEF Init
  <2> QED BY <1>1, <2>1, <2>2, <2>3, <2>4 DEF Types
<1>3. \A o \in Objects : ~Busy(o) /\ ~Loose(o) /\ ~Rooted(o) /\ ~Closing(o)
  BY <1>1 DEF Busy, Loose, Rooted, Open, Closing
<1>4. Once
  BY <1>1, <1>3 DEF Once, Uncalled, Distinct, Places, Freed
<1>5. Core
  BY <1>1, Kinds DEF Core
<1>6. Heap
  BY <1>1, <1>3 DEF Heap, RootsLive, RefsLive, Lives, Dropping, DyingOpen
<1>7. Leaf
  BY <1>1, <1>3, Kinds DEF Leaf, LeafTop, LeafCalm, LeafAlone
<1>8. Order /\ Nested
  BY <1>1 DEF Order, Nested
<1>9. Under /\ KeysDone /\ NoUse
  <2>1. Under
    BY <1>3, Kinds DEF Under
  <2>2. KeysDone
    BY <1>1 DEF KeysDone
  <2>3. NoUse
    BY <1>1, <1>3 DEF NoUse
  <2> QED BY <2>1, <2>2, <2>3
<1>10. Accounted /\ AssertionOnlyByUser /\ Shut
  BY <1>1 DEF Accounted, AssertionOnlyByUser, Shut
<1> QED BY <1>2, <1>4, <1>5, <1>6, <1>7, <1>8, <1>9, <1>10 DEF IInv

LEMMA InvNext == IInv /\ Next => IInv'
<1> SUFFICES ASSUME IInv, Next PROVE IInv'
  OBVIOUS
<1>0. /\ Types /\ Once /\ Core /\ Heap /\ Leaf /\ Order /\ Nested
      /\ Under /\ KeysDone /\ NoUse /\ Accounted /\ AssertionOnlyByUser /\ Shut
      /\ Lives
  BY DEF IInv, Heap
<1>1. Types' /\ Once' /\ Core' /\ Heap' /\ Leaf'
  BY <1>0, TypesNext, OnceNext, CoreNext, HeapNext, LeafNext
<1>2. Order' /\ Nested' /\ Under' /\ KeysDone' /\ NoUse'
  BY <1>0, OrderNext, NestedNext, UnderNext, KeysDoneNext, NoUseNext
<1>3. Accounted' /\ AssertionOnlyByUser' /\ Shut'
  BY <1>0, AccountedNext, AssertionNext, ShutNext
<1> QED BY <1>1, <1>2, <1>3 DEF IInv

LEMMA InvSame == IInv /\ UNCHANGED vars => IInv'
<1> SUFFICES ASSUME IInv, UNCHANGED vars PROVE IInv'
  OBVIOUS
<1>1. UNCHANGED <<core, py, fin, frees, held, global, stack, flushing, reset, raised, closed>>
  BY DEF vars
<1>2. /\ \A o : FinArgs(o)' = FinArgs(o) /\ Refs(o)' = Refs(o) /\ Parent(o)' = Parent(o)
      /\ \A o : (Open(o)' <=> Open(o)) /\ (Closing(o)' <=> Closing(o)) /\ (Busy(o)' <=> Busy(o))
  BY <1>1, RefsSame DEF FinArgs, Parent, Open, Closing, CloseAt, Busy
<1>3. \A x : (Rooted(x)' <=> Rooted(x)) /\ (Referred(x)' <=> Referred(x))
  BY <1>1, <1>2 DEF Rooted, Referred
<1>4. \A x : Loose(x)' <=> Loose(x)
  BY <1>1, <1>3 DEF Loose
<1>5. Types' /\ Once'
  BY <1>1, <1>2 DEF IInv, Types, Once, Uncalled, Distinct, Places, Freed, CloseAt
<1>6. Core' /\ Order' /\ Nested'
  BY <1>1, <1>2 DEF IInv, Core, Order, Nested, CloseAt
<1>7. Heap'
  <2>1. RootsLive' /\ RefsLive'
    BY <1>1, <1>2, <1>3 DEF IInv, Heap, RootsLive, RefsLive
  <2>2. Lives' /\ Dropping' /\ DyingOpen'
    BY <1>1, <1>2 DEF IInv, Heap, Lives, Dropping, DyingOpen, DropAt
  <2> QED BY <2>1, <2>2 DEF Heap
<1>8. Leaf'
  BY <1>1, <1>2, <1>4 DEF IInv, Leaf, LeafTop, LeafCalm, LeafAlone, Calm, CloseAt
<1>9. Under' /\ KeysDone' /\ NoUse'
  BY <1>1, <1>2 DEF IInv, Under, KeysDone, NoUse, CloseAt
<1>10. Accounted' /\ AssertionOnlyByUser' /\ Shut'
  BY <1>1, <1>2 DEF IInv, Accounted, AssertionOnlyByUser, Shut
<1> QED BY <1>5, <1>6, <1>7, <1>8, <1>9, <1>10 DEF IInv

\* The invariant of the object tree: who refers to what, which finalizers are at work and
\* in which order, and what has become of each handle.
THEOREM InvHolds == Spec => []IInv
<1>1. IInv /\ [Next]_vars => IInv'
  BY InvNext, InvSame
<1> QED BY InvInit, <1>1, PTL DEF Spec

\* The values of the variables; among them, that no finalizer, flush or cancellation frees
\* a handle that was freed before (_handle_finalizer_wrapper in ucx_object.pyx).
THEOREM TypesHold == Spec => []TypeOK
<1>1. IInv => TypeOK
  <2> SUFFICES ASSUME IInv PROVE TypeOK
    OBVIOUS
  <2>1. Types /\ \A o \in Objects : frees[o] \in {0, 1}
    BY DEF IInv, Once, Freed
  <2>2. frees \in [Objects -> {0, 1}]
    BY <2>1 DEF Types
  <2> QED BY <2>1, <2>2 DEF Types, TypeOK
<1> QED BY <1>1, InvHolds, PTL

\* No handle is freed, or used by a flush, once that of its parent is gone: the finalizer
\* of a parent closes its children first, and no other finalizer of a child is below it.
THEOREM NoUseHolds == Spec => []NoUseAfterFree
<1>1. IInv => NoUseAfterFree
  <2> SUFFICES ASSUME IInv, NEW o \in Objects \ ({Ctx, App} \cup SelfReferring),
                      frees[Parent(o)] > 0
               PROVE  ~Open(o) /\ o \notin Finalizing \cup flushing
    BY DEF NoUseAfterFree
  <2>1. Types /\ ~Busy(o) /\ o \notin flushing
    BY DEF IInv, NoUse
  <2> QED BY <2>1, FinalizingIs DEF Busy
<1> QED BY <1>1, InvHolds, PTL

\* The assertions of the finalizers, that the handle of the parent is still open, fail only
\* if the user has closed a context or a worker that is in use.
THEOREM AssertionsHold == Spec => []AssertionOnlyByUser
<1>1. IInv => AssertionOnlyByUser
  BY DEF IInv
<1> QED BY <1>1, InvHolds, PTL

\* ucp.reset(), when it does not raise, has freed the worker and the context, whatever
\* endpoints, listeners and addresses were dropped before and in whichever order.
THEOREM ResetHolds == Spec => []ResetShutsDown
<1>1. IInv => ResetShutsDown
  BY DEF IInv, Shut, ResetShutsDown
<1> QED BY <1>1, InvHolds, PTL

-----------------------------------------------------------------------------
(* When everything has come to rest                                         *)

\* Nothing refers to a leaf but itself: one that is reached was a root.
LEMMA ReachLeaf ==
    ASSUME NEW S \in SUBSET Objects, NEW x \in Leaves, x \in Reach(S)
    PROVE  x \in S
<1> DEFINE T1 == StepOf(S)
           T2 == StepOf(T1)
           T3 == StepOf(T2)
           T4 == StepOf(T3)
<1>1. Reach(S) = T4
  BY DEF Reach, StepOf
<1>2. T1 \in SUBSET Objects /\ T2 \in SUBSET Objects /\ T3 \in SUBSET Objects
  BY StepObjects
<1>3. ASSUME NEW T \in SUBSET Objects, x \in StepOf(T) PROVE x \in T
  <2> SUFFICES ASSUME x \notin T PROVE FALSE
    OBVIOUS
  <2>1. PICK p \in T : x \in Refs(p)
    BY <1>3, StepFrom
  <2>2. p = x
    BY <2>1, Referrers
  <2> QED BY <2>1, <2>2
<1> QED BY <1>1, <1>2, <1>3

\* What the user, core, a key or a flush can get at.
Anchors == held \cup (IF global THEN {App} ELSE {}) \cup {r \in Rkeys : Open(r)} \cup flushing

\* When nothing has a reference count of zero, the collector would find nothing, and
\* nothing runs, whatever is alive is reached from there.
LEMMA AliveReached ==
    ASSUME Types, Core, Heap, Calm, stack = <<>>, Garbage = {}, NEW o \in Objects, py[o] = "alive"
    PROVE  o \in Reach(Anchors)
<1> DEFINE G == Anchors
<1>0. /\ App \in Objects /\ Wrk \in Objects /\ Ctx \in Objects /\ Eps \subseteq Objects
      /\ Leaves \subseteq Objects /\ Rkeys \subseteq Leaves /\ Mems \subseteq Objects
      /\ Lis \subseteq Leaves /\ Lives
  BY Kinds DEF Heap
<1>1. \A x \in Objects : ~Closing(x) /\ py[x] # "dying"
  <2>1. \A x \in Objects : ~Closing(x)
    BY DEF Closing
  <2>2. \A x \in Objects : py[x] # "dying"
    BY DEF Heap, Dropping
  <2> QED BY <2>1, <2>2
<1>2. \A x \in Objects : Busy(x) => Open(x) /\ py[x] = "alive"
  <2>1. \A x \in Objects : Open(x) => py[x] = "alive"
    BY <1>0, <1>1 DEF Open, Lives, Types
  <2> QED BY <1>1, <2>1 DEF Busy
<1>3. G \in SUBSET Objects
  BY <1>0 DEF Anchors, Types
<1>4. G \subseteq Reach(G) /\ \A x \in Reach(G) : Refs(x) \subseteq Reach(G)
  BY <1>3, ReachClosed
<1>g. /\ held \subseteq G /\ flushing \subseteq G /\ (global => App \in G)
      /\ \A r \in Rkeys : Open(r) => r \in G
  BY DEF Anchors
<1> HIDE DEF G
<1>5. ASSUME NEW x \in Objects, py[x] = "alive"
      PROVE  \/ x \in G
             \/ \E q \in Objects : Open(q) /\ py[q] = "alive" /\ x \in FinArgs(q)
             \/ \E q \in Objects : py[q] = "alive" /\ x \in Refs(q)
  <2>1. Rooted(x) \/ Referred(x)
    BY <1>5 DEF Calm, Loose
  <2>2. ASSUME Rooted(x)
        PROVE  x \in G \/ \E q \in Objects : Open(q) /\ py[q] = "alive" /\ x \in FinArgs(q)
    BY <1>2, <1>g, <2>2 DEF Rooted
  <2>3. ASSUME Referred(x) PROVE \E q \in Objects : py[q] = "alive" /\ x \in Refs(q)
    BY <1>1, <2>3 DEF Referred
  <2> QED BY <2>1, <2>2, <2>3
<1>6. ASSUME NEW x \in Leaves, py[x] = "alive" PROVE x \in Reach(G)
  <2> DEFINE S == Roots \cup {p \in Objects : py[p] = "dying"}
  <2>1. S \in SUBSET Objects
    <3>1. \A y : Rooted(y) => y \in Objects
      BY Kinds, Givers DEF Rooted, Types
    <3> QED BY <3>1, RootsAre
  <2>2. x \in Reach(S)
    BY <1>0, <1>6 DEF Garbage
  <2>3. x \in S
    <3> HIDE DEF S
    <3> QED BY <2>1, <2>2, ReachLeaf
  <2>4. Rooted(x)
    BY <1>0, <1>1, <2>3, RootsAre
  <2>5. x # App
    BY Kinds DEF Trunk
  <2>6. ASSUME NEW q \in Objects, Busy(q), x \in FinArgs(q) PROVE x \in G
    <3>1. x = q /\ q \in Rkeys /\ Open(q)
      BY <1>2, <2>6, Givers
    <3> QED BY <1>g, <3>1
  <2>7. x \in G
    BY <1>g, <2>4, <2>5, <2>6 DEF Rooted
  <2> QED BY <1>4, <2>7
<1>7. ASSUME NEW x \in Eps, py[x] = "alive" PROVE x \in Reach(G)
  <2>1. ASSUME NEW q \in Objects, py[q] = "alive", x \in FinArgs(q) \/ x \in Refs(q)
        PROVE  x \in Reach(G)
    <3>1. q \in Rkeys /\ x \in Refs(q)
      <4>1. q \in Rkeys /\ x = EpOf[q]
        BY <2>1, Givers, Referrers
      <4> QED BY <4>1, RefsOf
    <3>2. q \in Reach(G)
      BY <1>0, <1>6, <2>1, <3>1
    <3> QED BY <1>4, <3>1, <3>2
  <2> QED BY <1>0, <1>4, <1>5, <1>7, <2>1
<1>8. py[App] = "alive" => App \in Reach(G)
  <2>1. ASSUME NEW q \in Objects, py[q] = "alive", App \in Refs(q) PROVE App \in Reach(G)
    <3>1. q \in Reach(G)
      BY <1>0, <1>6, <1>7, <2>1, Referrers
    <3> QED BY <1>4, <2>1, <3>1
  <2>2. \A q \in Objects : App \notin FinArgs(q)
    BY Givers
  <2> QED BY <1>0, <1>4, <1>5, <2>1, <2>2
<1>9. py[Wrk] = "alive" => Wrk \in Reach(G)
  <2>1. ASSUME NEW q \in Objects, py[q] = "alive", Wrk \in FinArgs(q) \/ Wrk \in Refs(q)
        PROVE  Wrk \in Reach(G)
    <3>1. q \in Eps \cup {App}
      BY <2>1, Givers, Referrers
    <3>2. Wrk \in Refs(q) /\ q \in Reach(G)
      BY <1>7, <1>8, <2>1, <3>1, RefsOf
    <3> QED BY <1>4, <3>2
  <2> QED BY <1>0, <1>4, <1>5, <2>1
<1>10. py[Ctx] = "alive" => Ctx \in Reach(G)
  <2>1. ASSUME NEW q \in Objects, py[q] = "alive", Ctx \in FinArgs(q) \/ Ctx \in Refs(q)
        PROVE  Ctx \in Reach(G)
    <3>1. q \in Mems \cup {App, Wrk}
      BY <2>1, Givers, Referrers
    <3>2. Ctx \in Refs(q)
      BY <3>1, RefsOf
    <3>3. q \in Reach(G)
      BY <1>6, <1>8, <1>9, <2>1, <3>1, Kinds
    <3> QED BY <1>4, <3>2, <3>3
  <2> QED BY <1>0, <1>4, <1>5, <2>1
<1>11. o \in Trunk \/ o \in Eps \/ o \in Leaves
  BY Kinds
<1> QED BY <1>6, <1>7, <1>8, <1>9, <1>10, <1>11 DEF G, Trunk

\* When nothing runs and nothing is left to collect, an open handle belongs to an object
\* that can still be got at, and a finalizer that was called has freed its handle, but for
\* keys that wait for a flush and finalizers that raised.
THEOREM DroppedHolds == Spec => []DroppedIsFreed
<1>1. IInv => DroppedIsFreed
  <2> SUFFICES ASSUME IInv, UserTop, Doomed \cup Garbage = {}, NEW o \in Objects
               PROVE  /\ Open(o) => o \in Reach(Anchors)
                      /\ fin[o] = "called" /\ raised = {} => frees[o] = 1 \/ o \in flushing
    <3>1. Anchors = held \cup (IF global THEN {App} ELSE {}) \cup {r \in Rkeys : Open(r)}
                      \cup flushing
      BY DEF Anchors
    <3> HIDE DEF Reach, Anchors
    <3> QED BY <3>1 DEF DroppedIsFreed
  <2>1. /\ Types /\ Core /\ Heap /\ Accounted /\ stack = <<>> /\ Doomed = {} /\ Garbage = {}
        /\ Calm
    <3>1. Types /\ Core /\ Heap /\ Accounted /\ stack = <<>> /\ Doomed = {} /\ Garbage = {}
      BY DEF IInv, UserTop
    <3> QED BY <3>1, CalmIs
  <2>2. ASSUME Open(o) PROVE o \in Reach(Anchors)
    <3>1. py[o] # "dying"
      BY <2>1 DEF Heap, Dropping
    <3>2. py[o] = "alive"
      BY <2>1, <2>2, <3>1 DEF Heap, Lives, Open, Types
    <3> QED BY <2>1, <3>2, AliveReached
  <2>3. ASSUME fin[o] = "called", raised = {} PROVE frees[o] = 1 \/ o \in flushing
    <3>1. ~Closing(o)
      BY <2>1 DEF Closing
    <3> QED BY <2>1, <2>3, <3>1 DEF Accounted
  <2> QED BY <2>2, <2>3
<1> QED BY <1>1, InvHolds, PTL
=============================================================================
