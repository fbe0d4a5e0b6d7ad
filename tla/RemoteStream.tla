---------------------------- MODULE RemoteStream ----------------------------
(***************************************************************************)
(* Remote memory access (ucp/_libs/ucx_rma.pyx) and the stream made of it  *)
(* (ucp/_libs/ucxio.pyx), over one endpoint.                               *)
(*                                                                         *)
(* A get or a put that UCX does not finish at once goes on by itself, in   *)
(* bytes that move in any order, until a flush of the endpoint is complete.*)
(* UCXIO waits for that in a loop that progresses the worker and looks at  *)
(* a flag, one for all its calls, that the callback of the flush sets.     *)
(*                                                                         *)
(* The remote memory is two regions, one after the other: the stream's,    *)
(* and that of a RemoteMemory object used on the same endpoint.  Before    *)
(* the stream is opened the program may look at arrays of any layout.      *)
(* Buffers given to gets and puts are one-dimensional and, for a get,      *)
(* writable: neither is checked.  UCX is external.                         *)
(***************************************************************************)
EXTENDS ArrayLayout

CONSTANTS
    Length, Width,  \* bytes of the two regions
    Values,         \* values of a byte
    Sizes,          \* bound: nbytes of the buffers used
    MaxSeek,        \* bound: the farthest position sought
    Exporters,      \* the arrays looked at
    NoCall

ASSUME StreamAssumption ==
    /\ Length \in Nat /\ Width \in Nat /\ MaxSeek \in Nat
    /\ Sizes \subseteq Nat
    /\ Exporters \subseteq [cuda : BOOLEAN, unsupported : BOOLEAN, itemsize : Nat \ {0},
                            shape : Seq(Nat), strides : Seq(Int) \cup {NoStrides}]
    /\ \A x \in Exporters :
           ~x.cuda => x.strides # NoStrides /\ Len(x.strides) = Len(x.shape)
    /\ NoCall \notin [kind : {"read", "write"}, size : Nat]

VARIABLES
    opened,     \* the UCXIO object exists
    looked,     \* the exporter being looked at
    mem,        \* remote memory
    ops,        \* gets and puts that are not complete, by who made them
    flush,      \* the stream's flush: "none", "pending", "failed"
    direct,     \* what the user of RemoteMemory waits for: "none", "callback", "flush"
    pos, cbFinished,    \* of the UCXIO object
    call,       \* the call of readinto or write that has not returned
    local,      \* the buffer of that call
    result      \* what the last readinto returned

vars == <<opened, looked, mem, ops, flush, direct, pos, cbFinished, call, local, result>>

Base == [stream |-> 0, direct |-> Length]
Address == 0..(Length + Width - 1)
Owners == {"stream", "direct"}
Idle == [kind |-> "none", at |-> 0, data |-> <<>>, left |-> {}]

Init ==
    /\ opened = FALSE /\ looked = NoCall
    /\ mem \in [Address -> Values]
    /\ ops = [o \in Owners |-> Idle]
    /\ flush = "none" /\ direct = "none"
    /\ pos = 0 /\ cbFinished = FALSE
    /\ call = NoCall /\ local = <<>> /\ result = <<>>

-----------------------------------------------------------------------------
(* UCX                                                                      *)

\* UCX takes a put or a get that it does not do at once.
Post(owner, kind, at, data) ==
    /\ data # <<>>
    /\ ops' = [ops EXCEPT ![owner] =
                 [kind |-> kind, at |-> at, data |-> data, left |-> DOMAIN data]]

\* What a get of n bytes brings; the memory after a put.
Got(at, n) == [i \in 1..n |-> mem[at + i - 1]]
Put(at, data) ==
    [a \in Address |-> IF a - at + 1 \in DOMAIN data THEN data[a - at + 1] ELSE mem[a]]

\* A byte of an operation moves; the last completes it.
Transfer(owner) ==
    LET op == ops[owner] IN
    \E i \in op.left :
        /\ mem' = IF op.kind = "put" THEN [mem EXCEPT ![op.at + i - 1] = op.data[i]] ELSE mem
        /\ local' = IF op.kind = "get" /\ owner = "stream"
                    THEN [local EXCEPT ![i] = mem[op.at + i - 1]] ELSE local
        /\ ops' = [ops EXCEPT ![owner] = IF op.left = {i} THEN Idle
                                         ELSE [op EXCEPT !.left = op.left \ {i}]]
        /\ UNCHANGED <<opened, looked, flush, direct, pos, cbFinished, call, result>>

Complete == \A o \in Owners : ops[o] = Idle

-----------------------------------------------------------------------------
(* RemoteMemory                                                             *)

\* put_nbi() returns whether UCX has done with the buffer, and put_nb() None or
\* a request whose callback will tell.  An error raises, and nothing is done.
PutNbi(owner, at, data, done) ==
    IF done THEN mem' = Put(at, data) /\ UNCHANGED ops
            ELSE Post(owner, "put", at, data) /\ UNCHANGED mem
PutNb(owner, at, data, req) == PutNbi(owner, at, data, ~req)

\* get_nbi() and get_nb(), into a buffer that the caller fills if it is done.
GetNbi(owner, at, n, done) ==
    IF done THEN UNCHANGED ops ELSE Post(owner, "get", at, Got(at, n))
GetNb(owner, at, n, req) == GetNbi(owner, at, n, ~req)

\* Out of bounds the methods raise IndexError.
InBounds(offset, size) == size + offset <= Width

\* A user that waits before it makes the next call.
Direct(offset, n) == opened /\ direct = "none" /\ InBounds(offset, n)
WaitsFor(what, waits) == direct' = IF waits THEN what ELSE "none"

DirectPut(offset, n) ==
    /\ Direct(offset, n)
    /\ \E data \in [1..n -> Values], req \in BOOLEAN :
         PutNb("direct", Base.direct + offset, data, req) /\ WaitsFor("callback", req)
    /\ UNCHANGED <<opened, looked, flush, pos, cbFinished, call, local, result>>

DirectPutNbi(offset, n) ==
    /\ Direct(offset, n)
    /\ \E data \in [1..n -> Values], done \in BOOLEAN :
         PutNbi("direct", Base.direct + offset, data, done) /\ WaitsFor("flush", ~done)
    /\ UNCHANGED <<opened, looked, flush, pos, cbFinished, call, local, result>>

DirectGet(offset, n) ==
    /\ Direct(offset, n)
    /\ \E req \in BOOLEAN :
         GetNb("direct", Base.direct + offset, n, req) /\ WaitsFor("callback", req)
    /\ UNCHANGED <<opened, looked, mem, flush, pos, cbFinished, call, local, result>>

DirectGetNbi(offset, n) ==
    /\ Direct(offset, n)
    /\ \E done \in BOOLEAN :
         GetNbi("direct", Base.direct + offset, n, done) /\ WaitsFor("flush", ~done)
    /\ UNCHANGED <<opened, looked, mem, flush, pos, cbFinished, call, local, result>>

\* The callback of the request, or that of a flush the user made.
DirectDone ==
    /\ \/ direct = "callback" /\ ops.direct = Idle
       \/ direct = "flush" /\ Complete
    /\ direct' = "none"
    /\ UNCHANGED <<opened, looked, mem, ops, flush, pos, cbFinished, call, local, result>>

-----------------------------------------------------------------------------
(* UCXIO                                                                    *)

Ready == opened /\ call = NoCall

\* UCXIO.__init__()
Open ==
    /\ ~opened
    /\ opened' = TRUE /\ looked' = NoCall
    /\ pos' = 0 /\ cbFinished' = FALSE
    /\ UNCHANGED <<mem, ops, flush, direct, call, local, result>>

\* UCXIO.seek(): positions before the start are left to the caller to avoid.
SeekTo(p, whence) ==
    IF whence = 1 THEN p + pos ELSE IF whence = 2 THEN Length - p ELSE p

Seek(p, whence) ==
    /\ Ready /\ SeekTo(p, whence) \in 0..MaxSeek
    /\ pos' = SeekTo(p, whence)
    /\ UNCHANGED <<opened, looked, mem, ops, flush, direct, cbFinished, call, local, result>>

\* The size in _do_rma(); negative from beyond the end, which raises OverflowError.
Cut(size) == IF pos + size > Length THEN Length - pos ELSE size

\* UCXIO.write(): _do_rma() with a put that is done at once, or is not and so
\* has to be flushed.
Write(buff) ==
    LET size == Cut(NBytes(Array(buff))) IN
    /\ Ready /\ size >= 0
    /\ pos' = pos + size
    /\ \E data \in [1..size -> Values] :
         \/ PutNbi("stream", Base.stream + pos, data, TRUE) /\ UNCHANGED call
         \/ /\ PutNbi("stream", Base.stream + pos, data, FALSE)
            /\ call' = [kind |-> "write", size |-> size]
    /\ UNCHANGED <<opened, looked, flush, direct, cbFinished, local, result>>

\* UCXIO.readinto()
ReadInto(buff) ==
    LET size == Cut(NBytes(Array(buff))) IN
    /\ Ready /\ size >= 0
    /\ pos' = pos + size
    /\ \/ /\ GetNbi("stream", Base.stream + pos, size, TRUE)
          /\ result' = Got(Base.stream + pos, size)
          /\ UNCHANGED <<call, local>>
       \/ /\ GetNbi("stream", Base.stream + pos, size, FALSE)
          /\ local' = [i \in 1..size |-> CHOOSE v \in Values : TRUE]    \* zeros
          /\ call' = [kind |-> "read", size |-> size]
          /\ UNCHANGED result
    /\ UNCHANGED <<opened, looked, mem, flush, direct, cbFinished>>

\* The call returns: block_on_request() has reset the flag.
ReturnTo(flag) ==
    /\ cbFinished' = flag
    /\ call' = NoCall /\ local' = <<>> /\ flush' = "none"
    /\ result' = IF call.kind = "read" THEN local ELSE result

\* Fault: block_on_request() leaves the flag as it is.
FlagKept == cbFinished

\* What block_on_request() leaves in cb_finished[0].
FlagAfter == FALSE

\* UCXIO.flush(): done at once, there is nothing to block on; or its callback
\* comes later.
Flush ==
    /\ call # NoCall /\ flush = "none"
    /\ \/ /\ Complete
          /\ ReturnTo(FlagAfter)
       \/ /\ flush' = "pending"
          /\ UNCHANGED <<cbFinished, call, local, result>>
    /\ UNCHANGED <<opened, looked, mem, ops, direct, pos>>

\* blocking_handler(), called by the flush: an exception fails its assertion,
\* and the flag is not set.
FlushDone ==
    /\ flush = "pending" /\ ~cbFinished
    /\ \/ Complete /\ cbFinished' = TRUE /\ UNCHANGED flush
       \/ flush' = "failed" /\ UNCHANGED cbFinished
    /\ UNCHANGED <<opened, looked, mem, ops, direct, pos, call, local, result>>

\* The loop of block_on_request() sees the flag.
Unblock ==
    /\ flush = "pending" /\ cbFinished
    /\ ReturnTo(FlagAfter)
    /\ UNCHANGED <<opened, looked, mem, ops, direct, pos>>

-----------------------------------------------------------------------------
(* Arrays                                                                   *)

\* The program makes an Array of something and asks about its layout, as the
\* transfer functions do.
Look(x) ==
    /\ ~opened /\ looked = NoCall
    /\ looked' = x
    /\ UNCHANGED <<opened, mem, ops, flush, direct, pos, cbFinished, call, local, result>>

-----------------------------------------------------------------------------

Buffer(n) == [cuda |-> FALSE, unsupported |-> FALSE, itemsize |-> 1, shape |-> <<n>>, strides |-> <<1>>]

Next ==
    \/ \E x \in Exporters : Look(x)
    \/ Open
    \/ \E p \in -MaxSeek..MaxSeek, whence \in 0..2 : Seek(p, whence)
    \/ \E n \in Sizes : Write(Buffer(n)) \/ ReadInto(Buffer(n))
    \/ Flush \/ FlushDone \/ Unblock
    \/ \E offset \in 0..Width, n \in 0..Width :
        \/ DirectPut(offset, n) \/ DirectPutNbi(offset, n)
        \/ DirectGet(offset, n) \/ DirectGetNbi(offset, n)
    \/ DirectDone
    \/ \E o \in Owners : Transfer(o)

Spec == Init /\ [][Next]_vars

-----------------------------------------------------------------------------

\* What an operation that is not complete will have put.
Pending(contents, owner) ==
    IF ops[owner].kind = "put"
    THEN [a \in DOMAIN contents |->
            LET i == a + Base[owner] - ops[owner].at + 1 IN
            IF i \in ops[owner].left THEN ops[owner].data[i] ELSE contents[a]]
    ELSE contents

File == INSTANCE RemoteFile WITH
    file   <- Pending([a \in 0..(Length - 1) |-> mem[a]], "stream"),
    window <- Pending([a \in 0..(Width - 1) |-> mem[Length + a]], "direct"),
    pos    <- IF call # NoCall /\ call.kind = "read" THEN pos - call.size ELSE pos

\* A stream is a file in remote memory: a write takes effect in its range and
\* nowhere else, a read returns what was written last, however the bytes move
\* and whichever flush a callback belongs to, and the memory beside it is its
\* owner's.
StreamIsFile == File!Spec

\* What an Array says of a layout is true of it.  An array that is contiguous,
\* and so may be sent, occupies the nbytes after its pointer; one that is
\* C-contiguous has its elements in the order of their indices, and with at
\* least two elements in every dimension no other is; strides leads to each element.
LayoutRight ==
    looked # NoCall /\ ~Array(looked).refused =>
        LET a == Array(looked)
            inOrder == \A f \in Indices(looked.shape) :
                           Offset(f, TrueStrides(looked)) = Offset(f, CStrides(looked))
        IN
        /\ Contiguous(a) => Bytes(looked) = 0..(NBytes(a) - 1)
        /\ CContiguous(a) => inOrder
        /\ inOrder /\ (\A i \in DOMAIN looked.shape : looked.shape[i] >= 2) => CContiguous(a)
        /\ \A f \in Indices(looked.shape) : Offset(f, Strides(a)) = Offset(f, TrueStrides(looked))
=============================================================================
