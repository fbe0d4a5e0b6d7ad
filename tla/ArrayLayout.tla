----------------------------- MODULE ArrayLayout -----------------------------
(***************************************************************************)
(* ucp/_libs/arr.pyx: what an Array keeps of the memory layout of a host   *)
(* or device array, and what it says of it.  UCX is given a pointer and a  *)
(* number of bytes: the transfer functions refuse an array that is not     *)
(* contiguous, since those bytes would not be its elements.                *)
(*                                                                         *)
(* An exporter is what an object shows of itself through the buffer        *)
(* protocol or __cuda_array_interface__ (both external).  Shapes and       *)
(* strides are sequences, in bytes and outermost dimension first.          *)
(***************************************************************************)
EXTENDS Integers, SequencesExt

CONSTANT NoStrides      \* None, for strides

NoArray == [refused |-> TRUE]

\* s in the loops over the dimensions: what an element takes, and it and the first i of them.
Spans(itemsize, dims) ==
    LET s[i \in 0..Len(dims)] == IF i = 0 THEN itemsize ELSE s[i - 1] * dims[i] IN s

NBytes(a) == Spans(a.itemsize, a.shape)[Len(a.shape)]

\* The stride of a dimension if the last one is the innermost, or the first one is.
CStride(x, i) == Spans(x.itemsize, Reverse(x.shape))[Len(x.shape) - i]
FStride(x, i) == Spans(x.itemsize, x.shape)[i - 1]

CStrides(x) == [i \in DOMAIN x.shape |-> CStride(x, i)]

\* PyBuffer_IsContiguous(, "C"): strides of dimensions of one element do not
\* count, and without elements none do.
BufferIsC(x) ==
    \/ NBytes(x) = 0
    \/ \A i \in DOMAIN x.shape : x.shape[i] # 1 => x.strides[i] = CStride(x, i)

\* Fault: the strides of a host array are never kept.
HostStridesNever(x) == NoStrides

\* The strides_mv of a host array.
HostStrides(x) == IF x.shape = <<>> \/ BufferIsC(x) THEN NoStrides ELSE x.strides

\* ... and of a device array, whose interface may leave them out.
DeviceStrides(x) == IF x.shape = <<>> THEN NoStrides ELSE x.strides

\* Array.__cinit__(): masks, suboffsets and strides of another length than the
\* shape's are refused.
Array(x) ==
    IF \/ x.unsupported
       \/ x.cuda /\ x.shape # <<>> /\ x.strides # NoStrides /\ Len(x.strides) # Len(x.shape)
    THEN NoArray
    ELSE [refused |-> FALSE, itemsize |-> x.itemsize, shape |-> x.shape,
          strides |-> IF x.cuda THEN DeviceStrides(x) ELSE HostStrides(x)]

\* What follows is of an Array that was not refused.

\* c_contiguous: each stride is the size of what the dimensions after it span.
CContiguous(a) ==
    a.strides # NoStrides => \A i \in DOMAIN a.shape : a.strides[i] = CStride(a, i)

\* f_contiguous: ... before it; an array without strides is not, from two dimensions on.
FContiguous(a) ==
    IF a.strides # NoStrides
    THEN \A i \in DOMAIN a.shape : a.strides[i] = FStride(a, i)
    ELSE Len(a.shape) <= 1

Contiguous(a) == CContiguous(a) \/ FContiguous(a)

\* The strides property: those kept, or those of a C-contiguous array.
Strides(a) ==
    IF a.strides # NoStrides THEN a.strides ELSE CStrides(a)

-----------------------------------------------------------------------------
(* What a layout is                                                         *)

\* The elements of an array of this shape, and where each one is.
Indices(shape) ==
    {f \in [DOMAIN shape -> UNION {0..(shape[i] - 1) : i \in DOMAIN shape}] :
        \A i \in DOMAIN shape : f[i] < shape[i]}

Sums(f, strides) ==
    LET sum[i \in 0..Len(f)] == IF i = 0 THEN 0 ELSE sum[i - 1] + f[i] * strides[i] IN sum

Offset(f, strides) == Sums(f, strides)[Len(f)]

\* An exporter without strides is C-contiguous; one without dimensions has none.
TrueStrides(x) == IF x.strides = NoStrides \/ x.shape = <<>> THEN CStrides(x) ELSE x.strides

\* The bytes of its elements, counted from its pointer, if none is shared.
Bytes(x) ==
    {Offset(f, TrueStrides(x)) + b : f \in Indices(x.shape), b \in 0..(x.itemsize - 1)}
=============================================================================
