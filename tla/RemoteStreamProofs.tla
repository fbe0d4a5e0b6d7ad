------------------------- MODULE RemoteStreamProofs -------------------------
(***************************************************************************)
(* RemoteStream implements RemoteFile, for every length of the two         *)
(* regions, all values of a byte and all sizes of the buffers; and what    *)
(* an Array says of a layout is true for arrays of any number of           *)
(* dimensions.                                                             *)
(***************************************************************************)
EXTENDS RemoteStream, ListLemmas, TLAPS

-----------------------------------------------------------------------------
(* The loops over the dimensions of an array.                               *)

\* A function on 1..n is a sequence of length n.
LEMMA IsSeq ==
    ASSUME NEW S, NEW n \in Nat, NEW f \in [1..n -> S]
    PROVE  f \in Seq(S) /\ Len(f) = n
<1>1. f \in Seq(S)
  BY SeqDef
<1>2. 1..Len(f) = 1..n /\ Len(f) \in Nat
  BY <1>1, LenProperties
<1> QED BY <1>1, <1>2

\* Each step of the loop multiplies by one dimension.
LEMMA SpansAre ==
    ASSUME NEW z \in Nat, NEW n \in Nat, NEW dims \in [1..n -> Nat]
    PROVE  /\ Spans(z, dims) \in [0..n -> Nat]
           /\ Spans(z, dims)[0] = z
           /\ \A i \in 1..n : Spans(z, dims)[i] = Spans(z, dims)[i - 1] * dims[i]
<1> DEFINE val(f, i) == IF i = 0 THEN z ELSE f[i - 1] * dims[i]
           Is(f) == f = [i \in 0..n |-> val(f, i)]
           s == CHOOSE f : Is(f)
           step == [i \in 1..n |-> [p \in Nat |-> p * dims[i]]]
<1>1. Len(dims) = n /\ \A i \in 1..n : dims[i] \in Nat
  BY IsSeq
<1>2. \A i \in 1..n : \A p \in Nat : p * dims[i] \in Nat
  BY <1>1
<1>3. step \in [1..n -> [Nat -> Nat]]
  BY <1>2
<1>4. PICK f \in [0..n -> Nat] : Stepwise(f, z, step, n)
  <2> HIDE DEF step
  <2> QED BY <1>1, <1>3, Recursion
<1>5. Is(f)
  <2>1. ASSUME NEW i \in 0..n PROVE f[i] = val(f, i)
    <3>1. CASE i = 0
      BY <1>4, <3>1 DEF Stepwise
    <3>2. CASE i # 0
      <4>1. i \in 1..n /\ f[i - 1] \in Nat
        BY <1>1, <3>2
      <4>2. step[i][f[i - 1]] = f[i - 1] * dims[i]
        BY <4>1
      <4> QED BY <1>4, <3>2, <4>1, <4>2 DEF Stepwise
    <3> QED BY <3>1, <3>2
  <2> HIDE DEF val
  <2> QED BY <2>1
<1>6. Is(s)
  <2> HIDE DEF Is
  <2> QED BY <1>5
<1>7. Spans(z, dims) = s
  BY <1>1 DEF Spans
<1> HIDE DEF s
<1>8. DOMAIN s = 0..n /\ \A i \in 0..n : s[i] = val(s, i)
  <2> HIDE DEF val
  <2> QED BY <1>6
<1> HIDE DEF Is
<1>9. s[0] = z /\ \A i \in 1..n : s[i] = s[i - 1] * dims[i]
  <2>1. 0 \in 0..n /\ \A i \in 1..n : i \in 0..n /\ i # 0
    BY <1>1
  <2> QED BY <1>8, <2>1
<1> DEFINE T == {i \in 0..n : s[i] \in Nat}
<1>10. \A i \in 0..n : i \in T
  <2>1. 0 \in T
    BY <1>1, <1>9
  <2>2. ASSUME NEW i \in 1..n, i - 1 \in T PROVE i \in T
    <3>1. s[i - 1] \in Nat /\ i \in 0..n
      BY <1>1, <2>2
    <3> QED BY <1>2, <1>9, <3>1
  <2> HIDE DEF T
  <2> QED BY <1>1, <2>1, <2>2, UpTo
<1>11. s \in [0..n -> Nat]
  <2>1. s = [i \in 0..n |-> s[i]]
    <3> HIDE DEF val
    <3> QED BY <1>6, <1>8 DEF Is
  <2> QED BY <1>10, <2>1
<1> QED BY <1>7, <1>9, <1>11

\* A sum adds one product at each step.
LEMMA SumsAre ==
    ASSUME NEW n \in Nat, NEW f \in [1..n -> Int], NEW strides \in [1..n -> Int]
    PROVE  /\ Sums(f, strides) \in [0..n -> Int]
           /\ Sums(f, strides)[0] = 0
           /\ \A i \in 1..n : Sums(f, strides)[i] = Sums(f, strides)[i - 1] + f[i] * strides[i]
           /\ Offset(f, strides) = Sums(f, strides)[n]
<1> DEFINE val(g, i) == IF i = 0 THEN 0 ELSE g[i - 1] + f[i] * strides[i]
           Is(g) == g = [i \in 0..n |-> val(g, i)]
           s == CHOOSE g : Is(g)
           step == [i \in 1..n |-> [p \in Int |-> p + f[i] * strides[i]]]
<1>1. Len(f) = n
  BY IsSeq
<1>2. \A i \in 1..n : \A p \in Int : p + f[i] * strides[i] \in Int
  OBVIOUS
<1>3. step \in [1..n -> [Int -> Int]]
  BY <1>2
<1>4. PICK g \in [0..n -> Int] : Stepwise(g, 0, step, n)
  <2>1. 0 \in Int
    OBVIOUS
  <2> HIDE DEF step
  <2> QED BY <1>3, <2>1, Recursion
<1>5. Is(g)
  <2>1. ASSUME NEW i \in 0..n PROVE g[i] = val(g, i)
    <3>1. CASE i = 0
      BY <1>4, <3>1 DEF Stepwise
    <3>2. CASE i # 0
      <4>1. i \in 1..n /\ g[i - 1] \in Int
        BY <3>2
      <4>2. step[i][g[i - 1]] = g[i - 1] + f[i] * strides[i]
        BY <4>1
      <4> QED BY <1>4, <3>2, <4>1, <4>2 DEF Stepwise
    <3> QED BY <3>1, <3>2
  <2> HIDE DEF val
  <2> QED BY <2>1
<1>6. Is(s)
  <2> HIDE DEF Is
  <2> QED BY <1>5
<1>7. Sums(f, strides) = s
  BY <1>1 DEF Sums
<1> HIDE DEF s
<1>8. DOMAIN s = 0..n /\ \A i \in 0..n : s[i] = val(s, i)
  <2> HIDE DEF val
  <2> QED BY <1>6
<1> HIDE DEF Is
<1>9. s[0] = 0 /\ \A i \in 1..n : s[i] = s[i - 1] + f[i] * strides[i]
  <2>1. 0 \in 0..n /\ \A i \in 1..n : i \in 0..n /\ i # 0
    OBVIOUS
  <2> QED BY <1>8, <2>1
<1> DEFINE T == {i \in 0..n : s[i] \in Int}
<1>10. \A i \in 0..n : i \in T
  <2>1. 0 \in T
    BY <1>9
  <2>2. ASSUME NEW i \in 1..n, i - 1 \in T PROVE i \in T
    <3>1. s[i - 1] \in Int /\ i \in 0..n
      BY <2>2
    <3> QED BY <1>2, <1>9, <3>1
  <2> HIDE DEF T
  <2> QED BY <2>1, <2>2, UpTo
<1>11. s \in [0..n -> Int]
  <2>1. s = [i \in 0..n |-> s[i]]
    <3> HIDE DEF val
    <3> QED BY <1>6, <1>8 DEF Is
  <2> QED BY <1>10, <2>1
<1> QED BY <1>1, <1>7, <1>9, <1>11 DEF Offset

\* Sums of the same products are the same.
SameProducts(n, f, s, g, t, m) ==
    /\ n \in Nat /\ m \in 0..n
    /\ f \in [1..n -> Int] /\ s \in [1..n -> Int]
    /\ g \in [1..n -> Int] /\ t \in [1..n -> Int]
    /\ \A i \in 1..m : f[i] * s[i] = g[i] * t[i]

LEMMA SameSums ==
    ASSUME NEW n, NEW f, NEW s, NEW g, NEW t, NEW m, SameProducts(n, f, s, g, t, m)
    PROVE  Sums(f, s)[m] = Sums(g, t)[m]
<1> DEFINE a == Sums(f, s)
           b == Sums(g, t)
<1>0. /\ n \in Nat /\ m \in 0..n
      /\ \A i \in 1..m : f[i] * s[i] = g[i] * t[i]
  BY DEF SameProducts
<1>1. /\ a[0] = 0 /\ \A i \in 1..n : a[i] = a[i - 1] + f[i] * s[i]
      /\ b[0] = 0 /\ \A i \in 1..n : b[i] = b[i - 1] + g[i] * t[i]
  BY SumsAre, Zenon DEF SameProducts
<1> HIDE DEF a, b
<1> DEFINE T == {i \in 0..m : a[i] = b[i]}
<1>2. 0 \in T
  BY <1>0, <1>1
<1>3. ASSUME NEW i \in 1..m, i - 1 \in T PROVE i \in T
  <2>1. i \in 1..n /\ i \in 0..m /\ a[i - 1] = b[i - 1]
    BY <1>0, <1>3
  <2> QED BY <1>0, <1>1, <2>1
<1>4. m \in Nat /\ m \in 0..m
  BY <1>0
<1>5. \A i \in 0..m : i \in T
  <2> HIDE DEF T
  <2> QED BY <1>2, <1>3, <1>4, UpTo
<1> QED BY <1>4, <1>5 DEF a, b

\* Indices from there on do not matter to the sum up to m.
LEMMA SameIndices ==
    ASSUME NEW n \in Nat, NEW f \in [1..n -> Int], NEW g \in [1..n -> Int],
           NEW s \in [1..n -> Int], NEW m \in 0..n, \A i \in 1..m : f[i] = g[i]
    PROVE  Sums(f, s)[m] = Sums(g, s)[m]
<1>1. SameProducts(n, f, s, g, s, m)
  BY Zenon DEF SameProducts
<1> QED BY <1>1, SameSums

\* Strides of dimensions whose index is 0 do not matter.
LEMMA SameOffset ==
    ASSUME NEW n \in Nat, NEW f \in [1..n -> Int],
           NEW s \in [1..n -> Int], NEW t \in [1..n -> Int],
           \A i \in 1..n : f[i] = 0 \/ s[i] = t[i]
    PROVE  Offset(f, s) = Offset(f, t)
<1>1. ASSUME NEW i \in 1..n PROVE f[i] * s[i] = f[i] * t[i]
  <2>1. s[i] \in Int /\ t[i] \in Int
    OBVIOUS
  <2>2. CASE f[i] = 0
    BY <2>1, <2>2
  <2>3. CASE s[i] = t[i]
    BY <2>3
  <2> QED BY <2>2, <2>3
<1>2. n \in 0..n
  OBVIOUS
<1>3. Sums(f, s)[n] = Sums(f, t)[n]
  <2>1. SameProducts(n, f, s, f, t, n)
    BY <1>1, <1>2 DEF SameProducts
  <2> QED BY <2>1, SameSums
<1>4. Offset(f, s) = Sums(f, s)[n] /\ Offset(f, t) = Sums(f, t)[n]
  BY SumsAre, Zenon
<1> QED BY <1>3, <1>4

\* The element that is one step along a dimension is a stride away.
LEMMA UnitOffset ==
    ASSUME NEW n \in Nat, NEW s \in [1..n -> Int], NEW i \in 1..n
    PROVE  Offset([j \in 1..n |-> IF j = i THEN 1 ELSE 0], s) = s[i]
<1> DEFINE e == [j \in 1..n |-> IF j = i THEN 1 ELSE 0]
           a == Sums(e, s)
<1>1. e \in [1..n -> Int] /\ \A j \in 1..n : e[j] = IF j = i THEN 1 ELSE 0
  OBVIOUS
<1> HIDE DEF e
<1>2. /\ a[0] = 0 /\ \A j \in 1..n : a[j] = a[j - 1] + e[j] * s[j]
      /\ Offset(e, s) = a[n]
  BY <1>1, SumsAre
<1> HIDE DEF a
<1> DEFINE T == {j \in 0..n : a[j] = IF j < i THEN 0 ELSE s[i]}
<1>3. 0 \in T
  BY <1>2
<1>4. ASSUME NEW j \in 1..n, j - 1 \in T PROVE j \in T
  <2>1. j \in 0..n /\ a[j - 1] = IF j - 1 < i THEN 0 ELSE s[i]
    BY <1>4
  <2>2. s[j] \in Int /\ s[i] \in Int
    OBVIOUS
  <2>3. CASE j = i
    BY <1>1, <1>2, <2>1, <2>2, <2>3
  <2>4. CASE j # i
    <3>1. e[j] * s[j] = 0
      BY <1>1, <2>2, <2>4
    <3> QED BY <1>2, <2>1, <2>2, <2>4, <3>1
  <2> QED BY <2>3, <2>4
<1>5. \A j \in 0..n : j \in T
  <2> HIDE DEF T
  <2> QED BY <1>3, <1>4, UpTo
<1>6. a[n] = s[i]
  BY <1>5
<1> QED BY <1>2, <1>6 DEF e

\* Division: two digits, the lower one of which is less than d, count to D * d.
LEMMA Digits ==
    ASSUME NEW d \in Nat, NEW D \in Nat
    PROVE  /\ D * d \in Nat
           /\ \A q \in 0..(D - 1) : \A r \in 0..(d - 1) : q * d + r \in 0..(D * d - 1)
           /\ \A v \in 0..(D * d - 1) : \E q \in 0..(D - 1) : \E r \in 0..(d - 1) : v = q * d + r
<1>1. D * d \in Nat
  OBVIOUS
<1>2. ASSUME NEW q \in 0..(D - 1), NEW r \in 0..(d - 1) PROVE q * d + r \in 0..(D * d - 1)
  <2>1. q * d \in Nat /\ (D - 1 - q) * d \in Nat
    BY <1>2
  <2>2. (D - 1 - q) * d = D * d - d - q * d
    OBVIOUS
  <2> QED BY <1>1, <2>1, <2>2
<1>3. ASSUME NEW v \in 0..(D * d - 1)
      PROVE  \E q \in 0..(D - 1) : \E r \in 0..(d - 1) : v = q * d + r
  <2> DEFINE T == {w \in Nat : \E q \in Nat : \E r \in 0..(d - 1) : w = q * d + r}
  <2>1. d # 0
    BY <1>3
  <2>2. 0 \in T
    <3>1. 0 = 0 * d + 0 /\ 0 \in 0..(d - 1) /\ 0 \in Nat
      BY <2>1
    <3> QED BY <3>1
  <2>3. ASSUME NEW w \in 1..v, w - 1 \in T PROVE w \in T
    <3>1. PICK q \in Nat : \E r \in 0..(d - 1) : w - 1 = q * d + r
      BY <2>3
    <3>2. PICK r \in 0..(d - 1) : w - 1 = q * d + r
      BY <3>1
    <3>3. w \in Nat /\ q * d \in Nat
      BY <1>1
    <3>4. CASE r + 1 \in 0..(d - 1)
      <4>1. w = q * d + (r + 1)
        BY <3>2, <3>3
      <4> QED BY <3>3, <3>4, <4>1
    <3>5. CASE r + 1 \notin 0..(d - 1)
      <4>1. r = d - 1 /\ 0 \in 0..(d - 1)
        BY <2>1, <3>5
      <4>2. (q + 1) * d = q * d + d
        OBVIOUS
      <4>3. w = (q + 1) * d + 0 /\ q + 1 \in Nat
        BY <3>2, <3>3, <4>1, <4>2
      <4> QED BY <3>3, <4>1, <4>3
    <3> QED BY <3>4, <3>5
  <2>4. v \in Nat /\ v \in 0..v
    BY <1>1
  <2>5. v \in T
    <3> HIDE DEF T
    <3> QED BY <2>2, <2>3, <2>4, UpTo
  <2>6. PICK q \in Nat : \E r \in 0..(d - 1) : v = q * d + r
    BY <2>5
  <2>7. PICK r \in 0..(d - 1) : v = q * d + r
    BY <2>6
  <2>8. q < D
    <3>1. SUFFICES ASSUME q >= D PROVE FALSE
      OBVIOUS
    <3>2. (q - D) * d \in Nat /\ (q - D) * d = q * d - D * d
      BY <3>1
    <3> QED BY <1>1, <2>7, <3>2
  <2> QED BY <2>7, <2>8
<1> QED BY <1>1, <1>2, <1>3

\* The elements of an array as far as the first k dimensions tell them apart, and
\* where their first k indices lead.
FirstIndices(d, k) == {f \in [DOMAIN d -> Nat] : \A i \in 1..k : f[i] < d[i]}
Reached(d, s, k) == {Sums(f, s)[k] : f \in FirstIndices(d, k)}

\* One more dimension repeats what the dimensions before it reach.
LEMMA OneMoreDimension ==
    ASSUME NEW n \in Nat, NEW d \in [1..n -> Nat], NEW s \in [1..n -> Int], NEW k \in 1..n
    PROVE  /\ \A v \in Reached(d, s, k) : \E p \in Reached(d, s, k - 1) :
                \E r \in 0..(d[k] - 1) : v = p + r * s[k]
           /\ \A p \in Reached(d, s, k - 1) : \A r \in 0..(d[k] - 1) :
                p + r * s[k] \in Reached(d, s, k)
<1>0. DOMAIN d = 1..n /\ k - 1 \in 0..n /\ k \in 0..n
  OBVIOUS
<1>1. ASSUME NEW f \in FirstIndices(d, k)
      PROVE  \E p \in Reached(d, s, k - 1) : \E r \in 0..(d[k] - 1) :
                 Sums(f, s)[k] = p + r * s[k]
  <2>1. f \in [1..n -> Nat] /\ \A i \in 1..k : f[i] < d[i]
    BY <1>0 DEF FirstIndices
  <2>2. f \in [1..n -> Int]
    BY <2>1
  <2>3. f \in FirstIndices(d, k - 1)
    BY <1>0, <2>1 DEF FirstIndices
  <2>4. f[k] \in 0..(d[k] - 1)
    BY <2>1
  <2>5. Sums(f, s)[k] = Sums(f, s)[k - 1] + f[k] * s[k]
    BY <2>2, SumsAre
  <2>6. Sums(f, s)[k - 1] \in Reached(d, s, k - 1)
    BY <2>3 DEF Reached
  <2> QED BY <2>4, <2>5, <2>6
<1>2. ASSUME NEW f \in FirstIndices(d, k - 1), NEW r \in 0..(d[k] - 1)
      PROVE  Sums(f, s)[k - 1] + r * s[k] \in Reached(d, s, k)
  <2> DEFINE g == [f EXCEPT ![k] = r]
  <2>1. f \in [1..n -> Nat] /\ \A i \in 1..(k - 1) : f[i] < d[i]
    BY <1>0 DEF FirstIndices
  <2>2. g \in [1..n -> Nat] /\ g[k] = r /\ \A i \in 1..(k - 1) : g[i] = f[i]
    BY <2>1
  <2> HIDE DEF g
  <2>3. f \in [1..n -> Int] /\ g \in [1..n -> Int]
    BY <2>1, <2>2
  <2>4. g \in FirstIndices(d, k)
    <3>1. \A i \in 1..k : g[i] < d[i]
      <4> SUFFICES ASSUME NEW i \in 1..k PROVE g[i] < d[i]
        OBVIOUS
      <4>1. CASE i = k
        BY <2>2, <4>1
      <4>2. CASE i # k
        <5>1. i \in 1..(k - 1)
          BY <4>2
        <5> QED BY <2>1, <2>2, <5>1
      <4> QED BY <4>1, <4>2
    <3> QED BY <1>0, <2>2, <3>1 DEF FirstIndices
  <2>5. \A i \in 1..(k - 1) : g[i] = f[i]
    BY <2>2
  <2>6. Sums(g, s)[k - 1] = Sums(f, s)[k - 1]
    BY <1>0, <2>3, <2>5, SameIndices
  <2>7. Sums(g, s)[k] = Sums(g, s)[k - 1] + g[k] * s[k]
    BY <2>3, SumsAre
  <2>8. Sums(g, s)[k] \in Reached(d, s, k)
    BY <2>4 DEF Reached
  <2> QED BY <2>2, <2>6, <2>7, <2>8
<1> QED BY <1>1, <1>2 DEF Reached

\* Before the first dimension there is the pointer.
LEMMA NoDimension ==
    ASSUME NEW n \in Nat, NEW d \in [1..n -> Nat], NEW s \in [1..n -> Int]
    PROVE  Reached(d, s, 0) = {0}
<1>1. ASSUME NEW f \in FirstIndices(d, 0) PROVE Sums(f, s)[0] = 0
  <2>1. f \in [1..n -> Int]
    BY DEF FirstIndices
  <2> QED BY <2>1, SumsAre
<1>2. [i \in 1..n |-> 0] \in FirstIndices(d, 0)
  BY DEF FirstIndices
<1> QED BY <1>1, <1>2 DEF Reached

\* The spans of the dimensions from the last to the first.
LEMMA InnerSpans ==
    ASSUME NEW z \in Nat, NEW n \in Nat, NEW shape \in [1..n -> Nat]
    PROVE  LET u == Spans(z, Reverse(shape)) IN
           /\ u \in [0..n -> Nat] /\ u[0] = z
           /\ \A k \in 1..n : u[n - (k - 1)] = u[n - k] * shape[k]
<1> DEFINE u == Spans(z, Reverse(shape))
<1>1. Len(shape) = n
  BY IsSeq
<1>2. Reverse(shape) = [i \in 1..n |-> shape[(n - i) + 1]]
  BY <1>1 DEF Reverse
<1>3. \A i \in 1..n : shape[(n - i) + 1] \in Nat
  BY <1>1
<1>4. Reverse(shape) \in [1..n -> Nat]
  BY <1>2, <1>3
<1>6. /\ u \in [0..n -> Nat] /\ u[0] = z
      /\ \A i \in 1..n : u[i] = u[i - 1] * Reverse(shape)[i]
  BY <1>4, SpansAre
<1> HIDE DEF u
<1>7. ASSUME NEW k \in 1..n PROVE u[n - (k - 1)] = u[n - k] * shape[k]
  <2>1. n - (k - 1) \in 1..n /\ (n - (k - 1)) - 1 = n - k
    BY <1>1
  <2>2. Reverse(shape)[n - (k - 1)] = shape[(n - (n - (k - 1))) + 1]
    BY <1>2, <2>1
  <2>3. (n - (n - (k - 1))) + 1 = k
    BY <1>1
  <2> QED BY <1>6, <2>1, <2>2, <2>3
<1> QED BY <1>1, <1>6, <1>7 DEF u

\* The size of an element is a factor of each span.
LEMMA SpansScale ==
    ASSUME NEW z \in Nat, NEW n \in Nat, NEW dims \in [1..n -> Nat]
    PROVE  \A i \in 0..n : Spans(z, dims)[i] = Spans(1, dims)[i] * z
<1> DEFINE a == Spans(z, dims)
           b == Spans(1, dims)
<1>1. /\ a \in [0..n -> Nat] /\ a[0] = z /\ \A i \in 1..n : a[i] = a[i - 1] * dims[i]
      /\ b \in [0..n -> Nat] /\ b[0] = 1 /\ \A i \in 1..n : b[i] = b[i - 1] * dims[i]
  <2>1. 1 \in Nat
    OBVIOUS
  <2> QED BY <2>1, SpansAre, Zenon
<1>2. \A i \in 1..n : dims[i] \in Nat
  OBVIOUS
<1> HIDE DEF a, b
<1> DEFINE T == {i \in 0..n : a[i] = b[i] * z}
<1>3. 0 \in T
  BY <1>1, <1>2
<1>4. ASSUME NEW i \in 1..n, i - 1 \in T PROVE i \in T
  <2>1. i \in 0..n /\ i - 1 \in 0..n
    BY <1>2
  <2>2. b[i - 1] \in Nat /\ dims[i] \in Nat /\ a[i - 1] = b[i - 1] * z
    BY <1>1, <1>2, <1>4, <2>1
  <2>3. a[i] = (b[i - 1] * z) * dims[i]
    BY <1>1, <2>2
  <2>4. b[i] = b[i - 1] * dims[i]
    BY <1>1
  <2>5. (b[i - 1] * z) * dims[i] = (b[i - 1] * dims[i]) * z
    BY <2>2
  <2> QED BY <2>1, <2>3, <2>4, <2>5
<1>5. \A i \in 0..n : i \in T
  <2> HIDE DEF T
  <2> QED BY <1>2, <1>3, <1>4, UpTo
<1> QED BY <1>5 DEF a, b

\* The strides of a C-contiguous array, and of an F-contiguous one.
InnerFirst(s, z, shape, n) == \A i \in 1..n : s[i] = Spans(z, Reverse(shape))[n - i]
OuterFirst(s, z, shape, n) == \A i \in 1..n : s[i] = Spans(z, shape)[i - 1]

\* With the strides of a C-contiguous array the first k indices lead to the multiples of
\* what the dimensions after them span, from 0 on; so all of them lead to those of an element.
LEMMA InnerReached ==
    ASSUME NEW z \in Nat, NEW n \in Nat, NEW shape \in [1..n -> Nat],
           NEW s \in [1..n -> Int], InnerFirst(s, z, shape, n)
    PROVE  Reached(shape, s, n) = {q * z : q \in 0..(Spans(1, shape)[n] - 1)}
<1> DEFINE u == Spans(z, Reverse(shape))
           D == Spans(1, shape)
           Right(j) == Reached(shape, s, j) = {q * u[n - j] : q \in 0..(D[j] - 1)}
           T == {j \in 0..n : Right(j)}
<1>1. /\ u \in [0..n -> Nat] /\ u[0] = z
      /\ \A j \in 1..n : u[n - (j - 1)] = u[n - j] * shape[j]
  BY InnerSpans
<1>2. D \in [0..n -> Nat] /\ D[0] = 1 /\ \A j \in 1..n : D[j] = D[j - 1] * shape[j]
  <2>1. 1 \in Nat
    OBVIOUS
  <2> QED BY <2>1, SpansAre, Zenon
<1>3. \A i \in 1..n : s[i] = u[n - i]
  BY DEF InnerFirst
<1> HIDE DEF u, D
<1>4. 0 \in T
  <2>1. Reached(shape, s, 0) = {0}
    BY <1>1, NoDimension
  <2>2. u[n] \in Nat /\ n - 0 = n /\ 0 * u[n] = 0 /\ 0..(1 - 1) = {0}
    BY <1>1
  <2>3. ASSUME NEW q \in 0..(D[0] - 1) PROVE q * u[n - 0] = 0
    <3>1. q = 0
      BY <1>2
    <3> QED BY <2>2, <3>1
  <2>4. 0 \in 0..(D[0] - 1)
    BY <1>2
  <2>5. Right(0)
    BY <2>1, <2>3, <2>4
  <2> QED BY <2>5
<1>5. ASSUME NEW j \in 1..n, j - 1 \in T PROVE j \in T
  <2> DEFINE d == shape[j]
             E == D[j - 1]
             w == u[n - j]
  <2>1. j \in 0..n /\ j - 1 \in 0..n /\ n - j \in 0..n
    BY <1>1
  <2>2. /\ d \in Nat /\ E \in Nat /\ w \in Nat /\ D[j] = E * d
        /\ u[n - (j - 1)] = w * d /\ s[j] = w
    BY <1>1, <1>2, <1>3, <2>1
  <2>3. Reached(shape, s, j - 1) = {q * (w * d) : q \in 0..(E - 1)}
    BY <1>5, <2>2
  <2>4. /\ \A v \in Reached(shape, s, j) : \E p \in Reached(shape, s, j - 1) :
             \E r \in 0..(d - 1) : v = p + r * s[j]
        /\ \A p \in Reached(shape, s, j - 1) : \A r \in 0..(d - 1) :
             p + r * s[j] \in Reached(shape, s, j)
    BY <1>1, OneMoreDimension
  <2> HIDE DEF d, E, w
  <2>5. ASSUME NEW q \in Nat, NEW r \in Nat PROVE q * (w * d) + r * w = (q * d + r) * w
    BY <2>2
  <2>6. ASSUME NEW v \in Reached(shape, s, j) PROVE v \in {q * w : q \in 0..(E * d - 1)}
    <3>1. PICK p \in Reached(shape, s, j - 1) : \E r \in 0..(d - 1) : v = p + r * s[j]
      BY <2>4
    <3>2. PICK r \in 0..(d - 1) : v = p + r * w
      BY <2>2, <3>1
    <3>3. PICK q \in 0..(E - 1) : p = q * (w * d)
      BY <2>3
    <3>4. q * d + r \in 0..(E * d - 1)
      BY <2>2, Digits
    <3>5. v = (q * d + r) * w
      BY <2>2, <2>5, <3>2, <3>3
    <3> QED BY <3>4, <3>5
  <2>7. ASSUME NEW m \in 0..(E * d - 1) PROVE m * w \in Reached(shape, s, j)
    <3>1. PICK q \in 0..(E - 1) : \E r \in 0..(d - 1) : m = q * d + r
      BY <2>2, Digits
    <3>2. PICK r \in 0..(d - 1) : m = q * d + r
      BY <3>1
    <3>3. q * (w * d) + r * w \in Reached(shape, s, j)
      BY <2>2, <2>3, <2>4
    <3>4. m * w = q * (w * d) + r * w
      BY <2>2, <2>5, <3>2
    <3> QED BY <3>3, <3>4
  <2>8. Right(j)
    BY <2>2, <2>6, <2>7 DEF w
  <2> QED BY <2>1, <2>8
<1>6. n \in T
  <2>1. n \in 0..n
    OBVIOUS
  <2> HIDE DEF T
  <2> QED BY <1>4, <1>5, <2>1, UpTo
<1>7. n - n = 0
  OBVIOUS
<1> QED BY <1>1, <1>6, <1>7 DEF u, D

\* With those of an F-contiguous one, to multiples of the size of an element.
LEMMA OuterReached ==
    ASSUME NEW z \in Nat, NEW n \in Nat, NEW shape \in [1..n -> Nat],
           NEW s \in [1..n -> Int], OuterFirst(s, z, shape, n)
    PROVE  Reached(shape, s, n) = {q * z : q \in 0..(Spans(1, shape)[n] - 1)}
<1> DEFINE D == Spans(1, shape)
           Right(j) == Reached(shape, s, j) = {q * z : q \in 0..(D[j] - 1)}
           T == {j \in 0..n : Right(j)}
<1>2. D \in [0..n -> Nat] /\ D[0] = 1 /\ \A j \in 1..n : D[j] = D[j - 1] * shape[j]
  <2>1. 1 \in Nat
    OBVIOUS
  <2> QED BY <2>1, SpansAre, Zenon
<1>3. ASSUME NEW i \in 1..n PROVE s[i] = D[i - 1] * z
  <2>1. i - 1 \in 0..n /\ s[i] = Spans(z, shape)[i - 1]
    BY DEF OuterFirst
  <2> QED BY <2>1, SpansScale
<1> HIDE DEF D
<1>4. 0 \in T
  <2>1. Reached(shape, s, 0) = {0}
    BY NoDimension
  <2>2. 0 * z = 0 /\ 0..(1 - 1) = {0}
    OBVIOUS
  <2>3. ASSUME NEW q \in 0..(D[0] - 1) PROVE q * z = 0
    <3>1. q = 0
      BY <1>2
    <3> QED BY <2>2, <3>1
  <2>4. 0 \in 0..(D[0] - 1)
    BY <1>2
  <2>5. Right(0)
    BY <2>1, <2>3, <2>4
  <2> QED BY <2>5
<1>5. ASSUME NEW j \in 1..n, j - 1 \in T PROVE j \in T
  <2> DEFINE d == shape[j]
             E == D[j - 1]
  <2>1. j \in 0..n /\ j - 1 \in 0..n
    OBVIOUS
  <2>2. d \in Nat /\ E \in Nat /\ D[j] = E * d /\ s[j] = E * z /\ E * d = d * E
    BY <1>2, <1>3, <2>1
  <2>3. Reached(shape, s, j - 1) = {q * z : q \in 0..(E - 1)}
    BY <1>5
  <2>4. /\ \A v \in Reached(shape, s, j) : \E p \in Reached(shape, s, j - 1) :
             \E r \in 0..(d - 1) : v = p + r * s[j]
        /\ \A p \in Reached(shape, s, j - 1) : \A r \in 0..(d - 1) :
             p + r * s[j] \in Reached(shape, s, j)
    BY OneMoreDimension
  <2> HIDE DEF d, E
  <2>5. ASSUME NEW q \in Nat, NEW r \in Nat PROVE q * z + r * (E * z) = (r * E + q) * z
    BY <2>2
  <2>6. ASSUME NEW v \in Reached(shape, s, j) PROVE v \in {q * z : q \in 0..(E * d - 1)}
    <3>1. PICK p \in Reached(shape, s, j - 1) : \E r \in 0..(d - 1) : v = p + r * s[j]
      BY <2>4
    <3>2. PICK r \in 0..(d - 1) : v = p + r * (E * z)
      BY <2>2, <3>1
    <3>3. PICK q \in 0..(E - 1) : p = q * z
      BY <2>3
    <3>4. r * E + q \in 0..(d * E - 1)
      BY <2>2, Digits
    <3>5. v = (r * E + q) * z
      BY <2>2, <2>5, <3>2, <3>3
    <3> QED BY <2>2, <3>4, <3>5
  <2>7. ASSUME NEW m \in 0..(E * d - 1) PROVE m * z \in Reached(shape, s, j)
    <3>0. m \in 0..(d * E - 1)
      BY <2>2
    <3>1. PICK r \in 0..(d - 1) : \E q \in 0..(E - 1) : m = r * E + q
      BY <2>2, <3>0, Digits
    <3>2. PICK q \in 0..(E - 1) : m = r * E + q
      BY <3>1
    <3>3. q * z + r * (E * z) \in Reached(shape, s, j)
      BY <2>2, <2>3, <2>4
    <3>4. m * z = q * z + r * (E * z)
      BY <2>2, <2>5, <3>2
    <3> QED BY <3>3, <3>4
  <2>8. Right(j)
    BY <2>2, <2>6, <2>7
  <2> QED BY <2>1, <2>8
<1>6. n \in T
  <2>1. n \in 0..n
    OBVIOUS
  <2> HIDE DEF T
  <2> QED BY <1>4, <1>5, <2>1, UpTo
<1> QED BY <1>6 DEF D

-----------------------------------------------------------------------------
(* What an Array says of a layout.                                          *)

\* The indices of an array are those that all its dimensions bound; there are none
\* without elements.
LEMMA AllIndices ==
    ASSUME NEW n \in Nat, NEW shape \in [1..n -> Nat]
    PROVE  /\ Indices(shape) = FirstIndices(shape, n)
           /\ \A f \in Indices(shape) :
                  f \in [1..n -> Int] /\ \A i \in 1..n : f[i] \in Nat /\ f[i] < shape[i]
           /\ \A z \in Nat \ {0} : Spans(z, shape)[n] = 0 => Indices(shape) = {}
<1>1. ASSUME NEW f \in FirstIndices(shape, n) PROVE f \in Indices(shape)
  <2>1. f \in [1..n -> Nat] /\ \A i \in 1..n : f[i] < shape[i]
    BY <1>1 DEF FirstIndices
  <2>2. ASSUME NEW i \in 1..n PROVE f[i] \in UNION {0..(shape[j] - 1) : j \in 1..n}
    <3>1. f[i] \in 0..(shape[i] - 1)
      BY <2>1
    <3> QED BY <3>1
  <2>3. f \in [1..n -> UNION {0..(shape[j] - 1) : j \in 1..n}]
    BY <2>1, <2>2
  <2> QED BY <2>1, <2>3 DEF Indices
<1>2. ASSUME NEW f \in Indices(shape) PROVE f \in FirstIndices(shape, n)
  <2>1. f \in [1..n -> UNION {0..(shape[j] - 1) : j \in 1..n}] /\ \A i \in 1..n : f[i] < shape[i]
    BY <1>2 DEF Indices
  <2>2. UNION {0..(shape[j] - 1) : j \in 1..n} \subseteq Nat
    OBVIOUS
  <2>3. f \in [1..n -> Nat]
    BY <2>1, <2>2
  <2> QED BY <2>1, <2>3 DEF FirstIndices
<1>3. Indices(shape) = FirstIndices(shape, n)
  BY <1>1, <1>2
<1>4. ASSUME NEW f \in FirstIndices(shape, n)
      PROVE  f \in [1..n -> Int] /\ \A i \in 1..n : f[i] \in Nat /\ f[i] < shape[i]
  BY <1>4 DEF FirstIndices
<1>5. ASSUME NEW z \in Nat \ {0}, NEW f \in Indices(shape) PROVE Spans(z, shape)[n] # 0
  <2> DEFINE a == Spans(z, shape)
             T == {i \in 0..n : a[i] # 0}
  <2>1. a \in [0..n -> Nat] /\ a[0] = z /\ \A i \in 1..n : a[i] = a[i - 1] * shape[i]
    <3>1. z \in Nat
      OBVIOUS
    <3> QED BY <3>1, SpansAre, Zenon
  <2>2. \A i \in 1..n : shape[i] # 0
    BY <1>3, <1>4
  <2> HIDE DEF a
  <2>3. 0 \in T
    BY <2>1
  <2>4. ASSUME NEW i \in 1..n, i - 1 \in T PROVE i \in T
    <3>1. a[i - 1] \in Nat /\ shape[i] \in Nat /\ a[i - 1] # 0 /\ shape[i] # 0 /\ i \in 0..n
      BY <2>1, <2>2, <2>4
    <3>2. a[i - 1] * shape[i] # 0
      BY <3>1
    <3> QED BY <2>1, <3>1, <3>2
  <2>5. \A i \in 0..n : i \in T
    <3> HIDE DEF T
    <3> QED BY <2>3, <2>4, UpTo
  <2> QED BY <2>5 DEF a
<1> QED BY <1>3, <1>4, <1>5

\* The bytes of the elements of an array with these strides.
Covered(shape, s, z) == {Offset(f, s) + b : f \in Indices(shape), b \in 0..(z - 1)}

\* Those of an array that is C- or F-contiguous.
LEMMA ContiguousBytes ==
    ASSUME NEW n \in Nat, NEW z \in Nat, NEW shape \in [1..n -> Nat], NEW s \in [1..n -> Int],
           InnerFirst(s, z, shape, n) \/ OuterFirst(s, z, shape, n)
    PROVE  Covered(shape, s, z) = 0..(Spans(z, shape)[n] - 1)
<1> DEFINE D == Spans(1, shape)[n]
<1>1. n \in 0..n /\ 1 \in Nat
  OBVIOUS
<1>2. D \in Nat
  <2>1. Spans(1, shape) \in [0..n -> Nat]
    BY <1>1, SpansAre, Zenon
  <2> QED BY <1>1, <2>1
<1>3. Spans(z, shape)[n] = D * z
  BY <1>1, SpansScale
<1>4. Reached(shape, s, n) = {q * z : q \in 0..(D - 1)}
  <2>1. CASE InnerFirst(s, z, shape, n)
    BY <2>1, InnerReached
  <2>2. CASE OuterFirst(s, z, shape, n)
    BY <2>2, OuterReached
  <2> QED BY <2>1, <2>2
<1> HIDE DEF D
<1>5. ASSUME NEW f \in Indices(shape) PROVE Offset(f, s) = Sums(f, s)[n]
  <2>1. f \in [1..n -> Int]
    BY AllIndices
  <2> QED BY <2>1, SumsAre
<1>6. Indices(shape) = FirstIndices(shape, n)
  BY AllIndices
<1>7. ASSUME NEW f \in Indices(shape), NEW b \in 0..(z - 1)
      PROVE  Offset(f, s) + b \in 0..(D * z - 1)
  <2>1. Offset(f, s) \in Reached(shape, s, n)
    BY <1>5, <1>6 DEF Reached
  <2>2. PICK q \in 0..(D - 1) : Offset(f, s) = q * z
    BY <1>4, <2>1
  <2> QED BY <1>2, <2>2, Digits
<1>8. ASSUME NEW v \in 0..(D * z - 1)
      PROVE  \E f \in Indices(shape) : \E b \in 0..(z - 1) : v = Offset(f, s) + b
  <2>1. PICK q \in 0..(D - 1) : \E b \in 0..(z - 1) : v = q * z + b
    BY <1>2, Digits
  <2>2. q * z \in Reached(shape, s, n)
    BY <1>4
  <2>3. PICK f \in Indices(shape) : Offset(f, s) = q * z
    BY <1>5, <1>6, <2>2 DEF Reached
  <2> QED BY <2>1, <2>3
<1> QED BY <1>3, <1>7, <1>8 DEF Covered

\* What is known of an exporter.
IsExporter(x) ==
    /\ x \in [cuda : BOOLEAN, unsupported : BOOLEAN, itemsize : Nat \ {0},
              shape : Seq(Nat), strides : Seq(Int) \cup {NoStrides}]
    /\ ~x.cuda => x.strides # NoStrides /\ Len(x.strides) = Len(x.shape)

\* What an Array keeps of it.
LEMMA ArrayKeeps ==
    ASSUME NEW x, IsExporter(x), ~Array(x).refused
    PROVE  LET n == Len(x.shape)
               a == Array(x)
           IN
           /\ n \in Nat /\ x.itemsize \in Nat \ {0} /\ x.shape \in [1..n -> Nat]
           /\ a.shape = x.shape /\ a.itemsize = x.itemsize
           /\ CStrides(x) \in [1..n -> Int] /\ TrueStrides(x) \in [1..n -> Int]
           /\ \A i \in 1..n : CStrides(x)[i] = CStride(x, i)
           /\ a.strides # NoStrides => a.strides = TrueStrides(x)
           /\ a.strides = NoStrides =>
                \A f \in Indices(x.shape) : Offset(f, TrueStrides(x)) = Offset(f, CStrides(x))
<1> DEFINE n == Len(x.shape)
           z == x.itemsize
           a == Array(x)
           c == CStrides(x)
           t == TrueStrides(x)
<1>1. /\ x.shape \in Seq(Nat) /\ z \in Nat \ {0} /\ x.cuda \in BOOLEAN
      /\ x.strides \in Seq(Int) \/ x.strides = NoStrides
      /\ ~x.cuda => x.strides # NoStrides /\ Len(x.strides) = n
  BY DEF IsExporter
<1>2. n \in Nat /\ x.shape \in [1..n -> Nat] /\ (x.shape = <<>> <=> n = 0)
  BY <1>1, LenProperties, ElementOfSeq, EmptySeq
<1>3. /\ ~(x.cuda /\ x.shape # <<>> /\ x.strides # NoStrides /\ Len(x.strides) # n)
      /\ a.shape = x.shape /\ a.itemsize = z
      /\ a.strides = IF x.cuda THEN DeviceStrides(x) ELSE HostStrides(x)
  BY DEF Array, NoArray
<1>4. c \in [1..n -> Int] /\ \A i \in 1..n : c[i] = CStride(x, i)
  <2>1. Spans(z, Reverse(x.shape)) \in [0..n -> Nat]
    BY <1>1, <1>2, InnerSpans
  <2>2. ASSUME NEW i \in 1..n PROVE CStride(x, i) \in Nat
    <3>1. n - i \in 0..n
      BY <1>2
    <3> QED BY <2>1, <3>1 DEF CStride
  <2> QED BY <1>2, <2>2 DEF CStrides
<1> HIDE DEF c, t, a, n
<1>5. t \in [1..n -> Int] /\ (x.strides # NoStrides /\ x.shape # <<>> => t = x.strides)
      /\ (x.strides = NoStrides \/ x.shape = <<>> => t = c)
  <2>1. CASE x.strides = NoStrides \/ x.shape = <<>>
    BY <1>4, <2>1 DEF TrueStrides, t, c
  <2>2. CASE x.strides # NoStrides /\ x.shape # <<>>
    <3>1. t = x.strides
      BY <2>2 DEF TrueStrides, t
    <3>2. x.strides \in Seq(Int) /\ Len(x.strides) = n
      BY <1>1, <1>3, <2>2
    <3>3. x.strides \in [1..n -> Int]
      BY <3>2, LenProperties, ElementOfSeq
    <3> QED BY <2>2, <3>1, <3>3
  <2> QED BY <2>1, <2>2
<1>6. a.strides # NoStrides => a.strides = t
  BY <1>1, <1>3, <1>5 DEF DeviceStrides, HostStrides
<1>7. ASSUME a.strides = NoStrides, NEW f \in Indices(x.shape)
      PROVE  Offset(f, t) = Offset(f, c)
  <2>1. /\ f \in [1..n -> Int] /\ \A i \in 1..n : f[i] \in Nat /\ f[i] < x.shape[i]
        /\ Spans(z, x.shape)[n] # 0
    BY <1>1, <1>2, <1>7, AllIndices
  <2>2. CASE x.strides = NoStrides \/ x.shape = <<>>
    BY <1>5, <2>2
  <2>3. CASE x.strides # NoStrides /\ x.shape # <<>>
    <3>1. ~x.cuda /\ BufferIsC(x)
      BY <1>1, <1>3, <1>7, <2>3 DEF DeviceStrides, HostStrides
    <3>2. NBytes(x) # 0
      BY <2>1 DEF NBytes, n
    <3>3. \A i \in 1..n : x.shape[i] # 1 => x.strides[i] = CStride(x, i)
      BY <1>2, <3>1, <3>2 DEF BufferIsC
    <3>4. t = x.strides
      BY <1>5, <2>3
    <3>5. ASSUME NEW i \in 1..n PROVE f[i] = 0 \/ t[i] = c[i]
      <4>1. x.shape[i] # 1 => t[i] = c[i]
        BY <1>4, <3>3, <3>4
      <4>2. f[i] \in Nat /\ f[i] < x.shape[i]
        BY <2>1
      <4>3. x.shape[i] = 1 => f[i] = 0
        BY <4>2
      <4> QED BY <4>1, <4>3
    <3> QED BY <1>2, <1>4, <1>5, <2>1, <3>5, SameOffset
  <2> QED BY <2>2, <2>3
<1> QED BY <1>1, <1>2, <1>3, <1>4, <1>5, <1>6, <1>7 DEF a, c, n, t

\* So what it says of the layout is true.
LEMMA ArraySays ==
    ASSUME NEW x, IsExporter(x), ~Array(x).refused
    PROVE  LET a == Array(x)
               inOrder == \A f \in Indices(x.shape) :
                              Offset(f, TrueStrides(x)) = Offset(f, CStrides(x))
           IN
           /\ Contiguous(a) => Bytes(x) = 0..(NBytes(a) - 1)
           /\ CContiguous(a) => inOrder
           /\ inOrder /\ (\A i \in DOMAIN x.shape : x.shape[i] >= 2) => CContiguous(a)
           /\ \A f \in Indices(x.shape) : Offset(f, Strides(a)) = Offset(f, TrueStrides(x))
<1> DEFINE n == Len(x.shape)
           z == x.itemsize
           shape == x.shape
           a == Array(x)
           c == CStrides(x)
           t == TrueStrides(x)
           inOrder == \A f \in Indices(shape) : Offset(f, t) = Offset(f, c)
           bytes == 0..(Spans(z, shape)[n] - 1)
<1>1. /\ n \in Nat /\ z \in Nat /\ shape \in [1..n -> Nat]
      /\ a.shape = shape /\ a.itemsize = z
      /\ c \in [1..n -> Int] /\ t \in [1..n -> Int]
      /\ \A i \in 1..n : c[i] = CStride(x, i)
      /\ a.strides # NoStrides => a.strides = t
      /\ a.strides = NoStrides => inOrder
  BY ArrayKeeps
<1>2. /\ NBytes(a) = Spans(z, shape)[n] /\ DOMAIN shape = 1..n
      /\ \A i : CStride(a, i) = CStride(x, i) /\ FStride(a, i) = FStride(x, i)
      /\ CStrides(a) = c
  BY <1>1 DEF NBytes, CStride, FStride, CStrides
<1>3. InnerFirst(c, z, shape, n) /\ \A i : FStride(x, i) = Spans(z, shape)[i - 1]
  BY <1>1 DEF InnerFirst, CStride, FStride
<1>4. Bytes(x) = Covered(shape, t, z)
  BY DEF Bytes, Covered
<1> HIDE DEF a, c, t, n, z, shape
<1>5. ASSUME NEW s \in [1..n -> Int], InnerFirst(s, z, shape, n) \/ OuterFirst(s, z, shape, n)
      PROVE  Covered(shape, s, z) = bytes
  <2>1. n \in Nat /\ z \in Nat /\ shape \in [1..n -> Nat]
    BY <1>1
  <2> QED BY <1>5, <2>1, ContiguousBytes, Zenon
<1>6. inOrder => Covered(shape, t, z) = Covered(shape, c, z)
  <2>1. SUFFICES ASSUME inOrder PROVE Covered(shape, t, z) = Covered(shape, c, z)
    OBVIOUS
  <2>2. \A v : v \in Covered(shape, t, z) => v \in Covered(shape, c, z)
    BY <2>1 DEF Covered
  <2>3. \A v : v \in Covered(shape, c, z) => v \in Covered(shape, t, z)
    BY <2>1 DEF Covered
  <2>4. \A f : f \in Covered(shape, t, z) <=> f \in Covered(shape, c, z)
    BY <2>2, <2>3
  <2> QED BY <2>4 DEF Covered
<1>7. CContiguous(a) => inOrder
  <2>1. CASE a.strides = NoStrides
    BY <1>1, <2>1
  <2>2. CASE a.strides # NoStrides /\ CContiguous(a)
    <3>1. \A i \in 1..n : t[i] = c[i]
      BY <1>1, <1>2, <2>2 DEF CContiguous
    <3>2. t = [i \in 1..n |-> t[i]] /\ c = [i \in 1..n |-> c[i]]
      BY <1>1
    <3>3. [i \in 1..n |-> t[i]] = [i \in 1..n |-> c[i]]
      BY <3>1
    <3>4. t = c
      BY <3>2, <3>3, Zenon
    <3> QED BY <3>4
  <2> QED BY <2>1, <2>2
<1>8. ASSUME Contiguous(a) PROVE Covered(shape, t, z) = bytes
  <2> HIDE DEF bytes
  <2>1. CASE CContiguous(a)
    BY <1>1, <1>3, <1>7, <1>5, <1>6, <2>1
  <2>2. CASE a.strides # NoStrides /\ FContiguous(a)
    <3>1. OuterFirst(t, z, shape, n)
      BY <1>1, <1>2, <1>3, <2>2 DEF FContiguous, OuterFirst
    <3> QED BY <1>1, <1>5, <3>1
  <2>3. CASE a.strides = NoStrides
    <3>1. CContiguous(a)
      BY <2>3 DEF CContiguous
    <3> QED BY <2>1, <3>1
  <2> QED BY <1>8, <2>1, <2>2, <2>3 DEF Contiguous
<1>9. ASSUME inOrder, \A i \in 1..n : shape[i] >= 2 PROVE CContiguous(a)
  <2>1. CASE a.strides = NoStrides
    BY <2>1 DEF CContiguous
  <2>2. CASE a.strides # NoStrides
    <3>1. ASSUME NEW i \in 1..n PROVE t[i] = c[i]
      <4> DEFINE e == [j \in 1..n |-> IF j = i THEN 1 ELSE 0]
      <4>1. e \in [1..n -> Nat] /\ \A j \in 1..n : e[j] < shape[j]
        <5>1. \A j \in 1..n : e[j] <= 1 /\ shape[j] \in Nat /\ shape[j] >= 2
          BY <1>1, <1>9
        <5> QED BY <5>1
      <4>2. Offset(e, t) = t[i] /\ Offset(e, c) = c[i]
        BY <1>1, UnitOffset
      <4> HIDE DEF e
      <4>3. e \in FirstIndices(shape, n)
        BY <1>2, <4>1 DEF FirstIndices
      <4>4. e \in Indices(shape)
        BY <1>1, <4>3, AllIndices
      <4> QED BY <1>9, <4>2, <4>4
    <3> QED BY <1>1, <1>2, <2>2, <3>1 DEF CContiguous
  <2> QED BY <2>1, <2>2
<1>10. ASSUME NEW f \in Indices(shape) PROVE Offset(f, Strides(a)) = Offset(f, t)
  <2>1. CASE a.strides = NoStrides
    <3>1. Strides(a) = c
      BY <1>2, <2>1 DEF Strides
    <3> QED BY <1>1, <2>1, <3>1
  <2>2. CASE a.strides # NoStrides
    BY <1>1, <2>2 DEF Strides
  <2> QED BY <2>1, <2>2
<1> QED BY <1>2, <1>4, <1>7, <1>8, <1>9, <1>10 DEF a, c, t, n, shape

-----------------------------------------------------------------------------
(* The stream.                                                              *)

Kinds == {"get", "put"}

Operations == {Idle} \cup [kind : Kinds, at : Int, data : Seq(Values), left : SUBSET Int]

Calls == [kind : {"read", "write"}, size : Nat]

Extent == [stream |-> Length, direct |-> Width]

Types ==
    /\ mem \in [Address -> Values]
    /\ ops \in [Owners -> Operations]
    /\ flush \in {"none", "pending", "failed"} /\ cbFinished \in BOOLEAN
    /\ direct \in {"none", "callback", "flush"}
    /\ pos \in Nat /\ call \in {NoCall} \cup Calls

\* An operation moves bytes of its owner's region.
Inside ==
    \A o \in Owners :
        LET op == ops[o] IN
        op # Idle => /\ op.left \subseteq 1..Len(op.data)
                     /\ Base[o] <= op.at /\ op.at + Len(op.data) <= Base[o] + Extent[o]

\* There is no operation that nobody waits for.
Awaited ==
    /\ call = NoCall => ops.stream = Idle
    /\ direct = "none" => ops.direct = Idle
    /\ ~opened => call = NoCall

\* The operation of the stream is that of the call, in the bytes before pos.
Current ==
    call # NoCall =>
        /\ call.size <= pos /\ pos <= Length
        /\ ops.stream # Idle =>
             /\ ops.stream.kind = IF call.kind = "read" THEN "get" ELSE "put"
             /\ ops.stream.at = pos - call.size /\ Len(ops.stream.data) = call.size

\* The flag speaks of the flush of this call.
FlagRight ==
    /\ cbFinished => flush = "pending" /\ ops.stream = Idle
    /\ flush # "none" => call # NoCall

\* What has arrived of a read is what the memory holds.
Arrived ==
    call # NoCall /\ call.kind = "read" =>
        /\ local = [i \in 1..call.size |-> local[i]]
        /\ \A i \in 1..call.size :
              i \notin ops.stream.left => local[i] = mem[pos - call.size + i - 1]

StreamInv == Types /\ Inside /\ Awaited /\ Current /\ FlagRight /\ Arrived

-----------------------------------------------------------------------------
(* The bytes that a call moves.                                             *)

\* The buffers of the stream's calls have as many bytes as they say.
LEMMA BufferBytes ==
    ASSUME NEW n \in Nat
    PROVE  NBytes(Array(Buffer(n))) = n
<1>1. Array(Buffer(n)).itemsize = 1 /\ Array(Buffer(n)).shape = <<n>>
  BY DEF Array, Buffer
<1>2. <<n>> \in [1..1 -> Nat] /\ Len(<<n>>) = 1 /\ <<n>>[1] = n
  OBVIOUS
<1>3. Spans(1, <<n>>)[0] = 1 /\ Spans(1, <<n>>)[1] = Spans(1, <<n>>)[1 - 1] * <<n>>[1]
  <2>1. 1 \in Nat
    OBVIOUS
  <2>2. /\ Spans(1, <<n>>)[0] = 1
        /\ \A i \in 1..1 : Spans(1, <<n>>)[i] = Spans(1, <<n>>)[i - 1] * <<n>>[i]
    BY <1>2, <2>1, SpansAre, Zenon
  <2> QED BY <2>2
<1>4. Spans(1, <<n>>)[1] = n
  BY <1>2, <1>3
<1> QED BY <1>1, <1>2, <1>4 DEF NBytes

\* A call ends within the stream.
LEMMA CutFits ==
    ASSUME pos \in Nat, NEW n \in Nat, Cut(n) >= 0
    PROVE  Cut(n) \in Nat /\ pos + Cut(n) <= Length
BY StreamAssumption DEF Cut

-----------------------------------------------------------------------------
(* What the actions are made of.                                            *)

\* The regions have no byte in common.
LEMMA Regions ==
    /\ Owners = {"stream", "direct"} /\ Length \in Nat /\ Width \in Nat
    /\ Base["stream"] = 0 /\ Base["direct"] = Length
    /\ Extent["stream"] = Length /\ Extent["direct"] = Width
    /\ \A o \in Owners : Base[o] \in Nat /\ Extent[o] \in Nat
                         /\ Base[o] + Extent[o] <= Length + Width
BY StreamAssumption DEF Owners, Base, Extent

\* The bytes of a buffer are a sequence of as many.
LEMMA BufferIsSeq ==
    ASSUME NEW n \in Nat, NEW data \in [1..n -> Values]
    PROVE  data \in Seq(Values) /\ Len(data) = n /\ DOMAIN data = 1..n
OBVIOUS

\* What an operation is that UCX takes.
LEMMA PostKeeps ==
    ASSUME ops \in [Owners -> Operations], Inside,
           NEW o \in Owners, NEW kind \in Kinds, NEW at \in Nat, NEW n \in Nat,
           NEW data \in [1..n -> Values],
           Base[o] <= at, at + n <= Base[o] + Extent[o], Post(o, kind, at, data)
    PROVE  /\ ops' \in [Owners -> Operations] /\ Inside'
           /\ ops'[o] = [kind |-> kind, at |-> at, data |-> data, left |-> 1..n]
           /\ Len(data) = n
           /\ ops'[o] # Idle
           /\ \A x \in Owners : x # o => ops'[x] = ops[x]
<1> DEFINE op == [kind |-> kind, at |-> at, data |-> data, left |-> 1..n]
<1>1. data \in Seq(Values) /\ Len(data) = n /\ DOMAIN data = 1..n
  BY BufferIsSeq
<1>2. ops' = [ops EXCEPT ![o] = op]
  BY <1>1 DEF Post
<1>3. op \in Operations
  BY <1>1 DEF Operations
<1>4. op # Idle
  <2>1. op.kind \in {"get", "put"} /\ Idle.kind = "none"
    BY DEF Kinds, Idle
  <2> QED BY <2>1
<1>5. op.left \subseteq 1..Len(op.data) /\ op.at = at /\ Len(op.data) = n
  BY <1>1
<1> HIDE DEF op
<1>6. /\ ops' \in [Owners -> Operations] /\ ops'[o] = op
      /\ \A x \in Owners : x # o => ops'[x] = ops[x]
  BY <1>2, <1>3
<1>7. Inside'
  BY <1>5, <1>6 DEF Inside
<1> QED BY <1>1, <1>4, <1>6, <1>7 DEF op

\* A byte that moves.
LEMMA TransferKeeps ==
    ASSUME ops \in [Owners -> Operations], Inside, NEW o \in Owners, NEW i \in ops[o].left,
           ops' = [ops EXCEPT ![o] = IF ops[o].left = {i} THEN Idle
                                     ELSE [ops[o] EXCEPT !.left = ops[o].left \ {i}]]
    PROVE  /\ ops' \in [Owners -> Operations] /\ Inside'
           /\ ops[o] # Idle /\ ops[o].kind \in Kinds
           /\ ops[o].data \in Seq(Values) /\ i \in 1..Len(ops[o].data) /\ ops[o].at \in Int
           /\ ops'[o].left = ops[o].left \ {i}
           /\ ops'[o] # Idle => /\ ops'[o].kind = ops[o].kind /\ ops'[o].at = ops[o].at
                                /\ ops'[o].data = ops[o].data
           /\ ops'[o] = Idle => ops[o].left = {i}
           /\ \A x \in Owners : x # o => ops'[x] = ops[x]
<1> DEFINE op == ops[o]
           less == [op EXCEPT !.left = op.left \ {i}]
<1>1. op # Idle /\ op \in [kind : Kinds, at : Int, data : Seq(Values), left : SUBSET Int]
  BY DEF Operations, Idle
<1>2. /\ less \in [kind : Kinds, at : Int, data : Seq(Values), left : SUBSET Int]
      /\ less.kind = op.kind /\ less.at = op.at /\ less.data = op.data /\ less.left = op.left \ {i}
  BY <1>1
<1>3. less # Idle
  <2>1. less.kind \in {"get", "put"} /\ Idle.kind = "none"
    BY <1>2 DEF Kinds, Idle
  <2> QED BY <2>1
<1>4. Idle.left = {} /\ Idle \in Operations /\ less \in Operations
  BY <1>2 DEF Idle, Operations
<1>5. /\ op.left \subseteq 1..Len(op.data)
      /\ Base[o] <= op.at /\ op.at + Len(op.data) <= Base[o] + Extent[o]
  BY <1>1 DEF Inside
<1> HIDE DEF less
<1>6. ops' = [ops EXCEPT ![o] = IF op.left = {i} THEN Idle ELSE less]
  BY DEF less
<1>7. /\ ops' \in [Owners -> Operations] /\ ops'[o] = IF op.left = {i} THEN Idle ELSE less
      /\ \A x \in Owners : x # o => ops'[x] = ops[x]
  BY <1>4, <1>6
<1>8. Inside'
  BY <1>2, <1>5, <1>7 DEF Inside
<1>9. ops'[o].left = op.left \ {i}
  BY <1>2, <1>4, <1>7
<1> QED BY <1>1, <1>2, <1>3, <1>5, <1>7, <1>8, <1>9

\* A put changes the bytes it covers.
LEMMA PutBytes ==
    ASSUME mem \in [Address -> Values], NEW at \in Int, NEW n \in Nat, NEW data \in [1..n -> Values]
    PROVE  /\ Put(at, data) \in [Address -> Values]
           /\ \A a \in Address :
                Put(at, data)[a] = IF a - at + 1 \in 1..n THEN data[a - at + 1] ELSE mem[a]
BY DEF Put

\* What a get brings.
LEMMA GotBytes ==
    ASSUME mem \in [Address -> Values], NEW at \in Nat, NEW n \in Nat, at + n <= Length + Width
    PROVE  Got(at, n) \in [1..n -> Values] /\ \A i \in 1..n : Got(at, n)[i] = mem[at + i - 1]
<1>1. \A i \in 1..n : at + i - 1 \in Address
  BY Regions DEF Address
<1> QED BY <1>1 DEF Got

-----------------------------------------------------------------------------
(* The invariant, action by action.                                         *)

\* The bytes of a read are in the stream's region.
LEMMA CallBytes ==
    ASSUME Types, Current, call # NoCall, NEW i \in 1..call.size
    PROVE  /\ call \in Calls /\ call.size \in Nat /\ pos \in Nat
           /\ pos - call.size + i - 1 \in Address /\ pos - call.size + i - 1 < Length
<1>1. call \in Calls /\ pos \in Nat
  BY DEF Types
<1>2. call.size \in Nat /\ call.size <= pos /\ pos <= Length
  BY <1>1 DEF Current, Calls
<1> QED BY <1>1, <1>2, Regions DEF Address

\* What happens beside the stream leaves its call alone.
LEMMA BesideInv ==
    ASSUME StreamInv, mem' \in [Address -> Values],
           \A a \in Address : a < Length => mem'[a] = mem[a],
           ops' \in [Owners -> Operations], Inside', ops'["stream"] = ops["stream"],
           direct' \in {"none", "callback", "flush"}, direct' = "none" => ops'["direct"] = Idle,
           UNCHANGED <<opened, flush, pos, cbFinished, call, local>>
    PROVE  StreamInv'
<1>1. Types'
  BY DEF StreamInv, Types
<1>2. Awaited' /\ Current' /\ FlagRight'
  BY DEF StreamInv, Awaited, Current, FlagRight
<1>3. Arrived'
  <2>1. SUFFICES ASSUME call # NoCall, call.kind = "read"
                 PROVE  /\ local = [i \in 1..call.size |-> local[i]]
                        /\ \A i \in 1..call.size :
                             i \notin ops["stream"].left => local[i] = mem'[pos - call.size + i - 1]
    BY DEF Arrived
  <2> QED BY <2>1, CallBytes DEF StreamInv, Arrived
<1> QED BY <1>1, <1>2, <1>3 DEF StreamInv

\* The four methods of a RemoteMemory, two ways to put and two to get.
LEMMA DirectPuts ==
    ASSUME NEW offset \in 0..Width, NEW n \in 0..Width,
           DirectPut(offset, n) \/ DirectPutNbi(offset, n)
    PROVE  \E data \in [1..n -> Values], done \in BOOLEAN :
             /\ PutNbi("direct", Length + offset, data, done)
             /\ direct' \in IF done THEN {"none"} ELSE {"callback", "flush"}
             /\ direct = "none" /\ n + offset <= Width
             /\ UNCHANGED <<opened, flush, pos, cbFinished, call, local, result>>
<1>1. CASE DirectPut(offset, n)
  <2>1. PICK data \in [1..n -> Values], req \in BOOLEAN :
          PutNb("direct", Base.direct + offset, data, req) /\ WaitsFor("callback", req)
    BY <1>1 DEF DirectPut
  <2>2. PutNbi("direct", Length + offset, data, ~req)
    BY <2>1, Regions DEF PutNb
  <2>3. direct' \in IF ~req THEN {"none"} ELSE {"callback", "flush"}
    BY <2>1 DEF WaitsFor
  <2> QED BY <1>1, <2>2, <2>3 DEF DirectPut, Direct, InBounds
<1>2. CASE DirectPutNbi(offset, n)
  <2>1. PICK data \in [1..n -> Values], done \in BOOLEAN :
          PutNbi("direct", Base.direct + offset, data, done) /\ WaitsFor("flush", ~done)
    BY <1>2 DEF DirectPutNbi
  <2>2. PutNbi("direct", Length + offset, data, done)
    BY <2>1, Regions
  <2>3. direct' \in IF done THEN {"none"} ELSE {"callback", "flush"}
    BY <2>1 DEF WaitsFor
  <2> QED BY <1>2, <2>2, <2>3 DEF DirectPutNbi, Direct, InBounds
<1> QED BY <1>1, <1>2

\* They are alike in what a get does, too.
LEMMA DirectGets ==
    ASSUME NEW offset \in 0..Width, NEW n \in 0..Width,
           DirectGet(offset, n) \/ DirectGetNbi(offset, n)
    PROVE  \E done \in BOOLEAN :
             /\ GetNbi("direct", Length + offset, n, done)
             /\ direct' \in IF done THEN {"none"} ELSE {"callback", "flush"}
             /\ direct = "none" /\ n + offset <= Width
             /\ UNCHANGED <<opened, mem, flush, pos, cbFinished, call, local, result>>
<1>1. CASE DirectGet(offset, n)
  <2>1. PICK req \in BOOLEAN :
          GetNb("direct", Base.direct + offset, n, req) /\ WaitsFor("callback", req)
    BY <1>1 DEF DirectGet
  <2>2. GetNbi("direct", Length + offset, n, ~req)
    BY <2>1, Regions DEF GetNb
  <2>3. direct' \in IF ~req THEN {"none"} ELSE {"callback", "flush"}
    BY <2>1 DEF WaitsFor
  <2> QED BY <1>1, <2>2, <2>3 DEF DirectGet, Direct, InBounds
<1>2. CASE DirectGetNbi(offset, n)
  <2>1. PICK done \in BOOLEAN :
          GetNbi("direct", Base.direct + offset, n, done) /\ WaitsFor("flush", ~done)
    BY <1>2 DEF DirectGetNbi
  <2>2. GetNbi("direct", Length + offset, n, done)
    BY <2>1, Regions
  <2>3. direct' \in IF done THEN {"none"} ELSE {"callback", "flush"}
    BY <2>1 DEF WaitsFor
  <2> QED BY <1>2, <2>2, <2>3 DEF DirectGetNbi, Direct, InBounds
<1> QED BY <1>1, <1>2

\* A put of the other user is outside the stream.
LEMMA DirectPutInv ==
    ASSUME StreamInv, NEW offset \in 0..Width, NEW n \in 0..Width,
           DirectPut(offset, n) \/ DirectPutNbi(offset, n)
    PROVE  StreamInv'
<1>1. PICK data \in [1..n -> Values], done \in BOOLEAN :
         /\ PutNbi("direct", Length + offset, data, done)
         /\ direct' \in IF done THEN {"none"} ELSE {"callback", "flush"}
         /\ direct = "none" /\ n + offset <= Width
         /\ UNCHANGED <<opened, flush, pos, cbFinished, call, local, result>>
  BY DirectPuts
<1>2. mem \in [Address -> Values] /\ ops \in [Owners -> Operations] /\ Inside
      /\ ops["direct"] = Idle
  BY <1>1 DEF StreamInv, Types, Awaited
<1>3. /\ n \in Nat /\ offset \in Nat /\ Length + offset \in Nat
      /\ "direct" \in Owners /\ "stream" \in Owners
  BY Regions
<1>4. CASE done
  <2>1. mem' = Put(Length + offset, data) /\ ops' = ops /\ direct' = "none"
    BY <1>1, <1>4 DEF PutNbi
  <2>2. /\ mem' \in [Address -> Values]
        /\ \A a \in Address : a < Length => mem'[a] = mem[a]
    <3>1. \A a \in Address : a < Length => a - (Length + offset) + 1 \notin 1..n
      BY <1>3, Regions DEF Address
    <3> QED BY <1>2, <1>3, <2>1, <3>1, PutBytes
  <2>3. Inside'
    BY <1>2, <2>1 DEF Inside
  <2> QED BY <1>1, <1>2, <2>1, <2>2, <2>3, BesideInv
<1>5. CASE ~done
  <2>1. mem' = mem /\ Post("direct", "put", Length + offset, data)
    BY <1>1, <1>5 DEF PutNbi
  <2>2. /\ "put" \in Kinds /\ "direct" # "stream"
        /\ Base["direct"] <= Length + offset /\ Length + offset + n <= Base["direct"] + Extent["direct"]
    BY <1>1, <1>3, Regions DEF Kinds
  <2>3. /\ ops' \in [Owners -> Operations] /\ Inside'
        /\ ops'["stream"] = ops["stream"]
    BY <1>2, <1>3, <2>1, <2>2, PostKeeps
  <2> QED BY <1>1, <1>2, <1>5, <2>1, <2>3, BesideInv
<1> QED BY <1>4, <1>5

\* A get of the other user leaves the stream alone.
LEMMA DirectGetInv ==
    ASSUME StreamInv, NEW offset \in 0..Width, NEW n \in 0..Width,
           DirectGet(offset, n) \/ DirectGetNbi(offset, n)
    PROVE  StreamInv'
<1>1. PICK done \in BOOLEAN :
         /\ GetNbi("direct", Length + offset, n, done)
         /\ direct' \in IF done THEN {"none"} ELSE {"callback", "flush"}
         /\ direct = "none" /\ n + offset <= Width
         /\ UNCHANGED <<opened, mem, flush, pos, cbFinished, call, local, result>>
  BY DirectGets
<1>2. mem \in [Address -> Values] /\ ops \in [Owners -> Operations] /\ Inside
      /\ ops["direct"] = Idle
  BY <1>1 DEF StreamInv, Types, Awaited
<1>3. /\ n \in Nat /\ offset \in Nat /\ Length + offset \in Nat
      /\ "direct" \in Owners /\ "stream" \in Owners
      /\ Length + offset + n <= Length + Width
  BY <1>1, Regions
<1>4. CASE done
  <2>1. ops' = ops /\ direct' = "none"
    BY <1>1, <1>4 DEF GetNbi
  <2>2. Inside'
    BY <1>2, <2>1 DEF Inside
  <2> QED BY <1>1, <1>2, <2>1, <2>2, BesideInv
<1>5. CASE ~done
  <2>1. Post("direct", "get", Length + offset, Got(Length + offset, n))
    BY <1>1, <1>5 DEF GetNbi
  <2>2. Got(Length + offset, n) \in [1..n -> Values]
    BY <1>2, <1>3, GotBytes
  <2>3. /\ "get" \in Kinds /\ "direct" # "stream"
        /\ Base["direct"] <= Length + offset /\ Length + offset + n <= Base["direct"] + Extent["direct"]
    BY <1>1, <1>3, Regions DEF Kinds
  <2>4. /\ ops' \in [Owners -> Operations] /\ Inside'
        /\ ops'["stream"] = ops["stream"]
    BY <1>2, <1>3, <2>1, <2>2, <2>3, PostKeeps
  <2> QED BY <1>1, <1>2, <1>5, <2>1, <2>4, BesideInv
<1> QED BY <1>4, <1>5

\* What write() does before it has to wait.
LEMMA Writes ==
    ASSUME Types, NEW n \in Sizes, Write(Buffer(n))
    PROVE  \E size \in Nat : \E data \in [1..size -> Values], done \in BOOLEAN :
             /\ opened /\ call = NoCall /\ pos + size <= Length
             /\ pos' = pos + size
             /\ PutNbi("stream", pos, data, done)
             /\ call' = IF done THEN NoCall ELSE [kind |-> "write", size |-> size]
             /\ UNCHANGED <<opened, flush, direct, cbFinished, local, result>>
<1>1. n \in Nat /\ NBytes(Array(Buffer(n))) = n
  BY StreamAssumption, BufferBytes
<1> DEFINE size == Cut(NBytes(Array(Buffer(n))))
<1>2. size \in Nat /\ pos + size <= Length
  BY <1>1, CutFits DEF Write, Types
<1>3. Ready /\ pos' = pos + size /\ UNCHANGED <<opened, looked, flush, direct, cbFinished, local, result>>
  BY DEF Write
<1>4. PICK data \in [1..size -> Values] :
         \/ PutNbi("stream", Base.stream + pos, data, TRUE) /\ UNCHANGED call
         \/ /\ PutNbi("stream", Base.stream + pos, data, FALSE)
            /\ call' = [kind |-> "write", size |-> size]
  BY DEF Write
<1> HIDE DEF size
<1>5. Base.stream + pos = pos
  BY Regions DEF Types
<1>6. CASE PutNbi("stream", Base.stream + pos, data, TRUE) /\ UNCHANGED call
  BY <1>2, <1>3, <1>5, <1>6 DEF Ready
<1>7. CASE PutNbi("stream", Base.stream + pos, data, FALSE) /\ call' = [kind |-> "write", size |-> size]
  BY <1>2, <1>3, <1>5, <1>7 DEF Ready
<1> QED BY <1>4, <1>6, <1>7

\* What readinto() does before it has to wait.
LEMMA Reads ==
    ASSUME Types, NEW n \in Sizes, ReadInto(Buffer(n))
    PROVE  \E size \in Nat, done \in BOOLEAN :
             /\ opened /\ call = NoCall /\ pos + size <= Length
             /\ pos' = pos + size
             /\ GetNbi("stream", pos, size, done)
             /\ IF done
                THEN result' = Got(pos, size) /\ UNCHANGED <<call, local>>
                ELSE /\ local' = [i \in 1..size |-> CHOOSE v \in Values : TRUE]
                     /\ call' = [kind |-> "read", size |-> size] /\ UNCHANGED result
             /\ UNCHANGED <<opened, mem, flush, direct, cbFinished>>
<1>1. n \in Nat /\ NBytes(Array(Buffer(n))) = n
  BY StreamAssumption, BufferBytes
<1> DEFINE size == Cut(NBytes(Array(Buffer(n))))
<1>2. size \in Nat /\ pos + size <= Length
  BY <1>1, CutFits DEF ReadInto, Types
<1>3. /\ Ready /\ pos' = pos + size /\ UNCHANGED <<opened, mem, flush, direct, cbFinished>>
      /\ \/ /\ GetNbi("stream", Base.stream + pos, size, TRUE)
            /\ result' = Got(Base.stream + pos, size)
            /\ UNCHANGED <<call, local>>
         \/ /\ GetNbi("stream", Base.stream + pos, size, FALSE)
            /\ local' = [i \in 1..size |-> CHOOSE v \in Values : TRUE]
            /\ call' = [kind |-> "read", size |-> size]
            /\ UNCHANGED result
  BY DEF ReadInto
<1> HIDE DEF size
<1>4. Base.stream + pos = pos
  BY Regions DEF Types
<1>5. CASE GetNbi("stream", pos, size, TRUE) /\ result' = Got(pos, size) /\ UNCHANGED <<call, local>>
  BY <1>2, <1>3, <1>5 DEF Ready
<1>6. CASE /\ GetNbi("stream", pos, size, FALSE)
           /\ local' = [i \in 1..size |-> CHOOSE v \in Values : TRUE]
           /\ call' = [kind |-> "read", size |-> size]
           /\ UNCHANGED result
  BY <1>2, <1>3, <1>6 DEF Ready
<1> QED BY <1>3, <1>4, <1>5, <1>6

\* Nobody has called: the flag is down, and nothing of the stream is under way.
LEMMA Quiet ==
    ASSUME StreamInv, call = NoCall
    PROVE  /\ mem \in [Address -> Values] /\ ops \in [Owners -> Operations] /\ pos \in Nat
           /\ Inside /\ ops["stream"] = Idle /\ ~cbFinished /\ flush = "none"
BY DEF StreamInv, Types, Awaited, FlagRight

\* A write that is not done at once leaves an operation for its call.
LEMMA WriteInv ==
    ASSUME StreamInv, NEW n \in Sizes, Write(Buffer(n))
    PROVE  StreamInv'
<1>1. PICK size \in Nat : \E data \in [1..size -> Values], done \in BOOLEAN :
         /\ opened /\ call = NoCall /\ pos + size <= Length
         /\ pos' = pos + size
         /\ PutNbi("stream", pos, data, done)
         /\ call' = IF done THEN NoCall ELSE [kind |-> "write", size |-> size]
         /\ UNCHANGED <<opened, flush, direct, cbFinished, local, result>>
  BY Writes DEF StreamInv
<1>2. PICK data \in [1..size -> Values], done \in BOOLEAN :
         /\ opened /\ call = NoCall /\ pos + size <= Length
         /\ pos' = pos + size
         /\ PutNbi("stream", pos, data, done)
         /\ call' = IF done THEN NoCall ELSE [kind |-> "write", size |-> size]
         /\ UNCHANGED <<opened, flush, direct, cbFinished, local, result>>
  BY <1>1
<1>3. /\ mem \in [Address -> Values] /\ ops \in [Owners -> Operations] /\ pos \in Nat
      /\ Inside /\ ops["stream"] = Idle /\ ~cbFinished /\ flush = "none"
  BY <1>2, Quiet
<1>4. CASE done
  <2>1. mem' = Put(pos, data) /\ ops' = ops /\ call' = NoCall
    BY <1>2, <1>4 DEF PutNbi
  <2>2. mem' \in [Address -> Values]
    BY <1>1, <1>2, <1>3, <2>1, PutBytes
  <2>3. Types'
    BY <1>2, <1>3, <2>1, <2>2 DEF StreamInv, Types
  <2>4. Inside' /\ Awaited'
    BY <1>2, <1>3, <2>1 DEF StreamInv, Inside, Awaited
  <2> QED BY <1>2, <1>3, <2>1, <2>3, <2>4 DEF StreamInv, Current, FlagRight, Arrived
<1>5. CASE ~done
  <2>1. mem' = mem /\ Post("stream", "put", pos, data) /\ call' = [kind |-> "write", size |-> size]
    BY <1>2, <1>5 DEF PutNbi
  <2>2. /\ "stream" \in Owners /\ "put" \in Kinds
        /\ Base["stream"] <= pos /\ pos + size <= Base["stream"] + Extent["stream"]
    BY <1>2, <1>3, Regions DEF Kinds
  <2>3. /\ ops' \in [Owners -> Operations] /\ Inside'
        /\ ops'["stream"] = [kind |-> "put", at |-> pos, data |-> data, left |-> 1..size]
        /\ Len(data) = size
        /\ \A x \in Owners : x # "stream" => ops'[x] = ops[x]
    BY <1>3, <2>1, <2>2, PostKeeps
  <2>4. call' \in Calls /\ call' # NoCall /\ call'.kind = "write" /\ call'.size = size
    BY <2>1, StreamAssumption DEF Calls
  <2>5. Types'
    BY <1>2, <1>3, <2>1, <2>3, <2>4 DEF StreamInv, Types
  <2>6. Awaited'
    BY <1>2, <2>3, <2>4, Regions DEF StreamInv, Awaited
  <2>7. Current'
    BY <1>2, <1>3, <2>3, <2>4 DEF Current
  <2> QED BY <1>2, <1>3, <2>3, <2>4, <2>5, <2>6, <2>7 DEF StreamInv, FlagRight, Arrived
<1> QED BY <1>4, <1>5

\* So does a read, of which nothing has arrived.
LEMMA ReadInv ==
    ASSUME StreamInv, NEW n \in Sizes, ReadInto(Buffer(n))
    PROVE  StreamInv'
<1>1. PICK size \in Nat, done \in BOOLEAN :
         /\ opened /\ call = NoCall /\ pos + size <= Length
         /\ pos' = pos + size
         /\ GetNbi("stream", pos, size, done)
         /\ IF done
            THEN result' = Got(pos, size) /\ UNCHANGED <<call, local>>
            ELSE /\ local' = [i \in 1..size |-> CHOOSE v \in Values : TRUE]
                 /\ call' = [kind |-> "read", size |-> size] /\ UNCHANGED result
         /\ UNCHANGED <<opened, mem, flush, direct, cbFinished>>
  BY Reads DEF StreamInv
<1>2. /\ mem \in [Address -> Values] /\ ops \in [Owners -> Operations] /\ pos \in Nat
      /\ Inside /\ ops["stream"] = Idle /\ ~cbFinished /\ flush = "none"
  BY <1>1, Quiet
<1>3. CASE done
  <2>1. ops' = ops /\ call' = NoCall
    BY <1>1, <1>3 DEF GetNbi
  <2>2. Types'
    BY <1>1, <1>2, <2>1 DEF StreamInv, Types
  <2>3. Inside' /\ Awaited'
    BY <1>1, <1>2, <2>1 DEF StreamInv, Inside, Awaited
  <2> QED BY <1>1, <1>2, <2>1, <2>2, <2>3 DEF StreamInv, Current, FlagRight, Arrived
<1>4. CASE ~done
  <2>1. Post("stream", "get", pos, Got(pos, size)) /\ call' = [kind |-> "read", size |-> size]
        /\ local' = [i \in 1..size |-> CHOOSE v \in Values : TRUE]
    BY <1>1, <1>4 DEF GetNbi
  <2>2. /\ "stream" \in Owners /\ "get" \in Kinds
        /\ Base["stream"] <= pos /\ pos + size <= Base["stream"] + Extent["stream"]
    BY <1>1, <1>2, Regions DEF Kinds
  <2>3. PICK data \in [1..size -> Values] : data = Got(pos, size)
    BY <1>1, <1>2, GotBytes, Regions
  <2>4. /\ ops' \in [Owners -> Operations] /\ Inside'
        /\ ops'["stream"] = [kind |-> "get", at |-> pos, data |-> data, left |-> 1..size]
        /\ Len(data) = size
        /\ \A x \in Owners : x # "stream" => ops'[x] = ops[x]
    BY <1>1, <1>2, <2>1, <2>2, <2>3, PostKeeps
  <2>5. call' \in Calls /\ call' # NoCall /\ call'.kind = "read" /\ call'.size = size
    BY <2>1, StreamAssumption DEF Calls
  <2>6. Types'
    BY <1>1, <1>2, <2>4, <2>5 DEF StreamInv, Types
  <2>7. Awaited'
    BY <1>1, <2>4, <2>5, Regions DEF StreamInv, Awaited
  <2>8. Current'
    BY <1>1, <1>2, <2>4, <2>5 DEF Current
  <2>9. Arrived'
    BY <2>1, <2>4, <2>5 DEF Arrived
  <2> QED BY <1>1, <1>2, <2>4, <2>5, <2>6, <2>7, <2>8, <2>9 DEF StreamInv, FlagRight
<1> QED BY <1>3, <1>4

\* A byte of the stream moves, of the operation that its call waits for.
LEMMA StreamMoves ==
    ASSUME StreamInv, Transfer("stream")
    PROVE  \E i \in 1..call.size :
             LET op == ops["stream"] IN
             /\ i \in op.left /\ op.at = pos - call.size /\ op.data \in Seq(Values)
             /\ Len(op.data) = call.size
             /\ call # NoCall /\ call \in Calls /\ call.size <= pos /\ pos <= Length /\ pos \in Nat
             /\ op.kind = IF call.kind = "read" THEN "get" ELSE "put"
             /\ mem' = IF op.kind = "put" THEN [mem EXCEPT ![op.at + i - 1] = op.data[i]] ELSE mem
             /\ local' = IF op.kind = "get" THEN [local EXCEPT ![i] = mem[op.at + i - 1]] ELSE local
             /\ ops' \in [Owners -> Operations] /\ Inside'
             /\ ops'["stream"].left = op.left \ {i}
             /\ ops'["stream"] # Idle =>
                  /\ ops'["stream"].kind = op.kind /\ ops'["stream"].at = op.at
                  /\ ops'["stream"].data = op.data
             /\ ops'["stream"] = Idle => op.left = {i}
             /\ ops'["direct"] = ops["direct"]
             /\ UNCHANGED <<opened, looked, flush, direct, pos, cbFinished, call, result>>
<1> DEFINE op == ops["stream"]
<1>1. PICK i \in op.left :
         /\ mem' = IF op.kind = "put" THEN [mem EXCEPT ![op.at + i - 1] = op.data[i]] ELSE mem
         /\ local' = IF op.kind = "get" THEN [local EXCEPT ![i] = mem[op.at + i - 1]] ELSE local
         /\ ops' = [ops EXCEPT !["stream"] = IF op.left = {i} THEN Idle
                                             ELSE [op EXCEPT !.left = op.left \ {i}]]
         /\ UNCHANGED <<opened, looked, flush, direct, pos, cbFinished, call, result>>
  BY DEF Transfer
<1>2. /\ "stream" \in Owners /\ "direct" \in Owners /\ "direct" # "stream"
      /\ ops \in [Owners -> Operations] /\ Inside
  BY Regions DEF StreamInv, Types
<1>3. /\ ops' \in [Owners -> Operations] /\ Inside'
      /\ op # Idle /\ op.kind \in Kinds
      /\ op.data \in Seq(Values) /\ i \in 1..Len(op.data) /\ op.at \in Int
      /\ ops'["stream"].left = op.left \ {i}
      /\ ops'["stream"] # Idle =>
           /\ ops'["stream"].kind = op.kind /\ ops'["stream"].at = op.at
           /\ ops'["stream"].data = op.data
      /\ ops'["stream"] = Idle => op.left = {i}
      /\ \A x \in Owners : x # "stream" => ops'[x] = ops[x]
  BY <1>1, <1>2, TransferKeeps
<1>4. call # NoCall
  BY <1>3 DEF StreamInv, Awaited
<1>5. /\ call \in Calls /\ pos \in Nat /\ call.size <= pos /\ pos <= Length
      /\ op.kind = (IF call.kind = "read" THEN "get" ELSE "put")
      /\ op.at = pos - call.size /\ Len(op.data) = call.size
  BY <1>3, <1>4 DEF StreamInv, Types, Current
<1> QED BY <1>1, <1>2, <1>3, <1>4, <1>5

\* What moves has arrived.
LEMMA TransferInv ==
    ASSUME StreamInv, NEW o \in Owners, Transfer(o)
    PROVE  StreamInv'
<1>1. CASE o = "stream"
  <2> DEFINE op == ops["stream"]
  <2>1. PICK i \in 1..call.size :
          /\ i \in op.left /\ op.at = pos - call.size /\ op.data \in Seq(Values)
          /\ Len(op.data) = call.size
          /\ call # NoCall /\ call \in Calls /\ call.size <= pos /\ pos <= Length /\ pos \in Nat
          /\ op.kind = IF call.kind = "read" THEN "get" ELSE "put"
          /\ mem' = IF op.kind = "put" THEN [mem EXCEPT ![op.at + i - 1] = op.data[i]] ELSE mem
          /\ local' = IF op.kind = "get" THEN [local EXCEPT ![i] = mem[op.at + i - 1]] ELSE local
          /\ ops' \in [Owners -> Operations] /\ Inside'
          /\ ops'["stream"].left = op.left \ {i}
          /\ ops'["stream"] # Idle =>
               /\ ops'["stream"].kind = op.kind /\ ops'["stream"].at = op.at
               /\ ops'["stream"].data = op.data
          /\ ops'["stream"] = Idle => op.left = {i}
          /\ ops'["direct"] = ops["direct"]
          /\ UNCHANGED <<opened, looked, flush, direct, pos, cbFinished, call, result>>
    BY <1>1, StreamMoves
  <2>2. call.size \in Nat /\ op # Idle /\ op.data[i] \in Values
    BY <2>1 DEF Calls, Idle
  <2>3. mem \in [Address -> Values] /\ mem' \in [Address -> Values]
    BY <2>1, <2>2 DEF StreamInv, Types
  <2>4. Types'
    BY <2>1, <2>3 DEF StreamInv, Types
  <2>5. Awaited' /\ Current' /\ FlagRight'
    <3>1. Awaited'
      BY <2>1 DEF StreamInv, Awaited
    <3>2. Current'
      BY <2>1 DEF Current
    <3>3. FlagRight'
      BY <2>1, <2>2 DEF StreamInv, FlagRight
    <3> QED BY <3>1, <3>2, <3>3
  <2>6. Arrived'
    <3>1. SUFFICES ASSUME call.kind = "read"
                   PROVE  /\ local' = [k \in 1..call.size |-> local'[k]]
                          /\ \A k \in 1..call.size : k \notin ops'["stream"].left =>
                               local'[k] = mem'[pos - call.size + k - 1]
      BY <2>1 DEF Arrived
    <3>2. /\ op.kind = "get" /\ mem' = mem
          /\ local' = [local EXCEPT ![i] = mem[pos - call.size + i - 1]]
      BY <2>1, <3>1
    <3>3. /\ local = [k \in 1..call.size |-> local[k]]
          /\ \A k \in 1..call.size :
                k \notin op.left => local[k] = mem[pos - call.size + k - 1]
      BY <2>1, <3>1 DEF StreamInv, Arrived
    <3>4. local' = [k \in 1..call.size |-> local'[k]]
      BY <3>2, <3>3
    <3>5. ASSUME NEW k \in 1..call.size, k \notin ops'["stream"].left
          PROVE  local'[k] = mem[pos - call.size + k - 1]
      <4>1. k \in DOMAIN local
        BY <3>3
      <4>2. CASE k = i
        BY <3>2, <4>1, <4>2
      <4>3. CASE k # i
        BY <2>1, <3>2, <3>3, <3>5, <4>1, <4>3
      <4> QED BY <4>2, <4>3
    <3> QED BY <3>2, <3>4, <3>5
  <2> QED BY <2>1, <2>4, <2>5, <2>6 DEF StreamInv
<1>2. CASE o = "direct"
  <2> DEFINE op == ops["direct"]
  <2>1. PICK i \in op.left :
          /\ mem' = IF op.kind = "put" THEN [mem EXCEPT ![op.at + i - 1] = op.data[i]] ELSE mem
          /\ ops' = [ops EXCEPT !["direct"] = IF op.left = {i} THEN Idle
                                              ELSE [op EXCEPT !.left = op.left \ {i}]]
          /\ UNCHANGED <<opened, flush, direct, pos, cbFinished, call, local>>
    BY <1>2 DEF Transfer
  <2>2. /\ "stream" \in Owners /\ "direct" \in Owners /\ "direct" # "stream"
        /\ ops \in [Owners -> Operations] /\ Inside /\ mem \in [Address -> Values]
    BY Regions DEF StreamInv, Types
  <2>3. /\ ops' \in [Owners -> Operations] /\ Inside'
        /\ op # Idle /\ op.kind \in Kinds
        /\ op.data \in Seq(Values) /\ i \in 1..Len(op.data) /\ op.at \in Int
        /\ \A x \in Owners : x # "direct" => ops'[x] = ops[x]
    BY <2>1, <2>2, TransferKeeps
  <2>4. Length <= op.at + i - 1 /\ op.data[i] \in Values
    BY <2>2, <2>3, Regions DEF Inside
  <2>5. mem' \in [Address -> Values] /\ \A a \in Address : a < Length => mem'[a] = mem[a]
    <3>1. CASE op.kind = "put"
      <4>1. mem' = [mem EXCEPT ![op.at + i - 1] = op.data[i]]
        BY <2>1, <3>1
      <4>2. \A a \in Address : a < Length => a # op.at + i - 1
        BY <2>3, <2>4, Regions DEF Address
      <4> QED BY <2>2, <2>4, <4>1, <4>2
    <3>2. CASE op.kind # "put"
      BY <2>1, <2>2, <3>2
    <3> QED BY <3>1, <3>2
  <2>6. direct' \in {"none", "callback", "flush"} /\ direct' # "none"
    BY <2>1, <2>3 DEF StreamInv, Types, Awaited
  <2> QED BY <2>1, <2>2, <2>3, <2>5, <2>6, BesideInv
<1> QED BY <1>1, <1>2, Regions

\* The other user hears that it is done.
LEMMA DirectDoneInv ==
    ASSUME StreamInv, DirectDone
    PROVE  StreamInv'
<1>1. ops["direct"] = Idle /\ UNCHANGED <<opened, mem, ops, flush, pos, cbFinished, call, local>>
      /\ direct' = "none"
  BY Regions DEF DirectDone, Complete
<1>2. Inside' /\ mem' \in [Address -> Values] /\ ops' \in [Owners -> Operations]
  BY <1>1 DEF StreamInv, Types, Inside
<1> QED BY <1>1, <1>2, BesideInv

\* A call returns when nothing of the stream is under way.
LEMMA ReturnInv ==
    ASSUME StreamInv, ops["stream"] = Idle, ReturnTo(FlagAfter),
           UNCHANGED <<opened, mem, ops, direct, pos>>
    PROVE  StreamInv'
<1>1. cbFinished' = FALSE /\ call' = NoCall /\ flush' = "none"
  BY DEF ReturnTo, FlagAfter
<1>2. Types' /\ Inside' /\ Awaited'
  BY <1>1 DEF StreamInv, Types, Inside, Awaited
<1> QED BY <1>1, <1>2 DEF StreamInv, Current, FlagRight, Arrived

\* A flush is begun, or done at once, or done later, or seen to be done.
LEMMA FlushInv ==
    ASSUME StreamInv, Flush \/ FlushDone \/ Unblock
    PROVE  StreamInv'
<1>1. CASE Flush
  <2>1. CASE Complete /\ ReturnTo(FlagAfter)
    BY <1>1, <2>1, ReturnInv, Regions DEF Flush, Complete
  <2>2. CASE flush' = "pending" /\ UNCHANGED <<cbFinished, call, local, result>>
    BY <1>1, <2>2 DEF Flush, StreamInv, Types, Inside, Awaited, Current, FlagRight, Arrived
  <2> QED BY <1>1, <2>1, <2>2 DEF Flush
<1>2. CASE FlushDone
  <2>1. UNCHANGED <<opened, mem, ops, direct, pos, call, local>> /\ flush = "pending"
        /\ \/ Complete /\ cbFinished' = TRUE /\ UNCHANGED flush
           \/ flush' = "failed" /\ UNCHANGED cbFinished /\ ~cbFinished
    BY <1>2 DEF FlushDone
  <2>2. Complete => ops["stream"] = Idle
    BY Regions DEF Complete
  <2>3. Types' /\ FlagRight'
    <3>1. CASE Complete /\ cbFinished' = TRUE /\ UNCHANGED flush
      BY <2>1, <2>2, <3>1 DEF StreamInv, Types, FlagRight
    <3>2. CASE flush' = "failed" /\ UNCHANGED cbFinished /\ ~cbFinished
      BY <2>1, <3>2 DEF StreamInv, Types, FlagRight
    <3> QED BY <2>1, <3>1, <3>2
  <2> QED BY <2>1, <2>3 DEF StreamInv, Inside, Awaited, Current, Arrived
<1>3. CASE Unblock
  BY <1>3, ReturnInv DEF Unblock, StreamInv, FlagRight
<1> QED BY <1>1, <1>2, <1>3

\* Where the stream stands matters only to a call.
LEMMA ReadyInv ==
    ASSUME StreamInv, call = NoCall, pos' \in Nat,
           UNCHANGED <<mem, ops, flush, direct, call, local>>,
           cbFinished' = cbFinished \/ cbFinished' = FALSE, opened' = opened \/ opened'
    PROVE  StreamInv'
<1>1. cbFinished' = FALSE /\ flush = "none"
  BY Quiet
<1> QED BY <1>1 DEF StreamInv, Types, Inside, Awaited, Current, FlagRight, Arrived

\* The invariant holds at first, and every step keeps it.
LEMMA StreamInit == Init => StreamInv
<1>1. SUFFICES ASSUME Init PROVE StreamInv
  OBVIOUS
<1>2. Idle \in Operations /\ \A o \in Owners : ops[o] = Idle
  BY <1>1 DEF Operations, Init
<1>3. Types
  BY <1>1, <1>2 DEF Init, Types
<1> QED BY <1>1, <1>2, <1>3, Regions DEF Init, StreamInv, Inside, Awaited, Current, FlagRight, Arrived

LEMMA StreamNext == StreamInv /\ [Next]_vars => StreamInv'
<1>1. SUFFICES ASSUME StreamInv, [Next]_vars PROVE StreamInv'
  OBVIOUS
<1>2. CASE UNCHANGED vars
  BY <1>1, <1>2 DEF vars, StreamInv, Types, Inside, Awaited, Current, FlagRight, Arrived
<1>3. ASSUME NEW x \in Exporters, Look(x) PROVE StreamInv'
  BY <1>1, <1>3 DEF Look, StreamInv, Types, Inside, Awaited, Current, FlagRight, Arrived
<1>4. CASE Open
  <2>1. call = NoCall
    BY <1>1, <1>4 DEF Open, StreamInv, Awaited
  <2> QED BY <1>1, <1>4, <2>1, ReadyInv DEF Open
<1>5. ASSUME NEW p \in -MaxSeek..MaxSeek, NEW whence \in 0..2, Seek(p, whence) PROVE StreamInv'
  <2>1. call = NoCall /\ pos' \in Nat
    BY <1>5, StreamAssumption DEF Seek, Ready
  <2> QED BY <1>1, <1>5, <2>1, ReadyInv DEF Seek
<1>6. ASSUME NEW n \in Sizes, Write(Buffer(n)) PROVE StreamInv'
  BY <1>1, <1>6, WriteInv
<1>7. ASSUME NEW n \in Sizes, ReadInto(Buffer(n)) PROVE StreamInv'
  BY <1>1, <1>7, ReadInv
<1>8. CASE Flush \/ FlushDone \/ Unblock
  BY <1>1, <1>8, FlushInv
<1>9. ASSUME NEW offset \in 0..Width, NEW n \in 0..Width,
             \/ DirectPut(offset, n) \/ DirectPutNbi(offset, n)
             \/ DirectGet(offset, n) \/ DirectGetNbi(offset, n)
      PROVE  StreamInv'
  BY <1>1, <1>9, DirectPutInv, DirectGetInv
<1>10. CASE DirectDone
  BY <1>1, <1>10, DirectDoneInv
<1>11. ASSUME NEW o \in Owners, Transfer(o) PROVE StreamInv'
  BY <1>1, <1>11, TransferInv
<1> QED BY <1>1, <1>2, <1>3, <1>4, <1>5, <1>6, <1>7, <1>8, <1>9, <1>10, <1>11 DEF Next

\* The invariant holds in every reachable state.
THEOREM InvHolds == Spec => []StreamInv
BY StreamInit, StreamNext, PTL DEF Spec

-----------------------------------------------------------------------------
(* The file.                                                                *)

\* Its contents are those of the memory, with what is still to be put; its
\* position is where a read that has not returned began.
Contents == Pending([a \in 0..(Length - 1) |-> mem[a]], "stream")
Window == Pending([a \in 0..(Width - 1) |-> mem[Length + a]], "direct")
Place == IF call # NoCall /\ call.kind = "read" THEN pos - call.size ELSE pos

\* An operation has still to put a byte.
Still(op, a) == op.kind = "put" /\ a - op.at + 1 \in op.left

\* A byte of the memory, or what an operation has still to put there.
Byte(op, memory, a) == IF Still(op, a) THEN op.data[a - op.at + 1] ELSE memory[a]

\* Where an operation begins is a number.
LEMMA AtTyped ==
    /\ Types => \A o \in Owners : ops[o].at \in Int
    /\ Types' => \A o \in Owners : ops'[o].at \in Int
BY DEF Types, Operations, Idle

\* The file, byte by byte, before a step and after it; and the window.
LEMMA ContentsBytes ==
    /\ Types => Contents = [a \in 0..(Length - 1) |-> Byte(ops["stream"], mem, a)]
    /\ Types' => Contents' = [a \in 0..(Length - 1) |-> Byte(ops'["stream"], mem', a)]
<1>1. ASSUME Types
      PROVE  Contents = [a \in 0..(Length - 1) |-> Byte(ops["stream"], mem, a)]
  <2>1. CASE ops["stream"].kind = "put"
    <3>1. \A a \in 0..(Length - 1) :
            a + Base["stream"] - ops["stream"].at + 1 = a - ops["stream"].at + 1
      BY <1>1, AtTyped, Regions
    <3>2. Contents = [a \in 0..(Length - 1) |->
            IF a + Base["stream"] - ops["stream"].at + 1 \in ops["stream"].left
            THEN ops["stream"].data[a + Base["stream"] - ops["stream"].at + 1]
            ELSE mem[a]]
      BY <2>1 DEF Contents, Pending
    <3>3. \A a \in 0..(Length - 1) :
            (IF a + Base["stream"] - ops["stream"].at + 1 \in ops["stream"].left
             THEN ops["stream"].data[a + Base["stream"] - ops["stream"].at + 1]
             ELSE mem[a])
            = Byte(ops["stream"], mem, a)
      BY <1>1, <2>1, <3>1, AtTyped, Regions DEF Still, Byte
    <3> QED BY <3>2, <3>3
  <2>2. CASE ops["stream"].kind # "put"
    BY <2>2 DEF Contents, Pending, Still, Byte
  <2> QED BY <2>1, <2>2
<1>2. ASSUME Types'
      PROVE  Contents' = [a \in 0..(Length - 1) |-> Byte(ops'["stream"], mem', a)]
  <2>1. CASE ops'["stream"].kind = "put"
    <3>1. \A a \in 0..(Length - 1) :
            a + Base["stream"] - ops'["stream"].at + 1 = a - ops'["stream"].at + 1
      BY <1>2, AtTyped, Regions
    <3>2. Contents' = [a \in 0..(Length - 1) |->
            IF a + Base["stream"] - ops'["stream"].at + 1 \in ops'["stream"].left
            THEN ops'["stream"].data[a + Base["stream"] - ops'["stream"].at + 1]
            ELSE mem'[a]]
      BY <2>1 DEF Contents, Pending
    <3>3. \A a \in 0..(Length - 1) :
            (IF a + Base["stream"] - ops'["stream"].at + 1 \in ops'["stream"].left
             THEN ops'["stream"].data[a + Base["stream"] - ops'["stream"].at + 1]
             ELSE mem'[a])
            = Byte(ops'["stream"], mem', a)
      BY <1>2, <2>1, <3>1, AtTyped, Regions DEF Still, Byte
    <3> QED BY <3>2, <3>3
  <2>2. CASE ops'["stream"].kind # "put"
    BY <2>2 DEF Contents, Pending, Still, Byte
  <2> QED BY <2>1, <2>2
<1> QED BY <1>1, <1>2

LEMMA WindowBytes ==
    /\ Types => Window = [a \in 0..(Width - 1) |-> Byte(ops["direct"], mem, Length + a)]
    /\ Types' => Window' = [a \in 0..(Width - 1) |-> Byte(ops'["direct"], mem', Length + a)]
<1>1. ASSUME Types
      PROVE  Window = [a \in 0..(Width - 1) |-> Byte(ops["direct"], mem, Length + a)]
  <2>1. CASE ops["direct"].kind = "put"
    <3>1. \A a \in 0..(Width - 1) :
            a + Base["direct"] - ops["direct"].at + 1 = Length + a - ops["direct"].at + 1
      BY <1>1, AtTyped, Regions
    <3>2. Window = [a \in 0..(Width - 1) |->
            IF a + Base["direct"] - ops["direct"].at + 1 \in ops["direct"].left
            THEN ops["direct"].data[a + Base["direct"] - ops["direct"].at + 1]
            ELSE mem[Length + a]]
      BY <2>1 DEF Window, Pending
    <3>3. \A a \in 0..(Width - 1) :
            (IF a + Base["direct"] - ops["direct"].at + 1 \in ops["direct"].left
             THEN ops["direct"].data[a + Base["direct"] - ops["direct"].at + 1]
             ELSE mem[Length + a])
            = Byte(ops["direct"], mem, Length + a)
      BY <1>1, <2>1, <3>1, AtTyped, Regions DEF Still, Byte
    <3> QED BY <3>2, <3>3
  <2>2. CASE ops["direct"].kind # "put"
    BY <2>2 DEF Window, Pending, Still, Byte
  <2> QED BY <2>1, <2>2
<1>2. ASSUME Types'
      PROVE  Window' = [a \in 0..(Width - 1) |-> Byte(ops'["direct"], mem', Length + a)]
  <2>1. CASE ops'["direct"].kind = "put"
    <3>1. \A a \in 0..(Width - 1) :
            a + Base["direct"] - ops'["direct"].at + 1 = Length + a - ops'["direct"].at + 1
      BY <1>2, AtTyped, Regions
    <3>2. Window' = [a \in 0..(Width - 1) |->
            IF a + Base["direct"] - ops'["direct"].at + 1 \in ops'["direct"].left
            THEN ops'["direct"].data[a + Base["direct"] - ops'["direct"].at + 1]
            ELSE mem'[Length + a]]
      BY <2>1 DEF Window, Pending
    <3>3. \A a \in 0..(Width - 1) :
            (IF a + Base["direct"] - ops'["direct"].at + 1 \in ops'["direct"].left
             THEN ops'["direct"].data[a + Base["direct"] - ops'["direct"].at + 1]
             ELSE mem'[Length + a])
            = Byte(ops'["direct"], mem', Length + a)
      BY <1>2, <2>1, <3>1, AtTyped, Regions DEF Still, Byte
    <3> QED BY <3>2, <3>3
  <2>2. CASE ops'["direct"].kind # "put"
    BY <2>2 DEF Window, Pending, Still, Byte
  <2> QED BY <2>1, <2>2
<1> QED BY <1>1, <1>2

\* The steps of the file, in these terms.
LEMMA FileSteps ==
    ASSUME Types
    PROVE
    /\ Place' \in Nat /\ UNCHANGED <<Contents, Window, result>> => File!Next
    /\ \A n \in 0..(Length - Place) : \A data \in [1..n -> Values] :
         /\ Contents' = [a \in 0..(Length - 1) |->
               IF a - Place + 1 \in 1..n THEN data[a - Place + 1] ELSE Contents[a]]
         /\ Place' = Place + n /\ UNCHANGED <<Window, result>>
         => File!Next
    /\ \A n \in 0..(Length - Place) :
         /\ result' = [i \in 1..n |-> Contents[Place + i - 1]]
         /\ Place' = Place + n /\ UNCHANGED <<Contents, Window>>
         => File!Next
    /\ \A place, n \in 0..Width : \A data \in [1..n -> Values] :
         /\ place + n <= Width
         /\ Window' = [a \in 0..(Width - 1) |->
               IF a - place + 1 \in 1..n THEN data[a - place + 1] ELSE Window[a]]
         /\ UNCHANGED <<Contents, Place, result>>
         => File!Next
<1>1. Place' \in Nat /\ UNCHANGED <<Contents, Window, result>> => File!Next
  BY DEF File!Next, File!Seek, Contents, Window, Place
<1>2. ASSUME NEW n \in 0..(Length - Place), NEW data \in [1..n -> Values],
             Contents' = [a \in 0..(Length - 1) |->
                IF a - Place + 1 \in 1..n THEN data[a - Place + 1] ELSE Contents[a]],
             Place' = Place + n, UNCHANGED <<Window, result>>
      PROVE  File!Next
  <2>1. DOMAIN Contents = 0..(Length - 1) /\ DOMAIN data = 1..n
    BY ContentsBytes
  <2>2. Contents' = File!Overlay(Contents, Place, data)
    BY <1>2, <2>1 DEF File!Overlay
  <2>3. File!Write
    BY <1>2, <2>2 DEF File!Write, Contents, Window, Place
  <2> QED BY <2>3 DEF File!Next
<1>3. ASSUME NEW n \in 0..(Length - Place),
             result' = [i \in 1..n |-> Contents[Place + i - 1]],
             Place' = Place + n, UNCHANGED <<Contents, Window>>
      PROVE  File!Next
  BY <1>3 DEF File!Next, File!Read, Contents, Window, Place
<1>4. ASSUME NEW place \in 0..Width, NEW n \in 0..Width, NEW data \in [1..n -> Values],
             place + n <= Width,
             Window' = [a \in 0..(Width - 1) |->
                IF a - place + 1 \in 1..n THEN data[a - place + 1] ELSE Window[a]],
             UNCHANGED <<Contents, Place, result>>
      PROVE  File!Next
  <2>1. DOMAIN Window = 0..(Width - 1) /\ DOMAIN data = 1..n
    BY WindowBytes
  <2>2. Window' = File!Overlay(Window, place, data)
    BY <1>4, <2>1 DEF File!Overlay
  <2>3. File!WindowWrite
    BY <1>4, <2>2 DEF File!WindowWrite, Contents, Window, Place
  <2> QED BY <2>3 DEF File!Next
<1> QED BY <1>1, <1>2, <1>3, <1>4

-----------------------------------------------------------------------------
(* Step by step, the stream is a file.                                      *)

\* A step that changes none of this is no step of the file.
LEMMA FileStutters ==
    UNCHANGED <<Contents, Window, Place, result>> => UNCHANGED File!fileVars
BY DEF File!fileVars, Contents, Window, Place

\* Contents change with the operation and the memory they are made of.
LEMMA SameBytes ==
    ASSUME Types, Types'
    PROVE  /\ ops'["stream"] = ops["stream"] /\ (\A a \in Address : a < Length => mem'[a] = mem[a])
              => Contents' = Contents
           /\ ops'["direct"] = ops["direct"] /\ (\A a \in Address : Length <= a => mem'[a] = mem[a])
              => Window' = Window
<1>1. \A a \in 0..(Length - 1) : a \in Address /\ a < Length
  BY Regions DEF Address
<1>2. \A a \in 0..(Width - 1) : Length + a \in Address /\ Length <= Length + a
  BY Regions DEF Address
<1>3. ASSUME ops'["stream"] = ops["stream"], \A a \in Address : a < Length => mem'[a] = mem[a]
      PROVE  Contents' = Contents
  BY <1>1, <1>3, ContentsBytes DEF Byte
<1>4. ASSUME ops'["direct"] = ops["direct"], \A a \in Address : Length <= a => mem'[a] = mem[a]
      PROVE  Window' = Window
  BY <1>2, <1>4, WindowBytes DEF Byte
<1> QED BY <1>3, <1>4

\* Without an operation that puts, they are the memory's.
LEMMA PlainBytes ==
    /\ Types /\ ops["stream"].kind # "put" => Contents = [a \in 0..(Length - 1) |-> mem[a]]
    /\ Types' /\ ops'["stream"].kind # "put" => Contents' = [a \in 0..(Length - 1) |-> mem'[a]]
    /\ Types /\ ops["direct"].kind # "put" => Window = [a \in 0..(Width - 1) |-> mem[Length + a]]
    /\ Types' /\ ops'["direct"].kind # "put" => Window' = [a \in 0..(Width - 1) |-> mem'[Length + a]]
BY ContentsBytes, WindowBytes DEF Still, Byte

\* A direct put takes effect in the window when it is called.
LEMMA DirectPutMaps ==
    ASSUME StreamInv, StreamInv', NEW offset \in 0..Width, NEW n \in 0..Width,
           DirectPut(offset, n) \/ DirectPutNbi(offset, n)
    PROVE  File!Next
<1>1. PICK data \in [1..n -> Values], done \in BOOLEAN :
         /\ PutNbi("direct", Length + offset, data, done)
         /\ direct' \in IF done THEN {"none"} ELSE {"callback", "flush"}
         /\ direct = "none" /\ n + offset <= Width
         /\ UNCHANGED <<opened, flush, pos, cbFinished, call, local, result>>
  BY DirectPuts
<1>2. /\ Types /\ Types' /\ Inside /\ mem \in [Address -> Values] /\ ops \in [Owners -> Operations]
      /\ ops["direct"] = Idle /\ ops["direct"].kind # "put"
  BY <1>1 DEF StreamInv, Types, Awaited, Idle
<1>3. n \in Nat /\ offset \in Nat /\ Length + offset \in Nat /\ Length \in Nat /\ Width \in Nat
      /\ "direct" \in Owners /\ "stream" \in Owners /\ "direct" # "stream"
  BY Regions
<1>4. Window = [a \in 0..(Width - 1) |-> mem[Length + a]]
  BY <1>2, PlainBytes
<1>5. UNCHANGED Place
  BY <1>1 DEF Place
<1>6. \A a \in 0..(Width - 1) :
         Length + a \in Address /\ Length + a - (Length + offset) + 1 = a - offset + 1
  BY <1>3 DEF Address
<1>7. /\ Contents' = Contents
      /\ Window' = [a \in 0..(Width - 1) |->
            IF a - offset + 1 \in 1..n THEN data[a - offset + 1] ELSE Window[a]]
  <2>1. CASE done
    <3>1. mem' = Put(Length + offset, data) /\ ops' = ops
      BY <1>1, <2>1 DEF PutNbi
    <3>2. \A a \in Address :
            mem'[a] = IF a - (Length + offset) + 1 \in 1..n
                      THEN data[a - (Length + offset) + 1] ELSE mem[a]
      BY <1>1, <1>2, <1>3, <3>1, PutBytes
    <3>3. \A a \in Address : a < Length => mem'[a] = mem[a]
      <4>1. \A a \in Address : a < Length => a - (Length + offset) + 1 \notin 1..n
        BY <1>3 DEF Address
      <4> QED BY <3>2, <4>1
    <3>4. Contents' = Contents
      BY <1>2, <3>1, <3>3, SameBytes
    <3>5. Window' = [a \in 0..(Width - 1) |-> mem'[Length + a]]
      BY <1>2, <3>1, PlainBytes
    <3>6. \A a \in 0..(Width - 1) : mem'[Length + a] =
            IF a - offset + 1 \in 1..n THEN data[a - offset + 1] ELSE Window[a]
      <4>1. ASSUME NEW a \in 0..(Width - 1)
            PROVE  mem'[Length + a] =
                     IF a - offset + 1 \in 1..n THEN data[a - offset + 1] ELSE mem[Length + a]
        <5>1. PICK x \in Address : x = Length + a /\ x - (Length + offset) + 1 = a - offset + 1
          BY <1>3 DEF Address
        <5>2. mem'[x] = IF x - (Length + offset) + 1 \in 1..n
                        THEN data[x - (Length + offset) + 1] ELSE mem[x]
          BY <3>2
        <5>3. mem'[x] = IF a - offset + 1 \in 1..n THEN data[a - offset + 1] ELSE mem[x]
          BY <5>1, <5>2
        <5> QED BY <5>1, <5>3
      <4>2. \A a \in 0..(Width - 1) : Window[a] = mem[Length + a]
        BY <1>4
      <4> QED BY <4>1, <4>2
    <3> QED BY <3>4, <3>5, <3>6
  <2>2. CASE ~done
    <3>1. mem' = mem /\ Post("direct", "put", Length + offset, data)
      BY <1>1, <2>2 DEF PutNbi
    <3>2. /\ "put" \in Kinds
          /\ Base["direct"] <= Length + offset /\ Length + offset + n <= Base["direct"] + Extent["direct"]
      BY <1>1, <1>3, Regions DEF Kinds
    <3>3. /\ ops'["stream"] = ops["stream"]
          /\ ops'["direct"] = [kind |-> "put", at |-> Length + offset, data |-> data, left |-> 1..n]
      BY <1>1, <1>2, <1>3, <3>1, <3>2, PostKeeps
    <3>4. Contents' = Contents
      BY <1>2, <3>1, <3>3, SameBytes
    <3> DEFINE op == ops'["direct"]
    <3>5. op.kind = "put" /\ op.at = Length + offset /\ op.data = data /\ op.left = 1..n
      BY <3>3
    <3>6. Window' = [a \in 0..(Width - 1) |->
             Byte(op, mem', Length + a)]
      BY <1>2, WindowBytes
    <3>7. \A a \in 0..(Width - 1) :
            /\ Still(op, Length + a) <=> a - offset + 1 \in 1..n
            /\ op.data[Length + a - op.at + 1] = data[a - offset + 1]
            /\ mem'[Length + a] = Window[a]
      <4>1. ASSUME NEW a \in 0..(Width - 1)
            PROVE  /\ Still(op, Length + a) <=> a - offset + 1 \in 1..n
                   /\ op.data[Length + a - op.at + 1] = data[a - offset + 1]
        <5>1. PICK i : i = Length + a - op.at + 1 /\ i = a - offset + 1
          BY <1>6, <3>5
        <5> HIDE DEF op
        <5>2. Still(op, Length + a) <=> i \in 1..n
          BY <1>3, <3>5, <5>1 DEF Still
        <5>3. op.data[i] = data[i]
          BY <3>5
        <5> QED BY <5>1, <5>2, <5>3
      <4>2. \A a \in 0..(Width - 1) : mem'[Length + a] = Window[a]
        BY <1>4, <3>1
      <4> QED BY <4>1, <4>2
    <3>8. \A a \in 0..(Width - 1) : Byte(op, mem', Length + a) =
            IF a - offset + 1 \in 1..n THEN data[a - offset + 1] ELSE Window[a]
      <4> HIDE DEF op
      <4> QED BY <1>3, <3>5, <3>7 DEF Byte
    <3> HIDE DEF op
    <3> QED BY <3>4, <3>6, <3>8
  <2> QED BY <2>1, <2>2
<1>8. offset + n <= Width
  BY <1>1, <1>3
<1> QED BY <1>1, <1>2, <1>5, <1>7, <1>8, FileSteps

\* A direct get changes nothing.
LEMMA DirectGetMaps ==
    ASSUME StreamInv, StreamInv', NEW offset \in 0..Width, NEW n \in 0..Width,
           DirectGet(offset, n) \/ DirectGetNbi(offset, n)
    PROVE  UNCHANGED File!fileVars
<1>1. PICK done \in BOOLEAN :
         /\ GetNbi("direct", Length + offset, n, done)
         /\ direct' \in IF done THEN {"none"} ELSE {"callback", "flush"}
         /\ direct = "none" /\ n + offset <= Width
         /\ UNCHANGED <<opened, mem, flush, pos, cbFinished, call, local, result>>
  BY DirectGets
<1>2. /\ Types /\ Types' /\ Inside /\ mem \in [Address -> Values] /\ ops \in [Owners -> Operations]
      /\ ops["direct"] = Idle /\ ops["direct"].kind # "put"
  BY <1>1 DEF StreamInv, Types, Awaited, Idle
<1>3. n \in Nat /\ Length + offset \in Nat /\ Length + offset + n <= Length + Width
      /\ "direct" \in Owners /\ "stream" \in Owners /\ "direct" # "stream"
  BY <1>1, Regions
<1>4. ops'["stream"] = ops["stream"] /\ ops'["direct"].kind # "put"
  <2>1. CASE done
    BY <1>1, <1>2, <2>1 DEF GetNbi
  <2>2. CASE ~done
    <3>1. PICK data \in [1..n -> Values] : data = Got(Length + offset, n)
      BY <1>2, <1>3, GotBytes
    <3>2. Post("direct", "get", Length + offset, data)
      BY <1>1, <2>2, <3>1 DEF GetNbi
    <3>3. /\ "get" \in Kinds
          /\ Base["direct"] <= Length + offset /\ Length + offset + n <= Base["direct"] + Extent["direct"]
      BY <1>1, <1>3, Regions DEF Kinds
    <3>4. /\ ops'["stream"] = ops["stream"]
          /\ ops'["direct"] = [kind |-> "get", at |-> Length + offset, data |-> data, left |-> 1..n]
      BY <1>2, <1>3, <3>1, <3>2, <3>3, PostKeeps
    <3> QED BY <3>4
  <2> QED BY <2>1, <2>2
<1>5. Contents' = Contents
  BY <1>1, <1>2, <1>4, SameBytes
<1>6. Window' = Window
  BY <1>1, <1>2, <1>4, PlainBytes
<1>7. UNCHANGED <<Place, result>>
  BY <1>1 DEF Place
<1> QED BY <1>5, <1>6, <1>7, FileStutters

\* A write takes effect in the file when it is called.
LEMMA WriteMaps ==
    ASSUME StreamInv, StreamInv', NEW n \in Sizes, Write(Buffer(n))
    PROVE  File!Next
<1>1. PICK size \in Nat : \E data \in [1..size -> Values], done \in BOOLEAN :
         /\ opened /\ call = NoCall /\ pos + size <= Length
         /\ pos' = pos + size
         /\ PutNbi("stream", pos, data, done)
         /\ call' = IF done THEN NoCall ELSE [kind |-> "write", size |-> size]
         /\ UNCHANGED <<opened, flush, direct, cbFinished, local, result>>
  BY Writes DEF StreamInv
<1>2. PICK data \in [1..size -> Values], done \in BOOLEAN :
         /\ opened /\ call = NoCall /\ pos + size <= Length
         /\ pos' = pos + size
         /\ PutNbi("stream", pos, data, done)
         /\ call' = IF done THEN NoCall ELSE [kind |-> "write", size |-> size]
         /\ UNCHANGED <<opened, flush, direct, cbFinished, local, result>>
  BY <1>1
<1>3. /\ mem \in [Address -> Values] /\ ops \in [Owners -> Operations] /\ pos \in Nat
      /\ Inside /\ ops["stream"] = Idle /\ ops["stream"].kind # "put"
      /\ Types /\ Types' /\ Length \in Nat /\ Width \in Nat
      /\ "direct" \in Owners /\ "stream" \in Owners /\ "direct" # "stream"
  BY <1>2, Quiet, Regions DEF StreamInv, Idle
<1>4. Place = pos /\ Place' = pos + size
  BY <1>2 DEF Place
<1>5. Contents = [a \in 0..(Length - 1) |-> mem[a]]
  BY <1>3, PlainBytes
<1>6. \A a \in 0..(Length - 1) : a \in Address
  BY <1>3 DEF Address
<1>7. /\ Window' = Window
      /\ Contents' = [a \in 0..(Length - 1) |->
            IF a - pos + 1 \in 1..size THEN data[a - pos + 1] ELSE Contents[a]]
  <2>1. CASE done
    <3>1. mem' = Put(pos, data) /\ ops' = ops
      BY <1>2, <2>1 DEF PutNbi
    <3>2. \A a \in Address :
            mem'[a] = IF a - pos + 1 \in 1..size THEN data[a - pos + 1] ELSE mem[a]
      BY <1>1, <1>2, <1>3, <3>1, PutBytes
    <3>3. \A a \in Address : Length <= a => mem'[a] = mem[a]
      <4>1. \A a \in Address : Length <= a => a - pos + 1 \notin 1..size
        BY <1>1, <1>2, <1>3 DEF Address
      <4> QED BY <3>2, <4>1
    <3>4. Window' = Window
      BY <1>3, <3>1, <3>3, SameBytes
    <3>5. Contents' = [a \in 0..(Length - 1) |-> mem'[a]]
      BY <1>3, <3>1, PlainBytes
    <3> QED BY <1>5, <1>6, <3>2, <3>4, <3>5
  <2>2. CASE ~done
    <3>1. mem' = mem /\ Post("stream", "put", pos, data)
      BY <1>2, <2>2 DEF PutNbi
    <3>2. /\ "put" \in Kinds
          /\ Base["stream"] <= pos /\ pos + size <= Base["stream"] + Extent["stream"]
      BY <1>2, <1>3, Regions DEF Kinds
    <3>3. /\ ops'["direct"] = ops["direct"]
          /\ ops'["stream"] = [kind |-> "put", at |-> pos, data |-> data, left |-> 1..size]
      BY <1>1, <1>2, <1>3, <3>1, <3>2, PostKeeps
    <3>4. Window' = Window
      BY <1>3, <3>1, <3>3, SameBytes
    <3> DEFINE op == ops'["stream"]
    <3>5. op.kind = "put" /\ op.at = pos /\ op.data = data /\ op.left = 1..size
      BY <3>3
    <3>6. Contents' = [a \in 0..(Length - 1) |->
             IF Still(op, a) THEN op.data[a - op.at + 1]
            ELSE mem'[a]]
      BY <1>3, ContentsBytes DEF Byte
    <3> HIDE DEF op
    <3>7. \A a \in 0..(Length - 1) :
            /\ Still(op, a) <=> a - pos + 1 \in 1..size
            /\ op.data[a - op.at + 1] = data[a - pos + 1]
            /\ mem'[a] = Contents[a]
      BY <1>5, <3>1, <3>5 DEF Still
    <3> QED BY <3>4, <3>6, <3>7
  <2> QED BY <2>1, <2>2
<1>8. size \in 0..(Length - Place)
  BY <1>1, <1>2, <1>3, <1>4
<1>9. Contents' = [a \in 0..(Length - 1) |->
            IF a - Place + 1 \in 1..size THEN data[a - Place + 1] ELSE Contents[a]]
  BY <1>4, <1>7
<1>10. Place' = Place + size /\ UNCHANGED <<Window, result>>
  BY <1>2, <1>4, <1>7
<1> QED BY <1>2, <1>3, <1>8, <1>9, <1>10, FileSteps

\* A read that is done at once reads the file; another has yet to.
LEMMA ReadMaps ==
    ASSUME StreamInv, StreamInv', NEW n \in Sizes, ReadInto(Buffer(n))
    PROVE  [File!Next]_(File!fileVars)
<1>1. PICK size \in Nat, done \in BOOLEAN :
         /\ opened /\ call = NoCall /\ pos + size <= Length
         /\ pos' = pos + size
         /\ GetNbi("stream", pos, size, done)
         /\ IF done
            THEN result' = Got(pos, size) /\ UNCHANGED <<call, local>>
            ELSE /\ local' = [i \in 1..size |-> CHOOSE v \in Values : TRUE]
                 /\ call' = [kind |-> "read", size |-> size] /\ UNCHANGED result
         /\ UNCHANGED <<opened, mem, flush, direct, cbFinished>>
  BY Reads DEF StreamInv
<1>2. /\ mem \in [Address -> Values] /\ ops \in [Owners -> Operations] /\ pos \in Nat
      /\ Inside /\ ops["stream"] = Idle /\ ops["stream"].kind # "put"
      /\ Types /\ Types' /\ Length \in Nat /\ Width \in Nat
      /\ "direct" \in Owners /\ "stream" \in Owners /\ "direct" # "stream"
  BY <1>1, Quiet, Regions DEF StreamInv, Idle
<1>3. Place = pos
  BY <1>1 DEF Place
<1>4. Contents = [a \in 0..(Length - 1) |-> mem[a]]
  BY <1>2, PlainBytes
<1>5. PICK data \in [1..size -> Values] :
         data = Got(pos, size) /\ \A i \in 1..size : data[i] = mem[pos + i - 1]
  BY <1>1, <1>2, GotBytes
<1>6. CASE done
  <2>1. ops' = ops /\ mem' = mem /\ call' = NoCall /\ result' = data
    BY <1>1, <1>5, <1>6 DEF GetNbi
  <2>2. Contents' = Contents /\ Window' = Window
    BY <1>2, <2>1, SameBytes
  <2>3. Place' = Place + size /\ size \in 0..(Length - Place)
    BY <1>1, <1>2, <1>3, <2>1 DEF Place
  <2>4. data = [i \in 1..size |-> Contents[Place + i - 1]]
    <3>1. \A i \in 1..size : pos + i - 1 \in 0..(Length - 1)
      BY <1>1, <1>2
    <3>2. \A i \in 1..size : Contents[pos + i - 1] = mem[pos + i - 1]
      BY <1>4, <3>1
    <3> QED BY <1>3, <1>5, <3>2
  <2> QED BY <1>2, <2>1, <2>2, <2>3, <2>4, FileSteps
<1>7. CASE ~done
  <2>1. /\ Post("stream", "get", pos, data) /\ mem' = mem
        /\ call' = [kind |-> "read", size |-> size] /\ result' = result
    BY <1>1, <1>5, <1>7 DEF GetNbi
  <2>2. /\ "get" \in Kinds
        /\ Base["stream"] <= pos /\ pos + size <= Base["stream"] + Extent["stream"]
    BY <1>1, <1>2, Regions DEF Kinds
  <2>3. /\ ops'["direct"] = ops["direct"]
        /\ ops'["stream"] = [kind |-> "get", at |-> pos, data |-> data, left |-> 1..size]
    BY <1>1, <1>2, <1>5, <2>1, <2>2, PostKeeps
  <2>4. Window' = Window
    BY <1>2, <2>1, <2>3, SameBytes
  <2>5. Contents' = Contents
    BY <1>2, <1>4, <2>1, <2>3, PlainBytes
  <2>6. Place' = Place
    <3>1. call' \in Calls /\ call' # NoCall /\ call'.kind = "read" /\ call'.size = size
      BY <1>1, <2>1, StreamAssumption DEF Calls
    <3>2. pos + size - size = pos
      BY <1>1, <1>2
    <3>3. Place' = pos' - call'.size
      BY <3>1 DEF Place
    <3>4. pos' - call'.size = pos
      <4>1. pos' = pos + size /\ call'.size = size
        BY <1>1, <3>1
      <4> QED BY <1>1, <1>2, <4>1
    <3>5. Place' = pos
      BY <3>3, <3>4
    <3> QED BY <1>3, <3>5
  <2> QED BY <2>1, <2>4, <2>5, <2>6, FileStutters
<1> QED BY <1>6, <1>7

\* A read takes effect when it returns, and returns what the file holds then.
LEMMA ReturnMaps ==
    ASSUME StreamInv, StreamInv', ops["stream"] = Idle, call # NoCall, ReturnTo(FlagAfter),
           UNCHANGED <<mem, ops, pos>>
    PROVE  [File!Next]_(File!fileVars)
<1>1. call' = NoCall /\ result' = (IF call.kind = "read" THEN local ELSE result)
  BY DEF ReturnTo
<1>2. /\ Types /\ Types' /\ call \in Calls /\ call.size \in Nat /\ pos \in Nat /\ Length \in Nat
      /\ call.size <= pos /\ pos <= Length /\ ops["stream"].kind # "put" /\ ops["stream"].left = {}
  BY Regions DEF StreamInv, Types, Calls, Current, Idle
<1>3. Contents' = Contents /\ Window' = Window
  BY <1>2, SameBytes
<1>4. CASE call.kind = "read"
  <2>1. Place = pos - call.size /\ Place' = pos
    BY <1>1, <1>4 DEF Place
  <2>2. Place' = Place + call.size /\ call.size \in 0..(Length - Place)
    BY <1>2, <2>1
  <2>3. result' = [i \in 1..call.size |-> Contents[Place + i - 1]]
    <3>1. Contents = [a \in 0..(Length - 1) |-> mem[a]]
      BY <1>2, PlainBytes
    <3>2. \A i \in 1..call.size : pos - call.size + i - 1 \in 0..(Length - 1)
      BY <1>2
    <3>3. /\ local = [i \in 1..call.size |-> local[i]]
          /\ \A i \in 1..call.size : local[i] = mem[pos - call.size + i - 1]
      BY <1>2, <1>4 DEF StreamInv, Arrived
    <3>4. \A i \in 1..call.size : Contents[pos - call.size + i - 1] = mem[pos - call.size + i - 1]
      BY <3>1, <3>2
    <3>5. \A i \in 1..call.size : local[i] = Contents[Place + i - 1]
      BY <2>1, <3>3, <3>4
    <3> QED BY <1>1, <1>4, <3>3, <3>5
  <2> QED BY <1>2, <1>3, <2>2, <2>3, FileSteps
<1>5. CASE call.kind # "read"
  <2>1. result' = result /\ Place' = Place
    BY <1>1, <1>5 DEF Place
  <2> QED BY <1>3, <2>1, FileStutters
<1> QED BY <1>4, <1>5

\* A byte of a region with what is still to be put does not change when it
\* moves, and no byte of another region does.
LEMMA MovedBytes ==
    ASSUME Types, Inside, NEW o \in Owners, Transfer(o)
    PROVE  /\ \A x \in Owners : x # o => ops'[x] = ops[x]
           /\ \A a \in Address : a < Base[o] \/ Base[o] + Extent[o] <= a => mem'[a] = mem[a]
           /\ \A a \in Address : Byte(ops'[o], mem', a) = Byte(ops[o], mem, a)
<1> DEFINE op == ops[o]
<1>1. PICK i \in op.left :
         /\ mem' = IF op.kind = "put" THEN [mem EXCEPT ![op.at + i - 1] = op.data[i]] ELSE mem
         /\ ops' = [ops EXCEPT ![o] = IF op.left = {i} THEN Idle
                                      ELSE [op EXCEPT !.left = op.left \ {i}]]
  BY DEF Transfer
<1>2. ops \in [Owners -> Operations] /\ mem \in [Address -> Values]
  BY DEF Types
<1> DEFINE op2 == ops'[o]
<1>3. /\ op # Idle /\ op.kind \in Kinds
      /\ op.data \in Seq(Values) /\ i \in 1..Len(op.data) /\ op.at \in Int
      /\ op2.left = op.left \ {i}
      /\ op2 # Idle => op2.kind = op.kind /\ op2.at = op.at /\ op2.data = op.data
      /\ op2 = Idle => op.left = {i}
      /\ \A x \in Owners : x # o => ops'[x] = ops[x]
  BY <1>1, <1>2, TransferKeeps
<1>4. /\ Base[o] <= op.at /\ op.at + Len(op.data) <= Base[o] + Extent[o] /\ Len(op.data) \in Nat
      /\ Base[o] \in Nat /\ Extent[o] \in Nat /\ i \in Int
  BY <1>3, Regions DEF Inside
<1> HIDE DEF op, op2
<1>5. op2.kind = "put" => op2 # Idle
  BY DEF Idle
<1>6. CASE op.kind = "put"
  <2>1. mem' = [mem EXCEPT ![op.at + i - 1] = op.data[i]]
    BY <1>1, <1>6
  <2>2. \A a \in Address : /\ a \in Int
                           /\ mem'[a] = IF a = op.at + i - 1 THEN op.data[i] ELSE mem[a]
    BY <1>2, <2>1, Regions DEF Address
  <2>3. ASSUME NEW a \in Address, a < Base[o] \/ Base[o] + Extent[o] <= a
        PROVE  mem'[a] = mem[a]
    <3>1. a # op.at + i - 1
      BY <1>3, <1>4, <2>2, <2>3
    <3> QED BY <2>2, <3>1
  <2>4. ASSUME NEW a \in Address
        PROVE  Byte(op2, mem', a) = Byte(op, mem, a)
    <3>1. a \in Int /\ (a = op.at + i - 1 <=> a - op.at + 1 = i)
      <4>1. a \in Int /\ op.at \in Int /\ i \in Int
        BY <1>3, <1>4, <2>2
      <4> QED BY <4>1
    <3>2. Still(op, a) <=> a - op.at + 1 \in op.left
      BY <1>6 DEF Still
    <3>3. CASE op2 = Idle
      <4>1. ~Still(op2, a) /\ op.left = {i}
        BY <1>3, <1>5, <3>3 DEF Still
      <4>2. CASE a = op.at + i - 1
        BY <2>2, <3>1, <3>2, <4>1, <4>2 DEF Byte
      <4>3. CASE a # op.at + i - 1
        BY <2>2, <3>1, <3>2, <4>1, <4>3 DEF Byte
      <4> QED BY <4>2, <4>3
    <3>4. CASE op2 # Idle
      <4>1. op2.kind = "put" /\ op2.at = op.at /\ op2.data = op.data
        BY <1>3, <1>6, <3>4
      <4>2. Still(op2, a) <=> Still(op, a) /\ a - op.at + 1 # i
        BY <1>3, <3>2, <4>1 DEF Still
      <4>3. CASE a = op.at + i - 1
        BY <1>1, <2>2, <3>1, <3>2, <4>1, <4>2, <4>3 DEF Byte
      <4>4. CASE a # op.at + i - 1
        BY <2>2, <3>1, <4>1, <4>2, <4>4 DEF Byte
      <4> QED BY <4>3, <4>4
    <3> QED BY <3>3, <3>4
  <2> QED BY <1>3, <2>3, <2>4 DEF op, op2
<1>7. CASE op.kind # "put"
  <2>1. mem' = mem /\ \A a : ~Still(op, a)
    BY <1>1, <1>7 DEF Still
  <2>2. op2.kind # "put"
    BY <1>3, <1>5, <1>7
  <2>3. \A a : ~Still(op2, a)
    BY <2>2 DEF Still
  <2> QED BY <1>3, <2>1, <2>3 DEF op, op2, Byte
<1> QED BY <1>6, <1>7

\* Bytes that move change nothing of the file: it had changed already.
LEMMA TransferMaps ==
    ASSUME StreamInv, StreamInv', NEW o \in Owners, Transfer(o)
    PROVE  UNCHANGED File!fileVars
<1>1. Types /\ Types' /\ Inside /\ UNCHANGED <<Place, result>>
  BY DEF StreamInv, Transfer, Place
<1>2. /\ \A x \in Owners : x # o => ops'[x] = ops[x]
      /\ \A a \in Address : a < Base[o] \/ Base[o] + Extent[o] <= a => mem'[a] = mem[a]
      /\ \A a \in Address : Byte(ops'[o], mem', a) = Byte(ops[o], mem, a)
  BY <1>1, MovedBytes
<1>3. CASE o = "stream"
  <2>1. \A a \in 0..(Length - 1) : a \in Address
    BY Regions DEF Address
  <2>2. Contents' = Contents
    BY <1>1, <1>2, <1>3, <2>1, ContentsBytes
  <2>3. Base[o] + Extent[o] = Length /\ "direct" \in Owners /\ "direct" # o
    BY <1>3, Regions
  <2>4. Window' = Window
    BY <1>1, <1>2, <2>3, SameBytes
  <2> QED BY <1>1, <2>2, <2>4, FileStutters
<1>4. CASE o = "direct"
  <2>1. \A a \in 0..(Width - 1) : Length + a \in Address
    BY Regions DEF Address
  <2>2. Window' = Window
    <3>1. \A a \in 0..(Width - 1) :
            Byte(ops'[o], mem', Length + a) = Byte(ops[o], mem, Length + a)
      BY <1>2, <2>1
    <3> QED BY <1>1, <1>4, <3>1, WindowBytes
  <2>3. Base[o] = Length /\ "stream" \in Owners /\ "stream" # o
    BY <1>4, Regions
  <2>4. Contents' = Contents
    BY <1>1, <1>2, <2>3, SameBytes
  <2> QED BY <1>1, <2>2, <2>4, FileStutters
<1> QED BY <1>3, <1>4, Regions

\* What the file starts with is what the memory starts with.
LEMMA InitMaps == Init => File!Init
<1>1. SUFFICES ASSUME Init PROVE File!Init
  OBVIOUS
<1>2. Types
  BY <1>1, StreamInit DEF StreamInv
<1>3. ops["stream"].kind # "put" /\ ops["direct"].kind # "put" /\ mem \in [Address -> Values]
      /\ pos = 0 /\ result = <<>> /\ call = NoCall
  BY <1>1, Regions DEF Init, Idle
<1>4. /\ \A a \in 0..(Length - 1) : a \in Address
      /\ \A a \in 0..(Width - 1) : Length + a \in Address
  BY Regions DEF Address
<1>5. Contents \in [0..(Length - 1) -> Values]
  BY <1>2, <1>3, <1>4, PlainBytes
<1>6. Window \in [0..(Width - 1) -> Values]
  BY <1>2, <1>3, <1>4, PlainBytes
<1>7. Place = 0
  BY <1>3 DEF Place
<1> QED BY <1>3, <1>5, <1>6, <1>7 DEF File!Init, Contents, Window, Place

\* A step that leaves the memory and its operations alone moves the position of
\* the file at most.
LEMMA IdleMaps ==
    ASSUME StreamInv, StreamInv', UNCHANGED <<mem, ops, result>>,
           Place' \in Nat \/ Place' = Place
    PROVE  [File!Next]_(File!fileVars)
<1>1. Contents' = Contents /\ Window' = Window /\ result' = result
  BY SameBytes DEF StreamInv
<1>2. CASE Place' \in Nat
  BY <1>1, <1>2, FileSteps DEF StreamInv
<1>3. CASE Place' = Place
  BY <1>1, <1>3, FileStutters
<1> QED BY <1>2, <1>3

\* Every step is a step of the file, or none.
LEMMA StepMaps == StreamInv /\ StreamInv' /\ [Next]_vars => [File!Next]_(File!fileVars)
<1>1. SUFFICES ASSUME StreamInv, StreamInv', [Next]_vars PROVE [File!Next]_(File!fileVars)
  OBVIOUS
<1>2. CASE UNCHANGED vars
  BY <1>1, <1>2, IdleMaps DEF vars, Place
<1>3. ASSUME NEW x \in Exporters, Look(x) PROVE [File!Next]_(File!fileVars)
  BY <1>1, <1>3, IdleMaps DEF Look, Place
<1>4. CASE Open
  <2>1. call' = NoCall /\ pos' = 0
    BY <1>1, <1>4 DEF Open, StreamInv, Awaited
  <2>2. Place' = 0
    BY <2>1 DEF Place
  <2> QED BY <1>1, <1>4, <2>2, IdleMaps DEF Open
<1>5. ASSUME NEW p \in -MaxSeek..MaxSeek, NEW whence \in 0..2, Seek(p, whence)
      PROVE  [File!Next]_(File!fileVars)
  <2>1. call' = NoCall /\ pos' \in Nat
    BY <1>5, StreamAssumption DEF Seek, Ready
  <2>2. Place' \in Nat
    BY <2>1 DEF Place
  <2> QED BY <1>1, <1>5, <2>2, IdleMaps DEF Seek
<1>6. ASSUME NEW n \in Sizes, Write(Buffer(n)) PROVE [File!Next]_(File!fileVars)
  BY <1>1, <1>6, WriteMaps
<1>7. ASSUME NEW n \in Sizes, ReadInto(Buffer(n)) PROVE [File!Next]_(File!fileVars)
  BY <1>1, <1>7, ReadMaps
<1>8. CASE Flush
  <2>1. CASE Complete /\ ReturnTo(FlagAfter)
    BY <1>1, <1>8, <2>1, ReturnMaps, Regions DEF Flush, Complete
  <2>2. CASE flush' = "pending" /\ UNCHANGED <<cbFinished, call, local, result>>
    BY <1>1, <1>8, <2>2, IdleMaps DEF Flush, Place
  <2> QED BY <1>8, <2>1, <2>2 DEF Flush
<1>9. CASE FlushDone
  BY <1>1, <1>9, IdleMaps DEF FlushDone, Place
<1>10. CASE Unblock
  <2>1. ops["stream"] = Idle /\ call # NoCall
    BY <1>1, <1>10 DEF Unblock, StreamInv, FlagRight
  <2> QED BY <1>1, <1>10, <2>1, ReturnMaps DEF Unblock
<1>11. ASSUME NEW offset \in 0..Width, NEW n \in 0..Width,
              \/ DirectPut(offset, n) \/ DirectPutNbi(offset, n)
              \/ DirectGet(offset, n) \/ DirectGetNbi(offset, n)
      PROVE  [File!Next]_(File!fileVars)
  BY <1>1, <1>11, DirectPutMaps, DirectGetMaps
<1>12. CASE DirectDone
  BY <1>1, <1>12, IdleMaps DEF DirectDone, Place
<1>13. ASSUME NEW o \in Owners, Transfer(o) PROVE [File!Next]_(File!fileVars)
  BY <1>1, <1>13, TransferMaps
<1> QED BY <1>1, <1>2, <1>3, <1>4, <1>5, <1>6, <1>7, <1>8, <1>9, <1>10, <1>11, <1>12, <1>13 DEF Next

\* A stream is a file, whatever the lengths, the values and the sizes: every
\* step of RemoteStream is a step of RemoteFile or changes nothing of it.
THEOREM StreamIsFileHolds == Spec => StreamIsFile
<1>1. Spec => []StreamInv
  BY InvHolds
<1>2. StreamInv /\ StreamInv' /\ [Next]_vars => [File!Next]_(File!fileVars)
  BY StepMaps
<1> QED BY <1>1, <1>2, InitMaps, PTL DEF Spec, StreamIsFile, File!Spec

-----------------------------------------------------------------------------
(* Arrays.                                                                  *)

\* What is looked at is one of the exporters, of which the assumption speaks.
Known == looked # NoCall => looked \in Exporters

LEMMA KnownStep == Known /\ [Next]_vars => Known'
<1> SUFFICES ASSUME Known, [Next]_vars PROVE Known'
  OBVIOUS
<1>1. \/ \E x \in Exporters : Look(x)
      \/ Open
      \/ UNCHANGED looked
  <2>1. CASE UNCHANGED vars
    BY <2>1 DEF vars
  <2>2. CASE \E p \in -MaxSeek..MaxSeek, whence \in 0..2 : Seek(p, whence)
    BY <2>2 DEF Seek
  <2>3. CASE \E n \in Sizes : Write(Buffer(n)) \/ ReadInto(Buffer(n))
    BY <2>3 DEF Write, ReadInto
  <2>4. CASE Flush \/ FlushDone \/ Unblock
    BY <2>4 DEF Flush, FlushDone, Unblock
  <2>5. CASE \E offset \in 0..Width, n \in 0..Width :
                \/ DirectPut(offset, n) \/ DirectPutNbi(offset, n)
                \/ DirectGet(offset, n) \/ DirectGetNbi(offset, n)
    BY <2>5 DEF DirectPut, DirectPutNbi, DirectGet, DirectGetNbi
  <2>6. CASE DirectDone
    BY <2>6 DEF DirectDone
  <2>7. CASE \E o \in Owners : Transfer(o)
    BY <2>7 DEF Transfer
  <2> QED BY <2>1, <2>2, <2>3, <2>4, <2>5, <2>6, <2>7 DEF Next
<1> QED BY <1>1 DEF Known, Look, Open

\* What an Array says of a layout is true of it, for every shape: an array that is called
\* contiguous occupies the nbytes after its pointer, c_contiguous means the order of the
\* indices, and strides leads to each element.
THEOREM LayoutRightHolds == Spec => []LayoutRight
<1>1. Init => Known
  BY DEF Init, Known
<1>2. Known => LayoutRight
  <2>1. ASSUME NEW x \in Exporters PROVE IsExporter(x)
    BY StreamAssumption DEF IsExporter
  <2>2. ASSUME Known, looked # NoCall PROVE IsExporter(looked)
    BY <2>1, <2>2 DEF Known
  <2> QED BY <2>2, ArraySays, Zenon DEF LayoutRight
<1> QED BY <1>1, <1>2, KnownStep, PTL DEF Spec
=============================================================================
