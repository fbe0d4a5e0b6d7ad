----------------------------- MODULE ListLemmas -----------------------------
(***************************************************************************)
(* Lemmas about lists and their elements, and about least numbers, that    *)
(* the proofs about several components use.                                *)
(***************************************************************************)
EXTENDS SequencesExt, FiniteSetsExt, SequenceTheorems, FiniteSetTheorems, TLAPS

-----------------------------------------------------------------------------
(* Lists used as queues.                                                    *)

\* Appending adds one element to a queue's set.
LEMMA ToSetAppend ==
    ASSUME NEW S, NEW s \in Seq(S), NEW x \in S
    PROVE  ToSet(Append(s, x)) = ToSet(s) \cup {x}
<1>1. /\ Append(s, x) \in Seq(S) /\ Len(Append(s, x)) = Len(s) + 1
      /\ \A i \in 1..Len(s) : Append(s, x)[i] = s[i]
      /\ Append(s, x)[Len(s) + 1] = x
  BY AppendProperties
<1>2. DOMAIN s = 1..Len(s) /\ DOMAIN Append(s, x) = 1..(Len(s) + 1) /\ Len(s) \in Nat
  BY <1>1
<1>3. ASSUME NEW y \in ToSet(Append(s, x)) PROVE y \in ToSet(s) \cup {x}
  <2>1. PICK i \in 1..(Len(s) + 1) : y = Append(s, x)[i]
    BY <1>2 DEF ToSet
  <2>2. CASE i = Len(s) + 1
    BY <1>1, <2>1, <2>2
  <2>3. CASE i \in 1..Len(s)
    BY <1>1, <1>2, <2>1, <2>3 DEF ToSet
  <2> QED BY <1>2, <2>2, <2>3
<1>4. ASSUME NEW y \in ToSet(s) PROVE y \in ToSet(Append(s, x))
  <2>1. PICK i \in 1..Len(s) : y = s[i]
    BY <1>2 DEF ToSet
  <2> QED BY <1>1, <1>2, <2>1 DEF ToSet
<1>5. x \in ToSet(Append(s, x))
  BY <1>1, <1>2 DEF ToSet
<1> QED BY <1>3, <1>4, <1>5

\* Taking the first element leaves the others.
LEMMA ToSetTail ==
    ASSUME NEW S, NEW s \in Seq(S), s # <<>>
    PROVE  /\ RemoveAt(s, 1) = Tail(s) /\ Tail(s) \in Seq(S)
           /\ s[1] \in S /\ Head(s) = s[1]
           /\ ToSet(s) = {s[1]} \cup ToSet(Tail(s))
<1>1. /\ Head(s) \in S /\ Tail(s) \in Seq(S) /\ Len(Tail(s)) = Len(s) - 1
      /\ \A i \in 1..Len(Tail(s)) : Tail(s)[i] = s[i + 1]
  BY HeadTailProperties
<1>2. Len(s) \in Nat \ {0} /\ DOMAIN s = 1..Len(s) /\ DOMAIN Tail(s) = 1..(Len(s) - 1)
  BY <1>1, EmptySeq
<1>3. RemoveAt(s, 1) = Tail(s)
  <2>1. SubSeq(s, 1, 0) = <<>>
    BY SubSeqEmpty
  <2>2. SubSeq(s, 2, Len(s)) = Tail(s)
    BY TailIsSubSeq
  <2> QED BY <1>1, <2>1, <2>2, ConcatEmptySeq DEF RemoveAt
<1>4. ASSUME NEW y \in ToSet(s) PROVE y \in {s[1]} \cup ToSet(Tail(s))
  <2>1. PICK i \in 1..Len(s) : y = s[i]
    BY <1>2 DEF ToSet
  <2>2. CASE i = 1
    BY <2>1, <2>2
  <2>3. CASE i # 1
    <3>1. i - 1 \in 1..(Len(s) - 1) /\ Tail(s)[i - 1] = y
      BY <1>1, <1>2, <2>1, <2>3
    <3> QED BY <1>2, <3>1 DEF ToSet
  <2> QED BY <2>2, <2>3
<1>5. ASSUME NEW y \in ToSet(Tail(s)) PROVE y \in ToSet(s)
  <2>1. PICK i \in 1..(Len(s) - 1) : y = Tail(s)[i]
    BY <1>2 DEF ToSet
  <2>2. i + 1 \in 1..Len(s) /\ y = s[i + 1]
    BY <1>1, <1>2, <2>1
  <2> QED BY <1>2, <2>2 DEF ToSet
<1>6. s[1] \in ToSet(s) /\ Head(s) = s[1]
  BY <1>2 DEF ToSet
<1> QED BY <1>1, <1>3, <1>4, <1>5, <1>6

\* The elements of a queue are of its type.
LEMMA ToSetIn == ASSUME NEW S, NEW s \in Seq(S) PROVE ToSet(s) \subseteq S
BY ElementOfSeq, LenProperties DEF ToSet

\* An empty queue holds nothing.
LEMMA ToSetEmpty == ToSet(<<>>) = {}
BY DEF ToSet

-----------------------------------------------------------------------------
(* Lists without repetitions.                                               *)

\* A new element at the end is no repetition.
LEMMA InjectiveAppend ==
    ASSUME NEW S, NEW s \in Seq(S), NEW x \in S, IsInjective(s), x \notin ToSet(s)
    PROVE  IsInjective(Append(s, x))
<1>1. /\ Append(s, x) \in Seq(S) /\ Len(Append(s, x)) = Len(s) + 1
      /\ \A i \in 1..Len(s) : Append(s, x)[i] = s[i]
      /\ Append(s, x)[Len(s) + 1] = x
  BY AppendProperties
<1>2. DOMAIN s = 1..Len(s) /\ DOMAIN Append(s, x) = 1..(Len(s) + 1) /\ Len(s) \in Nat
  BY <1>1
<1>3. \A i \in 1..Len(s) : s[i] # x
  BY <1>2 DEF ToSet
<1>4. \A i, j \in 1..Len(s) : s[i] = s[j] => i = j
  BY <1>2 DEF IsInjective
<1>5. SUFFICES ASSUME NEW i \in 1..(Len(s) + 1), NEW j \in 1..(Len(s) + 1),
                      Append(s, x)[i] = Append(s, x)[j]
               PROVE  i = j
  BY <1>2 DEF IsInjective
<1>6. CASE i \in 1..Len(s) /\ j \in 1..Len(s)
  BY <1>1, <1>4, <1>5, <1>6
<1>7. CASE i = Len(s) + 1 /\ j \in 1..Len(s)
  BY <1>1, <1>3, <1>5, <1>7
<1>8. CASE j = Len(s) + 1 /\ i \in 1..Len(s)
  BY <1>1, <1>3, <1>5, <1>8
<1> QED BY <1>2, <1>6, <1>7, <1>8

\* A finite set is listed without repetitions.
LEMMA ListOfSet ==
    ASSUME NEW S, IsFiniteSet(S)
    PROVE  /\ SetToSeq(S) \in Seq(S) /\ IsInjective(SetToSeq(S))
           /\ ToSet(SetToSeq(S)) = S
<1> DEFINE n == Cardinality(S)
<1>1. n \in Nat /\ ExistsBijection(1..n, S)
  BY FS_CardinalityType
<1>2. PICK f : f \in Bijection(1..n, S)
  BY <1>1 DEF ExistsBijection
<1>3. f \in [1..n -> S] /\ IsInjective(f)
  BY <1>2 DEF Bijection, Injection
<1>4. SetToSeq(S) \in [1..n -> S] /\ IsInjective(SetToSeq(S))
  BY <1>3 DEF SetToSeq
<1>5. SetToSeq(S) \in Injection(1..n, S)
  BY <1>4 DEF Injection
<1>6. Cardinality(1..n) = n
  BY <1>1, FS_Interval
<1>7. SetToSeq(S) \in Surjection(1..n, S)
  BY <1>5, <1>6, FS_Injection
<1>8. \A t \in S : \E i \in 1..n : SetToSeq(S)[i] = t
  BY <1>7 DEF Surjection
<1>9. SetToSeq(S) \in Seq(S)
  BY <1>1, <1>4, SeqDef
<1> QED BY <1>4, <1>8, <1>9 DEF ToSet

-----------------------------------------------------------------------------
(* Least numbers.                                                           *)

\* Min is the least element.
LEMMA Least ==
    ASSUME NEW T \in SUBSET Nat, T # {}
    PROVE  Min(T) \in T /\ \A i \in T : Min(T) <= i
<1>1. \E i \in T : \A j \in T : <<j, i>> \notin OpToRel(<, Nat)
  BY NatLessThanWellFounded, WFMin
<1>2. PICK i \in T : \A j \in T : <<j, i>> \notin OpToRel(<, Nat)
  BY <1>1
<1>3. \A j \in T : ~(j < i)
  BY <1>2 DEF OpToRel
<1>4. \A j \in T : i <= j
  BY <1>3
<1> QED BY <1>2, <1>4 DEF Min

-----------------------------------------------------------------------------
(* Induction and recursion up to a number.                                  *)

\* A set that has 0, and each number up to n after the one before it, has all.
LEMMA UpTo ==
    ASSUME NEW n \in Nat, NEW T, 0 \in T, \A i \in 1..n : i - 1 \in T => i \in T
    PROVE  \A i \in 0..n : i \in T
<1> DEFINE Bad == {i \in 0..n : i \notin T}
<1>1. SUFFICES ASSUME Bad # {} PROVE FALSE
  OBVIOUS
<1>2. Min(Bad) \in Bad /\ \A i \in Bad : Min(Bad) <= i
  <2>1. Bad \in SUBSET Nat
    OBVIOUS
  <2> HIDE DEF Bad
  <2> QED BY <1>1, <2>1, Least
<1>3. PICK m \in 0..n : m \notin T /\ \A i \in Bad : m <= i
  BY <1>2
<1>4. m \in 1..n /\ m - 1 \in 0..n /\ m - 1 < m
  BY <1>3
<1>5. m - 1 \in T
  BY <1>3, <1>4
<1> QED BY <1>3, <1>4, <1>5

\* A function that is computed step by step from what it has at 0.
Stepwise(f, base, step, n) == f[0] = base /\ \A i \in 1..n : f[i] = step[i][f[i - 1]]

\* There is one whenever the steps lead from values to values.
LEMMA Recursion ==
    ASSUME NEW S, NEW base \in S, NEW n \in Nat, NEW step \in [1..n -> [S -> S]]
    PROVE  \E f \in [0..n -> S] : Stepwise(f, base, step, n)
<1> DEFINE Is(f, m) == /\ f \in [0..m -> S] /\ f[0] = base
                       /\ \A i \in 1..m : f[i] = step[i][f[i - 1]]
           Done == {m \in 0..n : \E f : Is(f, m)}
<1>1. 0 \in Done
  <2> DEFINE g == [i \in 0..0 |-> base]
  <2>1. g \in [0..0 -> S] /\ g[0] = base /\ 1..0 = {}
    OBVIOUS
  <2> HIDE DEF g
  <2>2. Is(g, 0)
    BY <2>1
  <2> QED BY <2>2
<1>2. ASSUME NEW m \in 1..n, m - 1 \in Done PROVE m \in Done
  <2>1. PICK f : Is(f, m - 1)
    BY <1>2
  <2> DEFINE g == [i \in 0..m |-> IF i = m THEN step[m][f[m - 1]] ELSE f[i]]
  <2>2. f[m - 1] \in S /\ step[m] \in [S -> S]
    BY <2>1
  <2>3. step[m][f[m - 1]] \in S
    BY <2>2
  <2>4. g \in [0..m -> S]
    BY <2>1, <2>3
  <2>5. \A i \in 0..(m - 1) : g[i] = f[i]
    OBVIOUS
  <2>6. g[m] = step[m][f[m - 1]]
    OBVIOUS
  <2>7. ASSUME NEW i \in 1..m PROVE g[i] = step[i][g[i - 1]]
    <3>1. i - 1 \in 0..(m - 1) /\ g[i - 1] = f[i - 1]
      BY <2>5
    <3>2. CASE i = m
      BY <2>6, <3>1, <3>2
    <3>3. CASE i # m
      <4>1. i \in 1..(m - 1) /\ i \in 0..(m - 1)
        BY <3>3
      <4> QED BY <2>1, <2>5, <3>1, <4>1
    <3> QED BY <3>2, <3>3
  <2>8. g[0] = base
    BY <2>1, <2>5
  <2> HIDE DEF g
  <2>9. Is(g, m)
    BY <2>4, <2>7, <2>8
  <2>10. m \in 0..n
    OBVIOUS
  <2> HIDE DEF Is
  <2> QED BY <2>9, <2>10
<1>3. \A m \in 0..n : m \in Done
  <2> HIDE DEF Done
  <2> QED BY <1>1, <1>2, UpTo
<1>4. PICK f : Is(f, n)
  BY <1>3
<1> QED BY <1>4 DEF Stepwise

-----------------------------------------------------------------------------
(* The rest of a list.                                                      *)

\* What comes after the first n elements of a list without repetitions.
LEMMA RestOfList ==
    ASSUME NEW S, NEW s \in Seq(S), IsInjective(s), NEW n \in 0..Len(s),
           NEW t, t = SubSeq(s, n + 1, Len(s))
    PROVE  /\ t \in Seq(S) /\ IsInjective(t)
           /\ \A x : x \in ToSet(t) <=> x \in ToSet(s) /\ \A i \in 1..n : x # s[i]
<1>0. n \in Nat /\ Len(s) \in Nat /\ n <= Len(s)
  <2>1. Len(s) \in Nat
    BY LenProperties
  <2> QED BY <2>1
<1>1. n \in Nat /\ Len(s) \in Nat /\ DOMAIN s = 1..Len(s)
  BY <1>0, LenProperties
<1>2. /\ t \in Seq(S) /\ Len(t) = Len(s) - n
      /\ \A i \in 1..Len(t) : t[i] = s[n + i]
  <2>1. \A i \in (n + 1)..Len(s) : s[i] \in S
    BY <1>1, ElementOfSeq
  <2>2. /\ t \in Seq(S)
        /\ Len(t) = IF n + 1 <= Len(s) THEN Len(s) - (n + 1) + 1 ELSE 0
        /\ \A i \in 1..(Len(s) - (n + 1) + 1) : t[i] = s[(n + 1) + i - 1]
    BY <1>1, <2>1, SubSeqProperties
  <2>3. \A i \in 1..(Len(s) - n) : t[i] = s[n + i]
    <3> SUFFICES ASSUME NEW i \in 1..(Len(s) - n) PROVE t[i] = s[n + i]
      OBVIOUS
    <3>1. i \in 1..(Len(s) - (n + 1) + 1) /\ (n + 1) + i - 1 = n + i
      BY <1>1
    <3> QED BY <2>2, <3>1
  <2>4. Len(t) = Len(s) - n
    <3>1. Len(t) = IF n + 1 <= Len(s) THEN Len(s) - (n + 1) + 1 ELSE 0
      BY <2>2
    <3>2. n + 1 <= Len(s) \/ n = Len(s)
      BY <1>0
    <3> QED BY <1>0, <3>1, <3>2
  <2> QED BY <2>2, <2>3, <2>4
<1>3. DOMAIN t = 1..(Len(s) - n)
  BY <1>2
<1>4. \A i, j \in 1..Len(s) : s[i] = s[j] => i = j
  BY <1>1 DEF IsInjective
<1>5. IsInjective(t)
  <2> SUFFICES ASSUME NEW i \in 1..(Len(s) - n), NEW j \in 1..(Len(s) - n), t[i] = t[j]
               PROVE  i = j
    BY <1>3 DEF IsInjective
  <2>1. n + i \in 1..Len(s) /\ n + j \in 1..Len(s)
    BY <1>0
  <2>2. i \in 1..Len(t) /\ j \in 1..Len(t)
    BY <1>2
  <2>3. s[n + i] = s[n + j]
    BY <1>2, <2>2
  <2>4. n + i = n + j
    BY <1>4, <2>1, <2>3
  <2> QED BY <1>0, <2>4
<1>6. ToSet(t) = {s[i] : i \in (n + 1)..Len(s)}
  <2>1. ASSUME NEW x \in ToSet(t) PROVE x \in {s[i] : i \in (n + 1)..Len(s)}
    <3>1. PICK i \in 1..(Len(s) - n) : x = t[i]
      BY <1>3 DEF ToSet
    <3>2. n + i \in (n + 1)..Len(s)
      BY <1>0
    <3>3. i \in 1..Len(t)
      BY <1>2
    <3>4. x = s[n + i]
      BY <1>2, <3>1, <3>3
    <3> QED BY <3>2, <3>4
  <2>2. ASSUME NEW i \in (n + 1)..Len(s) PROVE s[i] \in ToSet(t)
    <3>1. i - n \in 1..(Len(s) - n) /\ n + (i - n) = i
      BY <1>1
    <3>2. t[i - n] = s[i]
      BY <1>2, <3>1
    <3> QED BY <1>3, <3>1, <3>2 DEF ToSet
  <2> QED BY <2>1, <2>2
<1>7. ToSet(s) = {s[i] : i \in 1..Len(s)}
  BY <1>1 DEF ToSet
<1>8. ToSet(t) \subseteq ToSet(s)
  BY <1>1, <1>6, <1>7
<1>9. \A x : x \in ToSet(t) <=> x \in ToSet(s) /\ \A i \in 1..n : x # s[i]
  <2>1. ASSUME NEW i \in (n + 1)..Len(s), NEW j \in 1..n PROVE s[i] # s[j]
    BY <1>1, <1>4
  <2>2. ASSUME NEW i \in 1..Len(s), i \notin 1..n PROVE i \in (n + 1)..Len(s)
    BY <1>1, <2>2
  <2> QED BY <1>6, <1>7, <1>8, <2>1, <2>2
<1> QED BY <1>2, <1>5, <1>9

-----------------------------------------------------------------------------
(* The order of a list.                                                     *)

\* One element comes before another.
Ahead(s, x, y) == \E i, j \in 1..Len(s) : i < j /\ s[i] = x /\ s[j] = y

\* Both are in the list, and without repetitions the order is strict.
LEMMA AheadIn ==
    ASSUME NEW S, NEW s \in Seq(S)
    PROVE  /\ \A x, y : Ahead(s, x, y) => x \in ToSet(s) /\ y \in ToSet(s)
           /\ IsInjective(s) => \A x, y : Ahead(s, x, y) => ~Ahead(s, y, x)
<1>1. DOMAIN s = 1..Len(s) /\ Len(s) \in Nat
  BY LenProperties
<1>2. ASSUME NEW x, NEW y, Ahead(s, x, y) PROVE x \in ToSet(s) /\ y \in ToSet(s)
  BY <1>1, <1>2 DEF Ahead, ToSet
<1>3. ASSUME IsInjective(s), NEW x, NEW y, Ahead(s, x, y), Ahead(s, y, x) PROVE FALSE
  <2>1. PICK i, j \in 1..Len(s) : i < j /\ s[i] = x /\ s[j] = y
    BY <1>3 DEF Ahead
  <2>2. PICK k, l \in 1..Len(s) : k < l /\ s[k] = y /\ s[l] = x
    BY <1>3 DEF Ahead
  <2>3. i = l /\ j = k
    BY <1>1, <1>3, <2>1, <2>2 DEF IsInjective
  <2> QED BY <1>1, <2>1, <2>2, <2>3
<1> QED BY <1>2, <1>3

\* A new element at the end comes after all the others and changes nothing else.
LEMMA AheadAppend ==
    ASSUME NEW S, NEW s \in Seq(S), NEW z \in S
    PROVE  \A x, y : Ahead(Append(s, z), x, y) <=>
               Ahead(s, x, y) \/ (x \in ToSet(s) /\ y = z)
<1> DEFINE t == Append(s, z)
<1>1. /\ Len(t) = Len(s) + 1 /\ Len(s) \in Nat /\ DOMAIN s = 1..Len(s)
      /\ \A i \in 1..Len(s) : t[i] = s[i]
      /\ t[Len(s) + 1] = z
  BY AppendProperties, LenProperties
<1> HIDE DEF t
<1>2. ASSUME NEW x, NEW y, Ahead(t, x, y)
      PROVE  Ahead(s, x, y) \/ (x \in ToSet(s) /\ y = z)
  <2>1. PICK i, j \in 1..(Len(s) + 1) : i < j /\ t[i] = x /\ t[j] = y
    BY <1>1, <1>2 DEF Ahead
  <2>2. i \in 1..Len(s) /\ s[i] = x
    BY <1>1, <2>1
  <2>3. CASE j = Len(s) + 1
    BY <1>1, <2>1, <2>2, <2>3 DEF ToSet
  <2>4. CASE j # Len(s) + 1
    <3>1. j \in 1..Len(s) /\ s[j] = y
      BY <1>1, <2>1, <2>4
    <3> QED BY <2>1, <2>2, <3>1 DEF Ahead
  <2> QED BY <2>3, <2>4
<1>3. ASSUME NEW x, NEW y, Ahead(s, x, y) PROVE Ahead(t, x, y)
  <2>1. PICK i, j \in 1..Len(s) : i < j /\ s[i] = x /\ s[j] = y
    BY <1>3 DEF Ahead
  <2>2. i \in 1..Len(t) /\ j \in 1..Len(t) /\ t[i] = x /\ t[j] = y
    BY <1>1, <2>1
  <2> QED BY <2>1, <2>2 DEF Ahead
<1>4. ASSUME NEW x \in ToSet(s) PROVE Ahead(t, x, z)
  <2>1. PICK i \in 1..Len(s) : x = s[i]
    BY <1>1 DEF ToSet
  <2>2. i \in 1..Len(t) /\ Len(s) + 1 \in 1..Len(t) /\ i < Len(s) + 1 /\ t[i] = x
        /\ t[Len(s) + 1] = z
    BY <1>1, <2>1
  <2> QED BY <2>2 DEF Ahead
<1> QED BY <1>2, <1>3, <1>4 DEF t

\* A list has finitely many elements.
LEMMA ToSetFinite ==
    ASSUME NEW S, NEW s \in Seq(S) PROVE IsFiniteSet(ToSet(s))
<1>1. DOMAIN s = 1..Len(s) /\ Len(s) \in Nat
  BY LenProperties
<1>2. IsFiniteSet(1..Len(s))
  BY <1>1, FS_Interval
<1>3. s \in Surjection(1..Len(s), ToSet(s))
  BY <1>1 DEF ToSet, Surjection
<1> QED BY <1>2, <1>3, FS_Surjection
=============================================================================
