------------------------------ MODULE ListProofs ------------------------------
(***************************************************************************)
(* Lists that are sorted, filtered and cut, the services that keep lists in  *)
(* memory (the index, the cache and the block list) and the assembly of a    *)
(* feed.  What the lemmas say of induction, of recursive functions and of    *)
(* sorting is used by the other proof modules too.                           *)
(***************************************************************************)
EXTENDS IndexService, CacheService, BlockedContent, WriterAuthorization,
        FiniteSetTheorems, FunctionTheorems, SequenceTheorems, WellFoundedInduction,
        TLAPS

-----------------------------------------------------------------------------
(* Induction over the natural numbers, with a set in place of a predicate.   *)

LEMMA Smallest ==
  ASSUME NEW T, T \subseteq Nat, T # {}
  PROVE  \E x \in T : \A y \in T : x <= y
<1> DEFINE R == OpToRel(<, Nat)
<1>1. IsWellFoundedOn(R, Nat)
  BY NatLessThanWellFounded, Zenon
<1>2. \A x, y \in Nat : x < y => <<x, y>> \in R
  BY DEF OpToRel
<1> HIDE DEF R
<1>3. PICK x \in T : \A y \in T : ~(<<y, x>> \in R)
  BY <1>1, WFMin
<1>4. \A y \in T : ~(y < x)
  BY <1>2, <1>3
<1> QED
  BY <1>4

LEMMA Induct ==
  ASSUME NEW T, 0 \in T, \A n \in Nat : n \in T => n + 1 \in T
  PROVE  \A n \in Nat : n \in T
<1> SUFFICES ASSUME Nat \ T # {} PROVE FALSE
  OBVIOUS
<1>1. PICK x \in Nat \ T : \A y \in Nat \ T : x <= y
  BY Smallest
<1>2. x - 1 \in Nat /\ x - 1 \in T /\ (x - 1) + 1 = x
  BY <1>1
<1> QED
  BY <1>1, <1>2

\* What is defined step by step along 0..n exists.
Along(f, X, base, step, n) ==
  f \in [0..n -> X] /\ f[0] = base /\ \A i \in 1..n : f[i] = step[i][f[i - 1]]

LEMMA Recursion ==
  ASSUME NEW X, NEW base \in X, NEW step, \A i \in Nat, x \in X : step[i][x] \in X,
         NEW n \in Nat
  PROVE  \E f : Along(f, X, base, step, n)
<1> DEFINE T == {k \in Nat : \E f : Along(f, X, base, step, k)}
<1>1. 0 \in T
  <2> DEFINE f == [i \in 0..0 |-> base]
  <2>1. Along(f, X, base, step, 0)
    BY DEF Along
  <2> QED
    BY <2>1
<1>2. ASSUME NEW k \in Nat, k \in T PROVE k + 1 \in T
  <2>1. PICK f : Along(f, X, base, step, k)
    BY <1>2
  <2>0. f \in [0..k -> X] /\ f[0] = base /\ \A i \in 1..k : f[i] = step[i][f[i - 1]]
    BY <2>1 DEF Along
  <2> DEFINE g == [i \in 0..(k + 1) |-> IF i <= k THEN f[i] ELSE step[k + 1][f[k]]]
  <2>2. k \in 0..k /\ k + 1 \in Nat /\ f[k] \in X
    BY <2>0
  <2>3. step[k + 1][f[k]] \in X
    BY <2>2
  <2>4. g \in [0..(k + 1) -> X]
    BY <2>0, <2>3
  <2>5. g[0] = base
    BY <2>0
  <2>6. ASSUME NEW i \in 1..(k + 1) PROVE g[i] = step[i][g[i - 1]]
    <3>1. CASE i <= k
      <4>1. i \in 1..k /\ i \in 0..(k + 1) /\ i - 1 \in 0..(k + 1) /\ i - 1 <= k
        BY <3>1
      <4>2. g[i] = f[i] /\ g[i - 1] = f[i - 1]
        BY <3>1, <4>1
      <4> QED
        BY <2>0, <4>1, <4>2
    <3>2. CASE i = k + 1
      <4>1. i \in 0..(k + 1) /\ i - 1 \in 0..(k + 1) /\ i - 1 = k /\ ~(i <= k)
        BY <3>2
      <4>2. g[i] = step[k + 1][f[k]] /\ g[i - 1] = f[k]
        BY <4>1
      <4> QED
        BY <3>2, <4>1, <4>2
    <3> QED
      BY <3>1, <3>2
  <2> HIDE DEF g
  <2>7. Along(g, X, base, step, k + 1)
    BY <2>4, <2>5, <2>6 DEF Along
  <2> QED
    BY <2>2, <2>7
<1> HIDE DEF T
<1>3. n \in T
  BY <1>1, <1>2, Induct
<1> QED
  BY <1>3 DEF T

-----------------------------------------------------------------------------
(* Lists                                                                     *)

\* ahead puts the members of its domain in a row.
Orders(ahead) ==
  /\ IsFiniteSet(DOMAIN ahead)
  /\ \A i \in DOMAIN ahead : ahead[i] \subseteq DOMAIN ahead /\ i \notin ahead[i]
  /\ \A i, j \in DOMAIN ahead : i = j \/ i \in ahead[j] \/ j \in ahead[i]
  /\ \A i, j \in DOMAIN ahead : i \in ahead[j] => ahead[i] \subseteq ahead[j]

\* Each has a place of its own, and there is one for each place.
LEMMA Ranks ==
  ASSUME NEW ahead, Orders(ahead)
  PROVE  /\ Cardinality(DOMAIN ahead) \in Nat
         /\ \A i \in DOMAIN ahead : Cardinality(ahead[i]) + 1 \in 1..Cardinality(DOMAIN ahead)
         /\ \A i, j \in DOMAIN ahead :
              i \in ahead[j] <=> Cardinality(ahead[i]) < Cardinality(ahead[j])
         /\ \A i, j \in DOMAIN ahead : Cardinality(ahead[i]) = Cardinality(ahead[j]) => i = j
         /\ \A k \in 1..Cardinality(DOMAIN ahead) :
              \E i \in DOMAIN ahead : Cardinality(ahead[i]) = k - 1
<1> DEFINE S == DOMAIN ahead
           n == Cardinality(S)
           rank(i) == Cardinality(ahead[i])
           f == [i \in S |-> rank(i) + 1]
<1>1. IsFiniteSet(S) /\ n \in Nat
  BY FS_CardinalityType DEF Orders
<1>2. ASSUME NEW i \in S PROVE IsFiniteSet(ahead[i]) /\ rank(i) \in Nat /\ rank(i) < n
  <2>1. ahead[i] \in SUBSET S /\ i \notin ahead[i]
    BY DEF Orders
  <2>2. IsFiniteSet(ahead[i]) /\ rank(i) <= n /\ (n = rank(i) => S = ahead[i])
    BY <1>1, <2>1, FS_Subset
  <2>3. rank(i) \in Nat
    BY <2>2, FS_CardinalityType
  <2>4. n # rank(i)
    BY <2>1, <2>2
  <2> HIDE DEF n, rank
  <2> QED
    BY <1>1, <2>2, <2>3, <2>4
<1>3. ASSUME NEW i \in S, NEW j \in S, i \in ahead[j] PROVE rank(i) < rank(j)
  <2>1. ahead[i] \in SUBSET ahead[j] /\ ahead[i] # ahead[j]
    BY <1>3 DEF Orders
  <2>2. rank(i) <= rank(j) /\ (rank(j) = rank(i) => ahead[j] = ahead[i])
    BY <1>2, <2>1, FS_Subset
  <2>3. rank(i) \in Nat /\ rank(j) \in Nat
    BY <1>2
  <2> HIDE DEF rank
  <2> QED
    BY <2>1, <2>2, <2>3
<1>4. ASSUME NEW i \in S, NEW j \in S PROVE i = j \/ i \in ahead[j] \/ j \in ahead[i]
  BY DEF Orders
<1> HIDE DEF n, rank
<1>5. \A i, j \in S : rank(i) = rank(j) => i = j
  BY <1>2, <1>3, <1>4
<1>6. \A i, j \in S : i \in ahead[j] <=> rank(i) < rank(j)
  BY <1>2, <1>3, <1>4
<1>7. \A i \in S : rank(i) + 1 \in 1..n
  BY <1>1, <1>2
<1>8. \A k \in 1..n : \E i \in S : rank(i) = k - 1
  <2>1. f \in [S -> 1..n]
    BY <1>7
  <2>2. \A i, j \in S : f[i] = f[j] => i = j
    BY <1>2, <1>5
  <2>3. f \in Injection(S, 1..n)
    BY <2>1, <2>2 DEF Injection, IsInjective
  <2>4. IsFiniteSet(1..n) /\ Cardinality(1..n) = n
    BY <1>1, FS_Interval
  <2>5. Cardinality(S) = n
    BY DEF n
  <2> HIDE DEF f
  <2>6. f \in Surjection(S, 1..n)
    BY <2>3, <2>4, <2>5, FS_Injection
  <2>7. \A k \in 1..n : \E i \in S : f[i] = k
    BY <2>6 DEF Surjection
  <2> QED
    BY <1>2, <2>7 DEF f
<1> QED
  BY <1>1, <1>5, <1>6, <1>7, <1>8 DEF n, rank

\* An arranged list has the elements it was made of, one at each place.
LEMMA Arranging ==
  ASSUME NEW ahead, Orders(ahead), NEW list, NEW E,
         \A i \in DOMAIN ahead : list[i] \in E
  PROVE  /\ Arranged(list, ahead) \in Seq(E)
         /\ Len(Arranged(list, ahead)) = Cardinality(DOMAIN ahead)
         /\ Cardinality(DOMAIN ahead) \in Nat
         /\ ToSet(Arranged(list, ahead)) = {list[i] : i \in DOMAIN ahead}
         /\ \A k \in 1..Cardinality(DOMAIN ahead) :
              \E i \in DOMAIN ahead :
                Cardinality(ahead[i]) = k - 1 /\ Arranged(list, ahead)[k] = list[i]
         /\ \A i \in DOMAIN ahead : Arranged(list, ahead)[Cardinality(ahead[i]) + 1] = list[i]
<1> DEFINE S == DOMAIN ahead
           n == Cardinality(S)
           at(k) == CHOOSE i \in S : Cardinality(ahead[i]) = k - 1
           a == Arranged(list, ahead)
<1>1. n \in Nat
  BY Ranks
<1>2. ASSUME NEW k \in 1..n PROVE at(k) \in S /\ Cardinality(ahead[at(k)]) = k - 1
  BY Ranks
<1>3. ASSUME NEW i \in S
      PROVE  Cardinality(ahead[i]) + 1 \in 1..n /\ at(Cardinality(ahead[i]) + 1) = i
  <2> DEFINE k == Cardinality(ahead[i]) + 1
  <2>1. k \in 1..n
    BY Ranks
  <2>2. at(k) \in S /\ Cardinality(ahead[at(k)]) = k - 1
    BY <1>2, <2>1
  <2>3. Cardinality(ahead[i]) \in Nat
    <3>1. IsFiniteSet(ahead[i])
      BY FS_Subset DEF Orders
    <3> QED
      BY <3>1, FS_CardinalityType
  <2>4. Cardinality(ahead[at(k)]) = Cardinality(ahead[i])
    BY <2>2, <2>3
  <2> HIDE DEF at
  <2> QED
    BY <2>1, <2>2, <2>4, Ranks
<1>4. a = [k \in 1..n |-> list[at(k)]]
  BY DEF Arranged
<1> HIDE DEF at, a, n
<1>5. a \in Seq(E) /\ Len(a) = n /\ DOMAIN a = 1..n
  BY <1>1, <1>2, <1>4
<1>6. \A k \in 1..n : a[k] = list[at(k)]
  BY <1>4
<1>7. \A i \in S : a[Cardinality(ahead[i]) + 1] = list[i]
  BY <1>3, <1>6
<1>8. ToSet(a) = {list[i] : i \in S}
  <2>1. ToSet(a) = {a[k] : k \in 1..n}
    BY <1>5 DEF ToSet
  <2> QED
    BY <1>2, <1>3, <1>6, <1>7, <2>1
<1>9. \A k \in 1..n : \E i \in S : Cardinality(ahead[i]) = k - 1 /\ a[k] = list[i]
  BY <1>2, <1>6
<1> QED
  BY <1>1, <1>5, <1>7, <1>8, <1>9 DEF a, n

LEMMA FilterOrders ==
  ASSUME NEW n \in Nat, NEW kept \in SUBSET (1..n)
  PROVE  Orders([i \in kept |-> {j \in kept : j < i}])
<1> DEFINE ahead == [i \in kept |-> {j \in kept : j < i}]
<1>1. IsFiniteSet(1..n)
  BY FS_Interval
<1>2. IsFiniteSet(kept)
  BY <1>1, FS_Subset
<1>3. DOMAIN ahead = kept /\ \A i \in kept : ahead[i] = {j \in kept : j < i}
  OBVIOUS
<1>4. \A i \in kept : i \in Nat
  OBVIOUS
<1> HIDE DEF ahead
<1>5. \A i, j \in kept : i \in ahead[j] <=> i < j
  BY <1>3
<1>6. \A i \in kept : ahead[i] \subseteq kept
  BY <1>3
<1>7. \A i, j \in kept : i = j \/ i \in ahead[j] \/ j \in ahead[i]
  BY <1>4, <1>5
<1>8. ASSUME NEW i \in kept, NEW j \in kept, i \in ahead[j], NEW h \in ahead[i]
      PROVE  h \in ahead[j]
  <2>1. h \in kept /\ h < i /\ i < j
    BY <1>5, <1>6, <1>8
  <2>2. h \in Nat /\ i \in Nat /\ j \in Nat
    BY <1>4, <2>1
  <2>3. h < j
    BY ONLY <2>1, <2>2
  <2> QED
    BY <1>5, <2>1, <2>3
<1>9. ASSUME NEW i \in kept PROVE i \notin ahead[i]
  <2>1. ~(i < i)
    BY <1>4
  <2> QED
    BY <1>5, <2>1
<1>10. Orders(ahead)
  BY <1>2, <1>3, <1>6, <1>7, <1>8, <1>9 DEF Orders
<1> QED
  BY <1>10 DEF ahead

\* filter keeps just the elements it is to keep.
LEMMA Filtering ==
  ASSUME NEW E, NEW s \in Seq(E), NEW kept \in SUBSET DOMAIN s
  PROVE  Filtered(s, kept) \in Seq(E) /\ ToSet(Filtered(s, kept)) = {s[i] : i \in kept}
<1> DEFINE ahead == [i \in kept |-> {j \in kept : j < i}]
<1>1. Len(s) \in Nat /\ kept \in SUBSET (1..Len(s))
  OBVIOUS
<1>2. Orders(ahead)
  BY <1>1, FilterOrders
<1>3. DOMAIN ahead = kept /\ \A i \in kept : s[i] \in E
  OBVIOUS
<1> HIDE DEF ahead
<1>4. Arranged(s, ahead) \in Seq(E) /\ ToSet(Arranged(s, ahead)) = {s[i] : i \in kept}
  BY <1>2, <1>3, Arranging
<1> QED
  BY <1>4 DEF Filtered, ahead

\* splice takes one element out.
LEMMA Removing ==
  ASSUME NEW E, NEW s \in Seq(E), NEW i \in 1..Len(s)
  PROVE  /\ RemoveAt(s, i) \in Seq(E) /\ Len(RemoveAt(s, i)) = Len(s) - 1
         /\ DOMAIN RemoveAt(s, i) = 1..(Len(s) - 1)
         /\ \A j \in 1..(Len(s) - 1) : RemoveAt(s, i)[j] = IF j < i THEN s[j] ELSE s[j + 1]
<1> DEFINE before == SubSeq(s, 1, i - 1)
           after == SubSeq(s, i + 1, Len(s))
           n == Len(s)
<1>1. n \in Nat /\ i \in 1..n
  OBVIOUS
<1>2. /\ before \in Seq(E) /\ Len(before) = i - 1
      /\ \A j \in 1..(i - 1) : before[j] = s[j]
  OBVIOUS
<1>3. /\ after \in Seq(E) /\ Len(after) = n - i
      /\ \A j \in 1..(n - i) : after[j] = s[i + j]
  OBVIOUS
<1>4. RemoveAt(s, i) = before \o after
  BY DEF RemoveAt
<1> HIDE DEF before, after
<1>5. /\ before \o after \in Seq(E) /\ Len(before \o after) = n - 1
      /\ \A j \in 1..(n - 1) :
           (before \o after)[j] = IF j < i THEN before[j] ELSE after[j - (i - 1)]
  <2>1. Len(before) + Len(after) = n - 1
    BY <1>1, <1>2, <1>3
  <2>2. /\ before \o after \in Seq(E) /\ Len(before \o after) = Len(before) + Len(after)
        /\ \A j \in 1..(Len(before) + Len(after)) :
             (before \o after)[j] =
               IF j <= Len(before) THEN before[j] ELSE after[j - Len(before)]
    BY <1>2, <1>3, ConcatProperties, Zenon
  <2>3. \A j \in 1..(n - 1) : j <= i - 1 <=> j < i
    BY <1>1
  <2> QED
    BY <1>2, <2>1, <2>2, <2>3
<1>6. \A j \in 1..(n - 1) : (before \o after)[j] = IF j < i THEN s[j] ELSE s[j + 1]
  <2> SUFFICES ASSUME NEW j \in 1..(n - 1)
               PROVE  (before \o after)[j] = IF j < i THEN s[j] ELSE s[j + 1]
    OBVIOUS
  <2>1. CASE j < i
    BY <1>1, <1>2, <1>5, <2>1
  <2>2. CASE j >= i
    <3>1. j - (i - 1) \in 1..(n - i) /\ i + (j - (i - 1)) = j + 1
      BY <1>1, <2>2
    <3> QED
      BY <1>1, <1>3, <1>5, <2>2, <3>1
  <2>3. j < i \/ j >= i
    BY <1>1
  <2> QED
    BY <2>1, <2>2, <2>3
<1>7. DOMAIN (before \o after) = 1..(n - 1)
  BY <1>1, <1>5, LenProperties
<1> QED
  BY <1>4, <1>5, <1>6, <1>7

\* A list without repetitions is as long as the set of its elements is large.
LEMMA DistinctCount ==
  ASSUME NEW E, NEW s \in Seq(E), \A i, j \in 1..Len(s) : s[i] = s[j] => i = j
  PROVE  Len(s) = Cardinality(ToSet(s))
<1>1. Len(s) \in Nat /\ ToSet(s) = {s[i] : i \in 1..Len(s)}
  BY DEF ToSet
<1>2. s \in [1..Len(s) -> ToSet(s)]
  BY <1>1
<1>3. s \in Bijection(1..Len(s), ToSet(s))
  BY <1>1, <1>2 DEF Bijection, Injection, Surjection, IsInjective
<1>4. ExistsBijection(1..Len(s), ToSet(s))
  BY <1>3 DEF ExistsBijection
<1> QED
  BY <1>1, <1>4, FS_CountingElements

\* FlattenSeq puts one list after the other.
Flattened(f, pieces, n) ==
  /\ f = [i \in 1..n |-> f[i]] /\ f[1] = pieces[1]
  /\ \A i \in 2..n : f[i] = f[i - 1] \o pieces[i]

LEMMA Flattening ==
  ASSUME NEW E, NEW n \in Nat \ {0}, NEW s, s = [i \in 1..n |-> s[i]],
         \A i \in 1..n : s[i] \in Seq(E)
  PROVE  \E f : Flattened(f, s, n) /\ FlattenSeq(s) = f[n]
<1> DEFINE step == [i \in Nat |-> [x \in Seq(E) |->
                     IF i = 1 THEN s[1] ELSE IF i \in 2..n THEN x \o s[i] ELSE x]]
           Flat(f) == f = [i \in 1..n |-> IF i = 1 THEN s[i] ELSE f[i - 1] \o s[i]]
<1>1. <<>> \in Seq(E) /\ \A i \in Nat, x \in Seq(E) : step[i][x] \in Seq(E)
  <2>1. ASSUME NEW i \in 2..n, NEW x \in Seq(E) PROVE x \o s[i] \in Seq(E)
    <3>1. s[i] \in Seq(E)
      OBVIOUS
    <3> QED
      BY <3>1, ConcatProperties, Zenon
  <2>2. s[1] \in Seq(E) /\ <<>> \in Seq(E)
    OBVIOUS
  <2>3. \A i \in Nat, x \in Seq(E) :
          step[i][x] = IF i = 1 THEN s[1] ELSE IF i \in 2..n THEN x \o s[i] ELSE x
    BY Zenon
  <2> HIDE DEF step
  <2>4. ASSUME NEW i \in Nat, NEW x \in Seq(E) PROVE step[i][x] \in Seq(E)
    <3>1. i = 1 => step[i][x] = s[1]
      BY <2>3, Zenon
    <3>2. i # 1 /\ i \in 2..n => step[i][x] = x \o s[i]
      BY <2>3, Zenon
    <3>3. i # 1 /\ i \notin 2..n => step[i][x] = x
      BY <2>3, Zenon
    <3> QED
      BY <2>1, <2>2, <3>1, <3>2, <3>3, Zenon
  <2> QED
    BY <2>2, <2>4, Zenon
<1> HIDE DEF step
<1>2. PICK g : Along(g, Seq(E), <<>>, step, n)
  BY <1>1, Recursion
<1> DEFINE h == [i \in 1..n |-> g[i]]
<1>3. Flat(h)
  <2>1. \A i \in 1..n : g[i] = IF i = 1 THEN s[1] ELSE g[i - 1] \o s[i]
    <3> SUFFICES ASSUME NEW i \in 1..n
                 PROVE  g[i] = IF i = 1 THEN s[1] ELSE g[i - 1] \o s[i]
      OBVIOUS
    <3>1. i \in Nat /\ g[i] = step[i][g[i - 1]] /\ g[i - 1] \in Seq(E)
      BY <1>2 DEF Along
    <3>2. i # 1 => i \in 2..n
      OBVIOUS
    <3> QED
      BY <3>1, <3>2 DEF step
  <2>2. \A i \in 1..n : i # 1 => h[i - 1] = g[i - 1]
    OBVIOUS
  <2> QED
    BY <2>1, <2>2
<1>4. Len(s) = n
  OBVIOUS
<1> DEFINE F == CHOOSE f : Flat(f)
<1>5. FlattenSeq(s) = F[n]
  BY <1>4 DEF FlattenSeq
<1> HIDE DEF h
<1>6. Flat(F)
  BY <1>3
<1> HIDE DEF F
<1>7. Flattened(F, s, n)
  <2>1. \A i \in 1..n : F[i] = IF i = 1 THEN s[i] ELSE F[i - 1] \o s[i]
    BY <1>6
  <2>2. F = [i \in 1..n |-> F[i]]
    BY <1>6
  <2>3. 1 \in 1..n /\ \A i \in 2..n : i \in 1..n /\ i # 1
    OBVIOUS
  <2> QED
    BY <2>1, <2>2, <2>3 DEF Flattened
<1> QED
  BY <1>5, <1>7

Distinct(s) == \A i, j \in 1..Len(s) : s[i] = s[j] => i = j

LEMMA JoinDistinct ==
  ASSUME NEW E, NEW s \in Seq(E), NEW t \in Seq(E), Distinct(s), Distinct(t),
         ToSet(s) \cap ToSet(t) = {}
  PROVE  /\ s \o t \in Seq(E) /\ Distinct(s \o t)
         /\ ToSet(s \o t) = ToSet(s) \cup ToSet(t)
<1> DEFINE m == Len(s)
           n == Len(t)
           u == s \o t
<1>1. /\ u \in Seq(E) /\ Len(u) = m + n /\ m \in Nat /\ n \in Nat
      /\ \A i \in 1..(m + n) : u[i] = IF i <= m THEN s[i] ELSE t[i - m]
  BY ConcatProperties, LenProperties, Zenon
<1>2. /\ ToSet(s) = {s[i] : i \in 1..m} /\ ToSet(t) = {t[i] : i \in 1..n}
      /\ ToSet(u) = {u[i] : i \in 1..(m + n)}
  BY <1>1, LenProperties DEF ToSet
<1> HIDE DEF u, m, n
<1>3. \A i \in 1..m : i \in 1..(m + n) /\ u[i] = s[i]
  BY <1>1
<1>4. \A i \in 1..n : i + m \in 1..(m + n) /\ ~(i + m <= m) /\ (i + m) - m = i
  BY <1>1
<1>5. \A i \in 1..n : u[i + m] = t[i]
  BY <1>1, <1>4
<1>6. \A i \in 1..(m + n) : i \in 1..m \/ (i - m \in 1..n /\ (i - m) + m = i)
  BY <1>1
<1>7. ToSet(u) = ToSet(s) \cup ToSet(t)
  <2>1. \A x \in ToSet(u) : x \in ToSet(s) \/ x \in ToSet(t)
    <3> SUFFICES ASSUME NEW i \in 1..(m + n) PROVE u[i] \in ToSet(s) \/ u[i] \in ToSet(t)
      BY <1>2
    <3>1. CASE i \in 1..m
      BY <1>2, <1>3, <3>1
    <3>2. CASE i - m \in 1..n /\ (i - m) + m = i
      BY <1>2, <1>5, <3>2
    <3> QED
      BY <1>6, <3>1, <3>2
  <2>2. ToSet(s) \subseteq ToSet(u) /\ ToSet(t) \subseteq ToSet(u)
    BY <1>2, <1>3, <1>4, <1>5
  <2> QED
    BY <2>1, <2>2
<1>8. ASSUME NEW i \in 1..(m + n), NEW j \in 1..(m + n), u[i] = u[j] PROVE i = j
  <2>1. CASE i \in 1..m /\ j \in 1..m
    BY <1>3, <1>8, <2>1 DEF Distinct, m
  <2>2. CASE i - m \in 1..n /\ (i - m) + m = i /\ j - m \in 1..n /\ (j - m) + m = j
    <3>1. t[i - m] = t[j - m]
      BY <1>5, <1>8, <2>2
    <3>2. i - m = j - m
      BY <2>2, <3>1 DEF Distinct, n
    <3> QED
      BY <2>2, <3>2
  <2>3. CASE i \in 1..m /\ j - m \in 1..n /\ (j - m) + m = j
    <3>1. u[i] \in ToSet(s) /\ u[j] \in ToSet(t)
      BY <1>2, <1>3, <1>5, <2>3
    <3> QED
      BY <1>8, <3>1
  <2>4. CASE j \in 1..m /\ i - m \in 1..n /\ (i - m) + m = i
    <3>1. u[j] \in ToSet(s) /\ u[i] \in ToSet(t)
      BY <1>2, <1>3, <1>5, <2>4
    <3> QED
      BY <1>8, <3>1
  <2> QED
    BY <1>6, <2>1, <2>2, <2>3, <2>4
<1> QED
  BY <1>1, <1>7, <1>8 DEF Distinct, u

\* Lists that have nothing twice and nothing in common make one that has nothing twice.
MadeOf(list, pieces, n) == \A x : x \in ToSet(list) <=> \E i \in 1..n : x \in ToSet(pieces[i])

LEMMA FlattenDistinct ==
  ASSUME NEW E, NEW n \in Nat \ {0}, NEW s, s = [i \in 1..n |-> s[i]],
         \A i \in 1..n : s[i] \in Seq(E) /\ Distinct(s[i]),
         \A i, j \in 1..n : i # j => ToSet(s[i]) \cap ToSet(s[j]) = {}
  PROVE  /\ FlattenSeq(s) \in Seq(E) /\ Distinct(FlattenSeq(s))
         /\ MadeOf(FlattenSeq(s), s, n)
<1>1. PICK f : Flattened(f, s, n) /\ FlattenSeq(s) = f[n]
  BY Flattening
<1> DEFINE Good(k) == /\ f[k] \in Seq(E) /\ Distinct(f[k]) /\ MadeOf(f[k], s, k)
           T == {k \in Nat : k + 1 <= n => Good(k + 1)}
<1>2. 0 \in T
  <2>1. f[1] = s[1] /\ 1 \in 1..n /\ 1..1 = {1}
    BY <1>1 DEF Flattened
  <2> QED
    BY <2>1 DEF MadeOf
<1>3. ASSUME NEW k \in Nat, k \in T PROVE k + 1 \in T
  <2> SUFFICES ASSUME k + 2 <= n PROVE Good(k + 2)
    OBVIOUS
  <2>1. /\ k + 2 \in 1..n /\ k + 2 \in 2..n /\ (k + 2) - 1 = k + 1 /\ k + 1 <= n
        /\ 1..(k + 2) = (1..(k + 1)) \cup {k + 2} /\ 1..(k + 1) \subseteq 1..n
        /\ k + 2 \notin 1..(k + 1)
    OBVIOUS
  <2>2. f[k + 2] = f[k + 1] \o s[k + 2]
    BY <1>1, <2>1 DEF Flattened
  <2>3. Good(k + 1)
    BY <1>3, <2>1
  <2>4. ToSet(f[k + 1]) \cap ToSet(s[k + 2]) = {}
    <3>1. \A i \in 1..(k + 1) : i \in 1..n /\ i # k + 2
      BY <2>1
    <3>2. \A i \in 1..(k + 1) : ToSet(s[i]) \cap ToSet(s[k + 2]) = {}
      BY <2>1, <3>1, Zenon
    <3> QED
      BY <2>3, <3>2 DEF MadeOf
  <2>5. /\ f[k + 2] \in Seq(E) /\ Distinct(f[k + 2])
        /\ ToSet(f[k + 2]) = ToSet(f[k + 1]) \cup ToSet(s[k + 2])
    <3>1. /\ f[k + 1] \in Seq(E) /\ Distinct(f[k + 1])
          /\ s[k + 2] \in Seq(E) /\ Distinct(s[k + 2])
      BY <2>1, <2>3
    <3> QED
      BY <2>2, <2>4, <3>1, JoinDistinct
  <2>6. MadeOf(f[k + 2], s, k + 2)
    <3>1. \A i : i \in 1..(k + 2) <=> i \in 1..(k + 1) \/ i = k + 2
      BY <2>1
    <3> QED
      BY <2>3, <2>5, <3>1, Zenon DEF MadeOf
  <2> QED
    BY <2>5, <2>6
<1> HIDE DEF T
<1>4. n - 1 \in Nat /\ n - 1 \in T /\ (n - 1) + 1 = n
  BY <1>2, <1>3, Induct
<1>5. Good(n)
  BY <1>4 DEF T
<1> QED
  BY <1>1, <1>5

-----------------------------------------------------------------------------
(* IndexService                                                              *)

IndexEntries == [cid : IndexCids, meta : Metas]
LookupInv ==
  /\ DOMAIN byCid \subseteq IndexCids /\ byCid = [c \in DOMAIN byCid |-> byCid[c]]
  /\ \A c \in DOMAIN byCid : byCid[c] \in IndexEntries /\ byCid[c].cid = c
\* The entries of a list are those found by their cid, each has the list's key and a cid
\* of its own; what has a key and is found by its cid is in the list.
ListInv(k) ==
  /\ lists[k] \in Seq(IndexEntries)
  /\ \A i \in 1..Len(lists[k]) :
       LET e == lists[k][i]
       IN e.cid \in DOMAIN byCid /\ byCid[e.cid] = e /\ k \in Keys(e.meta)
  /\ \A i, j \in 1..Len(lists[k]) : lists[k][i].cid = lists[k][j].cid => i = j
  /\ \A c \in DOMAIN byCid :
       k \in Keys(byCid[c].meta) => \E i \in 1..Len(lists[k]) : lists[k][i].cid = c
IndexInv ==
  /\ LookupInv /\ lists = [k \in AllKeys |-> lists[k]] /\ \A k \in AllKeys : ListInv(k)

LEMMA IndexStarts == IndexInit => IndexInv
<1> SUFFICES ASSUME IndexInit PROVE IndexInv
  OBVIOUS
<1>1. byCid = <<>> /\ DOMAIN byCid = {} /\ lists = [k \in AllKeys |-> <<>>]
  BY DEF IndexInit
<1>2. byCid = [c \in DOMAIN byCid |-> byCid[c]]
  BY <1>1
<1>3. LookupInv
  BY <1>1, <1>2 DEF LookupInv
<1>4. ASSUME NEW k \in AllKeys PROVE ListInv(k)
  BY <1>1 DEF ListInv
<1> QED
  BY <1>1, <1>3, <1>4 DEF IndexInv

LEMMA IndexBlobKeeps ==
  ASSUME IndexInv, NEW c \in IndexCids, NEW m \in Metas, IndexBlob(c, m)
  PROVE  IndexInv'
<1> DEFINE e == [cid |-> c, meta |-> m]
<1>1. /\ c \notin DOMAIN byCid
      /\ lists' = [k \in AllKeys |-> IF k \in Keys(m) THEN Append(lists[k], e) ELSE lists[k]]
      /\ byCid' = [d \in DOMAIN byCid \cup {c} |-> IF d = c THEN e ELSE byCid[d]]
  BY DEF IndexBlob
<1>2. e \in IndexEntries /\ e.cid = c /\ e.meta = m
  BY DEF IndexEntries
<1> HIDE DEF e
<1>3. LookupInv /\ \A k \in AllKeys : ListInv(k)
  BY DEF IndexInv
<1>4. LookupInv'
  BY <1>1, <1>2, <1>3 DEF LookupInv
<1>5. /\ DOMAIN byCid' = DOMAIN byCid \cup {c} /\ byCid'[c] = e
      /\ \A d \in DOMAIN byCid : byCid'[d] = byCid[d]
  BY <1>1
<1>6. ASSUME NEW k \in AllKeys PROVE ListInv(k)'
  <2> DEFINE s == lists[k]
             t == lists'[k]
  <2>1. /\ s \in Seq(IndexEntries) /\ Len(s) \in Nat
        /\ \A i \in 1..Len(s) :
             s[i].cid \in DOMAIN byCid /\ byCid[s[i].cid] = s[i] /\ k \in Keys(s[i].meta)
        /\ \A i, j \in 1..Len(s) : s[i].cid = s[j].cid => i = j
        /\ \A d \in DOMAIN byCid :
             k \in Keys(byCid[d].meta) => \E i \in 1..Len(s) : s[i].cid = d
    BY SMTT(30), <1>3 DEF ListInv
  <2>2. CASE k \notin Keys(m)
    <3>1. t = s
      BY <1>1, <2>2
    <3> QED
      BY <1>1, <1>2, <1>5, <2>1, <2>2, <3>1 DEF ListInv
  <2>3. CASE k \in Keys(m)
    <3>1. t = Append(s, e)
      BY <1>1, <2>3
    <3> HIDE DEF s
    <3>2. /\ t \in Seq(IndexEntries) /\ Len(t) = Len(s) + 1 /\ t[Len(s) + 1] = e
          /\ \A i \in 1..Len(s) : t[i] = s[i]
      BY <1>2, <2>1, <3>1
    <3> HIDE DEF t
    <3>3. \A i \in 1..Len(t) : i \in 1..Len(s) \/ i = Len(s) + 1
      BY <2>1, <3>2
    <3>4. \A i \in 1..Len(t) :
            t[i].cid \in DOMAIN byCid' /\ byCid'[t[i].cid] = t[i] /\ k \in Keys(t[i].meta)
      BY <1>1, <1>2, <1>5, <2>1, <2>3, <3>2, <3>3
    <3>5. \A i, j \in 1..Len(t) : t[i].cid = t[j].cid => i = j
      BY <1>1, <1>2, <2>1, <3>2, <3>3
    <3>6. 1..Len(s) \subseteq 1..Len(t) /\ Len(s) + 1 \in 1..Len(t)
      BY <2>1, <3>2
    <3>7. \A d \in DOMAIN byCid' :
            k \in Keys(byCid'[d].meta) => \E i \in 1..Len(t) : t[i].cid = d
      BY <1>2, <1>5, <2>1, <3>2, <3>6
    <3> QED
      BY <3>2, <3>4, <3>5, <3>7 DEF ListInv, t
  <2> QED
    BY <2>2, <2>3
<1>7. lists' = [k \in AllKeys |-> lists'[k]]
  BY <1>1
<1> QED
  BY <1>4, <1>6, <1>7 DEF IndexInv

\* The entry of a cid that is removed is in each of the lists of its keys.
LEMMA WithoutOne ==
  ASSUME NEW k \in AllKeys, IndexInv, NEW c \in DOMAIN byCid, k \in Keys(byCid[c].meta)
  PROVE  \E i \in 1..Len(lists[k]) :
           lists[k][i].cid = c /\ Without(lists[k], c) = RemoveAt(lists[k], i)
<1> DEFINE s == lists[k]
           at == {i \in DOMAIN s : s[i].cid = c}
<1>1. ListInv(k)
  BY DEF IndexInv
<1>2. /\ s \in Seq(IndexEntries) /\ DOMAIN s = 1..Len(s)
      /\ \A i, j \in 1..Len(s) : s[i].cid = s[j].cid => i = j
      /\ \E i \in 1..Len(s) : s[i].cid = c
  BY <1>1 DEF ListInv
<1>3. PICK i \in 1..Len(s) : s[i].cid = c
  BY <1>2
<1>4. at = {i}
  BY <1>2, <1>3
<1>5. i <= i
  OBVIOUS
<1> HIDE DEF at
<1>6. (CHOOSE x \in at : \A j \in at : x <= j) = i
  BY <1>4, <1>5
<1>7. Without(s, c) = RemoveAt(s, i)
  BY <1>4, <1>6 DEF Without, at
<1> QED
  BY <1>3, <1>7

LEMMA RemoveFromIndexKeeps ==
  ASSUME IndexInv, NEW c \in IndexCids, RemoveFromIndex(c)
  PROVE  IndexInv'
<1>1. /\ c \in DOMAIN byCid
      /\ lists' = [k \in AllKeys |->
           IF k \in Keys(byCid[c].meta) THEN Without(lists[k], c) ELSE lists[k]]
      /\ byCid' = [d \in DOMAIN byCid \ {c} |-> byCid[d]]
  BY DEF RemoveFromIndex, KeysOf
<1>2. LookupInv /\ \A k \in AllKeys : ListInv(k)
  BY DEF IndexInv
<1>3. LookupInv'
  BY <1>1, <1>2 DEF LookupInv
<1>4. /\ DOMAIN byCid' = DOMAIN byCid \ {c}
      /\ \A d \in DOMAIN byCid' : byCid'[d] = byCid[d]
  BY <1>1
<1>5. ASSUME NEW k \in AllKeys PROVE ListInv(k)'
  <2> DEFINE s == lists[k]
             t == lists'[k]
  <2>1. /\ s \in Seq(IndexEntries) /\ Len(s) \in Nat
        /\ \A i \in 1..Len(s) :
             s[i].cid \in DOMAIN byCid /\ byCid[s[i].cid] = s[i] /\ k \in Keys(s[i].meta)
        /\ \A i, j \in 1..Len(s) : s[i].cid = s[j].cid => i = j
        /\ \A d \in DOMAIN byCid :
             k \in Keys(byCid[d].meta) => \E i \in 1..Len(s) : s[i].cid = d
    BY SMTT(30), <1>2 DEF ListInv
  <2>2. CASE k \notin Keys(byCid[c].meta)
    <3>1. t = s
      BY <1>1, <2>2
    <3>2. \A i \in 1..Len(s) : s[i].cid # c
      BY <2>1, <2>2
    <3> QED
      BY <1>4, <2>1, <3>1, <3>2 DEF ListInv
  <2>3. CASE k \in Keys(byCid[c].meta)
    <3>1. PICK x \in 1..Len(s) : s[x].cid = c /\ t = RemoveAt(s, x)
      BY <1>1, <2>3, WithoutOne
    <3> HIDE DEF s
    <3>2. /\ t \in Seq(IndexEntries) /\ Len(t) = Len(s) - 1
          /\ \A j \in 1..(Len(s) - 1) : t[j] = IF j < x THEN s[j] ELSE s[j + 1]
      BY <2>1, <3>1, Removing
    <3> HIDE DEF t
    <3> DEFINE back(j) == IF j < x THEN j ELSE j + 1
    <3>3. \A j \in 1..Len(t) :
            back(j) \in 1..Len(s) /\ back(j) # x /\ t[j] = s[back(j)]
      BY <2>1, <3>1, <3>2
    <3>4. \A i, j \in 1..Len(t) : back(i) = back(j) => i = j
      BY <2>1, <3>1, <3>2
    <3>5. \A i \in 1..Len(s) : i # x => \E j \in 1..Len(t) : back(j) = i
      <4> SUFFICES ASSUME NEW i \in 1..Len(s), i # x PROVE \E j \in 1..Len(t) : back(j) = i
        OBVIOUS
      <4> DEFINE j == IF i < x THEN i ELSE i - 1
      <4>1. j \in 1..Len(t) /\ back(j) = i
        BY <2>1, <3>1, <3>2
      <4> QED
        BY <4>1
    <3> HIDE DEF back
    <3>6. \A j \in 1..Len(t) : t[j].cid # c
      BY <2>1, <3>1, <3>3
    <3>7. \A j \in 1..Len(t) :
            t[j].cid \in DOMAIN byCid' /\ byCid'[t[j].cid] = t[j] /\ k \in Keys(t[j].meta)
      BY <1>4, <2>1, <3>3, <3>6
    <3>8. \A i, j \in 1..Len(t) : t[i].cid = t[j].cid => i = j
      BY SMTT(30), <2>1, <3>3, <3>4
    <3>9. \A d \in DOMAIN byCid' :
            k \in Keys(byCid'[d].meta) => \E j \in 1..Len(t) : t[j].cid = d
      <4> SUFFICES ASSUME NEW d \in DOMAIN byCid', k \in Keys(byCid'[d].meta)
                   PROVE  \E j \in 1..Len(t) : t[j].cid = d
        OBVIOUS
      <4>1. d \in DOMAIN byCid /\ d # c /\ k \in Keys(byCid[d].meta)
        BY <1>4
      <4>2. PICK i \in 1..Len(s) : s[i].cid = d
        BY <2>1, <4>1
      <4>3. PICK j \in 1..Len(t) : back(j) = i
        BY <3>1, <3>5, <4>1, <4>2
      <4> QED
        BY <3>3, <4>2, <4>3
    <3> QED
      BY <3>2, <3>7, <3>8, <3>9 DEF ListInv, t
  <2> QED
    BY <2>2, <2>3
<1>6. lists' = [k \in AllKeys |-> lists'[k]]
  BY <1>1
<1> QED
  BY <1>3, <1>5, <1>6 DEF IndexInv

LEMMA IndexStepKeeps == IndexInv /\ [IndexNext]_indexVars => IndexInv'
<1> SUFFICES ASSUME IndexInv, [IndexNext]_indexVars PROVE IndexInv'
  OBVIOUS
<1>1. ASSUME UNCHANGED <<lists, byCid>> PROVE IndexInv'
  BY <1>1 DEF IndexInv, LookupInv, ListInv
<1>2. CASE \E q \in Queries : StartWalk(q)
  BY <1>1, <1>2 DEF StartWalk
<1>3. CASE NextPage \/ EndWalk \/ UNCHANGED indexVars
  BY <1>1, <1>3 DEF NextPage, EndWalk, indexVars
<1> QED
  BY <1>2, <1>3, IndexBlobKeeps, RemoveFromIndexKeeps DEF IndexNext

LEMMA IndexInvAgrees == IndexInv => IndexesAgree
<1> SUFFICES ASSUME IndexInv, NEW k \in AllKeys
             PROVE  /\ ToSet(lists[k]) =
                         {byCid[c] : c \in {c \in DOMAIN byCid : k \in Keys(byCid[c].meta)}}
                    /\ Len(lists[k]) = Cardinality(ToSet(lists[k]))
  BY DEF IndexesAgree
<1>1. LookupInv /\ ListInv(k)
  BY DEF IndexInv
<1>2. lists[k] \in Seq(IndexEntries) /\ ToSet(lists[k]) = {lists[k][i] : i \in 1..Len(lists[k])}
  BY <1>1 DEF ListInv, ToSet
<1>3. Len(lists[k]) = Cardinality(ToSet(lists[k]))
  <2>1. \A i, j \in 1..Len(lists[k]) : lists[k][i] = lists[k][j] => i = j
    BY <1>1 DEF ListInv
  <2> QED
    BY <1>2, <2>1, DistinctCount
<1>4. \A i \in 1..Len(lists[k]) :
        \E c \in DOMAIN byCid : k \in Keys(byCid[c].meta) /\ lists[k][i] = byCid[c]
  BY <1>1 DEF ListInv
<1>5. \A c \in DOMAIN byCid :
        k \in Keys(byCid[c].meta) => \E i \in 1..Len(lists[k]) : lists[k][i] = byCid[c]
  BY <1>1 DEF ListInv
<1>6. ToSet(lists[k]) = {byCid[c] : c \in {c \in DOMAIN byCid : k \in Keys(byCid[c].meta)}}
  <2> DEFINE here == {lists[k][i] : i \in 1..Len(lists[k])}
             there == {byCid[c] : c \in {c \in DOMAIN byCid : k \in Keys(byCid[c].meta)}}
  <2>1. \A e \in here : e \in there
    BY <1>4
  <2>2. \A e \in there : e \in here
    BY <1>5
  <2>3. here = there
    BY <2>1, <2>2, Zenon
  <2> QED
    BY <1>2, <2>3
<1> QED
  BY <1>3, <1>6

\* For any cids and metadata: each list has just the entries of its key, once, as the
\* lookup by cid has them (indexBlob, removeFromIndex).
THEOREM IndexesStayAgreed == IndexSpec => []IndexesAgree
<1>1. IndexSpec => []IndexInv
  BY IndexStarts, IndexStepKeeps, PTL DEF IndexSpec
<1> QED
  BY <1>1, IndexInvAgrees, PTL

-----------------------------------------------------------------------------
(* The pages of a walk.                                                      *)

Shown(q) == {i \in 1..Len(lists[q.key]) : Kept(q, lists[q.key][i])}
Behind(q, i) == {j \in Shown(q) : j < i}
\* Where the i-th entry of the list comes among the chosen ones, and once sorted
ChosenAt(q, i) == Cardinality(Behind(q, i)) + 1
Sooner(q, list, i) == {j \in DOMAIN list : Before(q, list, j, i)}
PlaceOf(q, i) == Cardinality(Sooner(q, Chosen(q), ChosenAt(q, i))) + 1

LEMMA ChosenOnes ==
  ASSUME NEW q \in Queries, lists[q.key] \in Seq(IndexEntries)
  PROVE  LET s == lists[q.key]
             t == Chosen(q)
         IN /\ t \in Seq(IndexEntries) /\ Shown(q) \subseteq 1..Len(s)
            /\ \A i \in Shown(q) : ChosenAt(q, i) \in 1..Len(t) /\ t[ChosenAt(q, i)] = s[i]
            /\ \A i, j \in Shown(q) : i < j <=> ChosenAt(q, i) < ChosenAt(q, j)
            /\ \A k \in 1..Len(t) : \E i \in Shown(q) : ChosenAt(q, i) = k
            /\ CidsOf(t) = {s[i].cid : i \in Shown(q)}
<1> DEFINE s == lists[q.key]
           t == Chosen(q)
           ahead == [i \in Shown(q) |-> {j \in Shown(q) : j < i}]
<1>1. Len(s) \in Nat /\ DOMAIN s = 1..Len(s) /\ Shown(q) \in SUBSET (1..Len(s))
  BY DEF Shown
<1>2. Orders(ahead)
  BY <1>1, FilterOrders
<1>3. DOMAIN ahead = Shown(q) /\ \A i \in Shown(q) : ahead[i] = Behind(q, i) /\ s[i] \in IndexEntries
  BY <1>1 DEF Behind
<1>4. t = Arranged(s, ahead)
  BY <1>1 DEF Chosen, Filtered, Shown
<1>5. \A i, j \in Shown(q) : i \in ahead[j] <=> i < j
  OBVIOUS
<1> HIDE DEF ahead
<1>6. /\ t \in Seq(IndexEntries) /\ Len(t) = Cardinality(Shown(q))
      /\ ToSet(t) = {s[i] : i \in Shown(q)}
      /\ \A i \in Shown(q) : t[Cardinality(ahead[i]) + 1] = s[i]
  <2>1. \A i \in DOMAIN ahead : s[i] \in IndexEntries
    BY ONLY <1>3
  <2>2. /\ Arranged(s, ahead) \in Seq(IndexEntries)
        /\ Len(Arranged(s, ahead)) = Cardinality(DOMAIN ahead)
        /\ ToSet(Arranged(s, ahead)) = {s[i] : i \in DOMAIN ahead}
        /\ \A i \in DOMAIN ahead : Arranged(s, ahead)[Cardinality(ahead[i]) + 1] = s[i]
    BY <1>2, <2>1, Arranging
  <2> HIDE DEF t, s
  <2> QED
    BY ONLY <1>3, <1>4, <2>2
<1>7. /\ \A i \in Shown(q) : Cardinality(ahead[i]) + 1 \in 1..Cardinality(Shown(q))
      /\ \A i, j \in Shown(q) : i \in ahead[j] <=> Cardinality(ahead[i]) < Cardinality(ahead[j])
      /\ \A k \in 1..Cardinality(Shown(q)) : \E i \in Shown(q) : Cardinality(ahead[i]) = k - 1
      /\ Cardinality(Shown(q)) \in Nat
  BY <1>2, <1>3, Ranks
<1> HIDE DEF t, s
<1>8. \A i \in Shown(q) : ChosenAt(q, i) = Cardinality(ahead[i]) + 1
  BY <1>3 DEF ChosenAt
<1>9. \A i \in Shown(q) : ChosenAt(q, i) \in 1..Len(t) /\ t[ChosenAt(q, i)] = s[i]
  BY <1>6, <1>7, <1>8
<1>10. ASSUME NEW i \in Shown(q), NEW j \in Shown(q)
       PROVE  i < j <=> ChosenAt(q, i) < ChosenAt(q, j)
  <2> DEFINE a == Cardinality(ahead[i])
             b == Cardinality(ahead[j])
  <2>1. i < j <=> a < b
    BY <1>5, <1>7
  <2>2. ChosenAt(q, i) = a + 1 /\ ChosenAt(q, j) = b + 1 /\ a + 1 \in 1..Len(t) /\ b + 1 \in 1..Len(t)
    BY <1>6, <1>7, <1>8
  <2>3. a \in Int /\ b \in Int
    <3>1. IsFiniteSet(ahead[i]) /\ IsFiniteSet(ahead[j])
      BY <1>2, <1>3, FS_Subset DEF Orders
    <3> QED
      BY <3>1, FS_CardinalityType
  <2> HIDE DEF a, b
  <2> QED
    BY <2>1, <2>2, <2>3
<1>11. ASSUME NEW k \in 1..Len(t) PROVE \E i \in Shown(q) : ChosenAt(q, i) = k
  <2>1. PICK i \in Shown(q) : Cardinality(ahead[i]) = k - 1
    BY <1>6, <1>7
  <2>2. ChosenAt(q, i) = (k - 1) + 1 /\ k \in Int
    BY <1>8, <2>1
  <2> QED
    BY <2>2
<1>12. CidsOf(t) = {s[i].cid : i \in Shown(q)}
  <2>1. DOMAIN t = 1..Len(t)
    BY <1>6
  <2> QED
    BY <1>9, <1>11, <2>1 DEF CidsOf
<1> QED
  BY <1>1, <1>6, <1>9, <1>10, <1>11, <1>12 DEF t, s

\* The comparison of the sort puts the chosen entries in a row.
LEMMA QueryOrders ==
  ASSUME NEW q, NEW t \in Seq(IndexEntries)
  PROVE  Orders([i \in DOMAIN t |-> Sooner(q, t, i)])
<1> DEFINE D == DOMAIN t
           ahead == [i \in D |-> Sooner(q, t, i)]
           time(i) == t[i].meta.time
<1>1. IsFiniteSet(D) /\ D = 1..Len(t) /\ Len(t) \in Nat
  BY FS_Interval
<1>2. \A i \in D : i \in Nat /\ time(i) \in Nat
  <2>1. \A i \in D : t[i] \in IndexEntries
    OBVIOUS
  <2> QED
    BY <1>1, <2>1, IndexAssumption DEF IndexEntries
<1>3. DOMAIN ahead = D /\ \A i \in D : ahead[i] \subseteq D
  BY DEF Sooner
<1>4. \A i, j \in D : j \in ahead[i] <=>
        IF time(j) = time(i) THEN j < i
        ELSE IF q.only = "comments" THEN time(j) < time(i) ELSE time(j) > time(i)
  BY DEF Sooner, Before
<1> HIDE DEF ahead, D, time
<1>5. \A i \in D : i \notin ahead[i]
  BY <1>2, <1>4
<1>6. \A i, j \in D : i = j \/ i \in ahead[j] \/ j \in ahead[i]
  BY <1>2, <1>4
<1>7. ASSUME NEW i \in D, NEW j \in D, i \in ahead[j], NEW h \in ahead[i] PROVE h \in ahead[j]
  <2>1. h \in D
    BY <1>3, <1>7
  <2> QED
    BY <1>2, <1>4, <1>7, <2>1
<1>8. Orders(ahead)
  BY <1>1, <1>3, <1>5, <1>6, <1>7 DEF Orders
<1> QED
  BY <1>8 DEF ahead, D

\* A query gives each chosen entry one place, in the order of the comparison; that order
\* is one of the list itself.
LEMMA Places ==
  ASSUME NEW q \in Queries, lists[q.key] \in Seq(IndexEntries)
  PROVE  LET s == lists[q.key]
             l == Ordered(q)
         IN /\ l \in Seq(IndexEntries) /\ Len(l) \in Nat
            /\ \A i \in Shown(q) : PlaceOf(q, i) \in 1..Len(l) /\ l[PlaceOf(q, i)] = s[i]
            /\ \A i, j \in Shown(q) : PlaceOf(q, i) < PlaceOf(q, j) <=> Before(q, s, i, j)
            /\ \A k \in 1..Len(l) : \E i \in Shown(q) : PlaceOf(q, i) = k
<1> DEFINE s == lists[q.key]
           t == Chosen(q)
           l == Ordered(q)
           at(i) == ChosenAt(q, i)
           ahead == [i \in DOMAIN t |-> Sooner(q, t, i)]
<1>1. /\ t \in Seq(IndexEntries) /\ Shown(q) \subseteq 1..Len(s)
      /\ \A i \in Shown(q) : at(i) \in 1..Len(t) /\ t[at(i)] = s[i]
      /\ \A i, j \in Shown(q) : i < j <=> at(i) < at(j)
      /\ \A k \in 1..Len(t) : \E i \in Shown(q) : at(i) = k
  BY ChosenOnes
<1>2. DOMAIN t = 1..Len(t) /\ Len(t) \in Nat /\ \A k \in 1..Len(t) : t[k] \in IndexEntries
  BY <1>1
<1>3. Orders(ahead)
  BY <1>1, QueryOrders
<1>4. l = Arranged(t, ahead)
  BY DEF Ordered, Sooner
<1>5. DOMAIN ahead = 1..Len(t) /\ \A k \in 1..Len(t) : ahead[k] = Sooner(q, t, k)
  BY <1>2
<1> HIDE DEF ahead
<1>6. /\ l \in Seq(IndexEntries) /\ Len(l) = Cardinality(1..Len(t))
      /\ \A k \in 1..Len(t) : l[Cardinality(ahead[k]) + 1] = t[k]
  BY <1>2, <1>3, <1>4, <1>5, Arranging
<1>7. /\ \A k \in 1..Len(t) : Cardinality(ahead[k]) + 1 \in 1..Cardinality(1..Len(t))
      /\ \A h, k \in 1..Len(t) : h \in ahead[k] <=> Cardinality(ahead[h]) < Cardinality(ahead[k])
      /\ \A n \in 1..Cardinality(1..Len(t)) : \E k \in 1..Len(t) : Cardinality(ahead[k]) = n - 1
  BY <1>3, <1>5, Ranks
<1>8. Len(l) = Len(t) /\ Cardinality(1..Len(t)) = Len(t)
  <2>1. Cardinality(1..Len(t)) = Len(t)
    <3>1. 1 \in Int /\ Len(t) \in Int
      BY <1>2
    <3>2. Cardinality(1..Len(t)) = IF 1 > Len(t) THEN 0 ELSE (Len(t) - 1) + 1
      BY ONLY <3>1, FS_Interval
    <3> QED
      BY <1>2, <3>2
  <2> QED
    BY <1>6, <2>1
<1> HIDE DEF t, s, l, at
<1>9. \A i \in Shown(q) : PlaceOf(q, i) = Cardinality(ahead[at(i)]) + 1
  BY <1>1, <1>5 DEF PlaceOf, at, t
<1>10. ASSUME NEW i \in Shown(q)
       PROVE  PlaceOf(q, i) \in 1..Len(l) /\ l[PlaceOf(q, i)] = s[i]
  <2>1. at(i) \in 1..Len(t) /\ t[at(i)] = s[i]
    BY <1>1
  <2>2. Cardinality(ahead[at(i)]) + 1 \in 1..Len(l) /\ l[Cardinality(ahead[at(i)]) + 1] = t[at(i)]
    BY <1>6, <1>7, <1>8, <2>1
  <2> QED
    BY <1>9, <2>1, <2>2
<1>11. ASSUME NEW i \in Shown(q), NEW j \in Shown(q)
       PROVE  PlaceOf(q, i) < PlaceOf(q, j) <=> Before(q, s, i, j)
  <2> DEFINE a == Cardinality(ahead[at(i)])
             b == Cardinality(ahead[at(j)])
  <2>1. at(i) \in 1..Len(t) /\ at(j) \in 1..Len(t)
    BY <1>1
  <2>2. at(i) \in ahead[at(j)] <=> a < b
    BY <1>7, <2>1
  <2>3. at(i) \in ahead[at(j)] <=> Before(q, t, at(i), at(j))
    BY <1>2, <1>5, <2>1 DEF Sooner
  <2>4. Before(q, t, at(i), at(j)) <=> Before(q, s, i, j)
    <3>1. t[at(i)] = s[i] /\ t[at(j)] = s[j] /\ (i < j <=> at(i) < at(j))
      BY <1>1
    <3> QED
      BY <3>1 DEF Before
  <2>5. PlaceOf(q, i) = a + 1 /\ PlaceOf(q, j) = b + 1
    BY <1>9
  <2>6. a \in Int /\ b \in Int
    <3>1. IsFiniteSet(ahead[at(i)]) /\ IsFiniteSet(ahead[at(j)])
      BY <1>3, <1>5, <2>1, FS_Subset DEF Orders
    <3> QED
      BY <3>1, FS_CardinalityType
  <2>7. a < b <=> a + 1 < b + 1
    <3> HIDE DEF a, b
    <3> QED
      BY <2>6
  <2> QED
    BY <2>2, <2>3, <2>4, <2>5, <2>7
<1>12. ASSUME NEW n \in 1..Len(l) PROVE \E i \in Shown(q) : PlaceOf(q, i) = n
  <2>1. PICK k \in 1..Len(t) : Cardinality(ahead[k]) = n - 1
    BY <1>6, <1>7
  <2>2. PICK i \in Shown(q) : at(i) = k
    BY <1>1
  <2>3. PlaceOf(q, i) = (n - 1) + 1 /\ n \in Int
    BY <1>9, <2>1, <2>2
  <2> QED
    BY <2>3
<1>13. Len(l) \in Nat
  BY <1>2, <1>8
<1> QED
  BY <1>6, <1>10, <1>11, <1>12, <1>13 DEF s, l

Once(list, c) == \E i \in 1..Len(list) : \A j \in 1..Len(list) : list[j] = c <=> j = i
Never(list, c) == \A j \in 1..Len(list) : list[j] # c

\* Every blob that has been in the list throughout is given if it does not come after the
\* blob under the cursor, once, and is not given yet otherwise.
ReaderInv ==
  LET q == walk.query
      s == lists[q.key]
      cids == walkers.there
  IN /\ \A c \in cids : \E i \in Shown(q) : s[i].cid = c
     /\ walk.done => walk.cursor = NoCursor /\ \A c \in cids : Once(walk.given, c)
     /\ ~walk.done /\ walk.cursor = NoCursor => walk.given = <<>>
     /\ ~walk.done /\ walk.cursor # NoCursor =>
          /\ \E i \in Shown(q) : s[i].cid = walk.cursor
          /\ \A i, j \in Shown(q) : s[i].cid \in cids /\ s[j].cid = walk.cursor =>
               IF Before(q, s, j, i) THEN Never(walk.given, s[i].cid)
               ELSE Once(walk.given, s[i].cid)

Walks == [query : Queries, cursor : IndexCids \cup {NoCursor},
          given : Seq(IndexCids), done : BOOLEAN]
WalkInv ==
  walk # NoWalk => walk \in Walks /\ (~walkers.lost => ReaderInv)

LEMMA QueryKeys == \A q \in Queries : q.key \in AllKeys
  BY DEF Queries, AllKeys, Keys

LEMMA WalkStarts ==
  ASSUME IndexInv, NEW q \in Queries, StartWalk(q)
  PROVE  WalkInv'
<1> DEFINE w == [query |-> q, cursor |-> NoCursor, given |-> <<>>, done |-> FALSE]
           s == lists[q.key]
<1>1. walk' = w /\ walkers' = [there |-> CidsOf(Chosen(q)), lost |-> FALSE] /\ lists' = lists
  BY DEF StartWalk
<1>2. w \in Walks
  <2>1. <<>> \in Seq(IndexCids)
    OBVIOUS
  <2> QED
    BY <2>1 DEF Walks
<1>3. CidsOf(Chosen(q)) = {s[i].cid : i \in Shown(q)}
  <2>1. s \in Seq(IndexEntries)
    BY QueryKeys DEF IndexInv, ListInv
  <2> QED
    BY <2>1, ChosenOnes
<1>4. walkers'.there = {s[i].cid : i \in Shown(q)}
  BY <1>1, <1>3
<1>5. w.query = q /\ w.cursor = NoCursor /\ w.given = <<>> /\ ~w.done
  OBVIOUS
<1> HIDE DEF w
<1>6. walk'.query = q /\ walk'.cursor = NoCursor /\ walk'.given = <<>> /\ ~walk'.done
  BY <1>1, <1>5
<1>7. \A c \in walkers'.there : \E i \in Shown(q) : s[i].cid = c
  BY <1>4
<1>8. Shown(q)' = Shown(q)
  BY <1>1 DEF Shown
<1>9. ReaderInv'
  BY <1>1, <1>6, <1>7, <1>8 DEF ReaderInv
<1> QED
  BY <1>1, <1>2, <1>9 DEF WalkInv

\* The entries of s whose cid is in W are those of t, in the same order.
Survives(W, s, t, back) ==
  /\ \A j \in 1..Len(t) : t[j].cid \in W => back[j] \in 1..Len(s) /\ t[j] = s[back[j]]
  /\ \A i, j \in 1..Len(t) : t[i].cid \in W /\ t[j].cid \in W => (i < j <=> back[i] < back[j])
  /\ \A i \in 1..Len(s) : s[i].cid \in W => \E j \in 1..Len(t) : t[j] = s[i]

\* What happens to a list between two pages leaves the reader in order.
LEMMA ListMoves ==
  ASSUME walk # NoWalk, walk \in Walks, ReaderInv, UNCHANGED walk,
         walkers'.there \subseteq walkers.there,
         NEW W, walkers'.there \subseteq W,
         ~walk.done /\ walk.cursor # NoCursor => walk.cursor \in W,
         NEW s, s = lists[walk.query.key], NEW t, t = lists'[walk.query.key],
         NEW back, Survives(W, s, t, back)
  PROVE  ReaderInv'
<1> DEFINE q == walk.query
<1> USE DEF Survives
<1>1. Shown(q)' = {i \in 1..Len(t) : Kept(q, t[i])} /\ Shown(q) = {i \in 1..Len(s) : Kept(q, s[i])}
  BY DEF Shown
<1>2. ASSUME NEW c \in W, \E i \in Shown(q) : s[i].cid = c
      PROVE  \E j \in Shown(q)' : t[j].cid = c
  <2>1. PICK i \in 1..Len(s) : Kept(q, s[i]) /\ s[i].cid = c
    BY <1>1, <1>2
  <2>2. PICK j \in 1..Len(t) : t[j] = s[i]
    BY <1>2, <2>1
  <2>3. j \in Shown(q)'
    BY <1>1, <2>1, <2>2
  <2> QED
    BY <2>1, <2>2, <2>3
<1>3. \A c \in walkers'.there : \E j \in Shown(q)' : t[j].cid = c
  BY <1>2 DEF ReaderInv
<1>4. walk.done => walk.cursor = NoCursor /\ \A c \in walkers'.there : Once(walk.given, c)
  BY DEF ReaderInv
<1>5. ~walk.done /\ walk.cursor = NoCursor => walk.given = <<>>
  BY DEF ReaderInv
<1>6. ~walk.done /\ walk.cursor # NoCursor => \E j \in Shown(q)' : t[j].cid = walk.cursor
  BY <1>2 DEF ReaderInv
<1>7. ASSUME ~walk.done, walk.cursor # NoCursor, NEW i \in Shown(q)', NEW j \in Shown(q)',
             t[i].cid \in walkers'.there, t[j].cid = walk.cursor
      PROVE  IF Before(q, t, j, i) THEN Never(walk.given, t[i].cid)
             ELSE Once(walk.given, t[i].cid)
  <2>1. /\ i \in 1..Len(t) /\ j \in 1..Len(t) /\ t[i].cid \in W /\ t[j].cid \in W
        /\ t[i] = s[back[i]] /\ t[j] = s[back[j]]
        /\ back[i] \in Shown(q) /\ back[j] \in Shown(q)
    BY <1>1, <1>7
  <2>2. j < i <=> back[j] < back[i]
    BY <2>1
  <2>3. Before(q, t, j, i) <=> Before(q, s, back[j], back[i])
    BY <2>1, <2>2 DEF Before
  <2>4. IF Before(q, s, back[j], back[i]) THEN Never(walk.given, s[back[i]].cid)
        ELSE Once(walk.given, s[back[i]].cid)
    BY <1>7, <2>1 DEF ReaderInv
  <2> QED
    BY <2>1, <2>3, <2>4
<1> QED
  BY <1>3, <1>4, <1>5, <1>6, <1>7 DEF ReaderInv

LEMMA IndexBlobWalks ==
  ASSUME IndexInv, WalkInv, NEW c \in IndexCids, NEW m \in Metas, IndexBlob(c, m)
  PROVE  WalkInv'
<1> SUFFICES ASSUME walk # NoWalk, walk \in Walks, ~walkers.lost, ReaderInv
             PROVE  ReaderInv'
  BY DEF WalkInv, IndexBlob
<1> DEFINE e == [cid |-> c, meta |-> m]
           k == walk.query.key
           s == lists[k]
           t == lists'[k]
           W == walkers.there \cup {walk.cursor}
           back == [j \in 1..(Len(s) + 1) |-> j]
<1>1. /\ k \in AllKeys /\ c \notin DOMAIN byCid /\ UNCHANGED <<walk, walkers>>
      /\ t = s \/ t = Append(s, e)
  BY QueryKeys DEF IndexBlob, Walks
<1>2. /\ s \in Seq(IndexEntries) /\ Len(s) \in Nat
      /\ \A i \in 1..Len(s) : s[i].cid \in DOMAIN byCid
  <2>1. ListInv(k)
    BY <1>1 DEF IndexInv
  <2> QED
    BY <2>1 DEF ListInv
<1>3. \/ t = s
      \/ /\ Len(t) = Len(s) + 1 /\ t[Len(s) + 1].cid = c
         /\ \A i \in 1..Len(s) : t[i] = s[i]
  <2>1. e \in IndexEntries /\ e.cid = c
    BY DEF IndexEntries
  <2> HIDE DEF s, e
  <2> QED
    BY <1>1, <1>2, <2>1
<1>4. \A d \in walkers.there : d # c
  <2>1. \A d \in walkers.there : \E i \in 1..Len(s) : s[i].cid = d
    BY DEF ReaderInv, Shown
  <2> QED
    BY <1>1, <1>2, <2>1
<1>5. walk.cursor # c
  <2>1. CASE walk.done \/ walk.cursor = NoCursor
    BY <2>1, IndexAssumption DEF ReaderInv
  <2>2. CASE ~walk.done /\ walk.cursor # NoCursor
    <3>1. \E i \in 1..Len(s) : s[i].cid = walk.cursor
      BY <2>2 DEF ReaderInv, Shown
    <3> QED
      BY <1>1, <1>2, <3>1
  <2> QED
    BY <2>1, <2>2
<1> HIDE DEF s, t
<1>6. \A j \in 1..Len(t) : t[j].cid \in W => j \in 1..Len(s) /\ t[j] = s[j]
  <2> SUFFICES ASSUME NEW j \in 1..Len(t), t[j].cid \in W PROVE j \in 1..Len(s) /\ t[j] = s[j]
    OBVIOUS
  <2>1. CASE t = s
    BY <2>1
  <2>2. CASE t # s
    <3>1. j # Len(s) + 1
      BY <1>3, <1>4, <1>5, <2>2
    <3>2. j \in 1..Len(s)
      BY <1>2, <1>3, <2>2, <3>1
    <3> QED
      BY <1>3, <2>2, <3>2
  <2> QED
    BY <2>1, <2>2
<1>7. \A j \in 1..Len(s) : back[j] = j
  BY <1>2
<1>8. \A i \in 1..Len(s) : \E j \in 1..Len(t) : t[j] = s[i]
  BY <1>2, <1>3
<1> HIDE DEF back, W
<1>9. /\ \A j \in 1..Len(t) : t[j].cid \in W => back[j] \in 1..Len(s) /\ t[j] = s[back[j]]
      /\ \A i, j \in 1..Len(t) : t[i].cid \in W /\ t[j].cid \in W => (i < j <=> back[i] < back[j])
  BY <1>6, <1>7
<1>10. walkers'.there \subseteq walkers.there /\ walkers'.there \subseteq W /\ walk.cursor \in W
  BY <1>1 DEF W
<1>11. s = lists[walk.query.key] /\ t = lists'[walk.query.key] /\ UNCHANGED walk
  BY <1>1 DEF s, t
<1>12. Survives(W, s, t, back)
  BY <1>8, <1>9 DEF Survives
<1> QED
  BY <1>10, <1>11, <1>12, ListMoves

LEMMA RemoveWalks ==
  ASSUME IndexInv, WalkInv, NEW c \in IndexCids, RemoveFromIndex(c)
  PROVE  WalkInv'
<1>0. UNCHANGED walk /\ walkers' = [there |-> walkers.there \ {c},
                          lost |-> walkers.lost \/ (walk # NoWalk /\ walk.cursor = c)]
  BY DEF RemoveFromIndex
<1> SUFFICES ASSUME walk # NoWalk, walk \in Walks, ~walkers'.lost PROVE ReaderInv'
  BY <1>0 DEF WalkInv
<1>1. ~walkers.lost /\ walk.cursor # c /\ walkers'.there = walkers.there \ {c}
  BY <1>0
<1>2. ReaderInv
  BY <1>1 DEF WalkInv
<1> DEFINE k == walk.query.key
           s == lists[k]
           t == lists'[k]
           W == walkers'.there \cup {walk.cursor}
<1>3. /\ k \in AllKeys /\ c \in DOMAIN byCid
      /\ \/ t = s
         \/ k \in Keys(byCid[c].meta) /\ t = Without(s, c)
  BY QueryKeys DEF RemoveFromIndex, KeysOf, Walks
<1>4. s \in Seq(IndexEntries) /\ Len(s) \in Nat
  BY <1>3 DEF IndexInv, ListInv
<1>5. walkers'.there \subseteq walkers.there /\ walkers'.there \subseteq W /\ walk.cursor \in W
      /\ c \notin W
  BY <1>1
<1>6. CASE t = s
  <2> DEFINE back == [j \in 1..Len(s) |-> j]
  <2>1. \A j \in 1..Len(s) : back[j] = j
    OBVIOUS
  <2> HIDE DEF back, W, s, t
  <2>2. Survives(W, s, t, back)
    BY <1>6, <2>1 DEF Survives
  <2>3. s = lists[walk.query.key] /\ t = lists'[walk.query.key]
    BY DEF s, t
  <2> QED
    BY <1>0, <1>2, <1>5, <2>2, <2>3, ListMoves
<1>7. CASE k \in Keys(byCid[c].meta) /\ t = Without(s, c)
  <2>1. PICK x \in 1..Len(s) : s[x].cid = c /\ t = RemoveAt(s, x)
    BY <1>3, <1>7, WithoutOne
  <2> DEFINE back == [j \in 1..Len(s) |-> IF j < x THEN j ELSE j + 1]
  <2> HIDE DEF s
  <2>2. /\ Len(t) = Len(s) - 1
        /\ \A j \in 1..(Len(s) - 1) : t[j] = IF j < x THEN s[j] ELSE s[j + 1]
    BY <1>4, <2>1, Removing
  <2> HIDE DEF t, W
  <2>3. \A j \in 1..Len(t) : back[j] = IF j < x THEN j ELSE j + 1
    BY <1>4, <2>2
  <2> HIDE DEF back
  <2>4. \A j \in 1..Len(t) : back[j] \in 1..Len(s) /\ t[j] = s[back[j]]
    BY <1>4, <2>2, <2>3
  <2>5. \A i, j \in 1..Len(t) : i < j <=> back[i] < back[j]
    BY <1>4, <2>2, <2>3
  <2>6. \A i \in 1..Len(s) : s[i].cid \in W => \E j \in 1..Len(t) : t[j] = s[i]
    <3> SUFFICES ASSUME NEW i \in 1..Len(s), s[i].cid \in W PROVE \E j \in 1..Len(t) : t[j] = s[i]
      OBVIOUS
    <3>1. i # x
      BY <1>5, <2>1
    <3>2. CASE i < x
      <4>1. i \in 1..Len(t) /\ t[i] = s[i]
        BY <1>4, <2>2, <3>2
      <4> QED
        BY <4>1
    <3>3. CASE i > x
      <4>1. i - 1 \in 1..Len(t) /\ t[i - 1] = s[(i - 1) + 1] /\ (i - 1) + 1 = i
        BY <1>4, <2>2, <3>3
      <4> QED
        BY <4>1
    <3> QED
      BY <3>1, <3>2, <3>3
  <2>7. s = lists[walk.query.key] /\ t = lists'[walk.query.key]
    BY DEF s, t
  <2>8. Survives(W, s, t, back)
    BY <2>4, <2>5, <2>6 DEF Survives
  <2> QED
    BY <1>0, <1>2, <1>5, <2>7, <2>8, ListMoves
<1> QED
  BY <1>3, <1>6, <1>7

\* What is given with a page
LEMMA GivenMore ==
  ASSUME NEW old \in Seq(IndexCids), NEW add \in Seq(IndexCids), NEW c
  PROVE  /\ Never(old, c) /\ Never(add, c) => Never(old \o add, c)
         /\ Once(old, c) /\ Never(add, c) => Once(old \o add, c)
         /\ Never(old, c) /\ Once(add, c) => Once(old \o add, c)
         /\ old \o add \in Seq(IndexCids)
<1> DEFINE both == old \o add
           n == Len(old)
<1>1. /\ both \in Seq(IndexCids) /\ Len(both) = n + Len(add) /\ n \in Nat /\ Len(add) \in Nat
      /\ \A i \in 1..n : both[i] = old[i]
      /\ \A i \in 1..Len(add) : both[n + i] = add[i]
  OBVIOUS
<1> HIDE DEF both, n
<1>2. \A i \in 1..Len(both) : i \in 1..n \/ (i - n \in 1..Len(add) /\ n + (i - n) = i)
  BY <1>1
<1>3. \A i \in 1..n : i \in 1..Len(both)
  BY <1>1
<1>4. \A i \in 1..Len(add) : n + i \in 1..Len(both) /\ n + i \notin 1..n
  BY <1>1
<1>5. \A i \in 1..Len(both) : both[i] = IF i \in 1..n THEN old[i] ELSE add[i - n]
  BY <1>1, <1>2
<1>6. Never(old, c) /\ Never(add, c) => Never(both, c)
  BY <1>2, <1>5 DEF Never, n
<1>7. ASSUME Once(old, c), Never(add, c) PROVE Once(both, c)
  <2>1. PICK i \in 1..n : \A j \in 1..n : old[j] = c <=> j = i
    BY <1>7 DEF Once, n
  <2>2. \A j \in 1..Len(both) : both[j] = c <=> j = i
    BY <1>2, <1>5, <1>7, <2>1 DEF Never
  <2> QED
    BY <1>3, <2>1, <2>2 DEF Once
<1>8. ASSUME Never(old, c), Once(add, c) PROVE Once(both, c)
  <2>1. PICK i \in 1..Len(add) : \A j \in 1..Len(add) : add[j] = c <=> j = i
    BY <1>8 DEF Once
  <2>2. ASSUME NEW j \in 1..Len(both) PROVE both[j] = c <=> j = n + i
    <3>1. CASE j \in 1..n
      BY <1>4, <1>5, <1>8, <2>1, <3>1 DEF Never, n
    <3>2. CASE j \notin 1..n
      <4>1. j - n \in 1..Len(add) /\ both[j] = add[j - n]
        BY <1>2, <1>5, <3>2
      <4>2. j - n = i <=> j = n + i
        BY <1>1
      <4> QED
        BY <2>1, <4>1, <4>2
    <3> QED
      BY <3>1, <3>2
  <2> QED
    BY <1>4, <2>1, <2>2 DEF Once
<1> QED
  BY <1>1, <1>6, <1>7, <1>8 DEF both

\* What a cursor leaves of the sorted list
LEMMA RestIs ==
  ASSUME NEW l \in Seq(IndexEntries), NEW cursor,
         \A a, b \in 1..Len(l) : l[a].cid = l[b].cid => a = b
  PROVE  LET rest == AfterCursor(l, cursor)
         IN \E p \in 0..Len(l) :
              /\ rest \in Seq(IndexEntries) /\ Len(rest) = Len(l) - p
              /\ \A i \in 1..Len(rest) : rest[i] = l[p + i]
              /\ \A a \in 1..Len(l) : l[a].cid = cursor => a = p
              /\ cursor = NoCursor => p = 0
<1> DEFINE at == {i \in DOMAIN l : l[i].cid = cursor}
           rest == AfterCursor(l, cursor)
<1>1. DOMAIN l = 1..Len(l) /\ Len(l) \in Nat
  OBVIOUS
<1>2. CASE at = {}
  <2>1. rest = l
    BY <1>2 DEF AfterCursor
  <2>2. /\ 0 \in 0..Len(l) /\ Len(l) - 0 = Len(l) /\ \A i \in 1..Len(l) : 0 + i = i
        /\ \A a \in 1..Len(l) : l[a].cid # cursor
    BY <1>1, <1>2
  <2> QED
    BY <2>1, <2>2
<1>3. CASE at # {}
  <2>1. PICK p \in 1..Len(l) : l[p].cid = cursor
    BY <1>1, <1>3
  <2>2. at = {p}
    BY <1>1, <2>1
  <2>3. rest = SubSeq(l, p + 1, Len(l))
    <3> HIDE DEF at
    <3>1. (CHOOSE i \in at : TRUE) = p
      BY <2>2
    <3> QED
      BY <1>3, <3>1 DEF AfterCursor, at
  <2> HIDE DEF rest, at
  <2>4. /\ rest \in Seq(IndexEntries) /\ Len(rest) = Len(l) - p
        /\ \A i \in 1..Len(rest) : rest[i] = l[p + i]
    <3> DEFINE m == p + 1
    <3>1. m \in Int /\ Len(l) \in Int /\ \A i \in m..Len(l) : l[i] \in IndexEntries
      BY <1>1
    <3> HIDE DEF m
    <3>2. /\ SubSeq(l, m, Len(l)) \in Seq(IndexEntries)
          /\ Len(SubSeq(l, m, Len(l))) = IF m <= Len(l) THEN Len(l) - m + 1 ELSE 0
          /\ \A i \in 1..(Len(l) - m + 1) : SubSeq(l, m, Len(l))[i] = l[m + i - 1]
      BY ONLY <3>1, SubSeqProperties
    <3>3. m = p + 1 /\ p \in Int /\ p <= Len(l)
      BY <1>1 DEF m
    <3>4. Len(l) - m + 1 = Len(l) - p /\ (~(m <= Len(l)) => Len(l) - p = 0)
      BY <3>1, <3>3
    <3>5. rest = SubSeq(l, m, Len(l))
      BY <2>3 DEF m
    <3>6. rest \in Seq(IndexEntries) /\ Len(rest) = Len(l) - p
      BY <3>2, <3>4, <3>5
    <3>7. ASSUME NEW i \in 1..Len(rest) PROVE rest[i] = l[p + i]
      <4>1. i \in 1..(Len(l) - m + 1)
        BY <3>4, <3>6
      <4>2. rest[i] = l[m + i - 1]
        BY <3>2, <3>5, <4>1
      <4>3. m + i - 1 = p + i
        BY <3>3
      <4> QED
        BY <4>2, <4>3
    <3> QED
      BY <3>6, <3>7
  <2>5. cursor # NoCursor
    <3>1. l[p] \in IndexEntries
      BY <1>1
    <3> QED
      BY <2>1, <3>1, IndexAssumption DEF IndexEntries
  <2>6. p \in 0..Len(l) /\ \A a \in 1..Len(l) : l[a].cid = cursor => a = p
    BY <1>1, <2>1
  <2> QED
    BY <2>4, <2>5, <2>6 DEF rest
<1> QED
  BY <1>2, <1>3

LEMMA PageWalks ==
  ASSUME IndexInv, WalkInv, NextPage
  PROVE  WalkInv'
<1> DEFINE q == walk.query
           s == lists[q.key]
           l == Ordered(q)
           rest == AfterCursor(l, walk.cursor)
           more == Len(rest) > Limit
           page == IF more THEN SubSeq(rest, 1, Limit) ELSE rest
           n == IF more THEN Limit ELSE Len(rest)
           add == [i \in DOMAIN page |-> page[i].cid]
<1>1. /\ walk # NoWalk /\ walk \in Walks /\ q \in Queries /\ ~walk.done
      /\ UNCHANGED <<lists, walkers>>
      /\ walk' = [walk EXCEPT !.given = @ \o add, !.done = ~more,
                              !.cursor = IF more THEN Last(page).cid ELSE NoCursor]
  BY DEF NextPage, WalkInv, Walks
<1>2. /\ s \in Seq(IndexEntries) /\ Len(s) \in Nat
      /\ \A i, j \in 1..Len(s) : s[i].cid = s[j].cid => i = j
  <2>1. ListInv(q.key)
    BY <1>1, QueryKeys DEF IndexInv
  <2> QED
    BY <2>1 DEF ListInv
<1>3. /\ l \in Seq(IndexEntries) /\ Len(l) \in Nat
      /\ \A i \in Shown(q) : PlaceOf(q, i) \in 1..Len(l) /\ l[PlaceOf(q, i)] = s[i]
      /\ \A i, j \in Shown(q) : PlaceOf(q, i) < PlaceOf(q, j) <=> Before(q, s, i, j)
      /\ \A k \in 1..Len(l) : \E i \in Shown(q) : PlaceOf(q, i) = k
      /\ Shown(q) \subseteq 1..Len(s)
  BY <1>1, <1>2, Places DEF Shown
<1> HIDE DEF s, l
<1>4. \A a, b \in 1..Len(l) : l[a].cid = l[b].cid => a = b
  <2> SUFFICES ASSUME NEW a \in 1..Len(l), NEW b \in 1..Len(l), l[a].cid = l[b].cid PROVE a = b
    OBVIOUS
  <2>1. PICK i \in Shown(q) : PlaceOf(q, i) = a
    BY <1>3
  <2>2. PICK j \in Shown(q) : PlaceOf(q, j) = b
    BY <1>3
  <2>3. s[i].cid = s[j].cid
    BY <1>3, <2>1, <2>2
  <2>4. i = j
    BY <1>2, <1>3, <2>3
  <2> QED
    BY <2>1, <2>2, <2>4
<1>5. PICK p \in 0..Len(l) :
        /\ rest \in Seq(IndexEntries) /\ Len(rest) = Len(l) - p
        /\ \A i \in 1..Len(rest) : rest[i] = l[p + i]
        /\ \A a \in 1..Len(l) : l[a].cid = walk.cursor => a = p
        /\ walk.cursor = NoCursor => p = 0
  BY <1>3, <1>4, RestIs
<1>6. Limit \in Nat /\ Limit > 0
  BY IndexAssumption
<1> HIDE DEF rest
<1>7. /\ n \in Nat /\ p + n \in 0..Len(l) /\ (more => n > 0 /\ p + n < Len(l)) /\ (~more => p + n = Len(l))
      /\ page \in Seq(IndexEntries) /\ Len(page) = n /\ \A i \in 1..n : page[i] = l[p + i]
  <2>1. Len(rest) \in Nat /\ p \in Nat
    BY <1>5
  <2>2. CASE more
    <3>1. 1 \in 1..(Len(rest) + 1) /\ Limit \in 0..Len(rest)
      BY <1>6, <2>1, <2>2
    <3>2. /\ SubSeq(rest, 1, Limit) \in Seq(IndexEntries) /\ Len(SubSeq(rest, 1, Limit)) = Limit
          /\ \A i \in 1..Limit : SubSeq(rest, 1, Limit)[i] = rest[i]
      BY <1>5, <1>6, <2>1, <3>1
    <3>3. \A i \in 1..Limit : i \in 1..Len(rest)
      BY <1>6, <2>1, <2>2
    <3>4. page = SubSeq(rest, 1, Limit) /\ n = Limit
      BY <2>2
    <3>5. p + n \in 0..Len(l) /\ p + n < Len(l) /\ n > 0 /\ n \in Nat
      BY <1>3, <1>5, <1>6, <2>2, <3>4
    <3> QED
      BY <1>5, <2>2, <3>2, <3>3, <3>4, <3>5
  <2>3. CASE ~more
    BY <1>3, <1>5, <2>1, <2>3
  <2> QED
    BY <2>2, <2>3
<1>8. add \in Seq(IndexCids) /\ Len(add) = n /\ \A i \in 1..n : add[i] = l[p + i].cid
  <2> HIDE DEF page, n
  <2>1. DOMAIN page = 1..n /\ n \in Nat /\ \A i \in 1..n : page[i] \in IndexEntries
    BY <1>7
  <2>2. \A i \in 1..n : page[i].cid \in IndexCids
    BY <2>1 DEF IndexEntries
  <2>3. add \in [1..n -> IndexCids]
    BY <2>1, <2>2
  <2>4. \A i \in 1..n : add[i] = page[i].cid
    BY <2>1
  <2> HIDE DEF add
  <2>5. add \in Seq(IndexCids) /\ Len(add) = n
    BY <2>1, <2>3
  <2> QED
    BY <1>7, <2>4, <2>5
<1>9. ~walk'.done => walk'.cursor = l[p + n].cid /\ walk'.cursor # NoCursor
  <2>1. ~walk'.done => more /\ walk'.cursor = Last(page).cid
    BY <1>1 DEF Walks
  <2>2. more => Last(page) = page[n] /\ n \in 1..n
    BY <1>7 DEF Last
  <2> HIDE DEF page, n, more
  <2>3. more => Last(page) = l[p + n] /\ Last(page) \in IndexEntries
    BY <1>7, <2>2
  <2> QED
    BY <2>1, <2>3, IndexAssumption DEF IndexEntries
<1>10. /\ walk'.query = q /\ walk'.given = walk.given \o add /\ walk'.done = ~more
       /\ (~walk'.done => more) /\ (walk'.done => ~more)
       /\ walk'.done => walk'.cursor = NoCursor
       /\ walk'.cursor \in IndexCids \cup {NoCursor}
  <2>1. /\ walk'.query = q /\ walk'.given = walk.given \o add /\ walk'.done = ~more
        /\ walk'.done => walk'.cursor = NoCursor
    BY <1>1 DEF Walks
  <2>2. p + n \in 1..Len(l) => l[p + n].cid \in IndexCids
    <3>1. p + n \in 1..Len(l) => l[p + n] \in IndexEntries
      BY <1>3
    <3> QED
      BY <3>1 DEF IndexEntries
  <2>3. more => p + n \in 1..Len(l)
    BY <1>5, <1>7
  <2> QED
    BY <1>9, <2>1, <2>2, <2>3
<1> HIDE DEF page, n, more, add
<1>11. \A c : /\ Never(walk.given, c) /\ Never(add, c) => Never(walk.given \o add, c)
              /\ Once(walk.given, c) /\ Never(add, c) => Once(walk.given \o add, c)
              /\ Never(walk.given, c) /\ Once(add, c) => Once(walk.given \o add, c)
              /\ walk.given \o add \in Seq(IndexCids)
  <2>1. walk.given \in Seq(IndexCids)
    BY <1>1 DEF Walks
  <2> QED
    BY <1>8, <2>1, GivenMore
<1>12. walk' \in Walks
  <2>1. walk.given \o add \in Seq(IndexCids) /\ (~more) \in BOOLEAN
    BY <1>11
  <2> QED
    BY <1>1, <1>10, <2>1 DEF Walks
<1> SUFFICES ASSUME ~walkers.lost PROVE ReaderInv'
  BY <1>1, <1>12 DEF WalkInv
<1>13. ReaderInv
  BY <1>1 DEF WalkInv
<1>14. \A c \in walkers.there : \E i \in Shown(q) : s[i].cid = c
  BY <1>13 DEF ReaderInv, s
<1>15. ASSUME NEW i \in Shown(q), s[i].cid \in walkers.there
       PROVE  IF p < PlaceOf(q, i) THEN Never(walk.given, s[i].cid) ELSE Once(walk.given, s[i].cid)
  <2>1. CASE walk.cursor = NoCursor
    <3>1. walk.given = <<>> /\ p = 0
      BY <1>1, <1>5, <1>13, <2>1 DEF ReaderInv
    <3>2. p < PlaceOf(q, i)
      BY <1>3, <3>1
    <3> QED
      BY <3>1, <3>2 DEF Never
  <2>2. CASE walk.cursor # NoCursor
    <3>1. PICK j \in Shown(q) : s[j].cid = walk.cursor
      BY <1>1, <1>13, <2>2 DEF ReaderInv, s
    <3>2. PlaceOf(q, j) = p
      BY <1>3, <1>5, <3>1
    <3>3. IF Before(q, s, j, i) THEN Never(walk.given, s[i].cid) ELSE Once(walk.given, s[i].cid)
      BY <1>1, <1>13, <1>15, <2>2, <3>1 DEF ReaderInv, s
    <3> QED
      BY <1>3, <3>2, <3>3
  <2> QED
    BY <2>1, <2>2
<1>16. ASSUME NEW i \in Shown(q), s[i].cid \in walkers.there
       PROVE  IF p + n < PlaceOf(q, i) THEN Never(walk'.given, s[i].cid) ELSE Once(walk'.given, s[i].cid)
  <2> DEFINE r == PlaceOf(q, i)
             c == s[i].cid
  <2> SUFFICES IF p + n < r THEN Never(walk'.given, c) ELSE Once(walk'.given, c)
    OBVIOUS
  <2>0. IF p < r THEN Never(walk.given, c) ELSE Once(walk.given, c)
    BY <1>15, <1>16
  <2>1. r \in 1..Len(l) /\ l[r].cid = c
    BY <1>3
  <2>2. n \in Nat /\ p \in Nat /\ p + n \in 0..Len(l)
    BY <1>5, <1>7
  <2> HIDE DEF r, c
  <2>3. ASSUME NEW j \in 1..n PROVE p + j \in 1..Len(l) /\ (add[j] = c <=> p + j = r)
    <3>1. p + j \in 1..Len(l)
      BY <1>3, <2>2
    <3>2. add[j] = l[p + j].cid
      BY <1>8
    <3> QED
      BY <1>4, <2>1, <3>1, <3>2
  <2>4. CASE r <= p
    <3>1. Never(add, c)
      BY <1>8, <2>1, <2>2, <2>3, <2>4 DEF Never
    <3> QED
      BY <1>10, <1>11, <2>0, <2>1, <2>2, <2>4, <3>1
  <2>5. CASE p < r /\ r <= p + n
    <3>1. r - p \in 1..n /\ \A j \in 1..n : add[j] = c <=> j = r - p
      BY <2>1, <2>2, <2>3, <2>5
    <3>2. Once(add, c)
      BY <1>8, <3>1 DEF Once
    <3> QED
      BY <1>10, <1>11, <2>0, <2>1, <2>2, <2>5, <3>2
  <2>6. CASE p + n < r
    <3>1. Never(add, c)
      BY <1>8, <2>1, <2>2, <2>3, <2>6 DEF Never
    <3>2. p < r
      BY <2>1, <2>2, <2>6
    <3> QED
      BY <1>10, <1>11, <2>0, <2>6, <3>1, <3>2
  <2> QED
    BY <2>1, <2>2, <2>4, <2>5, <2>6
<1>17. walk'.done => \A c \in walkers.there : Once(walk'.given, c)
  <2> SUFFICES ASSUME walk'.done, NEW c \in walkers.there PROVE Once(walk'.given, c)
    OBVIOUS
  <2>1. PICK i \in Shown(q) : s[i].cid = c
    BY <1>14
  <2>2. p + n = Len(l) /\ PlaceOf(q, i) \in 1..Len(l)
    BY <1>3, <1>7, <1>10
  <2>3. ~(p + n < PlaceOf(q, i))
    BY <1>3, <2>2
  <2> QED
    BY <1>16, <2>1, <2>3
<1>18. ~walk'.done => \E i \in Shown(q) : s[i].cid = walk'.cursor
  <2> SUFFICES ASSUME ~walk'.done PROVE \E i \in Shown(q) : s[i].cid = walk'.cursor
    OBVIOUS
  <2>1. p + n \in 1..Len(l)
    BY <1>5, <1>7, <1>10
  <2>2. PICK i \in Shown(q) : PlaceOf(q, i) = p + n
    BY <1>3, <2>1
  <2> QED
    BY <1>3, <1>9, <2>2
<1>19. ASSUME ~walk'.done, NEW i \in Shown(q), NEW j \in Shown(q),
              s[i].cid \in walkers.there, s[j].cid = walk'.cursor
       PROVE  IF Before(q, s, j, i) THEN Never(walk'.given, s[i].cid) ELSE Once(walk'.given, s[i].cid)
  <2>1. p + n \in 1..Len(l)
    BY <1>5, <1>7, <1>10, <1>19
  <2>4. PlaceOf(q, j) \in 1..Len(l) /\ l[PlaceOf(q, j)] = s[j]
    BY <1>3
  <2>2. PlaceOf(q, j) = p + n
    BY <1>4, <1>9, <1>19, <2>1, <2>4
  <2>3. p + n < PlaceOf(q, i) <=> Before(q, s, j, i)
    BY <1>3, <2>2
  <2> QED
    BY <1>16, <1>19, <2>3
<1>20. walk'.query = q /\ lists'[q.key] = s /\ walkers'.there = walkers.there
  BY <1>1, <1>10 DEF s
<1>21. Shown(walk.query)' = Shown(q)
  BY <1>20 DEF Shown, s
<1> HIDE DEF q
<1> QED
  BY <1>9, <1>10, <1>14, <1>17, <1>18, <1>19, <1>20, <1>21 DEF ReaderInv

LEMMA WalkStepKeeps == IndexInv /\ WalkInv /\ [IndexNext]_indexVars => WalkInv'
<1> SUFFICES ASSUME IndexInv, WalkInv, [IndexNext]_indexVars PROVE WalkInv'
  OBVIOUS
<1>1. CASE EndWalk
  BY <1>1 DEF EndWalk, WalkInv
<1>2. CASE UNCHANGED indexVars
  BY <1>2 DEF indexVars, WalkInv, ReaderInv, Shown
<1> QED
  BY <1>1, <1>2, WalkStarts, PageWalks, IndexBlobWalks, RemoveWalks DEF IndexNext

\* A walk by pages gives each blob that stayed in its list once, whatever is indexed and
\* removed between the pages, unless the blob under the cursor goes (the queries of
\* IndexService with a cursor).
THEOREM WalksAreComplete == IndexSpec => []WalkComplete
<1>1. IndexInit => WalkInv
  BY DEF IndexInit, WalkInv
<1>2. IndexSpec => [](IndexInv /\ WalkInv)
  BY <1>1, IndexStarts, IndexStepKeeps, WalkStepKeeps, PTL DEF IndexSpec
<1>3. WalkInv => WalkComplete
  <2> SUFFICES ASSUME WalkInv, walk # NoWalk, walk.done, ~walkers.lost, NEW c \in walkers.there
               PROVE  Cardinality({i \in DOMAIN walk.given : walk.given[i] = c}) = 1
    BY DEF WalkComplete
  <2>1. Once(walk.given, c) /\ walk.given \in Seq(IndexCids)
    BY DEF WalkInv, ReaderInv, Walks
  <2>2. DOMAIN walk.given = 1..Len(walk.given)
    BY <2>1
  <2>3. PICK i \in 1..Len(walk.given) :
          \A j \in 1..Len(walk.given) : walk.given[j] = c <=> j = i
    BY <2>1 DEF Once
  <2>4. {j \in DOMAIN walk.given : walk.given[j] = c} = {i}
    BY <2>2, <2>3
  <2> QED
    BY <2>4, FS_Singleton
<1> QED
  BY <1>2, <1>3, PTL

-----------------------------------------------------------------------------
(* CacheService                                                              *)

CacheEntries == {e \in [key : CacheKeys, size : Nat, at : Nat] : e.size = SizeOf[e.key]}

\* f[n] is what the first n entries take.
SumsUp(f, list) ==
  /\ f = [n \in 0..Len(list) |-> f[n]] /\ f[0] = 0
  /\ \A n \in 1..Len(list) : f[n] \in Nat /\ f[n] = f[n - 1] + list[n].size

LEMMA Sizes ==
  ASSUME NEW list \in Seq(CacheEntries)
  PROVE  Len(list) \in Nat /\ \A n \in 1..Len(list) : list[n].size \in Nat
<1>1. Len(list) \in Nat /\ \A n \in 1..Len(list) : list[n] \in CacheEntries
  OBVIOUS
<1>2. \A e \in CacheEntries : e.size \in Nat
  BY DEF CacheEntries
<1> QED
  BY <1>1, <1>2

LEMMA Summing ==
  ASSUME NEW list \in Seq(CacheEntries)
  PROVE  \E f : SumsUp(f, list)
<1> DEFINE step == [n \in Nat |-> [x \in Nat |->
                      IF n \in 1..Len(list) THEN x + list[n].size ELSE x]]
<1>1. Len(list) \in Nat /\ \A n \in 1..Len(list) : list[n].size \in Nat
  BY Sizes
<1>2. \A n \in Nat, x \in Nat : step[n][x] \in Nat
  BY <1>1
<1>3. \A n \in 1..Len(list), x \in Nat : step[n][x] = x + list[n].size
  OBVIOUS
<1> HIDE DEF step
<1>4. 0 \in Nat
  OBVIOUS
<1>5. PICK f : Along(f, Nat, 0, step, Len(list))
  BY <1>1, <1>2, <1>4, Recursion, Zenon
<1>6. f \in [0..Len(list) -> Nat] /\ f[0] = 0
      /\ \A n \in 1..Len(list) : f[n] = step[n][f[n - 1]]
  BY <1>5 DEF Along
<1>7. \A n \in 1..Len(list) : n \in 0..Len(list) /\ n - 1 \in 0..Len(list)
  BY <1>1
<1>8. \A n \in 1..Len(list) : f[n] \in Nat /\ f[n - 1] \in Nat
  BY <1>6, <1>7
<1>9. SumsUp(f, list)
  BY <1>3, <1>6, <1>8 DEF SumsUp
<1> QED
  BY <1>9

LEMMA OneSum ==
  ASSUME NEW list \in Seq(CacheEntries), NEW f, NEW g, SumsUp(f, list), SumsUp(g, list)
  PROVE  f = g
<1> DEFINE T == {n \in Nat : n <= Len(list) => f[n] = g[n]}
<1>1. 0 \in T
  BY DEF SumsUp
<1>2. ASSUME NEW n \in Nat, n \in T PROVE n + 1 \in T
  <2> SUFFICES ASSUME n + 1 <= Len(list) PROVE f[n + 1] = g[n + 1]
    OBVIOUS
  <2>1. n + 1 \in 1..Len(list) /\ (n + 1) - 1 = n /\ n <= Len(list)
    OBVIOUS
  <2>2. f[n] = g[n]
    BY <1>2, <2>1
  <2>3. \A m \in 1..Len(list) :
          f[m] = f[m - 1] + list[m].size /\ g[m] = g[m - 1] + list[m].size
    BY DEF SumsUp
  <2>4. f[n + 1] = f[n] + list[n + 1].size /\ g[n + 1] = g[n] + list[n + 1].size
    BY <2>1, <2>3
  <2> QED
    BY <2>2, <2>4
<1> HIDE DEF T
<1>3. \A n \in Nat : n \in T
  BY <1>1, <1>2, Induct
<1>4. \A n \in 0..Len(list) : f[n] = g[n]
  BY <1>3 DEF T
<1>5. [n \in 0..Len(list) |-> f[n]] = [n \in 0..Len(list) |-> g[n]]
  BY <1>4
<1> QED
  BY <1>5 DEF SumsUp

LEMMA HeldIs ==
  ASSUME NEW list \in Seq(CacheEntries), NEW f, SumsUp(f, list)
  PROVE  Held(list) = f[Len(list)]
<1> DEFINE Sum(g) == g = [n \in 0..Len(list) |-> IF n = 0 THEN 0 ELSE g[n - 1] + list[n].size]
<1>1. Sum(f)
  <2>1. \A n \in 0..Len(list) : f[n] = IF n = 0 THEN 0 ELSE f[n - 1] + list[n].size
    BY DEF SumsUp
  <2>2. [n \in 0..Len(list) |-> f[n]] =
          [n \in 0..Len(list) |-> IF n = 0 THEN 0 ELSE f[n - 1] + list[n].size]
    BY <2>1
  <2> QED
    BY <2>2 DEF SumsUp
<1>2. ASSUME NEW g, Sum(g) PROVE SumsUp(g, list)
  <2>1. Len(list) \in Nat /\ \A n \in 1..Len(list) : list[n].size \in Nat
    BY Sizes
  <2>2. g[0] = 0 /\ \A n \in 1..Len(list) : g[n] = g[n - 1] + list[n].size
    BY <1>2, <2>1
  <2> DEFINE T == {n \in Nat : n <= Len(list) => g[n] \in Nat}
  <2>3. 0 \in T
    BY <2>2
  <2>4. ASSUME NEW n \in Nat, n \in T PROVE n + 1 \in T
    <3> SUFFICES ASSUME n + 1 <= Len(list) PROVE g[n + 1] \in Nat
      OBVIOUS
    <3>1. n + 1 \in 1..Len(list) /\ (n + 1) - 1 = n /\ n <= Len(list)
      BY <2>1
    <3>2. g[n] \in Nat
      BY <2>4, <3>1
    <3> QED
      BY <2>1, <2>2, <3>1, <3>2
  <2> HIDE DEF T
  <2>5. \A n \in Nat : n \in T
    BY <2>3, <2>4, Induct
  <2>6. \A n \in 1..Len(list) : g[n] \in Nat
    BY <2>1, <2>5 DEF T
  <2>7. g = [n \in 0..Len(list) |-> g[n]]
    BY <1>2
  <2> QED
    BY <2>2, <2>6, <2>7 DEF SumsUp
<1> DEFINE sum == CHOOSE g : Sum(g)
<1>3. Sum(sum)
  BY <1>1, Zenon
<1>4. Held(list) = sum[Len(list)]
  BY DEF Held
<1> HIDE DEF sum, Sum
<1>5. sum = f
  BY <1>2, <1>3, OneSum
<1> QED
  BY <1>4, <1>5

\* What the entries take is a number; with the same sizes it is the same.
LEMMA HeldNumber ==
  ASSUME NEW list \in Seq(CacheEntries)
  PROVE  Held(list) \in Nat
<1>1. PICK f : SumsUp(f, list)
  BY Summing
<1>2. Held(list) = f[Len(list)]
  BY <1>1, HeldIs
<1>3. Len(list) \in Nat /\ (Len(list) = 0 \/ Len(list) \in 1..Len(list))
  OBVIOUS
<1> QED
  BY <1>1, <1>2, <1>3 DEF SumsUp

LEMMA HeldSame ==
  ASSUME NEW list \in Seq(CacheEntries), NEW other \in Seq(CacheEntries),
         Len(other) = Len(list), \A i \in 1..Len(list) : other[i].size = list[i].size
  PROVE  Held(other) = Held(list)
<1>1. PICK f : SumsUp(f, list)
  BY Summing
<1>2. SumsUp(f, other)
  BY <1>1 DEF SumsUp
<1> QED
  BY <1>1, <1>2, HeldIs

LEMMA HeldNothing ==
  Held(<<>>) = 0
<1>1. <<>> \in Seq(CacheEntries) /\ Len(<<>>) = 0
  OBVIOUS
<1>2. PICK f : SumsUp(f, <<>>)
  BY <1>1, Summing
<1> QED
  BY <1>1, <1>2, HeldIs DEF SumsUp

LEMMA HeldMore ==
  ASSUME NEW list \in Seq(CacheEntries), NEW e \in CacheEntries
  PROVE  Held(Append(list, e)) = Held(list) + e.size
<1> DEFINE n == Len(list)
           more == Append(list, e)
<1>1. PICK f : SumsUp(f, list)
  BY Summing
<1>2. /\ n \in Nat /\ more \in Seq(CacheEntries) /\ Len(more) = n + 1 /\ more[n + 1] = e
      /\ \A i \in 1..n : more[i] = list[i]
  OBVIOUS
<1>3. e.size \in Nat
  BY DEF CacheEntries
<1>4. f[n] = Held(list) /\ f[n] \in Nat
  BY <1>1, HeldIs, HeldNumber
<1> DEFINE g == [i \in 0..(n + 1) |-> IF i <= n THEN f[i] ELSE f[n] + e.size]
<1>5. SumsUp(g, more)
  <2>1. g = [i \in 0..Len(more) |-> g[i]] /\ g[0] = 0
    BY <1>1, <1>2 DEF SumsUp
  <2>2. ASSUME NEW i \in 1..Len(more) PROVE g[i] \in Nat /\ g[i] = g[i - 1] + more[i].size
    <3>1. CASE i \in 1..n
      <4>1. i \in 0..(n + 1) /\ i - 1 \in 0..(n + 1) /\ i <= n /\ i - 1 <= n
        BY <1>2, <3>1
      <4>2. g[i] = f[i] /\ g[i - 1] = f[i - 1] /\ more[i] = list[i]
        BY <1>2, <3>1, <4>1
      <4> QED
        BY <1>1, <3>1, <4>2 DEF SumsUp
    <3>2. CASE i = n + 1
      <4>1. i \in 0..(n + 1) /\ i - 1 \in 0..(n + 1) /\ ~(i <= n) /\ i - 1 = n
        BY <1>2, <3>2
      <4>2. g[i] = f[n] + e.size /\ g[i - 1] = f[n] /\ more[i] = e
        BY <1>2, <3>2, <4>1
      <4> QED
        BY <1>3, <1>4, <4>2
    <3> QED
      BY <1>2, <3>1, <3>2
  <2> HIDE DEF g
  <2> QED
    BY <2>1, <2>2 DEF SumsUp
<1>6. Held(more) = g[n + 1]
  BY <1>2, <1>5, HeldIs
<1>7. g[n + 1] = f[n] + e.size
  BY <1>2
<1> QED
  BY <1>4, <1>6, <1>7

LEMMA HeldWithout ==
  ASSUME NEW list \in Seq(CacheEntries), NEW x \in 1..Len(list)
  PROVE  Held(RemoveAt(list, x)) + list[x].size = Held(list)
<1> DEFINE n == Len(list)
           less == RemoveAt(list, x)
           size == list[x].size
<1>1. PICK f : SumsUp(f, list)
  BY Summing
<1>2. /\ less \in Seq(CacheEntries) /\ Len(less) = n - 1
      /\ \A i \in 1..(n - 1) : less[i] = IF i < x THEN list[i] ELSE list[i + 1]
  BY Removing
<1>3. n \in Nat /\ \A i \in 1..n : list[i].size \in Nat
  BY Sizes
<1>4. f[n] = Held(list)
  BY <1>1, HeldIs
<1> DEFINE g == [i \in 0..(n - 1) |-> IF i < x THEN f[i] ELSE f[i + 1] - size]
           T == {i \in Nat : x <= i /\ i <= n => f[i] - size \in Nat}
<1> HIDE DEF less, size, g, n
<1>0. n \in Nat /\ x \in 1..n /\ size \in Nat
  BY <1>3 DEF n, size
<1>5. /\ f[0] = 0 /\ \A i \in 1..n : f[i] \in Nat /\ f[i] = f[i - 1] + list[i].size
      /\ \A i \in 0..n : f[i] \in Nat
  <2>1. f[0] = 0 /\ \A i \in 1..n : f[i] \in Nat /\ f[i] = f[i - 1] + list[i].size
    BY <1>1 DEF SumsUp, n
  <2>2. \A i \in 0..n : i = 0 \/ i \in 1..n
    BY <1>0
  <2> QED
    BY <2>1, <2>2
<1>6. f[x] = f[x - 1] + size /\ f[x - 1] \in Nat /\ f[x] - size = f[x - 1]
  BY <1>0, <1>5 DEF size
<1>7. \A i \in x..n : f[i] - size \in Nat
  <2>1. 0 \in T
    BY <1>0
  <2>2. ASSUME NEW i \in Nat, i \in T PROVE i + 1 \in T
    <3> SUFFICES ASSUME x <= i + 1, i + 1 <= n PROVE f[i + 1] - size \in Nat
      OBVIOUS
    <3>1. CASE i + 1 = x
      BY <1>6, <3>1
    <3>2. CASE i + 1 # x
      <4>1. x <= i /\ i <= n /\ i + 1 \in 1..n /\ i \in 0..n /\ (i + 1) - 1 = i
        BY <1>0, <3>2
      <4>2. f[i] - size \in Nat
        BY <2>2, <4>1
      <4>3. f[i + 1] = f[i] + list[i + 1].size /\ list[i + 1].size \in Nat /\ f[i] \in Nat
        BY <1>3, <1>5, <4>1 DEF n
      <4> QED
        BY <1>0, <4>2, <4>3
    <3> QED
      BY <3>1, <3>2
  <2> HIDE DEF T
  <2>3. \A i \in Nat : i \in T
    BY <2>1, <2>2, Induct
  <2> QED
    BY <1>0, <2>3 DEF T
<1>8. SumsUp(g, less)
  <2>1. g = [i \in 0..Len(less) |-> g[i]]
    BY <1>2 DEF g
  <2>2. g[0] = 0
    BY <1>0, <1>5 DEF g
  <2>3. ASSUME NEW i \in 1..Len(less) PROVE g[i] \in Nat /\ g[i] = g[i - 1] + less[i].size
    <3>0. i \in 1..(n - 1) /\ i \in 0..(n - 1) /\ i - 1 \in 0..(n - 1)
      BY <1>0, <1>2
    <3>1. CASE i < x
      <4>1. g[i] = f[i] /\ g[i - 1] = f[i - 1] /\ less[i] = list[i] /\ i \in 1..n
        BY <1>0, <1>2, <3>0, <3>1 DEF g
      <4> QED
        BY <1>5, <4>1
    <3>2. CASE i = x
      <4>1. g[i] = f[i + 1] - size /\ g[i - 1] = f[i - 1] /\ less[i] = list[i + 1]
        BY <1>0, <1>2, <3>0, <3>2 DEF g
      <4>2. i + 1 \in 1..n /\ i + 1 \in x..n /\ (i + 1) - 1 = i
        BY <1>0, <3>0, <3>2
      <4>3. f[i + 1] = f[i] + list[i + 1].size /\ f[i] - size = f[i - 1] /\ f[i] \in Nat
        <5>1. f[i + 1] = f[(i + 1) - 1] + list[i + 1].size
          BY <1>5, <4>2
        <5> QED
          BY <1>0, <1>5, <1>6, <3>2, <4>2, <5>1
      <4>4. list[i + 1].size \in Nat /\ f[i + 1] - size \in Nat
        BY <1>3, <1>7, <4>2 DEF n
      <4> QED
        BY SMTT(30), <1>0, <4>1, <4>3, <4>4
    <3>3. CASE i > x
      <4>1. g[i] = f[i + 1] - size /\ g[i - 1] = f[i] - size /\ less[i] = list[i + 1]
        BY <1>0, <1>2, <3>0, <3>3 DEF g
      <4>2. i + 1 \in 1..n /\ i + 1 \in x..n /\ (i + 1) - 1 = i
        BY <1>0, <3>0, <3>3
      <4>3. f[i + 1] = f[i] + list[i + 1].size /\ f[i] \in Nat
        <5>1. f[i + 1] = f[(i + 1) - 1] + list[i + 1].size
          BY <1>5, <4>2
        <5>2. i \in 0..n
          BY <1>0, <3>0
        <5> QED
          BY <1>5, <4>2, <5>1, <5>2
      <4>4. list[i + 1].size \in Nat /\ f[i + 1] - size \in Nat
        BY <1>3, <1>7, <4>2 DEF n
      <4> QED
        BY <1>0, <4>1, <4>3, <4>4
    <3> QED
      BY <1>0, <3>0, <3>1, <3>2, <3>3
  <2> QED
    BY <2>1, <2>2, <2>3 DEF SumsUp
<1>9. Held(less) = g[n - 1]
  BY <1>2, <1>8, HeldIs
<1>10. g[n - 1] + size = f[n]
  <2>1. CASE x = n
    <3>1. g[n - 1] = f[n - 1]
      BY <1>0, <2>1 DEF g
    <3> QED
      BY <1>6, <2>1, <3>1
  <2>2. CASE x < n
    <3>1. g[n - 1] = f[n] - size
      BY <1>0, <2>2 DEF g
    <3>2. f[n] \in Nat
      BY <1>0, <1>5
    <3> QED
      BY <1>0, <3>1, <3>2
  <2> QED
    BY <1>0, <2>1, <2>2
<1> QED
  BY <1>4, <1>9, <1>10 DEF less, size

\* A cache, as set makes room in it.
Rooms == {m \in [list : Seq(CacheEntries), total : Nat] : Held(m.list) <= m.total}

LEMMA OldestThere ==
  ASSUME NEW list \in Seq(CacheEntries), list # <<>>
  PROVE  Oldest(list) \in 1..Len(list)
<1> DEFINE D == 1..Len(list)
           Ats == {list[i].at : i \in D}
<1>1. \A i \in D : list[i].at \in Nat
  <2>1. \A i \in D : list[i] \in CacheEntries
    OBVIOUS
  <2>2. \A e \in CacheEntries : e.at \in Nat
    BY DEF CacheEntries
  <2> QED
    BY <2>1, <2>2
<1>2. 1 \in D /\ D \subseteq Nat /\ DOMAIN list = D
  OBVIOUS
<1> HIDE DEF D
<1>3. Ats \subseteq Nat /\ Ats # {}
  BY <1>1, <1>2
<1>4. PICK least \in Ats : \A t \in Ats : least <= t
  BY <1>3, Smallest
<1> DEFINE Firsts == {i \in D : list[i].at = least}
<1>5. Firsts \subseteq Nat /\ Firsts # {}
  BY <1>2, <1>4
<1>6. PICK i \in Firsts : \A j \in Firsts : i <= j
  BY <1>5, Smallest
<1>7. \A j \in D : list[i].at < list[j].at \/ (list[i].at = list[j].at /\ i <= j)
  <2> SUFFICES ASSUME NEW j \in D, ~(list[i].at < list[j].at)
               PROVE  list[i].at = list[j].at /\ i <= j
    OBVIOUS
  <2>1. list[i].at = least /\ least <= list[j].at /\ least \in Nat /\ list[j].at \in Nat
    BY <1>1, <1>3, <1>4, <1>6
  <2>2. list[j].at = least
    BY <2>1
  <2> QED
    BY <1>6, <2>1, <2>2
<1>8. \E x \in DOMAIN list : \A j \in DOMAIN list :
        list[x].at < list[j].at \/ (list[x].at = list[j].at /\ x <= j)
  BY <1>2, <1>6, <1>7
<1>9. Oldest(list) \in DOMAIN list
  BY <1>8 DEF Oldest
<1> QED
  BY <1>2, <1>9 DEF D

\* One turn of the loop that evicts.
LEMMA EvictTurn ==
  ASSUME NEW m \in Rooms, NEW size \in Nat
  PROVE  /\ EvictOnce(m, size) \in Rooms
         /\ m.total + size <= MaxSize \/ m.list = <<>> => EvictOnce(m, size) = m
         /\ ~(m.total + size <= MaxSize \/ m.list = <<>>)
              => Len(EvictOnce(m, size).list) = Len(m.list) - 1
<1>1. m.list \in Seq(CacheEntries) /\ m.total \in Nat /\ Held(m.list) <= m.total
  BY DEF Rooms
<1>2. MaxSize \in Nat
  BY CacheAssumption
<1>3. CASE m.total + size <= MaxSize \/ m.list = <<>>
  <2>1. EvictOnce(m, size) = m
    BY <1>1, <1>2, <1>3 DEF EvictOnce
  <2> QED
    BY <1>3, <2>1
<1>4. CASE ~(m.total + size <= MaxSize \/ m.list = <<>>)
  <2> DEFINE i == Oldest(m.list)
             r == [list |-> RemoveAt(m.list, i), total |-> m.total - m.list[i].size]
  <2>1. EvictOnce(m, size) = r
    BY <1>1, <1>2, <1>4 DEF EvictOnce, EvictLRU
  <2>2. i \in 1..Len(m.list)
    BY <1>1, <1>4, OldestThere
  <2> HIDE DEF i
  <2>3. RemoveAt(m.list, i) \in Seq(CacheEntries) /\ Len(RemoveAt(m.list, i)) = Len(m.list) - 1
    BY <1>1, <2>2, Removing
  <2>4. Held(RemoveAt(m.list, i)) + m.list[i].size = Held(m.list)
    BY <1>1, <2>2, HeldWithout
  <2>5. m.list[i].size \in Nat /\ Held(RemoveAt(m.list, i)) \in Nat /\ Held(m.list) \in Nat
    BY <1>1, <2>2, <2>3, Sizes, HeldNumber
  <2>6. m.total - m.list[i].size \in Nat
        /\ Held(RemoveAt(m.list, i)) <= m.total - m.list[i].size
    BY <1>1, <2>4, <2>5
  <2>7. r \in Rooms /\ r.list = RemoveAt(m.list, i)
    BY <2>3, <2>6 DEF Rooms
  <2> QED
    BY <1>4, <2>1, <2>3, <2>7
<1> QED
  BY <1>3, <1>4

\* The loop ends: the blob fits or nothing is left.
LEMMA RoomMade ==
  ASSUME NEW m \in Rooms, NEW size \in Nat
  PROVE  LET r == MakeRoom(m, size)
         IN r \in Rooms /\ (r.total + size <= MaxSize \/ r.list = <<>>)
<1> DEFINE n == Len(m.list)
           Room(f) == f = [k \in 0..n |-> IF k = 0 THEN m ELSE EvictOnce(f[k - 1], size)]
           step == [k \in Nat |-> [x \in Rooms |-> EvictOnce(x, size)]]
<1>1. n \in Nat
  BY DEF Rooms
<1>2. \A k \in Nat, x \in Rooms : step[k][x] = EvictOnce(x, size) /\ step[k][x] \in Rooms
  BY EvictTurn
<1> HIDE DEF step, n
<1>3. PICK g : Along(g, Rooms, m, step, n)
  BY <1>1, <1>2, Recursion, Zenon
<1>4. g \in [0..n -> Rooms] /\ g[0] = m /\ \A k \in 1..n : g[k] = step[k][g[k - 1]]
  BY <1>3 DEF Along
<1>5. Room(g)
  <2>1. \A k \in 1..n : k - 1 \in 0..n /\ k \in Nat
    BY <1>1
  <2>2. \A k \in 1..n : g[k] = EvictOnce(g[k - 1], size)
    BY <1>2, <1>4, <2>1
  <2>3. \A k \in 0..n : g[k] = IF k = 0 THEN m ELSE EvictOnce(g[k - 1], size)
    BY <1>1, <1>4, <2>2
  <2>4. g = [k \in 0..n |-> g[k]]
    BY <1>4
  <2> QED
    BY <2>3, <2>4
<1> DEFINE room == CHOOSE f : Room(f)
<1>6. Room(room)
  BY <1>5, Zenon
<1>7. MakeRoom(m, size) = room[n]
  BY DEF MakeRoom, n
<1> HIDE DEF room
<1>8. /\ room[0] = m
      /\ \A k \in 1..n : room[k] = EvictOnce(room[k - 1], size)
  BY <1>1, <1>6
<1> HIDE DEF Room
<1> DEFINE Fits(x) == x.total + size <= MaxSize \/ x.list = <<>>
           T == {k \in Nat : k <= n => /\ room[k] \in Rooms
                                       /\ Fits(room[k]) \/ Len(room[k].list) = n - k}
<1>9. 0 \in T
  BY <1>1, <1>8 DEF n
<1>10. ASSUME NEW k \in Nat, k \in T PROVE k + 1 \in T
  <2> SUFFICES ASSUME k + 1 <= n
               PROVE  /\ room[k + 1] \in Rooms
                      /\ Fits(room[k + 1]) \/ Len(room[k + 1].list) = n - (k + 1)
    OBVIOUS
  <2>1. k + 1 \in 1..n /\ (k + 1) - 1 = k /\ k <= n
    BY <1>1
  <2>2. room[k] \in Rooms /\ (Fits(room[k]) \/ Len(room[k].list) = n - k)
    BY <1>10, <2>1
  <2>3. room[k + 1] = EvictOnce(room[k], size)
    BY <1>8, <2>1
  <2>4. /\ room[k + 1] \in Rooms
        /\ Fits(room[k]) => room[k + 1] = room[k]
        /\ ~Fits(room[k]) => Len(room[k + 1].list) = Len(room[k].list) - 1
    BY <2>2, <2>3, EvictTurn
  <2>5. Len(room[k].list) = n - k => Len(room[k].list) - 1 = n - (k + 1)
    BY <1>1
  <2> HIDE DEF Fits
  <2>6. CASE Fits(room[k])
    BY <2>4, <2>6
  <2>7. CASE ~Fits(room[k])
    BY <2>2, <2>4, <2>5, <2>7
  <2> QED
    BY <2>6, <2>7
<1> HIDE DEF T
<1>11. \A k \in Nat : k \in T
  BY <1>9, <1>10, Induct
<1>12. room[n] \in Rooms /\ (Fits(room[n]) \/ Len(room[n].list) = n - n)
  BY <1>1, <1>11 DEF T
<1>13. Fits(room[n])
  <2>1. room[n].list \in Seq(CacheEntries)
    BY <1>12 DEF Rooms
  <2>2. Len(room[n].list) = 0 => room[n].list = <<>>
    BY <2>1
  <2> QED
    BY <1>1, <1>12, <2>2
<1> QED
  BY <1>7, <1>12, <1>13

LEMMA Putting ==
  ASSUME NEW list \in Seq(CacheEntries), NEW e \in CacheEntries
  PROVE  /\ Put(list, e) \in Seq(CacheEntries)
         /\ Held(Put(list, e)) <= Held(list) + e.size
         /\ list = <<>> => Held(Put(list, e)) = e.size
<1>1. Held(list) \in Nat /\ e.size \in Nat
  BY HeldNumber DEF CacheEntries
<1>2. CASE \E i \in DOMAIN list : list[i].key = e.key
  <2> DEFINE s == [i \in DOMAIN list |-> IF list[i].key = e.key THEN e ELSE list[i]]
  <2>1. Put(list, e) = s /\ list # <<>>
    BY <1>2 DEF Put
  <2>2. s \in Seq(CacheEntries) /\ Len(s) = Len(list)
    OBVIOUS
  <2>3. ASSUME NEW i \in 1..Len(list) PROVE s[i].size = list[i].size
    <3>1. list[i] \in CacheEntries
      OBVIOUS
    <3>2. list[i].size = SizeOf[list[i].key] /\ e.size = SizeOf[e.key]
      BY <3>1 DEF CacheEntries
    <3>3. s[i] = IF list[i].key = e.key THEN e ELSE list[i]
      OBVIOUS
    <3> HIDE DEF s
    <3> QED
      BY <3>2, <3>3
  <2> HIDE DEF s
  <2>4. Held(s) = Held(list)
    BY <2>2, <2>3, HeldSame
  <2> QED
    BY <1>1, <2>1, <2>2, <2>4
<1>3. CASE ~\E i \in DOMAIN list : list[i].key = e.key
  <2>1. Put(list, e) = Append(list, e)
    BY <1>3 DEF Put
  <2>2. Held(Append(list, e)) = Held(list) + e.size
    BY HeldMore
  <2>3. Append(list, e) \in Seq(CacheEntries)
    OBVIOUS
  <2>4. list = <<>> => Held(list) = 0
    BY HeldNothing
  <2> QED
    BY <1>1, <2>1, <2>2, <2>3, <2>4
<1> QED
  BY <1>2, <1>3

MemoryInv ==
  /\ entries \in Seq(CacheEntries) /\ totalSize \in Nat /\ millis \in Nat
  /\ Held(entries) <= totalSize /\ Held(entries) <= MaxSize

LEMMA SetCachedKeeps ==
  ASSUME MemoryInv, NEW k \in CacheKeys, SetCached(k)
  PROVE  MemoryInv'
<1> DEFINE size == SizeOf[k]
           m == MakeRoom([list |-> entries, total |-> totalSize], size)
           e == [key |-> k, size |-> size, at |-> millis']
<1>1. size \in Nat /\ MaxSize \in Nat /\ Fraction \in Nat \ {0}
  BY CacheAssumption
<1>2. /\ size * Fraction <= MaxSize /\ millis' \in Nat
      /\ entries' = Put(m.list, e) /\ totalSize' = m.total + size
  BY DEF SetCached, Clock, MemoryInv
<1>3. size <= MaxSize
  <2>1. size <= size * Fraction
    BY <1>1
  <2>2. size * Fraction \in Nat
    BY <1>1
  <2> QED
    BY <1>1, <1>2, <2>1, <2>2
<1>4. e \in CacheEntries /\ e.size = size
  BY <1>1, <1>2 DEF CacheEntries
<1>5. [list |-> entries, total |-> totalSize] \in Rooms
  BY DEF MemoryInv, Rooms
<1>6. m \in Rooms /\ (m.total + size <= MaxSize \/ m.list = <<>>)
  BY <1>1, <1>5, RoomMade
<1> HIDE DEF m, e, size
<1>7. m.list \in Seq(CacheEntries) /\ m.total \in Nat /\ Held(m.list) <= m.total
  BY <1>6 DEF Rooms
<1>8. /\ entries' \in Seq(CacheEntries) /\ Held(entries') <= Held(m.list) + size
      /\ m.list = <<>> => Held(entries') = size
  BY <1>2, <1>4, <1>7, Putting
<1>9. Held(m.list) \in Nat /\ Held(entries') \in Nat
  BY <1>7, <1>8, HeldNumber
<1>10. Held(entries') <= totalSize' /\ totalSize' \in Nat
  <2>1. /\ size \in Nat /\ m.total \in Nat /\ totalSize' = m.total + size
        /\ Held(m.list) <= m.total /\ Held(entries') <= Held(m.list) + size
    BY <1>1, <1>2, <1>7, <1>8
  <2> QED
    BY ONLY <1>9, <2>1
<1>11. Held(entries') <= MaxSize
  BY <1>1, <1>2, <1>3, <1>6, <1>7, <1>8, <1>9
<1> QED
  BY <1>2, <1>8, <1>10, <1>11 DEF MemoryInv

LEMMA GetCachedKeeps ==
  ASSUME MemoryInv, NEW k \in CacheKeys, GetCached(k)
  PROVE  MemoryInv'
<1>1. /\ millis' \in Nat /\ totalSize' = totalSize
      /\ entries' = [i \in DOMAIN entries |->
           IF entries[i].key = k THEN [entries[i] EXCEPT !.at = millis'] ELSE entries[i]]
  BY DEF GetCached, Clock, MemoryInv
<1>2. entries \in Seq(CacheEntries)
  BY DEF MemoryInv
<1>3. ASSUME NEW i \in 1..Len(entries)
      PROVE  entries'[i] \in CacheEntries /\ entries'[i].size = entries[i].size
  <2>1. entries[i] \in CacheEntries
    BY <1>2
  <2>2. entries'[i] = IF entries[i].key = k THEN [entries[i] EXCEPT !.at = millis']
                      ELSE entries[i]
    BY SMTT(30), <1>1, <1>2
  <2>3. [entries[i] EXCEPT !.at = millis'] \in CacheEntries
        /\ [entries[i] EXCEPT !.at = millis'].size = entries[i].size
    BY <1>1, <2>1 DEF CacheEntries
  <2> QED
    BY <2>1, <2>2, <2>3
<1>4. entries' \in Seq(CacheEntries) /\ Len(entries') = Len(entries)
  <2>1. Len(entries) \in Nat /\ DOMAIN entries = 1..Len(entries)
    BY <1>2
  <2>2. DOMAIN entries' = 1..Len(entries) /\ entries' = [i \in 1..Len(entries) |-> entries'[i]]
    BY <1>1, <2>1
  <2>3. entries' \in [1..Len(entries) -> CacheEntries]
    BY <1>3, <2>2
  <2> QED
    BY <2>1, <2>3
<1>5. Held(entries') = Held(entries)
  BY <1>2, <1>3, <1>4, HeldSame
<1> QED
  BY <1>1, <1>4, <1>5 DEF MemoryInv

LEMMA DeleteCachedKeeps ==
  ASSUME MemoryInv, NEW k \in CacheKeys, DeleteCached(k)
  PROVE  MemoryInv'
<1>1. PICK i \in DOMAIN entries :
        entries' = RemoveAt(entries, i) /\ totalSize' = totalSize - entries[i].size
  BY DEF DeleteCached
<1>2. entries \in Seq(CacheEntries) /\ totalSize \in Nat /\ i \in 1..Len(entries)
  BY DEF MemoryInv
<1>3. entries' \in Seq(CacheEntries) /\ Held(entries') + entries[i].size = Held(entries)
  BY <1>1, <1>2, Removing, HeldWithout
<1>4. /\ entries[i].size \in Nat /\ Held(entries') \in Nat /\ Held(entries) \in Nat
      /\ MaxSize \in Nat
  BY <1>2, <1>3, Sizes, HeldNumber, CacheAssumption
<1>5. /\ Held(entries) <= totalSize /\ Held(entries) <= MaxSize
      /\ millis \in Nat /\ millis' = millis
  BY DEF MemoryInv, DeleteCached
<1>6. totalSize' \in Nat /\ Held(entries') <= totalSize' /\ Held(entries') <= MaxSize
  BY <1>1, <1>2, <1>3, <1>4, <1>5
<1> QED
  BY <1>3, <1>5, <1>6 DEF MemoryInv

LEMMA MemoryStepKeeps == MemoryInv /\ [MemoryNext]_memoryVars => MemoryInv'
<1> SUFFICES ASSUME MemoryInv, [MemoryNext]_memoryVars PROVE MemoryInv'
  OBVIOUS
<1>1. CASE ClearCache
  <2>1. entries' = <<>> /\ totalSize' = 0 /\ millis' = millis
    BY <1>1 DEF ClearCache
  <2>2. Held(entries') = 0
    BY <2>1, HeldNothing
  <2> QED
    BY <2>1, <2>2, CacheAssumption DEF MemoryInv
<1>2. CASE UNCHANGED memoryVars
  BY <1>2 DEF memoryVars, MemoryInv
<1> QED
  BY <1>1, <1>2, SetCachedKeeps, GetCachedKeeps, DeleteCachedKeeps DEF MemoryNext

\* For any blobs and sizes: what the cache holds is never more than it counts, nor more
\* than it may hold (set, evictLRU, delete and clear of cache.service.ts).
THEOREM CacheAlwaysFits == MemorySpec => []CacheFits
<1>1. MemoryInit => MemoryInv
  BY HeldNothing, CacheAssumption DEF MemoryInit, MemoryInv
<1>2. MemorySpec => []MemoryInv
  BY <1>1, MemoryStepKeeps, PTL DEF MemorySpec
<1>3. MemoryInv => CacheFits
  BY DEF MemoryInv, CacheFits
<1> QED
  BY <1>2, <1>3, PTL

-----------------------------------------------------------------------------
(* BlockedContent                                                            *)

LoadShape(l) == l = [step |-> l.step, since |-> l.since, text |-> l.text]
\* What a load holds and what the copy is were in the file at some time since the load
\* began, and a load that is not over began MaxLoad ago at most; the copy was put there by
\* the last load that was good.
LoadSafe(l) ==
  /\ l.since \in Nat /\ l.since <= now
  /\ l.step # "idle" => now - l.since <= MaxLoad
  /\ l.step = "parse" => l.text \in Unreadable \/ l.text = listFile \/ l.since <= editedAt
  /\ l.step = "answer" => fellOpen \/ l.since <= lastLoad
BlockedInv ==
  /\ now \in Nat /\ lastLoad \in 0..now /\ editedAt \in 0..now
  /\ loads = [p \in Checks |-> loads[p]]
  /\ \A p \in Checks : LoadShape(loads[p]) /\ LoadSafe(loads[p])
  /\ copy # NoCopy /\ ~fellOpen => copy = listFile \/ lastLoad - editedAt <= MaxLoad
  /\ EditHonoured

LEMMA BlockedStarts == BlockedInit => BlockedInv
BY DEF BlockedInit, BlockedInv, Idle, LoadShape, LoadSafe, EditHonoured

\* One load takes its next step, into l.
LEMMA OneLoad ==
  ASSUME loads = [p \in Checks |-> loads[p]], NEW p \in Checks, NEW l,
         loads' = [loads EXCEPT ![p] = l]
  PROVE  /\ loads' = [o \in Checks |-> loads'[o]]
         /\ loads'[p] = l /\ \A o \in Checks : o # p => loads'[o] = loads[o]
OBVIOUS

\* The step from one stage to another leaves the rest of the load.
LEMMA StepOf ==
  ASSUME NEW l, LoadShape(l), NEW step
  PROVE  [l EXCEPT !.step = step] = [step |-> step, since |-> l.since, text |-> l.text]
BY DEF LoadShape

LEMMA TextOf ==
  ASSUME NEW l, LoadShape(l), NEW text
  PROVE  [l EXCEPT !.step = "parse", !.text = text]
           = [step |-> "parse", since |-> l.since, text |-> text]
<1> DEFINE m == [l EXCEPT !.step = "parse"]
<1>1. m = [step |-> "parse", since |-> l.since, text |-> l.text]
  BY StepOf
<1>2. LoadShape(m) /\ m.step = "parse" /\ m.since = l.since
  BY <1>1 DEF LoadShape
<1>3. [l EXCEPT !.step = "parse", !.text = text] = [m EXCEPT !.text = text]
  OBVIOUS
<1> HIDE DEF m
<1>4. [m EXCEPT !.text = text] = [step |-> m.step, since |-> m.since, text |-> text]
  BY <1>2 DEF LoadShape
<1> QED
  BY <1>2, <1>3, <1>4

LEMMA GoesOn ==
  ASSUME BlockedInv, NEW p \in Checks, NEW step, Goes(p, step)
  PROVE  /\ loads' = [o \in Checks |-> loads'[o]]
         /\ loads'[p] = [step |-> step, since |-> loads[p].since, text |-> loads[p].text]
         /\ \A o \in Checks : o # p => loads'[o] = loads[o]
<1>1. loads' = [loads EXCEPT ![p] = [loads[p] EXCEPT !.step = step]]
  BY DEF Goes
<1>2. LoadShape(loads[p]) /\ loads = [o \in Checks |-> loads[o]]
  BY DEF BlockedInv
<1>3. [loads[p] EXCEPT !.step = step]
        = [step |-> step, since |-> loads[p].since, text |-> loads[p].text]
  BY <1>2, StepOf
<1> QED
  BY <1>1, <1>2, <1>3, OneLoad

\* An answer from the copy, at most ReloadInterval, or the time of a load, after the load
\* that put it there.
LEMMA AnswerHonours ==
  ASSUME BlockedInv, AnswerNow,
         copy # NoCopy /\ ~fellOpen =>
           now - lastLoad <= ReloadInterval \/ now - lastLoad <= MaxLoad
  PROVE  EditHonoured'
<1>1. answer' = [from |-> copy, file |-> listFile, age |-> now - editedAt,
                 known |-> copy # NoCopy /\ ~fellOpen]
  BY DEF AnswerNow
<1>2. /\ answer'.from = copy /\ answer'.file = listFile /\ answer'.age = now - editedAt
      /\ answer'.known = (copy # NoCopy /\ ~fellOpen)
  BY <1>1
<1>3. SUFFICES ASSUME copy # NoCopy, ~fellOpen,
                      now - editedAt > ReloadInterval + MaxLoad, now - editedAt > 2 * MaxLoad
               PROVE  copy = listFile
  BY <1>2 DEF EditHonoured
<1>4. copy = listFile \/ lastLoad - editedAt <= MaxLoad
  BY <1>3 DEF BlockedInv
<1>5. /\ now \in Nat /\ lastLoad \in Nat /\ editedAt \in Nat
      /\ ReloadInterval \in Nat /\ MaxLoad \in Nat
  BY BlockedAssumption DEF BlockedInv
<1>6. ~(lastLoad - editedAt <= MaxLoad)
  BY <1>3, <1>5
<1> QED
  BY <1>4, <1>6

LEMMA CheckKeeps ==
  ASSUME BlockedInv, NEW p \in Checks, Check(p)
  PROVE  BlockedInv'
<1>1. UNCHANGED <<now, listFile, copy, lastLoad, edits, editedAt, fellOpen>>
  BY DEF Check
<1>2. CASE copy # NoCopy /\ ~Stale /\ AnswerNow /\ UNCHANGED loads
  <2>1. now - lastLoad <= ReloadInterval
    BY <1>2, BlockedAssumption DEF Stale, BlockedInv
  <2>2. EditHonoured'
    BY <1>2, <2>1, AnswerHonours
  <2> QED
    BY <1>1, <1>2, <2>2 DEF BlockedInv, LoadShape, LoadSafe
<1>3. CASE /\ loads' = [loads EXCEPT ![p] = [step |-> "access", since |-> now, text |-> NoCopy]]
           /\ Silent
  <2> DEFINE l == [step |-> "access", since |-> now, text |-> NoCopy]
  <2>1. /\ loads' = [o \in Checks |-> loads'[o]]
        /\ loads'[p] = l /\ \A o \in Checks : o # p => loads'[o] = loads[o]
    BY <1>3, OneLoad DEF BlockedInv
  <2>2. ASSUME NEW o \in Checks PROVE LoadShape(loads'[o]) /\ LoadSafe(loads[o])'
    <3>1. CASE o = p
      BY <1>1, <2>1, <3>1, BlockedAssumption DEF BlockedInv, LoadShape, LoadSafe
    <3>2. CASE o # p
      BY <1>1, <2>1, <3>2 DEF BlockedInv, LoadShape, LoadSafe
    <3> QED
      BY <3>1, <3>2
  <2> QED
    BY <1>1, <1>3, <2>1, <2>2 DEF BlockedInv, LoadShape, Silent, EditHonoured
<1> QED
  BY <1>2, <1>3 DEF Check

\* A step of a load that changes the file, if anything, and marks the time.
LEMMA FileStepKeeps ==
  ASSUME BlockedInv, NEW p \in Checks, NEW step, step \notin {"idle", "parse", "answer"},
         loads[p].step # "idle", Goes(p, step),
         Silent, UNCHANGED <<now, copy, lastLoad, fellOpen>>,
         UNCHANGED <<listFile, editedAt>> \/ editedAt' = now
  PROVE  BlockedInv'
<1>1. /\ loads' = [o \in Checks |-> loads'[o]]
      /\ loads'[p] = [step |-> step, since |-> loads[p].since, text |-> loads[p].text]
      /\ \A o \in Checks : o # p => loads'[o] = loads[o]
  BY GoesOn
<1>2. ASSUME NEW o \in Checks PROVE LoadShape(loads'[o]) /\ LoadSafe(loads[o])'
  <2>1. CASE o = p
    BY <1>1, <2>1 DEF BlockedInv, LoadShape, LoadSafe
  <2>2. CASE o # p
    BY <1>1, <2>2 DEF BlockedInv, LoadShape, LoadSafe
  <2> QED
    BY <2>1, <2>2
<1>3. copy' # NoCopy /\ ~fellOpen' => copy' = listFile' \/ lastLoad' - editedAt' <= MaxLoad
  <2>1. lastLoad - now <= 0 /\ MaxLoad >= 0
    BY BlockedAssumption DEF BlockedInv
  <2>2. lastLoad - now <= MaxLoad
    BY <2>1, BlockedAssumption DEF BlockedInv
  <2> QED
    BY <2>2 DEF BlockedInv
<1> QED
  BY <1>1, <1>2, <1>3 DEF BlockedInv, LoadShape, Silent, EditHonoured

\* What is there to be parsed: a text that cannot be, or what the file is now.
LEMMA ReadStepKeeps ==
  ASSUME BlockedInv, NEW p \in Checks, NEW text, text \in Unreadable \/ text = listFile,
         loads[p].step # "idle",
         loads' = [loads EXCEPT ![p] = [step |-> "parse", since |-> loads[p].since, text |-> text]],
         Silent, UNCHANGED <<now, listFile, copy, lastLoad, editedAt, fellOpen>>
  PROVE  BlockedInv'
<1>1. /\ loads' = [o \in Checks |-> loads'[o]]
      /\ loads'[p] = [step |-> "parse", since |-> loads[p].since, text |-> text]
      /\ \A o \in Checks : o # p => loads'[o] = loads[o]
  BY OneLoad DEF BlockedInv
<1>2. ASSUME NEW o \in Checks PROVE LoadShape(loads'[o]) /\ LoadSafe(loads[o])'
  <2>1. CASE o = p
    BY <1>1, <2>1 DEF BlockedInv, LoadShape, LoadSafe
  <2>2. CASE o # p
    BY <1>1, <2>2 DEF BlockedInv, LoadShape, LoadSafe
  <2> QED
    BY <2>1, <2>2
<1> QED
  BY <1>1, <1>2 DEF BlockedInv, LoadShape, Silent, EditHonoured

LEMMA ReadKeeps ==
  ASSUME BlockedInv, NEW p \in Checks, Read(p) \/ LoadFails(p)
  PROVE  BlockedInv'
<1> DEFINE l == loads[p]
<1>1. LoadShape(l)
  BY DEF BlockedInv
<1>2. CASE Read(p)
  <2>1. loads' = [loads EXCEPT ![p] = [l EXCEPT !.step = "parse", !.text = listFile]]
    BY <1>2 DEF Read, BlockedInv
  <2>2. [l EXCEPT !.step = "parse", !.text = listFile]
          = [step |-> "parse", since |-> l.since, text |-> listFile]
    BY <1>1, TextOf
  <2> QED
    BY <1>2, <2>1, <2>2, ReadStepKeeps DEF Read, At
<1>3. CASE LoadFails(p)
  <2>1. loads' = [loads EXCEPT ![p] = [l EXCEPT !.step = "parse", !.text = Garbled]]
    BY <1>3 DEF LoadFails, BlockedInv
  <2>2. [l EXCEPT !.step = "parse", !.text = Garbled]
          = [step |-> "parse", since |-> l.since, text |-> Garbled]
    BY <1>1, TextOf
  <2>3. l.step # "idle"
    BY <1>3 DEF LoadFails
  <2> QED
    BY <1>3, <2>1, <2>2, <2>3, ReadStepKeeps DEF LoadFails, Unreadable
<1> QED
  BY <1>2, <1>3

LEMMA ParseKeeps ==
  ASSUME BlockedInv, NEW p \in Checks, Parse(p)
  PROVE  BlockedInv'
<1>1. /\ loads[p].step = "parse" /\ Goes(p, "answer")
      /\ Silent /\ UNCHANGED <<now, listFile, edits, editedAt>>
  BY DEF Parse, At
<1>2. /\ loads' = [o \in Checks |-> loads'[o]]
      /\ loads'[p] = [step |-> "answer", since |-> loads[p].since, text |-> loads[p].text]
      /\ \A o \in Checks : o # p => loads'[o] = loads[o]
  BY <1>1, GoesOn
<1>3. \/ fellOpen' /\ UNCHANGED lastLoad
      \/ copy' = loads[p].text /\ loads[p].text \notin Unreadable /\ ~fellOpen' /\ lastLoad' = now
  BY DEF Parse
<1>4. ASSUME NEW o \in Checks PROVE LoadShape(loads'[o]) /\ LoadSafe(loads[o])'
  <2>1. CASE o = p
    BY <1>1, <1>2, <1>3, <2>1 DEF BlockedInv, LoadShape, LoadSafe
  <2>2. CASE o # p
    BY <1>1, <1>2, <1>3, <2>2 DEF BlockedInv, LoadShape, LoadSafe
  <2> QED
    BY <2>1, <2>2
<1>5. ~fellOpen' => copy' = listFile' \/ lastLoad' - editedAt' <= MaxLoad
  <2>1. SUFFICES ASSUME ~fellOpen', loads[p].text # listFile
                 PROVE  now - editedAt <= MaxLoad
    BY <1>1, <1>3
  <2>2. /\ loads[p].since <= editedAt /\ loads[p].since \in Nat
        /\ now - loads[p].since <= MaxLoad
    BY <1>1, <1>3, <2>1 DEF BlockedInv, LoadSafe
  <2> QED
    BY <2>2, BlockedAssumption DEF BlockedInv
<1>6. lastLoad' \in 0..now'
  BY <1>1, <1>3 DEF BlockedInv
<1> QED
  BY <1>1, <1>2, <1>4, <1>5, <1>6 DEF BlockedInv, LoadShape, Silent, EditHonoured

LEMMA AnsweredKeeps ==
  ASSUME BlockedInv, NEW p \in Checks, Answered(p)
  PROVE  BlockedInv'
<1>1. /\ loads[p].step = "answer" /\ loads' = [loads EXCEPT ![p] = Idle] /\ AnswerNow
      /\ UNCHANGED <<now, listFile, copy, lastLoad, edits, editedAt, fellOpen>>
  BY DEF Answered, At
<1>2. /\ loads' = [o \in Checks |-> loads'[o]]
      /\ loads'[p] = Idle /\ \A o \in Checks : o # p => loads'[o] = loads[o]
  BY <1>1, OneLoad DEF BlockedInv
<1>3. ASSUME NEW o \in Checks PROVE LoadShape(loads'[o]) /\ LoadSafe(loads[o])'
  <2>1. CASE o = p
    BY <1>1, <1>2, <2>1 DEF BlockedInv, LoadShape, LoadSafe, Idle
  <2>2. CASE o # p
    BY <1>1, <1>2, <2>2 DEF BlockedInv, LoadShape, LoadSafe
  <2> QED
    BY <2>1, <2>2
<1>4. ~fellOpen => now - lastLoad <= MaxLoad
  <2>1. SUFFICES ASSUME ~fellOpen PROVE now - lastLoad <= MaxLoad
    OBVIOUS
  <2>2. /\ loads[p].since <= lastLoad /\ loads[p].since \in Nat
        /\ now - loads[p].since <= MaxLoad
    BY <1>1, <2>1 DEF BlockedInv, LoadSafe
  <2> QED
    BY <2>2, BlockedAssumption DEF BlockedInv
<1>5. EditHonoured'
  BY <1>1, <1>4, AnswerHonours
<1> QED
  BY <1>1, <1>2, <1>3, <1>5 DEF BlockedInv, LoadShape

LEMMA EditKeeps ==
  ASSUME BlockedInv, NEW text, Edit(text)
  PROVE  BlockedInv'
<1>1. editedAt' = now /\ Silent /\ UNCHANGED <<now, copy, lastLoad, loads, fellOpen>>
  BY DEF Edit
<1>2. ASSUME NEW o \in Checks PROVE LoadShape(loads'[o]) /\ LoadSafe(loads[o])'
  BY <1>1 DEF BlockedInv, LoadShape, LoadSafe
<1>3. lastLoad - now <= MaxLoad
  BY BlockedAssumption DEF BlockedInv
<1> QED
  BY <1>1, <1>2, <1>3 DEF BlockedInv, LoadShape, Silent, EditHonoured

LEMMA TickKeeps ==
  ASSUME BlockedInv, Tick
  PROVE  BlockedInv'
<1>1. /\ now' = now + 1
      /\ \A p \in Checks : loads[p].step = "idle" \/ now' - loads[p].since <= MaxLoad
      /\ Silent
      /\ UNCHANGED <<listFile, copy, lastLoad, loads, edits, editedAt, fellOpen>>
  BY DEF Tick
<1>2. ASSUME NEW o \in Checks PROVE LoadShape(loads'[o]) /\ LoadSafe(loads[o])'
  BY <1>1 DEF BlockedInv, LoadShape, LoadSafe
<1> QED
  BY <1>1, <1>2 DEF BlockedInv, LoadShape, Silent, EditHonoured

LEMMA BlockedStepKeeps == BlockedInv /\ [BlockedNext]_blockedVars => BlockedInv'
<1> SUFFICES ASSUME BlockedInv, [BlockedNext]_blockedVars PROVE BlockedInv'
  OBVIOUS
<1>1. ASSUME NEW p \in Checks, Access(p) \/ CreateOpens(p) \/ CreateLands(p)
      PROVE  BlockedInv'
  <2>1. CASE Access(p)
    BY <2>1, FileStepKeeps DEF Access, At
  <2>2. CASE CreateOpens(p)
    BY <2>2, FileStepKeeps DEF CreateOpens, At
  <2>3. CASE CreateLands(p)
    BY <2>3, FileStepKeeps DEF CreateLands, At
  <2> QED
    BY <1>1, <2>1, <2>2, <2>3
<1>2. ASSUME NEW p \in Checks,
             Check(p) \/ Read(p) \/ LoadFails(p) \/ Parse(p) \/ Answered(p)
      PROVE  BlockedInv'
  BY <1>2, CheckKeeps, ReadKeeps, ParseKeeps, AnsweredKeeps
<1>3. ASSUME NEW text, Edit(text) PROVE BlockedInv'
  BY <1>3, EditKeeps
<1>4. CASE Tick
  BY <1>4, TickKeeps
<1>5. CASE UNCHANGED blockedVars
  BY <1>5 DEF blockedVars, BlockedInv, LoadShape, LoadSafe, EditHonoured
<1> QED
  BY <1>1, <1>2, <1>3, <1>4, <1>5 DEF BlockedNext

\* isBlocked and isPeerBlocked (blocked-content.service.ts) read the list again once their
\* copy is older than RELOAD_INTERVAL: an edit of the list holds for every answer after the
\* interval and the time of a load, for any number of overlapping checks and edits.
THEOREM EditsAreHonoured == BlockedSpec => []EditHonoured
<1>1. BlockedInit => BlockedInv
  BY BlockedStarts
<1>2. BlockedInv /\ [BlockedNext]_blockedVars => BlockedInv'
  BY BlockedStepKeeps
<1>3. BlockedInv => EditHonoured
  BY DEF BlockedInv
<1> QED
  BY <1>1, <1>2, <1>3, PTL DEF BlockedSpec

-----------------------------------------------------------------------------
(* WriterAuthorization                                                       *)

\* What the sort by time does: the events stay the same, older ones come first, and an
\* event is preceded by as many as are ahead of it.
LEMMA TimeOrders ==
  ASSUME NEW events \in Seq(FeedEvents)
  PROVE  Orders([i \in DOMAIN events |-> Earlier(events, i)])
<1> DEFINE D == DOMAIN events
           ahead == [i \in D |-> Earlier(events, i)]
<1>1. IsFiniteSet(D) /\ D = 1..Len(events) /\ Len(events) \in Nat
  BY FS_Interval
<1>2. \A i \in D : i \in Nat /\ events[i].time \in Nat
  BY <1>1, WriterAssumption
<1>3. DOMAIN ahead = D
  OBVIOUS
<1>4. \A i, j \in D : j \in ahead[i] <=>
        events[j].time < events[i].time \/ (events[j].time = events[i].time /\ j < i)
  BY DEF Earlier
<1>5. \A i \in D : ahead[i] \subseteq D
  BY DEF Earlier
<1> HIDE DEF ahead, D
<1>6. \A i \in D : i \notin ahead[i]
  BY <1>2, <1>4
<1>7. \A i, j \in D : i = j \/ i \in ahead[j] \/ j \in ahead[i]
  BY <1>2, <1>4
<1>8. ASSUME NEW i \in D, NEW j \in D, i \in ahead[j], NEW h \in ahead[i] PROVE h \in ahead[j]
  <2>1. h \in D
    BY <1>5, <1>8
  <2> QED
    BY <1>2, <1>4, <1>8, <2>1
<1>9. Orders(ahead)
  BY <1>1, <1>3, <1>5, <1>6, <1>7, <1>8 DEF Orders
<1> QED
  BY <1>9 DEF ahead, D

RankOf(events, i) == Cardinality(Earlier(events, i))

LEMMA Sorting ==
  ASSUME NEW events \in Seq(FeedEvents)
  PROVE  /\ ByTime(events) \in Seq(FeedEvents) /\ Len(ByTime(events)) = Len(events)
         /\ ToSet(ByTime(events)) = ToSet(events)
         /\ \A k \in 1..Len(events) : \E i \in 1..Len(events) :
              RankOf(events, i) = k - 1 /\ ByTime(events)[k] = events[i]
         /\ \A i \in 1..Len(events) :
              RankOf(events, i) + 1 \in 1..Len(events) /\ ByTime(events)[RankOf(events, i) + 1] = events[i]
         /\ \A i, j \in 1..Len(events) :
              i \in Earlier(events, j) <=> RankOf(events, i) < RankOf(events, j)
<1> DEFINE n == Len(events)
           ahead == [i \in DOMAIN events |-> Earlier(events, i)]
<1>1. n \in Nat /\ DOMAIN events = 1..n /\ \A i \in 1..n : events[i] \in FeedEvents
  OBVIOUS
<1>2. Orders(ahead)
  BY TimeOrders
<1>3. DOMAIN ahead = 1..n /\ \A i \in 1..n : Cardinality(ahead[i]) = RankOf(events, i)
                                             /\ ahead[i] = Earlier(events, i)
  BY <1>1 DEF RankOf
<1>5. ByTime(events) = Arranged(events, ahead)
  BY DEF ByTime
<1>6. ToSet(events) = {events[i] : i \in 1..n}
  BY <1>1 DEF ToSet
<1> HIDE DEF ahead, n
<1>4. Cardinality(DOMAIN ahead) = n
  <2>1. Cardinality(1..n) = n
    BY <1>1, FS_Interval
  <2> QED
    BY <1>3, <2>1
<1>7. \A i \in DOMAIN ahead : events[i] \in FeedEvents
  BY <1>1, <1>3
<1>8. /\ ByTime(events) \in Seq(FeedEvents) /\ Len(ByTime(events)) = n
      /\ ToSet(ByTime(events)) = ToSet(events)
  <2>1. {events[i] : i \in 1..n} = {events[i] : i \in DOMAIN ahead}
    BY <1>3
  <2> QED
    <3>1. /\ Arranged(events, ahead) \in Seq(FeedEvents)
          /\ Len(Arranged(events, ahead)) = Cardinality(DOMAIN ahead)
          /\ ToSet(Arranged(events, ahead)) = {events[i] : i \in DOMAIN ahead}
      BY <1>2, <1>7, Arranging, SMTT(60)
    <3> QED
      BY <1>4, <1>5, <1>6, <2>1, <3>1
<1>9. \A k \in 1..n : \E i \in DOMAIN ahead :
         Cardinality(ahead[i]) = k - 1 /\ ByTime(events)[k] = events[i]
  <2>1. \A k \in 1..Cardinality(DOMAIN ahead) : \E i \in DOMAIN ahead :
          Cardinality(ahead[i]) = k - 1 /\ Arranged(events, ahead)[k] = events[i]
    BY <1>2, <1>7, Arranging, SMTT(60)
  <2> QED
    BY <1>4, <1>5, <2>1
<1>10. \A i \in DOMAIN ahead : ByTime(events)[Cardinality(ahead[i]) + 1] = events[i]
  BY <1>2, <1>5, <1>7, Arranging
<1>11. /\ \A i \in DOMAIN ahead : Cardinality(ahead[i]) + 1 \in 1..n
       /\ \A i, j \in DOMAIN ahead :
            i \in ahead[j] <=> Cardinality(ahead[i]) < Cardinality(ahead[j])
  <2>1. /\ \A i \in DOMAIN ahead : Cardinality(ahead[i]) + 1 \in 1..Cardinality(DOMAIN ahead)
        /\ \A i, j \in DOMAIN ahead :
             i \in ahead[j] <=> Cardinality(ahead[i]) < Cardinality(ahead[j])
    BY <1>2, Ranks
  <2> QED
    BY <1>4, <2>1
<1> QED
  <2>1. \A k \in 1..n : \E i \in 1..n :
          RankOf(events, i) = k - 1 /\ ByTime(events)[k] = events[i]
    BY <1>3, <1>9
  <2>2. \A i \in 1..n :
          RankOf(events, i) + 1 \in 1..n /\ ByTime(events)[RankOf(events, i) + 1] = events[i]
    BY <1>3, <1>10, <1>11
  <2>3. \A i, j \in 1..n : i \in Earlier(events, j) <=> RankOf(events, i) < RankOf(events, j)
    BY <1>3, <1>11
  <2> QED
    BY <1>8, <2>1, <2>2, <2>3 DEF n

LEMMA RankIsNumber ==
  ASSUME NEW events \in Seq(FeedEvents), NEW i \in 1..Len(events)
  PROVE  /\ IsFiniteSet(Earlier(events, i)) /\ RankOf(events, i) \in Nat
         /\ Earlier(events, i) \subseteq 1..Len(events)
<1>1. Earlier(events, i) \in SUBSET (1..Len(events)) /\ Len(events) \in Nat
  BY DEF Earlier
<1>2. IsFiniteSet(1..Len(events))
  BY <1>1, FS_Interval
<1>3. IsFiniteSet(Earlier(events, i))
  BY <1>1, <1>2, FS_Subset
<1> QED
  BY <1>1, <1>3, FS_CardinalityType DEF RankOf

LEMMA OlderFirst ==
  ASSUME NEW events \in Seq(FeedEvents), NEW a \in 1..Len(events), NEW b \in 1..Len(events), a < b
  PROVE  ByTime(events)[a].time <= ByTime(events)[b].time
<1>1. PICK i \in 1..Len(events) : RankOf(events, i) = a - 1 /\ ByTime(events)[a] = events[i]
  BY Sorting
<1>2. PICK j \in 1..Len(events) : RankOf(events, j) = b - 1 /\ ByTime(events)[b] = events[j]
  BY Sorting
<1>3. RankOf(events, i) < RankOf(events, j)
  BY <1>1, <1>2
<1>4. i \in Earlier(events, j)
  BY <1>3, Sorting
<1>5. events[i].time \in Nat /\ events[j].time \in Nat
  BY WriterAssumption
<1> QED
  BY <1>1, <1>2, <1>4, <1>5 DEF Earlier

\* Of two orders of the same events, neither has a younger event at a place.
Younger(events, t) == {j \in 1..Len(events) : events[j].time < t}

LEMMA PlaceBounds ==
  ASSUME NEW events \in Seq(FeedEvents), NEW k \in 1..Len(events), NEW t \in Nat
  PROVE  /\ IsFiniteSet(Younger(events, t)) /\ Cardinality(Younger(events, t)) \in Nat
         /\ ByTime(events)[k].time < t => k <= Cardinality(Younger(events, t))
         /\ t <= ByTime(events)[k].time => Cardinality(Younger(events, t)) <= k - 1
<1> DEFINE Y == Younger(events, t)
<1>1. PICK i \in 1..Len(events) : RankOf(events, i) = k - 1 /\ ByTime(events)[k] = events[i]
  BY Sorting
<1>2. Y \in SUBSET (1..Len(events)) /\ Len(events) \in Nat /\ IsFiniteSet(1..Len(events))
  BY FS_Interval DEF Younger
<1>3. IsFiniteSet(Y) /\ Cardinality(Y) \in Nat
  <2>1. IsFiniteSet(Y)
    BY <1>2, FS_Subset
  <2> QED
    BY <2>1, FS_CardinalityType
<1>4. IsFiniteSet(Earlier(events, i)) /\ Cardinality(Earlier(events, i)) = k - 1
  BY <1>1, RankIsNumber DEF RankOf
<1>5. \A j \in 1..Len(events) : events[j].time \in Nat
  BY WriterAssumption
<1>6. ASSUME events[i].time < t PROVE k <= Cardinality(Y)
  <2>1. i \notin Earlier(events, i)
    BY <1>5 DEF Earlier
  <2>2. Earlier(events, i) \cup {i} \in SUBSET Y
    BY <1>5, <1>6 DEF Earlier, Younger
  <2>3. Cardinality(Earlier(events, i) \cup {i}) = k
    <3>1. Cardinality(Earlier(events, i) \cup {i}) = Cardinality(Earlier(events, i)) + 1
      BY <1>4, <2>1, FS_AddElement
    <3> QED
      BY <1>4, <3>1
  <2> QED
    BY <1>3, <2>2, <2>3, FS_Subset
<1>7. ASSUME t <= events[i].time PROVE Cardinality(Y) <= k - 1
  <2>1. Y \in SUBSET Earlier(events, i)
    BY <1>5, <1>7 DEF Earlier, Younger
  <2> QED
    BY <1>4, <2>1, FS_Subset
<1> QED
  BY <1>1, <1>3, <1>6, <1>7

LEMMA PermutedCount ==
  ASSUME NEW n \in Nat, NEW f \in Bijection(1..n, 1..n), NEW S \in SUBSET (1..n)
  PROVE  Cardinality({j \in 1..n : f[j] \in S}) = Cardinality(S)
<1> DEFINE T == {j \in 1..n : f[j] \in S}
           g == [j \in T |-> f[j]]
<1>1. f \in [1..n -> 1..n] /\ \A w \in 1..n : \E v \in 1..n : f[v] = w
  BY DEF Bijection, Surjection
<1>3. IsFiniteSet(1..n)
  BY FS_Interval
<1>5. \A i, j \in 1..n : f[i] = f[j] => i = j
  BY DEF Bijection, Injection, IsInjective
<1>6. g \in [T -> S] /\ (\A i, j \in T : g[i] = g[j] => i = j) /\ \A w \in S : \E v \in T : g[v] = w
  BY <1>1, <1>5
<1>7. T \in SUBSET (1..n)
  OBVIOUS
<1> HIDE DEF T, g
<1>8. ExistsBijection(T, S)
  BY <1>6 DEF ExistsBijection, Bijection, Injection, Surjection, IsInjective
<1>9. IsFiniteSet(T)
  BY <1>3, <1>7, FS_Subset
<1>10. Cardinality(T) = Cardinality(S)
  BY <1>8, <1>9, FS_Bijection
<1> QED
  BY <1>10 DEF T

LEMMA OrderDoesNotMatter ==
  ASSUME arrived \in Seq(FeedEvents), ~SameTime, NEW f \in Bijection(DOMAIN arrived, DOMAIN arrived)
  PROVE  ByTime(Reordered(f)) = ByTime(arrived)
<1> DEFINE n == Len(arrived)
           other == Reordered(f)
<1>1. n \in Nat /\ DOMAIN arrived = 1..n
  OBVIOUS
<1>2. f \in [1..n -> 1..n]
  BY <1>1 DEF Bijection, Injection
<1>3. /\ other \in Seq(FeedEvents) /\ Len(other) = n
      /\ \A i \in 1..n : other[i] = arrived[f[i]]
  BY <1>1, <1>2 DEF Reordered
<1>4. \A i, j \in 1..n : arrived[i].time = arrived[j].time => arrived[i] = arrived[j]
  BY <1>1 DEF SameTime
<1> HIDE DEF other, n
<1>5. \A t \in Nat : Cardinality(Younger(other, t)) = Cardinality(Younger(arrived, t))
  <2> TAKE t \in Nat
  <2>1. Younger(arrived, t) \in SUBSET (1..n)
    BY DEF Younger, n
  <2>2. Younger(other, t) = {j \in 1..n : f[j] \in Younger(arrived, t)}
    BY <1>2, <1>3 DEF Younger, n
  <2>3. f \in Bijection(1..n, 1..n)
    BY <1>1
  <2> QED
    BY <1>1, <2>1, <2>2, <2>3, PermutedCount
<1>6. ASSUME NEW k \in 1..n PROVE ByTime(other)[k] = ByTime(arrived)[k]
  <2>1. PICK i \in 1..n : ByTime(other)[k] = other[i]
    BY <1>3, Sorting
  <2>2. PICK j \in 1..n : ByTime(arrived)[k] = arrived[j]
    BY Sorting DEF n
  <2>3. ByTime(other)[k] = arrived[f[i]] /\ f[i] \in 1..n
    BY <1>2, <1>3, <2>1
  <2> DEFINE s == ByTime(other)[k].time
             t == ByTime(arrived)[k].time
  <2>4. s \in Nat /\ t \in Nat
    BY <2>2, <2>3, WriterAssumption DEF n
  <2> HIDE DEF s, t
  <2>5. /\ Cardinality(Younger(other, s)) \in Nat /\ Cardinality(Younger(other, t)) \in Nat
        /\ s < t => k <= Cardinality(Younger(other, t))
        /\ Cardinality(Younger(other, s)) <= k - 1
    <3>1. k \in 1..Len(other) /\ s = ByTime(other)[k].time /\ s <= s
      BY <1>3, <2>4 DEF s
    <3>2. /\ Cardinality(Younger(other, t)) \in Nat
          /\ ByTime(other)[k].time < t => k <= Cardinality(Younger(other, t))
      BY ONLY <1>3, <2>4, <3>1, PlaceBounds
    <3>3. /\ Cardinality(Younger(other, s)) \in Nat
          /\ s <= ByTime(other)[k].time => Cardinality(Younger(other, s)) <= k - 1
      BY ONLY <1>3, <2>4, <3>1, PlaceBounds
    <3> QED
      BY <3>1, <3>2, <3>3
  <2>6. /\ t < s => k <= Cardinality(Younger(arrived, s))
        /\ Cardinality(Younger(arrived, t)) <= k - 1
    <3>1. k \in 1..Len(arrived) /\ t = ByTime(arrived)[k].time /\ t <= t
          /\ arrived \in Seq(FeedEvents)
      BY <2>4 DEF t, n
    <3>2. ByTime(arrived)[k].time < s => k <= Cardinality(Younger(arrived, s))
      BY ONLY <2>4, <3>1, PlaceBounds
    <3>3. t <= ByTime(arrived)[k].time => Cardinality(Younger(arrived, t)) <= k - 1
      BY ONLY <2>4, <3>1, PlaceBounds
    <3> QED
      BY <3>1, <3>2, <3>3
  <2>7. ~(s < t) /\ ~(t < s)
    BY <1>5, <2>4, <2>5, <2>6
  <2>8. s = t
    BY <2>4, <2>7
  <2> QED
    BY <1>4, <2>2, <2>3, <2>8 DEF s, t
<1>7. ByTime(other) \in Seq(FeedEvents) /\ Len(ByTime(other)) = n
  BY <1>3, Sorting
<1>8. ByTime(arrived) \in Seq(FeedEvents) /\ Len(ByTime(arrived)) = n
  BY Sorting DEF n
<1>9. ByTime(other) = ByTime(arrived)
  BY <1>1, <1>6, <1>7, <1>8
<1> QED
  BY <1>9 DEF other

\* The feed has the events that are not censored, each as it was validated.
LEMMA Assembled ==
  ASSUME NEW events \in Seq(FeedEvents), NEW ctx, NEW at
  PROVE  ToSet(AssembleFeed(events, ctx, at)) =
           {v \in {[event |-> ByTime(events)[k],
                    state |-> ValidateEvent(ByTime(events)[k], SubSeq(ByTime(events), 1, k - 1),
                                            ctx, at)] : k \in 1..Len(events)} :
              v.state # "censored"}
<1> DEFINE sorted == ByTime(events)
           n == Len(events)
           V(k) == [event |-> sorted[k],
                    state |-> ValidateEvent(sorted[k], SubSeq(sorted, 1, k - 1), ctx, at)]
           validated == [k \in DOMAIN sorted |-> V(k)]
           kept == {k \in DOMAIN validated : validated[k].state # "censored"}
           E == {V(k) : k \in 1..n}
<1>1. DOMAIN sorted = 1..n /\ n \in Nat
  <2>1. sorted \in Seq(FeedEvents) /\ Len(sorted) = n
    BY Sorting
  <2> QED
    BY <2>1
<1>2. AssembleFeed(events, ctx, at) = Filtered(validated, kept)
  BY DEF AssembleFeed
<1> HIDE DEF V, sorted, n
<1>3. validated = [k \in 1..n |-> V(k)] /\ \A k \in 1..n : V(k) \in E
  BY <1>1
<1>4. validated \in Seq(E) /\ DOMAIN validated = 1..n /\ \A k \in 1..n : validated[k] = V(k)
  <2> HIDE DEF validated, E
  <2> QED
    BY <1>1, <1>3
<1>5. kept = {k \in 1..n : V(k).state # "censored"}
  BY <1>4
<1> HIDE DEF validated, kept, E
<1>6. ToSet(Filtered(validated, kept)) = {validated[k] : k \in kept}
  <2>1. kept \in SUBSET DOMAIN validated
    BY <1>4, <1>5
  <2> QED
    BY <1>4, <2>1, Filtering
<1>7. {validated[k] : k \in kept} = {v \in E : v.state # "censored"}
  BY <1>4, <1>5 DEF E
<1>8. ToSet(AssembleFeed(events, ctx, at)) = {v \in E : v.state # "censored"}
  BY <1>2, <1>6, <1>7
<1> QED
  BY <1>8 DEF E, V, sorted, n

LEMMA RepliesFollow ==
  ASSUME arrived \in Seq(FeedEvents), NEW v \in ToSet(AssembleFeed(arrived, context, moment)),
         v.state = "valid", v.event.parent # NoParent
  PROVE  \E p \in Parents(v.event) : p.signed /\ p.time <= v.event.time
<1> DEFINE n == Len(arrived)
           sorted == ByTime(arrived)
<1>1. PICK k \in 1..n :
        v = [event |-> sorted[k],
             state |-> ValidateEvent(sorted[k], SubSeq(sorted, 1, k - 1), context, moment)]
  BY Assembled
<1>2. v.event = sorted[k]
      /\ ValidateEvent(sorted[k], SubSeq(sorted, 1, k - 1), context, moment) = "valid"
  BY <1>1
<1>3. sorted \in Seq(FeedEvents) /\ Len(sorted) = n /\ ToSet(sorted) = ToSet(arrived) /\ n \in Nat
  BY Sorting
<1> HIDE DEF sorted
<1> DEFINE earlier == SubSeq(sorted, 1, k - 1)
<1>4. ValidateMessageChain(sorted[k], earlier)
  BY <1>2 DEF ValidateEvent
<1>5. PICK i \in DOMAIN earlier : earlier[i].cid = sorted[k].parent /\ earlier[i].signed
  BY <1>2, <1>4 DEF ValidateMessageChain, VerifyWriterSignature
<1>6. i \in 1..(k - 1) /\ earlier[i] = sorted[i]
  BY <1>3
<1>7. i \in 1..n /\ i < k
  BY <1>3, <1>6
<1>8. sorted[i] \in ToSet(arrived)
  <2>1. ToSet(sorted) = {sorted[j] : j \in 1..n}
    BY <1>3 DEF ToSet
  <2> QED
    BY <1>3, <1>7, <2>1
<1>9. sorted[i].time <= sorted[k].time
  BY <1>7, OlderFirst DEF sorted
<1> QED
  BY <1>2, <1>5, <1>6, <1>8, <1>9 DEF Parents

LEMMA RepliesCount ==
  ASSUME arrived \in Seq(FeedEvents), NEW e \in ToSet(arrived),
         e.signed, ValidateTimestamp(e, moment), Authorized(e.author, context),
         Parents(e) # {}, \A p \in Parents(e) : p.signed /\ p.time < e.time
  PROVE  [event |-> e, state |-> "valid"] \in ToSet(AssembleFeed(arrived, context, moment))
<1> DEFINE n == Len(arrived)
           sorted == ByTime(arrived)
<1>1. ToSet(arrived) = {arrived[j] : j \in 1..n} /\ n \in Nat
  BY DEF ToSet
<1>2. PICK i \in 1..n : e = arrived[i]
  BY <1>1
<1>3. PICK p \in Parents(e) : p.signed /\ p.time < e.time
  OBVIOUS
<1>4. PICK j \in 1..n : p = arrived[j]
  BY <1>1, <1>3 DEF Parents
<1>5. p.cid = e.parent
  BY <1>3 DEF Parents
<1> DEFINE k == RankOf(arrived, i) + 1
           m == RankOf(arrived, j) + 1
<1>6. j \in Earlier(arrived, i)
  BY <1>2, <1>3, <1>4 DEF Earlier
<1>7. k \in 1..n /\ sorted[k] = e /\ m \in 1..n /\ sorted[m] = p
  BY <1>2, <1>4, Sorting
<1>8. m < k
  <2>1. RankOf(arrived, j) < RankOf(arrived, i)
    BY <1>6, Sorting
  <2>2. RankOf(arrived, j) \in Nat /\ RankOf(arrived, i) \in Nat
    BY RankIsNumber
  <2> QED
    BY <2>1, <2>2
<1>9. sorted \in Seq(FeedEvents) /\ Len(sorted) = n /\ ToSet(sorted) = ToSet(arrived)
  BY Sorting
<1> HIDE DEF sorted, k, m
<1> DEFINE earlier == SubSeq(sorted, 1, k - 1)
           at == {h \in DOMAIN earlier : earlier[h].cid = e.parent}
<1>10. DOMAIN earlier = 1..(k - 1) /\ \A h \in 1..(k - 1) : h \in 1..n /\ earlier[h] = sorted[h]
  BY <1>1, <1>7, <1>9
<1>11. m \in at
  BY <1>1, <1>5, <1>7, <1>8, <1>10
<1>12. at \subseteq Nat
  BY <1>10
<1>13. PICK h \in at : \A g \in at : h <= g
  BY <1>11, <1>12, Smallest
<1>14. earlier[h] \in Parents(e)
  <2>1. ToSet(sorted) = {sorted[g] : g \in 1..n}
    BY <1>9 DEF ToSet
  <2>2. h \in 1..n /\ earlier[h] = sorted[h]
    BY <1>10
  <2> QED
    BY <1>9, <2>1, <2>2 DEF Parents
<1>15. ValidateMessageChain(e, earlier)
  <2>1. earlier[h].signed
    BY <1>14
  <2> QED
    BY <1>13, <2>1 DEF ValidateMessageChain, VerifyWriterSignature
<1>16. ValidateEvent(e, earlier, context, moment) = "valid"
  BY <1>15 DEF ValidateEvent, VerifyWriterSignature
<1> DEFINE v == [event |-> sorted[k],
                 state |-> ValidateEvent(sorted[k], SubSeq(sorted, 1, k - 1), context, moment)]
<1>17. v = [event |-> e, state |-> "valid"]
  BY <1>7, <1>16
<1>18. v.state # "censored"
  BY <1>17
<1>19. v \in ToSet(AssembleFeed(arrived, context, moment))
  <2>1. v \in {[event |-> sorted[g],
                state |-> ValidateEvent(sorted[g], SubSeq(sorted, 1, g - 1), context, moment)] :
                 g \in 1..n}
    BY <1>7
  <2> HIDE DEF v
  <2> QED
    BY <1>18, <2>1, Assembled DEF sorted
<1> QED
  BY <1>17, <1>19

\* writer-authorization.service.ts: for any events, lists and clock, clients that were sent
\* the same events in any order assemble the same feed, unless two events bear one time; a
\* valid reply has a signed parent that is not younger, and a reply to signed, older
\* parents is valid.
THEOREM AssembliesAgree == WriterSpec => []AssemblyAgrees
<1> DEFINE Arrivals == arrived \in Seq(FeedEvents)
<1>1. WriterInit => Arrivals
  BY DEF WriterInit
<1>2. Arrivals /\ [WriterNext]_feedVars => Arrivals'
  BY DEF WriterNext, MomentPasses, EventArrives, feedVars
<1>3. Arrivals => AssemblyAgrees
  <2> SUFFICES ASSUME Arrivals PROVE AssemblyAgrees
    OBVIOUS
  <2>1. ASSUME ~SameTime, NEW f \in Bijection(DOMAIN arrived, DOMAIN arrived)
        PROVE  AssembleFeed(Reordered(f), context, moment) = AssembleFeed(arrived, context, moment)
    BY <2>1, OrderDoesNotMatter DEF AssembleFeed
  <2> QED
    BY <2>1, RepliesFollow, RepliesCount DEF AssemblyAgrees
<1> QED
  BY <1>1, <1>2, <1>3, PTL DEF WriterSpec

===============================================================================
