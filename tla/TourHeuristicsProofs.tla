------------------------- MODULE TourHeuristicsProofs -------------------------
(***************************************************************************)
(* For all tours, travel times and bounds: every heuristic has a tour of   *)
(* all vertices at any time, and the restricted dynamic program never runs *)
(* out of walks.                                                           *)
(***************************************************************************)
EXTENDS TourHeuristics, FiniteSetTheorems, SequenceTheorems, WellFoundedInduction, TLAPS

(* Recursion.  Induction is by sets of numbers, with the least one that is not in it.  *)

LEMMA Induction ==
  ASSUME NEW S \in SUBSET Nat, 0 \in S, \A n \in S : n + 1 \in S
  PROVE  S = Nat
<1> DEFINE T == Nat \ S
<1> SUFFICES ASSUME T # {} PROVE FALSE
  OBVIOUS
<1>1. PICK n \in T : \A m \in T : ~ (<<m, n>> \in OpToRel(<, Nat))
  <2>1. T \subseteq Nat  OBVIOUS
  <2> HIDE DEF T
  <2> QED BY <2>1, NatLessThanWellFounded, WFMin
<1>2. \A m \in T : ~ (m < n)
  BY <1>1 DEF OpToRel
<1>3. n # 0 /\ n - 1 \in Nat /\ n - 1 < n  OBVIOUS
<1>4. n - 1 \in S  BY <1>2, <1>3
<1>5. (n - 1) + 1 = n  OBVIOUS
<1> QED BY <1>4, <1>5

\* A set of numbers has a least one.
LEMMA LeastExists ==
  ASSUME NEW T \in SUBSET Nat, T # {}
  PROVE  \E n \in T : \A m \in T : n <= m
<1>1. PICK n \in T : \A m \in T : ~ (<<m, n>> \in OpToRel(<, Nat))
  BY NatLessThanWellFounded, WFMin
<1>2. \A m \in T : ~ (m < n)
  BY <1>1 DEF OpToRel
<1>3. \A m \in T : n <= m
  BY <1>2
<1> QED BY <1>3

\* A function that is defined from one number to the next.
IsRecursion(g, N, base, F, V) ==
  /\ g \in [1 .. N -> V]
  /\ \A n \in 1 .. N : g[n] = IF n = 1 THEN base ELSE F[n][g[n - 1]]

LEMMA RecursionExists ==
  ASSUME NEW V, NEW base \in V, NEW N \in Nat, NEW F \in [1 .. N -> [V -> V]]
  PROVE  \E g : IsRecursion(g, N, base, F, V)
<1> DEFINE T == {m \in Nat : m <= N => \E g : IsRecursion(g, m, base, F, V)}
<1>1. 0 \in T
  <2> DEFINE g == [n \in 1 .. 0 |-> base]
  <2>1. g \in [1 .. 0 -> V] /\ \A n \in 1 .. 0 : FALSE  OBVIOUS
  <2> HIDE DEF g
  <2>2. IsRecursion(g, 0, base, F, V)  BY <2>1 DEF IsRecursion
  <2> QED BY <2>2
<1>2. \A m \in T : m + 1 \in T
  <2> SUFFICES ASSUME NEW m \in Nat, m + 1 <= N, NEW g, IsRecursion(g, m, base, F, V)
               PROVE  \E h : IsRecursion(h, m + 1, base, F, V)
    OBVIOUS
  <2> DEFINE h == [n \in 1 .. m + 1 |-> IF n = 1 THEN base ELSE F[n][g[n - 1]]]
  <2>1. g \in [1 .. m -> V] /\ \A n \in 1 .. m : g[n] = IF n = 1 THEN base ELSE F[n][g[n - 1]]
    BY DEF IsRecursion
  <2>2. \A n \in 1 .. m + 1 : n # 1 => n - 1 \in 1 .. m /\ n \in 1 .. N  OBVIOUS
  <2>3. \A n \in 1 .. m + 1 : h[n] \in V
    <3> SUFFICES ASSUME NEW n \in 1 .. m + 1, n # 1 PROVE F[n][g[n - 1]] \in V
      OBVIOUS
    <3>1. g[n - 1] \in V /\ F[n] \in [V -> V]  BY <2>1, <2>2
    <3> QED BY <3>1
  <2>4. h \in [1 .. m + 1 -> V]  BY <2>3
  <2>5. \A n \in 1 .. m : n \in 1 .. m + 1 /\ h[n] = g[n]  BY <2>1
  <2>6. \A n \in 1 .. m + 1 : h[n] = IF n = 1 THEN base ELSE F[n][h[n - 1]]  BY <2>2, <2>5
  <2> HIDE DEF h
  <2>7. IsRecursion(h, m + 1, base, F, V)  BY <2>4, <2>6 DEF IsRecursion
  <2> QED BY <2>7
<1>3. T = Nat
  <2>1. T \in SUBSET Nat  OBVIOUS
  <2> HIDE DEF T
  <2> QED BY <1>1, <1>2, <2>1, Induction
<1>4. N \in T  BY <1>3
<1> QED BY <1>4

LEMMA LeastSubsetExists ==
  ASSUME NEW S, IsFiniteSet(S), NEW T \in SUBSET SUBSET S, T # {}
  PROVE  \E s \in T : s \in SUBSET S /\ \A t \in SUBSET s : t # s => t \notin T
<1>1. IsWellFoundedOn(StrictSubsetOrdering(S), SUBSET S)
  BY FS_StrictSubsetOrderingWellFounded, FS_FiniteSubsetsOfFinite
<1>2. PICK s \in T : \A t \in T : ~ (<<t, s>> \in StrictSubsetOrdering(S))
  BY <1>1, WFMin
<1>3. \A t \in SUBSET s : t # s => t \notin T
  BY <1>2 DEF StrictSubsetOrdering
<1> QED BY <1>3

First(s) == CHOOSE x \in s : TRUE

\* A function that is defined by taking the elements of a set one by one.
IsFold(g, F, base, D, V) ==
  /\ g \in [SUBSET D -> V]
  /\ \A s \in SUBSET D : g[s] = IF s = {} THEN base ELSE F[First(s)][g[s \ {First(s)}]]

LEMMA FoldExists ==
  ASSUME NEW D, IsFiniteSet(D), NEW V, NEW base \in V, NEW F \in [D -> [V -> V]]
  PROVE  \E g : IsFold(g, F, base, D, V)
<1> DEFINE Small(n) == {s \in SUBSET D : Cardinality(s) <= n}
           Folds(g, n) == \A s \in Small(n) : g[s] = IF s = {} THEN base ELSE F[First(s)][g[s \ {First(s)}]]
           T == {n \in Nat : \E g \in [Small(n) -> V] : Folds(g, n)}
<1>1. \A s \in SUBSET D : s # {} =>
        /\ First(s) \in s /\ First(s) \in D /\ s \ {First(s)} \in SUBSET D
        /\ Cardinality(s) \in Nat /\ Cardinality(s) # 0
        /\ Cardinality(s \ {First(s)}) = Cardinality(s) - 1
  <2> TAKE s \in SUBSET D
  <2> HAVE s # {}
  <2>1. IsFiniteSet(s)  BY FS_Subset
  <2>2. First(s) \in s  BY DEF First
  <2> QED BY <2>1, <2>2, FS_RemoveElement, FS_CardinalityType, FS_EmptySet
<1>2. {} \in SUBSET D /\ Cardinality({}) = 0  BY FS_EmptySet
<1>3. 0 \in T
  <2> DEFINE g == [s \in Small(0) |-> base]
  <2>1. \A s \in Small(0) : s = {}
    <3> SUFFICES ASSUME NEW s \in SUBSET D, Cardinality(s) <= 0, s # {} PROVE FALSE
      OBVIOUS
    <3>1. Cardinality(s) \in Nat /\ Cardinality(s) # 0  BY <1>1
    <3> QED BY <3>1
  <2>2. g \in [Small(0) -> V] /\ Folds(g, 0)  BY <2>1
  <2> HIDE DEF g
  <2> QED BY <2>2
<1>4. \A n \in T : n + 1 \in T
  <2> TAKE n \in T
  <2>1. PICK g \in [Small(n) -> V] : Folds(g, n)  OBVIOUS
  <2>2. n \in Nat  OBVIOUS
  <2> DEFINE h == [s \in Small(n + 1) |-> IF s \in Small(n) THEN g[s] ELSE F[First(s)][g[s \ {First(s)}]]]
  <2>3. \A s \in Small(n + 1) : s # {} => s \ {First(s)} \in Small(n) /\ s \ {First(s)} \in Small(n + 1)
    BY <1>1, <2>2
  <2>4. {} \in Small(n)  BY <1>2, <2>2
  <2>5. h \in [Small(n + 1) -> V]
    <3> SUFFICES ASSUME NEW s \in Small(n + 1), s \notin Small(n)
                 PROVE  F[First(s)][g[s \ {First(s)}]] \in V
      BY <2>1
    <3>1. s # {}  BY <2>4
    <3>2. First(s) \in D /\ g[s \ {First(s)}] \in V  BY <1>1, <2>1, <2>3, <3>1
    <3>3. F[First(s)] \in [V -> V]  BY <3>2
    <3> QED BY <3>2, <3>3
  <2>6. Folds(h, n + 1)
    <3> SUFFICES ASSUME NEW s \in Small(n + 1)
                 PROVE  h[s] = IF s = {} THEN base ELSE F[First(s)][h[s \ {First(s)}]]
      OBVIOUS
    <3>1. s # {} => h[s \ {First(s)}] = g[s \ {First(s)}]  BY <2>3
    <3>2. CASE s \in Small(n)
      <4>1. h[s] = g[s]  BY <3>2
      <4>2. g[s] = IF s = {} THEN base ELSE F[First(s)][g[s \ {First(s)}]]  BY <2>1, <3>2
      <4> QED BY <3>1, <4>1, <4>2
    <3>3. CASE s \notin Small(n)
      <4>1. h[s] = F[First(s)][g[s \ {First(s)}]] /\ s # {}  BY <2>4, <3>3
      <4> QED BY <3>1, <4>1
    <3> QED BY <3>2, <3>3
  <2> HIDE DEF h, Folds, Small
  <2> QED BY <2>2, <2>5, <2>6
<1>5. T = Nat
  <2>1. T \in SUBSET Nat  OBVIOUS
  <2> HIDE DEF T
  <2> QED BY <1>3, <1>4, <2>1, Induction
<1>6. Cardinality(D) \in Nat  BY FS_CardinalityType
<1>7. Small(Cardinality(D)) = SUBSET D
  <2>1. \A s \in SUBSET D : Cardinality(s) <= Cardinality(D)  BY FS_Subset
  <2> QED BY <2>1
<1>8. PICK g \in [Small(Cardinality(D)) -> V] : Folds(g, Cardinality(D))
  BY <1>5, <1>6
<1>9. g \in [SUBSET D -> V] /\ \A s \in SUBSET D : g[s] = IF s = {} THEN base ELSE F[First(s)][g[s \ {First(s)}]]
  BY <1>7, <1>8
<1> QED BY <1>9 DEF IsFold

-----------------------------------------------------------------------------
(* Sequences.                                                              *)

LEMMA SetOfConcat ==
  ASSUME NEW U, NEW s \in Seq(U), NEW t \in Seq(U)
  PROVE  /\ s \o t \in Seq(U) /\ Len(s \o t) = Len(s) + Len(t)
         /\ ToSet(s \o t) = ToSet(s) \cup ToSet(t)
         /\ \A i \in 1 .. Len(s) : (s \o t)[i] = s[i]
<1>1. /\ Len(s) \in Nat /\ Len(t) \in Nat /\ DOMAIN s = 1 .. Len(s) /\ DOMAIN t = 1 .. Len(t)
  BY LenProperties
<1>2. /\ s \o t \in Seq(U) /\ Len(s \o t) = Len(s) + Len(t)
      /\ \A i \in 1 .. Len(s) + Len(t) : (s \o t)[i] = IF i <= Len(s) THEN s[i] ELSE t[i - Len(s)]
  BY ConcatProperties
<1>3. DOMAIN (s \o t) = 1 .. Len(s) + Len(t)  BY <1>2, LenProperties
<1> DEFINE r == s \o t
           m == Len(s)
           n == Len(t)
<1> HIDE DEF r, m, n
<1>4. /\ m \in Nat /\ n \in Nat /\ DOMAIN s = 1 .. m /\ DOMAIN t = 1 .. n /\ DOMAIN r = 1 .. m + n
      /\ \A i \in 1 .. m + n : r[i] = IF i <= m THEN s[i] ELSE t[i - m]
  BY <1>1, <1>2, <1>3 DEF r, m, n
<1>5. \A i \in 1 .. m : i \in 1 .. m + n /\ r[i] = s[i]  BY <1>4
<1>6. \A i \in 1 .. n : i + m \in 1 .. m + n /\ r[i + m] = t[i]
  <2> TAKE i \in 1 .. n
  <2>1. i + m \in 1 .. m + n /\ ~ (i + m <= m) /\ (i + m) - m = i  BY <1>4
  <2> QED BY <1>4, <2>1
<1>7. \A i \in 1 .. m + n : r[i] \in ToSet(s) \cup ToSet(t)
  <2> TAKE i \in 1 .. m + n
  <2>1. CASE i <= m  BY <1>4, <2>1 DEF ToSet
  <2>2. CASE ~ (i <= m)
    <3>1. i - m \in 1 .. n /\ r[i] = t[i - m]  BY <1>4, <2>2
    <3> QED BY <1>4, <3>1 DEF ToSet
  <2> QED BY <2>1, <2>2
<1>8. ToSet(r) = ToSet(s) \cup ToSet(t)
  <2>1. ToSet(r) \subseteq ToSet(s) \cup ToSet(t)  BY <1>4, <1>7 DEF ToSet
  <2>2. ToSet(s) \subseteq ToSet(r)  BY <1>4, <1>5 DEF ToSet
  <2>3. ToSet(t) \subseteq ToSet(r)
    <3> SUFFICES ASSUME NEW i \in 1 .. n PROVE t[i] \in ToSet(r)
      BY <1>4 DEF ToSet
    <3>1. i + m \in DOMAIN r /\ r[i + m] = t[i]  BY <1>4, <1>6
    <3> QED BY <3>1 DEF ToSet
  <2> QED BY <2>1, <2>2, <2>3
<1> QED BY <1>2, <1>5, <1>8 DEF r, m

LEMMA SetOfReverse ==
  ASSUME NEW U, NEW s \in Seq(U)
  PROVE  Reverse(s) \in Seq(U) /\ Len(Reverse(s)) = Len(s) /\ ToSet(Reverse(s)) = ToSet(s)
<1> DEFINE n == Len(s)
           r == Reverse(s)
<1>1. n \in Nat /\ DOMAIN s = 1 .. n /\ \A i \in 1 .. n : s[i] \in U  BY LenProperties, ElementOfSeq
<1>2. \A i \in 1 .. n : (n - i) + 1 \in 1 .. n /\ (n - ((n - i) + 1)) + 1 = i  BY <1>1
<1>3. r = [i \in 1 .. n |-> s[(n - i) + 1]]  BY DEF Reverse
<1> HIDE DEF n, r
<1>4. r \in [1 .. n -> U] /\ DOMAIN r = 1 .. n  BY <1>1, <1>2, <1>3
<1>5. r \in Seq(U) /\ Len(r) = n  BY <1>1, <1>4
<1>6. ToSet(r) = ToSet(s)
  <2>1. \A i \in 1 .. n : r[i] = s[(n - i) + 1] /\ s[i] = r[(n - i) + 1]  BY <1>2, <1>3
  <2>2. \A i \in 1 .. n : (n - i) + 1 \in 1 .. n  BY <1>2
  <2>3. DOMAIN s = 1 .. n /\ DOMAIN r = 1 .. n  BY <1>1, <1>4
  <2>4. \A i \in 1 .. n : r[i] \in ToSet(s)  BY <2>1, <2>2, <2>3 DEF ToSet
  <2>5. \A i \in 1 .. n : s[i] \in ToSet(r)  BY <2>1, <2>2, <2>3 DEF ToSet
  <2>6. ToSet(r) \subseteq ToSet(s)  BY <2>3, <2>4 DEF ToSet
  <2>7. ToSet(s) \subseteq ToSet(r)  BY <2>3, <2>5 DEF ToSet
  <2> QED BY <2>6, <2>7
<1> QED BY <1>5, <1>6 DEF n, r

LEMMA SetOfOne ==
  ASSUME NEW U, NEW x \in U
  PROVE  <<x>> \in Seq(U) /\ Len(<<x>>) = 1 /\ ToSet(<<x>>) = {x}
BY DEF ToSet

LEMMA SetOfAppend ==
  ASSUME NEW U, NEW s \in Seq(U), NEW x \in U
  PROVE  /\ Append(s, x) \in Seq(U) /\ Len(Append(s, x)) = Len(s) + 1
         /\ ToSet(Append(s, x)) = ToSet(s) \cup {x}
         /\ (\A i \in 1 .. Len(s) : Append(s, x)[i] = s[i]) /\ Append(s, x)[Len(s) + 1] = x
<1> DEFINE r == Append(s, x)
           n == Len(s)
<1>1. n \in Nat /\ DOMAIN s = 1 .. n  BY LenProperties
<1>2. r \in Seq(U) /\ Len(r) = n + 1 /\ (\A i \in 1 .. n : r[i] = s[i]) /\ r[n + 1] = x
  BY AppendProperties
<1>3. DOMAIN r = 1 .. n + 1  BY <1>2, LenProperties
<1> HIDE DEF r, n
<1>4. \A i \in 1 .. n + 1 : i \in 1 .. n \/ i = n + 1  BY <1>1
<1>5. \A i \in 1 .. n : i \in 1 .. n + 1  BY <1>1
<1>6. n + 1 \in 1 .. n + 1  BY <1>1
<1>7. ToSet(r) = ToSet(s) \cup {x}  BY <1>1, <1>2, <1>3, <1>4, <1>5, <1>6 DEF ToSet
<1> QED BY <1>2, <1>7 DEF r, n

\* What a sequence has at some positions.
At(s, X) == {s[x] : x \in X}

LEMMA AtJoined ==
  ASSUME NEW s, NEW X, NEW Y
  PROVE  At(s, X \cup Y) = At(s, X) \cup At(s, Y)
BY DEF At

LEMMA SliceIs ==
  ASSUME NEW U, NEW s \in Seq(U), NEW i \in 0 .. Len(s), NEW j \in i .. Len(s)
  PROVE  /\ Slice(s, i, j) \in Seq(U) /\ Len(Slice(s, i, j)) = j - i
         /\ ToSet(Slice(s, i, j)) = At(s, i + 1 .. j)
         /\ \A x \in 1 .. j - i : Slice(s, i, j)[x] = s[i + x]
<1> DEFINE r == Slice(s, i, j)
<1>1. Len(s) \in Nat /\ i \in Nat /\ j \in Nat /\ i <= j /\ j <= Len(s)  BY LenProperties
<1>2. \A x \in i + 1 .. j : s[x] \in U
  <2> TAKE x \in i + 1 .. j
  <2>1. x \in 1 .. Len(s)  BY <1>1
  <2> QED BY <2>1, ElementOfSeq
<1>3. PICK m, n : m = i + 1 /\ n = j  OBVIOUS
<1>4. /\ SubSeq(s, m, n) \in Seq(U) /\ Len(SubSeq(s, m, n)) = (IF m <= n THEN n - m + 1 ELSE 0)
      /\ \A x \in 1 .. n - m + 1 : SubSeq(s, m, n)[x] = s[m + x - 1]
  <2>1. m \in Int /\ n \in Int /\ \A x \in m .. n : s[x] \in U  BY <1>1, <1>2, <1>3
  <2> HIDE DEF r
  <2> QED BY <2>1, SubSeqProperties, SMT
<1>5. r = SubSeq(s, m, n)  BY <1>3 DEF Slice
<1> HIDE DEF r
<1>6. (IF m <= n THEN n - m + 1 ELSE 0) = j - i /\ n - m + 1 = j - i
      /\ \A x \in 1 .. j - i : m + x - 1 = i + x /\ i + x \in i + 1 .. j
  BY <1>1, <1>3
<1>7. r \in Seq(U) /\ Len(r) = j - i /\ \A x \in 1 .. j - i : r[x] = s[i + x]
  BY <1>4, <1>5, <1>6
<1>8. DOMAIN r = 1 .. j - i  BY <1>7, LenProperties
<1>9. \A x \in i + 1 .. j : x - i \in 1 .. j - i /\ i + (x - i) = x  BY <1>1
<1>10. ToSet(r) = At(s, i + 1 .. j)
  <2>1. \A y \in 1 .. j - i : r[y] \in At(s, i + 1 .. j)  BY <1>6, <1>7 DEF At
  <2>2. \A x \in i + 1 .. j : s[x] = r[x - i]  BY <1>7, <1>9
  <2> QED BY <1>8, <1>9, <2>1, <2>2 DEF ToSet, At
<1> QED BY <1>7, <1>10 DEF r

-----------------------------------------------------------------------------
(* Tours and what they cost.                                               *)

Places == ToSet(vertices)

LEMMA InjectiveCount ==
  ASSUME NEW U, NEW s \in Seq(U), IsInjective(s)
  PROVE  IsFiniteSet(ToSet(s)) /\ Cardinality(ToSet(s)) = Len(s) /\ ToSet(s) \subseteq U
<1> DEFINE n == Len(s)
<1>1. n \in Nat /\ DOMAIN s = 1 .. n /\ \A i \in 1 .. n : s[i] \in U  BY LenProperties, ElementOfSeq
<1>2. s \in [1 .. n -> U]  BY <1>1
<1> HIDE DEF n
<1>3. \A i \in 1 .. n : s[i] \in ToSet(s)  BY <1>1 DEF ToSet
<1>4. s \in [1 .. n -> ToSet(s)]  BY <1>2, <1>3
<1>5. s \in Bijection(1 .. n, ToSet(s))
  BY <1>1, <1>4 DEF Bijection, Injection, Surjection, IsInjective, ToSet
<1>6. IsFiniteSet(1 .. n) /\ Cardinality(1 .. n) = n
  BY <1>1, FS_Interval
<1>7. ExistsBijection(1 .. n, ToSet(s))  BY <1>5 DEF ExistsBijection
<1>8. IsFiniteSet(ToSet(s)) /\ Cardinality(ToSet(s)) = n  BY <1>6, <1>7, FS_Bijection
<1>9. ToSet(s) \subseteq U  BY <1>1 DEF ToSet
<1> QED BY <1>8, <1>9 DEF n

LEMMA SetOfIsFinite ==
  ASSUME NEW U, NEW s \in Seq(U)
  PROVE  IsFiniteSet(ToSet(s)) /\ ToSet(s) \subseteq U /\ s \in Seq(ToSet(s))
<1> DEFINE n == Len(s)
<1>1. n \in Nat /\ DOMAIN s = 1 .. n /\ \A i \in 1 .. n : s[i] \in U  BY LenProperties, ElementOfSeq
<1>2. s \in [1 .. n -> U]  BY <1>1
<1> HIDE DEF n
<1>3. \A i \in 1 .. n : s[i] \in ToSet(s)  BY <1>1 DEF ToSet
<1>4. s \in [1 .. n -> ToSet(s)]  BY <1>2, <1>3
<1>5. s \in Surjection(1 .. n, ToSet(s))
  BY <1>1, <1>4 DEF Surjection, ToSet
<1>6. IsFiniteSet(1 .. n)
  BY <1>1, FS_Interval
<1>7. IsFiniteSet(ToSet(s))  BY <1>5, <1>6, FS_Surjection
<1>8. ToSet(s) \subseteq U  BY <1>1 DEF ToSet
<1>9. s \in Seq(ToSet(s))  BY <1>1, <1>4
<1> QED BY <1>7, <1>8, <1>9

LEMMA PlacesAre ==
  /\ Size \in Nat /\ Size >= 3 /\ k \in Nat /\ 2 <= k /\ k < Size
  /\ vertices \in Seq(Places) /\ Len(vertices) = Size /\ DOMAIN vertices = 1 .. Size
  /\ IsInjective(vertices)
  /\ IsFiniteSet(Places) /\ Cardinality(Places) = Size
<1>1. vertices \in Seq(Places) /\ IsInjective(vertices) /\ k \in Nat /\ 2 <= k /\ k < Size
  BY HeuristicsAssumption DEF Places
<1>2. Size \in Nat /\ Len(vertices) = Size /\ DOMAIN vertices = 1 .. Size
  BY <1>1, LenProperties DEF Size
<1>3. IsFiniteSet(Places) /\ Cardinality(Places) = Size
  BY <1>1, InjectiveCount DEF Size, Places
<1>4. Size >= 3  BY <1>1, <1>2
<1> QED BY <1>1, <1>2, <1>3, <1>4

IsTour(t) == t \in Seq(Places) /\ Len(t) = Size /\ ToSet(t) = Places

LEMMA VerticesAreTour == IsTour(vertices)
BY PlacesAre DEF IsTour, Places

LEMMA TourPlaces ==
  ASSUME NEW t, IsTour(t)
  PROVE  t \in Seq(Places) /\ Len(t) = Size /\ DOMAIN t = 1 .. Size /\ \A i \in 1 .. Size : t[i] \in Places
BY LenProperties, ElementOfSeq DEF IsTour

\* A walk of as many different vertices as there are is a tour.
LEMMA FullWalk ==
  ASSUME NEW w \in Seq(Places), IsInjective(w), Len(w) = Size
  PROVE  IsTour(w)
<1>1. IsFiniteSet(ToSet(w)) /\ Cardinality(ToSet(w)) = Size /\ ToSet(w) \subseteq Places
  BY InjectiveCount
<1>2. ToSet(w) = Places  BY <1>1, PlacesAre, FS_Subset
<1> QED BY <1>2 DEF IsTour

\* A shorter walk leaves a vertex out.
LEMMA ShortWalk ==
  ASSUME NEW w \in Seq(Places), IsInjective(w), Len(w) < Size
  PROVE  \E i \in 1 .. Size : vertices[i] \notin ToSet(w)
<1>1. IsFiniteSet(ToSet(w)) /\ Cardinality(ToSet(w)) = Len(w) /\ ToSet(w) \subseteq Places
  BY InjectiveCount
<1>2. Len(w) # Size  BY PlacesAre, LenProperties
<1>3. ToSet(w) # Places  BY <1>1, <1>2, PlacesAre
<1>4. PICK v \in Places : v \notin ToSet(w)  BY <1>1, <1>3
<1> QED BY <1>4, PlacesAre DEF Places, ToSet

\* The times at which a walk is where.
Follows(g, w) ==
  \A n \in 1 .. Len(w) : g[n] = IF n = 1 THEN 0 ELSE g[n - 1] + distances[<<w[n - 1], w[n]>>][g[n - 1]]

IsTimetable(g, w) == g \in [1 .. Len(w) -> Nat] /\ Follows(g, w)

\* The longest travel time of all.
Slowest ==
  CHOOSE most \in 0 .. Inf :
    /\ most * Size <= Inf
    /\ \A d \in DistanceFuncs, p \in Pairs, t \in 0 .. most * Size : d[p][t] \in 0 .. most

LEMMA SlowestIs ==
  /\ Slowest \in Nat /\ Inf \in Nat /\ Slowest * Size <= Inf
  /\ \A d \in DistanceFuncs, p \in Pairs, t \in 0 .. Slowest * Size : d[p][t] \in 0 .. Slowest
<1>1. /\ Slowest \in 0 .. Inf /\ Slowest * Size <= Inf
      /\ \A d \in DistanceFuncs, p \in Pairs, t \in 0 .. Slowest * Size : d[p][t] \in 0 .. Slowest
  BY TimesAssumption DEF Slowest
<1> QED BY <1>1, HeuristicsAssumption

LEMMA Products ==
  ASSUME NEW m \in Nat, NEW a \in Nat, NEW b \in Nat
  PROVE  m * a \in Nat /\ m * b \in Nat /\ m * (a + 1) = m * a + m /\ (a <= b => m * a <= m * b) /\ m * 0 = 0
<1>1. m * a \in Nat /\ m * b \in Nat /\ m * (a + 1) = m * a + m /\ m * 0 = 0  OBVIOUS
<1>2. ASSUME a <= b PROVE m * a <= m * b
  <2>1. PICK c \in Nat : b = a + c
    <3>1. b - a \in Nat /\ b = a + (b - a)  BY <1>2
    <3> QED BY <3>1
  <2>2. m * b = m * a + m * c /\ m * c \in Nat  BY <2>1
  <2> QED BY <1>1, <2>2
<1> QED BY <1>1, <1>2

LEMMA TimetableExists ==
  ASSUME NEW w \in Seq(Places), 1 <= Len(w), Len(w) <= Size + 1, distances \in DistanceFuncs
  PROVE  \E g : IsTimetable(g, w) /\ g[Len(w)] <= Slowest * (Len(w) - 1)
<1> DEFINE N == Len(w)
           D == distances
           most == Slowest
           size == Size
           Way(n) == D[<<w[n - 1], w[n]>>]
           F == [n \in 1 .. N |-> [x \in Nat |-> IF n = 1 \/ x \notin 0 .. most * size THEN x ELSE x + Way(n)[x]]]
<1>1. N \in Nat /\ 1 <= N /\ N <= size + 1 /\ size \in Nat /\ most \in Nat
  BY LenProperties, PlacesAre, SlowestIs
<1>2. ASSUME NEW n \in 1 .. N, n # 1, NEW t \in 0 .. most * size
      PROVE  Way(n)[t] \in 0 .. most
  <2>1. w[n - 1] \in Places /\ w[n] \in Places  BY <1>1, <1>2, ElementOfSeq
  <2>2. <<w[n - 1], w[n]>> \in Pairs  BY <2>1 DEF Pairs, Places
  <2> QED BY <2>2, SlowestIs, <1>2
<1>3. F \in [1 .. N -> [Nat -> Nat]]
  <2> SUFFICES ASSUME NEW n \in 1 .. N, NEW x \in Nat, n # 1, x \in 0 .. most * size
               PROVE  x + Way(n)[x] \in Nat
    OBVIOUS
  <2>1. Way(n)[x] \in Nat  BY <1>1, <1>2
  <2> QED BY <2>1
<1>4. \A n \in 1 .. N, x \in Nat :
        F[n][x] = IF n = 1 \/ x \notin 0 .. most * size THEN x ELSE x + Way(n)[x]
  OBVIOUS
<1> HIDE DEF F
<1>5. PICK g : IsRecursion(g, N, 0, F, Nat)
  <2> HIDE DEF N
  <2>1. 0 \in Nat /\ N \in Nat  BY <1>1
  <2> QED BY <1>3, <2>1, RecursionExists
<1>6. g \in [1 .. N -> Nat] /\ \A n \in 1 .. N : g[n] = IF n = 1 THEN 0 ELSE F[n][g[n - 1]]
  BY <1>5 DEF IsRecursion
<1> DEFINE T == {m \in Nat : m + 1 <= N => g[m + 1] <= most * m}
<1>7. 0 \in T
  <2>1. most * 0 = 0  BY <1>1
  <2>2. g[1] = 0  BY <1>1, <1>6
  <2> QED BY <2>1, <2>2
<1>8. \A m \in T : m + 1 \in T
  <2> SUFFICES ASSUME NEW m \in Nat, m + 1 <= N => g[m + 1] <= most * m, m + 2 <= N
               PROVE  g[m + 2] <= most * (m + 1)
    BY <1>1
  <2>1. m + 1 \in 1 .. N /\ m + 2 \in 1 .. N /\ m + 2 # 1 /\ (m + 2) - 1 = m + 1 /\ m <= size
    BY <1>1
  <2>2. g[m + 1] <= most * m /\ g[m + 1] \in Nat  BY <2>1, <1>6
  <2>3. most * m <= most * size /\ most * (m + 1) = most * m + most /\ most * m \in Nat /\ most * size \in Nat
    BY <1>1, <2>1, Products
  <2>4. g[m + 1] \in 0 .. most * size  BY <2>2, <2>3
  <2>5. g[m + 2] = g[m + 1] + Way(m + 2)[g[m + 1]]
    <3>1. PICK n, x : n = m + 2 /\ x = g[m + 1]  OBVIOUS
    <3>2. n \in 1 .. N /\ n # 1 /\ n - 1 = m + 1 /\ x \in Nat /\ x \in 0 .. most * size  BY <2>1, <2>2, <2>4, <3>1
    <3>3. g[n] = F[n][x]  BY <1>6, <3>1, <3>2
    <3>4. F[n][x] = x + Way(n)[x]  BY <1>4, <3>2
    <3> HIDE DEF Way
    <3> QED BY <3>1, <3>3, <3>4
  <2>6. Way(m + 2)[g[m + 1]] \in 0 .. most  BY <1>2, <2>1, <2>4
  <2> HIDE DEF Way, most, size
  <2> QED BY <2>2, <2>3, <2>5, <2>6, <1>1
<1>9. T = Nat
  <2>1. T \in SUBSET Nat  OBVIOUS
  <2> HIDE DEF T
  <2> QED BY <1>7, <1>8, <2>1, Induction
<1>10. \A m \in Nat : m + 1 <= N => g[m + 1] <= most * m
  BY <1>9
<1>11. \A n \in 1 .. N : n # 1 => g[n - 1] \in 0 .. most * size
  <2> SUFFICES ASSUME NEW n \in 1 .. N, n # 1 PROVE g[n - 1] \in 0 .. most * size
    OBVIOUS
  <2>1. PICK m \in Nat : n = m + 2
    <3>1. n - 2 \in Nat /\ n = (n - 2) + 2  BY <1>1
    <3> QED BY <3>1
  <2>2. n - 1 = m + 1 /\ m + 1 <= N /\ m <= size /\ n - 1 \in 1 .. N  BY <1>1, <2>1
  <2>3. g[n - 1] <= most * m /\ g[n - 1] \in Nat  BY <1>6, <1>10, <2>2
  <2>4. most * m <= most * size /\ most * m \in Nat /\ most * size \in Nat  BY <1>1, <2>2, Products
  <2> HIDE DEF most, size
  <2> QED BY <2>3, <2>4
<1>12. \A n \in 1 .. N : g[n] = IF n = 1 THEN 0 ELSE g[n - 1] + Way(n)[g[n - 1]]
  <2> TAKE n \in 1 .. N
  <2>1. CASE n = 1  BY <2>1, <1>6
  <2>2. CASE n # 1
    <3>1. g[n] = F[n][g[n - 1]] /\ g[n - 1] \in 0 .. most * size  BY <2>2, <1>6, <1>11
    <3>2. g[n - 1] \in Nat
      <4>1. n - 1 \in 1 .. N  BY <1>1, <2>2
      <4> QED BY <1>6, <4>1
    <3> QED BY <1>4, <3>1, <3>2, <2>2
  <2> QED BY <2>1, <2>2
<1>13. IsTimetable(g, w)  BY <1>6, <1>12 DEF IsTimetable, Follows
<1>14. g[N] <= most * (N - 1)
  <2>1. N - 1 \in Nat /\ (N - 1) + 1 = N  BY <1>1
  <2> QED BY <1>10, <2>1
<1> QED BY <1>13, <1>14

\* A walk is followed in one way only, as far as it goes.
LEMMA TimetableIsOne ==
  ASSUME NEW w, NEW x, Len(w) \in Nat, Len(x) \in Nat, Len(w) <= Len(x), \A n \in 1 .. Len(w) : x[n] = w[n],
         NEW g, NEW h, Follows(g, w), Follows(h, x)
  PROVE  \A n \in 1 .. Len(w) : g[n] = h[n]
<1> DEFINE N == Len(w)
           T == {m \in Nat : m + 1 <= N => g[m + 1] = h[m + 1]}
<1>1. \A n \in 1 .. N : g[n] = IF n = 1 THEN 0 ELSE g[n - 1] + distances[<<w[n - 1], w[n]>>][g[n - 1]]
  BY DEF Follows
<1>2. \A n \in 1 .. N : h[n] = IF n = 1 THEN 0 ELSE h[n - 1] + distances[<<x[n - 1], x[n]>>][h[n - 1]]
  BY DEF Follows
<1>3. \A n \in 1 .. N : x[n] = w[n]  OBVIOUS
<1>4. N \in Nat  OBVIOUS
<1> HIDE DEF N
<1>5. 0 \in T
  <2>1. 1 <= N => 1 \in 1 .. N  BY <1>4
  <2>2. 1 <= N => g[1] = h[1]  BY <1>1, <1>2, <2>1
  <2> QED BY <2>2
<1>6. \A m \in T : m + 1 \in T
  <2> SUFFICES ASSUME NEW m \in Nat, m + 1 <= N => g[m + 1] = h[m + 1], m + 2 <= N
               PROVE  g[m + 2] = h[m + 2]
    BY <1>4
  <2>1. m + 1 \in 1 .. N /\ m + 2 \in 1 .. N /\ m + 2 # 1 /\ (m + 2) - 1 = m + 1  BY <1>4
  <2>2. g[m + 1] = h[m + 1] /\ x[m + 1] = w[m + 1] /\ x[m + 2] = w[m + 2]  BY <2>1, <1>3
  <2>3. g[m + 2] = g[m + 1] + distances[<<w[m + 1], w[m + 2]>>][g[m + 1]]  BY <1>1, <2>1
  <2>4. h[m + 2] = h[m + 1] + distances[<<x[m + 1], x[m + 2]>>][h[m + 1]]  BY <1>2, <2>1
  <2> QED BY <2>2, <2>3, <2>4
<1>7. T = Nat
  <2>1. T \in SUBSET Nat  OBVIOUS
  <2> HIDE DEF T
  <2> QED BY <1>5, <1>6, <2>1, Induction
<1>8. \A m \in Nat : m + 1 <= N => g[m + 1] = h[m + 1]
  BY <1>7
<1>9. \A n \in 1 .. N : n - 1 \in Nat /\ (n - 1) + 1 = n /\ (n - 1) + 1 <= N  BY <1>4
<1>10. \A n \in 1 .. N : g[n] = h[n]
  <2> TAKE n \in 1 .. N
  <2>1. PICK m \in Nat : m + 1 = n /\ m + 1 <= N  BY <1>9
  <2> QED BY <1>8, <2>1
<1> QED BY <1>10 DEF N

LEMMA ArrivalIs ==
  ASSUME NEW w \in Seq(Places), 1 <= Len(w), NEW g, IsTimetable(g, w)
  PROVE  Arrival(w) = g[Len(w)]
<1> DEFINE R(f) == [i \in DOMAIN w |-> IF i = 1 THEN 0 ELSE f[i - 1] + distances[<<w[i - 1], w[i]>>][f[i - 1]]]
           c == CHOOSE f : f = R(f)
<1>1. Len(w) \in Nat /\ DOMAIN w = 1 .. Len(w)  BY LenProperties
<1>2. g \in [1 .. Len(w) -> Nat] /\ Follows(g, w)  BY DEF IsTimetable
<1>3. g = R(g)  BY <1>1, <1>2 DEF Follows
<1>4. c = R(c)
  <2> HIDE DEF R
  <2> QED BY <1>3
<1>5. Arrival(w) = c[Len(w)]  BY DEF Arrival
<1> HIDE DEF c
<1>6. Follows(c, w)  BY <1>1, <1>4 DEF Follows
<1>7. \A n \in 1 .. Len(w) : c[n] = g[n]  BY <1>1, <1>2, <1>6, TimetableIsOne
<1> QED BY <1>1, <1>5, <1>7

LEMMA ArrivalIsNumber ==
  ASSUME NEW w \in Seq(Places), 1 <= Len(w), Len(w) <= Size + 1, distances \in DistanceFuncs
  PROVE  Arrival(w) \in Nat /\ Arrival(w) <= Slowest * (Len(w) - 1)
<1>1. PICK g : IsTimetable(g, w) /\ g[Len(w)] <= Slowest * (Len(w) - 1)
  BY TimetableExists
<1>2. g \in [1 .. Len(w) -> Nat]  BY <1>1 DEF IsTimetable
<1>3. Len(w) \in 1 .. Len(w)  BY LenProperties
<1> QED BY <1>1, <1>2, <1>3, ArrivalIs

\* A walk that is one vertex longer arrives later by the time to this vertex.
LEMMA ArrivalOfAppend ==
  ASSUME NEW w \in Seq(Places), 1 <= Len(w), Len(w) <= Size, NEW v \in Places, distances \in DistanceFuncs
  PROVE  Arrival(Append(w, v)) = Arrival(w) + distances[<<w[Len(w)], v>>][Arrival(w)]
<1> DEFINE x == Append(w, v)
<1>1. /\ x \in Seq(Places) /\ Len(x) = Len(w) + 1
      /\ (\A i \in 1 .. Len(w) : x[i] = w[i]) /\ x[Len(w) + 1] = v
  BY SetOfAppend
<1> HIDE DEF x
<1>2. Len(w) \in Nat /\ Len(x) \in Nat /\ 1 <= Len(x) /\ Len(x) <= Size + 1 /\ Len(w) <= Len(x) /\ Len(w) <= Size + 1
  BY <1>1, LenProperties, PlacesAre
<1>3. PICK g : IsTimetable(g, w)  BY <1>2, TimetableExists
<1>4. PICK h : IsTimetable(h, x)  BY <1>1, <1>2, TimetableExists
<1>5. \A n \in 1 .. Len(w) : g[n] = h[n]
  BY <1>1, <1>2, <1>3, <1>4, TimetableIsOne DEF IsTimetable
<1>6. Arrival(w) = g[Len(w)] /\ Arrival(x) = h[Len(x)]
  BY <1>1, <1>2, <1>3, <1>4, ArrivalIs
<1>7. Len(x) \in 1 .. Len(x) /\ Len(x) # 1 /\ Len(x) - 1 = Len(w) /\ Len(w) \in 1 .. Len(w)  BY <1>1, <1>2
<1>8. h[Len(x)] = h[Len(w)] + distances[<<x[Len(w)], x[Len(x)]>>][h[Len(w)]]
  BY <1>4, <1>7 DEF IsTimetable, Follows
<1>9. h[Len(w)] = g[Len(w)] /\ x[Len(w)] = w[Len(w)] /\ x[Len(x)] = v
  BY <1>1, <1>5, <1>7
<1> QED BY <1>6, <1>8, <1>9 DEF x

LEMMA CostIsNumber ==
  ASSUME NEW t, IsTour(t), distances \in DistanceFuncs
  PROVE  cost(t) \in Nat
<1>1. t \in Seq(Places) /\ Len(t) = Size /\ t[1] \in Places  BY TourPlaces, PlacesAre
<1>2. Append(t, t[1]) \in Seq(Places) /\ Len(Append(t, t[1])) = Size + 1  BY <1>1, SetOfAppend
<1>3. 1 <= Size + 1 /\ Size + 1 <= Size + 1  BY PlacesAre
<1> QED BY <1>2, <1>3, ArrivalIsNumber DEF cost

-----------------------------------------------------------------------------
(* Local search: what is put together again is a tour.                     *)

LEMMA PrefixIs ==
  ASSUME NEW U, NEW s \in Seq(U), NEW j \in 0 .. Len(s)
  PROVE  /\ Slice(s, 0, j) \in Seq(U) /\ Len(Slice(s, 0, j)) = j
         /\ ToSet(Slice(s, 0, j)) = At(s, 1 .. j)
         /\ \A x \in 1 .. j : Slice(s, 0, j)[x] = s[x]
<1>1. PICK z : z = 0  OBVIOUS
<1>2. Len(s) \in Nat  BY LenProperties
<1>3. z \in 0 .. Len(s) /\ j \in z .. Len(s) /\ z + 1 = 1 /\ j - z = j /\ \A x \in 1 .. j : z + x = x  BY <1>1, <1>2
<1>4. /\ Slice(s, z, j) \in Seq(U) /\ Len(Slice(s, z, j)) = j - z
      /\ ToSet(Slice(s, z, j)) = At(s, z + 1 .. j)
      /\ \A x \in 1 .. j - z : Slice(s, z, j)[x] = s[z + x]
  BY <1>3, SliceIs
<1> QED BY <1>1, <1>3, <1>4

LEMMA TourSlice ==
  ASSUME NEW t, IsTour(t), NEW i \in 0 .. Size, NEW j \in i .. Size
  PROVE  /\ Slice(t, i, j) \in Seq(Places) /\ Len(Slice(t, i, j)) = j - i
         /\ ToSet(Slice(t, i, j)) = At(t, i + 1 .. j)
         /\ \A x \in 1 .. j - i : Slice(t, i, j)[x] = t[i + x]
<1>1. t \in Seq(Places) /\ Len(t) = Size  BY DEF IsTour
<1>2. i \in 0 .. Len(t) /\ j \in i .. Len(t)  BY <1>1
<1> QED BY <1>1, <1>2, SliceIs

LEMMA TourPrefix ==
  ASSUME NEW t, IsTour(t), NEW j \in 0 .. Size
  PROVE  /\ Slice(t, 0, j) \in Seq(Places) /\ Len(Slice(t, 0, j)) = j
         /\ ToSet(Slice(t, 0, j)) = At(t, 1 .. j)
         /\ \A x \in 1 .. j : Slice(t, 0, j)[x] = t[x]
<1>1. t \in Seq(Places) /\ Len(t) = Size  BY DEF IsTour
<1>2. j \in 0 .. Len(t)  BY <1>1
<1> QED BY <1>1, <1>2, PrefixIs

\* What the slice from position a to before position b may be replaced by.
IsPart(part, t, a, b) == part \in Seq(Places) /\ Len(part) = b - a /\ ToSet(part) = ToSet(Slice(t, a, b))

Put(t, a, part) == Slice(t, 0, a) \o part \o Slice(t, a + Len(part), Size)

LEMMA ReplacedIsTour ==
  ASSUME NEW t, IsTour(t), NEW a \in 0 .. Size, NEW b \in a .. Size, NEW part, IsPart(part, t, a, b)
  PROVE  IsTour(Put(t, a, part)) /\ (1 <= a => Put(t, a, part)[1] = t[1])
<1> DEFINE left == Slice(t, 0, a)
           right == Slice(t, b, Size)
           both == left \o part
           r == both \o right
<1>1. /\ Size \in Nat /\ a \in Nat /\ b \in Nat /\ a <= b /\ b <= Size
      /\ 0 \in 0 .. Size /\ a \in 0 .. Size /\ b \in 0 .. Size /\ Size \in b .. Size
  BY PlacesAre
<1>2. t \in Seq(Places) /\ Len(t) = Size /\ DOMAIN t = 1 .. Size /\ ToSet(t) = Places
  BY TourPlaces DEF IsTour
<1>3. /\ part \in Seq(Places) /\ Len(part) = b - a
      /\ ToSet(part) = At(t, a + 1 .. b)
  BY TourSlice DEF IsPart
<1>4. a + Len(part) = b  BY <1>1, <1>3
<1>5. /\ left \in Seq(Places) /\ Len(left) = a /\ ToSet(left) = At(t, 1 .. a)
      /\ \A x \in 1 .. a : left[x] = t[x]
  BY TourPrefix
<1>6. right \in Seq(Places) /\ Len(right) = Size - b /\ ToSet(right) = At(t, b + 1 .. Size)
  BY <1>1, TourSlice
<1> HIDE DEF left, right
<1>7. /\ both \in Seq(Places) /\ Len(both) = b /\ ToSet(both) = ToSet(left) \cup ToSet(part)
      /\ \A i \in 1 .. a : both[i] = left[i]
  <2>1. a + (b - a) = b  BY <1>1
  <2>2. left \in Seq(Places) /\ part \in Seq(Places) /\ Len(left) = a /\ Len(part) = b - a  BY <1>3, <1>5
  <2>3. /\ both \in Seq(Places) /\ Len(both) = Len(left) + Len(part) /\ ToSet(both) = ToSet(left) \cup ToSet(part)
        /\ \A i \in 1 .. Len(left) : both[i] = left[i]
    BY <2>2, SetOfConcat
  <2> QED BY <2>1, <2>2, <2>3
<1> HIDE DEF both
<1>8. /\ r \in Seq(Places) /\ Len(r) = Size /\ ToSet(r) = ToSet(both) \cup ToSet(right)
      /\ \A i \in 1 .. b : r[i] = both[i]
  <2>1. b + (Size - b) = Size  BY <1>1
  <2>2. both \in Seq(Places) /\ right \in Seq(Places) /\ Len(both) = b /\ Len(right) = Size - b  BY <1>6, <1>7
  <2>3. /\ r \in Seq(Places) /\ Len(r) = Len(both) + Len(right) /\ ToSet(r) = ToSet(both) \cup ToSet(right)
        /\ \A i \in 1 .. Len(both) : r[i] = both[i]
    BY <2>2, SetOfConcat
  <2> QED BY <2>1, <2>2, <2>3
<1>9. ToSet(r) = At(t, 1 .. a) \cup At(t, a + 1 .. b) \cup At(t, b + 1 .. Size)
  BY <1>3, <1>5, <1>6, <1>7, <1>8
<1>10. ToSet(r) = At(t, 1 .. Size)
  <2>1. PICK X, Y, Z : X = 1 .. a /\ Y = a + 1 .. b /\ Z = b + 1 .. Size  OBVIOUS
  <2>2. 1 .. Size = (X \cup Y) \cup Z  BY <1>1, <2>1
  <2>3. At(t, (X \cup Y) \cup Z) = (At(t, X) \cup At(t, Y)) \cup At(t, Z)  BY DEF At
  <2> QED BY <1>9, <2>1, <2>2, <2>3
<1>11. ToSet(r) = Places  BY <1>2, <1>10 DEF ToSet, At
<1>12. 1 <= a => 1 \in 1 .. a /\ 1 \in 1 .. b  BY <1>1
<1>13. 1 <= a => r[1] = t[1]  BY <1>5, <1>7, <1>8, <1>12
<1>14. IsTour(r)  BY <1>8, <1>11 DEF IsTour
<1>15. r = Put(t, a, part)
  BY <1>4 DEF both, left, right, Put
<1> HIDE DEF r
<1> QED BY <1>13, <1>14, <1>15

LEMMA ReversedPart ==
  ASSUME NEW t, IsTour(t), NEW a \in 0 .. Size, NEW b \in a .. Size
  PROVE  IsPart(Reverse(Slice(t, a, b)), t, a, b) /\ IsPart(Slice(t, a, b), t, a, b)
<1>1. t \in Seq(Places) /\ Len(t) = Size  BY TourPlaces
<1>2. Slice(t, a, b) \in Seq(Places) /\ Len(Slice(t, a, b)) = b - a
  BY <1>1, SliceIs
<1> QED BY <1>2, SetOfReverse DEF IsPart

\* Two parts that are side by side may change places.
LEMMA JoinedParts ==
  ASSUME NEW t, IsTour(t), NEW a \in 0 .. Size, NEW b \in a .. Size, NEW c \in b .. Size,
         NEW p, IsPart(p, t, a, b), NEW q, IsPart(q, t, b, c)
  PROVE  IsPart(p \o q, t, a, c) /\ IsPart(q \o p, t, a, c)
<1>1. t \in Seq(Places) /\ Len(t) = Size  BY TourPlaces
<1>2. Size \in Nat /\ a \in Nat /\ b \in Nat /\ c \in Nat /\ a <= b /\ b <= c /\ c <= Size
      /\ b \in 0 .. Size /\ c \in a .. Size
  BY PlacesAre
<1>3. /\ p \in Seq(Places) /\ Len(p) = b - a /\ ToSet(p) = At(t, a + 1 .. b)
      /\ q \in Seq(Places) /\ Len(q) = c - b /\ ToSet(q) = At(t, b + 1 .. c)
  <2>1. ToSet(Slice(t, a, b)) = At(t, a + 1 .. b)  BY TourSlice
  <2>2. ToSet(Slice(t, b, c)) = At(t, b + 1 .. c)  BY <1>2, TourSlice
  <2> QED BY <2>1, <2>2 DEF IsPart
<1>4. ToSet(Slice(t, a, c)) = At(t, a + 1 .. c)
  BY <1>2, TourSlice
<1>5. At(t, a + 1 .. c) = At(t, a + 1 .. b) \cup At(t, b + 1 .. c)
  <2>1. a + 1 .. c = (a + 1 .. b) \cup (b + 1 .. c)  BY <1>2
  <2>2. PICK X, Y : X = a + 1 .. b /\ Y = b + 1 .. c  OBVIOUS
  <2>3. At(t, X \cup Y) = At(t, X) \cup At(t, Y)  BY AtJoined
  <2> QED BY <2>1, <2>2, <2>3
<1>6. (b - a) + (c - b) = c - a /\ (c - b) + (b - a) = c - a  BY <1>2
<1>7. p \o q \in Seq(Places) /\ Len(p \o q) = Len(p) + Len(q) /\ ToSet(p \o q) = ToSet(p) \cup ToSet(q)
  BY <1>3, SetOfConcat
<1>8. q \o p \in Seq(Places) /\ Len(q \o p) = Len(q) + Len(p) /\ ToSet(q \o p) = ToSet(q) \cup ToSet(p)
  BY <1>3, SetOfConcat
<1>9. Len(p \o q) = c - a /\ Len(q \o p) = c - a  BY <1>3, <1>6, <1>7, <1>8
<1>10. ToSet(p \o q) = ToSet(Slice(t, a, c)) /\ ToSet(q \o p) = ToSet(Slice(t, a, c))
  BY <1>3, <1>4, <1>5, <1>7, <1>8
<1> QED BY <1>7, <1>8, <1>9, <1>10 DEF IsPart

\* A part that is turned by one place.
LEMMA TurnedPart ==
  ASSUME NEW t, IsTour(t), NEW a \in 0 .. Size, NEW b \in a .. Size, a # b, NEW x \in Places
  PROVE  LET s == Slice(t, a, b) IN
         /\ Tail(s) \o <<Head(s)>> \in Seq(Places) /\ Len(Tail(s) \o <<Head(s)>>) = b - a
         /\ ToSet(Tail(s) \o <<Head(s)>>) = ToSet(s)
<1> DEFINE s == Slice(t, a, b)
<1>1. t \in Seq(Places) /\ Len(t) = Size  BY TourPlaces
<1>2. Size \in Nat /\ a \in Nat /\ b \in Nat /\ a <= b /\ b <= Size  BY PlacesAre
<1>3. s \in Seq(Places) /\ Len(s) = b - a /\ b - a \in Nat /\ b - a >= 1
  <2>1. s \in Seq(Places) /\ Len(s) = b - a  BY TourSlice
  <2> QED BY <1>2, <2>1
<1> HIDE DEF s
<1>4. s # <<>> /\ Head(s) \in Places /\ s = <<Head(s)>> \o Tail(s) /\ Tail(s) \in Seq(Places)
  BY <1>3, HeadTailProperties, EmptySeq
<1>5. PICK h, r : h = Head(s) /\ r = Tail(s)  OBVIOUS
<1>6. h \in Places /\ r \in Seq(Places) /\ s = <<h>> \o r  BY <1>4, <1>5
<1> DEFINE one == <<h>>
<1>7. one \in Seq(Places) /\ Len(one) = 1 /\ ToSet(one) = {h}  BY <1>6, SetOfOne
<1>12. s = one \o r  BY <1>6
<1> HIDE DEF one
<1>8. Len(s) = 1 + Len(r) /\ ToSet(s) = {h} \cup ToSet(r)
  <2>2. one \in Seq(Places) /\ r \in Seq(Places)  BY <1>6, <1>7
  <2>1. one \o r \in Seq(Places) /\ Len(one \o r) = Len(one) + Len(r) /\ ToSet(one \o r) = ToSet(one) \cup ToSet(r)
    BY <2>2, SetOfConcat
  <2> QED BY <1>7, <1>12, <2>1
<1>9. r \o one \in Seq(Places) /\ Len(r \o one) = Len(r) + 1 /\ ToSet(r \o one) = ToSet(r) \cup {h}
  <2>1. r \o one \in Seq(Places) /\ Len(r \o one) = Len(r) + Len(one) /\ ToSet(r \o one) = ToSet(r) \cup ToSet(one)
    <3>1. r \in Seq(Places) /\ one \in Seq(Places)  BY <1>6, <1>7
    <3> QED BY <3>1, SetOfConcat
  <2> QED BY <1>7, <2>1
<1>10. Len(r) \in Nat  BY <1>6, LenProperties
<1>11. Len(r \o one) = b - a /\ ToSet(r \o one) = ToSet(s)
  BY <1>3, <1>8, <1>9, <1>10
<1> QED BY <1>5, <1>9, <1>11 DEF s, one

LEMMA OnePart ==
  ASSUME NEW t, IsTour(t), NEW b \in 0 .. Size - 1
  PROVE  IsPart(<<t[b + 1]>>, t, b, b + 1)
<1>1. t \in Seq(Places) /\ Len(t) = Size /\ Size \in Nat /\ b + 1 \in 1 .. Size  BY TourPlaces, PlacesAre
<1>2. t[b + 1] \in Places  BY <1>1, TourPlaces
<1>3. b \in 0 .. Len(t) /\ b + 1 \in b .. Len(t) /\ (b + 1) - b = 1 /\ (b + 1) .. (b + 1) = {b + 1}
  BY <1>1
<1>4. ToSet(Slice(t, b, b + 1)) = {t[b + 1]}
  <2>1. PICK c : c = b + 1  OBVIOUS
  <2>2. b \in 0 .. Size /\ c \in b .. Size /\ b + 1 .. c = {c}  BY <1>1, <2>1
  <2>3. ToSet(Slice(t, b, c)) = At(t, b + 1 .. c)  BY <2>2, TourSlice
  <2>4. At(t, {c}) = {t[c]}  BY DEF At
  <2> QED BY <2>1, <2>2, <2>3, <2>4
<1>5. <<t[b + 1]>> \in Seq(Places) /\ Len(<<t[b + 1]>>) = 1 /\ ToSet(<<t[b + 1]>>) = {t[b + 1]}
  BY <1>2, SetOfOne
<1> QED BY <1>3, <1>4, <1>5 DEF IsPart

LEMMA PlacesAssociate ==
  ASSUME NEW x \in Seq(Places), NEW y \in Seq(Places), NEW z \in Seq(Places)
  PROVE  (x \o y) \o z = x \o (y \o z)
BY ConcatAssociative

LEMMA ShiftedParts ==
  ASSUME NEW t, IsTour(t), NEW a \in 0 .. Size - 1, NEW b \in 0 .. Size - 1, a < b
  PROVE  LET s == Slice(t, a, b) IN
         /\ IsPart(<<t[b + 1]>> \o Tail(s) \o <<Head(s)>>, t, a, b + 1)
         /\ IsPart(Reverse(s) \o <<t[b + 1]>>, t, a, b + 1)
<1> DEFINE s == Slice(t, a, b)
           turned == Tail(s) \o <<Head(s)>>
           one == <<t[b + 1]>>
<1>1. Size \in Nat /\ t \in Seq(Places) /\ Len(t) = Size /\ b + 1 \in 1 .. Size /\ t[b + 1] \in Places
  <2>1. Size \in Nat /\ b + 1 \in 1 .. Size  BY PlacesAre
  <2> QED BY <2>1, TourPlaces
<1>2. a \in 0 .. Size /\ b \in a .. Size /\ b + 1 \in b .. Size /\ a # b  BY <1>1
<1>3. IsPart(one, t, b, b + 1)  BY OnePart
<1>4. IsPart(turned, t, a, b)
  <2>1. turned \in Seq(Places) /\ Len(turned) = b - a /\ ToSet(turned) = ToSet(s)
    BY <1>1, <1>2, TurnedPart
  <2> QED BY <2>1 DEF IsPart
<1>5. IsPart(Reverse(s), t, a, b)  BY <1>2, ReversedPart
<1>6. one \o Tail(s) \o <<Head(s)>> = one \o turned
  <2>1. s \in Seq(Places) /\ Len(s) = b - a  BY <1>1, <1>2, SliceIs
  <2>2. b - a >= 1  BY <1>1
  <2> HIDE DEF s
  <2>3. s # <<>>  BY <2>1, <2>2, EmptySeq
  <2>4. Tail(s) \in Seq(Places) /\ Head(s) \in Places  BY <2>1, <2>3, HeadTailProperties
  <2>5. <<Head(s)>> \in Seq(Places) /\ one \in Seq(Places)  BY <1>1, <2>4, SetOfOne
  <2> HIDE DEF one
  <2>6. PICK f, e : f = Tail(s) /\ e = <<Head(s)>>  OBVIOUS
  <2>7. one \in Seq(Places) /\ f \in Seq(Places) /\ e \in Seq(Places)  BY <2>4, <2>5, <2>6
  <2>8. (one \o f) \o e = one \o (f \o e)
    <3> HIDE DEF turned
    <3> QED BY <2>7, PlacesAssociate
  <2> QED BY <2>6, <2>8
<1> HIDE DEF one, turned
<1>7. IsPart(one \o turned, t, a, b + 1)  BY <1>2, <1>3, <1>4, JoinedParts
<1>8. IsPart(Reverse(s) \o one, t, a, b + 1)  BY <1>2, <1>3, <1>5, JoinedParts
<1> QED BY <1>6, <1>7, <1>8 DEF one

LEMMA OneMore ==
  ASSUME NEW m \in Nat
  PROVE  \A y : y \in 1 .. m + 2 <=> y \in 1 .. m + 1 \/ y = m + 2
OBVIOUS

\* Parts that come one after the other, of slices that do not overlap.
LEMMA FlattenedParts ==
  ASSUME NEW t, IsTour(t), NEW N \in Nat, 1 <= N,
         NEW lo \in [1 .. N -> 0 .. Size], NEW hi \in [1 .. N -> 0 .. Size],
         \A i \in 1 .. N : lo[i] <= hi[i],
         \A i \in 1 .. N, j \in 1 .. N : i # j => hi[i] <= lo[j] \/ hi[j] <= lo[i],
         NEW seqs, seqs \in [1 .. N -> Seq(Places)], Len(seqs) = N,
         \A i \in 1 .. N : IsPart(seqs[i], t, lo[i], hi[i]),
         NEW a \in 0 .. Size, NEW b \in a .. Size,
         \A x \in 1 .. Size : x \in a + 1 .. b <=> \E i \in 1 .. N : x \in lo[i] + 1 .. hi[i]
  PROVE  IsPart(FlattenSeq(seqs), t, a, b)
<1> DEFINE R(f) == [i \in 1 .. Len(seqs) |-> IF i = 1 THEN seqs[i] ELSE f[i - 1] \o seqs[i]]
           c == CHOOSE f : f = R(f)
           F == [n \in 1 .. N |-> [x \in Seq(Places) |-> x \o seqs[n]]]
           B(m) == {x \in 1 .. Size : \E i \in 1 .. m : x \in lo[i] + 1 .. hi[i]}
<1>1. Size \in Nat /\ t \in Seq(Places) /\ Len(t) = Size /\ Len(seqs) # 0 /\ N \in Nat /\ 1 \in 1 .. N /\ N \in 1 .. N
  BY PlacesAre, TourPlaces
<1>2. F \in [1 .. N -> [Seq(Places) -> Seq(Places)]] /\ \A n \in 1 .. N, x \in Seq(Places) : F[n][x] = x \o seqs[n]
  <2> SUFFICES ASSUME NEW n \in 1 .. N, NEW x \in Seq(Places) PROVE x \o seqs[n] \in Seq(Places)
    OBVIOUS
  <2>1. seqs[n] \in Seq(Places)  OBVIOUS
  <2> QED BY <2>1, ConcatProperties
<1>3. seqs[1] \in Seq(Places)  BY <1>1
<1> HIDE DEF F
<1>4. PICK g : IsRecursion(g, N, seqs[1], F, Seq(Places))
  BY <1>1, <1>2, <1>3, RecursionExists
<1>5. g \in [1 .. N -> Seq(Places)] /\ \A n \in 1 .. N : g[n] = IF n = 1 THEN seqs[1] ELSE F[n][g[n - 1]]
  BY <1>4 DEF IsRecursion
<1>6. g = R(g)
  <2>1. \A n \in 1 .. N : n # 1 => n - 1 \in 1 .. N  BY <1>1
  <2>2. \A n \in 1 .. N : n # 1 => F[n][g[n - 1]] = g[n - 1] \o seqs[n]  BY <1>2, <1>5, <2>1
  <2>3. \A n \in 1 .. N : g[n] = IF n = 1 THEN seqs[n] ELSE g[n - 1] \o seqs[n]  BY <1>5, <2>2
  <2>4. g = [n \in 1 .. N |-> g[n]]  BY <1>5
  <2>5. [n \in 1 .. N |-> g[n]] = [n \in 1 .. N |-> IF n = 1 THEN seqs[n] ELSE g[n - 1] \o seqs[n]]  BY <2>3
  <2>6. 1 .. Len(seqs) = 1 .. N  OBVIOUS
  <2>7. R(g) = [n \in 1 .. N |-> IF n = 1 THEN seqs[n] ELSE g[n - 1] \o seqs[n]]  BY <2>6
  <2> HIDE DEF R
  <2> QED BY <2>4, <2>5, <2>7
<1>7. c = R(c)
  <2> HIDE DEF R
  <2> QED BY <1>6
<1>8. FlattenSeq(seqs) = c[N]  BY <1>1 DEF FlattenSeq
<1> HIDE DEF c
<1>9. \A n \in 1 .. N : c[n] = IF n = 1 THEN seqs[n] ELSE c[n - 1] \o seqs[n]
  BY <1>7
<1>10. \A i \in 1 .. N :
         /\ seqs[i] \in Seq(Places) /\ Len(seqs[i]) = hi[i] - lo[i]
         /\ ToSet(seqs[i]) = At(t, lo[i] + 1 .. hi[i])
         /\ lo[i] \in Nat /\ hi[i] \in Nat /\ lo[i] <= hi[i] /\ hi[i] <= Size
         /\ IsFiniteSet(lo[i] + 1 .. hi[i]) /\ Cardinality(lo[i] + 1 .. hi[i]) = hi[i] - lo[i]
  <2> TAKE i \in 1 .. N
  <2>1. lo[i] \in 0 .. Size /\ hi[i] \in lo[i] .. Size /\ lo[i] \in Nat /\ hi[i] \in Nat /\ lo[i] <= hi[i] /\ hi[i] <= Size
    BY <1>1
  <2>2. IsPart(seqs[i], t, lo[i], hi[i])  OBVIOUS
  <2>3. PICK l, h : l = lo[i] /\ h = hi[i]  OBVIOUS
  <2>7. l \in 0 .. Size /\ h \in l .. Size /\ l \in Nat /\ h \in Nat /\ l <= h  BY <2>1, <2>3
  <2>4. ToSet(Slice(t, l, h)) = At(t, l + 1 .. h)  BY <2>7, TourSlice
  <2>5. l + 1 \in Int /\ h \in Int /\ (IF l + 1 > h THEN 0 ELSE h - (l + 1) + 1) = h - l  BY <2>7
  <2>6. IsFiniteSet(l + 1 .. h) /\ Cardinality(l + 1 .. h) = h - l  BY <2>5, FS_Interval
  <2> QED BY <2>1, <2>2, <2>3, <2>4, <2>6 DEF IsPart
<1>11. \A m : IsFiniteSet(B(m))
  <2> TAKE m
  <2>1. IsFiniteSet(1 .. Size)  BY <1>1, FS_Interval
  <2>2. B(m) \in SUBSET (1 .. Size)  OBVIOUS
  <2> HIDE DEF B
  <2> QED BY <2>1, <2>2, FS_Subset
<1>12. \A i \in 1 .. N : lo[i] + 1 .. hi[i] \subseteq 1 .. Size
  <2> TAKE i \in 1 .. N
  <2>1. PICK l, h : l = lo[i] /\ h = hi[i]  OBVIOUS
  <2>2. l \in Nat /\ h \in Nat /\ h <= Size  BY <1>10, <2>1
  <2>3. l + 1 .. h \subseteq 1 .. Size  BY <1>1, <2>2
  <2> QED BY <2>1, <2>3
<1> DEFINE Good(m) == /\ c[m] \in Seq(Places) /\ Len(c[m]) = Cardinality(B(m))
                      /\ ToSet(c[m]) = At(t, B(m))
           T == {m \in Nat : m + 1 <= N => Good(m + 1)}
<1>13. 0 \in T
  <2>1. B(1) = lo[1] + 1 .. hi[1]  BY <1>1, <1>12
  <2>2. c[1] = seqs[1]  BY <1>1, <1>9
  <2>3. Good(1)  BY <1>1, <1>10, <2>1, <2>2
  <2> HIDE DEF Good
  <2> QED BY <2>3
<1>14. \A m \in T : m + 1 \in T
  <2> HIDE DEF Good
  <2> SUFFICES ASSUME NEW m \in Nat, m + 1 <= N => Good(m + 1), m + 2 <= N
               PROVE  Good(m + 2)
    BY <1>1
  <2>1. m + 1 \in 1 .. N /\ m + 2 \in 1 .. N /\ m + 2 # 1 /\ (m + 2) - 1 = m + 1 /\ m + 1 <= N  BY <1>1
  <2> DEFINE i == m + 2
             I == lo[i] + 1 .. hi[i]
             O == B(m + 1)
  <2>2. c[i] = c[m + 1] \o seqs[i] /\ Good(m + 1)  BY <1>9, <2>1
  <2> USE DEF Good
  <2>3. B(i) = O \cup I
    <3>1. \A y : y \in 1 .. m + 2 <=> y \in 1 .. m + 1 \/ y = m + 2  BY OneMore
    <3>2. I \subseteq 1 .. Size  BY <1>12, <2>1
    <3> QED BY <3>1, <3>2
  <2>4. O \cap I = {}
    <3> SUFFICES ASSUME NEW x \in 1 .. Size, NEW j \in 1 .. m + 1, x \in lo[j] + 1 .. hi[j], x \in lo[i] + 1 .. hi[i]
                 PROVE  FALSE
      OBVIOUS
    <3>1. j \in 1 .. N /\ i \in 1 .. N /\ j # i  BY <2>1
    <3>2. hi[j] <= lo[i] \/ hi[i] <= lo[j]  BY <3>1
    <3>3. lo[i] \in Nat /\ hi[i] \in Nat /\ lo[j] \in Nat /\ hi[j] \in Nat  BY <1>10, <3>1
    <3>4. PICK l1, h1, l2, h2 : l1 = lo[i] /\ h1 = hi[i] /\ l2 = lo[j] /\ h2 = hi[j]  OBVIOUS
    <3>5. x \in l2 + 1 .. h2 /\ x \in l1 + 1 .. h1 /\ (h2 <= l1 \/ h1 <= l2)  BY <3>2, <3>4
    <3>6. l1 \in Nat /\ h1 \in Nat /\ l2 \in Nat /\ h2 \in Nat /\ x \in Nat  BY <1>1, <3>3, <3>4
    <3>7. l2 + 1 <= x /\ x <= h2 /\ l1 + 1 <= x /\ x <= h1  BY <3>5, <3>6
    <3>8. CASE h2 <= l1  BY <3>6, <3>7, <3>8
    <3>9. CASE h1 <= l2  BY <3>6, <3>7, <3>9
    <3> QED BY <3>5, <3>8, <3>9
  <2>5. /\ seqs[i] \in Seq(Places) /\ Len(seqs[i]) = Cardinality(I) /\ IsFiniteSet(I)
        /\ ToSet(seqs[i]) = At(t, I)
    BY <1>10, <2>1
  <2>6. c[m + 1] \in Seq(Places) /\ Len(c[m + 1]) = Cardinality(O) /\ ToSet(c[m + 1]) = At(t, O) /\ IsFiniteSet(O)
    BY <1>11, <2>2
  <2> HIDE DEF O, I, B, i
  <2>11. PICK p, q : p = c[m + 1] /\ q = seqs[i]  OBVIOUS
  <2>12. p \in Seq(Places) /\ q \in Seq(Places)  BY <2>5, <2>6, <2>11
  <2>13. p \o q \in Seq(Places) /\ Len(p \o q) = Len(p) + Len(q) /\ ToSet(p \o q) = ToSet(p) \cup ToSet(q)
    BY <2>12, SetOfConcat
  <2>7. c[i] \in Seq(Places) /\ Len(c[i]) = Cardinality(O) + Cardinality(I) /\ ToSet(c[i]) = ToSet(c[m + 1]) \cup ToSet(seqs[i])
    BY <2>2, <2>5, <2>6, <2>11, <2>13
  <2>8. Cardinality(O \cup I) = Cardinality(O) + Cardinality(I)
    <3>1. Cardinality(O \cup I) = Cardinality(O) + Cardinality(I) - Cardinality(O \cap I)
      BY <2>5, <2>6, FS_Union
    <3>2. Cardinality(O \cap I) = 0 /\ Cardinality(O) \in Nat /\ Cardinality(I) \in Nat
      BY <2>4, <2>5, <2>6, FS_EmptySet, FS_CardinalityType
    <3> QED BY <3>1, <3>2
  <2>9. ToSet(c[i]) = At(t, B(i))
    <3>1. At(t, O \cup I) = At(t, O) \cup At(t, I)  BY DEF At
    <3>2. ToSet(c[m + 1]) = At(t, O) /\ ToSet(seqs[i]) = At(t, I)  BY <2>5, <2>6
    <3> QED BY <2>3, <2>7, <3>1, <3>2
  <2>10. Good(i)  BY <2>3, <2>7, <2>8, <2>9
  <2> QED BY <2>10 DEF i
<1>15. T = Nat
  <2>1. T \in SUBSET Nat  OBVIOUS
  <2> HIDE DEF T
  <2> QED BY <1>13, <1>14, <2>1, Induction
<1>16. Good(N)
  <2> HIDE DEF Good
  <2>1. \A m \in Nat : m + 1 <= N => Good(m + 1)  BY <1>15
  <2>2. N - 1 \in Nat /\ (N - 1) + 1 = N /\ (N - 1) + 1 <= N  BY <1>1
  <2>3. PICK m \in Nat : m + 1 = N /\ m + 1 <= N  BY <2>2
  <2> QED BY <2>1, <2>3
<1>17. B(N) = a + 1 .. b
  <2>1. a + 1 .. b \subseteq 1 .. Size  BY <1>1
  <2> QED BY <2>1
<1>18. Cardinality(a + 1 .. b) = b - a
  <2>1. a + 1 \in Int /\ b \in Int /\ (IF a + 1 > b THEN 0 ELSE b - (a + 1) + 1) = b - a  BY <1>1
  <2> QED BY <2>1, FS_Interval
<1>19. ToSet(Slice(t, a, b)) = At(t, a + 1 .. b)
  <2>1. PICK u, l, h : u = t /\ l = a /\ h = b  OBVIOUS
  <2>2. IsTour(u) /\ l \in 0 .. Size /\ h \in l .. Size  BY <2>1
  <2>3. ToSet(Slice(u, l, h)) = At(u, l + 1 .. h)  BY <2>2, TourSlice
  <2> QED BY <2>1, <2>3
<1> QED BY <1>8, <1>16, <1>17, <1>18, <1>19 DEF IsPart

LEMMA CutsIncrease ==
  ASSUME NEW N \in Nat, NEW p \in [1 .. N -> Nat], \A i \in 2 .. N : p[i - 1] < p[i]
  PROVE  \A i \in 1 .. N, j \in 1 .. N : i < j => p[i] < p[j]
<1> DEFINE T == {m \in Nat : m <= N => \A i \in 1 .. N : i < m => p[i] < p[m]}
<1>1. 0 \in T  OBVIOUS
<1>2. \A m \in T : m + 1 \in T
  <2> TAKE m \in T
  <2>4. m \in Nat /\ (m <= N => \A i \in 1 .. N : i < m => p[i] < p[m])  OBVIOUS
  <2> HIDE DEF T
  <2> SUFFICES ASSUME m + 1 <= N, NEW i \in 1 .. N, i < m + 1
               PROVE  p[i] < p[m + 1]
    BY <2>4 DEF T
  <2>1. m \in 1 .. N /\ m + 1 \in 2 .. N /\ m + 1 \in 1 .. N /\ (m + 1) - 1 = m  BY <2>4
  <2>2. p[m] < p[m + 1] /\ p[m] \in Nat /\ p[m + 1] \in Nat /\ p[i] \in Nat
    <3>1. p[(m + 1) - 1] < p[m + 1]  BY <2>1
    <3> QED BY <2>1, <3>1
  <2>3. i = m \/ p[i] < p[m]
    <3>1. i = m \/ i < m  BY <2>4
    <3>2. m <= N  BY <2>1
    <3> QED BY <2>4, <3>1, <3>2
  <2> QED BY <2>2, <2>3
<1>3. T = Nat
  <2>1. T \in SUBSET Nat  OBVIOUS
  <2> HIDE DEF T
  <2> QED BY <1>1, <1>2, <2>1, Induction
<1>4. \A m \in Nat : m <= N => \A i \in 1 .. N : i < m => p[i] < p[m]  BY <1>3
<1> QED BY <1>4

\* The slices of KOptSolver in another order, all of them reversed or none.
LEMMA ReassembledParts ==
  ASSUME IsTour(tour), NEW p \in [1 .. k -> 0 .. Size - 1], \A i \in 2 .. k : p[i - 1] < p[i],
         NEW part \in Reassembled(p)
  PROVE  IsPart(part, tour, p[1], p[k])
<1> DEFINE slices == 1 .. k - 1
           Part(i, reversed) == LET s == Slice(tour, p[i], p[i + 1]) IN IF reversed THEN Reverse(s) ELSE s
<1>1. Size \in Nat /\ k \in Nat /\ 2 <= k /\ k - 1 \in Nat /\ 1 <= k - 1  BY PlacesAre
<1>2. PICK order \in [slices -> slices], reversed \in BOOLEAN :
        IsInjective(order) /\ part = FlattenSeq([i \in slices |-> Part(order[i], reversed)])
  <2> DEFINE Orders == {o \in [slices -> slices] : IsInjective(o)}
             Flat(order, reversed) == FlattenSeq([i \in slices |-> Part(order[i], reversed)])
  <2>1. part \in {Flat(order, reversed) : order \in Orders, reversed \in BOOLEAN}
    BY DEF Reassembled
  <2> HIDE DEF Flat
  <2>2. PICK order \in Orders, reversed \in BOOLEAN : part = Flat(order, reversed)
    BY <2>1
  <2> QED BY <2>2 DEF Flat
<1>3. \A i \in slices : i \in 1 .. k /\ i + 1 \in 1 .. k  BY <1>1
<1>4. \A i \in 1 .. k, j \in 1 .. k : i < j => p[i] < p[j]
  <2>1. p \in [1 .. k -> Nat]  BY <1>1
  <2> QED BY <1>1, <2>1, CutsIncrease
<1>5. \A i \in 1 .. k : p[i] \in 0 .. Size /\ p[i] \in Nat /\ p[i] <= Size
  <2>1. \A x \in 0 .. Size - 1 : x \in 0 .. Size /\ x \in Nat /\ x <= Size  BY <1>1
  <2>2. \A i \in 1 .. k : p[i] \in 0 .. Size - 1  OBVIOUS
  <2> QED BY <2>1, <2>2
<1>6. \A i \in 1 .. k, j \in 1 .. k : i <= j => p[i] <= p[j]  BY <1>4, <1>5
<1> DEFINE N == k - 1
           lo == [i \in 1 .. N |-> p[order[i]]]
           hi == [i \in 1 .. N |-> p[order[i] + 1]]
           seqs == [i \in 1 .. N |-> Part(order[i], reversed)]
<1>7. \A i \in 1 .. N : order[i] \in slices /\ order[i] \in 1 .. k /\ order[i] + 1 \in 1 .. k /\ reversed \in BOOLEAN
  BY <1>3
<1>8. lo \in [1 .. N -> 0 .. Size] /\ hi \in [1 .. N -> 0 .. Size] /\ \A i \in 1 .. N : lo[i] <= hi[i]
  BY <1>5, <1>6, <1>7
<1>9. \A i \in 1 .. N, j \in 1 .. N : i # j => hi[i] <= lo[j] \/ hi[j] <= lo[i]
  <2> SUFFICES ASSUME NEW i \in 1 .. N, NEW j \in 1 .. N, i # j PROVE hi[i] <= lo[j] \/ hi[j] <= lo[i]
    OBVIOUS
  <2>1. order[i] # order[j]  BY <1>2 DEF IsInjective
  <2>2. PICK u, v : u = order[i] /\ v = order[j]  OBVIOUS
  <2>3. u \in 1 .. k - 1 /\ v \in 1 .. k - 1 /\ u # v  BY <1>7, <2>1, <2>2
  <2>4. u \in 1 .. k /\ u + 1 \in 1 .. k /\ v \in 1 .. k /\ v + 1 \in 1 .. k /\ (u + 1 <= v \/ v + 1 <= u)
    BY <1>1, <2>3
  <2>5. p[u + 1] <= p[v] \/ p[v + 1] <= p[u]  BY <1>6, <2>4
  <2> QED BY <2>2, <2>5
<1>10. \A i \in 1 .. N : seqs[i] \in Seq(Places) /\ IsPart(seqs[i], tour, lo[i], hi[i])
  <2> TAKE i \in 1 .. N
  <2>1. PICK a, b : a = p[order[i]] /\ b = p[order[i] + 1]  OBVIOUS
  <2>2. a \in 0 .. Size /\ b \in a .. Size
    <3>1. PICK u : u = order[i]  OBVIOUS
    <3>2. u \in 1 .. k /\ u + 1 \in 1 .. k /\ u <= u + 1  BY <1>1, <1>7, <3>1
    <3>3. a = p[u] /\ b = p[u + 1]  BY <2>1, <3>1
    <3>4. a <= b /\ a \in 0 .. Size /\ b \in 0 .. Size  BY <1>5, <1>6, <3>2, <3>3
    <3> QED BY <1>1, <3>4
  <2>3. IsPart(Reverse(Slice(tour, a, b)), tour, a, b) /\ IsPart(Slice(tour, a, b), tour, a, b)
    BY <2>2, ReversedPart
  <2>4. seqs[i] = Reverse(Slice(tour, a, b)) \/ seqs[i] = Slice(tour, a, b)  BY <2>1
  <2>5. lo[i] = a /\ hi[i] = b  BY <2>1
  <2>6. IsPart(seqs[i], tour, a, b)  BY <2>3, <2>4
  <2>7. seqs[i] \in Seq(Places)  BY <2>6 DEF IsPart
  <2> HIDE DEF seqs, lo, hi
  <2> QED BY <2>5, <2>6, <2>7
<1>11. \A j \in slices : \E i \in slices : order[i] = j
  <2>1. order \in Injection(slices, slices)  BY <1>2 DEF Injection
  <2>2. IsFiniteSet(slices)
    <3>1. 1 \in Int /\ k - 1 \in Int  BY <1>1
    <3> QED BY <3>1, FS_Interval
  <2> HIDE DEF slices
  <2>3. order \in Surjection(slices, slices)  BY <2>1, <2>2, FS_Injection
  <2> QED BY <2>3 DEF Surjection
<1> DEFINE a == p[1]
           b == p[k]
<1>12. a \in 0 .. Size /\ b \in a .. Size
  <2>1. 1 \in 1 .. k /\ k \in 1 .. k /\ 1 <= k  BY <1>1
  <2> QED BY <1>1, <1>5, <1>6, <2>1
<1>13. \A x \in 1 .. Size : x \in a + 1 .. b <=> \E i \in 1 .. N : x \in lo[i] + 1 .. hi[i]
  <2> TAKE x \in 1 .. Size
  <2>1. ASSUME NEW i \in 1 .. N, x \in lo[i] + 1 .. hi[i] PROVE x \in a + 1 .. b
    <3>1. PICK u : u = order[i]  OBVIOUS
    <3>2. u \in 1 .. k - 1  BY <1>7, <3>1
    <3>3. /\ 1 \in 1 .. k /\ k \in 1 .. k /\ u \in 1 .. k /\ u + 1 \in 1 .. k /\ 1 <= u /\ u + 1 <= k
      BY <1>1, <3>2
    <3>4. PICK l, h, y, z : l = p[u] /\ h = p[u + 1] /\ y = a /\ z = b  OBVIOUS
    <3>5. y <= l /\ h <= z /\ l \in Nat /\ h \in Nat /\ y \in Nat /\ z \in Nat  BY <1>5, <1>6, <3>3, <3>4
    <3>6. x \in l + 1 .. h  BY <2>1, <3>1, <3>4
    <3>7. x \in y + 1 .. z  BY <3>5, <3>6
    <3> QED BY <3>4, <3>7
  <2>2. ASSUME x \in a + 1 .. b PROVE \E i \in 1 .. N : x \in lo[i] + 1 .. hi[i]
    <3> DEFINE S == {j \in 1 .. k : x <= p[j]}
    <3>1. k \in 1 .. k /\ 1 \in 1 .. k  BY <1>1
    <3>2. p[k] \in Nat /\ p[1] \in Nat  BY <1>5, <3>1
    <3>3. k \in S /\ 1 \notin S /\ S \subseteq Nat  BY <2>2, <3>1, <3>2
    <3>4. PICK j \in S : \A m \in S : j <= m
      <4> HIDE DEF S
      <4> QED BY <3>3, LeastExists
    <3>5. j \in 1 .. k /\ x <= p[j] /\ j # 1  BY <3>3, <3>4
    <3>6. j - 1 \in slices /\ j - 1 \in 1 .. k /\ (j - 1) + 1 = j /\ ~ (j <= j - 1)  BY <1>1, <3>5
    <3>7. j - 1 \notin S  BY <3>4, <3>6
    <3>8. ~ (x <= p[j - 1])  BY <3>6, <3>7
    <3>9. p[j - 1] \in Nat /\ p[j] \in Nat  BY <1>5, <3>5, <3>6
    <3>10. PICK i \in slices : order[i] = j - 1  BY <1>11, <3>6
    <3>11. lo[i] = p[j - 1] /\ hi[i] = p[j]  BY <3>6, <3>10
    <3>12. x \in p[j - 1] + 1 .. p[j]  BY <3>5, <3>8, <3>9
    <3> QED BY <3>10, <3>11, <3>12
  <2> QED BY <2>1, <2>2
<1>14. seqs \in [1 .. N -> Seq(Places)] /\ Len(seqs) = N
  <2>1. \A i \in 1 .. N : seqs[i] \in Seq(Places)  BY <1>10
  <2>2. seqs = [i \in 1 .. N |-> seqs[i]]  OBVIOUS
  <2> HIDE DEF seqs
  <2>3. seqs \in [1 .. N -> Seq(Places)]  BY <2>1, <2>2
  <2> QED BY <1>1, <2>3
<1>15. part = FlattenSeq(seqs)  BY <1>2
<1>16. N \in Nat /\ 1 <= N  BY <1>1
<1> HIDE DEF N, lo, hi, seqs, a, b
<1>17. IsPart(FlattenSeq(seqs), tour, a, b)
  BY <1>8, <1>9, <1>10, <1>12, <1>13, <1>14, <1>16, FlattenedParts
<1> QED BY <1>15, <1>17 DEF a, b

LocalSearches == {"twoOpt", "shifting", "threeOpt", "kOpt"}

\* Where the loops cut.
LEMMA CutsAre ==
  ASSUME heuristic \in LocalSearches, NEW p \in Cuts
  PROVE  LET n == IF heuristic = "kOpt" THEN k ELSE IF heuristic = "threeOpt" THEN 3 ELSE 2 IN
         /\ n \in Nat /\ 2 <= n /\ p \in [1 .. n -> 0 .. Size - 1]
         /\ \A i \in 2 .. n : p[i - 1] < p[i]
         /\ heuristic \in {"shifting", "kOpt"} => p[1] >= 1
<1> DEFINE n == IF heuristic = "kOpt" THEN k ELSE IF heuristic = "threeOpt" THEN 3 ELSE 2
           f == IF heuristic \in {"shifting", "kOpt"} THEN 1 ELSE 0
<1>1. Size \in Nat /\ k \in Nat /\ 2 <= k  BY PlacesAre
<1>2. CutsOf[heuristic] = n /\ FirstOf[heuristic] = f
  BY DEF CutsOf, FirstOf, LocalSearches
<1>3. n \in Nat /\ 2 <= n /\ f \in Nat /\ (heuristic \in {"shifting", "kOpt"} => f = 1)  BY <1>1
<1> HIDE DEF n, f
<1>4. p \in [1 .. n -> f .. Size - 1] /\ \A i \in 2 .. Len(p) : p[i - 1] < p[i]
  BY <1>2 DEF Cuts
<1>5. Len(p) = n  BY <1>3, <1>4
<1>6. p \in [1 .. n -> 0 .. Size - 1]
  <2>1. \A x \in f .. Size - 1 : x \in 0 .. Size - 1  BY <1>1, <1>3
  <2> QED BY <1>4, <2>1
<1>7. 1 \in 1 .. n /\ p[1] \in f .. Size - 1  BY <1>3, <1>4
<1>8. heuristic \in {"shifting", "kOpt"} => p[1] >= 1  BY <1>1, <1>3, <1>7
<1> QED BY <1>3, <1>4, <1>5, <1>6, <1>8 DEF n

\* Whatever replaces slices of a tour makes a tour again.
LEMMA ReplacementsAreTours ==
  ASSUME heuristic \in LocalSearches, IsTour(tour), NEW p \in Cuts, NEW parts \in Replacements(p), NEW i \in DOMAIN parts
  PROVE  /\ DOMAIN parts \subseteq Nat /\ IsTour(Replaced(p, parts[i]))
         /\ heuristic \in {"shifting", "kOpt"} => Replaced(p, parts[i])[1] = tour[1]
<1>1. Size \in Nat /\ k \in Nat /\ 2 <= k  BY PlacesAre
<1>2. PICK n \in Nat :
        /\ n = IF heuristic = "kOpt" THEN k ELSE IF heuristic = "threeOpt" THEN 3 ELSE 2
        /\ 2 <= n /\ p \in [1 .. n -> 0 .. Size - 1] /\ \A j \in 2 .. n : p[j - 1] < p[j]
        /\ heuristic \in {"shifting", "kOpt"} => p[1] >= 1
  BY CutsAre
<1>3. p[1] \in 0 .. Size - 1 /\ p[2] \in 0 .. Size - 1 /\ p[1] < p[2]
  <2>1. 1 \in 1 .. n /\ 2 \in 1 .. n /\ 2 \in 2 .. n /\ 2 - 1 = 1  BY <1>2
  <2>2. p[2 - 1] < p[2]  BY <1>2, <2>1
  <2> QED BY <1>2, <2>1, <2>2
<1>4. PICK a, b : a = p[1] /\ b = p[2]  OBVIOUS
<1>5. /\ a \in 0 .. Size - 1 /\ a \in 0 .. Size /\ b \in 0 .. Size - 1 /\ b \in a .. Size /\ b \in 0 .. Size /\ b + 1 \in a .. Size
      /\ a < b
  BY <1>1, <1>3, <1>4
<1> DEFINE s == Slice(tour, a, b)
<1> SUFFICES /\ DOMAIN parts \subseteq Nat
             /\ \E c \in a .. Size : IsPart(parts[i], tour, a, c)
  <2>1. PICK c \in a .. Size : IsPart(parts[i], tour, a, c)  OBVIOUS
  <2>2. PICK part : part = parts[i]  OBVIOUS
  <2> DEFINE r == Put(tour, a, part)
  <2>3. IsTour(r) /\ (1 <= a => r[1] = tour[1])
    <3>1. IsPart(part, tour, a, c) /\ a \in 0 .. Size  BY <1>5, <2>1, <2>2
    <3> QED BY <3>1, ReplacedIsTour
  <2>4. r = Replaced(p, parts[i])  BY <1>4, <2>2 DEF Replaced, Put
  <2>5. heuristic \in {"shifting", "kOpt"} => 1 <= a  BY <1>1, <1>2, <1>4, <1>5
  <2> HIDE DEF r
  <2> QED BY <2>3, <2>4, <2>5
<1>6. CASE heuristic = "twoOpt"
  <2>1. parts = <<Reverse(s)>>  BY <1>4, <1>6 DEF Replacements
  <2> HIDE DEF s
  <2>2. DOMAIN parts \subseteq Nat /\ parts[i] = Reverse(s)  BY <2>1
  <2>3. IsPart(Reverse(s), tour, a, b)  BY <1>5, ReversedPart DEF s
  <2> QED BY <1>5, <2>2, <2>3
<1>7. CASE heuristic = "shifting"
  <2>1. parts = <<<<tour[b + 1]>> \o Tail(s) \o <<Head(s)>>, Reverse(s) \o <<tour[b + 1]>>>>
    BY <1>4, <1>7 DEF Replacements
  <2>2. IsPart(<<tour[b + 1]>> \o Tail(s) \o <<Head(s)>>, tour, a, b + 1) /\ IsPart(Reverse(s) \o <<tour[b + 1]>>, tour, a, b + 1)
    BY <1>5, ShiftedParts
  <2> DEFINE q1 == <<tour[b + 1]>> \o Tail(s) \o <<Head(s)>>
             q2 == Reverse(s) \o <<tour[b + 1]>>
  <2> HIDE DEF q1, q2
  <2>3. parts = <<q1, q2>> /\ IsPart(q1, tour, a, b + 1) /\ IsPart(q2, tour, a, b + 1)  BY <2>1, <2>2 DEF q1, q2
  <2>4. DOMAIN parts \subseteq Nat /\ (parts[i] = q1 \/ parts[i] = q2)  BY <2>3
  <2> QED BY <1>5, <2>3, <2>4
<1>8. CASE heuristic = "threeOpt"
  <2>1. n = 3 /\ 3 \in 1 .. n /\ 3 \in 2 .. n /\ 3 - 1 = 2  BY <1>2, <1>8
  <2>2. p[3 - 1] < p[3] /\ p[3] \in 0 .. Size - 1  BY <1>2, <2>1
  <2>3. PICK c : c = p[3]  OBVIOUS
  <2>4. c \in 0 .. Size /\ b < c /\ c \in b .. Size /\ c \in a .. Size  BY <1>1, <1>4, <1>5, <2>1, <2>2, <2>3
  <2> DEFINE t == Slice(tour, b, c)
             q1 == t \o Reverse(s)
             q2 == Reverse(t) \o Reverse(s)
             q3 == t \o s
  <2>5. parts = <<q1, q2, q3>>  BY <1>4, <1>8, <2>3 DEF Replacements
  <2>6. /\ IsPart(Reverse(s), tour, a, b) /\ IsPart(s, tour, a, b)
        /\ IsPart(Reverse(t), tour, b, c) /\ IsPart(t, tour, b, c)
    BY <1>5, <2>4, ReversedPart
  <2> HIDE DEF t, s
  <2>7. IsPart(q1, tour, a, c) /\ IsPart(q2, tour, a, c) /\ IsPart(q3, tour, a, c)
    BY <1>5, <2>4, <2>6, JoinedParts
  <2> HIDE DEF q1, q2, q3
  <2>8. DOMAIN parts \subseteq Nat /\ (parts[i] = q1 \/ parts[i] = q2 \/ parts[i] = q3)  BY <2>5
  <2> QED BY <2>4, <2>7, <2>8
<1>9. CASE heuristic = "kOpt"
  <2>1. PICK part \in Reassembled(p) : parts = <<part>>  BY <1>9 DEF Replacements
  <2>2. DOMAIN parts \subseteq Nat /\ parts[i] = part  BY <2>1
  <2>3. n = k  BY <1>2, <1>9
  <2>4. IsPart(part, tour, p[1], p[k])  BY <1>2, <2>3, ReassembledParts
  <2>5. p[k] \in a .. Size
    <3>1. p \in [1 .. k -> Nat] /\ 1 \in 1 .. k /\ k \in 1 .. k /\ p[k] \in 0 .. Size - 1  BY <1>1, <1>2, <2>3
    <3>2. p[1] <= p[k]
      <4>1. 1 < k  BY <1>1
      <4>2. \A x \in 1 .. k, y \in 1 .. k : x < y => p[x] < p[y]  BY <1>1, <1>2, <2>3, <3>1, CutsIncrease
      <4>3. p[1] < p[k]  BY <3>1, <4>1, <4>2
      <4> QED BY <3>1, <4>3
    <3> QED BY <1>1, <1>4, <1>5, <3>1, <3>2
  <2> QED BY <1>4, <2>2, <2>4, <2>5
<1> QED BY <1>6, <1>7, <1>8, <1>9 DEF LocalSearches

\* What improves is a tour that costs less.
LEMMA ImprovingIsTour ==
  ASSUME heuristic \in LocalSearches, IsTour(tour), distances \in DistanceFuncs, NEW p \in Cuts, NEW t \in Improving(p)
  PROVE  IsTour(t) /\ cost(t) < cost(tour) /\ (heuristic \in {"shifting", "kOpt"} => t[1] = tour[1])
<1> DEFINE P(parts, i) == /\ cost(Replaced(p, parts[i])) < cost(tour)
                          /\ \A j \in 1 .. i - 1 : cost(Replaced(p, parts[j])) >= cost(tour)
<1>1. PICK parts \in Replacements(p) :
        /\ \E i \in DOMAIN parts : cost(Replaced(p, parts[i])) < cost(tour)
        /\ t = Replaced(p, parts[CHOOSE i \in DOMAIN parts : P(parts, i)])
  BY DEF Improving
<1>2. \A i \in DOMAIN parts :
        /\ IsTour(Replaced(p, parts[i])) /\ cost(Replaced(p, parts[i])) \in Nat
        /\ heuristic \in {"shifting", "kOpt"} => Replaced(p, parts[i])[1] = tour[1]
  BY ReplacementsAreTours, CostIsNumber
<1>3. DOMAIN parts \subseteq Nat  BY <1>1, ReplacementsAreTours
<1>4. cost(tour) \in Nat  BY CostIsNumber
<1>5. \A i \in DOMAIN parts : 1 .. i - 1 \subseteq DOMAIN parts
  <2>1. \E N \in Nat : DOMAIN parts = 1 .. N
    <3>1. CASE heuristic = "twoOpt"
      <4>1. parts = <<Reverse(Slice(tour, p[1], p[2]))>>  BY <3>1 DEF Replacements
      <4>2. DOMAIN parts = 1 .. 1  BY <4>1
      <4> QED BY <4>2
    <3>2. CASE heuristic = "shifting"
      <4>1. \E x, y : parts = <<x, y>>  BY <3>2 DEF Replacements
      <4>2. DOMAIN parts = 1 .. 2  BY <4>1
      <4> QED BY <4>2
    <3>3. CASE heuristic = "threeOpt"
      <4>1. \E x, y, z : parts = <<x, y, z>>  BY <3>3 DEF Replacements
      <4>2. DOMAIN parts = 1 .. 3  BY <4>1
      <4> QED BY <4>2
    <3>4. CASE heuristic = "kOpt"
      <4>1. \E x : parts = <<x>>  BY <3>4 DEF Replacements
      <4>2. DOMAIN parts = 1 .. 1  BY <4>1
      <4> QED BY <4>2
    <3> QED BY <3>1, <3>2, <3>3, <3>4 DEF LocalSearches
  <2>2. PICK N \in Nat : DOMAIN parts = 1 .. N  BY <2>1
  <2>3. \A i \in 1 .. N : 1 .. i - 1 \subseteq 1 .. N  OBVIOUS
  <2> QED BY <2>2, <2>3
<1>6. \E i \in DOMAIN parts : P(parts, i)
  <2> DEFINE S == {i \in DOMAIN parts : cost(Replaced(p, parts[i])) < cost(tour)}
  <2>1. S \subseteq Nat /\ S # {}  BY <1>1, <1>3
  <2>2. PICK i \in S : \A j \in S : i <= j
    <3> HIDE DEF S
    <3> QED BY <2>1, LeastExists
  <2>3. i \in DOMAIN parts /\ i \in Nat /\ cost(Replaced(p, parts[i])) < cost(tour)  BY <1>3, <2>2
  <2>4. ASSUME NEW j \in 1 .. i - 1 PROVE cost(Replaced(p, parts[j])) >= cost(tour)
    <3>1. j \in DOMAIN parts /\ ~ (i <= j)  BY <1>5, <2>3
    <3>2. j \notin S  BY <2>2, <3>1
    <3>3. ~ (cost(Replaced(p, parts[j])) < cost(tour))  BY <3>1, <3>2
    <3>4. cost(Replaced(p, parts[j])) \in Nat  BY <1>2, <3>1
    <3> QED BY <1>4, <3>3, <3>4
  <2> QED BY <2>3, <2>4
<1> DEFINE best == CHOOSE i \in DOMAIN parts : P(parts, i)
<1>7. best \in DOMAIN parts /\ P(parts, best)
  <2> HIDE DEF P
  <2> QED BY <1>6
<1>8. t = Replaced(p, parts[best])  BY <1>1
<1>9. cost(Replaced(p, parts[best])) < cost(tour)  BY <1>7
<1> HIDE DEF best
<1> QED BY <1>2, <1>7, <1>8, <1>9

LEMMA SuffixIs ==
  ASSUME NEW U, NEW s \in Seq(U), NEW i \in 0 .. Len(s)
  PROVE  /\ Slice(s, i, Len(s)) \in Seq(U) /\ Len(Slice(s, i, Len(s))) = Len(s) - i
         /\ ToSet(Slice(s, i, Len(s))) = At(s, i + 1 .. Len(s))
<1>1. Len(s) \in Nat /\ Len(s) \in i .. Len(s)  BY LenProperties
<1>2. PICK n : n = Len(s)  OBVIOUS
<1>3. n \in i .. Len(s)  BY <1>1, <1>2
<1>4. Slice(s, i, n) \in Seq(U) /\ Len(Slice(s, i, n)) = n - i /\ ToSet(Slice(s, i, n)) = At(s, i + 1 .. n)
  BY <1>3, SliceIs
<1> QED BY <1>2, <1>4

-----------------------------------------------------------------------------
(* TimedLKHSolver: every call stands for a tour.                           *)

IsCall(c) ==
  /\ c.head \in Seq(Places) /\ c.tail \in Seq(Places)
  /\ 1 <= Len(c.head) /\ c.head[1] = vertices[1] /\ Len(c.head) + Len(c.tail) = Size
  /\ ToSet(c.head) \cup ToSet(c.tail) = Places

AreCalls(cs) == cs \in Seq(ToSet(cs)) /\ \A c \in ToSet(cs) : IsCall(c)

LEMMA SeqLarger ==
  ASSUME NEW S, NEW T, S \subseteq T, NEW s \in Seq(S)
  PROVE  s \in Seq(T)
<1>1. Len(s) \in Nat /\ s \in [1 .. Len(s) -> S]  BY LenProperties
<1>2. s \in [1 .. Len(s) -> T]  BY <1>1
<1> QED BY <1>1, <1>2

LEMMA CallsJoined ==
  ASSUME NEW a, NEW b, AreCalls(a), AreCalls(b)
  PROVE  AreCalls(a \o b)
<1> DEFINE U == ToSet(a) \cup ToSet(b)
<1>1. ToSet(a) \subseteq U /\ ToSet(b) \subseteq U /\ a \in Seq(ToSet(a)) /\ b \in Seq(ToSet(b))
  BY DEF AreCalls
<1> HIDE DEF U
<1>2. a \in Seq(U) /\ b \in Seq(U)  BY <1>1, SeqLarger
<1>3. a \o b \in Seq(U) /\ ToSet(a \o b) = ToSet(a) \cup ToSet(b)  BY <1>2, SetOfConcat
<1> DEFINE r == a \o b
<1> HIDE DEF r
<1>4. r \in Seq(U) /\ ToSet(r) = ToSet(a) \cup ToSet(b)  BY <1>3 DEF r
<1>5. r \in Seq(ToSet(r))  BY <1>4, SetOfIsFinite
<1>6. AreCalls(r)  BY <1>4, <1>5 DEF AreCalls
<1> QED BY <1>6 DEF r

LEMMA CallsLeft ==
  ASSUME NEW cs, AreCalls(cs), cs # <<>>
  PROVE  IsCall(Head(cs)) /\ AreCalls(Tail(cs))
<1> DEFINE U == ToSet(cs)
<1>1. cs \in Seq(U) /\ \A c \in U : IsCall(c)  BY DEF AreCalls
<1> HIDE DEF U
<1>2. Head(cs) \in U /\ Tail(cs) \in Seq(U)  BY <1>1, HeadTailProperties
<1> DEFINE r == Tail(cs)
<1> HIDE DEF r
<1>3. r \in Seq(U)  BY <1>2 DEF r
<1>4. r \in Seq(ToSet(r)) /\ ToSet(r) \subseteq U  BY <1>3, SetOfIsFinite
<1>5. AreCalls(r)  BY <1>1, <1>4 DEF AreCalls
<1> QED BY <1>1, <1>2, <1>5 DEF r

LEMMA CallsOf ==
  ASSUME NEW N \in Nat, NEW cs, cs = [i \in 1 .. N |-> cs[i]], \A i \in 1 .. N : IsCall(cs[i])
  PROVE  AreCalls(cs)
<1>1. DOMAIN cs = 1 .. N  OBVIOUS
<1>2. \A i \in 1 .. N : cs[i] \in ToSet(cs)  BY <1>1 DEF ToSet
<1>3. cs \in [1 .. N -> ToSet(cs)]  BY <1>2
<1>4. cs \in Seq(ToSet(cs))  BY <1>3
<1>5. \A c \in ToSet(cs) : IsCall(c)  BY <1>1 DEF ToSet
<1> QED BY <1>4, <1>5 DEF AreCalls

LEMMA CallIsTour ==
  ASSUME NEW c, IsCall(c)
  PROVE  IsTour(c.head \o c.tail) /\ (c.head \o c.tail)[1] = vertices[1]
<1>1. PICK h, r : h = c.head /\ r = c.tail  OBVIOUS
<1>2. /\ h \in Seq(Places) /\ r \in Seq(Places) /\ 1 <= Len(h) /\ h[1] = vertices[1]
      /\ Len(h) + Len(r) = Size /\ ToSet(h) \cup ToSet(r) = Places
  BY <1>1 DEF IsCall
<1>3. 1 \in 1 .. Len(h)  BY <1>2, LenProperties
<1>4. h \in Seq(Places) /\ r \in Seq(Places)  BY <1>2
<1>5. /\ h \o r \in Seq(Places) /\ Len(h \o r) = Len(h) + Len(r) /\ ToSet(h \o r) = ToSet(h) \cup ToSet(r)
      /\ \A i \in 1 .. Len(h) : (h \o r)[i] = h[i]
  BY <1>4, SetOfConcat
<1>6. (h \o r)[1] = vertices[1]  BY <1>2, <1>3, <1>5
<1>7. Len(h \o r) = Size /\ ToSet(h \o r) = Places  BY <1>2, <1>5
<1> QED BY <1>1, <1>5, <1>6, <1>7 DEF IsTour

\* A vertex is moved from the tail to the head, the others stay in the tail.
LEMMA ProlongedIsCall ==
  ASSUME NEW c, IsCall(c), NEW v \in ToSet(c.tail), NEW steps
  PROVE  IsCall(Prolonged(c, v, steps))
<1>1. PICK h, r : h = c.head /\ r = c.tail  OBVIOUS
<1>2. /\ h \in Seq(Places) /\ r \in Seq(Places) /\ 1 <= Len(h) /\ h[1] = vertices[1]
      /\ Len(h) + Len(r) = Size /\ ToSet(h) \cup ToSet(r) = Places
  BY <1>1 DEF IsCall
<1> DEFINE N == Len(r)
<1>3. N \in Nat /\ DOMAIN r = 1 .. N /\ Len(h) \in Nat  BY <1>2, LenProperties
<1>4. PICK i : i = CHOOSE x \in DOMAIN r : r[x] = v  OBVIOUS
<1>5. i \in DOMAIN r /\ r[i] = v  BY <1>1, <1>4 DEF ToSet
<1>6. i \in 1 .. N /\ v \in Places  BY <1>2, <1>3, <1>5, ElementOfSeq
<1> DEFINE p == SubSeq(r, 1, i - 1)
           q == SubSeq(r, i + 1, N)
           m == Reverse(p) \o q
<1>7. Moved(c, v) = m  BY <1>1, <1>4 DEF Moved
<1>8. p \in Seq(Places) /\ Len(p) = i - 1 /\ ToSet(p) = At(r, 1 .. i - 1)
  <2>1. 0 \in 0 .. N /\ i - 1 \in 0 .. N /\ 0 + 1 = 1 /\ (i - 1) - 0 = i - 1  BY <1>3, <1>6
  <2>2. PICK z, y : z = 0 /\ y = i - 1  OBVIOUS
  <2>3. Slice(r, z, y) \in Seq(Places) /\ Len(Slice(r, z, y)) = y - z /\ ToSet(Slice(r, z, y)) = At(r, z + 1 .. y)
    BY <1>2, <2>1, <2>2, SliceIs
  <2>4. Slice(r, z, y) = p  BY <2>1, <2>2 DEF Slice
  <2> QED BY <2>1, <2>2, <2>3, <2>4
<1>9. q \in Seq(Places) /\ Len(q) = N - i /\ ToSet(q) = At(r, i + 1 .. N)
  <2>1. r \in Seq(Places) /\ i \in 0 .. Len(r)  BY <1>2, <1>3, <1>6
  <2>2. Slice(r, i, Len(r)) = q  BY DEF Slice
  <2> HIDE DEF p, q, m
  <2>3. /\ Slice(r, i, Len(r)) \in Seq(Places) /\ Len(Slice(r, i, Len(r))) = Len(r) - i
        /\ ToSet(Slice(r, i, Len(r))) = At(r, i + 1 .. Len(r))
    BY <2>1, SuffixIs
  <2> QED BY <2>2, <2>3
<1> HIDE DEF p, q, N
<1>10. Reverse(p) \in Seq(Places) /\ Len(Reverse(p)) = i - 1 /\ ToSet(Reverse(p)) = ToSet(p)  BY <1>8, SetOfReverse
<1>11. m \in Seq(Places) /\ Len(m) = (i - 1) + (N - i) /\ ToSet(m) = ToSet(p) \cup ToSet(q)
  BY <1>9, <1>10, SetOfConcat
<1> HIDE DEF m
<1>12. /\ Append(h, v) \in Seq(Places) /\ Len(Append(h, v)) = Len(h) + 1 /\ ToSet(Append(h, v)) = ToSet(h) \cup {v}
       /\ Append(h, v)[1] = vertices[1]
  <2>1. 1 \in 1 .. Len(h)  BY <1>2, <1>3
  <2> QED BY <1>2, <1>6, <2>1, SetOfAppend
<1>13. ToSet(r) = At(r, 1 .. i - 1) \cup {v} \cup At(r, i + 1 .. N)
  <2>1. 1 .. N = (1 .. i - 1) \cup {i} \cup (i + 1 .. N)  BY <1>3, <1>6 DEF N
  <2>2. PICK X, Y : X = 1 .. i - 1 /\ Y = i + 1 .. N  OBVIOUS
  <2>3. 1 .. N = X \cup {i} \cup Y  BY <2>1, <2>2
  <2>4. DOMAIN r = 1 .. N /\ r[i] = v  BY <1>3, <1>5 DEF N
  <2>5. ToSet(r) = At(r, 1 .. N)  BY <2>4 DEF ToSet, At
  <2>6. At(r, {i}) = {v}  BY <2>4 DEF At
  <2>7. At(r, X \cup {i} \cup Y) = At(r, X) \cup At(r, {i}) \cup At(r, Y)  BY DEF At
  <2> QED BY <2>2, <2>3, <2>5, <2>6, <2>7
<1>14. ToSet(Append(h, v)) \cup ToSet(m) = Places  BY <1>2, <1>8, <1>9, <1>11, <1>12, <1>13
<1>15. 1 <= Len(h) + 1 /\ (Len(h) + 1) + ((i - 1) + (N - i)) = Size
  BY <1>2, <1>3, <1>6 DEF N
<1> DEFINE c2 == Prolonged(c, v, steps)
<1>16. c2.head = Append(h, v) /\ c2.tail = m  BY <1>1, <1>7 DEF Prolonged
<1> HIDE DEF c2
<1>17. IsCall(c2)  BY <1>11, <1>12, <1>14, <1>15, <1>16 DEF IsCall
<1> QED BY <1>17 DEF c2

LEMMA CandidatesAre ==
  ASSUME NEW c, IsCall(c), c.tail # <<>>, NEW found \in getCandidates(c)
  PROVE  found \in Seq(ToSet(c.tail)) /\ c.tail[1] \in ToSet(c.tail)
<1>1. PICK r : r = c.tail  OBVIOUS
<1>2. r \in Seq(Places) /\ r # <<>>  BY <1>1 DEF IsCall
<1>3. Len(r) \in Nat /\ DOMAIN r = 1 .. Len(r) /\ Len(r) # 0  BY <1>2, LenProperties, EmptySeq
<1>4. r[1] \in ToSet(r)  BY <1>3 DEF ToSet
<1>5. Tail(r) \in Seq(Places) /\ ToSet(Tail(r)) \subseteq ToSet(r)
  <2>1. r \in Seq(ToSet(r))  BY <1>2, SetOfIsFinite
  <2>2. Tail(r) \in Seq(Places) /\ Tail(r) \in Seq(ToSet(r))  BY <1>2, <2>1, HeadTailProperties
  <2> QED BY <2>2, SetOfIsFinite
<1>6. PICK better, s, m :
        /\ better \subseteq ToSet(Tail(r)) /\ s \in SetToSeqs(better)
        /\ m = (IF Len(s) < maxCandidates THEN Len(s) ELSE maxCandidates)
        /\ found = SubSeq(s, 1, m)
  BY <1>1 DEF getCandidates, InOrder
<1>7. IsFiniteSet(better) /\ Cardinality(better) \in Nat
  <2>1. IsFiniteSet(ToSet(Tail(r)))  BY <1>5, SetOfIsFinite
  <2> QED BY <1>6, <2>1, FS_Subset, FS_CardinalityType
<1>8. PICK n \in Nat : s \in [1 .. n -> better]
  BY <1>6, <1>7 DEF SetToSeqs
<1>9. s \in Seq(better) /\ Len(s) = n  BY <1>8
<1>10. s \in Seq(ToSet(r))
  <2>1. better \subseteq ToSet(r)  BY <1>5, <1>6
  <2> QED BY <1>9, <2>1, SeqLarger
<1>11. m \in 0 .. Len(s)
  <2>1. maxCandidates \in Nat  BY HeuristicsAssumption
  <2> QED BY <1>6, <1>9, <2>1
<1>12. found \in Seq(ToSet(r))
  <2>1. PICK z : z = 0  OBVIOUS
  <2>2. z \in 0 .. Len(s) /\ m \in z .. Len(s) /\ z + 1 = 1  BY <1>9, <1>11, <2>1
  <2>3. Slice(s, z, m) = found  BY <1>6, <2>2 DEF Slice
  <2>4. Slice(s, z, m) \in Seq(ToSet(r))  BY <1>10, <2>2, SliceIs
  <2> QED BY <2>3, <2>4
<1> QED BY <1>1, <1>4, <1>12

\* The calls that come instead of one.
LEMMA NextCalls ==
  ASSUME NEW c, IsCall(c), c.tail # <<>>, NEW found \in getCandidates(c), NEW rest, AreCalls(rest)
  PROVE  LET chosen == IF c.steps >= backTracingSteps /\ found # <<>> THEN <<found[1]>> ELSE found
         IN  AreCalls((IF found = <<>> THEN <<Prolonged(c, c.tail[1], c.steps)>>
                       ELSE [i \in DOMAIN chosen |-> Prolonged(c, chosen[i], c.steps + 1)]) \o rest)
<1> DEFINE U == ToSet(c.tail)
           chosen == IF c.steps >= backTracingSteps /\ found # <<>> THEN <<found[1]>> ELSE found
           one == <<Prolonged(c, c.tail[1], c.steps)>>
           many == [i \in DOMAIN chosen |-> Prolonged(c, chosen[i], c.steps + 1)]
<1>1. found \in Seq(U) /\ c.tail[1] \in U  BY CandidatesAre
<1> HIDE DEF U
<1>2. chosen \in Seq(U)
  <2>1. CASE found = <<>>  BY <1>1, <2>1
  <2>2. CASE found # <<>>
    <3>1. Len(found) \in Nat /\ Len(found) # 0  BY <1>1, <2>2, EmptySeq
    <3>2. 1 \in 1 .. Len(found)  BY <3>1
    <3>3. found[1] \in U  BY <1>1, <3>2, ElementOfSeq
    <3>4. <<found[1]>> \in Seq(U)  BY <3>3, SetOfOne
    <3> QED BY <1>1, <3>4
  <2> QED BY <2>1, <2>2
<1> HIDE DEF chosen
<1>3. PICK N \in Nat : DOMAIN chosen = 1 .. N /\ \A i \in 1 .. N : chosen[i] \in U
  BY <1>2, LenProperties, ElementOfSeq
<1>4. AreCalls(many)
  <2>1. \A i \in 1 .. N : IsCall(Prolonged(c, chosen[i], c.steps + 1))
    BY <1>3, ProlongedIsCall DEF U
  <2>2. many = [i \in 1 .. N |-> many[i]] /\ \A i \in 1 .. N : IsCall(many[i])
    BY <1>3, <2>1
  <2> HIDE DEF many
  <2> QED BY <2>2, CallsOf
<1>5. AreCalls(one)
  <2>1. IsCall(Prolonged(c, c.tail[1], c.steps))  BY <1>1, ProlongedIsCall DEF U
  <2>2. one = [i \in 1 .. 1 |-> one[i]] /\ \A i \in 1 .. 1 : IsCall(one[i]) /\ 1 \in Nat
    BY <2>1
  <2> HIDE DEF one
  <2> QED BY <2>2, CallsOf
<1> HIDE DEF one, many
<1>6. AreCalls(one \o rest) /\ AreCalls(many \o rest)  BY <1>4, <1>5, CallsJoined
<1>7. AreCalls((IF found = <<>> THEN one ELSE many) \o rest)  BY <1>6
<1> QED BY <1>7 DEF one, many, chosen

-----------------------------------------------------------------------------
(* RestrictedDynamicSolver: the walks.                                     *)

IsEntry(e, L) == e.walk \in Seq(Places) /\ Len(e.walk) = L /\ IsInjective(e.walk) /\ e.time = Arrival(e.walk)

AreEntries(es, L) == es \in Seq(ToSet(es)) /\ \A e \in ToSet(es) : IsEntry(e, L)

LEMMA EntryTime ==
  ASSUME NEW L \in 1 .. Size, NEW e, IsEntry(e, L), distances \in DistanceFuncs
  PROVE  e.time \in Nat /\ e.time <= Slowest * (L - 1) /\ e.time \in 0 .. Slowest * Size
<1>1. Size \in Nat /\ L \in Nat /\ 1 <= L /\ L <= Size /\ L <= Size + 1  BY PlacesAre
<1>2. e.time \in Nat /\ e.time <= Slowest * (L - 1)
  BY <1>1, ArrivalIsNumber DEF IsEntry
<1>3. PICK m \in Nat : m = L - 1 /\ m <= Size  BY <1>1
<1>4. Slowest \in Nat  BY SlowestIs
<1>5. Slowest * m \in Nat /\ Slowest * Size \in Nat /\ Slowest * m <= Slowest * Size
  BY <1>1, <1>3, <1>4, Products
<1>6. PICK p, q : p = Slowest * m /\ q = Slowest * Size  OBVIOUS
<1>7. e.time \in 0 .. q  BY <1>2, <1>3, <1>5, <1>6
<1> QED BY <1>2, <1>6, <1>7

\* A walk that is prolonged by a vertex it has not visited.
LEMMA NextEntry ==
  ASSUME NEW L \in 1 .. Size - 1, NEW e, IsEntry(e, L), distances \in DistanceFuncs, NEW v \in Places, v \notin ToSet(e.walk)
  PROVE  LET f == Entry(Append(e.walk, v), Travel(e, v))
         IN  IsEntry(f, L + 1) /\ Travel(e, v) \in Nat /\ Travel(e, v) <= Inf /\ f.time = Travel(e, v)
<1>1. Size \in Nat /\ L \in Nat /\ L \in 1 .. Size /\ L + 1 \in 1 .. Size /\ 1 <= L /\ L <= Size  BY PlacesAre
<1>2. PICK w : w = e.walk  OBVIOUS
<1>3. w \in Seq(Places) /\ Len(w) = L /\ IsInjective(w) /\ e.time = Arrival(w)  BY <1>2 DEF IsEntry
<1> DEFINE x == Append(w, v)
<1>4. /\ x \in Seq(Places) /\ Len(x) = L + 1 /\ (\A i \in 1 .. L : x[i] = w[i]) /\ x[L + 1] = v
  BY <1>3, SetOfAppend
<1>5. Arrival(x) = Arrival(w) + distances[<<w[Len(w)], v>>][Arrival(w)]
  BY <1>1, <1>3, ArrivalOfAppend
<1> HIDE DEF x
<1>6. DOMAIN x = 1 .. L + 1 /\ DOMAIN w = 1 .. L  BY <1>3, <1>4, LenProperties
<1>7. \A i \in 1 .. L : w[i] # v  BY <1>2, <1>6 DEF ToSet
<1>8. IsInjective(x)
  <2> SUFFICES ASSUME NEW i \in 1 .. L + 1, NEW j \in 1 .. L + 1, x[i] = x[j] PROVE i = j
    BY <1>6 DEF IsInjective
  <2>1. (i \in 1 .. L \/ i = L + 1) /\ (j \in 1 .. L \/ j = L + 1)  BY <1>1
  <2>2. CASE i \in 1 .. L /\ j \in 1 .. L
    <3>1. w[i] = w[j]  BY <1>4, <2>2
    <3> QED BY <1>3, <1>6, <2>2, <3>1 DEF IsInjective
  <2> QED BY <1>4, <1>7, <2>1, <2>2
<1>9. Travel(e, v) = Arrival(x)
  BY <1>2, <1>3, <1>5 DEF Travel, Last
<1> DEFINE f == Entry(x, Travel(e, v))
<1>10. f.walk = x /\ f.time = Travel(e, v)  BY DEF Entry
<1>11. f = Entry(Append(e.walk, v), Travel(e, v))  BY <1>2 DEF x
<1> HIDE DEF f
<1>12. IsEntry(f, L + 1)  BY <1>4, <1>8, <1>9, <1>10 DEF IsEntry
<1>13. f.time \in 0 .. Slowest * Size  BY <1>1, <1>12, EntryTime
<1>14. Slowest * Size <= Inf /\ Inf \in Nat /\ Slowest * Size \in Nat
  <2>1. Slowest \in Nat /\ Slowest * Size <= Inf /\ Inf \in Nat  BY SlowestIs
  <2> QED BY <2>1, <1>1, Products
<1>15. PICK q : q = Slowest * Size  OBVIOUS
<1>16. Travel(e, v) \in Nat /\ Travel(e, v) <= Inf  BY <1>10, <1>13, <1>14, <1>15
<1> QED BY <1>10, <1>11, <1>12, <1>16

LEMMA OrderedIs ==
  ASSUME NEW set, IsFiniteSet(set), NEW s \in SetToSeqs(set)
  PROVE  s \in Seq(set) /\ Len(s) = Cardinality(set) /\ s \in Seq(ToSet(s)) /\ ToSet(s) \subseteq set
<1>1. Cardinality(set) \in Nat  BY FS_CardinalityType
<1>2. PICK n \in Nat : n = Cardinality(set) /\ s \in [1 .. n -> set]  BY <1>1 DEF SetToSeqs
<1>3. s \in Seq(set) /\ Len(s) = n  BY <1>2
<1> QED BY <1>2, <1>3, SetOfIsFinite

LEMMA EntriesJoined ==
  ASSUME NEW L, NEW a, NEW b, AreEntries(a, L), AreEntries(b, L)
  PROVE  AreEntries(a \o b, L) /\ Len(a \o b) = Len(a) + Len(b)
<1> DEFINE U == ToSet(a) \cup ToSet(b)
<1>1. ToSet(a) \subseteq U /\ ToSet(b) \subseteq U /\ a \in Seq(ToSet(a)) /\ b \in Seq(ToSet(b))
  BY DEF AreEntries
<1> HIDE DEF U
<1>2. a \in Seq(U) /\ b \in Seq(U)  BY <1>1, SeqLarger
<1>3. a \o b \in Seq(U) /\ ToSet(a \o b) = ToSet(a) \cup ToSet(b) /\ Len(a \o b) = Len(a) + Len(b)
  BY <1>2, SetOfConcat
<1> DEFINE r == a \o b
<1> HIDE DEF r
<1>4. r \in Seq(U) /\ ToSet(r) = ToSet(a) \cup ToSet(b) /\ Len(r) = Len(a) + Len(b)  BY <1>3 DEF r
<1>5. r \in Seq(ToSet(r))  BY <1>4, SetOfIsFinite
<1>6. AreEntries(r, L)  BY <1>4, <1>5 DEF AreEntries
<1> QED BY <1>4, <1>6 DEF r

\* Of every set of vertices one walk is taken: none of the choices is empty.
Taken(walks, sets, visited) == {s \cup {e} : s \in sets, e \in {e \in walks : Visits(e) = visited}}

LEMMA ChoicesAre ==
  ASSUME NEW best, IsFiniteSet(best), best # {}, NEW set \in OneForEach(best)
  PROVE  set # {} /\ set \subseteq best
<1> DEFINE D == {Visits(e) : e \in best}
           V == SUBSET SUBSET best
           F == [x \in D |-> [y \in V |-> Taken(best, y, x)]]
           Extends(g) == g = [s \in SUBSET D |-> IF s = {} THEN {{}} ELSE Taken(best, g[s \ {First(s)}], First(s))]
<1>1. IsFiniteSet(D) /\ D # {}
  <2> DEFINE h == [e \in best |-> Visits(e)]
  <2>1. h \in [best -> D] /\ \A x \in D : \E e \in best : h[e] = x  OBVIOUS
  <2>2. D # {}  OBVIOUS
  <2> HIDE DEF h, D
  <2>3. h \in Surjection(best, D)  BY <2>1 DEF Surjection
  <2>4. IsFiniteSet(D)  BY <2>3, FS_Surjection
  <2> QED BY <2>2, <2>4
<1>2. OneForEach(best) = (CHOOSE g : Extends(g))[D]
  BY DEF OneForEach, FoldSet, MapThenFoldSet, First, Taken
<1>3. F \in [D -> [V -> V]] /\ {{}} \in V
  <2>1. ASSUME NEW x \in D, NEW y \in V PROVE Taken(best, y, x) \in V
    <3>1. \A s \in y, e \in {e \in best : Visits(e) = x} : s \cup {e} \subseteq best  BY <2>1
    <3> QED BY <3>1 DEF Taken
  <2> HIDE DEF D
  <2> QED BY <2>1
<1>4. PICK g : IsFold(g, F, {{}}, D, V)
  <2> HIDE DEF D, F, V
  <2> QED BY <1>1, <1>3, FoldExists
<1> HIDE DEF D
<1>5. Extends(g)
  <2>1. g \in [SUBSET D -> V]  BY <1>4 DEF IsFold
  <2>2. \A t \in SUBSET D : t # {} => First(t) \in D /\ g[t \ {First(t)}] \in V
    BY <2>1 DEF First
  <2>3. \A t \in SUBSET D : t # {} =>
          F[First(t)][g[t \ {First(t)}]] = Taken(best, g[t \ {First(t)}], First(t))
    BY <2>2
  <2>4. \A t \in SUBSET D : g[t] = IF t = {} THEN {{}} ELSE F[First(t)][g[t \ {First(t)}]]
    <3> HIDE DEF F, V
    <3> QED BY <1>4 DEF IsFold
  <2> HIDE DEF F, V
  <2>5. DOMAIN g = SUBSET D /\ g = [t \in DOMAIN g |-> g[t]]  BY <2>1
  <2>6. \A t \in SUBSET D : g[t] = IF t = {} THEN {{}} ELSE Taken(best, g[t \ {First(t)}], First(t))
    BY <2>3, <2>4
  <2> QED BY <2>5, <2>6
<1>6. PICK h : Extends(h) /\ OneForEach(best) = h[D]
  <2>1. Extends(CHOOSE f : Extends(f))
    <3> HIDE DEF Extends
    <3> QED BY <1>5
  <2> HIDE DEF Extends
  <2> QED BY <1>2, <2>1
<1> DEFINE Some(t) == \A s \in h[t] : s \subseteq best /\ (t # {} => s # {})
           T == {t \in SUBSET D : ~ Some(t)}
<1>7. T = {}
  <2> SUFFICES ASSUME T # {} PROVE FALSE
    OBVIOUS
  <2>1. PICK t \in T : \A u \in SUBSET t : u # t => u \notin T
    <3>1. T \in SUBSET SUBSET D  OBVIOUS
    <3> HIDE DEF T
    <3> QED BY <1>1, <3>1, LeastSubsetExists
  <2>2. t \in SUBSET D  OBVIOUS
  <2>3. CASE t = {}
    <3>1. h[t] = {{}}  BY <1>6, <2>2, <2>3
    <3>2. Some(t)  BY <2>3, <3>1
    <3> QED BY <3>2
  <2>4. CASE t # {}
    <3> DEFINE x == First(t)
               u == t \ {x}
    <3>1. x \in t  BY <2>4 DEF First
    <3>2. h[t] = Taken(best, h[u], x)  BY <1>6, <2>2, <2>4
    <3>3. u \in SUBSET t /\ u # t /\ u \in SUBSET D  BY <3>1
    <3> HIDE DEF x, u
    <3>4. Some(u)
      <4> HIDE DEF Some
      <4> QED BY <2>1, <3>3
    <3>5. Some(t)
      <4> SUFFICES ASSUME NEW s \in h[t] PROVE s \subseteq best /\ s # {}
        OBVIOUS
      <4>1. PICK r \in h[u], e \in best : s = r \cup {e}  BY <3>2 DEF Taken
      <4>2. r \subseteq best  BY <3>4
      <4> QED BY <4>1, <4>2
    <3> QED BY <3>5
  <2> QED BY <2>3, <2>4
<1>8. Some(D)
  <2> HIDE DEF Some
  <2>1. D \in SUBSET D  OBVIOUS
  <2> QED BY <1>7, <2>1
<1> QED BY <1>1, <1>6, <1>8

\* What is left of the walks are some of them, and as few as there may be.
LEMMA PrunedAre ==
  ASSUME NEW L \in 1 .. Size, AreEntries(nextEntries, L), nextEntries # <<>>, distances \in DistanceFuncs,
         NEW es \in Pruned
  PROVE  AreEntries(es, L) /\ es # <<>> /\ (Layer # 1 => Len(es) <= maxSize)
<1> DEFINE all == ToSet(nextEntries)
           best == {e \in all : \A f \in all : Visits(f) = Visits(e) => e.time <= f.time}
           kept == OneForEach(best)
           Few(set) == {s \in kSubset(maxSize, set) : \A e \in s, f \in set \ s : e.time <= f.time}
           Cut(set) == IF Cardinality(set) <= maxSize THEN InOrder(set, SetBefore)
                       ELSE UNION {InOrder(c, Earlier) : c \in Few(set)}
<1>1. es \in IF Len(nextEntries) <= maxSize \/ Layer = 1 THEN {nextEntries} ELSE UNION {Cut(set) : set \in kept}
  BY DEF Pruned
<1>2. nextEntries \in Seq(all) /\ \A e \in all : IsEntry(e, L)  BY DEF AreEntries
<1>3. maxSize \in Nat \ {0}  BY HeuristicsAssumption
<1>4. CASE Len(nextEntries) <= maxSize \/ Layer = 1
  <2>1. es = nextEntries  BY <1>1, <1>4
  <2> QED BY <1>4, <2>1
<1>5. CASE ~ (Len(nextEntries) <= maxSize \/ Layer = 1)
  <2>1. IsFiniteSet(all)  BY <1>2, SetOfIsFinite
  <2>2. \A e \in all : e.time \in Nat  BY <1>2, EntryTime
  <2>3. best # {}
    <3>1. \E e : e \in all
      <4>1. Len(nextEntries) \in Nat /\ Len(nextEntries) # 0 /\ DOMAIN nextEntries = 1 .. Len(nextEntries)
        BY <1>2, EmptySeq, LenProperties
      <4>2. 1 \in DOMAIN nextEntries  BY <4>1
      <4> QED BY <4>2 DEF ToSet
    <3> DEFINE T == {e.time : e \in all}
    <3>2. T \subseteq Nat /\ T # {}  BY <2>2, <3>1
    <3>3. PICK n \in T : \A m \in T : n <= m
      <4> HIDE DEF T
      <4> QED BY <3>2, LeastExists
    <3>4. PICK e \in all : e.time = n  BY <3>3
    <3>5. \A f \in all : e.time <= f.time  BY <3>3, <3>4
    <3> QED BY <3>4, <3>5
  <2>4. best \subseteq all  OBVIOUS
  <2>5. IsFiniteSet(best)  BY <2>1, <2>4, FS_Subset
  <2>6. \E set \in kept : es \in Cut(set)
    <3> HIDE DEF Cut, kept
    <3> QED BY <1>1, <1>5
  <2>7. PICK set \in kept : es \in Cut(set)  BY <2>6
  <2>8. set # {} /\ set \subseteq best
    <3> HIDE DEF best
    <3> QED BY <2>3, <2>5, ChoicesAre
  <2>9. set \subseteq all /\ IsFiniteSet(set)  BY <2>1, <2>4, <2>8, FS_Subset
  <2> HIDE DEF all, best, kept
  <2>10. PICK c : c \subseteq set /\ es \in SetToSeqs(c) /\ Cardinality(c) <= maxSize /\ Cardinality(c) # 0
    <3>1. CASE Cardinality(set) <= maxSize
      <4>1. es \in SetToSeqs(set)  BY <2>7, <3>1 DEF InOrder
      <4>2. Cardinality(set) # 0  BY <2>8, <2>9, FS_EmptySet
      <4> QED BY <3>1, <4>1, <4>2
    <3>2. CASE ~ (Cardinality(set) <= maxSize)
      <4>1. PICK c \in Few(set) : es \in InOrder(c, Earlier)  BY <2>7, <3>2
      <4>2. c \subseteq set /\ Cardinality(c) = maxSize  BY <4>1 DEF kSubset
      <4>3. es \in SetToSeqs(c)  BY <4>1 DEF InOrder
      <4>4. maxSize <= maxSize /\ maxSize # 0  BY <1>3
      <4> QED BY <4>2, <4>3, <4>4
    <3> QED BY <3>1, <3>2
  <2>11. IsFiniteSet(c)  BY <2>9, <2>10, FS_Subset
  <2>12. es \in Seq(c) /\ Len(es) = Cardinality(c) /\ es \in Seq(ToSet(es)) /\ ToSet(es) \subseteq c
    BY <2>10, <2>11, OrderedIs
  <2>13. AreEntries(es, L)  BY <1>2, <2>9, <2>10, <2>12 DEF AreEntries
  <2>14. es # <<>>  BY <2>10, <2>12, EmptySeq
  <2> QED BY <2>10, <2>12, <2>13, <2>14
<1> QED BY <1>4, <1>5

\* A tour that is turned until the source is first.
LEMMA TurnedTour ==
  ASSUME NEW w, IsTour(w)
  PROVE  LET i == CHOOSE i \in DOMAIN w : w[i] = vertices[1]
             r == SubSeq(w, i, Size) \o SubSeq(w, 1, i - 1)
         IN  IsTour(r) /\ r[1] = vertices[1]
<1>1. /\ Size \in Nat /\ Size >= 3 /\ w \in Seq(Places) /\ Len(w) = Size /\ DOMAIN w = 1 .. Size /\ ToSet(w) = Places
      /\ vertices[1] \in Places
  <2>1. 1 \in 1 .. Size  BY PlacesAre
  <2> QED BY <2>1, PlacesAre, TourPlaces, VerticesAreTour DEF IsTour
<1>2. PICK i : i = CHOOSE x \in DOMAIN w : w[x] = vertices[1]  OBVIOUS
<1>3. i \in 1 .. Size /\ w[i] = vertices[1]  BY <1>1, <1>2 DEF ToSet
<1> DEFINE p == SubSeq(w, i, Size)
           q == SubSeq(w, 1, i - 1)
<1>4. PICK j \in Nat : j = i - 1 /\ j + 1 = i /\ j \in 0 .. Size /\ Size \in j .. Size /\ 0 \in 0 .. Size  BY <1>1, <1>3
<1>5. p = Slice(w, j, Size) /\ q = Slice(w, 0, j)
  <2>1. PICK z : z = 0  OBVIOUS
  <2>2. z + 1 = 1  BY <2>1
  <2>3. SubSeq(w, z + 1, j) = q  BY <1>4, <2>2
  <2> QED BY <1>4, <2>1, <2>3 DEF Slice
<1> HIDE DEF p, q
<1>6. /\ p \in Seq(Places) /\ Len(p) = Size - j /\ ToSet(p) = At(w, i .. Size)
      /\ \A x \in 1 .. Size - j : p[x] = w[j + x]
  <2>1. j \in 0 .. Size /\ Size \in j .. Size /\ j + 1 = i  BY <1>4
  <2>2. PICK y : y = Size  OBVIOUS
  <2>3. y \in j .. Size  BY <2>1, <2>2
  <2>4. /\ Slice(w, j, y) \in Seq(Places) /\ Len(Slice(w, j, y)) = y - j /\ ToSet(Slice(w, j, y)) = At(w, j + 1 .. y)
        /\ \A x \in 1 .. y - j : Slice(w, j, y)[x] = w[j + x]
    BY <2>1, <2>3, TourSlice
  <2>5. p = Slice(w, j, y)  BY <1>5, <2>2
  <2> QED BY <2>1, <2>2, <2>4, <2>5
<1>7. q \in Seq(Places) /\ Len(q) = j /\ ToSet(q) = At(w, 1 .. j)
  BY <1>4, <1>5, TourPrefix
<1> DEFINE r == p \o q
<1>8. /\ r \in Seq(Places) /\ Len(r) = (Size - j) + j /\ ToSet(r) = ToSet(p) \cup ToSet(q)
      /\ \A x \in 1 .. Size - j : r[x] = p[x]
  BY <1>6, <1>7, SetOfConcat
<1> HIDE DEF r
<1>9. Len(r) = Size  BY <1>1, <1>4, <1>8
<1>10. ToSet(r) = Places
  <2>1. 1 .. Size = (i .. Size) \cup (1 .. j)  BY <1>1, <1>3, <1>4
  <2>2. At(w, 1 .. Size) = At(w, i .. Size) \cup At(w, 1 .. j)  BY <2>1 DEF At
  <2>3. ToSet(w) = At(w, 1 .. Size)  BY <1>1 DEF ToSet, At
  <2> QED BY <1>1, <1>6, <1>7, <1>8, <2>2, <2>3
<1>11. r[1] = vertices[1]
  <2>1. 1 \in 1 .. Size - j  BY <1>1, <1>3, <1>4
  <2>2. r[1] = w[j + 1]  BY <1>6, <1>8, <2>1
  <2> QED BY <1>3, <1>4, <2>2
<1>12. r = SubSeq(w, i, Size) \o SubSeq(w, 1, i - 1)  BY DEF r, p, q
<1>13. IsTour(r)  BY <1>8, <1>9, <1>10 DEF IsTour
<1> QED BY <1>2, <1>11, <1>12, <1>13

\* The walk that is turned is one of them: one is the best.
LEMMA BestExists ==
  ASSUME NEW es, es # <<>>, AreEntries(es, Size), distances \in DistanceFuncs
  PROVE  \E i \in DOMAIN es : \A j \in DOMAIN es :
           /\ cost(es[i].walk) <= cost(es[j].walk)
           /\ j < i => cost(es[i].walk) < cost(es[j].walk)
<1>1. es \in Seq(ToSet(es)) /\ \A e \in ToSet(es) : IsEntry(e, Size)  BY DEF AreEntries
<1>2. Len(es) \in Nat /\ Len(es) # 0 /\ DOMAIN es = 1 .. Len(es)  BY <1>1, EmptySeq, LenProperties
<1> DEFINE N == Len(es)
           C(i) == cost(es[i].walk)
<1>3. \A i \in 1 .. N : C(i) \in Nat
  <2> TAKE i \in 1 .. N
  <2>1. IsEntry(es[i], Size)  BY <1>1, <1>2 DEF ToSet
  <2>2. IsTour(es[i].walk)  BY <2>1, FullWalk DEF IsEntry
  <2> QED BY <2>2, CostIsNumber
<1> HIDE DEF N, C
<1>4. N \in Nat /\ 1 \in 1 .. N  BY <1>2 DEF N
<1> DEFINE T == {C(i) : i \in 1 .. N}
<1>5. PICK n \in T : \A m \in T : n <= m
  <2>1. T \subseteq Nat /\ T # {}  BY <1>3, <1>4
  <2> HIDE DEF T
  <2> QED BY <2>1, LeastExists
<1> DEFINE S == {i \in 1 .. N : C(i) = n}
<1>6. PICK i \in S : \A j \in S : i <= j
  <2>1. S \subseteq Nat /\ S # {}  BY <1>5
  <2> HIDE DEF S
  <2> QED BY <2>1, LeastExists
<1>7. i \in 1 .. N /\ C(i) = n  BY <1>6
<1>8. \A j \in 1 .. N : C(i) <= C(j)  BY <1>5, <1>7
<1>9. \A j \in 1 .. N : j < i => C(i) < C(j)
  <2> SUFFICES ASSUME NEW j \in 1 .. N, j < i PROVE C(i) < C(j)
    OBVIOUS
  <2>1. C(j) # n
    <3>1. j \notin S  BY <1>6, <1>7
    <3> QED BY <3>1
  <2> QED BY <1>3, <1>7, <1>8, <2>1
<1> QED BY <1>2, <1>7, <1>8, <1>9 DEF N, C

-----------------------------------------------------------------------------
(* The invariants.                                                         *)

HeuristicsTypeOK ==
  /\ distances \in DistanceFuncs
  /\ heuristic \in LocalSearches \cup {"lkh", "restricted"}
  /\ pc = "improve" => heuristic \in LocalSearches
  /\ pc = "descend" => heuristic = "lkh"
  /\ pc = "expand" => heuristic = "restricted"

\* There is a tour at any time, and every call stands for one.
ToursInv ==
  /\ IsTour(tour)
  /\ heuristic \notin {"twoOpt", "threeOpt"} => tour[1] = vertices[1]
  /\ heuristic # "restricted" => cost(tour) <= cost(vertices)
  /\ AreCalls(calls)

\* The walks are walks that arrive when they say, those that are being made one vertex
\* longer than those they are made of.
EntriesAreWalks ==
  /\ entries # <<>> /\ Layer \in 1 .. Size
  /\ AreEntries(entries, Layer) /\ AreEntries(nextEntries, Layer + 1)
  /\ IsFiniteSet(candidates) /\ \A e \in candidates : IsEntry(e, Layer + 1)
  /\ last \in 1 .. Len(entries) + 1 /\ next \in 1 .. Size + 1
  /\ last > Len(entries) => candidates = {} /\ next = 1
  /\ Layer > 2 => Len(entries) <= maxSize

\* A bound is only set when there are enough walks already; before that, every vertex that
\* was tried and is not in the walk has made a candidate.  So every walk that was prolonged
\* has left another one, unless there are enough.
BoundIsLate ==
  /\ upperBound # Inf => Len(nextEntries) + Cardinality(candidates) >= maxSize
  /\ Len(nextEntries) >= last - 1 \/ Len(nextEntries) >= maxSize
  /\ upperBound = Inf /\ last <= Len(entries) /\ candidates = {} =>
       \A j \in 1 .. next - 1 : vertices[j] \in ToSet(entries[last].walk)

WalksInv ==
  /\ heuristic # "restricted" => entries = <<>> /\ nextEntries = <<>> /\ candidates = {}
  /\ heuristic = "restricted" => EntriesAreWalks /\ BoundIsLate

HeuristicsInv == HeuristicsTypeOK /\ ToursInv /\ WalksInv

LEMMA SingleWalk ==
  ASSUME NEW v \in Places, distances \in DistanceFuncs
  PROVE  IsEntry(Entry(<<v>>, 0), 1)
<1>1. <<v>> \in Seq(Places) /\ Len(<<v>>) = 1 /\ 1 <= 1 /\ 1 <= Size + 1  BY SetOfOne, PlacesAre
<1>2. PICK g : IsTimetable(g, <<v>>)  BY <1>1, TimetableExists
<1>3. g[1] = 0  BY <1>1, <1>2 DEF IsTimetable, Follows
<1>4. Arrival(<<v>>) = 0  BY <1>1, <1>2, <1>3, ArrivalIs
<1>5. IsInjective(<<v>>)  BY DEF IsInjective
<1> QED BY <1>1, <1>4, <1>5 DEF IsEntry, Entry

LEMMA InitInv == Init => HeuristicsInv
<1> SUFFICES ASSUME Init PROVE HeuristicsInv
  OBVIOUS
<1>1. Size \in Nat /\ Size >= 3 /\ maxSize \in Nat \ {0} /\ IsTour(vertices)  BY PlacesAre, VerticesAreTour, HeuristicsAssumption
<1>2. DOMAIN CutsOf = LocalSearches  BY DEF CutsOf, LocalSearches
<1>3. distances \in DistanceFuncs /\ heuristic \in LocalSearches \cup {"lkh", "restricted"} /\ tour = vertices
  BY <1>2 DEF Init
<1>4. pc = CASE heuristic = "lkh" -> "descend" [] heuristic = "restricted" -> "expand" [] OTHER -> "improve"
  BY DEF Init
<1>5. HeuristicsTypeOK  BY <1>3, <1>4 DEF HeuristicsTypeOK, LocalSearches
<1>6. ToursInv
  <2>1. cost(tour) <= cost(vertices)
    <3>1. cost(vertices) \in Nat  BY <1>1, <1>3, CostIsNumber
    <3> QED BY <1>3, <3>1
  <2>2. AreCalls(calls)
    <3> DEFINE E(i) == [head |-> Slice(tour, 0, i), tail |-> Slice(tour, i, Size), time |-> 0, steps |-> 0]
    <3>1. calls = (IF pc = "descend" THEN [i \in 1 .. Size - 1 |-> E(i)] ELSE <<>>)  BY DEF Init
    <3>2. \A i \in 1 .. Size - 1 : IsCall(E(i))
      <4> TAKE i \in 1 .. Size - 1
      <4>1. vertices \in Seq(Places) /\ Len(vertices) = Size /\ DOMAIN vertices = 1 .. Size /\ ToSet(vertices) = Places
        BY PlacesAre DEF Places
      <4> DEFINE h == Slice(vertices, 0, i)
                 r == Slice(vertices, i, Size)
      <4>3. i \in 0 .. Size /\ Size \in i .. Size /\ 1 \in 1 .. i  BY <1>1
      <4>5. h \in Seq(Places) /\ Len(h) = i /\ ToSet(h) = At(vertices, 1 .. i) /\ h[1] = vertices[1]
        BY <1>1, <4>3, TourPrefix
      <4>6. r \in Seq(Places) /\ Len(r) = Size - i /\ ToSet(r) = At(vertices, i + 1 .. Size)
        BY <1>1, <4>3, TourSlice
      <4>7. ToSet(h) \cup ToSet(r) = Places
        <5>1. 1 .. Size = (1 .. i) \cup (i + 1 .. Size)  BY <1>1
        <5>2. At(vertices, 1 .. Size) = At(vertices, 1 .. i) \cup At(vertices, i + 1 .. Size)  BY <5>1 DEF At
        <5>3. ToSet(vertices) = At(vertices, 1 .. Size)  BY <4>1 DEF ToSet, At
        <5> QED BY <4>1, <4>5, <4>6, <5>2, <5>3
      <4>8. 1 <= i /\ i + (Size - i) = Size  BY <1>1
      <4>9. E(i).head = h /\ E(i).tail = r  BY <1>3
      <4> HIDE DEF E, h, r
      <4> QED BY <4>5, <4>6, <4>7, <4>8, <4>9 DEF IsCall
    <3> HIDE DEF E
    <3>3. CASE pc = "descend"
      <4>1. calls = [i \in 1 .. Size - 1 |-> calls[i]] /\ \A i \in 1 .. Size - 1 : IsCall(calls[i])
        BY <3>1, <3>2, <3>3
      <4>2. PICK m \in Nat : m = Size - 1  BY <1>1
      <4> QED BY <4>1, <4>2, CallsOf
    <3>4. CASE pc # "descend"
      <4>1. calls = <<>>  BY <3>1, <3>4
      <4> QED BY <4>1 DEF AreCalls, ToSet
    <3> QED BY <3>3, <3>4
  <2> QED BY <1>1, <1>3, <2>1, <2>2 DEF ToursInv
<1>7. WalksInv
  <2>1. /\ nextEntries = <<>> /\ candidates = {} /\ last = 1 /\ next = 1 /\ upperBound = Inf
        /\ entries = IF pc = "expand" THEN [i \in 1 .. Size |-> Entry(<<vertices[i]>>, 0)] ELSE <<>>
    BY DEF Init
  <2>2. CASE heuristic # "restricted"
    <3>1. pc # "expand"  BY <1>5, <2>2 DEF HeuristicsTypeOK
    <3> QED BY <2>1, <2>2, <3>1 DEF WalksInv
  <2>3. CASE heuristic = "restricted"
    <3>1. entries = [i \in 1 .. Size |-> Entry(<<vertices[i]>>, 0)]  BY <1>4, <2>1, <2>3
    <3>2. \A i \in 1 .. Size : IsEntry(entries[i], 1)
      <4> TAKE i \in 1 .. Size
      <4>1. vertices[i] \in Places  BY PlacesAre DEF Places, ToSet
      <4> QED BY <1>3, <3>1, <4>1, SingleWalk
    <3>3. DOMAIN entries = 1 .. Size /\ 1 \in 1 .. Size  BY <1>1, <3>1
    <3>4. entries \in Seq(ToSet(entries)) /\ Len(entries) = Size
      <4>1. \A i \in 1 .. Size : entries[i] \in ToSet(entries)  BY <3>3 DEF ToSet
      <4>2. entries \in [1 .. Size -> ToSet(entries)]  BY <3>1, <4>1
      <4> QED BY <1>1, <4>2
    <3>5. AreEntries(entries, 1)  BY <3>2, <3>3, <3>4 DEF AreEntries, ToSet
    <3>6. Layer = 1  BY <3>2, <3>3 DEF Layer, IsEntry
    <3>7. AreEntries(nextEntries, 2)  BY <2>1 DEF AreEntries, ToSet
    <3>8. IsFiniteSet(candidates) /\ Cardinality(candidates) = 0  BY <2>1, FS_EmptySet
    <3>9. entries # <<>>  BY <1>1, <3>4, EmptySeq
    <3>10. 1 + 1 = 2 /\ 1 \in 1 .. Size /\ 1 \in 1 .. Size + 1 /\ ~ (1 > 2)  BY <1>1
    <3>11. EntriesAreWalks
      BY <2>1, <3>4, <3>5, <3>6, <3>7, <3>8, <3>9, <3>10 DEF EntriesAreWalks
    <3>12. BoundIsLate
      <4>1. Len(nextEntries) = 0  BY <2>1
      <4> QED BY <2>1, <4>1 DEF BoundIsLate
    <3> QED BY <2>3, <3>11, <3>12 DEF WalksInv
  <2> QED BY <2>2, <2>3
<1> QED BY <1>5, <1>6, <1>7 DEF HeuristicsInv

-----------------------------------------------------------------------------
(* The steps.                                                              *)

LEMMA SameTimes ==
  ASSUME UNCHANGED distances
  PROVE  /\ \A t : (cost(t))' = cost(t)
         /\ \A e, L : (IsEntry(e, L))' <=> IsEntry(e, L)
         /\ \A es, L : (AreEntries(es, L))' <=> AreEntries(es, L)
<1>1. \A w : (Arrival(w))' = Arrival(w)  BY DEF Arrival
<1>2. \A t : (cost(t))' = cost(t)  BY <1>1 DEF cost
<1>3. \A e, L : (IsEntry(e, L))' <=> IsEntry(e, L)  BY <1>1 DEF IsEntry
<1>4. \A es, L : (AreEntries(es, L))' <=> AreEntries(es, L)  BY <1>3 DEF AreEntries
<1> QED BY <1>2, <1>3, <1>4

LEMMA SameWalks ==
  ASSUME WalksInv, UNCHANGED <<given, walkVars>>
  PROVE  WalksInv'
<1>1. /\ UNCHANGED distances /\ heuristic' = heuristic /\ entries' = entries /\ nextEntries' = nextEntries
      /\ candidates' = candidates /\ last' = last /\ next' = next /\ upperBound' = upperBound
  BY DEF given, walkVars
<1>2. \A e, L : (IsEntry(e, L))' <=> IsEntry(e, L)  BY <1>1, SameTimes
<1>3. Layer' = Layer  BY <1>1 DEF Layer
<1>4. EntriesAreWalks => EntriesAreWalks'
  BY <1>1, <1>2, <1>3 DEF EntriesAreWalks, AreEntries
<1>5. BoundIsLate => BoundIsLate'
  BY <1>1 DEF BoundIsLate
<1> QED BY <1>1, <1>4, <1>5 DEF WalksInv

LEMMA ImproveKeepsTours ==
  ASSUME HeuristicsTypeOK, ToursInv, improve
  PROVE  HeuristicsTypeOK' /\ ToursInv'
<1>1. /\ UNCHANGED distances /\ heuristic' = heuristic /\ calls' = calls /\ pc = "improve" /\ pc' \in {pc, "done"}
  BY DEF improve, given
<1>2. heuristic \in LocalSearches /\ distances \in DistanceFuncs  BY <1>1 DEF HeuristicsTypeOK
<1>3. HeuristicsTypeOK'  BY <1>1 DEF HeuristicsTypeOK
<1>4. IsTour(tour) /\ (heuristic \notin {"twoOpt", "threeOpt"} => tour[1] = vertices[1]) /\ heuristic # "restricted"
      /\ cost(tour) <= cost(vertices) /\ AreCalls(calls)
  BY <1>2 DEF ToursInv, LocalSearches
<1>5. cost(tour) \in Nat /\ cost(vertices) \in Nat  BY <1>2, <1>4, VerticesAreTour, CostIsNumber
<1>6. tour' = tour \/ \E p \in Cuts : tour' \in Improving(p)
  BY DEF improve, ImproveAt
<1>7. ASSUME NEW p \in Cuts, tour' \in Improving(p)
      PROVE  IsTour(tour') /\ cost(tour') <= cost(vertices) /\ (heuristic \notin {"twoOpt", "threeOpt"} => tour'[1] = vertices[1])
  <2>1. PICK t \in Improving(p) : t = tour'  BY <1>7
  <2>2. IsTour(t) /\ cost(t) < cost(tour) /\ (heuristic \in {"shifting", "kOpt"} => t[1] = tour[1])
    BY <1>2, <1>4, <1>7, ImprovingIsTour
  <2>3. cost(t) \in Nat  BY <1>2, <2>2, CostIsNumber
  <2>4. cost(t) <= cost(vertices)  BY <1>4, <1>5, <2>2, <2>3
  <2>5. heuristic \notin {"twoOpt", "threeOpt"} => t[1] = vertices[1]
    BY <1>2, <1>4, <2>2 DEF LocalSearches
  <2> QED BY <2>1, <2>2, <2>4, <2>5
<1>8. IsTour(tour') /\ cost(tour') <= cost(vertices) /\ (heuristic \notin {"twoOpt", "threeOpt"} => tour'[1] = vertices[1])
  BY <1>4, <1>6, <1>7
<1>9. \A t : (cost(t))' = cost(t)  BY <1>1, SameTimes
<1>10. (cost(tour) <= cost(vertices))'  BY <1>8, <1>9
<1>11. (AreCalls(calls))'  BY <1>1, <1>4
<1>12. (IsTour(tour))' /\ (heuristic \notin {"twoOpt", "threeOpt"} => tour[1] = vertices[1])'  BY <1>1, <1>8
<1>13. ToursInv'  BY <1>10, <1>11, <1>12 DEF ToursInv
<1> QED BY <1>3, <1>13

LEMMA ImproveCallKeepsTours ==
  ASSUME HeuristicsTypeOK, ToursInv, improveCall
  PROVE  HeuristicsTypeOK' /\ ToursInv'
<1>1. UNCHANGED distances /\ heuristic' = heuristic /\ pc' = pc /\ pc = "descend" /\ calls # <<>>
  BY DEF improveCall, given
<1>2. heuristic = "lkh" /\ distances \in DistanceFuncs  BY <1>1 DEF HeuristicsTypeOK
<1>3. HeuristicsTypeOK'  BY <1>1 DEF HeuristicsTypeOK
<1>4. IsTour(tour) /\ tour[1] = vertices[1] /\ cost(tour) <= cost(vertices) /\ AreCalls(calls)
  BY <1>2 DEF ToursInv
<1> DEFINE call == Head(calls)
           whole == call.head \o call.tail
           rest == Tail(calls)
<1>5. IsCall(call) /\ AreCalls(rest)  BY <1>1, <1>4, CallsLeft
<1>6. tour' = IF cost(whole) < cost(tour) THEN whole ELSE tour
  BY DEF improveCall
<1>7. IF call.tail = <<>> THEN calls' = rest
      ELSE \E found \in getCandidates(call) :
             LET chosen == IF call.steps >= backTracingSteps /\ found # <<>> THEN <<found[1]>> ELSE found
             IN  calls' = (IF found = <<>> THEN <<Prolonged(call, call.tail[1], call.steps)>>
                           ELSE [i \in DOMAIN chosen |-> Prolonged(call, chosen[i], call.steps + 1)]) \o rest
  BY DEF improveCall
<1> HIDE DEF call, rest
<1>8. AreCalls(calls')
  <2>1. CASE call.tail = <<>>  BY <1>5, <1>7, <2>1
  <2>2. CASE call.tail # <<>>
    <3>1. PICK found \in getCandidates(call) :
            LET chosen == IF call.steps >= backTracingSteps /\ found # <<>> THEN <<found[1]>> ELSE found
            IN  calls' = (IF found = <<>> THEN <<Prolonged(call, call.tail[1], call.steps)>>
                          ELSE [i \in DOMAIN chosen |-> Prolonged(call, chosen[i], call.steps + 1)]) \o rest
      BY <1>7, <2>2
    <3>2. PICK c, r : c = call /\ r = rest  OBVIOUS
    <3> DEFINE chosen == IF c.steps >= backTracingSteps /\ found # <<>> THEN <<found[1]>> ELSE found
               new == (IF found = <<>> THEN <<Prolonged(c, c.tail[1], c.steps)>>
                       ELSE [i \in DOMAIN chosen |-> Prolonged(c, chosen[i], c.steps + 1)]) \o r
    <3>3. calls' = new  BY <3>1, <3>2
    <3>4. IsCall(c) /\ c.tail # <<>> /\ found \in getCandidates(c) /\ AreCalls(r)  BY <1>5, <2>2, <3>1, <3>2
    <3>5. AreCalls(new)  BY <3>4, NextCalls
    <3> HIDE DEF new
    <3> QED BY <3>3, <3>5
  <2> QED BY <2>1, <2>2
<1>9. PICK w : w = whole  OBVIOUS
<1>10. IsTour(w) /\ w[1] = vertices[1]  BY <1>5, <1>9, CallIsTour
<1>11. cost(w) \in Nat /\ cost(tour) \in Nat /\ cost(vertices) \in Nat
  BY <1>2, <1>4, <1>10, VerticesAreTour, CostIsNumber
<1>12. tour' = IF cost(w) < cost(tour) THEN w ELSE tour  BY <1>6, <1>9
<1> HIDE DEF whole
<1>13. tour' = tour \/ (tour' = w /\ cost(w) < cost(tour))  BY <1>12
<1>14. IsTour(tour') /\ tour'[1] = vertices[1] /\ cost(tour') <= cost(vertices)
  <2>1. CASE tour' = tour  BY <1>4, <2>1
  <2>2. CASE tour' = w /\ cost(w) < cost(tour)
    <3>1. cost(w) <= cost(vertices)  BY <1>4, <1>11, <2>2
    <3> QED BY <1>10, <2>2, <3>1
  <2> QED BY <1>13, <2>1, <2>2
<1>15. \A t : (cost(t))' = cost(t)  BY <1>1, SameTimes
<1>16. (cost(tour) <= cost(vertices))'  BY <1>14, <1>15
<1>17. (AreCalls(calls))' /\ (IsTour(tour))' /\ (heuristic \notin {"twoOpt", "threeOpt"} => tour[1] = vertices[1])'
  BY <1>8, <1>14
<1>18. ToursInv'  BY <1>16, <1>17 DEF ToursInv
<1> QED BY <1>3, <1>18

\* What leaves the tour and the calls alone.
LEMMA SameTours ==
  ASSUME HeuristicsTypeOK, ToursInv, UNCHANGED <<given, tour, calls>>, pc' \in {pc, "done"}
  PROVE  HeuristicsTypeOK' /\ ToursInv'
<1>1. UNCHANGED distances /\ heuristic' = heuristic /\ tour' = tour /\ calls' = calls  BY DEF given
<1>2. HeuristicsTypeOK'  BY <1>1 DEF HeuristicsTypeOK
<1>3. \A t : (cost(t))' = cost(t)  BY <1>1, SameTimes
<1>4. (heuristic # "restricted" => cost(tour) <= cost(vertices))'  BY <1>1, <1>3 DEF ToursInv
<1>5. (IsTour(tour))' /\ (heuristic \notin {"twoOpt", "threeOpt"} => tour[1] = vertices[1])' /\ (AreCalls(calls))'
  BY <1>1 DEF ToursInv
<1> QED BY <1>2, <1>4, <1>5 DEF ToursInv

LEMMA FindTourKeepsTours ==
  ASSUME HeuristicsTypeOK, ToursInv, WalksInv, findTour
  PROVE  HeuristicsTypeOK' /\ ToursInv'
<1>1. UNCHANGED distances /\ heuristic' = heuristic /\ calls' = calls /\ pc = "expand" /\ pc' = "done" /\ Layer = Size
  BY DEF findTour, given
<1>2. heuristic = "restricted" /\ distances \in DistanceFuncs  BY <1>1 DEF HeuristicsTypeOK
<1>3. HeuristicsTypeOK'  BY <1>1 DEF HeuristicsTypeOK
<1>4. entries # <<>> /\ AreEntries(entries, Size)  BY <1>1, <1>2 DEF WalksInv, EntriesAreWalks
<1> DEFINE Best(i) == \A j \in DOMAIN entries :
                        /\ cost(entries[i].walk) <= cost(entries[j].walk)
                        /\ j < i => cost(entries[i].walk) < cost(entries[j].walk)
           best == CHOOSE i \in DOMAIN entries : Best(i)
           walk == entries[best].walk
           i == CHOOSE i \in DOMAIN walk : walk[i] = vertices[1]
           r == SubSeq(walk, i, Size) \o SubSeq(walk, 1, i - 1)
<1>5. tour' = r  BY DEF findTour
<1>6. best \in DOMAIN entries
  <2>1. \E x \in DOMAIN entries : Best(x)
    <3>1. PICK es : es = entries  OBVIOUS
    <3>2. \E x \in DOMAIN es : \A j \in DOMAIN es :
            /\ cost(es[x].walk) <= cost(es[j].walk)
            /\ j < x => cost(es[x].walk) < cost(es[j].walk)
      BY <1>2, <1>4, <3>1, BestExists
    <3> QED BY <3>1, <3>2
  <2> HIDE DEF Best
  <2> QED BY <2>1
<1> HIDE DEF best
<1>7. IsEntry(entries[best], Size)  BY <1>4, <1>6 DEF AreEntries, ToSet
<1>8. IsTour(walk)  BY <1>7, FullWalk DEF IsEntry
<1> HIDE DEF walk
<1>9. PICK w : w = walk  OBVIOUS
<1>10. tour' = SubSeq(w, CHOOSE x \in DOMAIN w : w[x] = vertices[1], Size)
               \o SubSeq(w, 1, (CHOOSE x \in DOMAIN w : w[x] = vertices[1]) - 1)
  BY <1>5, <1>9
<1>11. IsTour(tour') /\ tour'[1] = vertices[1]  BY <1>8, <1>9, <1>10, TurnedTour
<1>12. (AreCalls(calls))'  BY <1>1 DEF ToursInv
<1>13. ToursInv'  BY <1>1, <1>2, <1>11, <1>12 DEF ToursInv
<1> QED BY <1>3, <1>13

LEMMA ConsiderKeepsWalks ==
  ASSUME HeuristicsTypeOK, WalksInv, Consider
  PROVE  WalksInv'
<1>1. /\ UNCHANGED distances /\ heuristic' = heuristic /\ entries' = entries /\ nextEntries' = nextEntries /\ last' = last
      /\ pc = "expand" /\ Layer < Size /\ last <= Len(entries) /\ next <= Size /\ next' = next + 1
  BY DEF Consider, given
<1>2. heuristic = "restricted" /\ distances \in DistanceFuncs  BY <1>1 DEF HeuristicsTypeOK
<1>3. EntriesAreWalks /\ BoundIsLate  BY <1>2 DEF WalksInv
<1>4. PICK L, e, v, time : L = Layer /\ e = entries[last] /\ v = vertices[next] /\ time = Travel(e, v)  OBVIOUS
<1>5. /\ entries # <<>> /\ L \in 1 .. Size /\ AreEntries(entries, L) /\ AreEntries(nextEntries, L + 1)
      /\ IsFiniteSet(candidates) /\ (\A f \in candidates : IsEntry(f, L + 1))
      /\ last \in 1 .. Len(entries) + 1 /\ next \in 1 .. Size + 1 /\ (L > 2 => Len(entries) <= maxSize)
  BY <1>3, <1>4 DEF EntriesAreWalks
<1>6. /\ Size \in Nat /\ maxSize \in Nat \ {0} /\ Len(entries) \in Nat /\ Len(nextEntries) \in Nat
      /\ DOMAIN entries = 1 .. Len(entries)
  BY <1>5, PlacesAre, HeuristicsAssumption, LenProperties DEF AreEntries
<1>7. /\ L \in 1 .. Size - 1 /\ last \in 1 .. Len(entries) /\ next \in 1 .. Size /\ next' \in 1 .. Size + 1
      /\ \A j \in 1 .. next' - 1 : j \in 1 .. next - 1 \/ j = next
  BY <1>1, <1>4, <1>5, <1>6
<1>8. IsEntry(e, L) /\ v \in Places
  <2>1. e \in ToSet(entries)  BY <1>4, <1>6, <1>7 DEF ToSet
  <2>2. v \in Places  BY <1>4, <1>7, PlacesAre DEF Places, ToSet
  <2> QED BY <1>5, <2>1, <2>2 DEF AreEntries
<1> DEFINE new == Entry(Append(e.walk, v), time)
<1>9. v \notin ToSet(e.walk) => IsEntry(new, L + 1) /\ time \in Nat /\ time <= Inf
  BY <1>2, <1>4, <1>7, <1>8, NextEntry
<1> HIDE DEF new
<1>10. IF v \in ToSet(e.walk) \/ time > upperBound
       THEN UNCHANGED <<candidates, upperBound>>
       ELSE /\ candidates' = IF \E f \in candidates : f.time = time THEN candidates ELSE candidates \cup {new}
            /\ IF Cardinality(candidates') < maxSize THEN UNCHANGED upperBound ELSE TRUE
  BY <1>4 DEF Consider, new
<1>11. /\ upperBound # Inf => Len(nextEntries) + Cardinality(candidates) >= maxSize
       /\ Len(nextEntries) >= last - 1 \/ Len(nextEntries) >= maxSize
       /\ upperBound = Inf /\ candidates = {} => \A j \in 1 .. next - 1 : vertices[j] \in ToSet(e.walk)
  BY <1>1, <1>3, <1>4 DEF BoundIsLate
<1>12. /\ IsFiniteSet(candidates') /\ (\A f \in candidates' : IsEntry(f, L + 1))
       /\ upperBound' # Inf => Len(nextEntries) + Cardinality(candidates') >= maxSize
       /\ upperBound' = Inf /\ candidates' = {} => \A j \in 1 .. next' - 1 : vertices[j] \in ToSet(e.walk)
  <2>1. CASE v \in ToSet(e.walk) \/ time > upperBound
    <3>1. candidates' = candidates /\ upperBound' = upperBound  BY <1>10, <2>1
    <3>2. upperBound = Inf => v \in ToSet(e.walk)
      <4>1. Inf \in Nat  BY HeuristicsAssumption
      <4> QED BY <1>9, <2>1, <4>1
    <3> QED BY <1>4, <1>5, <1>7, <1>11, <3>1, <3>2
  <2>2. CASE ~ (v \in ToSet(e.walk) \/ time > upperBound)
    <3>1. /\ candidates' = candidates \/ candidates' = candidates \cup {new}
          /\ candidates' # {} /\ candidates \subseteq candidates'
          /\ Cardinality(candidates') < maxSize => upperBound' = upperBound
      BY <1>10, <2>2
    <3>2. IsFiniteSet(candidates')  BY <1>5, <3>1, FS_AddElement
    <3>3. \A f \in candidates' : IsEntry(f, L + 1)  BY <1>5, <1>9, <2>2, <3>1
    <3>4. /\ Cardinality(candidates) \in Nat /\ Cardinality(candidates') \in Nat
          /\ Cardinality(candidates) <= Cardinality(candidates')
      BY <1>5, <3>1, <3>2, FS_Subset, FS_CardinalityType
    <3>5. upperBound' # Inf => Len(nextEntries) + Cardinality(candidates') >= maxSize
      <4>1. CASE Cardinality(candidates') < maxSize
        <5>1. upperBound' = upperBound  BY <3>1, <4>1
        <5> QED BY <1>6, <1>11, <3>4, <5>1
      <4>2. CASE ~ (Cardinality(candidates') < maxSize)
        BY <1>6, <3>4, <4>2
      <4> QED BY <4>1, <4>2
    <3> QED BY <3>1, <3>2, <3>3, <3>5
  <2> QED BY <2>1, <2>2
<1>13. Layer' = L  BY <1>1, <1>4 DEF Layer
<1>14. \A f, n : (IsEntry(f, n))' <=> IsEntry(f, n)  BY <1>1, SameTimes
<1>15. EntriesAreWalks'
  <2>1. (entries # <<>>)' /\ (Layer \in 1 .. Size)'  BY <1>1, <1>5, <1>13
  <2>2. (AreEntries(entries, Layer))' /\ (AreEntries(nextEntries, Layer + 1))'
    BY <1>1, <1>5, <1>13, <1>14 DEF AreEntries
  <2>3. (IsFiniteSet(candidates))' /\ (\A f \in candidates : IsEntry(f, Layer + 1))'
    BY <1>12, <1>13, <1>14
  <2>4. (last \in 1 .. Len(entries) + 1)' /\ (next \in 1 .. Size + 1)'  BY <1>1, <1>5, <1>7
  <2>5. (last > Len(entries) => candidates = {} /\ next = 1)'  BY <1>1, <1>6, <1>7
  <2>6. (Layer > 2 => Len(entries) <= maxSize)'  BY <1>1, <1>5, <1>13
  <2> QED BY <2>1, <2>2, <2>3, <2>4, <2>5, <2>6 DEF EntriesAreWalks
<1>16. BoundIsLate'  BY <1>1, <1>4, <1>11, <1>12 DEF BoundIsLate
<1> QED BY <1>1, <1>2, <1>15, <1>16 DEF WalksInv

LEMMA CollectKeepsWalks ==
  ASSUME HeuristicsTypeOK, WalksInv, Collect
  PROVE  WalksInv'
<1>1. /\ UNCHANGED distances /\ heuristic' = heuristic /\ entries' = entries /\ upperBound' = upperBound
      /\ pc = "expand" /\ Layer < Size /\ last <= Len(entries) /\ next > Size
      /\ candidates' = {} /\ last' = last + 1 /\ next' = 1
  BY DEF Collect, given
<1>2. heuristic = "restricted" /\ distances \in DistanceFuncs  BY <1>1 DEF HeuristicsTypeOK
<1>3. EntriesAreWalks /\ BoundIsLate  BY <1>2 DEF WalksInv
<1>4. PICK L, e : L = Layer /\ e = entries[last]  OBVIOUS
<1>5. /\ entries # <<>> /\ L \in 1 .. Size /\ AreEntries(entries, L) /\ AreEntries(nextEntries, L + 1)
      /\ IsFiniteSet(candidates) /\ (\A f \in candidates : IsEntry(f, L + 1))
      /\ last \in 1 .. Len(entries) + 1 /\ next \in 1 .. Size + 1 /\ (L > 2 => Len(entries) <= maxSize)
  BY <1>3, <1>4 DEF EntriesAreWalks
<1>6. /\ Size \in Nat /\ maxSize \in Nat \ {0} /\ Len(entries) \in Nat /\ Len(nextEntries) \in Nat
      /\ DOMAIN entries = 1 .. Len(entries) /\ Cardinality(candidates) \in Nat
  BY <1>5, PlacesAre, HeuristicsAssumption, LenProperties, FS_CardinalityType DEF AreEntries
<1>7. last \in 1 .. Len(entries) /\ next = Size + 1 /\ L < Size /\ last' \in 1 .. Len(entries) + 1
  BY <1>1, <1>4, <1>5, <1>6
<1>8. PICK sorted \in SetToSeqs(candidates) : nextEntries' = sorted \o nextEntries
  BY DEF Collect, InOrder
<1>9. /\ sorted \in Seq(ToSet(sorted)) /\ Len(sorted) = Cardinality(candidates) /\ ToSet(sorted) \subseteq candidates
  BY <1>5, OrderedIs
<1>10. AreEntries(sorted, L + 1)  BY <1>5, <1>9 DEF AreEntries
<1>11. AreEntries(nextEntries', L + 1) /\ Len(nextEntries') = Cardinality(candidates) + Len(nextEntries)
  BY <1>5, <1>8, <1>9, <1>10, EntriesJoined
<1>12. /\ upperBound # Inf => Len(nextEntries) + Cardinality(candidates) >= maxSize
       /\ Len(nextEntries) >= last - 1 \/ Len(nextEntries) >= maxSize
       /\ upperBound = Inf /\ candidates = {} => \A j \in 1 .. next - 1 : vertices[j] \in ToSet(e.walk)
  BY <1>1, <1>3, <1>4 DEF BoundIsLate
<1>13. upperBound = Inf => Cardinality(candidates) >= 1
  <2> SUFFICES ASSUME upperBound = Inf PROVE Cardinality(candidates) >= 1
    OBVIOUS
  <2>1. e \in ToSet(entries)  BY <1>4, <1>6, <1>7 DEF ToSet
  <2>2. IsEntry(e, L)  BY <1>5, <2>1 DEF AreEntries
  <2>3. \E i \in 1 .. Size : vertices[i] \notin ToSet(e.walk)
    BY <1>7, <2>2, ShortWalk DEF IsEntry
  <2>4. next - 1 = Size  BY <1>6, <1>7
  <2>5. candidates # {}  BY <1>12, <2>3, <2>4
  <2>6. Cardinality(candidates) # 0  BY <1>5, <2>5, FS_EmptySet
  <2> QED BY <1>6, <2>6
<1>14. /\ upperBound # Inf => Len(nextEntries') >= maxSize
       /\ Len(nextEntries') >= last \/ Len(nextEntries') >= maxSize
  <2>1. PICK c, n : c = Cardinality(candidates) /\ n = Len(nextEntries)  OBVIOUS
  <2>2. c \in Nat /\ n \in Nat /\ Len(nextEntries') = c + n  BY <1>6, <1>11, <2>1
  <2>3. (upperBound # Inf => n + c >= maxSize) /\ (n >= last - 1 \/ n >= maxSize) /\ (upperBound = Inf => c >= 1)
    BY <1>12, <1>13, <2>1
  <2>4. upperBound # Inf => Len(nextEntries') >= maxSize  BY <2>2, <2>3
  <2>5. last \in Nat  BY <1>6, <1>7
  <2>6. upperBound = Inf => (Len(nextEntries') >= last \/ Len(nextEntries') >= maxSize)  BY <1>6, <2>2, <2>3, <2>5
  <2> QED BY <2>4, <2>6
<1>15. Layer' = L  BY <1>1, <1>4 DEF Layer
<1>16. \A f, n : (IsEntry(f, n))' <=> IsEntry(f, n)  BY <1>1, SameTimes
<1>17. EntriesAreWalks'
  <2>1. (entries # <<>>)' /\ (Layer \in 1 .. Size)'  BY <1>1, <1>5, <1>15
  <2>2. (AreEntries(entries, Layer))' /\ (AreEntries(nextEntries, Layer + 1))'
    BY <1>1, <1>5, <1>11, <1>15, <1>16 DEF AreEntries
  <2>3. (IsFiniteSet(candidates))' /\ (\A f \in candidates : IsEntry(f, Layer + 1))'
    BY <1>1, FS_EmptySet
  <2>4. (last \in 1 .. Len(entries) + 1)' /\ (next \in 1 .. Size + 1)'  BY <1>1, <1>6, <1>7
  <2>5. (last > Len(entries) => candidates = {} /\ next = 1)'  BY <1>1
  <2>6. (Layer > 2 => Len(entries) <= maxSize)'  BY <1>1, <1>5, <1>15
  <2> QED BY <2>1, <2>2, <2>3, <2>4, <2>5, <2>6 DEF EntriesAreWalks
<1>18. BoundIsLate'
  <2>1. Cardinality(candidates') = 0  BY <1>1, FS_EmptySet
  <2>2. Len(nextEntries') \in Nat  BY <1>6, <1>11
  <2>3. (upperBound # Inf => Len(nextEntries) + Cardinality(candidates) >= maxSize)'  BY <1>1, <1>6, <1>14, <2>1, <2>2
  <2>4. (Len(nextEntries) >= last - 1 \/ Len(nextEntries) >= maxSize)'
    <3>1. last' - 1 = last  BY <1>1, <1>6, <1>7
    <3> QED BY <1>14, <3>1
  <2>5. 1 .. next' - 1 = {}  BY <1>1
  <2> QED BY <2>3, <2>4, <2>5 DEF BoundIsLate
<1> QED BY <1>1, <1>2, <1>17, <1>18 DEF WalksInv

LEMMA NextLayerKeepsWalks ==
  ASSUME HeuristicsTypeOK, WalksInv, NextLayer
  PROVE  WalksInv'
<1>1. /\ UNCHANGED distances /\ heuristic' = heuristic /\ candidates' = candidates /\ next' = next
      /\ pc = "expand" /\ Layer < Size /\ last > Len(entries)
      /\ entries' \in Pruned /\ nextEntries' = <<>> /\ last' = 1 /\ upperBound' = Inf
  BY DEF NextLayer, given
<1>2. heuristic = "restricted" /\ distances \in DistanceFuncs  BY <1>1 DEF HeuristicsTypeOK
<1>3. EntriesAreWalks /\ BoundIsLate  BY <1>2 DEF WalksInv
<1>4. PICK L : L = Layer  OBVIOUS
<1>5. /\ entries # <<>> /\ L \in 1 .. Size /\ AreEntries(entries, L) /\ AreEntries(nextEntries, L + 1)
      /\ last \in 1 .. Len(entries) + 1 /\ candidates = {} /\ next = 1
  BY <1>1, <1>3, <1>4 DEF EntriesAreWalks
<1>6. /\ Size \in Nat /\ Size >= 3 /\ maxSize \in Nat \ {0} /\ Len(entries) \in Nat /\ Len(entries) # 0 /\ Len(nextEntries) \in Nat
  BY <1>5, PlacesAre, HeuristicsAssumption, LenProperties, EmptySeq DEF AreEntries
<1>7. L + 1 \in 1 .. Size /\ last = Len(entries) + 1  BY <1>1, <1>4, <1>5, <1>6
<1>8. nextEntries # <<>>
  <2>1. Len(nextEntries) >= last - 1 \/ Len(nextEntries) >= maxSize  BY <1>3 DEF BoundIsLate
  <2>2. Len(nextEntries) # 0  BY <1>6, <1>7, <2>1
  <2> QED BY <2>2
<1>9. AreEntries(entries', L + 1) /\ entries' # <<>> /\ (L # 1 => Len(entries') <= maxSize)
  BY <1>1, <1>2, <1>4, <1>5, <1>7, <1>8, PrunedAre
<1>10. Len(entries') \in Nat /\ Len(entries') # 0 /\ DOMAIN entries' = 1 .. Len(entries')
  BY <1>9, LenProperties, EmptySeq DEF AreEntries
<1>11. Layer' = L + 1
  <2>1. entries'[1] \in ToSet(entries')
    <3>1. 1 \in DOMAIN entries'  BY <1>10
    <3> QED BY <3>1 DEF ToSet
  <2>2. IsEntry(entries'[1], L + 1)  BY <1>9, <2>1 DEF AreEntries
  <2> QED BY <2>2 DEF IsEntry, Layer
<1>12. \A f, n : (IsEntry(f, n))' <=> IsEntry(f, n)  BY <1>1, SameTimes
<1>13. EntriesAreWalks'
  <2>1. (entries # <<>>)' /\ (Layer \in 1 .. Size)'  BY <1>7, <1>9, <1>11
  <2>2. (AreEntries(entries, Layer))'
    BY <1>9, <1>11, <1>12 DEF AreEntries
  <2>3. (AreEntries(nextEntries, Layer + 1))'  BY <1>1 DEF AreEntries, ToSet
  <2>4. (IsFiniteSet(candidates))' /\ (\A f \in candidates : IsEntry(f, Layer + 1))'
    BY <1>1, <1>5, FS_EmptySet
  <2>5. (last \in 1 .. Len(entries) + 1)' /\ (next \in 1 .. Size + 1)'  BY <1>1, <1>5, <1>6, <1>10
  <2>6. (last > Len(entries) => candidates = {} /\ next = 1)'  BY <1>1, <1>5
  <2>7. (Layer > 2 => Len(entries) <= maxSize)'  BY <1>5, <1>9, <1>11
  <2> QED BY <2>1, <2>2, <2>3, <2>4, <2>5, <2>6, <2>7 DEF EntriesAreWalks
<1>14. BoundIsLate'
  <2>1. Len(nextEntries') = 0  BY <1>1
  <2>2. 1 .. next' - 1 = {}  BY <1>1, <1>5
  <2> QED BY <1>1, <2>1, <2>2 DEF BoundIsLate
<1> QED BY <1>1, <1>2, <1>13, <1>14 DEF WalksInv

LEMMA NextInv ==
  ASSUME HeuristicsInv, [Next]_vars
  PROVE  HeuristicsInv'
<1> USE DEF HeuristicsInv
<1>1. CASE improve
  <2>1. UNCHANGED <<given, walkVars>>  BY <1>1 DEF improve
  <2> QED BY <1>1, <2>1, ImproveKeepsTours, SameWalks
<1>2. CASE improveCall
  <2>1. UNCHANGED <<given, walkVars>>  BY <1>2 DEF improveCall
  <2> QED BY <1>2, <2>1, ImproveCallKeepsTours, SameWalks
<1>3. CASE improveTour
  <2>1. UNCHANGED <<given, walkVars>> /\ UNCHANGED <<given, tour, calls>> /\ pc' \in {pc, "done"}
    BY <1>3 DEF improveTour
  <2> QED BY <2>1, SameTours, SameWalks
<1>4. CASE Consider
  <2>1. UNCHANGED <<given, tour, calls>> /\ pc' \in {pc, "done"}  BY <1>4 DEF Consider
  <2> QED BY <1>4, <2>1, SameTours, ConsiderKeepsWalks
<1>5. CASE Collect
  <2>1. UNCHANGED <<given, tour, calls>> /\ pc' \in {pc, "done"}  BY <1>5 DEF Collect
  <2> QED BY <1>5, <2>1, SameTours, CollectKeepsWalks
<1>6. CASE NextLayer
  <2>1. UNCHANGED <<given, tour, calls>> /\ pc' \in {pc, "done"}  BY <1>6 DEF NextLayer
  <2> QED BY <1>6, <2>1, SameTours, NextLayerKeepsWalks
<1>7. CASE findTour
  <2>1. UNCHANGED <<given, walkVars>>  BY <1>7 DEF findTour
  <2> QED BY <1>7, <2>1, FindTourKeepsTours, SameWalks
<1>8. CASE UNCHANGED vars
  <2>1. UNCHANGED <<given, walkVars>> /\ UNCHANGED <<given, tour, calls>> /\ pc' \in {pc, "done"}
    BY <1>8 DEF vars
  <2> QED BY <2>1, SameTours, SameWalks
<1> QED BY <1>1, <1>2, <1>3, <1>4, <1>5, <1>6, <1>7, <1>8 DEF Next

LEMMA InvHolds == Spec => []HeuristicsInv
<1>1. Init => HeuristicsInv  BY InitInv
<1>2. HeuristicsInv /\ [Next]_vars => HeuristicsInv'  BY NextInv
<1> QED BY <1>1, <1>2, PTL DEF Spec

-----------------------------------------------------------------------------
(* The theorems.                                                           *)

\* Whatever a heuristic cuts, turns around and puts together, at any time the tour, and the
\* tour every call of TimedLKHSolver::improve stands for, is one of all vertices, starts at
\* the source where the code says that it does, and costs no more than the first one.
THEOREM ToursAreTours == Spec => []ToursStayTours
<1>1. HeuristicsInv => ToursStayTours
  <2> SUFFICES ASSUME HeuristicsInv PROVE ToursStayTours
    OBVIOUS
  <2>1. ToursInv  BY DEF HeuristicsInv
  <2>2. Len(tour) = Size /\ ToSet(tour) = ToSet(vertices)  BY <2>1 DEF ToursInv, IsTour, Places
  <2>3. \A i \in DOMAIN calls : ToSet(calls[i].head \o calls[i].tail) = ToSet(vertices)
    <3> TAKE i \in DOMAIN calls
    <3>1. IsCall(calls[i])  BY <2>1 DEF ToursInv, AreCalls, ToSet
    <3>2. IsTour(calls[i].head \o calls[i].tail)  BY <3>1, CallIsTour
    <3> QED BY <3>2 DEF IsTour, Places
  <2> QED BY <2>1, <2>2, <2>3 DEF ToursInv, ToursStayTours
<1> QED BY <1>1, InvHolds, PTL

\* The walks of RestrictedDynamicSolver arrive when they say; after the first round there
\* are at most maxSize of them; and when they are pruned there are enough of them, whatever
\* is read past the end of the candidates as a bound.
THEOREM ThereAreAlwaysWalks == Spec => []WalksAreEnough
<1>1. HeuristicsInv => WalksAreEnough
  <2> SUFFICES ASSUME HeuristicsInv PROVE WalksAreEnough
    OBVIOUS
  <2>1. WalksInv /\ HeuristicsTypeOK  BY DEF HeuristicsInv
  <2>2. CASE heuristic # "restricted"
    <3>1. entries = <<>> /\ nextEntries = <<>> /\ candidates = {} /\ pc # "expand"
      BY <2>1, <2>2 DEF WalksInv, HeuristicsTypeOK
    <3>2. ToSet(entries) = {} /\ ToSet(nextEntries) = {}  BY <3>1 DEF ToSet
    <3> QED BY <3>1, <3>2 DEF WalksAreEnough
  <2>3. CASE heuristic = "restricted"
    <3>1. EntriesAreWalks /\ BoundIsLate  BY <2>1, <2>3 DEF WalksInv
    <3>2. \A e \in ToSet(entries) \cup ToSet(nextEntries) \cup candidates : IsInjective(e.walk) /\ e.time = Arrival(e.walk)
      BY <3>1 DEF EntriesAreWalks, AreEntries, IsEntry
    <3>3. Layer > 2 => Len(entries) <= maxSize  BY <3>1 DEF EntriesAreWalks
    <3>4. last > Len(entries) => Len(nextEntries) >= maxSize \/ Len(nextEntries) >= Len(entries)
      <4>1. last \in 1 .. Len(entries) + 1 /\ entries \in Seq(ToSet(entries)) /\ nextEntries \in Seq(ToSet(nextEntries))
        BY <3>1 DEF EntriesAreWalks, AreEntries
      <4>2. Len(entries) \in Nat /\ Len(nextEntries) \in Nat  BY <4>1, LenProperties
      <4>3. Len(nextEntries) >= last - 1 \/ Len(nextEntries) >= maxSize  BY <3>1 DEF BoundIsLate
      <4>4. last > Len(entries) => last - 1 = Len(entries)  BY <4>1, <4>2
      <4> QED BY <4>3, <4>4
    <3> QED BY <3>2, <3>3, <3>4 DEF WalksAreEnough
  <2> QED BY <2>2, <2>3
<1> QED BY <1>1, InvHolds, PTL
=============================================================================
