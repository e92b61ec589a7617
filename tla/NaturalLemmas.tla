----------------------------- MODULE NaturalLemmas -----------------------------
(***************************************************************************)
(* Facts about the naturals the proofs keep needing. Least elements come   *)
(* from the library's theorem that strict inclusion of finite sets is well *)
(* founded, and induction, stated for a set, from least elements.          *)
(***************************************************************************)
EXTENDS Integers, SequencesExt, FiniteSetTheorems, TLAPS

(* A set of naturals that is not empty has a least element. *)
LEMMA LeastNatural ==
  ASSUME NEW T \in SUBSET Nat, T # {}
  PROVE  \E x \in T : \A y \in T : x <= y
<1> DEFINE Below(i) == 0 .. i - 1
           U == {Below(i) : i \in T}
<1>1. \A i \in T : Below(i) \in FiniteSubsetsOf(Nat)
  <2> SUFFICES ASSUME NEW i \in T PROVE Below(i) \in FiniteSubsetsOf(Nat)
    OBVIOUS
  <2>1. IsFiniteSet(Below(i))
    BY FS_Interval
  <2>2. Below(i) \in SUBSET Nat
    OBVIOUS
  <2> QED BY <2>1, <2>2 DEF FiniteSubsetsOf
<1>2. U \subseteq FiniteSubsetsOf(Nat) /\ U # {}
  BY <1>1
<1>3. IsWellFoundedOn(StrictSubsetOrdering(Nat), FiniteSubsetsOf(Nat))
  BY FS_StrictSubsetOrderingWellFounded
<1> HIDE DEF U
<1>4. PICK B \in U : \A C \in U : <<C, B>> \notin StrictSubsetOrdering(Nat)
  BY <1>2, <1>3, WFMin
<1>5. PICK x \in T : B = Below(x)
  BY DEF U
<1>6. ASSUME NEW y \in T, ~ (x <= y)
      PROVE  FALSE
  <2>1. y \in Below(x) /\ y \notin Below(y) /\ Below(y) \subseteq Below(x)
    BY <1>6
  <2>2. <<Below(y), Below(x)>> \in StrictSubsetOrdering(Nat)
    BY <2>1 DEF StrictSubsetOrdering
  <2>3. Below(y) \in U
    BY DEF U
  <2> QED BY <1>4, <1>5, <2>2, <2>3
<1> QED BY <1>6

(* One that is bounded has a greatest. *)
LEMMA GreatestNatural ==
  ASSUME NEW n \in Nat, NEW T \in SUBSET (0 .. n), T # {}
  PROVE  \E x \in T : \A y \in T : y <= x
<1> DEFINE U == {n - x : x \in T}
<1>1. U \in SUBSET Nat /\ U # {}
  <2>1. \A x \in T : n - x \in Nat
    OBVIOUS
  <2> QED BY <2>1
<1>2. PICK u \in U : \A y \in U : u <= y
  BY <1>1, LeastNatural
<1>3. PICK x \in T : u = n - x
  OBVIOUS
<1>4. ASSUME NEW y \in T PROVE y <= x
  <2>1. u <= n - y
    BY <1>2
  <2> QED BY <1>3, <2>1
<1> QED BY <1>4

(* Induction, for the set of the naturals something holds of. *)
LEMMA SetInduction ==
  ASSUME NEW S, 0 \in S, \A i \in Nat : i \in S => i + 1 \in S
  PROVE  \A i \in Nat : i \in S
<1> DEFINE T == Nat \ S
<1> SUFFICES ASSUME T # {} PROVE FALSE
  OBVIOUS
<1>1. PICK x \in T : \A y \in T : x <= y
  BY LeastNatural
<1>2. x # 0 /\ x - 1 \in Nat /\ x - 1 \notin T
  BY <1>1
<1>3. x - 1 \in S
  BY <1>2
<1> QED BY <1>2, <1>3

(* A function defined by recursion on 0 .. m exists: a first value and, as *)
(* a function of the place and the value before it, the next one.          *)
Follows(f, m, a, step) == f[0] = a /\ \A i \in 1 .. m : f[i] = step[i][f[i - 1]]

(* A value that each step makes of the one before defines a function on 0 .. m. *)
LEMMA RecursionExists ==
  ASSUME NEW m \in Nat, NEW V, NEW a \in V, NEW step,
         \A i \in 1 .. m : \A x \in V : step[i][x] \in V
  PROVE  \E f \in [0 .. m -> V] : Follows(f, m, a, step)
<1> DEFINE Good(k, f) == f[0] = a /\ \A i \in 1 .. k : f[i] = step[i][f[i - 1]]
           S == {k \in Nat : k <= m => \E f \in [0 .. k -> V] : Good(k, f)}
<1>1. 0 \in S
  <2> DEFINE f == [i \in 0 .. 0 |-> a]
  <2>1. f \in [0 .. 0 -> V] /\ Good(0, f)
    OBVIOUS
  <2> QED BY <2>1
<1>2. ASSUME NEW k \in Nat, k \in S
      PROVE  k + 1 \in S
  <2> SUFFICES ASSUME k + 1 <= m
               PROVE  \E f \in [0 .. k + 1 -> V] : Good(k + 1, f)
    OBVIOUS
  <2>1. PICK f \in [0 .. k -> V] : Good(k, f)
    BY <1>2
  <2> DEFINE x == step[k + 1][f[k]]
             g == [i \in 0 .. k + 1 |-> IF i = k + 1 THEN x ELSE f[i]]
  <2>2. x \in V
    <3>1. k + 1 \in 1 .. m /\ f[k] \in V
      OBVIOUS
    <3> QED BY <3>1
  <2>3. \A i \in 0 .. k : f[i] \in V
    OBVIOUS
  <2>4. g \in [0 .. k + 1 -> V]
    BY <2>2, <2>3
  <2>5. Good(k + 1, g)
    <3>1. g[0] = a
      BY <2>1
    <3>2. ASSUME NEW i \in 1 .. k + 1
          PROVE  g[i] = step[i][g[i - 1]]
      <4>1. CASE i = k + 1
        <5>1. i - 1 = k /\ k \in 0 .. k + 1 /\ k # k + 1
          BY <4>1
        <5>2. g[i - 1] = f[k] /\ g[i] = x
          BY <4>1, <5>1
        <5> QED BY <4>1, <5>2
      <4>2. CASE i # k + 1
        <5>1. i \in 1 .. k /\ g[i] = f[i] /\ g[i - 1] = f[i - 1]
          BY <4>2
        <5> QED BY <2>1, <5>1
      <4> QED BY <4>1, <4>2
    <3> QED BY <3>1, <3>2
  <2> QED BY <2>4, <2>5
<1> HIDE DEF S
<1>3. m \in S
  BY <1>1, <1>2, SetInduction
<1> QED BY <1>3 DEF S, Follows
(* What concatenating sequences of one kind gives, step by step. *)
LEMMA FlattenedBySteps ==
  ASSUME NEW S, NEW s \in Seq(Seq(S)), Len(s) > 0
  PROVE  \E f \in [0 .. Len(s) -> Seq(S)] :
           /\ f[0] = <<>> /\ \A i \in 1 .. Len(s) : f[i] = f[i - 1] \o s[i]
           /\ FlattenSeq(s) = f[Len(s)]
<1> DEFINE n == Len(s)
           V == Seq(S)
           step == [i \in 1 .. n |-> [x \in V |-> x \o s[i]]]
           Sums(f) == f = [i \in 1 .. n |-> IF i = 1 THEN s[i] ELSE f[i - 1] \o s[i]]
<1>1. n \in Nat /\ <<>> \in V /\ \A i \in 1 .. n : s[i] \in V
  OBVIOUS
<1>2. \A i \in 1 .. n : \A x \in V : step[i][x] \in V /\ step[i][x] = x \o s[i]
  BY <1>1
<1> HIDE DEF n, V, step
<1>3. PICK f \in [0 .. n -> V] : Follows(f, n, <<>>, step)
  BY <1>1, <1>2, RecursionExists
<1>4. f[0] = <<>> /\ \A i \in 1 .. n : f[i] = f[i - 1] \o s[i] /\ f[i - 1] \in V
  <2>1. \A i \in 1 .. n : i - 1 \in 0 .. n
    BY <1>1
  <2> QED BY <1>1, <1>2, <1>3, <2>1 DEF Follows
<1>5. PICK g : g = [i \in 1 .. n |-> f[i]]
  OBVIOUS
<1>6. Sums(g)
  <2>1. ASSUME NEW i \in 1 .. n
        PROVE  g[i] = IF i = 1 THEN s[i] ELSE g[i - 1] \o s[i]
    <3>1. CASE i = 1
      <4>0. f[1 - 1] = f[0]
        OBVIOUS
      <4>1. f[1] = <<>> \o s[1]
        BY <1>4, <3>1, <4>0
      <4>2. <<>> \o s[1] = s[1]
        BY <1>1, <3>1 DEF V
      <4> QED BY <1>5, <3>1, <4>1, <4>2
    <3>2. CASE i # 1
      <4>1. i - 1 \in 1 .. n
        BY <1>1, <3>2
      <4> QED BY <1>4, <1>5, <3>2, <4>1
    <3> QED BY <3>1, <3>2
  <2> QED BY <1>5, <2>1
<1>7. PICK h : Sums(h) /\ FlattenSeq(s) = h[n]
  <2>1. \E h : Sums(h)
    BY <1>6
  <2> HIDE DEF Sums
  <2>2. Sums(CHOOSE h : Sums(h))
    BY <2>1
  <2>3. FlattenSeq(s) = (CHOOSE h : Sums(h))[n]
    BY DEF FlattenSeq, n, Sums
  <2> QED BY <2>2, <2>3
<1>8. /\ \A j \in 1 .. n : g[j] = IF j = 1 THEN s[j] ELSE g[j - 1] \o s[j]
      /\ \A j \in 1 .. n : h[j] = IF j = 1 THEN s[j] ELSE h[j - 1] \o s[j]
  BY <1>6, <1>7
<1>10. \A j \in Nat : j \in {i \in Nat : i \in 1 .. n => h[i] = g[i]}
  <2> DEFINE T == {i \in Nat : i \in 1 .. n => h[i] = g[i]}
  <2>1. 0 \in T
    OBVIOUS
  <2>2. ASSUME NEW i \in Nat, i \in T PROVE i + 1 \in T
    <3>1. PICK j \in Nat : j = i + 1
      OBVIOUS
    <3>2. j - 1 = i /\ (j \in 1 .. n /\ j # 1 => h[j - 1] = g[j - 1])
      BY <1>1, <2>2, <3>1
    <3>3. j \in 1 .. n => h[j] = g[j]
      BY <1>8, <3>2
    <3> QED BY <3>1, <3>3
  <2> HIDE DEF T
  <2>3. \A i \in Nat : i \in T
    BY <2>1, <2>2, SetInduction
  <2> QED BY <2>3 DEF T
<1>9. h[n] = f[n]
  <2>1. n \in 1 .. n
    BY DEF n
  <2> QED BY <1>1, <1>5, <1>10, <2>1
<1> QED BY <1>3, <1>4, <1>7, <1>9 DEF n, V

-----------------------------------------------------------------------------
(* The elements of a finite set in an order, each at the place its rank    *)
(* gives it: the number of elements before it.                             *)
Below(S, R, e) == {d \in S : <<d, e>> \in R}
ByRank(S, R) ==
  [k \in 1 .. Cardinality(S) |-> CHOOSE e \in S : Cardinality(Below(S, R, e)) = k - 1]

(* R puts every two elements in an order.                                  *)
Orders(S, R) ==
  /\ \A d \in S : <<d, d>> \notin R
  /\ \A c, d, e \in S : <<c, d>> \in R /\ <<d, e>> \in R => <<c, e>> \in R
  /\ \A d, e \in S : d = e \/ <<d, e>> \in R \/ <<e, d>> \in R

(* s lists the elements of S as R orders them.                             *)
Listing(S, R, s) ==
  /\ Cardinality(S) \in Nat
  /\ s \in [1 .. Cardinality(S) -> S]
  /\ \A k, l \in 1 .. Cardinality(S) : k < l => <<s[k], s[l]>> \in R
  /\ \A e \in S : \E k \in 1 .. Cardinality(S) : s[k] = e

(* Every element is at one place, and earlier places have smaller elements. *)
LEMMA RanksOrder ==
  ASSUME NEW S, IsFiniteSet(S), NEW R, Orders(S, R)
  PROVE  Listing(S, R, ByRank(S, R))
<1>0. /\ \A d \in S : <<d, d>> \notin R
      /\ \A c, d, e \in S : <<c, d>> \in R /\ <<d, e>> \in R => <<c, e>> \in R
      /\ \A d, e \in S : d = e \/ <<d, e>> \in R \/ <<e, d>> \in R
  BY DEF Orders
<1>1. PICK n \in Nat : n = Cardinality(S)
  BY FS_CardinalityType
<1> DEFINE rank == [e \in S |-> Cardinality(Below(S, R, e))]
<1>2. ASSUME NEW e \in S
      PROVE  IsFiniteSet(Below(S, R, e)) /\ rank[e] \in 0 .. n - 1
  <2>1. Below(S, R, e) \in SUBSET (S \ {e})
    BY <1>0 DEF Below
  <2>2. IsFiniteSet(S \ {e}) /\ Cardinality(S \ {e}) = n - 1
    BY <1>1, FS_RemoveElement
  <2>3. IsFiniteSet(Below(S, R, e)) /\ Cardinality(Below(S, R, e)) <= n - 1
    BY <2>1, <2>2, FS_Subset
  <2>4. Cardinality(Below(S, R, e)) \in Nat
    BY <2>3, FS_CardinalityType
  <2> QED BY <2>3, <2>4
<1>3. ASSUME NEW d \in S, NEW e \in S, <<d, e>> \in R
      PROVE  rank[d] < rank[e]
  <2>1. Below(S, R, d) \cup {d} \in SUBSET Below(S, R, e)
    BY <1>0, <1>3 DEF Below
  <2>2. d \notin Below(S, R, d)
    BY <1>0 DEF Below
  <2>3. /\ IsFiniteSet(Below(S, R, d) \cup {d})
        /\ Cardinality(Below(S, R, d) \cup {d}) = rank[d] + 1
    BY <1>2, <2>2, FS_AddElement
  <2>4. Cardinality(Below(S, R, d) \cup {d}) <= rank[e]
    BY <1>2, <2>1, FS_Subset
  <2> QED BY <1>2, <2>3, <2>4
<1>4. rank \in Injection(S, 0 .. n - 1)
  <2>1. rank \in [S -> 0 .. n - 1]
    BY <1>2
  <2>2. ASSUME NEW d \in S, NEW e \in S, rank[d] = rank[e] PROVE d = e
    <3>1. ~ (rank[d] < rank[e]) /\ ~ (rank[e] < rank[d])
      BY <1>2, <2>2
    <3> QED BY <1>0, <1>3, <3>1
  <2> HIDE DEF rank
  <2> QED BY <2>1, <2>2 DEF Injection, IsInjective
<1>5. rank \in Surjection(S, 0 .. n - 1)
  <2>1. IsFiniteSet(0 .. n - 1) /\ Cardinality(0 .. n - 1) = n
    <3>1. PICK m \in Int : m = n - 1
      OBVIOUS
    <3>2. IsFiniteSet(0 .. m) /\ Cardinality(0 .. m) = IF 0 > m THEN 0 ELSE m - 0 + 1
      BY FS_Interval
    <3> QED BY <3>1, <3>2
  <2> HIDE DEF rank
  <2> QED BY <1>1, <1>4, <2>1, FS_Injection
<1>6. ASSUME NEW k \in 1 .. n
      PROVE  ByRank(S, R)[k] \in S /\ rank[ByRank(S, R)[k]] = k - 1
  <2>1. \E e \in S : rank[e] = k - 1
    <3>1. k - 1 \in 0 .. n - 1
      OBVIOUS
    <3> HIDE DEF rank
    <3> QED BY <1>5, <3>1 DEF Surjection
  <2>2. \E e \in S : Cardinality(Below(S, R, e)) = k - 1
    BY <2>1
  <2>3. ByRank(S, R)[k] = CHOOSE e \in S : Cardinality(Below(S, R, e)) = k - 1
    BY <1>1 DEF ByRank
  <2> QED BY <2>2, <2>3
<1>7. ByRank(S, R) \in [1 .. n -> S]
  BY <1>1, <1>6 DEF ByRank
<1>8. ASSUME NEW k \in 1 .. n, NEW l \in 1 .. n, k < l
      PROVE  <<ByRank(S, R)[k], ByRank(S, R)[l]>> \in R
  <2>1. PICK d \in S, e \in S : d = ByRank(S, R)[k] /\ e = ByRank(S, R)[l]
    BY <1>6
  <2>2. rank[d] = k - 1 /\ rank[e] = l - 1
    BY <1>6, <2>1
  <2>3. d # e /\ ~ (rank[e] < rank[d])
    BY <1>8, <2>2
  <2>4. <<d, e>> \in R
    BY <1>0, <1>3, <2>3
  <2> QED BY <2>1, <2>4
<1>9. ASSUME NEW e \in S
      PROVE  \E k \in 1 .. n : ByRank(S, R)[k] = e
  <2>1. PICK k \in 1 .. n : k = rank[e] + 1
    BY <1>2
  <2>2. ByRank(S, R)[k] \in S /\ rank[ByRank(S, R)[k]] = rank[e]
    BY <1>2, <1>6, <2>1
  <2> HIDE DEF rank
  <2>3. ByRank(S, R)[k] = e
    BY <1>4, <2>2 DEF Injection, IsInjective
  <2> QED BY <2>3
<1> QED BY <1>1, <1>7, <1>8, <1>9 DEF Listing

(* So for the order of the numbers. *)
Smaller(S) == {r \in S \X S : r[1] < r[2]}
Rising(S, s) ==
  /\ Cardinality(S) \in Nat
  /\ s \in [1 .. Cardinality(S) -> S]
  /\ \A k, l \in 1 .. Cardinality(S) : k < l => s[k] < s[l]
  /\ \A e \in S : \E k \in 1 .. Cardinality(S) : s[k] = e

(* The ranks among numbers list them from the smallest to the largest. *)
LEMMA AscendingPlaces ==
  ASSUME NEW S \in SUBSET Int, IsFiniteSet(S)
  PROVE  Rising(S, ByRank(S, Smaller(S)))
<1>0. PICK R : R = Smaller(S)
  OBVIOUS
<1>1. \A d, e \in S : <<d, e>> \in R <=> d < e
  BY <1>0 DEF Smaller
<1>2. Orders(S, R)
  BY <1>1 DEF Orders
<1>3. Listing(S, R, ByRank(S, R))
  BY <1>2, RanksOrder
<1>4. PICK s : s = ByRank(S, R) /\ Listing(S, R, s)
  BY <1>3
<1>5. Rising(S, s)
  <2>1. \A k \in 1 .. Cardinality(S) : s[k] \in S
    BY <1>4 DEF Listing
  <2> QED BY <1>1, <1>4, <2>1 DEF Listing, Rising
<1> QED BY <1>0, <1>4, <1>5
=============================================================================
