------------------------- MODULE CandidatePairsProofs -------------------------
(***************************************************************************)
(* For every call: the offsets the counting sort leaves are the numbers of *)
(* records below each code; twice the pairs a call can return is at most   *)
(* the bound it is refused by, so that an int numbers every result; and    *)
(* whatever the threads and their interleaving, the pairs returned are     *)
(* those near in some pass, each once, under its first pass, in order.     *)
(***************************************************************************)
EXTENDS CandidatePairs, DispatchLemmas, SequenceTheorems

(* What the model says of its call, of any problem q. *)
CodesOf(q, p) == Cardinality(UsedCodes(q, p))

(* Among the first m y records, those with a code from c up to below d.    *)
YRange(q, p, m, c, d) == {j \in 0 .. m - 1 : c <= q.y[p][j] /\ q.y[p][j] < d}
YCount(q, p, m, c, d) == Cardinality(YRange(q, p, m, c, d))

XBlock(q, p, c) == {i \in 0 .. q.nx - 1 : q.x[p][i] = c}

NearIn(q, p, i, j) ==
  LET c == q.x[p][i]
      d == q.y[p][j]
  IN  /\ Missing \notin {c, d}
      /\ Distance(c, d) <= q.half
      /\ q.half = 0 =>
           Cardinality({k \in 0 .. q.ny - 1 : q.y[p][k] = c})
             + (IF q.dedupe THEN 0 ELSE Cardinality(XBlock(q, p, c))) <= q.maxBlock

(* The pairs of the passes before p, and of codes below c in pass p.       *)
Pairs(q) == (0 .. q.nx - 1) \X (0 .. q.ny - 1)
Reach(q, p, c) ==
  {e \in Pairs(q) :
     \E o \in DOMAIN q.x :
       /\ o < p \/ (o = p /\ q.x[o][e[1]] < c)
       /\ NearIn(q, o, e[1], e[2])}
Added(q, p, c) == {e \in Pairs(q) : q.x[p][e[1]] = c /\ NearIn(q, p, e[1], e[2])}

(* One pass's offsets while the records are counted and the counts added.  *)
CountedTo(q, p, f, m) ==
  \A c \in 0 .. CodesOf(q, p) + 1 :
    f[c] = IF c <= 1 THEN 0 ELSE YCount(q, p, m, c - 1, c)
AddedTo(q, p, f, n) ==
  \A c \in 0 .. CodesOf(q, p) + 1 :
    f[c] = IF c < n THEN YCount(q, p, q.ny, 1, c)
           ELSE IF c <= 1 THEN 0 ELSE YCount(q, p, q.ny, c - 1, c)
Summed(q, p, f) ==
  \A c \in 0 .. CodesOf(q, p) + 1 : f[c] = YCount(q, p, q.ny, 1, c)
-----------------------------------------------------------------------------
(* Every code a record can have is missing or one of 1 .. K.               *)
LEMMA ProblemShape ==
  ASSUME NEW q \in Problems, NEW p \in DOMAIN q.x
  PROVE  /\ q.nx \in Nat /\ q.ny \in Nat /\ q.half \in Nat /\ q.maxBlock \in Nat
         /\ q.dedupe \in BOOLEAN
         /\ DOMAIN q.x = 1 .. Len(q.x) /\ Len(q.x) \in Nat \ {0}
         /\ p \in DOMAIN q.y
         /\ CodesOf(q, p) \in Nat
         /\ \A i \in 0 .. q.nx - 1 : q.x[p][i] \in 0 .. CodesOf(q, p)
         /\ \A j \in 0 .. q.ny - 1 : q.y[p][j] \in 0 .. CodesOf(q, p)
<1>1. /\ q.nx \in Nat /\ q.ny \in Nat /\ q.half \in Nat /\ q.maxBlock \in Nat
      /\ q.dedupe \in BOOLEAN
  BY PairsAssumption
<1>2. /\ q.x \in Seq([0 .. q.nx - 1 -> Nat]) /\ q.y \in Seq([0 .. q.ny - 1 -> Nat])
      /\ Len(q.x) = Len(q.y) /\ Len(q.x) > 0
  BY PairsAssumption
<1>3. /\ DOMAIN q.x = 1 .. Len(q.x) /\ Len(q.x) \in Nat \ {0} /\ p \in DOMAIN q.y
      /\ q.x[p] \in [0 .. q.nx - 1 -> Nat] /\ q.y[p] \in [0 .. q.ny - 1 -> Nat]
  BY <1>2
<1>4. PICK k \in 0 .. q.nx + q.ny : UsedCodes(q, p) = 1 .. k
  BY PairsAssumption
<1>5. k \in Nat /\ CodesOf(q, p) = k
  <2>1. k \in Nat
    BY <1>1
  <2>2. Cardinality(1 .. k) = IF 1 > k THEN 0 ELSE k - 1 + 1
    BY <2>1, FS_Interval
  <2> QED BY <1>4, <2>1, <2>2 DEF CodesOf
<1>6. ASSUME NEW i \in 0 .. q.nx - 1 PROVE q.x[p][i] \in 0 .. k
  <2>1. q.x[p][i] \in Nat
    BY <1>3
  <2>2. q.x[p][i] # Missing => q.x[p][i] \in 1 .. k
    BY <1>4 DEF UsedCodes
  <2> QED BY <1>5, <2>1, <2>2 DEF Missing
<1>7. ASSUME NEW j \in 0 .. q.ny - 1 PROVE q.y[p][j] \in 0 .. k
  <2>1. q.y[p][j] \in Nat
    BY <1>3
  <2>2. q.y[p][j] # Missing => q.y[p][j] \in 1 .. k
    BY <1>4 DEF UsedCodes
  <2> QED BY <1>5, <2>1, <2>2 DEF Missing
<1> QED BY <1>1, <1>3, <1>5, <1>6, <1>7

(* The records of y whose codes lie in a range are finitely many. *)
LEMMA RangeFinite ==
  ASSUME NEW q, NEW p, NEW m \in Nat, NEW c, NEW d
  PROVE  IsFiniteSet(YRange(q, p, m, c, d)) /\ YCount(q, p, m, c, d) \in Nat
<1>1. IsFiniteSet(0 .. m - 1)
  BY FS_Interval
<1>2. YRange(q, p, m, c, d) \in SUBSET (0 .. m - 1)
  BY DEF YRange
<1>3. IsFiniteSet(YRange(q, p, m, c, d))
  BY <1>1, <1>2, FS_Subset
<1> QED BY <1>3, FS_CardinalityType DEF YCount

(* Counting the codes of a range is counting those of its two halves. *)
LEMMA RangeSplit ==
  ASSUME NEW q \in Problems, NEW p \in DOMAIN q.x,
         NEW c \in Int, NEW e \in Int, NEW d \in Int, c <= e, e <= d
  PROVE  YCount(q, p, q.ny, c, d) = YCount(q, p, q.ny, c, e) + YCount(q, p, q.ny, e, d)
<1> DEFINE A == YRange(q, p, q.ny, c, e)
           B == YRange(q, p, q.ny, e, d)
<1>1. q.ny \in Nat /\ \A j \in 0 .. q.ny - 1 : q.y[p][j] \in Int
  BY ProblemShape
<1>2. A \cup B = YRange(q, p, q.ny, c, d) /\ A \cap B = {}
  BY <1>1 DEF YRange
<1>3. IsFiniteSet(A) /\ IsFiniteSet(B) /\ Cardinality(A) \in Nat /\ Cardinality(B) \in Nat
  BY <1>1, RangeFinite DEF YCount
<1>4. Cardinality(A \cup B) = Cardinality(A) + Cardinality(B) - Cardinality(A \cap B)
  BY <1>3, FS_Union
<1>5. Cardinality(A \cap B) = 0
  BY <1>2, FS_EmptySet
<1>6. Cardinality(A \cup B) = Cardinality(A) + Cardinality(B)
  BY <1>3, <1>4, <1>5
<1> HIDE DEF A, B
<1>7. Cardinality(YRange(q, p, q.ny, c, d)) = Cardinality(A) + Cardinality(B)
  BY <1>2, <1>6
<1> QED BY <1>7 DEF YCount, A, B

(* An empty table, or an empty range of codes, counts nothing. *)
LEMMA RangeEmpty ==
  ASSUME NEW q \in Problems, NEW p \in DOMAIN q.x,
         NEW m \in 0 .. q.ny, NEW c \in Int, NEW d \in Int, m = 0 \/ d <= c
  PROVE  YCount(q, p, m, c, d) = 0
<1>1. q.ny \in Nat /\ \A j \in 0 .. q.ny - 1 : q.y[p][j] \in Int
  BY ProblemShape
<1>2. ASSUME NEW j \in YRange(q, p, m, c, d) PROVE FALSE
  <2>1. j \in 0 .. m - 1 /\ c <= q.y[p][j] /\ q.y[p][j] < d
    BY DEF YRange
  <2>2. m \in Nat /\ m <= q.ny
    BY <1>1
  <2>3. j \in 0 .. q.ny - 1 /\ m # 0
    BY <1>1, <2>1, <2>2
  <2> QED BY <1>1, <2>1, <2>3
<1>3. YRange(q, p, m, c, d) = {}
  BY <1>2
<1> QED BY <1>3, FS_EmptySet DEF YCount

(* One more record counted. *)
LEMMA RangeNext ==
  ASSUME NEW q \in Problems, NEW p \in DOMAIN q.x,
         NEW m \in 0 .. q.ny - 1, NEW c \in Int
  PROVE  YCount(q, p, m + 1, c, c + 1)
           = IF q.y[p][m] = c THEN YCount(q, p, m, c, c + 1) + 1 ELSE YCount(q, p, m, c, c + 1)
<1>1. q.ny \in Nat /\ m \in Nat /\ \A j \in 0 .. q.ny - 1 : q.y[p][j] \in Int
  BY ProblemShape
<1>2. IsFiniteSet(YRange(q, p, m, c, c + 1)) /\ m \notin YRange(q, p, m, c, c + 1)
  <2>1. m \notin 0 .. m - 1
    BY <1>1
  <2>2. YRange(q, p, m, c, c + 1) \subseteq 0 .. m - 1
    BY DEF YRange
  <2> QED BY <1>1, <2>1, <2>2, RangeFinite
<1>3. CASE q.y[p][m] = c
  <2>1. YRange(q, p, m + 1, c, c + 1) = YRange(q, p, m, c, c + 1) \cup {m}
    BY <1>1, <1>3 DEF YRange
  <2> QED BY <1>2, <1>3, <2>1, FS_AddElement DEF YCount
<1>4. CASE q.y[p][m] # c
  <2>1. ASSUME NEW j \in YRange(q, p, m + 1, c, c + 1)
        PROVE  j \in YRange(q, p, m, c, c + 1)
    <3>1. j \in 0 .. m /\ c <= q.y[p][j] /\ q.y[p][j] < c + 1
      BY <1>1 DEF YRange
    <3>2. j \in 0 .. q.ny - 1 /\ q.y[p][j] \in Int
      BY <1>1, <3>1
    <3>3. j # m
      BY <1>4, <3>1, <3>2
    <3>4. j \in 0 .. m - 1
      BY <1>1, <3>1, <3>3
    <3> QED BY <3>1, <3>4 DEF YRange
  <2>2. YRange(q, p, m, c, c + 1) \subseteq YRange(q, p, m + 1, c, c + 1)
    BY <1>1 DEF YRange
  <2>3. YRange(q, p, m + 1, c, c + 1) = YRange(q, p, m, c, c + 1)
    BY <2>1, <2>2
  <2> QED BY <1>4, <2>3 DEF YCount
<1> QED BY <1>3, <1>4

(* Before the first record of y every count is 0. *)
LEMMA CountStart ==
  ASSUME NEW q \in Problems, NEW p \in DOMAIN q.x, NEW f,
         \A c \in 0 .. CodesOf(q, p) + 1 : f[c] = 0
  PROVE  CountedTo(q, p, f, 0)
<1>1. q.ny \in Nat /\ CodesOf(q, p) \in Nat
  BY ProblemShape
<1>2. ASSUME NEW c \in 0 .. CodesOf(q, p) + 1 PROVE YCount(q, p, 0, c - 1, c) = 0
  BY <1>1, RangeEmpty
<1> QED BY <1>2 DEF CountedTo

(* Adding a record of y to the place behind its code counts it. *)
LEMMA CountStep ==
  ASSUME NEW q \in Problems, NEW p \in DOMAIN q.x,
         NEW f \in [0 .. CodesOf(q, p) + 1 -> Nat], NEW m \in 0 .. q.ny - 1,
         CountedTo(q, p, f, m), q.y[p][m] # Missing
  PROVE  /\ [f EXCEPT ![q.y[p][m] + 1] = @ + 1] \in [0 .. CodesOf(q, p) + 1 -> Nat]
         /\ CountedTo(q, p, [f EXCEPT ![q.y[p][m] + 1] = @ + 1], m + 1)
<1>1. /\ q.ny \in Nat /\ CodesOf(q, p) \in Nat /\ m \in Nat
      /\ q.y[p][m] \in 0 .. CodesOf(q, p)
  BY ProblemShape
<1>2. PICK d \in 1 .. CodesOf(q, p) : d = q.y[p][m]
  BY <1>1 DEF Missing
<1> DEFINE g == [f EXCEPT ![d + 1] = @ + 1]
<1>3. d + 1 \in 0 .. CodesOf(q, p) + 1 /\ d \in Nat
  BY <1>1
<1>4. g \in [0 .. CodesOf(q, p) + 1 -> Nat]
  BY <1>3
<1>5. ASSUME NEW c \in 0 .. CodesOf(q, p) + 1
      PROVE  g[c] = IF c <= 1 THEN 0 ELSE YCount(q, p, m + 1, c - 1, c)
  <2>1. f[c] = IF c <= 1 THEN 0 ELSE YCount(q, p, m, c - 1, c)
    BY DEF CountedTo
  <2>2. g[c] = IF c = d + 1 THEN f[c] + 1 ELSE f[c]
    BY <1>3
  <2>3. CASE c <= 1
    <3>1. c # d + 1
      BY <1>1, <1>2, <2>3
    <3> QED BY <2>1, <2>2, <2>3, <3>1
  <2>4. CASE ~ (c <= 1)
    <3>1. c - 1 \in Int /\ c - 1 + 1 = c
      BY <1>1
    <3>2. YCount(q, p, m + 1, c - 1, c)
            = IF d = c - 1 THEN YCount(q, p, m, c - 1, c) + 1 ELSE YCount(q, p, m, c - 1, c)
      BY <1>2, <3>1, RangeNext
    <3>3. c = d + 1 <=> d = c - 1
      BY <1>1, <1>2
    <3> QED BY <2>1, <2>2, <2>4, <3>2, <3>3
  <2> QED BY <2>3, <2>4
<1> QED BY <1>2, <1>4, <1>5 DEF CountedTo

(* A record of y without a code is counted nowhere. *)
LEMMA CountSkips ==
  ASSUME NEW q \in Problems, NEW p \in DOMAIN q.x, NEW f, NEW m \in 0 .. q.ny - 1,
         CountedTo(q, p, f, m), q.y[p][m] = Missing
  PROVE  CountedTo(q, p, f, m + 1)
<1>1. CodesOf(q, p) \in Nat
  BY ProblemShape
<1>2. ASSUME NEW c \in 0 .. CodesOf(q, p) + 1, ~ (c <= 1)
      PROVE  YCount(q, p, m + 1, c - 1, c) = YCount(q, p, m, c - 1, c)
  <2>1. c - 1 \in Int /\ c - 1 + 1 = c /\ q.y[p][m] # c - 1
    BY <1>1, <1>2 DEF Missing
  <2> QED BY <2>1, RangeNext
<1> QED BY <1>2 DEF CountedTo

(* When all records of y are counted, the prefix sum can start. *)
LEMMA AddStart ==
  ASSUME NEW q \in Problems, NEW p \in DOMAIN q.x, NEW f, CountedTo(q, p, f, q.ny)
  PROVE  AddedTo(q, p, f, 1)
<1>1. CodesOf(q, p) \in Nat /\ q.ny \in Nat
  BY ProblemShape
<1>2. ASSUME NEW c \in 0 .. CodesOf(q, p) + 1, c < 1
      PROVE  f[c] = YCount(q, p, q.ny, 1, c)
  <2>1. YCount(q, p, q.ny, 1, c) = 0
    BY <1>1, <1>2, RangeEmpty
  <2> QED BY <1>1, <1>2, <2>1 DEF CountedTo
<1> QED BY <1>2 DEF AddedTo, CountedTo

(* One turn of the prefix sum adds one code more to the offsets summed so far. *)
LEMMA AddStep ==
  ASSUME NEW q \in Problems, NEW p \in DOMAIN q.x,
         NEW f \in [0 .. CodesOf(q, p) + 1 -> Nat], NEW n \in 1 .. CodesOf(q, p) + 1,
         AddedTo(q, p, f, n)
  PROVE  /\ [f EXCEPT ![n] = @ + f[n - 1]] \in [0 .. CodesOf(q, p) + 1 -> Nat]
         /\ AddedTo(q, p, [f EXCEPT ![n] = @ + f[n - 1]], n + 1)
<1>1. CodesOf(q, p) \in Nat /\ q.ny \in Nat
  BY ProblemShape
<1> DEFINE g == [f EXCEPT ![n] = @ + f[n - 1]]
<1>2. n \in 0 .. CodesOf(q, p) + 1 /\ n - 1 \in 0 .. CodesOf(q, p) + 1 /\ n \in Nat
  BY <1>1
<1>3. g \in [0 .. CodesOf(q, p) + 1 -> Nat]
  BY <1>2
<1>4. f[n] + f[n - 1] = YCount(q, p, q.ny, 1, n)
  <2>1. f[n - 1] = YCount(q, p, q.ny, 1, n - 1)
    BY <1>1, <1>2 DEF AddedTo
  <2>2. f[n] = IF n <= 1 THEN 0 ELSE YCount(q, p, q.ny, n - 1, n)
    BY <1>1, <1>2 DEF AddedTo
  <2>3. CASE n <= 1
    <3>1. YCount(q, p, q.ny, 1, n - 1) = 0 /\ YCount(q, p, q.ny, 1, n) = 0
      BY <1>1, <1>2, <2>3, RangeEmpty
    <3> QED BY <2>1, <2>2, <2>3, <3>1
  <2>4. CASE ~ (n <= 1)
    <3>1. YCount(q, p, q.ny, 1, n) = YCount(q, p, q.ny, 1, n - 1) + YCount(q, p, q.ny, n - 1, n)
      BY <1>1, <1>2, <2>4, RangeSplit
    <3>2. YCount(q, p, q.ny, 1, n - 1) \in Nat /\ YCount(q, p, q.ny, n - 1, n) \in Nat
      BY <1>1, RangeFinite
    <3> QED BY <2>1, <2>2, <2>4, <3>1, <3>2
  <2> QED BY <2>3, <2>4
<1>5. ASSUME NEW c \in 0 .. CodesOf(q, p) + 1
      PROVE  g[c] = IF c < n + 1 THEN YCount(q, p, q.ny, 1, c)
                    ELSE IF c <= 1 THEN 0 ELSE YCount(q, p, q.ny, c - 1, c)
  <2>1. f[c] = IF c < n THEN YCount(q, p, q.ny, 1, c)
               ELSE IF c <= 1 THEN 0 ELSE YCount(q, p, q.ny, c - 1, c)
    BY DEF AddedTo
  <2>2. g[c] = IF c = n THEN f[n] + f[n - 1] ELSE f[c]
    BY <1>2
  <2>3. CASE c = n
    <3>1. n < n + 1
      BY <1>2
    <3> QED BY <1>4, <2>2, <2>3, <3>1
  <2>4. CASE c # n
    <3>1. c < n <=> c < n + 1
      BY <1>1, <1>2, <2>4
    <3> QED BY <2>1, <2>2, <2>4, <3>1
  <2> QED BY <2>3, <2>4
<1> QED BY <1>3, <1>5 DEF AddedTo

(* Behind the last code every offset counts the records below its code. *)
LEMMA AddEnd ==
  ASSUME NEW q \in Problems, NEW p \in DOMAIN q.x, NEW f, NEW n \in Nat,
         n > CodesOf(q, p) + 1, AddedTo(q, p, f, n)
  PROVE  Summed(q, p, f)
<1>1. CodesOf(q, p) \in Nat
  BY ProblemShape
<1>2. \A c \in 0 .. CodesOf(q, p) + 1 : c < n
  BY <1>1
<1> QED BY <1>2 DEF AddedTo, Summed
-----------------------------------------------------------------------------
(* What the weight of a code has to cover: the pairs its x records can     *)
(* give, which are none when the block is too big.                         *)
LEMMA AddedCovered ==
  ASSUME NEW q \in Problems, NEW p \in DOMAIN q.x, NEW f, Summed(q, p, f),
         NEW c \in 1 .. CodesOf(q, p)
  PROVE  LET width == f[MinOf(CodesOf(q, p), c + q.half) + 1] - f[MaxOf(1, c - q.half)]
         IN  /\ width \in Nat
             /\ IsFiniteSet(Added(q, p, c)) /\ IsFiniteSet(XBlock(q, p, c))
             /\ Cardinality(XBlock(q, p, c)) \in Nat
             /\ Cardinality(Added(q, p, c)) <= Cardinality(XBlock(q, p, c)) * width
<1>1. /\ q.nx \in Nat /\ q.ny \in Nat /\ q.half \in Nat /\ CodesOf(q, p) \in Nat
      /\ \A j \in 0 .. q.ny - 1 : q.y[p][j] \in 0 .. CodesOf(q, p)
  BY ProblemShape
<1>2. PICK lo \in 1 .. CodesOf(q, p) : lo = MaxOf(1, c - q.half)
  BY <1>1 DEF MaxOf
<1>3. PICK hi \in 1 .. CodesOf(q, p) : hi = MinOf(CodesOf(q, p), c + q.half)
  BY <1>1 DEF MinOf
<1>4. 1 <= lo /\ lo <= hi + 1 /\ lo \in Int /\ hi + 1 \in Int
  BY <1>1, <1>2, <1>3 DEF MaxOf, MinOf
<1>5. f[hi + 1] = YCount(q, p, q.ny, 1, hi + 1) /\ f[lo] = YCount(q, p, q.ny, 1, lo)
  <2>1. hi + 1 \in 0 .. CodesOf(q, p) + 1 /\ lo \in 0 .. CodesOf(q, p) + 1
    BY <1>1
  <2> QED BY <2>1 DEF Summed
<1>6. /\ YCount(q, p, q.ny, lo, hi + 1) \in Nat
      /\ f[hi + 1] - f[lo] = YCount(q, p, q.ny, lo, hi + 1)
  <2>1. YCount(q, p, q.ny, 1, hi + 1) = YCount(q, p, q.ny, 1, lo) + YCount(q, p, q.ny, lo, hi + 1)
    BY <1>4, RangeSplit
  <2>2. YCount(q, p, q.ny, 1, lo) \in Nat /\ YCount(q, p, q.ny, lo, hi + 1) \in Nat
    BY <1>1, RangeFinite
  <2> QED BY <1>5, <2>1, <2>2
<1>7. IsFiniteSet(XBlock(q, p, c)) /\ Cardinality(XBlock(q, p, c)) \in Nat
  <2>0. PICK n \in Int : n = q.nx - 1
    BY <1>1
  <2>1. IsFiniteSet(0 .. n)
    BY FS_Interval
  <2>2. XBlock(q, p, c) \in SUBSET (0 .. n)
    BY <2>0 DEF XBlock
  <2>3. IsFiniteSet(XBlock(q, p, c))
    BY <2>1, <2>2, FS_Subset
  <2> QED BY <2>3, FS_CardinalityType
<1>8. IsFiniteSet(YRange(q, p, q.ny, lo, hi + 1))
  BY <1>1, RangeFinite
<1>9. Added(q, p, c) \subseteq XBlock(q, p, c) \X YRange(q, p, q.ny, lo, hi + 1)
  <2> SUFFICES ASSUME NEW e \in Added(q, p, c)
               PROVE  e \in XBlock(q, p, c) \X YRange(q, p, q.ny, lo, hi + 1)
    OBVIOUS
  <2>1. /\ e \in (0 .. q.nx - 1) \X (0 .. q.ny - 1)
        /\ q.x[p][e[1]] = c /\ NearIn(q, p, e[1], e[2])
    BY DEF Added, Pairs
  <2>2. PICK i \in 0 .. q.nx - 1, j \in 0 .. q.ny - 1 : e = <<i, j>>
    BY <2>1
  <2>3. q.x[p][i] = c /\ NearIn(q, p, i, j)
    BY <2>1, <2>2
  <2>4. Missing # q.y[p][j] /\ Distance(c, q.y[p][j]) <= q.half
    BY <2>3 DEF NearIn
  <2>5. lo <= q.y[p][j] /\ q.y[p][j] < hi + 1
    <3>1. q.y[p][j] \in 1 .. CodesOf(q, p)
      BY <1>1, <2>4 DEF Missing
    <3> QED BY <1>1, <1>2, <1>3, <2>4, <3>1 DEF Distance, MaxOf, MinOf
  <2> QED BY <2>2, <2>3, <2>5 DEF XBlock, YRange
<1>10. /\ IsFiniteSet(Added(q, p, c))
       /\ Cardinality(Added(q, p, c))
            <= Cardinality(XBlock(q, p, c)) * YCount(q, p, q.ny, lo, hi + 1)
  <2> DEFINE Box == XBlock(q, p, c) \X YRange(q, p, q.ny, lo, hi + 1)
  <2>1. /\ IsFiniteSet(Box)
        /\ Cardinality(Box)
             = Cardinality(XBlock(q, p, c)) * Cardinality(YRange(q, p, q.ny, lo, hi + 1))
    BY <1>7, <1>8, FS_Product
  <2>2. IsFiniteSet(Added(q, p, c)) /\ Cardinality(Added(q, p, c)) <= Cardinality(Box)
    BY <1>9, <2>1, FS_Subset
  <2> HIDE DEF Box
  <2> QED BY <2>1, <2>2 DEF YCount
<1> QED BY <1>2, <1>3, <1>6, <1>7, <1>10

(* A block above the maximum, by the sizes that the offsets give, offers no pair. *)
LEMMA TooBigHasNone ==
  ASSUME NEW q \in Problems, NEW p \in DOMAIN q.x, NEW f, Summed(q, p, f),
         NEW c \in 1 .. CodesOf(q, p), q.half = 0,
         (IF q.dedupe THEN f[c + 1] - f[c]
          ELSE Cardinality(XBlock(q, p, c)) + (f[c + 1] - f[c])) > q.maxBlock
  PROVE  Added(q, p, c) = {}
<1>1. /\ q.nx \in Nat /\ q.ny \in Nat /\ q.maxBlock \in Nat /\ CodesOf(q, p) \in Nat
      /\ \A j \in 0 .. q.ny - 1 : q.y[p][j] \in Int
  BY ProblemShape
<1>2. PICK n \in Nat : n = YCount(q, p, q.ny, c, c + 1)
  BY <1>1, RangeFinite
<1>3. f[c + 1] - f[c] = n
  <2>1. c + 1 \in 0 .. CodesOf(q, p) + 1 /\ c \in 0 .. CodesOf(q, p) + 1 /\ 1 <= c /\ c <= c + 1
    BY <1>1
  <2>2. f[c + 1] = YCount(q, p, q.ny, 1, c + 1) /\ f[c] = YCount(q, p, q.ny, 1, c)
    BY <2>1 DEF Summed
  <2>3. YCount(q, p, q.ny, 1, c + 1) = YCount(q, p, q.ny, 1, c) + YCount(q, p, q.ny, c, c + 1)
    BY <2>1, RangeSplit
  <2>4. YCount(q, p, q.ny, 1, c) \in Nat
    BY <1>1, RangeFinite
  <2> QED BY <1>2, <2>2, <2>3, <2>4
<1>4. {k \in 0 .. q.ny - 1 : q.y[p][k] = c} = YRange(q, p, q.ny, c, c + 1)
  BY <1>1 DEF YRange
<1>5. PICK x \in Nat : x = Cardinality(XBlock(q, p, c))
  BY AddedCovered
<1>6. ASSUME NEW e \in Added(q, p, c) PROVE FALSE
  <2>1. q.x[p][e[1]] = c /\ NearIn(q, p, e[1], e[2])
    BY DEF Added
  <2>2. n + (IF q.dedupe THEN 0 ELSE x) <= q.maxBlock
    BY <1>2, <1>4, <1>5, <2>1 DEF NearIn, YCount
  <2> QED BY <1>1, <1>3, <1>5, <2>2
<1> QED BY <1>6

(* Weighing a code adds its pairs; a pass that is through adds none.       *)
LEMMA ReachGrows ==
  ASSUME NEW q \in Problems, NEW p \in DOMAIN q.x, NEW c \in Int
  PROVE  Reach(q, p, c + 1) = Reach(q, p, c) \cup Added(q, p, c)
<1>1. \A i \in 0 .. q.nx - 1 : q.x[p][i] \in Int
  BY ProblemShape
<1>2. ASSUME NEW i \in 0 .. q.nx - 1
      PROVE  q.x[p][i] < c + 1 <=> q.x[p][i] < c \/ q.x[p][i] = c
  BY <1>1
<1>3. \A e \in Pairs(q) : e[1] \in 0 .. q.nx - 1
  BY DEF Pairs
<1>4. p \in DOMAIN q.x /\ ~ (p < p)
  BY ProblemShape
<1>5. ASSUME NEW e \in Pairs(q)
      PROVE  e \in Reach(q, p, c + 1) <=> e \in Reach(q, p, c) \/ e \in Added(q, p, c)
  BY <1>2, <1>3, <1>4 DEF Reach, Added
<1>6. /\ Reach(q, p, c + 1) \subseteq Pairs(q) /\ Reach(q, p, c) \subseteq Pairs(q)
      /\ Added(q, p, c) \subseteq Pairs(q)
  BY DEF Reach, Added
<1> QED BY <1>5, <1>6

(* Past a pass's last code the weighing goes on with the next pass. *)
LEMMA ReachPasses ==
  ASSUME NEW q \in Problems, NEW p \in DOMAIN q.x, NEW c \in Int, c > CodesOf(q, p)
  PROVE  Reach(q, p, c) = Reach(q, p + 1, 1)
<1>1. /\ DOMAIN q.x = 1 .. Len(q.x) /\ Len(q.x) \in Nat
      /\ \A o \in DOMAIN q.x : /\ CodesOf(q, o) \in Nat
                               /\ \A i \in 0 .. q.nx - 1 : q.x[o][i] \in 0 .. CodesOf(q, o)
  BY ProblemShape
<1>2. \A e \in Pairs(q) : e[1] \in 0 .. q.nx - 1
  BY DEF Pairs
<1>3. ASSUME NEW e \in Pairs(q), NEW o \in DOMAIN q.x, NearIn(q, o, e[1], e[2])
      PROVE  o < p \/ (o = p /\ q.x[o][e[1]] < c)
               <=> o < p + 1 \/ (o = p + 1 /\ q.x[o][e[1]] < 1)
  <2>1. q.x[o][e[1]] # Missing /\ q.x[o][e[1]] \in 0 .. CodesOf(q, o)
    BY <1>1, <1>2, <1>3 DEF NearIn
  <2>2. ~ (q.x[o][e[1]] < 1) /\ o \in Int /\ p \in Int
    BY <1>1, <2>1 DEF Missing
  <2>3. o = p => q.x[o][e[1]] < c
    BY <1>1, <2>1
  <2> QED BY <2>2, <2>3
<1> QED BY <1>3 DEF Reach

(* Before the first block nothing is reached. *)
LEMMA ReachNothing ==
  ASSUME NEW q \in Problems
  PROVE  Reach(q, 1, 1) = {}
<1>1. ASSUME NEW e \in Pairs(q), NEW o \in DOMAIN q.x, NearIn(q, o, e[1], e[2])
      PROVE  ~ (o < 1) /\ ~ (q.x[o][e[1]] < 1)
  <2>1. e[1] \in 0 .. q.nx - 1
    BY DEF Pairs
  <2>2. q.x[o][e[1]] # Missing /\ q.x[o][e[1]] \in 0 .. CodesOf(q, o) /\ o \in Nat \ {0}
    BY <1>1, <2>1, ProblemShape DEF NearIn
  <2>3. CodesOf(q, o) \in Nat
    BY ProblemShape
  <2> QED BY <2>2, <2>3 DEF Missing
<1> QED BY <1>1 DEF Reach
-----------------------------------------------------------------------------
Preparing == {"count", "prefix", "place", "blocks"}
Later     == {"check", "dispatch", "pairs", "done"}

SetupType ==
  /\ job \in Problems
  /\ phase \in Preparing \cup Later
  /\ pass \in DOMAIN job.x
  /\ cursor \in Nat
  /\ DOMAIN offsets = DOMAIN job.x
  /\ \A p \in DOMAIN job.x : offsets[p] \in [0 .. CodesOf(job, p) + 1 -> Nat]
  /\ bound \in Nat

(* How far the counting sort of pass p is: at record m, at code m, through. *)
SortedTo(q, ph, p, m, f) ==
  /\ ph = "count" => m \in 0 .. q.ny /\ CountedTo(q, p, f, m)
  /\ ph = "prefix" => m \in 1 .. CodesOf(q, p) + 2 /\ AddedTo(q, p, f, m)
  /\ ph \in {"place", "blocks"} => Summed(q, p, f)
  /\ ph = "blocks" => m \in 1 .. CodesOf(q, p) + 1
SortInv ==
  /\ SortedTo(job, phase, pass, cursor, offsets[pass])
  /\ \A p \in DOMAIN job.x : p > pass => \A c \in 0 .. CodesOf(job, p) + 1 : offsets[p][c] = 0

(* The pairs weighed so far: those of the passes and codes done. Where a   *)
(* deduplication meets a pair from both ends, both count.                  *)
Weighed(q, ph, p, m) ==
  IF ph = "blocks" THEN Reach(q, p, m)
  ELSE IF ph \in Preparing THEN Reach(q, p, 1) ELSE Reach(q, Len(q.x) + 1, 1)
Weight(q) == IF q.dedupe THEN 1 ELSE 2
BoundInv == Weight(job) * Cardinality(Weighed(job, phase, pass, cursor)) <= bound

IInv == SetupType /\ SortInv /\ BoundInv

(* A set of pairs of records is finite. *)
LEMMA PairsFinite ==
  ASSUME NEW q \in Problems, NEW S \in SUBSET Pairs(q)
  PROVE  IsFiniteSet(S) /\ Cardinality(S) \in Nat
<1>1. q.nx \in Nat /\ q.ny \in Nat
  BY PairsAssumption
<1>2. PICK x \in Int, y \in Int : x = q.nx - 1 /\ y = q.ny - 1
  BY <1>1
<1>3. IsFiniteSet(0 .. x) /\ IsFiniteSet(0 .. y)
  BY FS_Interval
<1>4. IsFiniteSet((0 .. x) \X (0 .. y))
  BY <1>3, FS_Product
<1>5. IsFiniteSet(Pairs(q))
  BY <1>2, <1>4 DEF Pairs
<1>6. IsFiniteSet(S)
  BY <1>5, FS_Subset
<1> QED BY <1>6, FS_CardinalityType

(* The invariant holds at the start of a call. *)
LEMMA InvInit == Init => IInv
<1> SUFFICES ASSUME Init PROVE IInv
  OBVIOUS
<1>1. /\ job \in Problems /\ phase = "count" /\ pass = 1 /\ cursor = 0 /\ bound = 0
      /\ offsets = [p \in Passes |-> [c \in 0 .. NCodes(p) + 1 |-> 0]]
  BY DEF Init
<1>2. 1 \in DOMAIN job.x /\ job.ny \in Nat
  <2>1. job.x \in Seq([0 .. job.nx - 1 -> Nat]) /\ Len(job.x) > 0 /\ job.ny \in Nat
    BY <1>1, PairsAssumption
  <2> QED BY <2>1
<1>3. \A p \in DOMAIN job.x : offsets[p] = [c \in 0 .. CodesOf(job, p) + 1 |-> 0]
  BY <1>1 DEF Passes, NCodes, Codes, CodesOf
<1>4. \A p \in DOMAIN job.x : \A c \in 0 .. CodesOf(job, p) + 1 : offsets[p][c] = 0
  BY <1>3
<1>5. SetupType
  BY <1>1, <1>2, <1>3 DEF SetupType, Passes, Preparing
<1>6. SortInv
  <2>1. CountedTo(job, 1, offsets[1], 0)
    BY <1>1, <1>2, <1>4, CountStart
  <2> QED BY <1>1, <1>2, <1>4, <2>1 DEF SortInv, SortedTo
<1>7. BoundInv
  <2>1. Weighed(job, phase, pass, cursor) = {}
    BY <1>1, ReachNothing DEF Weighed, Preparing
  <2>2. Cardinality(Weighed(job, phase, pass, cursor)) = 0
    BY <2>1, FS_EmptySet
  <2>3. Weight(job) * 0 = 0
    BY DEF Weight
  <2> QED BY <1>1, <2>2, <2>3 DEF BoundInv
<1> QED BY <1>5, <1>6, <1>7 DEF IInv

(* The steps that move pass, cursor, offsets or bound. *)
LEMMA CountKeeps ==
  ASSUME IInv, CountRecord
  PROVE  IInv'
<1>1. PICK q \in Problems : q = job
  BY DEF IInv, SetupType
<1>2. PICK p \in DOMAIN q.x : p = pass
  BY <1>1 DEF IInv, SetupType
<1>3. PICK m \in Nat : m = cursor
  BY DEF IInv, SetupType
<1>4. /\ phase = "count" /\ job' = q /\ pass' = p /\ bound' = bound
      /\ m \in 0 .. q.ny /\ CountedTo(q, p, offsets[p], m)
      /\ \A o \in DOMAIN q.x : o > p => \A c \in 0 .. CodesOf(q, o) + 1 : offsets[o][c] = 0
  BY <1>1, <1>2, <1>3 DEF CountRecord, IInv, SortInv, SortedTo
<1>5. /\ DOMAIN offsets = DOMAIN q.x /\ bound \in Nat
      /\ \A o \in DOMAIN q.x : offsets[o] \in [0 .. CodesOf(q, o) + 1 -> Nat]
  BY <1>1 DEF IInv, SetupType
<1>6. /\ q.ny \in Nat /\ DOMAIN q.x = 1 .. Len(q.x) /\ CodesOf(q, p) \in Nat
      /\ \A j \in 0 .. q.ny - 1 : q.y[p][j] \in 0 .. CodesOf(q, p)
  BY ProblemShape
<1>7. Weight(q) * Cardinality(Reach(q, p, 1)) <= bound
  BY <1>1, <1>2, <1>4 DEF IInv, BoundInv, Weighed, Preparing
<1>8. CASE cursor < job.ny
  <2>1. /\ phase' = "count" /\ cursor' = m + 1 /\ m \in 0 .. q.ny - 1
    BY <1>1, <1>3, <1>4, <1>6, <1>8 DEF CountRecord
  <2>2. PICK f : f = offsets[p]
    OBVIOUS
  <2>3. PICK g \in [0 .. CodesOf(q, p) + 1 -> Nat] :
          /\ CountedTo(q, p, g, m + 1)
          /\ offsets'[p] = g /\ DOMAIN offsets' = DOMAIN q.x
          /\ \A o \in DOMAIN q.x : o # p => offsets'[o] = offsets[o]
    <3>1. CASE q.y[p][m] = Missing
      <4>1. offsets' = offsets
        BY <1>1, <1>2, <1>3, <1>8, <3>1 DEF CountRecord
      <4>2. CountedTo(q, p, offsets[p], m + 1)
        BY <1>4, <2>1, <3>1, CountSkips
      <4> QED BY <1>5, <4>1, <4>2
    <3>2. CASE q.y[p][m] # Missing
      <4>1. offsets' = [offsets EXCEPT ![p][q.y[p][m] + 1] = @ + 1]
        BY <1>1, <1>2, <1>3, <1>8, <3>2 DEF CountRecord
      <4>2. offsets' = [offsets EXCEPT ![p] = [offsets[p] EXCEPT ![q.y[p][m] + 1] = @ + 1]]
        BY <4>1
      <4>3. PICK g : g = [offsets[p] EXCEPT ![q.y[p][m] + 1] = @ + 1]
        OBVIOUS
      <4>4. g \in [0 .. CodesOf(q, p) + 1 -> Nat] /\ CountedTo(q, p, g, m + 1)
        BY <1>4, <1>5, <2>1, <2>2, <3>2, <4>3, CountStep
      <4>5. offsets' = [offsets EXCEPT ![p] = g]
        BY <4>2, <4>3
      <4>6. /\ offsets'[p] = g /\ DOMAIN offsets' = DOMAIN q.x
            /\ \A o \in DOMAIN q.x : o # p => offsets'[o] = offsets[o]
        BY <1>5, <4>5
      <4> QED BY <4>4, <4>6
    <3> QED BY <3>1, <3>2
  <2>5. SetupType'
    BY <1>3, <1>4, <1>5, <2>1, <2>3 DEF SetupType, Preparing
  <2>6. SortInv'
    <3>1. m + 1 \in 0 .. q.ny
      BY <1>6, <2>1
    <3>2. \A o \in DOMAIN q.x : o > p => o # p
      BY <1>6
    <3> QED BY <1>4, <2>1, <2>3, <3>1, <3>2 DEF SortInv, SortedTo
  <2>7. BoundInv'
    BY <1>4, <1>7, <2>1 DEF BoundInv, Weighed, Preparing
  <2> QED BY <2>5, <2>6, <2>7 DEF IInv
<1>9. CASE ~ (cursor < job.ny)
  <2>1. phase' = "prefix" /\ cursor' = 1 /\ offsets' = offsets /\ m = q.ny
    BY <1>1, <1>3, <1>4, <1>6, <1>9 DEF CountRecord
  <2>2. AddedTo(q, p, offsets[p], 1)
    BY <1>4, <2>1, AddStart
  <2>3. SetupType'
    BY <1>4, <1>5, <2>1 DEF SetupType, Preparing
  <2>4. SortInv'
    BY <1>4, <1>6, <2>1, <2>2 DEF SortInv, SortedTo
  <2>5. BoundInv'
    BY <1>4, <1>7, <2>1 DEF BoundInv, Weighed, Preparing
  <2> QED BY <2>3, <2>4, <2>5 DEF IInv
<1> QED BY <1>8, <1>9

(* A turn of the prefix sum keeps the invariant. *)
LEMMA AddKeeps ==
  ASSUME IInv, AddUp
  PROVE  IInv'
<1>1. PICK q \in Problems : q = job
  BY DEF IInv, SetupType
<1>2. PICK p \in DOMAIN q.x : p = pass
  BY <1>1 DEF IInv, SetupType
<1>3. PICK n \in Nat : n = cursor
  BY DEF IInv, SetupType
<1>4. /\ phase = "prefix" /\ job' = q /\ pass' = p /\ bound' = bound
      /\ n \in 1 .. CodesOf(q, p) + 2 /\ AddedTo(q, p, offsets[p], n)
      /\ \A o \in DOMAIN q.x : o > p => \A c \in 0 .. CodesOf(q, o) + 1 : offsets[o][c] = 0
  BY <1>1, <1>2, <1>3 DEF AddUp, IInv, SortInv, SortedTo
<1>5. /\ DOMAIN offsets = DOMAIN q.x /\ bound \in Nat
      /\ \A o \in DOMAIN q.x : offsets[o] \in [0 .. CodesOf(q, o) + 1 -> Nat]
  BY <1>1 DEF IInv, SetupType
<1>6. q.ny \in Nat /\ DOMAIN q.x = 1 .. Len(q.x) /\ CodesOf(q, p) \in Nat
  BY ProblemShape
<1>7. Weight(q) * Cardinality(Reach(q, p, 1)) <= bound
  BY <1>1, <1>2, <1>4 DEF IInv, BoundInv, Weighed, Preparing
<1>8. NCodes(pass) = CodesOf(q, p)
  BY <1>1, <1>2 DEF NCodes, Codes, CodesOf
<1>9. CASE n <= CodesOf(q, p) + 1
  <2>1. /\ phase' = "prefix" /\ cursor' = n + 1 /\ n \in 1 .. CodesOf(q, p) + 1
        /\ offsets' = [offsets EXCEPT ![p][n] = @ + offsets[p][n - 1]]
    BY <1>1, <1>2, <1>3, <1>4, <1>6, <1>8, <1>9 DEF AddUp
  <2>2. PICK f \in [0 .. CodesOf(q, p) + 1 -> Nat] : f = offsets[p]
    BY <1>5
  <2>3. PICK g : g = [f EXCEPT ![n] = @ + f[n - 1]]
    OBVIOUS
  <2>4. g \in [0 .. CodesOf(q, p) + 1 -> Nat] /\ AddedTo(q, p, g, n + 1)
    BY <1>4, <2>1, <2>2, <2>3, AddStep
  <2>5. offsets' = [offsets EXCEPT ![p] = g]
    BY <2>1, <2>2, <2>3
  <2>6. /\ offsets'[p] = g /\ DOMAIN offsets' = DOMAIN q.x
        /\ \A o \in DOMAIN q.x : o # p => offsets'[o] = offsets[o]
    BY <1>5, <2>5
  <2>7. SetupType'
    <3>1. cursor' \in Nat /\ phase' \in Preparing
      BY <2>1 DEF Preparing
    <3>2. \A o \in DOMAIN q.x : offsets'[o] \in [0 .. CodesOf(q, o) + 1 -> Nat]
      BY <1>5, <2>4, <2>6
    <3> QED BY <1>4, <1>5, <2>6, <3>1, <3>2 DEF SetupType
  <2>8. SortInv'
    <3>1. n + 1 \in 1 .. CodesOf(q, p) + 2
      BY <1>6, <2>1
    <3>2. \A o \in DOMAIN q.x : o > p => o # p
      BY <1>6
    <3> QED BY <1>4, <2>1, <2>4, <2>6, <3>1, <3>2 DEF SortInv, SortedTo
  <2>9. BoundInv'
    BY <1>4, <1>7, <2>1 DEF BoundInv, Weighed, Preparing
  <2> QED BY <2>7, <2>8, <2>9 DEF IInv
<1>10. CASE ~ (n <= CodesOf(q, p) + 1)
  <2>1. phase' = "place" /\ cursor' = 0 /\ offsets' = offsets
    BY <1>1, <1>2, <1>3, <1>4, <1>8, <1>10 DEF AddUp
  <2>2. Summed(q, p, offsets[p])
    BY <1>4, <1>6, <1>10, AddEnd
  <2>3. SetupType'
    BY <1>4, <1>5, <2>1 DEF SetupType, Preparing
  <2>4. SortInv'
    BY <1>4, <2>1, <2>2 DEF SortInv, SortedTo
  <2>5. BoundInv'
    BY <1>4, <1>7, <2>1 DEF BoundInv, Weighed, Preparing
  <2> QED BY <2>3, <2>4, <2>5 DEF IInv
<1> QED BY <1>9, <1>10

(* Placing a record by its code keeps the invariant: the offsets are not touched. *)
LEMMA PlaceKeeps ==
  ASSUME IInv, PlaceRecord
  PROVE  IInv'
<1>1. PICK q \in Problems : q = job
  BY DEF IInv, SetupType
<1>2. PICK p \in DOMAIN q.x : p = pass
  BY <1>1 DEF IInv, SetupType
<1>3. /\ phase = "place" /\ job' = q /\ pass' = p /\ bound' = bound /\ offsets' = offsets
      /\ Summed(q, p, offsets[p])
      /\ \A o \in DOMAIN q.x : o > p => \A c \in 0 .. CodesOf(q, o) + 1 : offsets[o][c] = 0
  BY <1>1, <1>2 DEF PlaceRecord, IInv, SortInv, SortedTo
<1>4. /\ DOMAIN offsets = DOMAIN q.x /\ bound \in Nat /\ cursor \in Nat
      /\ \A o \in DOMAIN q.x : offsets[o] \in [0 .. CodesOf(q, o) + 1 -> Nat]
  BY <1>1 DEF IInv, SetupType
<1>5. CodesOf(q, p) \in Nat
  BY ProblemShape
<1>6. Weight(q) * Cardinality(Reach(q, p, 1)) <= bound
  BY <1>1, <1>2, <1>3 DEF IInv, BoundInv, Weighed, Preparing
<1>7. \/ phase' = "place" /\ cursor' = cursor + 1
      \/ phase' = "blocks" /\ cursor' = 1
  BY <1>3 DEF PlaceRecord
<1>8. SetupType'
  BY <1>3, <1>4, <1>7 DEF SetupType, Preparing
<1>9. SortInv'
  BY <1>3, <1>5, <1>7 DEF SortInv, SortedTo
<1>10. BoundInv'
  BY <1>3, <1>6, <1>7 DEF BoundInv, Weighed, Preparing
<1> QED BY <1>8, <1>9, <1>10 DEF IInv

(* The arithmetic of a weighed block: a bound that was enough, plus the block's room, is enough. *)
LEMMA Products ==
  ASSUME NEW w \in {1, 2}, NEW b \in Nat, NEW old \in Nat, NEW fresh \in Nat, NEW now \in Nat,
         NEW room \in Nat, w * old <= b, fresh <= room, now <= old + fresh
  PROVE  w * now <= b + room * w
<1>1. CASE w = 1
  BY <1>1
<1>2. CASE w = 2
  BY <1>2
<1> QED BY <1>1, <1>2

(* Weighing a block keeps the invariant: the bound grows by at least its new pairs. *)
LEMMA WeighKeeps ==
  ASSUME IInv, WeighBlock
  PROVE  IInv'
<1>1. PICK q \in Problems : q = job
  BY DEF IInv, SetupType
<1>2. PICK p \in DOMAIN q.x : p = pass
  BY <1>1 DEF IInv, SetupType
<1>3. PICK c \in Nat : c = cursor
  BY DEF IInv, SetupType
<1>4. PICK f \in [0 .. CodesOf(q, p) + 1 -> Nat] : f = offsets[p]
  BY <1>1 DEF IInv, SetupType
<1>5. NCodes(pass) = CodesOf(q, p) /\ CodesOf(q, p) \in Nat
  BY <1>1, <1>2, ProblemShape DEF NCodes, Codes, CodesOf
<1>6. /\ phase = "blocks" /\ phase' = "blocks" /\ job' = q /\ pass' = p /\ offsets' = offsets
      /\ cursor' = c + 1 /\ c <= CodesOf(q, p)
  BY <1>1, <1>2, <1>3, <1>5 DEF WeighBlock
<1>7. /\ Summed(q, p, f) /\ c \in 1 .. CodesOf(q, p)
      /\ \A o \in DOMAIN q.x : o > p => \A d \in 0 .. CodesOf(q, o) + 1 : offsets[o][d] = 0
  BY <1>1, <1>2, <1>3, <1>4, <1>5, <1>6 DEF IInv, SortInv, SortedTo
<1>8. /\ DOMAIN offsets = DOMAIN q.x /\ bound \in Nat
      /\ \A o \in DOMAIN q.x : offsets[o] \in [0 .. CodesOf(q, o) + 1 -> Nat]
  BY <1>1 DEF IInv, SetupType
<1>9. PICK w \in {1, 2} : w = Weight(q) /\ w = (IF q.dedupe THEN 1 ELSE 2)
  BY DEF Weight
<1>10. PICK x \in Nat : x = Cardinality(XBlock(q, p, c)) /\ x = XCount(pass, cursor)
  <2>1. XCount(pass, cursor) = Cardinality(XBlock(q, p, c))
    BY <1>1, <1>2, <1>3 DEF XCount, XRows, XBlock
  <2>2. Cardinality(XBlock(q, p, c)) \in Nat
    BY <1>7, AddedCovered
  <2> QED BY <2>1, <2>2
<1>11. PICK width \in Nat :
         /\ width = f[MinOf(CodesOf(q, p), c + q.half) + 1] - f[MaxOf(1, c - q.half)]
         /\ Cardinality(Added(q, p, c)) <= x * width
  BY <1>7, <1>10, AddedCovered
<1>12. width = WindowTo(pass, cursor) - WindowFrom(pass, cursor)
  BY <1>1, <1>2, <1>3, <1>4, <1>5, <1>11 DEF WindowTo, WindowFrom
<1>13. PICK room \in Nat : room = x * width
  OBVIOUS
<1>14. PICK old \in Nat : old = Cardinality(Reach(q, p, c)) /\ w * old <= bound
  <2>1. Reach(q, p, c) \in SUBSET Pairs(q)
    BY DEF Reach
  <2>2. Cardinality(Reach(q, p, c)) \in Nat
    BY <2>1, PairsFinite
  <2>3. Weight(q) * Cardinality(Reach(q, p, c)) <= bound
    BY <1>1, <1>2, <1>3, <1>6 DEF IInv, BoundInv, Weighed
  <2> QED BY <1>9, <2>2, <2>3
<1>15. PICK fresh \in Nat : fresh = Cardinality(Added(q, p, c)) /\ fresh <= room
  <2>1. Added(q, p, c) \in SUBSET Pairs(q)
    BY DEF Added
  <2>2. Cardinality(Added(q, p, c)) \in Nat
    BY <2>1, PairsFinite
  <2> QED BY <1>11, <1>13, <2>2
<1>16. PICK now \in Nat : now = Cardinality(Reach(q, p, c + 1)) /\ now <= old + fresh
  <2>1. Reach(q, p, c + 1) = Reach(q, p, c) \cup Added(q, p, c)
    BY <1>7, ReachGrows
  <2>2. Reach(q, p, c) \in SUBSET Pairs(q) /\ Added(q, p, c) \in SUBSET Pairs(q)
    BY DEF Reach, Added
  <2>3. /\ IsFiniteSet(Reach(q, p, c)) /\ IsFiniteSet(Added(q, p, c))
        /\ Cardinality(Reach(q, p, c) \cap Added(q, p, c)) \in Nat
        /\ Cardinality(Reach(q, p, c) \cup Added(q, p, c)) \in Nat
    BY <2>2, PairsFinite
  <2>4. Cardinality(Reach(q, p, c) \cup Added(q, p, c))
          = old + fresh - Cardinality(Reach(q, p, c) \cap Added(q, p, c))
    BY <1>14, <1>15, <2>3, FS_Union
  <2>5. Cardinality(Reach(q, p, c + 1)) \in Nat
    BY <2>1, <2>3
  <2>6. PICK both \in Nat : both = Cardinality(Reach(q, p, c) \cap Added(q, p, c))
    BY <2>3
  <2>7. Cardinality(Reach(q, p, c + 1)) = old + fresh - both
    <3>1. Cardinality(Reach(q, p, c) \cup Added(q, p, c)) = old + fresh - both
      BY <2>4, <2>6
    <3> QED BY <2>1, <3>1
  <2> QED BY <2>5, <2>7
<1>17. bound' \in Nat /\ w * now <= bound'
  <2>1. CASE TooBig(pass, cursor)
    <3>1. bound' = bound
      BY <2>1 DEF WeighBlock
    <3>2. Added(q, p, c) = {}
      <4>1. /\ q.half = 0
            /\ (IF q.dedupe THEN f[c + 1] - f[c] ELSE x + (f[c + 1] - f[c])) > q.maxBlock
        BY <1>1, <1>2, <1>3, <1>4, <1>10, <2>1 DEF TooBig, BlockSize
      <4> QED BY <1>7, <1>10, <4>1, TooBigHasNone
    <3>3. Reach(q, p, c + 1) = Reach(q, p, c)
      <4>1. Reach(q, p, c + 1) = Reach(q, p, c) \cup Added(q, p, c)
        BY <1>7, ReachGrows
      <4> QED BY <3>2, <4>1
    <3> QED BY <1>8, <1>14, <1>16, <3>1, <3>3
  <2>2. CASE ~ TooBig(pass, cursor)
    <3>1. bound' = bound + XCount(pass, cursor)
                     * (WindowTo(pass, cursor) - WindowFrom(pass, cursor))
                     * (IF job.dedupe THEN 1 ELSE 2)
      BY <2>2 DEF WeighBlock
    <3>2. bound' = bound + room * w
      BY <1>1, <1>9, <1>10, <1>12, <1>13, <3>1
    <3>3. w * now <= bound + room * w
      BY <1>8, <1>14, <1>15, <1>16, Products
    <3> QED BY <1>8, <3>2, <3>3
  <2> QED BY <2>1, <2>2
<1>18. SetupType'
  BY <1>6, <1>8, <1>17 DEF SetupType, Preparing
<1>19. SortInv'
  <2>1. c + 1 \in 1 .. CodesOf(q, p) + 1
    BY <1>5, <1>7
  <2> QED BY <1>4, <1>6, <1>7, <2>1 DEF SortInv, SortedTo
<1>20. BoundInv'
  BY <1>6, <1>9, <1>16, <1>17 DEF BoundInv, Weighed
<1> QED BY <1>18, <1>19, <1>20 DEF IInv

(* Turning to the next pass keeps the invariant. *)
LEMMA PassKeeps ==
  ASSUME IInv, NextPass
  PROVE  IInv'
<1>1. PICK q \in Problems : q = job
  BY DEF IInv, SetupType
<1>2. PICK p \in DOMAIN q.x : p = pass
  BY <1>1 DEF IInv, SetupType
<1>3. PICK c \in Nat : c = cursor
  BY DEF IInv, SetupType
<1>4. NCodes(pass) = CodesOf(q, p) /\ CodesOf(q, p) \in Nat
  BY <1>1, <1>2, ProblemShape DEF NCodes, Codes, CodesOf
<1>5. /\ phase = "blocks" /\ job' = q /\ offsets' = offsets /\ bound' = bound
      /\ cursor' = 0 /\ c > CodesOf(q, p)
  BY <1>1, <1>2, <1>3, <1>4 DEF NextPass
<1>6. \A o \in DOMAIN q.x : o > p => \A d \in 0 .. CodesOf(q, o) + 1 : offsets[o][d] = 0
  BY <1>1, <1>2 DEF IInv, SortInv
<1>7. /\ DOMAIN offsets = DOMAIN q.x /\ bound \in Nat
      /\ \A o \in DOMAIN q.x : offsets[o] \in [0 .. CodesOf(q, o) + 1 -> Nat]
  BY <1>1 DEF IInv, SetupType
<1>8. DOMAIN q.x = 1 .. Len(q.x) /\ Len(q.x) \in Nat /\ q.ny \in Nat
  BY ProblemShape
<1>9. Weight(q) * Cardinality(Reach(q, p + 1, 1)) <= bound
  <2>1. Weight(q) * Cardinality(Reach(q, p, c)) <= bound
    BY <1>1, <1>2, <1>3, <1>5 DEF IInv, BoundInv, Weighed
  <2>2. Reach(q, p, c) = Reach(q, p + 1, 1)
    BY <1>4, <1>5, ReachPasses
  <2> QED BY <2>1, <2>2
<1>10. CASE pass < Len(job.x)
  <2>1. phase' = "count" /\ pass' = p + 1 /\ p + 1 \in DOMAIN q.x
    BY <1>1, <1>2, <1>8, <1>10 DEF NextPass
  <2>2. CountedTo(q, p + 1, offsets[p + 1], 0)
    <3>1. \A d \in 0 .. CodesOf(q, p + 1) + 1 : offsets[p + 1][d] = 0
      BY <1>6, <1>8, <2>1
    <3> QED BY <2>1, <3>1, CountStart
  <2>3. SetupType'
    BY <1>5, <1>7, <2>1 DEF SetupType, Preparing
  <2>4. SortInv'
    <3>1. \A o \in DOMAIN q.x : o > p + 1 => o > p
      BY <1>8
    <3>2. 0 \in 0 .. q.ny
      BY <1>8
    <3> QED BY <1>5, <1>6, <2>1, <2>2, <3>1, <3>2 DEF SortInv, SortedTo
  <2>5. BoundInv'
    BY <1>5, <1>9, <2>1 DEF BoundInv, Weighed, Preparing
  <2> QED BY <2>3, <2>4, <2>5 DEF IInv
<1>11. CASE ~ (pass < Len(job.x))
  <2>1. phase' = "check" /\ pass' = p /\ p + 1 = Len(q.x) + 1
    BY <1>1, <1>2, <1>8, <1>11 DEF NextPass
  <2>2. SetupType'
    BY <1>5, <1>7, <2>1 DEF SetupType, Later
  <2>3. SortInv'
    BY <1>5, <1>6, <2>1 DEF SortInv, SortedTo
  <2>4. BoundInv'
    BY <1>5, <1>9, <2>1 DEF BoundInv, Weighed, Preparing
  <2> QED BY <2>2, <2>3, <2>4 DEF IInv
<1> QED BY <1>10, <1>11

(* The other steps leave the preparation alone. *)
LEMMA RestKeeps ==
  ASSUME IInv, job' = job, pass' = pass, cursor' = cursor, offsets' = offsets, bound' = bound,
         phase' = phase \/ (phase \in Later /\ phase' \in Later)
  PROVE  IInv'
<1>1. PICK q \in Problems : q = job
  BY DEF IInv, SetupType
<1>2. SetupType'
  BY DEF IInv, SetupType
<1>3. SortInv'
  <2>1. SortedTo(job', phase', pass', cursor', offsets'[pass'])
    BY DEF IInv, SortInv, SortedTo, Later
  <2> QED BY <2>1 DEF IInv, SortInv
<1>4. BoundInv'
  <2>1. Weighed(job', phase', pass', cursor') = Weighed(job, phase, pass, cursor)
    BY DEF Weighed, Later, Preparing
  <2> QED BY <2>1 DEF IInv, BoundInv
<1> QED BY <1>2, <1>3, <1>4 DEF IInv

(* The preparation is sound in every reachable state: the offsets count    *)
(* the records below each code, and the bound has room for the pairs of    *)
(* all codes weighed.                                                      *)
THEOREM Invariance == Spec => []IInv
<1>1. ASSUME IInv, [Next]_vars PROVE IInv'
  <2>1. CASE CountRecord \/ AddUp \/ PlaceRecord \/ WeighBlock \/ NextPass
    BY <1>1, <2>1, CountKeeps, AddKeeps, PlaceKeeps, WeighKeeps, PassKeeps
  <2>2. CASE UNCHANGED <<job, setup_vars>> /\ phase' = phase
    <3>1. /\ job' = job /\ pass' = pass /\ cursor' = cursor /\ offsets' = offsets
          /\ bound' = bound /\ phase' = phase
      BY <2>2 DEF setup_vars
    <3> QED BY <1>1, <3>1, RestKeeps
  <2>3. CASE UNCHANGED <<job, setup_vars>> /\ phase \in Later /\ phase' \in Later
    <3>1. /\ job' = job /\ pass' = pass /\ cursor' = cursor /\ offsets' = offsets
          /\ bound' = bound /\ phase \in Later /\ phase' \in Later
      BY <2>3 DEF setup_vars
    <3> QED BY <1>1, <3>1, RestKeeps
  <2>4. CASE CheckBound \/ Dispatch \/ Gather
    BY <2>3, <2>4 DEF CheckBound, Dispatch, Gather, Later
  <2>5. CASE Halve \/ Joined \/ UNCHANGED vars
    BY <2>2, <2>5 DEF Halve, Joined, vars
  <2>6. ASSUME NEW t \in Threads, ThreadStep(t) PROVE IInv'
    BY <2>2, <2>6 DEF ThreadStep, TakeRange, ScanPass, EmitRow, ExactRow, EndChunk
  <2> QED BY <1>1, <2>1, <2>4, <2>5, <2>6 DEF Next, Caller, Setup
<1> QED BY InvInit, <1>1, PTL DEF Spec
-----------------------------------------------------------------------------
(* In a deduplication nearness is mutual, so that the pairs met from their *)
(* other end are as many again.                                            *)
LEMMA NearMutual ==
  ASSUME NEW q \in Problems, q.dedupe, NEW o \in DOMAIN q.x,
         NEW i \in 0 .. q.nx - 1, NEW j \in 0 .. q.ny - 1, NearIn(q, o, i, j)
  PROVE  /\ <<j, i>> \in Pairs(q) /\ NearIn(q, o, j, i)
<1>1. q.x = q.y /\ q.nx = q.ny
  BY PairsAssumption
<1>2. PICK c \in Nat, d \in Nat : c = q.x[o][i] /\ d = q.x[o][j]
  <2>1. q.x[o][i] \in 0 .. CodesOf(q, o) /\ q.x[o][j] \in 0 .. CodesOf(q, o) /\ CodesOf(q, o) \in Nat
    BY <1>1, ProblemShape
  <2> QED BY <2>1
<1>3. q.half \in Nat
  BY PairsAssumption
<1>4. Missing \notin {c, d} /\ Distance(c, d) <= q.half
  BY <1>1, <1>2 DEF NearIn
<1>5. Distance(d, c) = Distance(c, d)
  BY DEF Distance
<1>6. q.half = 0 => c = d
  BY <1>3, <1>4 DEF Distance
<1>7. NearIn(q, o, j, i)
  <2>1. q.half = 0 => Cardinality({k \in 0 .. q.ny - 1 : q.y[o][k] = d}) + 0 <= q.maxBlock
    BY <1>1, <1>2, <1>6 DEF NearIn
  <2> QED BY <1>1, <1>2, <1>4, <1>5, <2>1 DEF NearIn
<1> QED BY <1>1, <1>7 DEF Pairs

(* Every pair that is wanted is among the pairs of the weighed blocks; of a table with *)
(* itself, in both orders.                                                             *)
LEMMA WantedCovered ==
  ASSUME NEW q \in Problems, NEW want,
         want = {e \in Pairs(q) : /\ q.dedupe => e[1] < e[2]
                                  /\ \E o \in DOMAIN q.x : NearIn(q, o, e[1], e[2])}
  PROVE  2 * Cardinality(want) <= Weight(q) * Cardinality(Reach(q, Len(q.x) + 1, 1))
<1> DEFINE All == Reach(q, Len(q.x) + 1, 1)
<1>1. want \in SUBSET Pairs(q) /\ All \in SUBSET Pairs(q)
  BY DEF Reach
<1>2. \A o \in DOMAIN q.x : o < Len(q.x) + 1
  BY ProblemShape
<1>3. want \in SUBSET All
  BY <1>2 DEF Reach
<1>4. IsFiniteSet(want) /\ IsFiniteSet(All) /\ Cardinality(want) \in Nat /\ Cardinality(All) \in Nat
  BY <1>1, PairsFinite
<1>5. CASE ~ q.dedupe
  <2>1. Cardinality(want) <= Cardinality(All)
    BY <1>3, <1>4, FS_Subset
  <2>2. Weight(q) = 2
    BY <1>5 DEF Weight
  <2> QED BY <1>4, <2>1, <2>2
<1>6. CASE q.dedupe
  <2> DEFINE f == [e \in want |-> <<e[2], e[1]>>]
             mirror == {f[e] : e \in want}
  <2>1. \A e \in want : /\ e[1] \in 0 .. q.nx - 1 /\ e[2] \in 0 .. q.ny - 1 /\ e = <<e[1], e[2]>>
                        /\ e[1] < e[2]
    BY <1>6 DEF Pairs
  <2>2. mirror \in SUBSET All
    <3> SUFFICES ASSUME NEW e \in want PROVE <<e[2], e[1]>> \in All
      OBVIOUS
    <3>1. PICK o \in DOMAIN q.x : NearIn(q, o, e[1], e[2])
      OBVIOUS
    <3>2. <<e[2], e[1]>> \in Pairs(q) /\ NearIn(q, o, e[2], e[1])
      BY <1>6, <2>1, <3>1, NearMutual
    <3> QED BY <1>2, <3>2 DEF Reach
  <2>3. f \in Injection(want, mirror)
    <3>1. f \in [want -> mirror]
      OBVIOUS
    <3>2. \A d, e \in want : f[d] = f[e] => d = e
      BY <2>1
    <3> QED BY <3>1, <3>2 DEF Injection, IsInjective
  <2>4. mirror \in SUBSET Pairs(q)
    BY <1>1, <2>2
  <2>5. IsFiniteSet(mirror) /\ Cardinality(mirror) \in Nat
    BY <2>4, PairsFinite
  <2>6. Cardinality(want) <= Cardinality(mirror)
    BY <2>3, <2>5, FS_Injection
  <2>7. want \cap mirror = {}
    <3> SUFFICES ASSUME NEW e \in want, NEW d \in want, d = <<e[2], e[1]>> PROVE FALSE
      OBVIOUS
    <3>1. d[1] = e[2] /\ d[2] = e[1]
      OBVIOUS
    <3>2. e[1] < e[2] /\ e[2] < e[1] /\ e[1] \in 0 .. q.nx - 1 /\ e[2] \in 0 .. q.ny - 1
      BY <2>1, <3>1
    <3> QED BY <3>2
  <2> HIDE DEF mirror
  <2>8. Cardinality(want \cup mirror) = Cardinality(want) + Cardinality(mirror)
    <3>1. Cardinality(want \cup mirror)
            = Cardinality(want) + Cardinality(mirror) - Cardinality(want \cap mirror)
      BY <1>4, <2>5, FS_Union
    <3>2. Cardinality(want \cap mirror) = 0
      BY <2>7, FS_EmptySet
    <3> QED BY <1>4, <2>5, <3>1, <3>2
  <2>9. Cardinality(want \cup mirror) <= Cardinality(All)
    <3>1. want \cup mirror \in SUBSET All
      BY <1>3, <2>2
    <3> QED BY <1>4, <3>1, FS_Subset
  <2>10. Weight(q) = 1
    BY <1>6 DEF Weight
  <2> QED BY <1>4, <2>5, <2>6, <2>8, <2>9, <2>10
<1> QED BY <1>5, <1>6

(* Twice the pairs wanted is never more than the bound a call is refused   *)
(* by: a call let through has a result whose rows an int can number,       *)
(* whatever the keys, the window, the block maximum and the sides.         *)
THEOREM BoundCovered == Spec => []BoundCovers
<1>1. IInv => BoundCovers
  <2> SUFFICES ASSUME IInv, phase \in {"check", "dispatch", "pairs"}
               PROVE  2 * Cardinality(Wanted) <= bound
    BY DEF BoundCovers
  <2>1. PICK q \in Problems : q = job
    BY DEF IInv, SetupType
  <2>2. Weight(q) * Cardinality(Reach(q, Len(q.x) + 1, 1)) <= bound
    BY <2>1 DEF IInv, BoundInv, Weighed, Preparing
  <2>3. \A o, i, j : Near(o, i, j) <=> NearIn(q, o, i, j)
    BY <2>1 DEF Near, NearIn, BlockRecords, XCount, XRows, YRows, XBlock
  <2>4. Wanted = {e \in Pairs(q) : /\ q.dedupe => e[1] < e[2]
                                   /\ \E o \in DOMAIN q.x : NearIn(q, o, e[1], e[2])}
    BY <2>1, <2>3 DEF Wanted, Pairs, XRows, YRows, Passes
  <2>5. 2 * Cardinality(Wanted) <= Weight(q) * Cardinality(Reach(q, Len(q.x) + 1, 1))
    BY <2>4, WantedCovered
  <2>6. /\ Weight(q) * Cardinality(Reach(q, Len(q.x) + 1, 1)) \in Nat
        /\ 2 * Cardinality(Wanted) \in Nat /\ bound \in Nat
    <3>1. Wanted \in SUBSET Pairs(q) /\ Reach(q, Len(q.x) + 1, 1) \in SUBSET Pairs(q)
      BY <2>4 DEF Reach
    <3>2. /\ Cardinality(Wanted) \in Nat /\ Cardinality(Reach(q, Len(q.x) + 1, 1)) \in Nat
          /\ Weight(q) \in Nat
      BY <3>1, PairsFinite DEF Weight
    <3> QED BY <3>2 DEF IInv, SetupType
  <2> QED BY <2>2, <2>5, <2>6
<1> QED BY Invariance, <1>1, PTL
-----------------------------------------------------------------------------
(* What comes after the offsets: the y records in their blocks, the blocks *)
(* skipped, and what the threads find and list.                            *)

(* Places f[d] + 1 .. g[d] of s hold records of code d in their order, and *)
(* every one of the first m records that has a code is at such a place.    *)
InBlock(f, g, d, k) == f[d] < k /\ k <= g[d]
Filled(q, p, f, s, g, m) ==
  /\ s \in Seq(Int) /\ Len(s) = f[CodesOf(q, p) + 1]
  /\ \A d \in 1 .. CodesOf(q, p) : \A k \in 1 .. Len(s) :
       InBlock(f, g, d, k) => s[k] \in 0 .. m - 1 /\ q.y[p][s[k]] = d
  /\ \A d \in 1 .. CodesOf(q, p) : \A k, l \in 1 .. Len(s) :
       InBlock(f, g, d, k) /\ InBlock(f, g, d, l) /\ k < l => s[k] < s[l]
  /\ \A j \in 0 .. m - 1 :
       q.y[p][j] # Missing => \E k \in 1 .. Len(s) : InBlock(f, g, q.y[p][j], k) /\ s[k] = j
FillsTo(q, p, f, g, m) ==
  \A d \in 1 .. CodesOf(q, p) : g[d] = f[d] + YCount(q, p, m, d, d + 1)

Ends(q, p, f) == [d \in 1 .. CodesOf(q, p) |-> f[d + 1]]
Blocks(q, p, f, s) == Filled(q, p, f, s, Ends(q, p, f), q.ny)

(* Of the codes below n those whose block is over the maximum. *)
Over(q, p, n) ==
  {d \in 1 .. n - 1 :
     /\ q.half = 0
     /\ Cardinality({k \in 0 .. q.ny - 1 : q.y[p][k] = d})
          + (IF q.dedupe THEN 0 ELSE Cardinality(XBlock(q, p, d))) > q.maxBlock}

Table(q, p, f, s, over) ==
  /\ Summed(q, p, f)
  /\ Blocks(q, p, f, s)
  /\ over = Over(q, p, CodesOf(q, p) + 1)

TableInv ==
  /\ DOMAIN members = DOMAIN job.x /\ DOMAIN skipped = DOMAIN job.x
  /\ \A o \in DOMAIN job.x :
       /\ o < pass \/ phase \in Later => Table(job, o, offsets[o], members[o], skipped[o])
       /\ o > pass \/ (o = pass /\ phase \in {"count", "prefix", "place"}) => skipped[o] = {}
  /\ phase = "place" =>
       /\ fill \in [0 .. CodesOf(job, pass) + 1 -> Nat] /\ cursor \in 0 .. job.ny
       /\ FillsTo(job, pass, offsets[pass], fill, cursor)
       /\ Filled(job, pass, offsets[pass], members[pass], fill, cursor)
  /\ phase = "blocks" =>
       /\ Blocks(job, pass, offsets[pass], members[pass])
       /\ skipped[pass] = Over(job, pass, cursor)

(* A record's partner in pass o; a pair as the answer should have it.      *)
Partner(q, o, i, j) == (q.dedupe => i < j) /\ NearIn(q, o, i, j)
FirstIn(q, e) ==
  Partner(q, e[3], e[1], e[2]) /\ \A o \in 1 .. e[3] - 1 : ~ NearIn(q, o, e[1], e[2])
Ahead(d, e) == d[1] < e[1] \/ (d[1] = e[1] /\ d[2] < e[2])
Triples(q) == (0 .. q.nx - 1) \X (0 .. q.ny - 1) \X DOMAIN q.x

(* s is what the answer should have of the x records from a to before b.   *)
Listed(q, s, a, b) ==
  /\ s \in Seq(Triples(q))
  /\ \A k \in 1 .. Len(s) : a <= s[k][1] /\ s[k][1] < b /\ FirstIn(q, s[k])
  /\ \A k, l \in 1 .. Len(s) : k < l => Ahead(s[k], s[l])
  /\ \A i \in 0 .. q.nx - 1, j \in 0 .. q.ny - 1 :
       a <= i /\ i < b /\ (\E o \in DOMAIN q.x : Partner(q, o, i, j))
         => \E k \in 1 .. Len(s) : s[k][1] = i /\ s[k][2] = j

(* u is what the passes before n find for record i; asIs, in order.        *)
FoundIn(q, i, u, n, asIs) ==
  /\ u \in Seq((0 .. q.ny - 1) \X DOMAIN q.x)
  /\ \A k \in 1 .. Len(u) : u[k][2] < n /\ Partner(q, u[k][2], i, u[k][1])
  /\ \A o \in DOMAIN q.x, j \in 0 .. q.ny - 1 :
       o < n /\ Partner(q, o, i, j) => \E k \in 1 .. Len(u) : u[k] = <<j, o>>
  /\ asIs => \A k, l \in 1 .. Len(u) : k < l => u[k][1] < u[l][1]

RowsEnd(c) == LastRow(c) + 1
Working(t) == held[t] # Idle

ThreadInv(t) ==
  /\ row[t] # NoRow <=> Working(t)
  /\ Working(t) => row[t] \in FirstRow(held[t][1]) .. RowsEnd(held[t][1])
  /\ scan[t] \in 1 .. Len(job.x) + 1 /\ (SingleExact => scan[t] = 1)
  /\ scan[t] = 1 => found[t] = <<>> /\ ordered[t] = TRUE /\ givers[t] = 0
  /\ scan[t] # 1 => InChunk(t) /\ FoundIn(job, row[t], found[t], scan[t], ordered[t])
  /\ givers[t] \in Nat /\ ordered[t] \in BOOLEAN
  /\ givers[t] = 0 => found[t] = <<>>

(* A chunk's list is done with it, or as far as the thread that has it is. *)
On(t, c) == Working(t) /\ held[t][1] = c
ListInv(c) ==
  /\ c \in ran => Listed(job, lists[c], FirstRow(c), RowsEnd(c))
  /\ \A t \in Threads : On(t, c) => Listed(job, lists[c], FirstRow(c), row[t])
  /\ c \notin ran /\ (\A t \in Threads : ~ On(t, c)) => lists[c] = <<>>

CallInv ==
  /\ phase \in Preparing \cup {"check", "dispatch"} => stage = "idle"
  /\ stage # "idle" => size = NChunks /\ phase \in {"pairs", "done"}
  /\ phase # "done" => answer = [kind |-> "pending"]
  /\ phase = "done" /\ answer.kind = "pairs" => Listed(job, answer.pairs, 0, job.nx)

WorkInv ==
  /\ DOMAIN row = Threads /\ DOMAIN scan = Threads /\ DOMAIN found = Threads
  /\ DOMAIN ordered = Threads /\ DOMAIN givers = Threads
  /\ \A t \in Threads : ThreadInv(t)
  /\ DOMAIN lists = 0 .. NChunks - 1
  /\ \A c \in 0 .. NChunks - 1 : ListInv(c)

FullInv == TableInv /\ Sound /\ CallInv /\ WorkInv

-----------------------------------------------------------------------------
(* The offset of a code is that of an earlier one plus the records of the  *)
(* codes between.                                                          *)
LEMMA OffsetsRise ==
  ASSUME NEW q \in Problems, NEW p \in DOMAIN q.x, NEW f, Summed(q, p, f),
         NEW c \in 1 .. CodesOf(q, p) + 1, NEW d \in c .. CodesOf(q, p) + 1
  PROVE  /\ f[c] \in Nat /\ f[d] \in Nat /\ f[1] = 0
         /\ YCount(q, p, q.ny, c, d) \in Nat
         /\ f[d] = f[c] + YCount(q, p, q.ny, c, d)
<1>1. q.ny \in Nat /\ CodesOf(q, p) \in Nat
  BY ProblemShape
<1>2. /\ 1 \in 0 .. CodesOf(q, p) + 1 /\ c \in 0 .. CodesOf(q, p) + 1
      /\ d \in 0 .. CodesOf(q, p) + 1 /\ c \in Int /\ d \in Int /\ 1 <= c /\ c <= d
  BY <1>1
<1>3. /\ f[c] = YCount(q, p, q.ny, 1, c) /\ f[d] = YCount(q, p, q.ny, 1, d)
      /\ f[1] = YCount(q, p, q.ny, 1, 1)
  BY <1>2 DEF Summed
<1>4. YCount(q, p, q.ny, 1, d) = YCount(q, p, q.ny, 1, c) + YCount(q, p, q.ny, c, d)
  BY <1>2, RangeSplit
<1>5. YCount(q, p, q.ny, 1, 1) = 0
  BY <1>1, RangeEmpty
<1>6. /\ YCount(q, p, q.ny, 1, c) \in Nat /\ YCount(q, p, q.ny, 1, d) \in Nat
      /\ YCount(q, p, q.ny, c, d) \in Nat
  BY <1>1, RangeFinite
<1> QED BY <1>3, <1>4, <1>5, <1>6

(* Every place behind the first offset and up to the last is in a block. *)
LEMMA InSomeBlock ==
  ASSUME NEW q \in Problems, NEW p \in DOMAIN q.x, NEW f, Summed(q, p, f),
         NEW k \in Nat \ {0}, k <= f[CodesOf(q, p) + 1]
  PROVE  \E d \in 1 .. CodesOf(q, p) : f[d] < k /\ k <= f[d + 1]
<1>1. PICK n \in Nat : n = CodesOf(q, p)
  BY ProblemShape
<1>2. \A c \in 1 .. n + 1 : f[c] \in Nat
  BY <1>1, OffsetsRise
<1>3. f[1] = 0
  BY <1>1, OffsetsRise
<1>4. n # 0
  BY <1>1, <1>3
<1> DEFINE T == {d \in 0 .. n : d # 0 /\ f[d] < k}
<1>5. T \in SUBSET (0 .. n) /\ 1 \in T
  BY <1>3, <1>4
<1>6. PICK d \in T : \A e \in T : e <= d
  BY <1>5, GreatestNatural
<1>7. CASE d = n
  BY <1>1, <1>6, <1>7
<1>8. CASE d # n
  <2>1. d + 1 \in 0 .. n /\ d + 1 # 0 /\ ~ (d + 1 <= d)
    BY <1>8
  <2>2. ~ (f[d + 1] < k)
    BY <1>6, <2>1
  <2>3. f[d + 1] \in Nat
    BY <1>2, <2>1
  <2> QED BY <1>1, <2>1, <2>2, <2>3
<1> QED BY <1>7, <1>8

(* While records are placed no block is filled over its end. *)
LEMMA FillsWithin ==
  ASSUME NEW q \in Problems, NEW p \in DOMAIN q.x, NEW f, Summed(q, p, f),
         NEW g, NEW m \in 0 .. q.ny, FillsTo(q, p, f, g, m), NEW d \in 1 .. CodesOf(q, p)
  PROVE  g[d] \in Nat /\ f[d] \in Nat /\ f[d + 1] \in Nat /\ f[d] <= g[d] /\ g[d] <= f[d + 1]
<1>1. q.ny \in Nat /\ m \in Nat /\ m <= q.ny /\ CodesOf(q, p) \in Nat
  BY ProblemShape
<1>2. d \in 1 .. CodesOf(q, p) + 1 /\ d + 1 \in d .. CodesOf(q, p) + 1
  BY <1>1
<1>3. /\ f[d] \in Nat /\ f[d + 1] \in Nat
      /\ f[d + 1] = f[d] + YCount(q, p, q.ny, d, d + 1)
  BY <1>2, OffsetsRise
<1>4. g[d] = f[d] + YCount(q, p, m, d, d + 1)
  BY DEF FillsTo
<1>5. YRange(q, p, m, d, d + 1) \in SUBSET YRange(q, p, q.ny, d, d + 1)
  BY <1>1 DEF YRange
<1>6. IsFiniteSet(YRange(q, p, q.ny, d, d + 1)) /\ YCount(q, p, q.ny, d, d + 1) \in Nat
  BY <1>1, RangeFinite
<1>7. YCount(q, p, m, d, d + 1) \in Nat
  BY <1>1, RangeFinite
<1>8. YCount(q, p, m, d, d + 1) <= YCount(q, p, q.ny, d, d + 1)
  BY <1>5, <1>6, FS_Subset DEF YCount
<1> QED BY <1>3, <1>4, <1>6, <1>7, <1>8

(* Two blocks share no place. *)
LEMMA BlocksApart ==
  ASSUME NEW q \in Problems, NEW p \in DOMAIN q.x, NEW f, Summed(q, p, f),
         NEW c \in 1 .. CodesOf(q, p), NEW d \in 1 .. CodesOf(q, p), NEW k \in Int,
         f[c] < k, k <= f[c + 1], f[d] < k, k <= f[d + 1]
  PROVE  c = d
<1>1. CodesOf(q, p) \in Nat
  BY ProblemShape
<1>2. ASSUME NEW a \in 1 .. CodesOf(q, p), NEW b \in 1 .. CodesOf(q, p), a < b
      PROVE  f[a + 1] <= f[b] /\ f[a + 1] \in Nat /\ f[b] \in Nat
  <2>1. a + 1 \in 1 .. CodesOf(q, p) + 1 /\ b \in a + 1 .. CodesOf(q, p) + 1
    BY <1>1, <1>2
  <2>2. PICK n \in Nat : f[b] = f[a + 1] + n /\ f[a + 1] \in Nat /\ f[b] \in Nat
    BY <2>1, OffsetsRise
  <2> QED BY <2>2
<1>3. ~ (c < d)
  BY <1>2
<1>4. ~ (d < c)
  BY <1>2
<1> QED BY <1>1, <1>3, <1>4

(* Nothing is placed when the placing starts. *)
LEMMA PlaceStart ==
  ASSUME NEW q \in Problems, NEW p \in DOMAIN q.x, NEW f, Summed(q, p, f), NEW s,
         s = [k \in 1 .. f[CodesOf(q, p) + 1] |-> NoRow]
  PROVE  FillsTo(q, p, f, f, 0) /\ Filled(q, p, f, s, f, 0)
<1>1. CodesOf(q, p) \in Nat /\ q.ny \in Nat /\ 0 \in 0 .. q.ny
  BY ProblemShape
<1>2. \A c \in 1 .. CodesOf(q, p) + 1 : f[c] \in Nat
  BY <1>1, OffsetsRise
<1>3. PICK n \in Nat : n = f[CodesOf(q, p) + 1]
  BY <1>1, <1>2
<1>4. FillsTo(q, p, f, f, 0)
  <2>1. ASSUME NEW d \in 1 .. CodesOf(q, p) PROVE f[d] = f[d] + YCount(q, p, 0, d, d + 1)
    <3>1. YCount(q, p, 0, d, d + 1) = 0
      BY <1>1, RangeEmpty
    <3>2. f[d] \in Nat
      BY <1>1, <1>2
    <3> QED BY <3>1, <3>2
  <2> QED BY <2>1 DEF FillsTo
<1>5. s \in Seq(Int) /\ Len(s) = n
  BY <1>3 DEF NoRow
<1>6. \A d \in 1 .. CodesOf(q, p), k \in 1 .. Len(s) : ~ InBlock(f, f, d, k)
  <2> SUFFICES ASSUME NEW d \in 1 .. CodesOf(q, p), NEW k \in 1 .. Len(s), InBlock(f, f, d, k)
               PROVE  FALSE
    OBVIOUS
  <2>1. f[d] \in Nat /\ k \in Int
    BY <1>1, <1>2, <1>5
  <2> QED BY <2>1 DEF InBlock
<1>7. \A j \in 0 .. 0 - 1 : FALSE
  OBVIOUS
<1> QED BY <1>3, <1>4, <1>5, <1>6, <1>7 DEF Filled

(* A record without a code is not placed. *)
LEMMA PlaceSkips ==
  ASSUME NEW q \in Problems, NEW p \in DOMAIN q.x, NEW f, NEW s, NEW g,
         NEW m \in 0 .. q.ny - 1, q.y[p][m] = Missing,
         FillsTo(q, p, f, g, m), Filled(q, p, f, s, g, m)
  PROVE  FillsTo(q, p, f, g, m + 1) /\ Filled(q, p, f, s, g, m + 1)
<1>1. q.ny \in Nat /\ m \in Nat /\ CodesOf(q, p) \in Nat
  BY ProblemShape
<1>2. ASSUME NEW d \in 1 .. CodesOf(q, p)
      PROVE  YCount(q, p, m + 1, d, d + 1) = YCount(q, p, m, d, d + 1)
  <2>1. d \in Int /\ q.y[p][m] # d
    BY DEF Missing
  <2> QED BY <2>1, RangeNext
<1>3. FillsTo(q, p, f, g, m + 1)
  BY <1>2 DEF FillsTo
<1>4. \A j \in 0 .. m + 1 - 1 : j = m \/ j \in 0 .. m - 1
  BY <1>1
<1>5. \A j \in 0 .. m - 1 : j \in 0 .. m + 1 - 1
  BY <1>1
<1>6. Filled(q, p, f, s, g, m + 1)
  <2>1. s \in Seq(Int) /\ Len(s) = f[CodesOf(q, p) + 1]
    BY DEF Filled
  <2>2. ASSUME NEW d \in 1 .. CodesOf(q, p), NEW k \in 1 .. Len(s), InBlock(f, g, d, k)
        PROVE  s[k] \in 0 .. m + 1 - 1 /\ q.y[p][s[k]] = d
    BY <1>5, <2>2 DEF Filled
  <2>3. ASSUME NEW j \in 0 .. m + 1 - 1, q.y[p][j] # Missing
        PROVE  \E k \in 1 .. Len(s) : InBlock(f, g, q.y[p][j], k) /\ s[k] = j
    <3>1. j \in 0 .. m - 1
      BY <1>4, <2>3
    <3> QED BY <2>3, <3>1 DEF Filled
  <2>4. \A d \in 1 .. CodesOf(q, p) : \A k, l \in 1 .. Len(s) :
          InBlock(f, g, d, k) /\ InBlock(f, g, d, l) /\ k < l => s[k] < s[l]
    BY DEF Filled
  <2> QED BY <2>1, <2>2, <2>3, <2>4 DEF Filled
<1> QED BY <1>3, <1>6

(* The next place of a record's code is in its block. *)
LEMMA FreePlace ==
  ASSUME NEW q \in Problems, NEW p \in DOMAIN q.x, NEW f, Summed(q, p, f),
         NEW m \in 0 .. q.ny - 1, q.y[p][m] # Missing,
         NEW g, FillsTo(q, p, f, g, m)
  PROVE  LET c == q.y[p][m]
         IN  /\ c \in 1 .. CodesOf(q, p) /\ g[c] \in Nat /\ f[c] \in Nat /\ f[c + 1] \in Nat
             /\ f[CodesOf(q, p) + 1] \in Nat /\ f[c] < g[c] + 1 /\ g[c] + 1 <= f[c + 1]
             /\ g[c] + 1 <= f[CodesOf(q, p) + 1]
             /\ g[c] + 1 = f[c] + YCount(q, p, m + 1, c, c + 1)
<1>1. /\ q.ny \in Nat /\ m \in Nat /\ CodesOf(q, p) \in Nat /\ m + 1 \in 0 .. q.ny /\ m \in 0 .. q.ny
  BY ProblemShape
<1>2. PICK c \in 1 .. CodesOf(q, p) : c = q.y[p][m]
  <2>1. q.y[p][m] \in 0 .. CodesOf(q, p)
    BY ProblemShape
  <2> QED BY <1>1, <2>1 DEF Missing
<1>3. g[c] \in Nat /\ f[c] \in Nat /\ f[c + 1] \in Nat /\ f[c] <= g[c]
  BY <1>1, FillsWithin
<1>4. g[c] = f[c] + YCount(q, p, m, c, c + 1)
  BY DEF FillsTo
<1>5. /\ YCount(q, p, m + 1, c, c + 1) = YCount(q, p, m, c, c + 1) + 1
      /\ YCount(q, p, m, c, c + 1) \in Nat
  BY <1>1, <1>2, RangeNext, RangeFinite
<1>6. YCount(q, p, m + 1, c, c + 1) <= YCount(q, p, q.ny, c, c + 1)
  <2>1. YRange(q, p, m + 1, c, c + 1) \in SUBSET YRange(q, p, q.ny, c, c + 1)
    BY <1>1 DEF YRange
  <2>2. IsFiniteSet(YRange(q, p, q.ny, c, c + 1))
    BY <1>1, RangeFinite
  <2> QED BY <2>1, <2>2, FS_Subset DEF YCount
<1>7. PICK r \in Nat : f[c + 1] = f[c] + r /\ r = YCount(q, p, q.ny, c, c + 1)
  <2>1. c \in 1 .. CodesOf(q, p) + 1 /\ c + 1 \in c .. CodesOf(q, p) + 1
    BY <1>1
  <2> QED BY <2>1, OffsetsRise
<1>8. PICK z \in Nat : f[CodesOf(q, p) + 1] = f[c + 1] + z
  <2>1. c + 1 \in 1 .. CodesOf(q, p) + 1 /\ CodesOf(q, p) + 1 \in c + 1 .. CodesOf(q, p) + 1
    BY <1>1
  <2> QED BY <2>1, OffsetsRise
<1>9. /\ g[c] + 1 = f[c] + YCount(q, p, m + 1, c, c + 1) /\ f[c] < g[c] + 1 /\ g[c] + 1 <= f[c + 1]
  BY <1>3, <1>4, <1>5, <1>6, <1>7
<1>10. f[CodesOf(q, p) + 1] \in Nat /\ g[c] + 1 <= f[CodesOf(q, p) + 1]
  BY <1>3, <1>8, <1>9
<1> QED BY <1>2, <1>3, <1>9, <1>10

(* h is g with one more record of code c; t is s with e at place n.        *)
OneMore(q, p, g, c, h) ==
  \A d \in 1 .. CodesOf(q, p) : h[d] = IF d = c THEN g[c] + 1 ELSE g[d]
PutAt(s, n, e, t) ==
  t \in Seq(Int) /\ Len(t) = Len(s) /\ \A k \in 1 .. Len(s) : t[k] = IF k = n THEN e ELSE s[k]

(* A record with a code goes behind those of its code, where nothing is. *)
LEMMA PlaceStep ==
  ASSUME NEW q \in Problems, NEW p \in DOMAIN q.x, NEW f, Summed(q, p, f), NEW s, NEW g,
         NEW m \in 0 .. q.ny - 1, NEW c, c = q.y[p][m], c # Missing,
         FillsTo(q, p, f, g, m), Filled(q, p, f, s, g, m),
         NEW h, OneMore(q, p, g, c, h), NEW t, PutAt(s, g[c] + 1, m, t)
  PROVE  FillsTo(q, p, f, h, m + 1) /\ Filled(q, p, f, t, h, m + 1)
<1>1. /\ q.ny \in Nat /\ m \in Nat /\ CodesOf(q, p) \in Nat
      /\ c \in 1 .. CodesOf(q, p)
  BY ProblemShape, FreePlace
<1>2. PICK n \in Nat : n = g[c]
  BY FreePlace
<1>3. PICK z \in Nat : z = Len(s) /\ z = f[CodesOf(q, p) + 1]
  BY FreePlace DEF Filled
<1>4. \A d \in 1 .. CodesOf(q, p) : h[d] = IF d = c THEN n + 1 ELSE g[d]
  BY <1>2 DEF OneMore
<1>5. FillsTo(q, p, f, h, m + 1)
  <2> SUFFICES ASSUME NEW d \in 1 .. CodesOf(q, p)
               PROVE  h[d] = f[d] + YCount(q, p, m + 1, d, d + 1)
    BY DEF FillsTo
  <2>1. CASE d = c
    <3>1. g[c] + 1 = f[c] + YCount(q, p, m + 1, c, c + 1)
      BY FreePlace
    <3> QED BY <2>1, <3>1 DEF OneMore
  <2>2. CASE d # c
    <3>1. YCount(q, p, m + 1, d, d + 1) = YCount(q, p, m, d, d + 1)
      <4>1. d \in Int /\ q.y[p][m] # d
        BY <2>2
      <4> QED BY <4>1, RangeNext
    <3> QED BY <1>4, <2>2, <3>1 DEF FillsTo
  <2> QED BY <2>1, <2>2
<1>6. \A d \in 1 .. CodesOf(q, p) :
        /\ f[d] \in Nat /\ f[d + 1] \in Nat /\ f[d] <= g[d] /\ g[d] \in Nat
        /\ h[d] <= f[d + 1] /\ g[d] <= f[d + 1]
  <2>1. m + 1 \in 0 .. q.ny /\ m \in 0 .. q.ny
    BY <1>1
  <2> QED BY <1>5, <2>1, FillsWithin
<1>7. f[c] < n + 1 /\ n + 1 <= f[c + 1] /\ n + 1 \in 1 .. z /\ h[c] = n + 1
  <2>1. f[c] < g[c] + 1 /\ g[c] + 1 <= f[c + 1] /\ g[c] + 1 <= f[CodesOf(q, p) + 1]
    BY FreePlace
  <2>2. f[c] < n + 1 /\ n + 1 <= f[c + 1] /\ n + 1 <= z
    BY <1>2, <1>3, <2>1
  <2>3. h[c] = n + 1
    BY <1>1, <1>4
  <2> QED BY <2>2, <2>3
<1>8. /\ t \in Seq(Int) /\ Len(t) = z
      /\ \A k \in 1 .. z : t[k] = IF k = n + 1 THEN m ELSE s[k]
  BY <1>2, <1>3 DEF PutAt
<1>9. ASSUME NEW d \in 1 .. CodesOf(q, p), d # c, f[d] < n + 1, n + 1 <= f[d + 1]
      PROVE  FALSE
  <2>1. n + 1 \in Int
    OBVIOUS
  <2> QED BY <1>1, <1>7, <1>9, <2>1, BlocksApart
<1>10. ASSUME NEW d \in 1 .. CodesOf(q, p), NEW k \in 1 .. z, InBlock(f, h, d, k)
       PROVE  \/ d = c /\ k = n + 1
              \/ k # n + 1 /\ InBlock(f, g, d, k)
  <2>1. k \in Int /\ f[d] < k /\ k <= h[d] /\ k <= f[d + 1]
    <3>1. k \in Int /\ f[d] < k /\ k <= h[d]
      BY <1>10 DEF InBlock
    <3>2. h[d] <= f[d + 1] /\ f[d + 1] \in Nat /\ h[d] \in Int
      BY <1>4, <1>6
    <3> QED BY <3>1, <3>2
  <2>2. CASE d = c
    <3>1. k <= n + 1
      BY <1>7, <2>1, <2>2
    <3> QED BY <1>2, <2>1, <2>2, <3>1 DEF InBlock
  <2>3. CASE d # c
    <3>1. k # n + 1
      BY <1>9, <2>1, <2>3
    <3> QED BY <1>4, <2>1, <2>3, <3>1 DEF InBlock
  <2> QED BY <2>2, <2>3
<1>11. ASSUME NEW d \in 1 .. CodesOf(q, p), NEW k \in 1 .. z, InBlock(f, g, d, k)
       PROVE  k # n + 1 /\ InBlock(f, h, d, k)
  <2>1. k \in Int /\ f[d] < k /\ k <= g[d] /\ k <= f[d + 1]
    <3>1. k \in Int /\ f[d] < k /\ k <= g[d]
      BY <1>11 DEF InBlock
    <3>2. g[d] <= f[d + 1] /\ f[d + 1] \in Nat /\ g[d] \in Int
      BY <1>6
    <3> QED BY <3>1, <3>2
  <2>2. CASE d = c
    BY <1>2, <1>7, <2>1, <2>2 DEF InBlock
  <2>3. CASE d # c
    <3>1. k # n + 1
      BY <1>9, <2>1, <2>3
    <3> QED BY <1>4, <2>1, <2>3, <3>1 DEF InBlock
  <2> QED BY <2>2, <2>3
<1>12. ASSUME NEW d \in 1 .. CodesOf(q, p), NEW k \in 1 .. z, InBlock(f, h, d, k)
       PROVE  t[k] \in 0 .. m + 1 - 1 /\ q.y[p][t[k]] = d
  <2>1. CASE k = n + 1
    <3>1. d = c /\ t[k] = m
      BY <1>8, <1>10, <1>12, <2>1
    <3>2. m \in 0 .. m + 1 - 1
      BY <1>1
    <3> QED BY <3>1, <3>2
  <2>2. CASE k # n + 1
    <3>1. s[k] \in 0 .. m - 1 /\ q.y[p][s[k]] = d
      BY <1>3, <1>10, <1>12, <2>2 DEF Filled
    <3>2. s[k] \in 0 .. m + 1 - 1
      BY <1>1, <3>1
    <3> QED BY <1>8, <2>2, <3>1, <3>2
  <2> QED BY <2>1, <2>2
<1>13. ASSUME NEW d \in 1 .. CodesOf(q, p), NEW k \in 1 .. z, NEW l \in 1 .. z,
              InBlock(f, h, d, k), InBlock(f, h, d, l), k < l
       PROVE  t[k] < t[l]
  <2>1. k # n + 1
    <3> SUFFICES ASSUME k = n + 1 PROVE FALSE
      OBVIOUS
    <3>1. d = c
      BY <1>10, <1>13 DEF InBlock
    <3>2. l <= n + 1
      BY <1>4, <1>13, <3>1 DEF InBlock
    <3> QED BY <1>13, <3>2
  <2>2. InBlock(f, g, d, k) /\ s[k] \in 0 .. m - 1 /\ t[k] = s[k]
    <3>1. InBlock(f, g, d, k)
      BY <1>10, <1>13, <2>1
    <3> QED BY <1>3, <1>8, <2>1, <3>1 DEF Filled
  <2>3. CASE l = n + 1
    BY <1>1, <1>8, <2>2, <2>3
  <2>4. CASE l # n + 1
    <3>1. InBlock(f, g, d, l) /\ t[l] = s[l]
      BY <1>8, <1>10, <1>13, <2>4
    <3>2. s[k] < s[l]
      BY <1>3, <1>13, <2>2, <3>1 DEF Filled
    <3> QED BY <2>2, <3>1, <3>2
  <2> QED BY <2>3, <2>4
<1>14. ASSUME NEW j \in 0 .. m + 1 - 1, q.y[p][j] # Missing
       PROVE  \E k \in 1 .. z : InBlock(f, h, q.y[p][j], k) /\ t[k] = j
  <2>1. CASE j = m
    <3>1. InBlock(f, h, c, n + 1)
      BY <1>7 DEF InBlock
    <3> QED BY <1>7, <1>8, <2>1, <3>1
  <2>2. CASE j # m
    <3>1. j \in 0 .. m - 1 /\ j \in 0 .. q.ny - 1
      BY <1>1, <2>2
    <3>2. PICK k \in 1 .. z : InBlock(f, g, q.y[p][j], k) /\ s[k] = j
      BY <1>3, <1>14, <3>1 DEF Filled
    <3>3. q.y[p][j] \in 1 .. CodesOf(q, p)
      <4>1. q.y[p][j] \in 0 .. CodesOf(q, p)
        BY <3>1, ProblemShape
      <4> QED BY <1>1, <1>14, <4>1 DEF Missing
    <3>4. k # n + 1 /\ InBlock(f, h, q.y[p][j], k)
      BY <1>11, <3>2, <3>3
    <3> QED BY <1>8, <3>2, <3>4
  <2> QED BY <2>1, <2>2
<1>15. Filled(q, p, f, t, h, m + 1)
  BY <1>3, <1>8, <1>12, <1>13, <1>14 DEF Filled
<1> QED BY <1>5, <1>15

(* When every record is placed the blocks are full. *)
LEMMA PlaceEnd ==
  ASSUME NEW q \in Problems, NEW p \in DOMAIN q.x, NEW f, Summed(q, p, f), NEW s, NEW g,
         FillsTo(q, p, f, g, q.ny), Filled(q, p, f, s, g, q.ny)
  PROVE  Blocks(q, p, f, s)
<1>1. q.ny \in Nat /\ CodesOf(q, p) \in Nat
  BY ProblemShape
<1>2. ASSUME NEW d \in 1 .. CodesOf(q, p) PROVE g[d] = Ends(q, p, f)[d]
  <2>1. d \in 1 .. CodesOf(q, p) + 1 /\ d + 1 \in d .. CodesOf(q, p) + 1
    BY <1>1
  <2>2. f[d + 1] = f[d] + YCount(q, p, q.ny, d, d + 1)
    BY <2>1, OffsetsRise
  <2> QED BY <2>2 DEF FillsTo, Ends
<1>3. \A d \in 1 .. CodesOf(q, p) : \A k : InBlock(f, g, d, k) <=> InBlock(f, Ends(q, p, f), d, k)
  BY <1>2 DEF InBlock
<1>4. ASSUME NEW j \in 0 .. q.ny - 1, q.y[p][j] # Missing
      PROVE  q.y[p][j] \in 1 .. CodesOf(q, p)
  <2>1. q.y[p][j] \in 0 .. CodesOf(q, p)
    BY ProblemShape
  <2> QED BY <1>1, <1>4, <2>1 DEF Missing
<1> QED BY <1>3, <1>4 DEF Filled, Blocks

(* Weighing a code decides whether its block is over the maximum. *)
LEMMA OverStep ==
  ASSUME NEW q \in Problems, NEW p \in DOMAIN q.x, NEW f, Summed(q, p, f),
         NEW c \in 1 .. CodesOf(q, p)
  PROVE  Over(q, p, c + 1)
           = IF /\ q.half = 0
                /\ (IF q.dedupe THEN f[c + 1] - f[c]
                    ELSE Cardinality(XBlock(q, p, c)) + (f[c + 1] - f[c])) > q.maxBlock
               THEN Over(q, p, c) \cup {c} ELSE Over(q, p, c)
<1>1. /\ q.ny \in Nat /\ q.maxBlock \in Nat /\ CodesOf(q, p) \in Nat
      /\ \A j \in 0 .. q.ny - 1 : q.y[p][j] \in Int
  BY ProblemShape
<1>2. c \in 1 .. CodesOf(q, p) + 1 /\ c + 1 \in c .. CodesOf(q, p) + 1
  BY <1>1
<1>3. PICK n \in Nat : n = YCount(q, p, q.ny, c, c + 1) /\ f[c + 1] - f[c] = n
  BY <1>2, OffsetsRise
<1>4. {k \in 0 .. q.ny - 1 : q.y[p][k] = c} = YRange(q, p, q.ny, c, c + 1)
  BY <1>1 DEF YRange
<1>5. PICK x \in Nat : x = Cardinality(XBlock(q, p, c))
  BY AddedCovered
<1>6. n = Cardinality({k \in 0 .. q.ny - 1 : q.y[p][k] = c})
  BY <1>3, <1>4 DEF YCount
<1>7. c \in Nat /\ \A d : d \in 1 .. (c + 1 - 1) <=> d \in 1 .. (c - 1) \/ d = c
  BY <1>1
<1> DEFINE Big(d) ==
             /\ q.half = 0
             /\ Cardinality({k \in 0 .. q.ny - 1 : q.y[p][k] = d})
                  + (IF q.dedupe THEN 0 ELSE Cardinality(XBlock(q, p, d))) > q.maxBlock
<1>8. \A d : d \in Over(q, p, c + 1)
               <=> \/ d \in Over(q, p, c)
                   \/ d = c /\ q.half = 0 /\ n + (IF q.dedupe THEN 0 ELSE x) > q.maxBlock
  <2>1. \A e, d : d \in Over(q, p, e) <=> d \in 1 .. e - 1 /\ Big(d)
    BY DEF Over
  <2>2. Big(c) <=> q.half = 0 /\ n + (IF q.dedupe THEN 0 ELSE x) > q.maxBlock
    BY <1>5, <1>6
  <2> HIDE DEF Big
  <2> QED BY <1>7, <2>1, <2>2
<1>9. n + (IF q.dedupe THEN 0 ELSE x) = IF q.dedupe THEN n ELSE x + n
  OBVIOUS
<1> QED BY <1>3, <1>5, <1>8, <1>9

(* No code is below the first. *)
LEMMA OverNothing ==
  ASSUME NEW q, NEW p
  PROVE  Over(q, p, 1) = {}
<1>1. \A d \in 1 .. 1 - 1 : FALSE
  OBVIOUS
<1> QED BY <1>1 DEF Over

(* Before the first pass there is no table. *)
LEMMA TableInit ==
  ASSUME Init
  PROVE  TableInv
<1>1. /\ phase = "count" /\ pass = 1
      /\ members = [p \in DOMAIN job.x |-> <<>>] /\ skipped = [p \in DOMAIN job.x |-> {}]
  BY DEF Init, Passes
<1>2. IInv
  BY InvInit
<1>3. \A o \in DOMAIN job.x : ~ (o < 1)
  <2>1. PICK q \in Problems : q = job
    BY <1>2 DEF IInv, SetupType
  <2>2. \A o \in DOMAIN q.x : o \in 1 .. Len(q.x)
    BY ProblemShape
  <2> QED BY <2>1, <2>2
<1> QED BY <1>1, <1>3 DEF TableInv, Later

(* Counting and adding up touch the offsets of the pass at hand alone. *)
LEMMA TableCounts ==
  ASSUME IInv, TableInv, CountRecord \/ AddUp
  PROVE  TableInv'
<1>1. IInv'
  BY CountKeeps, AddKeeps
<1>2. PICK q \in Problems : q = job
  BY DEF IInv, SetupType
<1>3. PICK p \in DOMAIN q.x : p = pass
  BY <1>2 DEF IInv, SetupType
<1>4. /\ DOMAIN offsets = DOMAIN q.x /\ DOMAIN members = DOMAIN q.x /\ DOMAIN skipped = DOMAIN q.x
      /\ phase \in {"count", "prefix"} /\ phase' \in {"count", "prefix", "place"}
      /\ job' = q /\ pass' = p /\ skipped' = skipped
  BY <1>2, <1>3 DEF IInv, SetupType, TableInv, CountRecord, AddUp
<1>5. CodesOf(q, p) \in Nat /\ CodesOf(q, p) = NCodes(pass) /\ q.ny \in Nat
      /\ \A o \in DOMAIN q.x : o \in Int
  BY <1>2, <1>3, ProblemShape DEF NCodes, Codes, CodesOf
<1>6. \A o \in DOMAIN q.x :
        /\ o < p => Table(q, o, offsets[o], members[o], skipped[o])
        /\ o > p \/ o = p => skipped[o] = {}
  BY <1>2, <1>3, <1>4 DEF TableInv
<1>7. \A o \in DOMAIN q.x : o # p => offsets'[o] = offsets[o]
  <2>1. CASE CountRecord
    BY <1>2, <1>3, <1>4, <2>1 DEF CountRecord
  <2>2. CASE AddUp
    BY <1>2, <1>3, <1>4, <2>2 DEF AddUp
  <2> QED BY <2>1, <2>2
<1>8. /\ DOMAIN members' = DOMAIN q.x /\ \A o \in DOMAIN q.x : o # p => members'[o] = members[o]
      /\ phase' = "place" =>
           /\ fill' \in [0 .. CodesOf(q, p) + 1 -> Nat] /\ cursor' \in 0 .. q.ny
           /\ FillsTo(q, p, offsets'[p], fill', cursor')
           /\ Filled(q, p, offsets'[p], members'[p], fill', cursor')
  <2>1. CASE phase' # "place"
    BY <1>4, <2>1 DEF CountRecord, AddUp
  <2>2. CASE phase' = "place"
    <3>1. /\ cursor' = 0 /\ fill' = offsets[p] /\ offsets' = offsets
          /\ members' = [members EXCEPT ![p] = [k \in 1 .. offsets[p][CodesOf(q, p) + 1] |-> NoRow]]
      BY <1>2, <1>3, <1>4, <1>5, <2>2 DEF AddUp, CountRecord
    <3>2. Summed(q, p, offsets[p]) /\ offsets[p] \in [0 .. CodesOf(q, p) + 1 -> Nat]
      BY <1>1, <1>4, <2>2, <3>1 DEF IInv, SortInv, SortedTo, SetupType
    <3>3. members'[p] = [k \in 1 .. offsets[p][CodesOf(q, p) + 1] |-> NoRow]
      BY <1>4, <3>1
    <3>4. /\ FillsTo(q, p, offsets[p], offsets[p], 0)
          /\ Filled(q, p, offsets[p], members'[p], offsets[p], 0)
      BY <3>2, <3>3, PlaceStart
    <3>5. 0 \in 0 .. q.ny
      BY <1>5
    <3> QED BY <1>4, <3>1, <3>2, <3>4, <3>5
  <2> QED BY <2>1, <2>2
<1>9. \A o \in DOMAIN q.x : (o < p \/ o > p => o # p) /\ o \in Int /\ (o < p \/ phase' \in Later => o < p)
  BY <1>4, <1>5 DEF Later
<1>10. ASSUME NEW o \in DOMAIN q.x, o < p
      PROVE  Table(q, o, offsets'[o], members'[o], skipped'[o])
  BY <1>4, <1>6, <1>7, <1>8, <1>9, <1>10
<1> QED BY <1>4, <1>6, <1>8, <1>9, <1>10 DEF TableInv

(* Placing a record keeps the blocks filled; after the last they are full. *)
LEMMA TablePlaces ==
  ASSUME IInv, TableInv, PlaceRecord
  PROVE  TableInv'
<1>1. PICK q \in Problems : q = job
  BY DEF IInv, SetupType
<1>2. PICK p \in DOMAIN q.x : p = pass
  BY <1>1 DEF IInv, SetupType
<1>3. /\ phase = "place" /\ job' = q /\ pass' = p /\ offsets' = offsets /\ skipped' = skipped
      /\ DOMAIN members = DOMAIN q.x /\ DOMAIN skipped = DOMAIN q.x
  BY <1>1, <1>2 DEF TableInv, PlaceRecord
<1>4. /\ CodesOf(q, p) \in Nat /\ q.ny \in Nat
      /\ \A o \in DOMAIN q.x : o \in Int
  BY ProblemShape
<1>5. PICK f : f = offsets[p] /\ Summed(q, p, f)
  BY <1>1, <1>2, <1>3 DEF IInv, SortInv, SortedTo
<1>6. PICK s : s = members[p]
  OBVIOUS
<1>7. PICK m \in 0 .. q.ny, g \in [0 .. CodesOf(q, p) + 1 -> Nat] :
        /\ m = cursor /\ g = fill /\ s = members[p]
        /\ FillsTo(q, p, f, g, m) /\ Filled(q, p, f, s, g, m)
  BY <1>1, <1>2, <1>3, <1>5, <1>6 DEF TableInv
<1>8. \A o \in DOMAIN q.x :
        /\ o < p => Table(q, o, offsets[o], members[o], skipped[o])
        /\ o > p \/ o = p => skipped[o] = {}
  BY <1>1, <1>2, <1>3 DEF TableInv
<1>9. \A o \in DOMAIN q.x : (o < p \/ o > p => o # p)
  BY <1>4
<1>10. CASE m < q.ny
  <2>1. phase' = "place" /\ cursor' = m + 1 /\ m \in 0 .. q.ny - 1 /\ m + 1 \in 0 .. q.ny
    BY <1>1, <1>3, <1>4, <1>7, <1>10 DEF PlaceRecord
  <2>2. PICK c : c = q.y[p][m]
    OBVIOUS
  <2>3. /\ DOMAIN members' = DOMAIN q.x /\ \A o \in DOMAIN q.x : o # p => members'[o] = members[o]
        /\ fill' \in [0 .. CodesOf(q, p) + 1 -> Nat]
        /\ FillsTo(q, p, f, fill', m + 1)
        /\ Filled(q, p, f, members'[p], fill', m + 1)
    <3>1. CASE c = Missing
      <4>1. members' = members /\ fill' = fill
        BY <1>1, <1>2, <1>3, <1>7, <1>10, <2>2, <3>1 DEF PlaceRecord
      <4>2. FillsTo(q, p, f, g, m + 1) /\ Filled(q, p, f, s, g, m + 1)
        BY <1>7, <2>1, <2>2, <3>1, PlaceSkips
      <4> QED BY <1>3, <1>7, <4>1, <4>2
    <3>2. CASE c # Missing
      <4>1. /\ members' = [members EXCEPT ![p][g[c] + 1] = m]
            /\ fill' = [g EXCEPT ![c] = @ + 1]
        BY <1>1, <1>2, <1>3, <1>7, <1>10, <2>2, <3>2 DEF PlaceRecord
      <4>2. PICK t : t = [s EXCEPT ![g[c] + 1] = m]
        OBVIOUS
      <4>3. members' = [members EXCEPT ![p] = t]
        BY <1>7, <4>1, <4>2
      <4>4. members'[p] = t /\ DOMAIN members' = DOMAIN q.x
            /\ \A o \in DOMAIN q.x : o # p => members'[o] = members[o]
        BY <1>3, <4>3
      <4>5. /\ c \in 1 .. CodesOf(q, p) /\ g[c] \in Nat
            /\ f[CodesOf(q, p) + 1] \in Nat /\ g[c] + 1 <= f[CodesOf(q, p) + 1]
        BY <1>5, <1>7, <2>1, <2>2, <3>2, FreePlace
      <4>6. s \in Seq(Int) /\ g[c] + 1 \in 1 .. Len(s) /\ m \in Int
        BY <1>7, <4>5 DEF Filled
      <4>7. t \in Seq(Int) /\ Len(t) = Len(s) /\ \A k \in 1 .. Len(s) : t[k] = IF k = g[c] + 1 THEN m ELSE s[k]
        BY <4>2, <4>6, ExceptSeq
      <4>8. PICK h : h = fill'
        OBVIOUS
      <4>9. /\ h \in [0 .. CodesOf(q, p) + 1 -> Nat]
            /\ \A d \in 1 .. CodesOf(q, p) : h[d] = IF d = c THEN g[c] + 1 ELSE g[d]
        BY <1>4, <4>1, <4>5, <4>8
      <4>10. FillsTo(q, p, f, h, m + 1) /\ Filled(q, p, f, t, h, m + 1)
        <5>1. OneMore(q, p, g, c, h) /\ PutAt(s, g[c] + 1, m, t)
          BY <4>7, <4>9 DEF OneMore, PutAt
        <5> QED BY <1>5, <1>7, <2>1, <2>2, <3>2, <5>1, PlaceStep
      <4> QED BY <4>4, <4>8, <4>9, <4>10
    <3> QED BY <3>1, <3>2
  <2>4. ASSUME NEW o \in DOMAIN q.x, o < p
        PROVE  Table(q, o, offsets'[o], members'[o], skipped'[o])
    BY <1>3, <1>8, <1>9, <2>3, <2>4
  <2>5. phase' \notin Later /\ phase' # "blocks"
    BY <2>1 DEF Later
  <2> QED BY <1>3, <1>5, <1>8, <2>1, <2>3, <2>4, <2>5 DEF TableInv
<1>11. CASE ~ (m < q.ny)
  <2>1. phase' = "blocks" /\ cursor' = 1 /\ m = q.ny /\ members' = members
    BY <1>1, <1>3, <1>4, <1>7, <1>11 DEF PlaceRecord
  <2>2. Blocks(q, p, f, s)
    BY <1>5, <1>7, <2>1, PlaceEnd
  <2>3. Over(q, p, 1) = {}
    BY OverNothing
  <2>4. phase' \notin Later /\ phase' \notin {"count", "prefix", "place"}
    BY <2>1 DEF Later
  <2> QED BY <1>3, <1>5, <1>7, <1>8, <2>1, <2>2, <2>3, <2>4 DEF TableInv
<1> QED BY <1>10, <1>11

(* Weighing a code skips its block when it is over the maximum. *)
LEMMA TableWeighs ==
  ASSUME IInv, TableInv, WeighBlock
  PROVE  TableInv'
<1>1. PICK q \in Problems : q = job
  BY DEF IInv, SetupType
<1>2. PICK p \in DOMAIN q.x : p = pass
  BY <1>1 DEF IInv, SetupType
<1>3. /\ phase = "blocks" /\ phase' = "blocks" /\ job' = q /\ pass' = p /\ offsets' = offsets
      /\ members' = members
      /\ DOMAIN members = DOMAIN q.x /\ DOMAIN skipped = DOMAIN q.x
  BY <1>1, <1>2 DEF TableInv, WeighBlock
<1>4. /\ CodesOf(q, p) \in Nat /\ CodesOf(q, p) = NCodes(pass)
      /\ \A o \in DOMAIN q.x : o \in Int
  BY <1>1, <1>2, ProblemShape DEF NCodes, Codes, CodesOf
<1>5. PICK f : f = offsets[p] /\ Summed(q, p, f)
  BY <1>1, <1>2, <1>3 DEF IInv, SortInv, SortedTo
<1>6. PICK c \in 1 .. CodesOf(q, p) : c = cursor /\ cursor' = c + 1
  BY <1>1, <1>2, <1>3, <1>4 DEF WeighBlock, IInv, SortInv, SortedTo
<1>7. /\ Blocks(q, p, f, members[p]) /\ skipped[p] = Over(q, p, c)
      /\ \A o \in DOMAIN q.x :
           /\ o < p => Table(q, o, offsets[o], members[o], skipped[o])
           /\ o > p => skipped[o] = {}
  BY <1>1, <1>2, <1>3, <1>5, <1>6 DEF TableInv
<1>8. TooBig(pass, cursor)
        <=> /\ q.half = 0
            /\ (IF q.dedupe THEN f[c + 1] - f[c]
                ELSE Cardinality(XBlock(q, p, c)) + (f[c + 1] - f[c])) > q.maxBlock
  BY <1>1, <1>2, <1>5, <1>6 DEF TooBig, BlockSize, XCount, XBlock, XRows
<1>9. /\ skipped'[p] = Over(q, p, c + 1) /\ DOMAIN skipped' = DOMAIN q.x
      /\ \A o \in DOMAIN q.x : o # p => skipped'[o] = skipped[o]
  <2>1. CASE TooBig(pass, cursor)
    <3>1. skipped' = [skipped EXCEPT ![p] = skipped[p] \cup {c}]
      BY <1>2, <1>6, <2>1 DEF WeighBlock
    <3>2. Over(q, p, c + 1) = Over(q, p, c) \cup {c}
      BY <1>5, <1>8, <2>1, OverStep
    <3> QED BY <1>3, <1>7, <3>1, <3>2
  <2>2. CASE ~ TooBig(pass, cursor)
    <3>1. skipped' = skipped
      BY <2>2 DEF WeighBlock
    <3>2. Over(q, p, c + 1) = Over(q, p, c)
      BY <1>5, <1>8, <2>2, OverStep
    <3> QED BY <1>3, <1>7, <3>1, <3>2
  <2> QED BY <2>1, <2>2
<1>10. \A o \in DOMAIN q.x : (o < p \/ o > p => o # p)
  BY <1>4
<1>11. phase' \notin Later /\ phase' \notin {"count", "prefix", "place"}
  BY <1>3 DEF Later
<1> QED BY <1>3, <1>5, <1>6, <1>7, <1>9, <1>10, <1>11 DEF TableInv

(* A pass whose last code is weighed has its table. *)
LEMMA TablePasses ==
  ASSUME IInv, TableInv, NextPass
  PROVE  TableInv'
<1>1. PICK q \in Problems : q = job
  BY DEF IInv, SetupType
<1>2. PICK p \in DOMAIN q.x : p = pass
  BY <1>1 DEF IInv, SetupType
<1>3. /\ phase = "blocks" /\ job' = q /\ offsets' = offsets
      /\ members' = members /\ skipped' = skipped
      /\ DOMAIN members = DOMAIN q.x /\ DOMAIN skipped = DOMAIN q.x
  BY <1>1, <1>2 DEF TableInv, NextPass
<1>4. /\ CodesOf(q, p) \in Nat /\ CodesOf(q, p) = NCodes(pass)
      /\ DOMAIN q.x = 1 .. Len(q.x) /\ Len(q.x) \in Nat
  BY <1>1, <1>2, ProblemShape DEF NCodes, Codes, CodesOf
<1>5. Summed(q, p, offsets[p]) /\ cursor = CodesOf(q, p) + 1
  BY <1>1, <1>2, <1>3, <1>4 DEF NextPass, IInv, SortInv, SortedTo
<1>6. Table(q, p, offsets[p], members[p], skipped[p])
  BY <1>1, <1>2, <1>3, <1>5 DEF TableInv, Table
<1>7. \A o \in DOMAIN q.x :
        /\ o < p => Table(q, o, offsets[o], members[o], skipped[o])
        /\ o > p => skipped[o] = {}
  BY <1>1, <1>2, <1>3 DEF TableInv
<1>8. \/ pass' = p + 1 /\ phase' = "count"
      \/ pass' = p /\ phase' = "check" /\ p = Len(q.x)
  BY <1>1, <1>2, <1>4 DEF NextPass
<1>9. CASE pass' = p + 1 /\ phase' = "count"
  <2>1. \A o \in DOMAIN q.x : (o < p + 1 => o < p \/ o = p) /\ (o > p + 1 \/ o = p + 1 => o > p)
    BY <1>4
  <2>2. phase' \notin Later
    BY <1>9 DEF Later
  <2> QED BY <1>3, <1>6, <1>7, <1>9, <2>1, <2>2 DEF TableInv
<1>10. CASE pass' = p /\ phase' = "check" /\ p = Len(q.x)
  <2>1. \A o \in DOMAIN q.x : (o < p \/ o = p) /\ ~ (o > p)
    BY <1>4, <1>10
  <2> QED BY <1>3, <1>6, <1>7, <1>10, <2>1 DEF TableInv
<1> QED BY <1>8, <1>9, <1>10

(* The other steps leave the tables alone. *)
LEMMA TableRests ==
  ASSUME TableInv, job' = job, UNCHANGED setup_vars,
         phase' = phase \/ (phase \in Later /\ phase' \in Later)
  PROVE  TableInv'
<1>1. /\ pass' = pass /\ cursor' = cursor /\ offsets' = offsets /\ members' = members
      /\ fill' = fill /\ skipped' = skipped
  BY DEF setup_vars
<1>2. CASE phase' = phase
  BY <1>1, <1>2 DEF TableInv
<1>3. CASE phase \in Later /\ phase' \in Later
  <2>1. /\ phase \notin {"count", "prefix", "place"} /\ phase # "blocks"
        /\ phase' \notin {"count", "prefix", "place"} /\ phase' # "blocks"
    BY <1>3 DEF Later
  <2> QED BY <1>1, <1>3, <2>1 DEF TableInv
<1> QED BY <1>2, <1>3

-----------------------------------------------------------------------------
(* w is what record i finds in pass p: the y records near it, each one;    *)
(* when the key is exact, in their order.                                  *)
NearList(q, p, i, w) ==
  /\ w \in Seq(0 .. q.ny - 1)
  /\ \A k \in 1 .. Len(w) : NearIn(q, p, i, w[k])
  /\ \A j \in 0 .. q.ny - 1 : NearIn(q, p, i, j) => \E k \in 1 .. Len(w) : w[k] = j
  /\ q.half = 0 => \A k, l \in 1 .. Len(w) : k < l => w[k] < w[l]
PartnerList(q, p, i, w) ==
  /\ w \in Seq(0 .. q.ny - 1)
  /\ \A k \in 1 .. Len(w) : Partner(q, p, i, w[k])
  /\ \A j \in 0 .. q.ny - 1 : Partner(q, p, i, j) => \E k \in 1 .. Len(w) : w[k] = j
  /\ q.half = 0 => \A k, l \in 1 .. Len(w) : k < l => w[k] < w[l]

(* The places of codes lo to hi are those between their offsets.           *)
Spanned(f, lo, hi, n) ==
  /\ f[lo] \in Nat /\ f[hi + 1] \in Nat /\ f[n + 1] \in Nat
  /\ f[lo] <= f[hi + 1] /\ f[hi + 1] <= f[n + 1]
  /\ \A k \in Int : f[lo] < k /\ k <= f[hi + 1] => \E d \in lo .. hi : f[d] < k /\ k <= f[d + 1]
  /\ \A k \in Int, d \in lo .. hi : f[d] < k /\ k <= f[d + 1] => f[lo] < k /\ k <= f[hi + 1]

(* The places between two offsets are those of the codes between.          *)
LEMMA WindowPlaces ==
  ASSUME NEW q \in Problems, NEW p \in DOMAIN q.x, NEW f, Summed(q, p, f),
         NEW lo \in 1 .. CodesOf(q, p), NEW hi \in lo .. CodesOf(q, p)
  PROVE  Spanned(f, lo, hi, CodesOf(q, p))
<1>1. PICK n \in Nat : n = CodesOf(q, p)
  BY ProblemShape
<1>2. ASSUME NEW a \in 1 .. n + 1, NEW b \in a .. n + 1
      PROVE  f[a] \in Nat /\ f[b] \in Nat /\ f[a] <= f[b]
  <2>1. PICK r \in Nat : f[b] = f[a] + r /\ f[a] \in Nat
    BY <1>1, OffsetsRise
  <2> QED BY <2>1
<1>3. /\ f[lo] \in Nat /\ f[hi + 1] \in Nat /\ f[n + 1] \in Nat
      /\ f[lo] <= f[hi + 1] /\ f[hi + 1] <= f[n + 1]
  <2>1. /\ lo \in 1 .. n + 1 /\ hi + 1 \in lo .. n + 1 /\ hi + 1 \in 1 .. n + 1
        /\ n + 1 \in hi + 1 .. n + 1
    BY <1>1
  <2> QED BY <1>2, <2>1
<1>4. ASSUME NEW k \in Int, f[lo] < k, k <= f[hi + 1]
      PROVE  \E d \in lo .. hi : f[d] < k /\ k <= f[d + 1]
  <2>1. k \in Nat \ {0} /\ k <= f[n + 1]
    BY <1>3, <1>4
  <2>2. PICK d \in 1 .. n : f[d] < k /\ k <= f[d + 1]
    BY <1>1, <2>1, InSomeBlock
  <2>3. d >= lo
    <3> SUFFICES ASSUME ~ (d >= lo) PROVE FALSE
      OBVIOUS
    <3>1. d + 1 \in 1 .. n + 1 /\ lo \in d + 1 .. n + 1
      BY <1>1
    <3>2. f[d + 1] <= f[lo] /\ f[d + 1] \in Nat
      BY <1>2, <3>1
    <3> QED BY <1>3, <1>4, <2>2, <3>2
  <2>4. d <= hi
    <3> SUFFICES ASSUME ~ (d <= hi) PROVE FALSE
      OBVIOUS
    <3>1. hi + 1 \in 1 .. n + 1 /\ d \in hi + 1 .. n + 1
      BY <1>1
    <3>2. f[hi + 1] <= f[d] /\ f[d] \in Nat
      BY <1>2, <3>1
    <3> QED BY <1>3, <1>4, <2>2, <3>2
  <2>5. d \in lo .. hi
    BY <1>1, <2>3, <2>4
  <2> QED BY <2>2, <2>5
<1>5. ASSUME NEW k \in Int, NEW d \in lo .. hi, f[d] < k, k <= f[d + 1]
      PROVE  f[lo] < k /\ k <= f[hi + 1]
  <2>1. /\ lo \in 1 .. n + 1 /\ d \in lo .. n + 1
        /\ d + 1 \in 1 .. n + 1 /\ hi + 1 \in d + 1 .. n + 1
    BY <1>1
  <2>2. f[lo] <= f[d] /\ f[d] \in Nat /\ f[lo] \in Nat
    BY <1>2, <2>1
  <2>3. f[d + 1] <= f[hi + 1] /\ f[d + 1] \in Nat /\ f[hi + 1] \in Nat
    BY <1>2, <2>1
  <2> QED BY <1>5, <2>2, <2>3
<1> QED BY <1>1, <1>3, <1>4, <1>5 DEF Spanned

(* A window has the records near its own, in order when the key is exact.  *)
LEMMA WindowExact ==
  ASSUME NEW q \in Problems, NEW p \in DOMAIN q.x, q = job,
         Table(q, p, offsets[p], members[p], skipped[p]), NEW i \in 0 .. q.nx - 1
  PROVE  NearList(q, p, i, Window(p, i))
<1>1. PICK n \in Nat : n = CodesOf(q, p) /\ n = NCodes(p)
  BY ProblemShape DEF NCodes, Codes, CodesOf
<1>2. /\ q.half \in Nat /\ q.ny \in Nat /\ q.maxBlock \in Nat
      /\ \A j \in 0 .. q.ny - 1 : q.y[p][j] \in 0 .. n
  BY <1>1, ProblemShape
<1>3. PICK c \in 0 .. n : c = q.x[p][i]
  BY <1>1, ProblemShape
<1>4. PICK f, s : /\ f = offsets[p] /\ s = members[p]
                  /\ Summed(q, p, f) /\ Blocks(q, p, f, s) /\ skipped[p] = Over(q, p, n + 1)
  BY <1>1 DEF Table
<1>5. CASE c = Missing \/ c \in skipped[p]
  <2>1. Window(p, i) = <<>>
    BY <1>3, <1>5 DEF Window
  <2>2. ASSUME NEW j \in 0 .. q.ny - 1, NearIn(q, p, i, j) PROVE FALSE
    <3>1. c # Missing
      BY <1>3, <2>2 DEF NearIn
    <3>2. c \in Over(q, p, n + 1)
      BY <1>4, <1>5, <3>1
    <3>3. PICK a : a = Cardinality({k \in 0 .. q.ny - 1 : q.y[p][k] = c})
                         + (IF q.dedupe THEN 0 ELSE Cardinality(XBlock(q, p, c)))
      OBVIOUS
    <3>4. a > q.maxBlock /\ q.half = 0
      BY <3>2, <3>3 DEF Over
    <3>5. a <= q.maxBlock
      BY <1>3, <2>2, <3>3, <3>4 DEF NearIn
    <3>6. a \in Nat
      <4>1. Cardinality(XBlock(q, p, c)) \in Nat
        <5>1. c \in 1 .. CodesOf(q, p)
          BY <1>1, <3>1 DEF Missing
        <5> QED BY <1>4, <5>1, AddedCovered
      <4>2. {k \in 0 .. q.ny - 1 : q.y[p][k] = c} = YRange(q, p, q.ny, c, c + 1)
        BY <1>2 DEF YRange
      <4>3. YCount(q, p, q.ny, c, c + 1) \in Nat
        BY <1>2, RangeFinite
      <4>4. Cardinality({k \in 0 .. q.ny - 1 : q.y[p][k] = c}) \in Nat
        BY <4>2, <4>3 DEF YCount
      <4> QED BY <3>3, <4>1, <4>4
    <3> QED BY <1>2, <3>4, <3>5, <3>6
  <2>3. <<>> \in Seq(0 .. q.ny - 1) /\ Len(<<>>) = 0
    OBVIOUS
  <2>4. \A k \in 1 .. 0 : FALSE
    OBVIOUS
  <2> QED BY <2>1, <2>2, <2>3, <2>4 DEF NearList
<1>6. CASE ~ (c = Missing \/ c \in skipped[p])
  <2>1. c \in 1 .. n
    BY <1>6 DEF Missing
  <2>2. PICK lo \in 1 .. n : lo = MaxOf(1, c - q.half)
    BY <1>2, <2>1 DEF MaxOf
  <2>3. PICK hi \in lo .. n : hi = MinOf(n, c + q.half)
    BY <1>2, <2>1, <2>2 DEF MinOf, MaxOf
  <2>0. Spanned(f, lo, hi, n)
    <3>1. lo \in 1 .. CodesOf(q, p) /\ hi \in lo .. CodesOf(q, p)
      BY <1>1
    <3> QED BY <1>1, <1>4, <3>1, WindowPlaces
  <2>4. PICK a \in Nat, b \in Nat : a = f[lo] /\ b = f[hi + 1]
    BY <2>0 DEF Spanned
  <2>5. /\ a <= b /\ b <= f[n + 1] /\ f[n + 1] \in Nat
        /\ \A k \in Int : a < k /\ k <= b => \E d \in lo .. hi : f[d] < k /\ k <= f[d + 1]
        /\ \A k \in Int, d \in lo .. hi : f[d] < k /\ k <= f[d + 1] => a < k /\ k <= b
    BY <2>0, <2>4 DEF Spanned
  <2>6. /\ s \in Seq(Int) /\ Len(s) = f[n + 1]
        /\ \A d \in 1 .. n : \A k \in 1 .. Len(s) :
             f[d] < k /\ k <= f[d + 1] => s[k] \in 0 .. q.ny - 1 /\ q.y[p][s[k]] = d
        /\ \A d \in 1 .. n : \A k, l \in 1 .. Len(s) :
             f[d] < k /\ k <= f[d + 1] /\ f[d] < l /\ l <= f[d + 1] /\ k < l => s[k] < s[l]
        /\ \A j \in 0 .. q.ny - 1 : q.y[p][j] # Missing =>
             \E k \in 1 .. Len(s) : f[q.y[p][j]] < k /\ k <= f[q.y[p][j] + 1] /\ s[k] = j
    <3>1. \A d \in 1 .. n : Ends(q, p, f)[d] = f[d + 1]
      BY <1>1 DEF Ends
    <3>2. \A d \in 1 .. n : \A k : InBlock(f, Ends(q, p, f), d, k) <=> f[d] < k /\ k <= f[d + 1]
      BY <3>1 DEF InBlock
    <3>3. \A j \in 0 .. q.ny - 1 : q.y[p][j] # Missing => q.y[p][j] \in 1 .. n
      BY <1>2 DEF Missing
    <3>4. Filled(q, p, f, s, Ends(q, p, f), q.ny)
      BY <1>4 DEF Blocks
    <3> QED BY <1>1, <3>2, <3>3, <3>4 DEF Filled
  <2>7. PICK w : w = SubSeq(s, a + 1, b)
    OBVIOUS
  <2>8. w = Window(p, i)
    <3>1. WindowFrom(p, c) = a /\ WindowTo(p, c) = b
      BY <1>1, <1>4, <2>2, <2>3, <2>4 DEF WindowFrom, WindowTo
    <3> QED BY <1>3, <1>4, <1>6, <2>7, <3>1 DEF Window
  <2>9. ASSUME NEW k \in a + 1 .. b
        PROVE  /\ k \in 1 .. Len(s) /\ s[k] \in 0 .. q.ny - 1
               /\ q.y[p][s[k]] \in lo .. hi
               /\ f[q.y[p][s[k]]] < k /\ k <= f[q.y[p][s[k]] + 1]
    <3>1. a < k /\ k <= b /\ k \in Int /\ k \in 1 .. Len(s)
      BY <2>5, <2>6
    <3>2. PICK d \in lo .. hi : f[d] < k /\ k <= f[d + 1]
      BY <2>5, <3>1
    <3>3. d \in 1 .. n
      OBVIOUS
    <3>4. s[k] \in 0 .. q.ny - 1 /\ q.y[p][s[k]] = d
      BY <2>6, <3>1, <3>2, <3>3
    <3> QED BY <3>1, <3>2, <3>4
  <2>10. /\ w \in Seq(0 .. q.ny - 1) /\ Len(w) = b - a
         /\ \A k \in 1 .. b - a : w[k] = s[a + k]
    <3>1. \A k \in a + 1 .. b : s[k] \in 0 .. q.ny - 1
      BY <2>9
    <3>2. a + 1 \in Int /\ b \in Int
      BY <2>5
    <3>3. /\ w \in Seq(0 .. q.ny - 1)
          /\ Len(w) = IF a + 1 <= b THEN b - (a + 1) + 1 ELSE 0
          /\ \A k \in 1 .. b - (a + 1) + 1 : w[k] = s[a + 1 + k - 1]
      BY <2>7, <3>1, <3>2, SubSeqProperties
    <3>4. b - (a + 1) + 1 = b - a /\ (~ (a + 1 <= b) => b - a = 0)
      BY <2>5
    <3>5. \A k \in 1 .. b - a : a + 1 + k - 1 = a + k
      OBVIOUS
    <3> QED BY <3>3, <3>4, <3>5
  <2>11. \A d \in 1 .. n : d \in lo .. hi <=> Distance(c, d) <= q.half
    BY <1>2, <2>1, <2>2, <2>3 DEF Distance, MaxOf, MinOf
  <2>12. q.half = 0 =>
           Cardinality({k \in 0 .. q.ny - 1 : q.y[p][k] = c})
             + (IF q.dedupe THEN 0 ELSE Cardinality(XBlock(q, p, c))) <= q.maxBlock
    <3> SUFFICES ASSUME q.half = 0
                 PROVE  Cardinality({k \in 0 .. q.ny - 1 : q.y[p][k] = c})
                          + (IF q.dedupe THEN 0 ELSE Cardinality(XBlock(q, p, c))) <= q.maxBlock
      OBVIOUS
    <3>1. PICK r \in Nat : r = Cardinality({k \in 0 .. q.ny - 1 : q.y[p][k] = c})
      <4>1. {k \in 0 .. q.ny - 1 : q.y[p][k] = c} = YRange(q, p, q.ny, c, c + 1)
        BY <1>2 DEF YRange
      <4>2. YCount(q, p, q.ny, c, c + 1) \in Nat
        BY <1>2, RangeFinite
      <4> QED BY <4>1, <4>2 DEF YCount
    <3>2. PICK x \in Nat : x = Cardinality(XBlock(q, p, c))
      BY <1>1, <1>4, <2>1, AddedCovered
    <3>3. c \notin Over(q, p, n + 1) /\ c \in 1 .. n + 1 - 1
      BY <1>4, <1>6, <2>1
    <3>4. ~ (r + (IF q.dedupe THEN 0 ELSE x) > q.maxBlock)
      BY <3>1, <3>2, <3>3 DEF Over
    <3> QED BY <1>2, <3>1, <3>2, <3>4
  <2>13. \A j \in 0 .. q.ny - 1 : NearIn(q, p, i, j) <=> q.y[p][j] # Missing /\ q.y[p][j] \in lo .. hi
    <3> SUFFICES ASSUME NEW j \in 0 .. q.ny - 1
                 PROVE  NearIn(q, p, i, j) <=> q.y[p][j] # Missing /\ q.y[p][j] \in lo .. hi
      OBVIOUS
    <3>1. q.y[p][j] # Missing => q.y[p][j] \in 1 .. n
      BY <1>2 DEF Missing
    <3> QED BY <1>3, <1>6, <2>11, <2>12, <3>1 DEF NearIn
  <2>14. ASSUME NEW k \in 1 .. Len(w) PROVE NearIn(q, p, i, w[k])
    <3>1. a + k \in a + 1 .. b /\ w[k] = s[a + k]
      BY <2>5, <2>10
    <3>2. w[k] \in 0 .. q.ny - 1 /\ q.y[p][w[k]] \in lo .. hi
      BY <2>9, <3>1
    <3>3. q.y[p][w[k]] # Missing
      BY <3>2 DEF Missing
    <3> QED BY <2>13, <3>2, <3>3
  <2>15. ASSUME NEW j \in 0 .. q.ny - 1, NearIn(q, p, i, j)
         PROVE  \E k \in 1 .. Len(w) : w[k] = j
    <3>1. q.y[p][j] # Missing /\ q.y[p][j] \in lo .. hi
      BY <2>13, <2>15
    <3>2. PICK k \in 1 .. Len(s) : f[q.y[p][j]] < k /\ k <= f[q.y[p][j] + 1] /\ s[k] = j
      BY <2>6, <3>1
    <3>3. k \in Int /\ a < k /\ k <= b
      <4>1. k \in Int
        BY <2>5, <2>6
      <4>2. PICK d \in lo .. hi : d = q.y[p][j]
        BY <3>1
      <4>3. f[d] < k /\ k <= f[d + 1]
        BY <3>2, <4>2
      <4> QED BY <2>5, <4>1, <4>3
    <3>4. k - a \in 1 .. Len(w) /\ a + (k - a) = k
      BY <2>10, <3>3
    <3> QED BY <2>10, <3>2, <3>4
  <2>16. ASSUME q.half = 0, NEW k \in 1 .. Len(w), NEW l \in 1 .. Len(w), k < l
         PROVE  w[k] < w[l]
    <3>1. lo = c /\ hi = c
      BY <2>1, <2>2, <2>3, <2>16 DEF MaxOf, MinOf
    <3>2. /\ a + k \in 1 .. Len(s) /\ a + l \in 1 .. Len(s) /\ a + k < a + l
          /\ f[c] < a + k /\ a + k <= f[c + 1] /\ f[c] < a + l /\ a + l <= f[c + 1]
      <4>1. a = f[c] /\ b = f[c + 1]
        BY <2>4, <3>1
      <4>2. k \in 1 .. b - a /\ l \in 1 .. b - a
        BY <2>10
      <4>3. a < a + k /\ a + k <= b /\ a < a + l /\ a + l <= b /\ a + k < a + l
        BY <2>16, <4>2
      <4>4. a + k \in 1 .. Len(s) /\ a + l \in 1 .. Len(s)
        <5>1. PICK z \in Nat : z = Len(s) /\ b <= z
          BY <2>5, <2>6
        <5> QED BY <4>2, <4>3, <5>1
      <4> QED BY <4>1, <4>3, <4>4
    <3>3. s[a + k] < s[a + l]
      BY <2>1, <2>6, <3>2
    <3> QED BY <2>10, <3>3
  <2> QED BY <2>8, <2>10, <2>14, <2>15, <2>16 DEF NearList
<1> QED BY <1>5, <1>6

-----------------------------------------------------------------------------
(* Places of a list, in their order.                                       *)
LEMMA AscendingRises ==
  ASSUME NEW n \in Nat, NEW S \in SUBSET (1 .. n)
  PROVE  Rising(S, Ascending(S))
<1>1. IsFiniteSet(1 .. n)
  BY FS_Interval
<1>2. IsFiniteSet(S)
  BY <1>1, FS_Subset
<1>3. S \in SUBSET Int
  OBVIOUS
<1>4. Ascending(S) = ByRank(S, Smaller(S))
  BY DEF Ascending, InOrder, ByRank, Below, Smaller
<1> QED BY <1>2, <1>3, <1>4, AscendingPlaces

(* A window of a single exact pass, or of any, cut to the partners above. *)
LEMMA PartnersExact ==
  ASSUME NEW q \in Problems, NEW p \in DOMAIN q.x, q = job,
         Table(q, p, offsets[p], members[p], skipped[p]), NEW i \in 0 .. q.nx - 1
  PROVE  PartnerList(q, p, i, Partners(p, i))
<1>1. PICK w : w = Window(p, i) /\ NearList(q, p, i, w)
  BY WindowExact
<1>2. PICK n \in Nat : /\ n = Len(w) /\ DOMAIN w = 1 .. n /\ q.ny \in Nat
                       /\ \A k \in 1 .. n : w[k] \in 0 .. q.ny - 1
  <2>1. w \in Seq(0 .. q.ny - 1) /\ q.ny \in Nat
    BY <1>1, ProblemShape DEF NearList
  <2> QED BY <2>1
<1>3. CASE ~ q.dedupe
  <2>1. Partners(p, i) = w
    BY <1>1, <1>3 DEF Partners
  <2> QED BY <1>1, <1>3, <2>1 DEF NearList, PartnerList, Partner
<1>4. CASE q.dedupe
  <2>1. PICK S : S = {k \in DOMAIN w : w[k] > i}
    OBVIOUS
  <2>2. S \in SUBSET (1 .. n)
    BY <1>2, <2>1
  <2>3. PICK t : t = Ascending(S) /\ Rising(S, t)
    BY <2>2, AscendingRises
  <2>4. PICK z \in Nat : z = Cardinality(S)
    BY <2>3 DEF Rising
  <2>5. /\ t \in [1 .. z -> S]
        /\ \A k, l \in 1 .. z : k < l => t[k] < t[l]
        /\ \A e \in S : \E k \in 1 .. z : t[k] = e
    BY <2>3, <2>4 DEF Rising
  <2>6. PICK r : r = Partners(p, i) /\ r = [k \in 1 .. z |-> w[t[k]]]
    <3>1. Partners(p, i) = [k \in DOMAIN t |-> w[t[k]]]
      BY <1>1, <1>4, <2>1, <2>3 DEF Partners
    <3> QED BY <2>5, <3>1
  <2>7. \A k \in 1 .. z : t[k] \in 1 .. n /\ w[t[k]] > i /\ r[k] = w[t[k]] /\ r[k] \in 0 .. q.ny - 1
    BY <1>2, <2>1, <2>2, <2>5, <2>6
  <2>8. r \in Seq(0 .. q.ny - 1) /\ Len(r) = z
    <3>1. PICK R : R = 0 .. q.ny - 1
      OBVIOUS
    <3>2. r = [k \in 1 .. z |-> w[t[k]]] /\ \A k \in 1 .. z : w[t[k]] \in R
      BY <2>6, <2>7, <3>1
    <3>3. r \in Seq(R) /\ Len(r) = z
      BY ONLY <3>2, z \in Nat
    <3> QED BY <3>1, <3>3
  <2>9. ASSUME NEW k \in 1 .. z PROVE Partner(q, p, i, r[k])
    <3>1. NearIn(q, p, i, r[k])
      BY <1>1, <1>2, <2>7 DEF NearList
    <3>2. i < r[k]
      BY <1>2, <2>7
    <3> QED BY <3>1, <3>2 DEF Partner
  <2>10. ASSUME NEW j \in 0 .. q.ny - 1, Partner(q, p, i, j)
         PROVE  \E k \in 1 .. z : r[k] = j
    <3>1. i < j /\ NearIn(q, p, i, j)
      BY <1>4, <2>10 DEF Partner
    <3>2. PICK x \in 1 .. n : w[x] = j
      BY <1>1, <1>2, <3>1 DEF NearList
    <3>3. x \in S
      BY <1>2, <2>1, <3>1, <3>2
    <3>4. PICK k \in 1 .. z : t[k] = x
      BY <2>5, <3>3
    <3> QED BY <2>7, <3>2, <3>4
  <2>11. ASSUME q.half = 0, NEW k \in 1 .. z, NEW l \in 1 .. z, k < l
         PROVE  r[k] < r[l]
    <3>1. PICK x \in 1 .. n, y \in 1 .. n : x = t[k] /\ y = t[l] /\ x < y
      BY <2>5, <2>7, <2>11
    <3>2. w[x] < w[y]
      BY <1>1, <1>2, <2>11, <3>1 DEF NearList
    <3>3. r[k] = w[x] /\ r[l] = w[y]
      BY <2>7, <3>1
    <3> QED BY <3>2, <3>3
  <2> QED BY <2>6, <2>8, <2>9, <2>10, <2>11 DEF PartnerList
<1> QED BY <1>3, <1>4

(* What follows the first member above i of an exact block is all of them. *)
LEMMA SuffixExact ==
  ASSUME NEW q \in Problems, NEW p \in DOMAIN q.x, q = job, p = 1, q.half = 0,
         Table(q, p, offsets[p], members[p], skipped[p]), NEW i \in 0 .. q.nx - 1
  PROVE  PartnerList(q, p, i, ExactPartners(i))
<1>1. PICK w : w = Window(1, i) /\ NearList(q, p, i, w)
  BY WindowExact
<1>2. PICK n \in Nat : /\ n = Len(w) /\ DOMAIN w = 1 .. n /\ q.ny \in Nat
                       /\ w \in Seq(0 .. q.ny - 1)
                       /\ \A k \in 1 .. n : w[k] \in 0 .. q.ny - 1
  <2>1. w \in Seq(0 .. q.ny - 1) /\ q.ny \in Nat
    BY <1>1, ProblemShape DEF NearList
  <2> QED BY <2>1
<1>3. CASE ~ q.dedupe
  <2>1. ExactPartners(i) = w
    BY <1>1, <1>3 DEF ExactPartners
  <2> QED BY <1>1, <1>3, <2>1 DEF NearList, PartnerList, Partner
<1>4. CASE q.dedupe
  <2>1. PICK S : S = {k \in DOMAIN w : w[k] > i}
    OBVIOUS
  <2>2. S \in SUBSET (1 .. n) /\ S \in SUBSET Nat
    BY <1>2, <2>1
  <2>3. \A k, l \in 1 .. n : k < l => w[k] < w[l]
    BY <1>1, <1>2 DEF NearList
  <2>4. CASE S = {}
    <3>1. ExactPartners(i) = <<>>
      BY <1>1, <1>4, <2>1, <2>4 DEF ExactPartners
    <3>2. ASSUME NEW j \in 0 .. q.ny - 1, Partner(q, p, i, j) PROVE FALSE
      <4>1. i < j /\ NearIn(q, p, i, j)
        BY <1>4, <3>2 DEF Partner
      <4>2. PICK x \in 1 .. n : w[x] = j
        BY <1>1, <1>2, <4>1 DEF NearList
      <4> QED BY <1>2, <2>1, <2>4, <4>1, <4>2
    <3>3. <<>> \in Seq(0 .. q.ny - 1) /\ Len(<<>>) = 0
      OBVIOUS
    <3>4. \A k \in 1 .. 0 : FALSE
      OBVIOUS
    <3> QED BY <3>1, <3>2, <3>3, <3>4 DEF PartnerList
  <2>5. CASE S # {}
    <3>1. \E x \in S : \A y \in S : x <= y
      BY <2>2, <2>5, LeastNatural
    <3>2. PICK a : a = CHOOSE x \in S : \A y \in S : x <= y
      OBVIOUS
    <3>3. a \in 1 .. n /\ a \in S /\ \A y \in S : a <= y
      BY <2>2, <3>1, <3>2
    <3>4. PICK r : r = SubSeq(w, a, n)
      OBVIOUS
    <3>5. ExactPartners(i) = r
      BY <1>1, <1>2, <1>4, <2>1, <2>5, <3>2, <3>4 DEF ExactPartners
    <3>6. /\ r \in Seq(0 .. q.ny - 1)
          /\ Len(r) = n - a + 1
          /\ \A k \in 1 .. n - a + 1 : r[k] = w[a + k - 1]
      <4>1. \A k \in a .. n : w[k] \in 0 .. q.ny - 1
        BY <1>2, <3>3
      <4>2. a \in Int /\ n \in Int /\ a <= n
        BY <3>3
      <4> QED BY <3>4, <4>1, <4>2, SubSeqProperties
    <3>7. \A k \in 1 .. n - a + 1 : a + k - 1 \in a .. n /\ a + k - 1 \in 1 .. n
      BY <3>3
    <3>8. ASSUME NEW k \in 1 .. n - a + 1 PROVE Partner(q, p, i, r[k])
      <4>1. PICK x \in 1 .. n : x = a + k - 1 /\ a <= x /\ r[k] = w[x]
        BY <3>6, <3>7
      <4>2. w[a] > i /\ w[a] \in Int /\ w[x] \in Int
        BY <1>2, <2>1, <3>3
      <4>3. x = a \/ w[a] < w[x]
        BY <2>3, <3>3, <4>1
      <4>4. i < w[x]
        BY <4>2, <4>3
      <4>5. NearIn(q, p, i, w[x])
        BY <1>1, <1>2 DEF NearList
      <4> QED BY <4>1, <4>4, <4>5 DEF Partner
    <3>9. ASSUME NEW j \in 0 .. q.ny - 1, Partner(q, p, i, j)
          PROVE  \E k \in 1 .. n - a + 1 : r[k] = j
      <4>1. i < j /\ NearIn(q, p, i, j)
        BY <1>4, <3>9 DEF Partner
      <4>2. PICK x \in 1 .. n : w[x] = j
        BY <1>1, <1>2, <4>1 DEF NearList
      <4>3. x \in S
        BY <1>2, <2>1, <4>1, <4>2
      <4>4. x - a + 1 \in 1 .. n - a + 1 /\ a + (x - a + 1) - 1 = x
        BY <3>3, <4>3
      <4> QED BY <3>6, <4>2, <4>4
    <3>10. ASSUME NEW k \in 1 .. n - a + 1, NEW l \in 1 .. n - a + 1, k < l
           PROVE  r[k] < r[l]
      <4>1. a + k - 1 < a + l - 1
        BY <3>3, <3>10
      <4> QED BY <2>3, <3>6, <3>7, <4>1
    <3> QED BY <3>5, <3>6, <3>8, <3>9, <3>10 DEF PartnerList
  <2> QED BY <2>4, <2>5
<1> QED BY <1>3, <1>4

(* Sorted by partner then pass with the first of each kept, a list has     *)
(* every partner once, in order, under the first pass that found it.       *)
Merged(u, r) ==
  /\ DOMAIN r = 1 .. Len(r) /\ Len(r) \in Nat
  /\ \A k \in 1 .. Len(r) : \E m \in 1 .. Len(u) : r[k] = u[m]
  /\ \A k \in 1 .. Len(r), m \in 1 .. Len(u) : u[m][1] = r[k][1] => r[k][2] <= u[m][2]
  /\ \A m \in 1 .. Len(u) : \E k \in 1 .. Len(r) : r[k][1] = u[m][1]
  /\ \A k, l \in 1 .. Len(r) : k < l => r[k][1] < r[l][1]

(* Sorting what the passes found and keeping the firsts merges it so. *)
LEMMA FirstsMerge ==
  ASSUME NEW A \in SUBSET Int, NEW B \in SUBSET Int, NEW u \in Seq(A \X B)
  PROVE  Merged(u, FirstOfEach(u)) /\ FirstOfEach(u) \in Seq(A \X B)
<1>1. PICK n \in Nat : n = Len(u) /\ DOMAIN u = 1 .. n /\ \A m \in 1 .. n : u[m] \in A \X B
  <2>1. Len(u) \in Nat /\ DOMAIN u = 1 .. Len(u) /\ \A m \in 1 .. Len(u) : u[m] \in A \X B
    OBVIOUS
  <2> QED BY <2>1
<1>2. PICK S : S = {u[m] : m \in DOMAIN u}
  OBVIOUS
<1>3. S \in SUBSET (A \X B) /\ IsFiniteSet(S)
  <2>1. IsFiniteSet(1 .. n)
    BY FS_Interval
  <2>2. u \in Surjection(1 .. n, S)
    <3>1. u \in [1 .. n -> S]
      BY <1>1, <1>2
    <3>2. \A e \in S : \E m \in 1 .. n : u[m] = e
      BY <1>1, <1>2
    <3> QED BY <3>1, <3>2 DEF Surjection
  <2>3. IsFiniteSet(S)
    BY <2>1, <2>2, FS_Surjection
  <2>4. \A e \in S : e \in A \X B
    BY <1>1, <1>2
  <2> QED BY <2>3, <2>4
<1>4. PICK R : R = {r \in S \X S : Before(r[1], r[2])}
  OBVIOUS
<1>5. \A d, e \in S : <<d, e>> \in R <=> d[1] < e[1] \/ (d[1] = e[1] /\ d[2] < e[2])
  BY <1>4 DEF Before
<1>6. \A e \in S : e[1] \in Int /\ e[2] \in Int /\ e = <<e[1], e[2]>>
  <2> SUFFICES ASSUME NEW e \in S PROVE e[1] \in Int /\ e[2] \in Int /\ e = <<e[1], e[2]>>
    OBVIOUS
  <2>1. e \in A \X B
    BY <1>3
  <2>2. e[1] \in A /\ e[2] \in B /\ e = <<e[1], e[2]>>
    BY <2>1
  <2> QED BY <2>2
<1>7. Orders(S, R)
  <2>1. \A d \in S : <<d, d>> \notin R
    BY <1>5, <1>6
  <2>2. ASSUME NEW c \in S, NEW d \in S, NEW e \in S, <<c, d>> \in R, <<d, e>> \in R
        PROVE  <<c, e>> \in R
    <3>1. /\ c[1] < d[1] \/ (c[1] = d[1] /\ c[2] < d[2])
          /\ d[1] < e[1] \/ (d[1] = e[1] /\ d[2] < e[2])
      BY <1>5, <2>2
    <3>2. /\ c[1] \in Int /\ d[1] \in Int /\ e[1] \in Int
          /\ c[2] \in Int /\ d[2] \in Int /\ e[2] \in Int
      BY <1>6
    <3>3. c[1] < e[1] \/ (c[1] = e[1] /\ c[2] < e[2])
      BY <3>1, <3>2
    <3> QED BY <1>5, <3>3
  <2>3. ASSUME NEW d \in S, NEW e \in S PROVE d = e \/ <<d, e>> \in R \/ <<e, d>> \in R
    <3>1. /\ d[1] \in Int /\ e[1] \in Int /\ d[2] \in Int /\ e[2] \in Int
          /\ d = <<d[1], d[2]>> /\ e = <<e[1], e[2]>>
      BY <1>6
    <3>2. \/ d[1] < e[1] \/ (d[1] = e[1] /\ d[2] < e[2])
          \/ e[1] < d[1] \/ (e[1] = d[1] /\ e[2] < d[2])
          \/ d[1] = e[1] /\ d[2] = e[2]
      BY <3>1
    <3> QED BY <1>5, <3>1, <3>2
  <2> QED BY <2>1, <2>2, <2>3 DEF Orders
<1>8. PICK z \in Nat : z = Cardinality(S)
  BY <1>3, FS_CardinalityType
<1>9. PICK t : z = Cardinality(S) /\ t = ByRank(S, R) /\ t = InOrder(S, R)
  BY <1>8 DEF InOrder, ByRank, Below
<1>10. /\ t \in [1 .. z -> S] /\ DOMAIN t = 1 .. z
       /\ \A k, l \in 1 .. z : k < l => <<t[k], t[l]>> \in R
       /\ \A e \in S : \E k \in 1 .. z : t[k] = e
  <2>1. Listing(S, R, t)
    BY <1>3, <1>7, <1>9, RanksOrder
  <2> QED BY <1>9, <2>1 DEF Listing
<1>11. \A k \in 1 .. z : t[k] \in S /\ t[k][1] \in Int /\ t[k][2] \in Int
  BY <1>6, <1>10
<1>12. \A k, l \in 1 .. z : k < l => t[k][1] < t[l][1] \/ (t[k][1] = t[l][1] /\ t[k][2] < t[l][2])
  BY <1>5, <1>10, <1>11
<1>13. PICK F : F = {k \in DOMAIN t : k = 1 \/ t[k - 1][1] # t[k][1]}
  OBVIOUS
<1>14. F \in SUBSET (1 .. z)
  BY <1>10, <1>13
<1>15. PICK a : a = Ascending(F) /\ Rising(F, a)
  BY <1>14, AscendingRises
<1>16. PICK y \in Nat : y = Cardinality(F)
  BY <1>15 DEF Rising
<1>17. /\ a \in [1 .. y -> F] /\ DOMAIN a = 1 .. y
       /\ \A k, l \in 1 .. y : k < l => a[k] < a[l]
       /\ \A e \in F : \E k \in 1 .. y : a[k] = e
  BY <1>15, <1>16 DEF Rising
<1>18. PICK r : r = FirstOfEach(u) /\ r = [k \in 1 .. y |-> t[a[k]]]
  <2>1. FirstOfEach(u) = [k \in DOMAIN a |-> t[a[k]]]
    BY <1>2, <1>4, <1>9, <1>13, <1>15 DEF FirstOfEach
  <2> QED BY <1>17, <2>1
<1>19. \A k \in 1 .. y : a[k] \in F /\ a[k] \in 1 .. z /\ r[k] = t[a[k]] /\ r[k] \in S
  BY <1>10, <1>14, <1>17, <1>18
<1>20. r \in Seq(A \X B) /\ Len(r) = y /\ DOMAIN r = 1 .. y
  <2>1. \A k \in 1 .. y : r[k] \in A \X B
    BY <1>3, <1>19
  <2> QED BY <1>18, <2>1
<1>21. ASSUME NEW b \in F, NEW k \in 1 .. z, k < b PROVE t[k][1] < t[b][1]
  <2>1. b \in 1 .. z /\ b # 1 /\ b - 1 \in 1 .. z /\ k <= b - 1 /\ t[b - 1][1] # t[b][1]
    <3>1. b \in 1 .. z /\ b # 1
      BY <1>14, <1>21
    <3>2. PICK d \in 1 .. z : d = b - 1 /\ k <= d
      BY <1>21, <3>1
    <3>3. b = 1 \/ t[b - 1][1] # t[b][1]
      BY <1>13, <1>21
    <3> QED BY <3>1, <3>2, <3>3
  <2>2. t[b - 1][1] < t[b][1]
    BY <1>12, <2>1
  <2>3. k = b - 1 \/ t[k][1] <= t[b - 1][1]
    BY <1>11, <1>12, <2>1
  <2> QED BY <1>11, <2>1, <2>2, <2>3
<1>22. ASSUME NEW k \in 1 .. y PROVE \E m \in 1 .. n : r[k] = u[m]
  BY <1>1, <1>2, <1>19
<1>23. ASSUME NEW k \in 1 .. y, NEW m \in 1 .. n, u[m][1] = r[k][1]
       PROVE  r[k][2] <= u[m][2]
  <2>1. PICK b \in F : b = a[k] /\ b \in 1 .. z /\ r[k] = t[b]
    BY <1>19
  <2>2. PICK x \in 1 .. z : t[x] = u[m]
    BY <1>1, <1>2, <1>10
  <2>3. ~ (x < b)
    BY <1>11, <1>21, <1>23, <2>1, <2>2
  <2>4. x = b \/ b < x
    BY <2>1, <2>3
  <2>5. t[b][2] \in Int /\ t[b][1] \in Int /\ t[x][1] = t[b][1]
    BY <1>11, <1>23, <2>1, <2>2
  <2>6. x = b => t[b][2] <= t[x][2]
    BY <2>5
  <2>7. b < x => t[b][2] < t[x][2]
    <3>1. b < x => t[b][1] < t[x][1] \/ t[b][2] < t[x][2]
      BY <1>12, <2>1
    <3> QED BY <2>5, <3>1
  <2>8. t[b][2] <= t[x][2]
    BY <1>11, <2>1, <2>4, <2>6, <2>7
  <2> QED BY <2>1, <2>2, <2>8
<1>24. ASSUME NEW m \in 1 .. n PROVE \E k \in 1 .. y : r[k][1] = u[m][1]
  <2>1. PICK x \in 1 .. z : t[x] = u[m]
    BY <1>1, <1>2, <1>10
  <2>2. PICK T : T = {k \in 1 .. z : t[k][1] = t[x][1]}
    OBVIOUS
  <2>3. T \in SUBSET Nat /\ x \in T
    BY <2>2
  <2>4. PICK b \in T : \A k \in T : b <= k
    BY <2>3, LeastNatural
  <2>5. b \in F
    <3>1. b \in 1 .. z /\ t[b][1] = t[x][1]
      BY <2>2
    <3>2. b = 1 \/ (b - 1 \in 1 .. z /\ ~ (b <= b - 1))
      BY <3>1
    <3>3. b = 1 \/ b - 1 \notin T
      BY <2>4, <3>2
    <3> QED BY <1>10, <1>13, <2>2, <3>1, <3>2, <3>3
  <2>6. PICK k \in 1 .. y : a[k] = b
    BY <1>17, <2>5
  <2> QED BY <1>19, <2>1, <2>2, <2>6
<1>25. ASSUME NEW k \in 1 .. y, NEW l \in 1 .. y, k < l PROVE r[k][1] < r[l][1]
  <2>1. a[k] < a[l] /\ a[k] \in 1 .. z /\ a[l] \in F
    BY <1>17, <1>19, <1>25
  <2> QED BY <1>19, <1>21, <2>1
<1> QED BY <1>1, <1>18, <1>20, <1>22, <1>23, <1>24, <1>25 DEF Merged

-----------------------------------------------------------------------------
(* r is t behind s. *)
Glued(s, t, r) ==
  /\ Len(s) \in Nat /\ Len(t) \in Nat /\ Len(r) = Len(s) + Len(t)
  /\ \A k \in 1 .. Len(s) : r[k] = s[k]
  /\ \A k \in 1 .. Len(t) : r[Len(s) + k] = t[k] /\ Len(s) + k \in 1 .. Len(r)
  /\ \A k \in 1 .. Len(r) : k \in 1 .. Len(s) \/ k - Len(s) \in 1 .. Len(t)

(* Where the elements of two sequences are in their concatenation. *)
LEMMA Glues ==
  ASSUME NEW S, NEW s \in Seq(S), NEW t \in Seq(S)
  PROVE  s \o t \in Seq(S) /\ Glued(s, t, s \o t)
<1>1. PICK m \in Nat, n \in Nat, r \in Seq(S) :
        /\ m = Len(s) /\ n = Len(t) /\ r = s \o t /\ Len(r) = m + n
        /\ \A k \in 1 .. m + n : r[k] = IF k <= m THEN s[k] ELSE t[k - m]
  <2>1. PICK m \in Nat, n \in Nat : m = Len(s) /\ n = Len(t)
    OBVIOUS
  <2>2. /\ s \o t \in Seq(S) /\ Len(s \o t) = Len(s) + Len(t)
        /\ \A k \in 1 .. Len(s) + Len(t) :
             (s \o t)[k] = IF k <= Len(s) THEN s[k] ELSE t[k - Len(s)]
    BY ConcatProperties
  <2> QED BY <2>1, <2>2
<1>2. \A k \in 1 .. m : r[k] = s[k]
  BY <1>1
<1>3. ASSUME NEW k \in 1 .. n PROVE r[m + k] = t[k] /\ m + k \in 1 .. m + n
  <2>1. m + k \in 1 .. m + n /\ ~ (m + k <= m) /\ m + k - m = k
    OBVIOUS
  <2> QED BY <1>1, <2>1
<1>4. \A k \in 1 .. m + n : k \in 1 .. m \/ k - m \in 1 .. n
  OBVIOUS
<1> QED BY <1>1, <1>2, <1>3, <1>4 DEF Glued

(* What a pass adds to a record's partners, and a record to its list.      *)
Tagged(w, n)  == [k \in DOMAIN w |-> <<w[k], n>>]
Tripled(i, r) == [k \in DOMAIN r |-> <<i, r[k][1], r[k][2]>>]

(* What a list is made of. *)
LEMMA SeqParts ==
  ASSUME NEW S, NEW s \in Seq(S)
  PROVE  Len(s) \in Nat /\ DOMAIN s = 1 .. Len(s) /\ \A k \in 1 .. Len(s) : s[k] \in S
OBVIOUS

TagsOf(S, P, w, n, v) ==
  v \in Seq(S \X P) /\ Len(v) = Len(w) /\ \A k \in 1 .. Len(w) : v[k] = <<w[k], n>>
TriplesOf(X, Y, P, i, r, e) ==
  /\ e \in Seq(X \X Y \X P) /\ Len(e) = Len(r)
  /\ \A k \in 1 .. Len(r) : /\ r[k][1] \in Y /\ r[k][2] \in P
                            /\ e[k] = <<i, r[k][1], r[k][2]>>

(* Tagging a list's elements gives a list of the same length. *)
LEMMA TaggedList ==
  ASSUME NEW S, NEW P, NEW w \in Seq(S), NEW n \in P
  PROVE  TagsOf(S, P, w, n, Tagged(w, n))
<1>1. \A k \in 1 .. Len(w) : <<w[k], n>> \in S \X P
  OBVIOUS
<1> QED BY <1>1 DEF Tagged, TagsOf

(* So does putting the record before them. *)
LEMMA TripledList ==
  ASSUME NEW X, NEW Y, NEW P, NEW r \in Seq(Y \X P), NEW i \in X
  PROVE  TriplesOf(X, Y, P, i, r, Tripled(i, r))
<1>1. \A k \in 1 .. Len(r) : r[k][1] \in Y /\ r[k][2] \in P
  <2> SUFFICES ASSUME NEW k \in 1 .. Len(r) PROVE r[k][1] \in Y /\ r[k][2] \in P
    OBVIOUS
  <2>1. r[k] \in Y \X P
    OBVIOUS
  <2> QED BY <2>1
<1>2. \A k \in 1 .. Len(r) : <<i, r[k][1], r[k][2]>> \in X \X Y \X P
  BY <1>1
<1> QED BY <1>1, <1>2 DEF Tripled, TriplesOf

(* Before the first pass nothing is found. *)
LEMMA FoundStart ==
  ASSUME NEW q \in Problems, NEW i
  PROVE  FoundIn(q, i, <<>>, 1, TRUE)
<1>1. \A o \in DOMAIN q.x : o \in Nat /\ ~ (o < 1)
  BY ProblemShape
<1>2. <<>> \in Seq((0 .. q.ny - 1) \X DOMAIN q.x) /\ Len(<<>>) = 0
  OBVIOUS
<1>3. \A k \in 1 .. 0 : FALSE
  OBVIOUS
<1> QED BY <1>1, <1>2, <1>3 DEF FoundIn

(* One more pass adds its partners; alone and exact, they are in order.    *)
LEMMA FoundStep ==
  ASSUME NEW q \in Problems, NEW n \in DOMAIN q.x, NEW i \in 0 .. q.nx - 1,
         NEW u, NEW asIs, FoundIn(q, i, u, n, asIs),
         NEW w, PartnerList(q, n, i, w), NEW v, v = Tagged(w, n),
         NEW still, still => IF w = <<>> THEN asIs ELSE u = <<>> /\ q.half = 0
  PROVE  FoundIn(q, i, u \o v, n + 1, still)
<1>1. PICK E : E = (0 .. q.ny - 1) \X DOMAIN q.x
  OBVIOUS
<1>2. u \in Seq(E) /\ w \in Seq(0 .. q.ny - 1) /\ \A o \in DOMAIN q.x : o \in Nat
  BY <1>1, ProblemShape DEF FoundIn, PartnerList
<1>3. /\ Len(w) \in Nat /\ DOMAIN w = 1 .. Len(w)
      /\ \A k \in 1 .. Len(w) : w[k] \in 0 .. q.ny - 1
  BY <1>2, SeqParts
<1>4. /\ v \in Seq(E) /\ Len(v) = Len(w)
      /\ \A k \in 1 .. Len(w) : v[k] = <<w[k], n>>
  <2>1. PICK Y, P : Y = 0 .. q.ny - 1 /\ P = DOMAIN q.x /\ w \in Seq(Y) /\ n \in P
    BY <1>2
  <2>2. TagsOf(Y, P, w, n, v)
    BY <2>1, TaggedList
  <2> QED BY <1>1, <2>1, <2>2 DEF TagsOf
<1>5. PICK r \in Seq(E) : r = u \o v /\ Glued(u, v, r)
  BY <1>2, <1>4, Glues
<1>6. ASSUME NEW k \in 1 .. Len(r) PROVE r[k][2] < n + 1 /\ Partner(q, r[k][2], i, r[k][1])
  <2>1. CASE k \in 1 .. Len(u)
    <3>1. r[k] = u[k]
      BY <1>5, <2>1 DEF Glued
    <3>2. u[k][2] < n /\ Partner(q, u[k][2], i, u[k][1])
      BY <2>1 DEF FoundIn
    <3>3. u[k] \in E
      BY <1>2, <2>1
    <3>4. u[k][2] \in Nat
      BY <1>1, <1>2, <3>3
    <3>5. u[k][2] < n + 1
      BY <1>2, <3>2, <3>4
    <3> QED BY <3>1, <3>2, <3>5
  <2>2. CASE k - Len(u) \in 1 .. Len(v)
    <3>1. PICK l \in 1 .. Len(w) : l = k - Len(u)
      BY <1>4, <2>2
    <3>2. r[Len(u) + l] = v[l] /\ Len(u) \in Nat
      BY <1>4, <1>5 DEF Glued
    <3>3. Len(u) + l = k
      BY <3>1, <3>2
    <3>4. r[k] = <<w[l], n>>
      BY <1>4, <3>2, <3>3
    <3>5. Partner(q, n, i, w[l])
      BY DEF PartnerList
    <3>6. n < n + 1
      BY <1>2
    <3> QED BY <3>4, <3>5, <3>6
  <2> QED BY <1>5, <2>1, <2>2 DEF Glued
<1>7. ASSUME NEW o \in DOMAIN q.x, NEW j \in 0 .. q.ny - 1, o < n + 1, Partner(q, o, i, j)
      PROVE  \E k \in 1 .. Len(r) : r[k] = <<j, o>>
  <2>1. CASE o < n
    <3>1. PICK k \in 1 .. Len(u) : u[k] = <<j, o>>
      BY <1>7, <2>1 DEF FoundIn
    <3>2. k \in 1 .. Len(r) /\ r[k] = u[k]
      BY <1>5, <3>1 DEF Glued
    <3> QED BY <3>1, <3>2
  <2>2. CASE o = n
    <3>1. PICK k \in 1 .. Len(w) : w[k] = j
      BY <1>7, <2>2 DEF PartnerList
    <3>2. Len(u) + k \in 1 .. Len(r) /\ r[Len(u) + k] = v[k]
      BY <1>4, <1>5 DEF Glued
    <3> QED BY <1>4, <2>2, <3>1, <3>2
  <2>3. o < n \/ o = n
    BY <1>2, <1>7
  <2> QED BY <2>1, <2>2, <2>3
<1>8. ASSUME still, NEW k \in 1 .. Len(r), NEW l \in 1 .. Len(r), k < l
      PROVE  r[k][1] < r[l][1]
  <2>1. CASE w = <<>>
    <3>1. Len(v) = 0 /\ Len(u) \in Nat
      BY <1>4, <1>5, <2>1 DEF Glued
    <3>2. Len(r) = Len(u)
      BY <1>5, <3>1 DEF Glued
    <3>3. k \in 1 .. Len(u) /\ l \in 1 .. Len(u)
      BY <3>2
    <3>4. r[k] = u[k] /\ r[l] = u[l]
      BY <1>5, <3>3 DEF Glued
    <3>5. u[k][1] < u[l][1]
      BY <1>8, <2>1, <3>3 DEF FoundIn
    <3> QED BY <3>4, <3>5
  <2>2. CASE w # <<>>
    <3>1. u = <<>> /\ q.half = 0
      BY <1>8, <2>2
    <3>2. Len(u) = 0
      BY <3>1
    <3>3. Len(r) = Len(w)
      BY <1>3, <1>4, <1>5, <3>2 DEF Glued
    <3>4. \A m \in 1 .. Len(w) : r[m] = <<w[m], n>>
      <4> SUFFICES ASSUME NEW m \in 1 .. Len(w) PROVE r[m] = <<w[m], n>>
        OBVIOUS
      <4>1. r[0 + m] = v[m]
        BY <1>4, <1>5, <3>2 DEF Glued
      <4>2. 0 + m = m
        BY <1>3
      <4> QED BY <1>4, <4>1, <4>2
    <3>5. w[k] < w[l]
      BY <1>8, <3>1, <3>3 DEF PartnerList
    <3> QED BY <3>3, <3>4, <3>5
  <2> QED BY <2>1, <2>2
<1> QED BY <1>1, <1>5, <1>6, <1>7, <1>8 DEF FoundIn

(* What is found in order needs no merging. *)
LEMMA OrderedMerged ==
  ASSUME NEW q \in Problems, NEW i, NEW u, NEW n, FoundIn(q, i, u, n, TRUE)
  PROVE  Merged(u, u)
<1>1. PICK m \in Nat : m = Len(u) /\ DOMAIN u = 1 .. m
  BY DEF FoundIn
<1>2. \A k \in 1 .. m : u[k][1] \in Int /\ u[k][2] \in Int
  <2> SUFFICES ASSUME NEW k \in 1 .. m PROVE u[k][1] \in Int /\ u[k][2] \in Int
    OBVIOUS
  <2>1. u[k] \in (0 .. q.ny - 1) \X DOMAIN q.x
    BY <1>1 DEF FoundIn
  <2>2. DOMAIN q.x \subseteq Int
    BY ProblemShape
  <2> QED BY <2>1, <2>2
<1>3. \A k, l \in 1 .. m : k < l => u[k][1] < u[l][1]
  BY <1>1 DEF FoundIn
<1>4. ASSUME NEW k \in 1 .. m, NEW l \in 1 .. m, u[l][1] = u[k][1]
      PROVE  u[k][2] <= u[l][2]
  <2>1. ~ (k < l) /\ ~ (l < k)
    BY <1>2, <1>3, <1>4
  <2>2. k = l
    BY <2>1
  <2> QED BY <1>2, <2>2
<1> QED BY <1>1, <1>3, <1>4 DEF Merged

(* The pairs a record gives when all passes are scanned. *)
LEMMA EmitExact ==
  ASSUME NEW q \in Problems, NEW i \in 0 .. q.nx - 1, NEW u, NEW asIs \in BOOLEAN,
         FoundIn(q, i, u, Len(q.x) + 1, asIs),
         NEW r, r = (IF asIs THEN u ELSE FirstOfEach(u)),
         NEW e, e = Tripled(i, r)
  PROVE  Listed(q, e, i, i + 1)
<1>1. PICK P : P = DOMAIN q.x /\ P \in SUBSET Int /\ \A o \in P : o < Len(q.x) + 1 /\ 1 <= o
  BY ProblemShape
<1>2. PICK X, Y : X = 0 .. q.nx - 1 /\ Y = 0 .. q.ny - 1
  OBVIOUS
<1>3. Y \in SUBSET Int
  BY <1>2, ProblemShape
<1>4. i \in Int
  BY ProblemShape
<1>5. u \in Seq(Y \X P)
  BY <1>1, <1>2 DEF FoundIn
<1>6. Merged(u, r) /\ r \in Seq(Y \X P)
  <2>1. CASE asIs
    <3>1. r = u /\ FoundIn(q, i, u, Len(q.x) + 1, TRUE)
      BY <2>1
    <3> QED BY <1>5, <3>1, OrderedMerged
  <2>2. CASE ~ asIs
    BY <1>1, <1>3, <1>5, <2>2, FirstsMerge
  <2> QED BY <2>1, <2>2
<1>7. PICK n \in Nat : n = Len(r) /\ DOMAIN r = 1 .. n
  BY <1>6, SeqParts
<1>8. TriplesOf(X, Y, P, i, r, e)
  <2>1. i \in X /\ r \in Seq(Y \X P)
    BY <1>2, <1>6
  <2> QED BY <2>1, TripledList
<1>9. \A k \in 1 .. n : r[k][1] \in Y /\ r[k][2] \in P /\ e[k] = <<i, r[k][1], r[k][2]>>
  BY <1>7, <1>8 DEF TriplesOf
<1>10. e \in Seq(Triples(q)) /\ Len(e) = n
  <2>1. e \in Seq(X \X Y \X P) /\ Len(e) = n
    BY <1>7, <1>8 DEF TriplesOf
  <2> QED BY <1>1, <1>2, <2>1 DEF Triples
<1>11. ASSUME NEW k \in 1 .. n PROVE FirstIn(q, e[k])
  <2>1. PICK j \in Y, p \in P : j = r[k][1] /\ p = r[k][2] /\ e[k] = <<i, j, p>>
    BY <1>9
  <2>2. PICK m \in 1 .. Len(u) : r[k] = u[m]
    BY <1>6, <1>7 DEF Merged
  <2>3. Partner(q, p, i, j)
    BY <2>1, <2>2 DEF FoundIn
  <2>4. ASSUME NEW o \in 1 .. p - 1, NearIn(q, o, i, j) PROVE FALSE
    <3>1. p \in Int /\ o < p
      BY <1>1
    <3>2. o \in P
      BY <1>1, <3>1, ProblemShape
    <3>3. Partner(q, o, i, j)
      BY <2>3, <2>4 DEF Partner
    <3>4. PICK l \in 1 .. Len(u) : u[l] = <<j, o>>
      BY <1>1, <1>2, <3>2, <3>3 DEF FoundIn
    <3>5. u[l][1] = r[k][1] /\ u[l][2] = o
      BY <2>1, <3>4
    <3>6. r[k][2] <= u[l][2]
      BY <1>6, <1>7, <3>5 DEF Merged
    <3>7. p <= o
      BY <2>1, <3>5, <3>6
    <3> QED BY <3>1, <3>7
  <2>5. e[k][1] = i /\ e[k][2] = j /\ e[k][3] = p
    BY <2>1
  <2> QED BY <2>3, <2>4, <2>5 DEF FirstIn
<1>12. \A k \in 1 .. n : i <= e[k][1] /\ e[k][1] < i + 1
  <2> SUFFICES ASSUME NEW k \in 1 .. n PROVE i <= e[k][1] /\ e[k][1] < i + 1
    OBVIOUS
  <2>1. e[k][1] = i
    BY <1>9
  <2> QED BY <1>4, <2>1
<1>13. ASSUME NEW k \in 1 .. n, NEW l \in 1 .. n, k < l PROVE Ahead(e[k], e[l])
  <2>1. r[k][1] < r[l][1]
    BY <1>6, <1>7, <1>13 DEF Merged
  <2>2. e[k] = <<i, r[k][1], r[k][2]>> /\ e[l] = <<i, r[l][1], r[l][2]>>
    BY <1>9
  <2> QED BY <2>1, <2>2 DEF Ahead
<1>14. ASSUME NEW h \in 0 .. q.nx - 1, NEW j \in 0 .. q.ny - 1, i <= h, h < i + 1,
              NEW o \in DOMAIN q.x, Partner(q, o, h, j)
       PROVE  \E k \in 1 .. n : e[k][1] = h /\ e[k][2] = j
  <2>1. h = i
    BY <1>14
  <2>2. PICK m \in 1 .. Len(u) : u[m] = <<j, o>>
    BY <1>1, <1>14, <2>1 DEF FoundIn
  <2>3. PICK k \in 1 .. n : r[k][1] = u[m][1]
    BY <1>6, <1>7 DEF Merged
  <2>4. e[k] = <<i, j, r[k][2]>>
    BY <1>9, <2>2, <2>3
  <2>5. e[k][1] = i /\ e[k][2] = j
    BY <2>4
  <2> QED BY <2>1, <2>5
<1>15. \A k \in 1 .. Len(e) : i <= e[k][1] /\ e[k][1] < i + 1 /\ FirstIn(q, e[k])
  BY <1>10, <1>11, <1>12
<1> QED BY <1>10, <1>13, <1>14, <1>15 DEF Listed

(* The pairs a record gives in the one pass of an exact key. *)
LEMMA EmitSingle ==
  ASSUME NEW q \in Problems, Len(q.x) = 1, q.half = 0, NEW i \in 0 .. q.nx - 1,
         NEW w, PartnerList(q, 1, i, w)
  PROVE  Listed(q, [k \in DOMAIN w |-> <<i, w[k], 1>>], i, i + 1)
<1>1. 1 \in DOMAIN q.x /\ DOMAIN q.x = 1 .. 1
  BY ProblemShape
<1>2. PICK v : v = Tagged(w, 1)
  OBVIOUS
<1>3. v \in Seq((0 .. q.ny - 1) \X DOMAIN q.x)
  <2>1. w \in Seq(0 .. q.ny - 1)
    BY DEF PartnerList
  <2>2. TagsOf(0 .. q.ny - 1, DOMAIN q.x, w, 1, v)
    BY <1>1, <1>2, <2>1, TaggedList
  <2> QED BY <2>2 DEF TagsOf
<1>4. FoundIn(q, i, <<>> \o v, 1 + 1, TRUE)
  <2>1. FoundIn(q, i, <<>>, 1, TRUE)
    BY FoundStart
  <2>2. TRUE => IF w = <<>> THEN TRUE ELSE <<>> = <<>> /\ q.half = 0
    OBVIOUS
  <2> QED BY <1>1, <1>2, <2>1, <2>2, FoundStep
<1>5. <<>> \o v = v
  BY <1>3
<1>6. FoundIn(q, i, v, Len(q.x) + 1, TRUE)
  BY <1>4, <1>5
<1>7. Listed(q, Tripled(i, v), i, i + 1)
  BY <1>6, EmitExact
<1>8. Tripled(i, v) = [k \in DOMAIN w |-> <<i, w[k], 1>>]
  <2>1. DOMAIN v = DOMAIN w /\ \A k \in DOMAIN w : v[k] = <<w[k], 1>>
    BY <1>2 DEF Tagged
  <2>2. \A k \in DOMAIN w : <<i, v[k][1], v[k][2]>> = <<i, w[k], 1>>
    BY <2>1
  <2> QED BY <2>1, <2>2 DEF Tripled
<1> QED BY <1>7, <1>8

(* A list of no records. *)
LEMMA ListedNothing ==
  ASSUME NEW q \in Problems, NEW a \in Int, NEW b \in Int, b <= a
  PROVE  Listed(q, <<>>, a, b)
<1>1. <<>> \in Seq(Triples(q)) /\ Len(<<>>) = 0
  OBVIOUS
<1>2. \A k \in 1 .. 0 : FALSE
  OBVIOUS
<1>3. \A i \in 0 .. q.nx - 1 : ~ (a <= i /\ i < b)
  BY ProblemShape
<1> QED BY <1>1, <1>2, <1>3 DEF Listed

(* Lists of records one behind the other make the list of both.            *)
LEMMA ListedJoins ==
  ASSUME NEW q \in Problems, NEW a \in Int, NEW b \in Int, NEW c \in Int, a <= b, b <= c,
         NEW s, Listed(q, s, a, b), NEW t, Listed(q, t, b, c)
  PROVE  Listed(q, s \o t, a, c)
<1>1. PICK T : T = Triples(q) /\ s \in Seq(T) /\ t \in Seq(T)
  BY DEF Listed
<1>2. PICK r \in Seq(T) : r = s \o t /\ Glued(s, t, r)
  BY <1>1, Glues
<1>3. \A x \in T : x[1] \in Int
  BY <1>1 DEF Triples
<1>4. ASSUME NEW k \in 1 .. Len(s)
      PROVE  r[k] = s[k] /\ s[k][1] \in Int /\ a <= s[k][1] /\ s[k][1] < b /\ FirstIn(q, s[k])
  <2>1. s[k] \in T
    BY <1>1
  <2> QED BY <1>2, <1>3, <2>1 DEF Glued, Listed
<1>5. ASSUME NEW k \in 1 .. Len(t)
      PROVE  /\ r[Len(s) + k] = t[k] /\ t[k][1] \in Int
             /\ b <= t[k][1] /\ t[k][1] < c /\ FirstIn(q, t[k])
  <2>1. t[k] \in T
    BY <1>1
  <2> QED BY <1>2, <1>3, <2>1 DEF Glued, Listed
<1>6. Len(s) \in Nat /\ Len(t) \in Nat /\ Len(r) = Len(s) + Len(t)
  BY <1>2 DEF Glued
<1>7. ASSUME NEW k \in 1 .. Len(r)
      PROVE  k \in 1 .. Len(s) \/ \E l \in 1 .. Len(t) : k = Len(s) + l /\ k - Len(s) = l
  <2>1. k \in 1 .. Len(s) \/ k - Len(s) \in 1 .. Len(t)
    BY <1>6
  <2>2. k = Len(s) + (k - Len(s))
    BY <1>6
  <2> QED BY <2>1, <2>2
<1>8. ASSUME NEW k \in 1 .. Len(r)
      PROVE  a <= r[k][1] /\ r[k][1] < c /\ FirstIn(q, r[k])
  <2>1. CASE k \in 1 .. Len(s)
    <3>1. r[k] = s[k] /\ s[k][1] \in Int /\ a <= s[k][1] /\ s[k][1] < b /\ FirstIn(q, s[k])
      BY <1>4, <2>1
    <3> QED BY <3>1
  <2>2. CASE ~ (k \in 1 .. Len(s))
    <3>1. PICK l \in 1 .. Len(t) : k = Len(s) + l
      BY <1>7, <2>2
    <3>2. r[k] = t[l] /\ t[l][1] \in Int /\ b <= t[l][1] /\ t[l][1] < c /\ FirstIn(q, t[l])
      BY <1>5, <3>1
    <3> QED BY <3>2
  <2> QED BY <2>1, <2>2
<1>9. ASSUME NEW k \in 1 .. Len(r), NEW l \in 1 .. Len(r), k < l
      PROVE  Ahead(r[k], r[l])
  <2>1. CASE k \in 1 .. Len(s) /\ l \in 1 .. Len(s)
    <3>1. r[k] = s[k] /\ r[l] = s[l]
      BY <1>4, <2>1
    <3>2. Ahead(s[k], s[l])
      BY <1>9, <2>1 DEF Listed
    <3> QED BY <3>1, <3>2
  <2>2. CASE k \in 1 .. Len(s) /\ l \notin 1 .. Len(s)
    <3>1. PICK m \in 1 .. Len(t) : l = Len(s) + m
      BY <1>7, <2>2
    <3>2. r[k] = s[k] /\ s[k][1] \in Int /\ s[k][1] < b
      BY <1>4, <2>2
    <3>3. r[l] = t[m] /\ t[m][1] \in Int /\ b <= t[m][1]
      BY <1>5, <3>1
    <3>4. s[k][1] < t[m][1]
      BY <3>2, <3>3
    <3> QED BY <3>2, <3>3, <3>4 DEF Ahead
  <2>3. CASE k \notin 1 .. Len(s) /\ l \notin 1 .. Len(s)
    <3>1. PICK m \in 1 .. Len(t) : k = Len(s) + m
      BY <1>7, <2>3
    <3>2. PICK n \in 1 .. Len(t) : l = Len(s) + n
      BY <1>7, <2>3
    <3>3. m < n
      BY <1>6, <1>9, <3>1, <3>2
    <3>4. r[k] = t[m] /\ r[l] = t[n]
      BY <1>5, <3>1, <3>2
    <3>5. Ahead(t[m], t[n])
      BY <3>3 DEF Listed
    <3> QED BY <3>4, <3>5
  <2>4. CASE k \notin 1 .. Len(s) /\ l \in 1 .. Len(s)
    BY <1>6, <1>9, <2>4
  <2> QED BY <2>1, <2>2, <2>3, <2>4
<1>10. ASSUME NEW i \in 0 .. q.nx - 1, NEW j \in 0 .. q.ny - 1, a <= i, i < c,
              NEW o \in DOMAIN q.x, Partner(q, o, i, j)
       PROVE  \E k \in 1 .. Len(r) : r[k][1] = i /\ r[k][2] = j
  <2>0. i \in Int
    OBVIOUS
  <2>1. CASE i < b
    <3>1. PICK k \in 1 .. Len(s) : s[k][1] = i /\ s[k][2] = j
      BY <1>10, <2>1 DEF Listed
    <3>2. k \in 1 .. Len(r) /\ r[k] = s[k]
      BY <1>4, <1>6
    <3> QED BY <3>1, <3>2
  <2>2. CASE ~ (i < b)
    <3>0. b <= i
      BY <2>0, <2>2
    <3>1. PICK k \in 1 .. Len(t) : t[k][1] = i /\ t[k][2] = j
      BY <1>10, <3>0 DEF Listed
    <3>2. Len(s) + k \in 1 .. Len(r) /\ r[Len(s) + k] = t[k]
      BY <1>5, <1>6
    <3> QED BY <3>1, <3>2
  <2> QED BY <2>1, <2>2
<1> QED BY <1>1, <1>2, <1>8, <1>9, <1>10 DEF Listed

-----------------------------------------------------------------------------
(* Chunks: each starts within the records, ends where the next one starts, *)
(* and the last ends at the last record.                                   *)
ChunkShape(q, c) ==
  /\ FirstRow(c) \in Nat /\ RowsEnd(c) \in Nat
  /\ FirstRow(c) < RowsEnd(c) /\ RowsEnd(c) <= q.nx
  /\ RowsEnd(c) = IF c = NChunks - 1 THEN q.nx ELSE FirstRow(c + 1)

(* A multiple grows with its factor. *)
LEMMA MultiplesGrow ==
  ASSUME NEW a \in Nat, NEW b \in Nat, NEW r \in Nat, a <= b
  PROVE  a * r \in Nat /\ b * r \in Nat /\ a * r <= b * r /\ (a + 1) * r = a * r + r
<1>1. PICK k \in Nat : b = a + k
  BY Z3
<1>2. b * r = a * r + k * r /\ k * r \in Nat /\ a * r \in Nat
  BY <1>1
<1>3. (a + 1) * r = a * r + r
  OBVIOUS
<1> QED BY <1>2, <1>3

(* Every chunk has a part of the rows. *)
LEMMA ChunkPlaces ==
  ASSUME NEW q \in Problems, q = job
  PROVE  /\ NChunks \in Nat /\ (NChunks = 0 => q.nx = 0)
         /\ \A c \in 0 .. NChunks - 1 : ChunkShape(q, c)
<1>1. PICK R \in Nat \ {0} : R = RowsPerChunk
  BY PairsAssumption
<1>2. PICK n \in Nat : n = q.nx
  BY PairsAssumption
<1>3. PICK d \in Nat, m \in Nat : d = n \div R /\ m = n % R /\ m < R /\ n = R * d + m
  BY SMT
<1>4. NChunks = IF m = 0 THEN d ELSE d + 1
  <2>1. NChunks = n \div R + (IF n % R # 0 THEN 1 ELSE 0)
    BY <1>1, <1>2 DEF NChunks, CeilDiv
  <2> QED BY <1>3, <2>1
<1>5. NChunks \in Nat /\ (NChunks = 0 => q.nx = 0)
  <2>1. NChunks = 0 => m = 0 /\ d = 0
    BY <1>3, <1>4
  <2>2. R * 0 = 0
    OBVIOUS
  <2>3. NChunks = 0 => n = 0
    BY <1>3, <2>1, <2>2
  <2>4. NChunks \in Nat
    BY <1>4
  <2> QED BY <1>2, <2>3, <2>4
<1>6. ASSUME NEW c \in 0 .. NChunks - 1 PROVE ChunkShape(q, c)
  <2>0. c \in Nat /\ c <= NChunks - 1 /\ d * R = R * d /\ d * R \in Nat
    BY <1>5
  <2>1. c <= d /\ c * R \in Nat /\ c * R <= d * R /\ (c + 1) * R = c * R + R
    <3>1. c <= d
      BY <1>4, <2>0
    <3> QED BY <2>0, <3>1, MultiplesGrow
  <2>2. PICK a \in Nat, b \in Nat : a = c * R /\ b = d * R /\ a <= b /\ n = b + m
    BY <1>3, <2>0, <2>1
  <2>3. FirstRow(c) = a /\ FirstRow(c + 1) = a + R
    BY <1>1, <2>1, <2>2 DEF FirstRow
  <2>4. RowsEnd(c) = MinOf(n, a + R)
    BY <1>1, <1>2, <2>0, <2>3 DEF RowsEnd, LastRow, MinOf
  <2>5. CASE c = NChunks - 1
    <3>1. CASE m = 0
      <4>1. c + 1 = d
        BY <1>4, <2>5, <3>1
      <4>2. b = a + R
        BY <2>1, <2>2, <4>1
      <4>3. RowsEnd(c) = n /\ a < n
        BY <2>2, <2>4, <3>1, <4>2 DEF MinOf
      <4> QED BY <1>2, <2>3, <2>5, <4>3 DEF ChunkShape
    <3>2. CASE m # 0
      <4>1. c = d
        BY <1>4, <2>5, <3>2
      <4>2. b = a
        BY <2>2, <4>1
      <4>3. RowsEnd(c) = n /\ a < n
        BY <1>3, <2>2, <2>4, <3>2, <4>2 DEF MinOf
      <4> QED BY <1>2, <2>3, <2>5, <4>3 DEF ChunkShape
    <3> QED BY <3>1, <3>2
  <2>6. CASE c # NChunks - 1
    <3>1. c + 1 <= d
      BY <1>4, <2>0, <2>6
    <3>2. (c + 1) * R <= d * R
      BY <2>0, <3>1, MultiplesGrow
    <3>3. a + R <= n
      BY <2>1, <2>2, <3>2
    <3> QED BY <1>2, <2>2, <2>3, <2>4, <2>6, <3>3 DEF ChunkShape, MinOf
  <2> QED BY <2>5, <2>6
<1> QED BY <1>5, <1>6

-----------------------------------------------------------------------------
(* What a thread's step leaves of another, and of another's list. *)
LEMMA ThreadKept ==
  ASSUME NEW u, ThreadInv(u), job' = job, held'[u] = held[u], row'[u] = row[u],
         scan'[u] = scan[u], found'[u] = found[u], ordered'[u] = ordered[u],
         givers'[u] = givers[u]
  PROVE  ThreadInv(u)'
BY DEF ThreadInv, Working, InChunk, SingleExact, RowsEnd, LastRow

(* A list stays as it was when its chunk's threads and rows do. *)
LEMMA ListKept ==
  ASSUME NEW c, ListInv(c), job' = job, lists'[c] = lists[c], c \in ran' <=> c \in ran,
         \A u \in Threads : (On(u, c)' <=> On(u, c)) /\ (On(u, c) => row'[u] = row[u])
  PROVE  ListInv(c)'
BY DEF ListInv, RowsEnd, LastRow

(* The steps that are no thread's work leave the work as it is. *)
LEMMA WorkRests ==
  ASSUME WorkInv, job' = job, UNCHANGED <<worker_vars, held, ran>>
  PROVE  WorkInv'
<1>1. /\ row' = row /\ scan' = scan /\ found' = found /\ ordered' = ordered
      /\ givers' = givers /\ lists' = lists /\ held' = held /\ ran' = ran
  BY DEF worker_vars
<1>2. \A t \in Threads : ThreadInv(t)'
  BY <1>1, ThreadKept DEF WorkInv
<1>3. NChunks' = NChunks
  BY DEF NChunks
<1>4. ASSUME NEW c \in 0 .. NChunks - 1 PROVE ListInv(c)'
  <2>1. \A u \in Threads : (On(u, c)' <=> On(u, c)) /\ (On(u, c) => row'[u] = row[u])
    BY <1>1 DEF On, Working
  <2> QED BY <1>1, <2>1, ListKept DEF WorkInv
<1> QED BY <1>1, <1>2, <1>3, <1>4 DEF WorkInv

(* A thread at work has a chunk of the range to itself, that has not run,  *)
(* and stands at one of its records, or past them.                         *)
AtWork(q, t, c) ==
  /\ c \in 0 .. NChunks - 1 /\ On(t, c) /\ c \notin ran
  /\ \A u \in Threads : u # t => ~ On(u, c)
  /\ ChunkShape(q, c) /\ row[t] \in FirstRow(c) .. RowsEnd(c)
  /\ InChunk(t) <=> row[t] < RowsEnd(c)
  /\ phase \in {"pairs", "done"}
  /\ \A o \in DOMAIN q.x : Table(q, o, offsets[o], members[o], skipped[o])

(* What a thread that has a chunk finds when it takes a row. *)
LEMMA ThreadAtWork ==
  ASSUME FullInv, NEW q \in Problems, q = job, NEW t \in Threads, row[t] # NoRow
  PROVE  AtWork(q, t, held[t][1])
<1>1. ThreadInv(t) /\ Sound /\ CallInv /\ TableInv
  BY DEF FullInv, WorkInv
<1>2. Working(t) /\ row[t] \in FirstRow(held[t][1]) .. RowsEnd(held[t][1])
  BY <1>1 DEF ThreadInv
<1>3. PICK c, e : held[t] = <<c, e>> /\ c \in Nat /\ e \in Nat /\ c < e /\ e <= size
  <2>1. held[t] \in (0 .. size) \X (0 .. size) /\ size \in Nat
    BY <1>1 DEF Sound, DispatchTypeOK
  <2>2. t \in Busy
    BY <1>2 DEF Busy, Working
  <2>3. held[t][1] < held[t][2]
    BY <1>1, <2>2 DEF Sound, DispatchTypeOK
  <2> QED BY <2>1, <2>3
<1>4. stage # "idle"
  BY <1>1, <1>2 DEF Sound, Shape, Working
<1>5. size = NChunks /\ phase \in {"pairs", "done"}
  BY <1>1, <1>4 DEF CallInv
<1>6. c \in 0 .. NChunks - 1 /\ held[t][1] = c
  <2>1. NChunks \in Nat
    BY ChunkPlaces
  <2>2. c <= NChunks - 1
    BY <1>3, <1>5, <2>1
  <2> QED BY <1>3, <2>1, <2>2
<1>7. ChunkShape(q, c)
  BY <1>6, ChunkPlaces
<1>8. c \notin ran
  <2>1. In(held[t], c)
    BY <1>3 DEF In
  <2> QED BY <1>1, <2>1 DEF Sound, Fresh
<1>9. ASSUME NEW u \in Threads, u # t, On(u, c) PROVE FALSE
  <2>1. Apart(held[t], held[u])
    BY <1>1, <1>9 DEF Sound, Separate
  <2>2. u \in Busy
    BY <1>9 DEF On, Busy, Working
  <2>3. held[u][1] < held[u][2] /\ held[u][1] = c
    BY <1>1, <1>9, <2>2 DEF Sound, DispatchTypeOK, On
  <2>4. held[u][2] \in Int
    BY <1>1 DEF Sound, DispatchTypeOK
  <2> QED BY <1>3, <2>1, <2>3, <2>4 DEF Apart
<1>10. InChunk(t) <=> row[t] < RowsEnd(c)
  <2>1. row[t] \in Int /\ LastRow(c) \in Int
    <3>1. q.nx \in Nat /\ FirstRow(c) \in Nat /\ RowsPerChunk \in Nat
      BY <1>7, PairsAssumption DEF ChunkShape
    <3>2. LastRow(c) \in Int
      BY <3>1 DEF LastRow, MinOf
    <3>3. RowsEnd(c) \in Nat
      BY <1>7 DEF ChunkShape
    <3>4. row[t] \in FirstRow(c) .. RowsEnd(c)
      BY <1>2, <1>6
    <3> QED BY <3>1, <3>2, <3>3, <3>4
  <2>2. row[t] <= LastRow(c) <=> row[t] < LastRow(c) + 1
    BY <2>1
  <2> QED BY <1>6, <2>2 DEF InChunk, RowsEnd
<1>11. \A o \in DOMAIN q.x : Table(q, o, offsets[o], members[o], skipped[o])
  <2>1. phase \in Later
    BY <1>5 DEF Later
  <2> QED BY <1>1, <2>1 DEF TableInv
<1>12. On(t, c)
  BY <1>2, <1>6 DEF On
<1>13. AtWork(q, t, c)
  BY <1>2, <1>5, <1>6, <1>7, <1>8, <1>9, <1>10, <1>11, <1>12 DEF AtWork
<1> QED BY <1>6, <1>13

(* The call begins: nothing is listed; the caller may take all the chunks. *)
LEMMA WorkBegins ==
  ASSUME FullInv, IInv, Dispatch
  PROVE  WorkInv'
<1>1. PICK q \in Problems : q = job
  BY DEF IInv, SetupType
<1>2. /\ job' = job /\ lists' = lists /\ scan' = scan /\ found' = found /\ ordered' = ordered
      /\ givers' = givers /\ ran' = ran /\ stage = "idle"
      /\ row' = IF stage' = "serial" THEN [row EXCEPT ![Main] = 0] ELSE row
  BY DEF Dispatch, Enter
<1>3. /\ ran = {} /\ \A t \in Threads : held[t] = Idle /\ ~ Working(t)
  BY <1>2 DEF FullInv, Sound, Shape, Working
<1>4. NChunks' = NChunks /\ NChunks \in Nat /\ Main \in Threads
  BY <1>1, <1>2, ChunkPlaces, DispatchAssumption DEF NChunks
<1>5. /\ \A t \in Threads : ThreadInv(t)
      /\ \A c \in 0 .. NChunks - 1 : ListInv(c) /\ lists[c] = <<>>
      /\ DOMAIN row = Threads /\ DOMAIN scan = Threads /\ DOMAIN found = Threads
      /\ DOMAIN ordered = Threads /\ DOMAIN givers = Threads /\ DOMAIN lists = 0 .. NChunks - 1
  <2>1. WorkInv
    BY DEF FullInv
  <2>2. ASSUME NEW c \in 0 .. NChunks - 1, ListInv(c) PROVE lists[c] = <<>>
    BY <1>3, <2>2 DEF ListInv, On
  <2> QED BY <2>1, <2>2 DEF WorkInv
<1>6. CASE stage' = "serial"
  <2>1. PICK m \in Nat \ {0} : m = NChunks /\ held' = [held EXCEPT ![Main] = <<0, m>>]
    BY <1>4, <1>6 DEF Dispatch, Enter
  <2>2. held'[Main] = <<0, m>> /\ \A u \in Threads : u # Main => held'[u] = held[u]
    <3>1. DOMAIN held = Threads
      BY DEF FullInv, Sound, DispatchTypeOK
    <3> QED BY <1>4, <2>1, <3>1
  <2>3. row'[Main] = 0 /\ \A u \in Threads : u # Main => row'[u] = row[u]
    BY <1>2, <1>4, <1>5, <1>6
  <2>4. Working(Main)' /\ On(Main, 0)' /\ held'[Main][1] = 0
    BY <2>2 DEF Working, On, Idle
  <2>5. FirstRow(0) = 0 /\ RowsEnd(0) \in Nat
    <3>1. 0 \in 0 .. NChunks - 1
      BY <2>1
    <3>2. ChunkShape(q, 0)
      BY <1>1, <3>1, ChunkPlaces
    <3>3. RowsPerChunk \in Nat
      BY PairsAssumption
    <3>4. 0 * RowsPerChunk = 0
      BY <3>3
    <3> QED BY <3>2, <3>4 DEF ChunkShape, FirstRow
  <2>6. RowsEnd(0)' = RowsEnd(0)
    BY <1>2 DEF RowsEnd, LastRow
  <2>7. ThreadInv(Main)'
    <3>1. ThreadInv(Main)
      BY <1>4, <1>5
    <3>2. row[Main] = NoRow /\ scan[Main] = 1
      <4>1. ~ Working(Main)
        BY <1>3, <1>4
      <4>2. row[Main] = NoRow
        BY <3>1, <4>1 DEF ThreadInv
      <4>3. ~ InChunk(Main)
        BY <4>2 DEF InChunk
      <4> QED BY <3>1, <4>2, <4>3 DEF ThreadInv
    <3>3. 0 \in FirstRow(0) .. RowsEnd(0)
      BY <2>5
    <3>4. row'[Main] # NoRow
      BY <2>3 DEF NoRow
    <3> QED BY <1>2, <2>3, <2>4, <2>6, <3>1, <3>2, <3>3, <3>4 DEF ThreadInv, SingleExact
  <2>8. ASSUME NEW u \in Threads, u # Main PROVE ThreadInv(u)'
    BY <1>2, <1>5, <2>2, <2>3, <2>8, ThreadKept
  <2>9. \A u \in Threads : \A c : On(u, c)' => u = Main /\ c = 0
    BY <1>3, <2>2, <2>4 DEF On, Working
  <2>10. ASSUME NEW c \in 0 .. NChunks - 1 PROVE ListInv(c)'
    <3>1. lists'[c] = <<>> /\ c \notin ran'
      BY <1>2, <1>3, <1>5
    <3>2. ASSUME NEW u \in Threads, On(u, c)' PROVE Listed(job', <<>>, FirstRow(c), row'[u])
      <4>1. u = Main /\ c = 0
        BY <2>9, <3>2
      <4>2. Listed(q, <<>>, 0, 0)
        BY ListedNothing
      <4> QED BY <1>1, <1>2, <2>3, <2>5, <4>1, <4>2
    <3> QED BY <3>1, <3>2 DEF ListInv
  <2>11. DOMAIN row' = Threads
    BY <1>2, <1>5, <1>6
  <2> QED BY <1>2, <1>4, <1>5, <2>7, <2>8, <2>10, <2>11 DEF WorkInv
<1>7. CASE stage' # "serial"
  <2>1. held' = held /\ row' = row
    BY <1>2, <1>7 DEF Dispatch, Enter
  <2>2. WorkInv
    BY DEF FullInv
  <2>3. UNCHANGED <<worker_vars, held, ran>>
    BY <1>2, <2>1 DEF worker_vars
  <2> QED BY <1>2, <2>2, <2>3, WorkRests
<1> QED BY <1>6, <1>7

(* A thread takes a piece, whose first chunk nobody has had. *)
LEMMA WorkTaken ==
  ASSUME FullInv, IInv, NEW t \in Threads, TakeRange(t)
  PROVE  WorkInv'
<1>1. PICK q \in Problems : q = job
  BY DEF IInv, SetupType
<1>2. PICK r \in ranges : Claim(t, r) /\ row' = [row EXCEPT ![t] = FirstRow(r[1])]
  BY DEF TakeRange
<1>3. /\ job' = job /\ lists' = lists /\ scan' = scan /\ found' = found /\ ordered' = ordered
      /\ givers' = givers /\ ran' = ran /\ stage = "parallel" /\ held[t] = Idle
      /\ held' = [held EXCEPT ![t] = r]
  BY <1>2 DEF TakeRange, Claim, Busy
<1>4. /\ DOMAIN held = Threads /\ size = NChunks /\ NChunks \in Nat /\ NChunks' = NChunks
      /\ \A u \in Threads : held[u][1] \in Int /\ held[u][2] \in Int
      /\ \A u \in Threads : Working(u) => held[u][1] < held[u][2]
  <2>1. DispatchTypeOK /\ CallInv
    BY DEF FullInv, Sound
  <2>2. \A u \in Threads : Working(u) => u \in Busy
    BY DEF Working, Busy
  <2>3. NChunks \in Nat /\ NChunks' = NChunks
    BY <1>1, <1>3, ChunkPlaces DEF NChunks
  <2>4. \A u \in Threads : held[u] \in (0 .. size) \X (0 .. size)
    BY <2>1 DEF DispatchTypeOK
  <2> QED BY <1>3, <2>1, <2>2, <2>3, <2>4 DEF DispatchTypeOK, CallInv
<1>5. PICK c \in 0 .. NChunks - 1, e \in Int : r = <<c, e>> /\ c < e
  <2>1. r \in (0 .. size) \X (0 .. size) /\ r[1] < r[2]
    BY DEF FullInv, Sound, DispatchTypeOK, Shape
  <2>2. PICK a \in 0 .. size, b \in 0 .. size : r = <<a, b>> /\ a < b
    BY <2>1
  <2>3. a \in 0 .. NChunks - 1
    BY <1>4, <2>2
  <2> QED BY <1>4, <2>2, <2>3
<1>6. c \notin ran
  <2>1. In(r, c)
    BY <1>4, <1>5 DEF In
  <2> QED BY <2>1 DEF FullInv, Sound, Fresh
<1>7. ASSUME NEW u \in Threads, On(u, c) PROVE FALSE
  <2>1. Apart(r, held[u])
    BY DEF FullInv, Sound, Separate
  <2>2. held[u][1] = c /\ c < held[u][2] /\ held[u][2] \in Int /\ r[1] = c /\ r[2] = e
    BY <1>4, <1>5, <1>7 DEF On
  <2> QED BY <1>4, <1>5, <2>1, <2>2 DEF Apart
<1>8. /\ WorkInv /\ \A u \in Threads : ThreadInv(u)
      /\ \A d \in 0 .. NChunks - 1 : ListInv(d)
      /\ DOMAIN row = Threads
  BY DEF FullInv, WorkInv
<1>9. /\ held'[t] = <<c, e>> /\ row'[t] = FirstRow(c)
      /\ \A u \in Threads : u # t => held'[u] = held[u] /\ row'[u] = row[u]
  BY <1>2, <1>3, <1>4, <1>5, <1>8
<1>10. ChunkShape(q, c)
  BY <1>1, <1>5, ChunkPlaces
<1>11. ThreadInv(t)'
  <2>1. Working(t)' /\ held'[t][1] = c
    <3>1. <<c, e>> # <<0, 0>>
      BY <1>4, <1>5
    <3> QED BY <1>9, <3>1 DEF Working, Idle
  <2>2. row[t] = NoRow /\ scan[t] = 1
    <3>1. ~ Working(t)
      BY <1>3 DEF Working
    <3>2. row[t] = NoRow
      BY <1>8, <3>1 DEF ThreadInv
    <3>3. ~ InChunk(t)
      BY <3>2 DEF InChunk
    <3> QED BY <1>8, <3>2, <3>3 DEF ThreadInv
  <2>3. row'[t] \in FirstRow(c) .. RowsEnd(c) /\ row'[t] # NoRow /\ RowsEnd(c)' = RowsEnd(c)
    <3>1. FirstRow(c) \in Nat /\ RowsEnd(c) \in Nat /\ FirstRow(c) <= RowsEnd(c)
      BY <1>10 DEF ChunkShape
    <3> QED BY <1>3, <1>9, <3>1 DEF NoRow, RowsEnd, LastRow
  <2> QED BY <1>3, <1>8, <2>1, <2>2, <2>3 DEF ThreadInv, SingleExact
<1>12. ASSUME NEW u \in Threads, u # t PROVE ThreadInv(u)'
  BY <1>3, <1>8, <1>9, <1>12, ThreadKept
<1>13. ASSUME NEW d \in 0 .. NChunks - 1 PROVE ListInv(d)'
  <2>1. CASE d = c
    <3>1. lists[c] = <<>>
      BY <1>6, <1>7, <1>8, <1>5 DEF ListInv
    <3>2. ASSUME NEW u \in Threads, On(u, c)' PROVE u = t
      <4>1. CASE u # t
        <5>1. On(u, c)
          BY <1>9, <3>2, <4>1 DEF On, Working
        <5> QED BY <1>7, <5>1
      <4> QED BY <4>1
    <3>3. Listed(q, <<>>, FirstRow(c), FirstRow(c))
      <4>1. FirstRow(c) \in Int /\ FirstRow(c) <= FirstRow(c)
        BY <1>10 DEF ChunkShape
      <4> QED BY <4>1, ListedNothing
    <3>4. ~ (\A u \in Threads : ~ On(u, c)')
      <4>1. <<c, e>> # <<0, 0>> /\ held'[t][1] = c
        BY <1>4, <1>5, <1>9
      <4> QED BY <1>9, <4>1 DEF On, Working, Idle
    <3>5. c \notin ran' /\ lists'[c] = <<>>
      BY <1>3, <1>6, <3>1
    <3> QED BY <1>1, <1>3, <1>9, <2>1, <3>2, <3>3, <3>4, <3>5 DEF ListInv
  <2>2. CASE d # c
    <3>1. \A u \in Threads : (On(u, d)' <=> On(u, d)) /\ (On(u, d) => row'[u] = row[u])
      <4> SUFFICES ASSUME NEW u \in Threads
                   PROVE  (On(u, d)' <=> On(u, d)) /\ (On(u, d) => row'[u] = row[u])
        OBVIOUS
      <4>1. CASE u = t
        BY <1>3, <1>5, <1>9, <2>2, <4>1 DEF On, Working
      <4>2. CASE u # t
        BY <1>9, <4>2 DEF On, Working
      <4> QED BY <4>1, <4>2
    <3> QED BY <1>3, <1>8, <3>1, ListKept
  <2> QED BY <2>1, <2>2
<1>14. DOMAIN row' = Threads
  BY <1>2, <1>8
<1> QED BY <1>3, <1>4, <1>8, <1>11, <1>12, <1>13, <1>14 DEF WorkInv

(* A thread scans one more pass for its record. *)
LEMMA WorkScans ==
  ASSUME FullInv, IInv, NEW t \in Threads, ScanPass(t)
  PROVE  WorkInv'
<1>1. PICK q \in Problems : q = job
  BY DEF IInv, SetupType
<1>2. PICK c : c = held[t][1]
  OBVIOUS
<1>3. /\ InChunk(t) /\ ~ SingleExact /\ scan[t] <= Len(q.x)
      /\ job' = job /\ held' = held /\ ran' = ran /\ row' = row /\ lists' = lists
  BY <1>1 DEF ScanPass, dispatch_vars
<1>4. AtWork(q, t, c)
  BY <1>1, <1>2, <1>3, ThreadAtWork DEF InChunk
<1>5. /\ WorkInv /\ \A u \in Threads : ThreadInv(u)
      /\ \A d \in 0 .. NChunks - 1 : ListInv(d)
  BY DEF FullInv, WorkInv
<1>6. PICK n \in DOMAIN q.x : n = scan[t] /\ n \in Nat \ {0} /\ n + 1 <= Len(q.x) + 1
  <2>1. scan[t] \in 1 .. Len(q.x) + 1 /\ DOMAIN q.x = 1 .. Len(q.x) /\ Len(q.x) \in Nat
    BY <1>1, <1>5, ProblemShape DEF ThreadInv
  <2> QED BY <1>3, <2>1
<1>7. PICK i \in 0 .. q.nx - 1 : i = row[t]
  <2>1. PICK b \in Nat, a \in Nat : a = FirstRow(c) /\ b = RowsEnd(c) /\ b <= q.nx
    BY <1>4 DEF AtWork, ChunkShape
  <2>2. row[t] \in a .. b /\ row[t] < b
    BY <1>3, <1>4, <2>1 DEF AtWork
  <2>3. q.nx \in Nat
    BY PairsAssumption
  <2> QED BY <2>1, <2>2, <2>3
<1>8. PICK w, u, v, o, g :
        /\ w = Partners(n, i) /\ u = found[t] /\ v = Tagged(w, n)
        /\ o = ordered[t] /\ g = givers[t]
  OBVIOUS
<1>9. PartnerList(q, n, i, w)
  BY <1>1, <1>4, <1>8, PartnersExact DEF AtWork
<1>10. FoundIn(q, i, u, n, o) /\ g \in Nat /\ o \in BOOLEAN /\ (g = 0 => u = <<>>)
  <2>1. CASE n = 1
    <3>1. u = <<>> /\ o = TRUE /\ g = 0
      BY <1>5, <1>6, <1>8, <2>1 DEF ThreadInv
    <3> QED BY <2>1, <3>1, FoundStart
  <2>2. CASE n # 1
    BY <1>1, <1>5, <1>6, <1>7, <1>8, <2>2 DEF ThreadInv
  <2> QED BY <2>1, <2>2
<1>11. /\ DOMAIN found = Threads /\ DOMAIN ordered = Threads /\ DOMAIN givers = Threads
       /\ DOMAIN scan = Threads
  BY <1>5 DEF WorkInv
<1>12. /\ scan' = [scan EXCEPT ![t] = n + 1]
       /\ found' = [found EXCEPT ![t] = u \o v]
       /\ w = <<>> => givers' = givers /\ ordered' = ordered
       /\ w # <<>> => /\ givers' = [givers EXCEPT ![t] = g + 1]
                      /\ ordered' = [ordered EXCEPT ![t] = o /\ givers'[t] = 1 /\ job.half = 0]
  <2>1. Tagged(w, n) = [k \in DOMAIN w |-> <<w[k], n>>]
    BY DEF Tagged
  <2> QED BY <1>6, <1>7, <1>8, <2>1 DEF ScanPass
<1>13. PICK still \in BOOLEAN : /\ ordered'[t] = still
                                /\ still => IF w = <<>> THEN o ELSE u = <<>> /\ q.half = 0
  <2>1. CASE w = <<>>
    BY <1>8, <1>10, <1>12, <2>1
  <2>2. CASE w # <<>>
    <3>1. givers'[t] = g + 1
      BY <1>11, <1>12, <2>2
    <3>2. ordered'[t] = (o /\ givers'[t] = 1 /\ job.half = 0)
      BY <1>11, <1>12, <2>2
    <3>3. givers'[t] = 1 => u = <<>>
      BY <1>10, <3>1
    <3> QED BY <1>1, <2>2, <3>2, <3>3
  <2> QED BY <2>1, <2>2
<1>14. FoundIn(q, i, u \o v, n + 1, still)
  BY <1>8, <1>9, <1>10, <1>13, FoundStep
<1>15. givers'[t] \in Nat /\ (givers'[t] = 0 => u \o v = <<>>)
  <2>1. CASE w = <<>>
    <3>1. givers'[t] = g
      BY <1>8, <1>12, <2>1
    <3>2. v = <<>>
      <4>1. DOMAIN w = {}
        BY <2>1
      <4> QED BY <1>8, <2>1, <4>1 DEF Tagged
    <3>3. g = 0 => u \o v = <<>>
      BY <1>10, <3>2
    <3> QED BY <1>10, <3>1, <3>3
  <2>2. CASE w # <<>>
    <3>1. givers'[t] = g + 1
      BY <1>11, <1>12, <2>2
    <3> QED BY <1>10, <3>1
  <2> QED BY <2>1, <2>2
<1>16. ThreadInv(t)'
  <2>1. scan'[t] = n + 1 /\ found'[t] = u \o v /\ ordered'[t] = still
    BY <1>11, <1>12, <1>13
  <2>2. n + 1 \in 1 .. Len(job'.x) + 1 /\ n + 1 # 1
    <3>1. Len(q.x) \in Nat
      BY ProblemShape
    <3> QED BY <1>1, <1>3, <1>6, <3>1
  <2>3. InChunk(t)' /\ ~ SingleExact' /\ (Working(t)' <=> Working(t)) /\ RowsEnd(c)' = RowsEnd(c)
    BY <1>3 DEF InChunk, SingleExact, Working, RowsEnd, LastRow
  <2>4. FoundIn(job', row'[t], found'[t], scan'[t], ordered'[t])
    BY <1>1, <1>3, <1>7, <1>14, <2>1
  <2>5. /\ row'[t] # NoRow <=> Working(t)'
        /\ Working(t)' => row'[t] \in (FirstRow(held[t][1]) .. RowsEnd(held[t][1]))'
    <3>1. RowsEnd(held[t][1])' = RowsEnd(held[t][1]) /\ FirstRow(held[t][1])' = FirstRow(held[t][1])
      BY <1>3 DEF RowsEnd, LastRow, FirstRow
    <3>2. /\ row[t] # NoRow <=> Working(t)
          /\ Working(t) => row[t] \in FirstRow(held[t][1]) .. RowsEnd(held[t][1])
      BY <1>5 DEF ThreadInv
    <3> QED BY <1>3, <2>3, <3>1, <3>2
  <2> QED BY <1>13, <1>15, <2>1, <2>2, <2>3, <2>4, <2>5 DEF ThreadInv
<1>17. ASSUME NEW z \in Threads, z # t PROVE ThreadInv(z)'
  <2>1. /\ scan'[z] = scan[z] /\ found'[z] = found[z] /\ ordered'[z] = ordered[z]
        /\ givers'[z] = givers[z]
    BY <1>11, <1>12, <1>17
  <2> QED BY <1>3, <1>5, <2>1, ThreadKept
<1>18. NChunks' = NChunks
  BY <1>3 DEF NChunks
<1>19. ASSUME NEW d \in 0 .. NChunks - 1 PROVE ListInv(d)'
  <2>1. \A z \in Threads : (On(z, d)' <=> On(z, d)) /\ (On(z, d) => row'[z] = row[z])
    BY <1>3 DEF On, Working
  <2> QED BY <1>3, <1>5, <2>1, ListKept
<1>20. /\ DOMAIN found' = Threads /\ DOMAIN ordered' = Threads /\ DOMAIN givers' = Threads
       /\ DOMAIN scan' = Threads
  BY <1>11, <1>12
<1> QED BY <1>3, <1>5, <1>16, <1>17, <1>18, <1>19, <1>20 DEF WorkInv

(* There is a pass. *)
LEMMA SomePasses ==
  ASSUME NEW q \in Problems
  PROVE  Len(q.x) \in Nat \ {0}
<1>1. q.x \in Seq([0 .. q.nx - 1 -> Nat]) /\ Len(q.x) > 0
  BY PairsAssumption
<1>2. Len(q.x) \in Nat
  BY <1>1
<1> QED BY <1>1, <1>2

(* A thread that has scanned nothing yet for the record it is at. *)
LEMMA ThreadFresh ==
  ASSUME NEW q \in Problems, job' = q, NEW t,
         scan'[t] = 1, found'[t] = <<>>, ordered'[t] = TRUE, givers'[t] = 0,
         row'[t] # NoRow <=> Working(t)',
         Working(t)' => row'[t] \in (FirstRow(held[t][1]) .. RowsEnd(held[t][1]))'
  PROVE  ThreadInv(t)'
<1>1. scan'[t] \in 1 .. Len(job'.x) + 1
  BY SomePasses
<1>2. ordered'[t] \in BOOLEAN
  <2>1. TRUE \in BOOLEAN
    OBVIOUS
  <2> QED BY <2>1, Zenon
<1>3. givers'[t] \in Nat
  OBVIOUS
<1> QED BY <1>1, <1>2, <1>3, Zenon DEF ThreadInv

(* A thread's record becomes the next one, its pairs go to the chunk's list.  *)
RowListed(q, t, c, i, e) ==
  /\ held' = held /\ ran' = ran /\ job' = job
  /\ row' = [row EXCEPT ![t] = i + 1]
  /\ lists' = [lists EXCEPT ![c] = @ \o e]
  /\ Listed(q, e, i, i + 1)
  /\ \A u \in Threads : u # t =>
       /\ scan'[u] = scan[u] /\ found'[u] = found[u] /\ ordered'[u] = ordered[u]
       /\ givers'[u] = givers[u]
  /\ scan'[t] = 1 /\ found'[t] = <<>> /\ ordered'[t] = TRUE /\ givers'[t] = 0
  /\ DOMAIN found' = Threads /\ DOMAIN ordered' = Threads /\ DOMAIN givers' = Threads
  /\ DOMAIN scan' = Threads

(* Listing a record's pairs keeps the work, whatever way they were found. *)
LEMMA WorkListed ==
  ASSUME FullInv, NEW q \in Problems, q = job, NEW t \in Threads, InChunk(t), NEW e,
         RowListed(q, t, held[t][1], row[t], e)
  PROVE  WorkInv'
<1>1. PICK c : c = held[t][1]
  OBVIOUS
<1>2. AtWork(q, t, c)
  BY <1>1, ThreadAtWork DEF InChunk
<1>3. PICK a \in Nat, b \in Nat : a = FirstRow(c) /\ b = RowsEnd(c) /\ b <= q.nx
  BY <1>2 DEF AtWork, ChunkShape
<1>4. PICK i \in a .. b : i = row[t] /\ i < b /\ i + 1 \in a .. b
  <2>1. row[t] \in a .. b /\ row[t] < b
    BY <1>2, <1>3 DEF AtWork
  <2> QED BY <2>1
<1>5. /\ WorkInv /\ \A u \in Threads : ThreadInv(u)
      /\ \A d \in 0 .. NChunks - 1 : ListInv(d)
      /\ DOMAIN row = Threads /\ DOMAIN lists = 0 .. NChunks - 1
  BY DEF FullInv, WorkInv
<1>6. /\ held' = held /\ ran' = ran /\ job' = q /\ NChunks' = NChunks
      /\ DOMAIN row' = Threads /\ DOMAIN lists' = 0 .. NChunks - 1
      /\ row'[t] = i + 1 /\ \A u \in Threads : u # t => row'[u] = row[u]
      /\ c \in 0 .. NChunks - 1
      /\ lists'[c] = lists[c] \o e
      /\ \A d \in 0 .. NChunks - 1 : d # c => lists'[d] = lists[d]
  BY <1>1, <1>2, <1>4, <1>5 DEF RowListed, NChunks, AtWork
<1>7. FirstRow(c)' = a /\ RowsEnd(c)' = b
  BY <1>3, <1>6 DEF FirstRow, RowsEnd, LastRow
<1>8. ThreadInv(t)'
  <2>1. Working(t)' /\ row'[t] # NoRow
    <3>1. Working(t)
      BY <1>2 DEF AtWork, On
    <3> QED BY <1>4, <1>6, <3>1 DEF Working, NoRow
  <2>2. row'[t] \in (FirstRow(held[t][1]) .. RowsEnd(held[t][1]))'
    BY <1>1, <1>4, <1>6, <1>7
  <2>3. scan'[t] = 1 /\ found'[t] = <<>> /\ ordered'[t] = TRUE /\ givers'[t] = 0
    BY DEF RowListed
  <2> QED BY <1>6, <2>1, <2>2, <2>3, ThreadFresh
<1>9. ASSUME NEW u \in Threads, u # t PROVE ThreadInv(u)'
  BY <1>5, <1>6, <1>9, ThreadKept DEF RowListed
<1>10. ListInv(c)'
  <2>1. Listed(q, lists[c] \o e, a, i + 1)
    <3>1. Listed(q, lists[c], a, i)
      BY <1>2, <1>3, <1>4, <1>5, <1>6 DEF AtWork, ListInv
    <3>2. Listed(q, e, i, i + 1)
      BY <1>4 DEF RowListed
    <3> QED BY <1>4, <3>1, <3>2, ListedJoins
  <2>2. c \notin ran' /\ On(t, c)'
    BY <1>2, <1>6 DEF AtWork, On, Working
  <2>3. ASSUME NEW u \in Threads, On(u, c)' PROVE u = t
    <3>1. On(u, c)
      BY <1>6, <2>3 DEF On, Working
    <3> QED BY <1>2, <3>1 DEF AtWork
  <2> QED BY <1>6, <1>7, <2>1, <2>2, <2>3 DEF ListInv
<1>11. ASSUME NEW d \in 0 .. NChunks - 1, d # c PROVE ListInv(d)'
  <2>1. \A u \in Threads : (On(u, d)' <=> On(u, d)) /\ (On(u, d) => row'[u] = row[u])
    BY <1>1, <1>6, <1>11 DEF On, Working
  <2> QED BY <1>5, <1>6, <1>11, <2>1, ListKept
<1> QED BY <1>5, <1>6, <1>8, <1>9, <1>10, <1>11 DEF WorkInv, RowListed

(* The record of a thread in a chunk is one of the problem. *)
LEMMA RowInside ==
  ASSUME FullInv, NEW q \in Problems, q = job, NEW t \in Threads, InChunk(t)
  PROVE  row[t] \in 0 .. q.nx - 1
<1>1. PICK c : c = held[t][1]
  OBVIOUS
<1>2. AtWork(q, t, c)
  BY <1>1, ThreadAtWork DEF InChunk
<1>3. PICK b \in Nat, a \in Nat : a = FirstRow(c) /\ b = RowsEnd(c) /\ b <= q.nx
  BY <1>2 DEF AtWork, ChunkShape
<1>4. row[t] \in a .. b /\ row[t] < b
  BY <1>2, <1>3 DEF AtWork
<1>5. q.nx \in Nat
  BY PairsAssumption
<1> QED BY <1>3, <1>4, <1>5

(* All passes scanned, the record's partners are merged and listed. *)
LEMMA WorkEmits ==
  ASSUME FullInv, IInv, NEW t \in Threads, EmitRow(t)
  PROVE  WorkInv'
<1>1. PICK q \in Problems : q = job
  BY DEF IInv, SetupType
<1>2. PICK c, u, o, r : /\ c = held[t][1] /\ u = found[t] /\ o = ordered[t]
                        /\ r = IF o THEN u ELSE FirstOfEach(u)
  OBVIOUS
<1>3. InChunk(t) /\ scan[t] > Len(q.x) /\ job' = job /\ held' = held /\ ran' = ran
  BY <1>1 DEF EmitRow, dispatch_vars
<1>4. PICK i \in 0 .. q.nx - 1 : i = row[t]
  BY <1>1, <1>3, RowInside
<1>5. WorkInv /\ ThreadInv(t)
  BY DEF FullInv, WorkInv
<1>6. o \in BOOLEAN /\ FoundIn(q, i, u, Len(q.x) + 1, o)
  <2>1. scan[t] \in 1 .. Len(q.x) + 1 /\ Len(q.x) \in Nat \ {0}
    BY <1>1, <1>5, SomePasses DEF ThreadInv
  <2>2. scan[t] = Len(q.x) + 1 /\ scan[t] # 1
    BY <1>3, <2>1
  <2> QED BY <1>1, <1>2, <1>4, <1>5, <2>2 DEF ThreadInv
<1>7. Listed(q, Tripled(i, r), i, i + 1)
  BY <1>2, <1>6, EmitExact
<1>8. lists' = [lists EXCEPT ![c] = @ \o Tripled(i, r)]
  <2>1. Tripled(i, r) = [k \in DOMAIN r |-> <<i, r[k][1], r[k][2]>>]
    BY DEF Tripled
  <2> QED BY <1>2, <1>4, <2>1 DEF EmitRow
<1>9. RowListed(q, t, c, i, Tripled(i, r))
  <2>1. /\ DOMAIN found = Threads /\ DOMAIN ordered = Threads /\ DOMAIN givers = Threads
        /\ DOMAIN scan = Threads
    BY <1>5 DEF WorkInv
  <2>2. /\ row' = [row EXCEPT ![t] = i + 1] /\ scan' = [scan EXCEPT ![t] = 1]
        /\ found' = [found EXCEPT ![t] = <<>>] /\ ordered' = [ordered EXCEPT ![t] = TRUE]
        /\ givers' = [givers EXCEPT ![t] = 0]
    BY <1>4 DEF EmitRow
  <2> QED BY <1>3, <1>7, <1>8, <2>1, <2>2 DEF RowListed
<1> QED BY <1>1, <1>2, <1>3, <1>4, <1>9, WorkListed

(* One exact pass: what is listed is the block, cut above the record. *)
LEMMA WorkExact ==
  ASSUME FullInv, IInv, NEW t \in Threads, ExactRow(t)
  PROVE  WorkInv'
<1>1. PICK q \in Problems : q = job
  BY DEF IInv, SetupType
<1>2. PICK c : c = held[t][1]
  OBVIOUS
<1>3. /\ InChunk(t) /\ Len(q.x) = 1 /\ q.half = 0 /\ job' = job /\ held' = held /\ ran' = ran
      /\ scan' = scan /\ found' = found /\ ordered' = ordered /\ givers' = givers
      /\ SingleExact
  BY <1>1 DEF ExactRow, dispatch_vars, SingleExact
<1>4. PICK i \in 0 .. q.nx - 1 : i = row[t]
  BY <1>1, <1>3, RowInside
<1>5. WorkInv /\ ThreadInv(t)
  BY DEF FullInv, WorkInv
<1>6. PICK w : w = ExactPartners(i) /\ PartnerList(q, 1, i, w)
  <2>1. 1 \in DOMAIN q.x
    BY <1>3, ProblemShape
  <2>2. Table(q, 1, offsets[1], members[1], skipped[1])
    <3>1. AtWork(q, t, c)
      BY <1>1, <1>2, <1>3, ThreadAtWork DEF InChunk
    <3> QED BY <2>1, <3>1 DEF AtWork
  <2>3. PICK p : p = 1 /\ p \in DOMAIN q.x /\ Table(q, p, offsets[p], members[p], skipped[p])
    BY <2>1, <2>2
  <2>4. PartnerList(q, p, i, ExactPartners(i))
    BY <1>1, <1>3, <2>3, SuffixExact
  <2> QED BY <2>3, <2>4
<1>7. PICK e : e = [k \in DOMAIN w |-> <<i, w[k], 1>>] /\ Listed(q, e, i, i + 1)
  BY <1>3, <1>6, EmitSingle
<1>8. lists' = [lists EXCEPT ![c] = @ \o e] /\ row' = [row EXCEPT ![t] = i + 1]
  BY <1>2, <1>4, <1>6, <1>7 DEF ExactRow
<1>9. /\ scan[t] = 1 /\ found[t] = <<>> /\ ordered[t] = TRUE /\ givers[t] = 0
      /\ DOMAIN found = Threads /\ DOMAIN ordered = Threads /\ DOMAIN givers = Threads
      /\ DOMAIN scan = Threads
  BY <1>3, <1>5 DEF ThreadInv, WorkInv
<1>10. RowListed(q, t, c, i, e)
  BY <1>3, <1>7, <1>8, <1>9 DEF RowListed
<1> QED BY <1>1, <1>2, <1>3, <1>4, <1>10, WorkListed

(* A chunk is done: its list is, and the next of the thread's piece begins. *)
LEMMA WorkEnds ==
  ASSUME FullInv, IInv, NEW t \in Threads, EndChunk(t)
  PROVE  WorkInv'
<1>1. PICK q \in Problems : q = job
  BY DEF IInv, SetupType
<1>2. PICK c, z : c = held[t][1] /\ z = held[t][2]
  OBVIOUS
<1>3. /\ row[t] # NoRow /\ ~ InChunk(t) /\ Run(t) /\ job' = job /\ lists' = lists
      /\ scan' = scan /\ found' = found /\ ordered' = ordered /\ givers' = givers
      /\ row' = [row EXCEPT ![t] = IF held'[t] = Idle THEN NoRow ELSE FirstRow(held'[t][1])]
  BY DEF EndChunk
<1>4. AtWork(q, t, c)
  BY <1>1, <1>2, <1>3, ThreadAtWork
<1>5. PICK a \in Nat, b \in Nat : a = FirstRow(c) /\ b = RowsEnd(c) /\ a < b
  BY <1>4 DEF AtWork, ChunkShape
<1>6. row[t] = b
  <2>1. row[t] \in a .. b /\ ~ (row[t] < b)
    BY <1>3, <1>4, <1>5 DEF AtWork
  <2> QED BY <2>1
<1>7. /\ WorkInv /\ \A u \in Threads : ThreadInv(u)
      /\ \A d \in 0 .. NChunks - 1 : ListInv(d)
      /\ DOMAIN row = Threads
  BY DEF FullInv, WorkInv
<1>8. /\ DOMAIN held = Threads /\ NChunks \in Nat /\ NChunks' = NChunks
      /\ c \in Nat /\ z \in Nat /\ c < z /\ z <= NChunks /\ c \in 0 .. NChunks - 1
  <2>1. DispatchTypeOK /\ stage # "idle"
    BY <1>3 DEF FullInv, Sound, Shape, Run, Busy
  <2>2. size = NChunks
    BY <2>1 DEF FullInv, CallInv
  <2>3. held[t] \in (0 .. size) \X (0 .. size) /\ held[t][1] < held[t][2]
    BY <1>3, <2>1 DEF DispatchTypeOK, Run
  <2>4. NChunks \in Nat /\ NChunks' = NChunks
    BY <1>1, <1>3, ChunkPlaces DEF NChunks
  <2> QED BY <1>2, <1>4, <2>1, <2>2, <2>3, <2>4 DEF DispatchTypeOK, AtWork
<1>9. /\ ran' = ran \cup {c}
      /\ held'[t] = (IF c + 1 = z THEN Idle ELSE <<c + 1, z>>)
      /\ row'[t] = (IF held'[t] = Idle THEN NoRow ELSE FirstRow(held'[t][1]))
      /\ \A u \in Threads : u # t => held'[u] = held[u] /\ row'[u] = row[u]
      /\ DOMAIN row' = Threads
  BY <1>2, <1>3, <1>7, <1>8 DEF Run
<1>10. scan[t] = 1 /\ found[t] = <<>> /\ ordered[t] = TRUE /\ givers[t] = 0
  BY <1>3, <1>7 DEF ThreadInv
<1>11. CASE c + 1 = z
  <2>1. held'[t] = Idle /\ row'[t] = NoRow /\ ~ Working(t)'
    BY <1>9, <1>11 DEF Working
  <2>2. ThreadInv(t)'
    BY <1>1, <1>3, <1>10, <2>1, ThreadFresh
  <2>3. \A u \in Threads : \A d : On(u, d)' <=> u # t /\ On(u, d)
    BY <1>9, <2>1 DEF On, Working
  <2>4. ASSUME NEW d \in 0 .. NChunks - 1, d # c PROVE ListInv(d)'
    <3>1. \A u \in Threads : (On(u, d)' <=> On(u, d)) /\ (On(u, d) => row'[u] = row[u])
      <4>1. ~ On(t, d)
        BY <1>2, <2>4 DEF On
      <4> QED BY <1>9, <2>3, <4>1
    <3> QED BY <1>3, <1>7, <1>9, <2>4, <3>1, ListKept
  <2>5. ListInv(c)'
    <3>1. Listed(q, lists[c], FirstRow(c), RowsEnd(c))
      BY <1>1, <1>4, <1>5, <1>6, <1>7, <1>8 DEF AtWork, ListInv
    <3>2. c \in ran' /\ \A u \in Threads : ~ On(u, c)'
      BY <1>4, <1>9, <2>3 DEF AtWork
    <3>3. RowsEnd(c)' = RowsEnd(c)
      BY <1>3 DEF RowsEnd, LastRow
    <3> QED BY <1>1, <1>3, <3>1, <3>2, <3>3 DEF ListInv
  <2>6. ASSUME NEW u \in Threads, u # t PROVE ThreadInv(u)'
    BY <1>3, <1>7, <1>9, <2>6, ThreadKept
  <2> QED BY <1>3, <1>7, <1>8, <1>9, <2>2, <2>4, <2>5, <2>6 DEF WorkInv
<1>12. CASE c + 1 # z
  <2>1. PICK n \in 0 .. NChunks - 1 : n = c + 1 /\ n < z /\ n # c
    <3>1. c + 1 \in 0 .. NChunks - 1 /\ c + 1 < z /\ c + 1 # c
      BY <1>8, <1>12
    <3> QED BY <3>1
  <2>2. held'[t] = <<n, z>> /\ row'[t] = FirstRow(n) /\ Working(t)' /\ held'[t][1] = n
    <3>1. <<n, z>> # <<0, 0>>
      BY <1>8, <2>1
    <3>2. held'[t] = <<n, z>>
      BY <1>9, <1>12, <2>1
    <3> QED BY <1>9, <3>1, <3>2 DEF Working, Idle
  <2>3. FirstRow(n) \in Nat /\ RowsEnd(n) \in Nat /\ FirstRow(n) <= RowsEnd(n) /\ RowsEnd(n)' = RowsEnd(n)
    <3>1. ChunkShape(q, n)
      BY <1>1, <2>1, ChunkPlaces
    <3>2. RowsEnd(n)' = RowsEnd(n)
      BY <1>3 DEF RowsEnd, LastRow
    <3> QED BY <3>1, <3>2 DEF ChunkShape
  <2>4. ThreadInv(t)'
    <3>1. row'[t] # NoRow /\ row'[t] \in FirstRow(n) .. RowsEnd(n)
      BY <2>2, <2>3 DEF NoRow
    <3>2. row'[t] \in (FirstRow(held[t][1]) .. RowsEnd(held[t][1]))'
      BY <2>2, <2>3, <3>1 DEF FirstRow
    <3> QED BY <1>1, <1>3, <1>10, <2>2, <3>1, <3>2, ThreadFresh
  <2>5. \A u \in Threads : \A d : On(u, d)' <=> (u # t /\ On(u, d)) \/ (u = t /\ d = n)
    BY <1>9, <2>2 DEF On, Working
  <2>6. n \notin ran /\ \A u \in Threads : ~ On(u, n)
    <3>1. n \notin ran
      <4>1. In(held[t], n)
        BY <1>2, <1>8, <2>1 DEF In
      <4> QED BY <4>1 DEF FullInv, Sound, Fresh
    <3>2. ASSUME NEW u \in Threads, On(u, n) PROVE FALSE
      <4>1. u # t
        BY <1>2, <2>1, <3>2 DEF On
      <4>2. Apart(held[t], held[u]) /\ DispatchTypeOK
        BY <4>1 DEF FullInv, Sound, Separate
      <4>3. u \in Busy
        BY <3>2 DEF On, Busy, Working
      <4>4. held[u][1] = n /\ n < held[u][2] /\ held[u][2] \in Int
        BY <3>2, <4>2, <4>3 DEF On, DispatchTypeOK
      <4> QED BY <1>2, <1>8, <2>1, <4>2, <4>4 DEF Apart
    <3> QED BY <3>1, <3>2
  <2>7. ASSUME NEW d \in 0 .. NChunks - 1, d # c, d # n PROVE ListInv(d)'
    <3>1. \A u \in Threads : (On(u, d)' <=> On(u, d)) /\ (On(u, d) => row'[u] = row[u])
      <4>1. ~ On(t, d)
        BY <1>2, <2>7 DEF On
      <4> QED BY <1>9, <2>5, <2>7, <4>1
    <3> QED BY <1>3, <1>7, <1>9, <2>7, <3>1, ListKept
  <2>8. ListInv(c)'
    <3>1. Listed(q, lists[c], FirstRow(c), RowsEnd(c))
      BY <1>1, <1>4, <1>5, <1>6, <1>7, <1>8 DEF AtWork, ListInv
    <3>2. c \in ran' /\ \A u \in Threads : ~ On(u, c)'
      BY <1>4, <1>9, <2>1, <2>5 DEF AtWork
    <3>3. RowsEnd(c)' = RowsEnd(c)
      BY <1>3 DEF RowsEnd, LastRow
    <3> QED BY <1>1, <1>3, <3>1, <3>2, <3>3 DEF ListInv
  <2>9. ListInv(n)'
    <3>1. lists'[n] = <<>> /\ n \notin ran' /\ On(t, n)'
      BY <1>3, <1>7, <1>9, <2>1, <2>5, <2>6 DEF ListInv
    <3>2. \A u \in Threads : On(u, n)' => u = t
      BY <2>5, <2>6
    <3>3. Listed(q, <<>>, FirstRow(n), FirstRow(n))
      <4>1. FirstRow(n) \in Int /\ FirstRow(n) <= FirstRow(n)
        BY <2>3
      <4> QED BY <4>1, ListedNothing
    <3> QED BY <1>1, <1>3, <2>2, <3>1, <3>2, <3>3 DEF ListInv
  <2>10. ASSUME NEW u \in Threads, u # t PROVE ThreadInv(u)'
    BY <1>3, <1>7, <1>9, <2>10, ThreadKept
  <2> QED BY <1>3, <1>7, <1>8, <1>9, <2>4, <2>7, <2>8, <2>9, <2>10 DEF WorkInv
<1> QED BY <1>11, <1>12

-----------------------------------------------------------------------------
(* The lists of the pieces put one after another, one piece a step. *)
Gathering(f, s, n, S) ==
  /\ f \in [0 .. n -> Seq(S)] /\ f[0] = <<>> /\ FlattenSeq(s) = f[n]
  /\ \A i \in 1 .. n : f[i] = f[i - 1] \o s[i]

(* One such step, from the pieces before the i-th to those up to it. *)
GatheredBy(f, s, c, i) == f[i] = f[c] \o s[i]

(* Several lists are flattened one after another. *)
LEMMA GatheredBySteps ==
  ASSUME NEW S, NEW s \in Seq(Seq(S)), NEW n \in Nat, n = Len(s), n > 0
  PROVE  \E f : Gathering(f, s, n, S)
<1>1. Len(s) > 0
  OBVIOUS
<1>2. PICK f \in [0 .. Len(s) -> Seq(S)] :
        /\ f[0] = <<>> /\ \A i \in 1 .. Len(s) : f[i] = f[i - 1] \o s[i]
        /\ FlattenSeq(s) = f[Len(s)]
  BY <1>1, FlattenedBySteps
<1>3. Gathering(f, s, Len(s), S)
  BY <1>2 DEF Gathering
<1> QED BY <1>3

(* The first list is the first step, *)
LEMMA GatheredFirst ==
  ASSUME NEW S, NEW s \in Seq(Seq(S)), NEW n \in Nat, n = Len(s), n > 0,
         NEW f, Gathering(f, s, n, S)
  PROVE  f[1] = s[1]
<1>1. 1 \in 1 .. n /\ 1 - 1 = 0
  OBVIOUS
<1>2. f[1] = f[1 - 1] \o s[1] /\ f[0] = <<>>
  BY <1>1 DEF Gathering
<1>3. s[1] \in Seq(S)
  BY <1>1
<1>4. <<>> \o s[1] = s[1]
  BY <1>3
<1> QED BY <1>1, <1>2, <1>4

(* and a later list follows those before it. *)
LEMMA GatheredNext ==
  ASSUME NEW S, NEW s, NEW n \in Nat, NEW f, Gathering(f, s, n, S),
         NEW i \in 1 .. n, NEW c, c = i - 1
  PROVE  GatheredBy(f, s, c, i)
<1>1. f[i] = f[i - 1] \o s[i]
  BY DEF Gathering
<1> QED BY <1>1 DEF GatheredBy

(* Every step of a call is, for its dispatch, one of dispatch_for(). *)
LEMMA PairsCallStep ==
  ASSUME IInv, [Next]_vars
  PROVE  CallStep
<1>1. CASE UNCHANGED dispatch_vars
  BY <1>1 DEF CallStep
<1>2. CASE Setup \/ Gather \/ UNCHANGED vars
  <2>1. UNCHANGED dispatch_vars
    BY <1>2 DEF Setup, CountRecord, AddUp, PlaceRecord, WeighBlock, NextPass, CheckBound,
         Gather, vars
  <2> QED BY <1>1, <2>1
<1>3. CASE Dispatch
  <2>1. PICK q \in Problems : q = job
    BY DEF IInv, SetupType
  <2>2. NChunks \in Nat /\ q.nthreads \in Int /\ 1 \in Nat
    BY <2>1, ChunkPlaces, PairsAssumption
  <2>3. Enter(NChunks, Work < Threshold, q.nthreads, 1)
    BY <1>3, <2>1 DEF Dispatch
  <2>4. \E small \in BOOLEAN : Enter(NChunks, small, q.nthreads, 1)
    <3>1. CASE Work < Threshold
      <4>1. Enter(NChunks, TRUE, q.nthreads, 1)
        BY <2>3, <3>1 DEF Enter, Serially
      <4> QED BY <4>1
    <3>2. CASE ~ (Work < Threshold)
      <4>1. Enter(NChunks, FALSE, q.nthreads, 1)
        BY <2>3, <3>2 DEF Enter, Serially
      <4> QED BY <4>1
    <3> QED BY <3>1, <3>2
  <2> QED BY <2>2, <2>4 DEF CallStep
<1>4. CASE Halve \/ Joined
  BY <1>4 DEF Halve, Joined, CallStep
<1>5. ASSUME NEW t \in Threads, ThreadStep(t) PROVE CallStep
  <2>1. CASE TakeRange(t)
    BY <2>1 DEF TakeRange, CallStep
  <2>2. CASE ScanPass(t) \/ EmitRow(t) \/ ExactRow(t)
    <3>1. UNCHANGED dispatch_vars
      BY <2>2 DEF ScanPass, EmitRow, ExactRow
    <3> QED BY <1>1, <3>1
  <2>3. CASE EndChunk(t)
    BY <2>3 DEF EndChunk, CallStep
  <2> QED BY <1>5, <2>1, <2>2, <2>3 DEF ThreadStep
<1> QED BY <1>2, <1>3, <1>4, <1>5 DEF Next, Caller

(* When the call has returned, the lists of the chunks in order are the    *)
(* pairs of all records.                                                   *)
LEMMA Gathered ==
  ASSUME FullInv, NEW q \in Problems, q = job, stage = "returned"
  PROVE  Listed(q, FlattenSeq([c \in 1 .. NChunks |-> lists[c - 1]]), 0, q.nx)
<1>1. PICK n \in Nat : n = NChunks
  BY ChunkPlaces
<1>2. PICK s : s = [c \in 1 .. n |-> lists[c - 1]]
  OBVIOUS
<1>3. ASSUME NEW c \in 0 .. n - 1 PROVE Listed(q, lists[c], FirstRow(c), RowsEnd(c))
  <2>1. ReturnsComplete /\ size = n
    BY <1>1, PiecesAsSets DEF FullInv, CallInv
  <2>2. c \in ran
    BY <2>1 DEF ReturnsComplete
  <2> QED BY <1>1, <2>2 DEF FullInv, WorkInv, ListInv
<1>4. CASE n = 0
  <2>1. q.nx = 0
    BY <1>1, <1>4, ChunkPlaces
  <2>2. s = <<>>
    BY <1>2, <1>4
  <2>3. FlattenSeq(s) = <<>>
    BY <2>2 DEF FlattenSeq
  <2>4. Listed(q, <<>>, 0, 0)
    BY ListedNothing
  <2> QED BY <1>1, <1>2, <2>1, <2>3, <2>4
<1>5. CASE n # 0
  <2>1. PICK S : S = Triples(q)
    OBVIOUS
  <2>2. \A c \in 1 .. n : c - 1 \in 0 .. n - 1 /\ s[c] = lists[c - 1] /\ s[c] \in Seq(S)
    <3> SUFFICES ASSUME NEW c \in 1 .. n
                 PROVE  c - 1 \in 0 .. n - 1 /\ s[c] = lists[c - 1] /\ s[c] \in Seq(S)
      OBVIOUS
    <3>1. c - 1 \in 0 .. n - 1 /\ s[c] = lists[c - 1]
      BY <1>2
    <3>2. Listed(q, lists[c - 1], FirstRow(c - 1), RowsEnd(c - 1))
      BY <1>3, <3>1
    <3> QED BY <2>1, <3>1, <3>2 DEF Listed
  <2>3. s \in Seq(Seq(S)) /\ Len(s) = n
    BY <1>2, <2>2
  <2>4. PICK f : Gathering(f, s, n, S)
    BY <1>5, <2>3, GatheredBySteps
  <2> DEFINE T == {k \in Nat : k <= n - 1 => Listed(q, f[k + 1], 0, RowsEnd(k))}
  <2>5. FirstRow(0) = 0
    <3>1. RowsPerChunk \in Nat
      BY PairsAssumption
    <3>2. 0 * RowsPerChunk = 0
      BY <3>1
    <3> QED BY <3>2 DEF FirstRow
  <2>6. 0 \in T
    <3>1. 1 \in 1 .. n /\ 0 \in 0 .. n - 1
      BY <1>5
    <3>2. f[1] = s[1]
      BY <1>5, <2>3, <2>4, GatheredFirst
    <3>3. f[1] = lists[0]
      BY <2>2, <3>1, <3>2
    <3>4. Listed(q, f[0 + 1], 0, RowsEnd(0))
      BY <1>3, <2>5, <3>1, <3>3
    <3> QED BY <3>4
  <2>7. ASSUME NEW k \in Nat, k \in T PROVE k + 1 \in T
    <3> SUFFICES ASSUME k + 1 <= n - 1 PROVE Listed(q, f[(k + 1) + 1], 0, RowsEnd(k + 1))
      OBVIOUS
    <3>1. PICK c \in 1 .. n - 1 : c = k + 1 /\ c - 1 = k /\ k \in 0 .. n - 1 /\ k # n - 1
      OBVIOUS
    <3>2. ChunkShape(q, k) /\ ChunkShape(q, c)
      BY <1>1, <3>1, ChunkPlaces
    <3>3. RowsEnd(k) = FirstRow(c) /\ RowsEnd(k) \in Nat /\ RowsEnd(c) \in Nat
          /\ FirstRow(c) <= RowsEnd(c)
      BY <1>1, <3>1, <3>2 DEF ChunkShape
    <3>4. Listed(q, f[c], 0, RowsEnd(k))
      BY <2>7, <3>1
    <3>5. Listed(q, lists[c], RowsEnd(k), RowsEnd(c))
      BY <1>3, <3>1, <3>3
    <3>6. f[c + 1] = f[c] \o lists[c]
      <4>1. PICK i \in 1 .. n : i = c + 1 /\ i - 1 = c /\ c = i - 1
        OBVIOUS
      <4>2. GatheredBy(f, s, c, i)
        BY <2>4, <4>1, GatheredNext
      <4>3. s[i] = lists[i - 1]
        BY <2>2
      <4> QED BY <4>1, <4>2, <4>3 DEF GatheredBy
    <3>7. Listed(q, f[c] \o lists[c], 0, RowsEnd(c))
      BY <3>3, <3>4, <3>5, ListedJoins
    <3> QED BY <3>1, <3>6, <3>7
  <2> HIDE DEF T
  <2>8. n - 1 \in T
    <3>1. n - 1 \in Nat
      BY <1>5
    <3> QED BY <2>6, <2>7, <3>1, SetInduction
  <2>9. RowsEnd(n - 1) = q.nx
    <3>1. ChunkShape(q, n - 1)
      BY <1>1, <1>5, ChunkPlaces
    <3> QED BY <1>1, <3>1 DEF ChunkShape
  <2>10. Listed(q, f[n], 0, q.nx)
    <3>1. n - 1 + 1 = n /\ n - 1 <= n - 1
      OBVIOUS
    <3> QED BY <2>8, <2>9, <3>1 DEF T
  <2>11. FlattenSeq(s) = f[n]
    BY <2>4 DEF Gathering
  <2> QED BY <1>1, <1>2, <2>10, <2>11
<1> QED BY <1>4, <1>5

(* How far the call is and what it answers, after each step. *)
LEMMA CallKept ==
  ASSUME IInv, FullInv, [Next]_vars
  PROVE  CallInv'
<1>1. PICK q \in Problems : q = job
  BY DEF IInv, SetupType
<1>2. CallInv /\ Shape
  BY DEF FullInv, Sound
<1>3. phase \in Preparing \cup Later
  BY DEF IInv, SetupType
<1>4. CASE CountRecord \/ AddUp \/ PlaceRecord \/ WeighBlock \/ NextPass
  <2>1. /\ stage' = stage /\ size' = size /\ answer' = answer /\ phase \in Preparing
        /\ phase' \in Preparing \cup {"check"}
    BY <1>4 DEF CountRecord, AddUp, PlaceRecord, WeighBlock, NextPass, dispatch_vars, Preparing
  <2> QED BY <1>2, <2>1 DEF CallInv, Preparing
<1>5. CASE CheckBound
  <2>1. stage' = stage /\ stage = "idle" /\ phase = "check" /\ answer = [kind |-> "pending"]
    BY <1>2, <1>5 DEF CheckBound, dispatch_vars, CallInv
  <2>2. \/ phase' = "done" /\ answer' = [kind |-> "stop"]
        \/ phase' = "dispatch" /\ answer' = answer
    BY <1>5 DEF CheckBound
  <2>3. CASE phase' = "done" /\ answer' = [kind |-> "stop"]
    <3>1. answer'.kind = "stop"
      BY <2>3
    <3> QED BY <2>1, <2>3, <3>1 DEF CallInv, Preparing
  <2>4. CASE phase' = "dispatch" /\ answer' = answer
    BY <2>1, <2>4 DEF CallInv, Preparing
  <2> QED BY <2>2, <2>3, <2>4
<1>6. CASE Dispatch
  <2>1. phase = "dispatch" /\ phase' = "pairs" /\ answer' = answer /\ job' = job /\ size' = NChunks
    BY <1>6 DEF Dispatch, Enter
  <2>2. NChunks' = NChunks
    BY <2>1 DEF NChunks
  <2> QED BY <1>2, <2>1, <2>2 DEF CallInv, Preparing
<1>7. CASE Gather
  <2>1. /\ phase = "pairs" /\ stage = "returned" /\ phase' = "done" /\ stage' = stage
        /\ size' = size /\ job' = job
        /\ answer'.pairs = FlattenSeq([c \in 1 .. NChunks |-> lists[c - 1]])
    BY <1>7 DEF Gather, dispatch_vars
  <2>2. NChunks' = NChunks
    BY <2>1 DEF NChunks
  <2>3. Listed(q, answer'.pairs, 0, q.nx)
    BY <1>1, <2>1, Gathered
  <2> QED BY <1>1, <1>2, <2>1, <2>2, <2>3 DEF CallInv, Preparing
<1>8. CASE /\ phase' = phase /\ answer' = answer /\ job' = job /\ size' = size
           /\ stage' = stage \/ (stage # "idle" /\ stage' # "idle")
  <2>1. NChunks' = NChunks
    BY <1>8 DEF NChunks
  <2> QED BY <1>2, <1>8, <2>1 DEF CallInv
<1>9. CASE Halve \/ Joined
  <2>1. /\ phase' = phase /\ answer' = answer /\ job' = job /\ size' = size
        /\ stage' = stage \/ (stage # "idle" /\ stage' # "idle")
    BY <1>9 DEF Halve, Joined, Split, Join
  <2> QED BY <1>8, <2>1
<1>10. ASSUME NEW t \in Threads, ThreadStep(t) PROVE CallInv'
  <2>1. phase' = phase /\ answer' = answer /\ job' = job /\ size' = size /\ stage' = stage
    BY <1>10 DEF ThreadStep, TakeRange, ScanPass, EmitRow, ExactRow, EndChunk, Claim, Run,
         dispatch_vars
  <2> QED BY <1>8, <2>1
<1>11. CASE UNCHANGED vars
  <2>1. phase' = phase /\ answer' = answer /\ job' = job /\ size' = size /\ stage' = stage
    BY <1>11 DEF vars, dispatch_vars
  <2> QED BY <1>8, <2>1
<1> QED BY <1>4, <1>5, <1>6, <1>7, <1>9, <1>10, <1>11 DEF Next, Caller, Setup

(* The tables, the dispatch, the call and the work at the start. *)
LEMMA FullInit ==
  ASSUME Init
  PROVE  FullInv
<1>1. IInv /\ TableInv /\ Sound
  <2>1. DispatchInit
    BY DEF Init
  <2> QED BY <2>1, InvInit, TableInit, SoundInit
<1>2. PICK q \in Problems : q = job
  BY DEF Init
<1>3. CallInv
  <2>1. stage = "idle" /\ phase = "count" /\ answer = [kind |-> "pending"]
    BY DEF Init, DispatchInit
  <2> QED BY <2>1 DEF CallInv
<1>4. \A t \in Threads : ThreadInv(t)
  <2> SUFFICES ASSUME NEW t \in Threads PROVE ThreadInv(t)
    OBVIOUS
  <2>1. row[t] = NoRow /\ ~ Working(t)
    BY DEF Init, DispatchInit, Working
  <2>2. scan[t] = 1 /\ found[t] = <<>> /\ givers[t] = 0
    BY DEF Init
  <2>3. ordered[t] = TRUE
    BY Zenon DEF Init
  <2>4. scan[t] \in 1 .. Len(job.x) + 1 /\ givers[t] \in Nat
    BY <1>2, <2>2, SomePasses
  <2>5. ordered[t] \in BOOLEAN
    <3>1. TRUE \in BOOLEAN
      OBVIOUS
    <3> QED BY <2>3, <3>1, Zenon
  <2> QED BY <2>1, <2>2, <2>3, <2>4, <2>5, Zenon DEF ThreadInv
<1>5. ASSUME NEW c \in 0 .. NChunks - 1 PROVE ListInv(c)
  <2>1. lists[c] = <<>> /\ ran = {} /\ \A t \in Threads : ~ On(t, c)
    BY DEF Init, DispatchInit, On, Working
  <2> QED BY <2>1 DEF ListInv
<1>6. WorkInv
  BY <1>4, <1>5 DEF WorkInv, Init
<1> QED BY <1>1, <1>3, <1>6 DEF FullInv

(* One step keeps it all. *)
LEMMA FullStep ==
  ASSUME IInv, FullInv, [Next]_vars
  PROVE  FullInv'
<1>1. CallInv'
  BY CallKept
<1>2. Sound'
  BY PairsCallStep, SoundStep DEF FullInv
<1>3. TableInv /\ WorkInv /\ phase \in Preparing \cup Later
  BY DEF FullInv, IInv, SetupType
<1>4. CASE CountRecord \/ AddUp \/ PlaceRecord \/ WeighBlock \/ NextPass
  <2>1. TableInv'
    BY <1>3, <1>4, TableCounts, TablePlaces, TableWeighs, TablePasses
  <2>2. job' = job /\ UNCHANGED <<worker_vars, held, ran>>
    BY <1>4 DEF CountRecord, AddUp, PlaceRecord, WeighBlock, NextPass, dispatch_vars, worker_vars
  <2> QED BY <1>1, <1>2, <1>3, <2>1, <2>2, WorkRests DEF FullInv
<1>5. CASE CheckBound \/ Gather \/ Halve \/ Joined \/ UNCHANGED vars
  <2>1. /\ job' = job /\ UNCHANGED setup_vars /\ UNCHANGED <<worker_vars, held, ran>>
        /\ phase' = phase \/ (phase \in Later /\ phase' \in Later)
    BY <1>5 DEF CheckBound, Gather, Halve, Joined, vars, Split, Join, dispatch_vars, worker_vars,
         setup_vars, Later
  <2> QED BY <1>1, <1>2, <1>3, <2>1, TableRests, WorkRests DEF FullInv
<1>6. CASE Dispatch
  <2>1. job' = job /\ UNCHANGED setup_vars /\ phase \in Later /\ phase' \in Later
    BY <1>6 DEF Dispatch, Later
  <2> QED BY <1>1, <1>2, <1>3, <1>6, <2>1, TableRests, WorkBegins DEF FullInv
<1>7. ASSUME NEW t \in Threads, ThreadStep(t) PROVE FullInv'
  <2>1. job' = job /\ UNCHANGED setup_vars /\ phase' = phase
    BY <1>7 DEF ThreadStep, TakeRange, ScanPass, EmitRow, ExactRow, EndChunk
  <2>2. TableInv'
    BY <1>3, <2>1, TableRests
  <2>3. WorkInv'
    BY <1>7, WorkTaken, WorkScans, WorkEmits, WorkExact, WorkEnds DEF ThreadStep
  <2> QED BY <1>1, <1>2, <2>2, <2>3 DEF FullInv
<1> QED BY <1>4, <1>5, <1>6, <1>7 DEF Next, Caller, Setup

(* The work is sound in every reachable state, of any number of threads,   *)
(* chunks, passes and interleavings: the tables have the records of each   *)
(* code, and what the threads have listed is what their chunks should.     *)
THEOREM WorkSound == Spec => []FullInv
<1>1. ASSUME IInv, FullInv, [Next]_vars PROVE FullInv'
  BY <1>1, FullStep
<1> QED BY Invariance, FullInit, <1>1, PTL DEF Spec

(* The list of all the records is the answer the comment asks for. *)
LEMMA ListedExact ==
  ASSUME NEW q \in Problems, q = job, answer.kind = "pairs", Listed(q, answer.pairs, 0, q.nx)
  PROVE  ResultExact
<1>1. PICK s : s = answer.pairs
  OBVIOUS
<1>2. PICK n \in Nat : n = Len(s) /\ DOMAIN s = 1 .. n
  BY <1>1, SeqParts DEF Listed
<1>3. \A k \in 1 .. n : /\ s[k] \in Triples(q) /\ FirstIn(q, s[k])
  BY <1>1, <1>2, SeqParts DEF Listed
<1>4. \A o, i, j : Near(o, i, j) <=> NearIn(q, o, i, j)
  BY DEF Near, NearIn, BlockRecords, XCount, XRows, YRows, XBlock
<1>5. ASSUME NEW k \in 1 .. n
      PROVE  /\ s[k][1] \in XRows /\ s[k][2] \in YRows /\ s[k][3] \in Passes
             /\ q.dedupe => s[k][1] < s[k][2]
             /\ Near(s[k][3], s[k][1], s[k][2])
             /\ \A o \in 1 .. s[k][3] - 1 : ~ Near(o, s[k][1], s[k][2])
  <2>1. s[k] \in Triples(q) /\ FirstIn(q, s[k])
    BY <1>3
  <2>2. s[k][1] \in XRows /\ s[k][2] \in YRows /\ s[k][3] \in Passes
    BY <2>1 DEF Triples, XRows, YRows, Passes
  <2> QED BY <1>4, <2>1, <2>2 DEF FirstIn, Partner
<1>6. {<<s[k][1], s[k][2]>> : k \in DOMAIN s} = Wanted
  <2>1. ASSUME NEW k \in 1 .. n PROVE <<s[k][1], s[k][2]>> \in Wanted
    BY <1>5 DEF Wanted
  <2>2. ASSUME NEW e \in Wanted PROVE \E k \in 1 .. n : <<s[k][1], s[k][2]>> = e
    <3>1. PICK i \in 0 .. q.nx - 1, j \in 0 .. q.ny - 1 : e = <<i, j>>
      BY DEF Wanted, XRows, YRows
    <3>2. PICK o \in DOMAIN q.x : Partner(q, o, i, j)
      BY <1>4, <3>1 DEF Wanted, Partner, Passes
    <3>3. 0 <= i /\ i < q.nx
      <4>1. PICK m \in Nat : m = q.nx
        BY PairsAssumption
      <4>2. i \in 0 .. m - 1
        BY <3>1, <4>1
      <4> QED BY <4>1, <4>2
    <3>4. PICK k \in 1 .. n : s[k][1] = i /\ s[k][2] = j
      BY <1>1, <1>2, <3>2, <3>3 DEF Listed
    <3> QED BY <3>1, <3>4
  <2> QED BY <1>2, <2>1, <2>2
<1>7. ASSUME NEW k \in 1 .. n - 1
      PROVE  \/ s[k][1] < s[k + 1][1]
             \/ s[k][1] = s[k + 1][1] /\ s[k][2] < s[k + 1][2]
  <2>1. k \in 1 .. n /\ k + 1 \in 1 .. n /\ k < k + 1
    OBVIOUS
  <2>2. Ahead(s[k], s[k + 1])
    BY <1>1, <1>2, <2>1 DEF Listed
  <2> QED BY <2>2 DEF Ahead
<1> QED BY <1>1, <1>2, <1>5, <1>6, <1>7 DEF ResultExact

(* Whatever the keys, windows, block maximum, threads, chunks and          *)
(* interleaving: the pairs are those near in some pass, each once, under   *)
(* the first pass that pairs them, in the order of their records.          *)
THEOREM PairsExact == Spec => []ResultExact
<1>1. IInv /\ FullInv => ResultExact
  <2> SUFFICES ASSUME IInv, FullInv, answer.kind = "pairs" PROVE ResultExact
    BY DEF ResultExact
  <2>1. PICK q \in Problems : q = job
    BY DEF IInv, SetupType
  <2>2. phase = "done"
    <3>1. phase # "done" => answer.kind = "pending"
      BY DEF FullInv, CallInv
    <3> QED BY <3>1
  <2>3. Listed(q, answer.pairs, 0, q.nx)
    BY <2>1, <2>2 DEF FullInv, CallInv
  <2> QED BY <2>1, <2>3, ListedExact
<1> QED BY Invariance, WorkSound, <1>1, PTL
=============================================================================
