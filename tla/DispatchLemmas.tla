---------------------------- MODULE DispatchLemmas ----------------------------
(***************************************************************************)
(* What every call of dispatch_for() keeps, whoever makes it: the pieces   *)
(* not taken, the pieces held and the indices that have run are apart and  *)
(* make up the range. The modules whose kernels dispatch prove about their *)
(* worker on top of this one.                                              *)
(***************************************************************************)
EXTENDS ParallelDispatch, NaturalLemmas

In(r, x)    == r[1] <= x /\ x < r[2]
Apart(r, s) == r[2] <= s[1] \/ s[2] <= r[1]

(* What each stage of the call has and has not yet set up. *)
Shape ==
  /\ stage = "idle" => size = 0 /\ ranges = {} /\ ran = {}
  /\ stage = "serial" => ranges = {} /\ \A t \in Threads : t # Main => held[t] = Idle
  /\ stage = "cutting" => cut < size /\ ran = {}
  /\ stage \in {"idle", "cutting", "returned"} => \A t \in Threads : held[t] = Idle
  /\ stage = "returned" => ranges = {}
  /\ \A r \in ranges : r[1] < r[2]

(* The pieces as intervals: no two overlap, none has an index that has     *)
(* run, and the indices before the cut are all in a piece or have run.     *)
Separate ==
  /\ \A r, s \in ranges : r # s => Apart(r, s)
  /\ \A t, u \in Threads : t # u => Apart(held[t], held[u])
  /\ \A r \in ranges, t \in Threads : Apart(r, held[t])
  /\ stage = "cutting" => \A r \in ranges : r[2] <= cut

Fresh ==
  /\ \A x \in ran, r \in ranges : ~ In(r, x)
  /\ \A x \in ran, t \in Threads : ~ In(held[t], x)

Somewhere(x) ==
  \/ x \in ran
  \/ \E r \in ranges : In(r, x)
  \/ \E t \in Threads : In(held[t], x)

Covered ==
  \A x \in 0 .. size - 1 :
    \/ stage = "idle"
    \/ stage = "cutting" /\ cut <= x
    \/ Somewhere(x)

Sound == DispatchTypeOK /\ Shape /\ Separate /\ Fresh /\ Covered

(* A step of the call or of its threads, whatever the caller asks for.     *)
CallStep ==
  \/ \E m \in Nat, small \in BOOLEAN, threads \in Int, g \in Nat : Enter(m, small, threads, g)
  \/ \E piece \in Nat \ {0} : Cut(piece)
  \/ \E r \in ranges : Split(r)
  \/ \E t \in Threads, r \in ranges : Claim(t, r)
  \/ \E t \in Threads : Run(t)
  \/ Join
  \/ UNCHANGED dispatch_vars
-----------------------------------------------------------------------------
(* A nonempty range has at least one grain. *)
LEMMA CeilDivPositive ==
  ASSUME NEW m \in Nat \ {0}, NEW d \in Nat \ {0}
  PROVE  CeilDiv(m, d) \in Nat \ {0}
<1>1. m \div d \in Nat
  BY SMT
<1>2. m % d \in Nat
  BY SMT
<1>3. m = d * (m \div d) + (m % d)
  BY SMT
<1>4. CASE m % d # 0
  BY <1>1, <1>4, SMT DEF CeilDiv
<1>5. CASE m % d = 0
  <2>1. m \div d # 0
    BY <1>3, <1>5, SMT
  <2> QED BY <1>1, <1>5, <2>1, SMT DEF CeilDiv
<1> QED BY <1>4, <1>5

(* The piece of a thread without work is empty. *)
LEMMA IdlePiece == Idle[1] = 0 /\ Idle[2] = 0
BY DEF Idle

(* The cap and the grain that a call leads to are numbers, the grain at least 1. *)
LEMMA EnterParameters ==
  ASSUME NEW m \in Nat \ {0}, NEW threads \in Int, NEW g \in Nat, tbb \in BOOLEAN
  PROVE  CapOf(m, threads, g) \in Int /\ GrainOf(m, threads, g) \in Nat \ {0}
<1>1. MaxOf(g, 1) \in Nat \ {0}
  BY SMT DEF MaxOf
<1>2. PICK tasks \in Nat \ {0} : tasks = CeilDiv(m, MaxOf(g, 1))
  BY <1>1, CeilDivPositive
<1>3. CapOf(m, threads, g) = IF threads > 0 THEN MinOf(threads, tasks) ELSE threads
  BY <1>2 DEF CapOf
<1>4. CapOf(m, threads, g) \in Int /\ (threads > 0 => CapOf(m, threads, g) \in Nat \ {0})
  BY <1>3, SMT DEF MinOf
<1>5. CASE threads > 0
  <2>1. CeilDiv(m, CapOf(m, threads, g)) \in Nat \ {0}
    BY <1>4, <1>5, CeilDivPositive
  <2>2. MaxOf(MaxOf(g, 1), CeilDiv(m, CapOf(m, threads, g))) \in Nat \ {0}
    BY <1>1, <2>1 DEF MaxOf
  <2> QED BY <1>1, <1>4, <2>2 DEF GrainOf
<1>6. CASE ~ (threads > 0)
  BY <1>1, <1>4, <1>6 DEF GrainOf
<1> QED BY <1>5, <1>6

(* A dispatch starts sound. *)
LEMMA SoundInit ==
  ASSUME DispatchInit
  PROVE  Sound
<1> USE DispatchAssumption, IdlePiece DEF DispatchInit
<1>1. \A t \in Threads : held[t] = Idle
  OBVIOUS
<1>2. DispatchTypeOK
  BY <1>1 DEF DispatchTypeOK, Busy, Idle
<1>3. Shape
  BY <1>1 DEF Shape
<1>4. Separate /\ Fresh
  BY <1>1 DEF Separate, Fresh, Apart
<1>5. Covered
  BY DEF Covered
<1> QED BY <1>2, <1>3, <1>4, <1>5 DEF Sound

(* Every step keeps the types. *)
LEMMA TypeStep ==
  ASSUME DispatchTypeOK, Shape, CallStep
  PROVE  DispatchTypeOK'
<1> USE DispatchAssumption, IdlePiece DEF DispatchTypeOK
<1>1. ASSUME NEW n \in Nat, NEW small \in BOOLEAN, NEW threads \in Int, NEW g \in Nat,
             Enter(n, small, threads, g)
      PROVE  DispatchTypeOK'
  <2>1. stage = "idle" /\ size' = n /\ size = 0 /\ ran = {} /\ ranges = {} /\ tbb' = tbb /\ ran' = ran
    BY <1>1 DEF Enter, Shape
  <2>2. held = [t \in Threads |-> Idle]
    BY <2>1 DEF Shape
  <2>3. CASE n = 0
    BY <1>1, <2>1, <2>3 DEF Enter, Busy
  <2>4. CASE n > 0 /\ Serially(n, small, threads, g)
    <3>1. held' = [held EXCEPT ![Main] = <<0, n>>] /\ stage' = "serial" /\ UNCHANGED <<cap, grain, cut, ranges>>
      BY <1>1, <2>4 DEF Enter
    <3>2. \A t \in Threads : held'[t] = IF t = Main THEN <<0, n>> ELSE Idle
      BY <2>2, <3>1
    <3>3. held' \in [Threads -> (0 .. n) \X (0 .. n)]
      BY <2>2, <3>1 DEF Idle
    <3>4. \A t \in Threads : held'[t] # Idle => held'[t][1] < held'[t][2]
      BY <2>4, <3>2
    <3>5. cut' \in 0 .. n
      BY <2>1, <2>4, <3>1
    <3> QED BY <1>1, <2>1, <3>1, <3>3, <3>4, <3>5 DEF Busy
  <2>5. CASE n > 0 /\ ~ Serially(n, small, threads, g)
    <3>1. cap' \in Int /\ grain' \in Nat \ {0}
      <4>1. n \in Nat \ {0} /\ threads \in Int /\ g \in Nat
        BY <2>5
      <4>2. cap' = CapOf(n, threads, g) /\ grain' = GrainOf(n, threads, g)
        BY <1>1, <2>5 DEF Enter
      <4> QED BY <4>1, <4>2, EnterParameters
    <3>2. cut' = 0 /\ held' = held /\ stage' \in {"parallel", "cutting"} /\ ranges' \subseteq {<<0, n>>}
      BY <1>1, <2>5 DEF Enter
    <3>3. held' \in [Threads -> (0 .. n) \X (0 .. n)]
      BY <2>2, <3>2 DEF Idle
    <3> QED BY <1>1, <2>1, <2>2, <2>5, <3>1, <3>2, <3>3 DEF Busy
  <2> QED BY <1>1, <2>3, <2>4, <2>5
<1>2. ASSUME NEW t \in Threads, NEW r \in ranges, Claim(t, r)
      PROVE  DispatchTypeOK'
  <2>1. r \in (0 .. size) \X (0 .. size) /\ r[1] < r[2]
    BY DEF Shape
  <2> QED BY <1>2, <2>1 DEF Claim, Busy
<1>3. ASSUME NEW t \in Threads, Run(t)
      PROVE  DispatchTypeOK'
  <2>1. PICK p, q : p \in 0 .. size /\ q \in 0 .. size /\ held[t] = <<p, q>> /\ p < q
    BY <1>3 DEF Run, Busy
  <2>2. held' = [held EXCEPT ![t] = IF p + 1 = q THEN Idle ELSE <<p + 1, q>>]
    BY <1>3, <2>1 DEF Run
  <2>3. ran' = ran \cup {p} /\ UNCHANGED <<stage, tbb, size, cap, grain, cut, ranges>>
    BY <1>3, <2>1 DEF Run
  <2>4. (IF p + 1 = q THEN Idle ELSE <<p + 1, q>>) \in (0 .. size) \X (0 .. size)
    BY <2>1 DEF Idle
  <2>5. held' \in [Threads -> (0 .. size) \X (0 .. size)]
    BY <2>2, <2>4
  <2>6. \A u \in Threads : held'[u] # Idle => held'[u][1] < held'[u][2]
    BY <2>1, <2>2 DEF Busy
  <2> QED BY <1>3, <2>1, <2>3, <2>5, <2>6 DEF Busy
<1>4. ASSUME NEW piece \in Nat \ {0}, Cut(piece)
      PROVE  DispatchTypeOK'
  <2>1. cut < size
    BY <1>4 DEF Cut, Shape
  <2>2. MinOf(cut + piece, size) \in 0 .. size
    BY <2>1 DEF MinOf
  <2> QED BY <1>4, <2>1, <2>2 DEF Cut, Busy
<1>5. ASSUME NEW r \in ranges, Split(r)
      PROVE  DispatchTypeOK'
  <2>1. r \in (0 .. size) \X (0 .. size)
    OBVIOUS
  <2>2. PICK middle \in Int : middle = r[1] + (r[2] - r[1]) \div 2
    BY <2>1
  <2>3. middle \in 0 .. size
    BY <1>5, <2>1, <2>2 DEF Split
  <2>4. ranges' = (ranges \ {r}) \cup {<<r[1], middle>>, <<middle, r[2]>>}
    BY <1>5, <2>2 DEF Split
  <2> QED BY <1>5, <2>1, <2>3, <2>4 DEF Split, Busy
<1>6. CASE Join
  BY <1>6 DEF Join, Busy
<1>7. CASE UNCHANGED dispatch_vars
  BY <1>7 DEF dispatch_vars, Busy
<1> QED BY <1>1, <1>2, <1>3, <1>4, <1>5, <1>6, <1>7 DEF CallStep

(* A step of each kind, with the parameters put away: what it does to the  *)
(* pieces. Every later lemma splits on these five cases.                   *)
Entered ==
  /\ stage = "idle"
  /\ size' \in Nat
  /\ ran' = ran
  /\ \/ size' = 0 /\ stage' = "returned" /\ UNCHANGED <<ranges, held>>
     \/ /\ size' > 0
        /\ stage' = "serial"
        /\ held' = [held EXCEPT ![Main] = <<0, size'>>]
        /\ UNCHANGED ranges
     \/ /\ size' > 0
        /\ stage' = "parallel"
        /\ ranges' = {<<0, size'>>}
        /\ UNCHANGED held
     \/ /\ size' > 0
        /\ cut' = 0
        /\ stage' = "cutting"
        /\ ranges' = {}
        /\ UNCHANGED held

CutOff ==
  /\ stage = "cutting"
  /\ cut' \in cut + 1 .. size
  /\ ranges' = ranges \cup {<<cut, cut'>>}
  /\ stage' = IF cut' = size THEN "parallel" ELSE "cutting"
  /\ UNCHANGED <<size, held, ran>>

HalvedAt(r, m) ==
  /\ stage = "parallel"
  /\ r \in ranges
  /\ m \in Int /\ r[1] < m /\ m < r[2]
  /\ ranges' = (ranges \ {r}) \cup {<<r[1], m>>, <<m, r[2]>>}
  /\ UNCHANGED <<stage, size, cut, held, ran>>

RanFirst(t, p, q) ==
  /\ held[t] = <<p, q>>
  /\ p \in 0 .. size /\ q \in 0 .. size /\ p < q
  /\ held' = [held EXCEPT ![t] = IF p + 1 = q THEN Idle ELSE <<p + 1, q>>]
  /\ ran' = ran \cup {p}
  /\ UNCHANGED <<stage, size, cut, ranges>>

(* Each step is of one of seven kinds, stated by what it does to the pieces. *)
LEMMA StepKinds ==
  ASSUME DispatchTypeOK, Shape, CallStep
  PROVE  \/ Entered
         \/ CutOff
         \/ \E r \in ranges : \E m \in Int : HalvedAt(r, m)
         \/ \E t \in Threads, r \in ranges : Claim(t, r)
         \/ \E t \in Threads : \E p, q \in Nat : RanFirst(t, p, q)
         \/ Join
         \/ UNCHANGED dispatch_vars
<1> USE DEF DispatchTypeOK
<1>1. ASSUME NEW n \in Nat, NEW small \in BOOLEAN, NEW threads \in Int, NEW g \in Nat,
             Enter(n, small, threads, g)
      PROVE  Entered
  BY <1>1 DEF Enter, Entered
<1>2. ASSUME NEW piece \in Nat \ {0}, Cut(piece)
      PROVE  CutOff
  <2>1. cut < size
    BY <1>2 DEF Cut, Shape
  <2>2. MinOf(cut + piece, size) \in cut + 1 .. size
    BY <2>1 DEF MinOf
  <2> QED BY <1>2, <2>2 DEF Cut, CutOff
<1>3. ASSUME NEW r \in ranges, Split(r)
      PROVE  \E m \in Int : HalvedAt(r, m)
  <2>1. r \in (0 .. size) \X (0 .. size)
    OBVIOUS
  <2>2. PICK m \in Int : m = r[1] + (r[2] - r[1]) \div 2
    BY <2>1
  <2>3. r[1] < m /\ m < r[2]
    BY <1>3, <2>1, <2>2 DEF Split
  <2> QED BY <1>3, <2>2, <2>3 DEF Split, HalvedAt
<1>4. ASSUME NEW t \in Threads, Run(t)
      PROVE  \E p, q \in Nat : RanFirst(t, p, q)
  <2>1. PICK p, q : p \in 0 .. size /\ q \in 0 .. size /\ held[t] = <<p, q>> /\ p < q
    BY <1>4 DEF Run, Busy
  <2>2. p \in Nat /\ q \in Nat
    BY <2>1
  <2>3. RanFirst(t, p, q)
    BY <1>4, <2>1 DEF Run, RanFirst
  <2> QED BY <2>2, <2>3
<1> QED BY <1>1, <1>2, <1>3, <1>4 DEF CallStep

(* Every step keeps what each stage has set up. *)
LEMMA ShapeStep ==
  ASSUME DispatchTypeOK, Shape, CallStep
  PROVE  Shape'
<1> USE IdlePiece, DispatchAssumption DEF DispatchTypeOK, Shape
<1>1. CASE Entered
  BY <1>1 DEF Entered
<1>2. CASE CutOff
  BY <1>2 DEF CutOff
<1>3. ASSUME NEW r \in ranges, NEW m \in Int, HalvedAt(r, m)
      PROVE  Shape'
  BY <1>3 DEF HalvedAt
<1>4. ASSUME NEW t \in Threads, NEW r \in ranges, Claim(t, r)
      PROVE  Shape'
  BY <1>4 DEF Claim
<1>5. ASSUME NEW t \in Threads, NEW p \in Nat, NEW q \in Nat, RanFirst(t, p, q)
      PROVE  Shape'
  BY <1>5 DEF RanFirst, Idle
<1>6. CASE Join
  BY <1>6 DEF Join, Busy
<1>7. CASE UNCHANGED dispatch_vars
  BY <1>7 DEF dispatch_vars
<1> QED BY <1>1, <1>2, <1>3, <1>4, <1>5, <1>6, <1>7, StepKinds

(* Every step keeps waiting and held pieces apart. *)
LEMMA SeparateStep ==
  ASSUME DispatchTypeOK, Shape, Separate, CallStep
  PROVE  Separate'
<1> USE IdlePiece, DispatchAssumption DEF DispatchTypeOK, Separate, Apart
<1>1. CASE Entered
  BY <1>1 DEF Entered, Shape
<1>2. CASE CutOff
  BY <1>2 DEF CutOff, Shape
<1>3. ASSUME NEW r \in ranges, NEW m \in Int, HalvedAt(r, m)
      PROVE  Separate'
  BY <1>3 DEF HalvedAt
<1>4. ASSUME NEW t \in Threads, NEW r \in ranges, Claim(t, r)
      PROVE  Separate'
  BY <1>4 DEF Claim
<1>5. ASSUME NEW t \in Threads, NEW p \in Nat, NEW q \in Nat, RanFirst(t, p, q)
      PROVE  Separate'
  BY <1>5 DEF RanFirst, Shape
<1>6. CASE Join
  BY <1>6 DEF Join
<1>7. CASE UNCHANGED dispatch_vars
  BY <1>7 DEF dispatch_vars
<1> QED BY <1>1, <1>2, <1>3, <1>4, <1>5, <1>6, <1>7, StepKinds

(* Every step keeps indices that ran out of the pieces. *)
LEMMA FreshStep ==
  ASSUME DispatchTypeOK, Shape, Separate, Fresh, CallStep
  PROVE  Fresh'
<1> USE IdlePiece, DispatchAssumption DEF DispatchTypeOK, Fresh, In
<1>1. CASE Entered
  BY <1>1 DEF Entered, Shape
<1>2. CASE CutOff
  BY <1>2 DEF CutOff, Shape
<1>3. ASSUME NEW r \in ranges, NEW m \in Int, HalvedAt(r, m)
      PROVE  Fresh'
  BY <1>3 DEF HalvedAt
<1>4. ASSUME NEW t \in Threads, NEW r \in ranges, Claim(t, r)
      PROVE  Fresh'
  BY <1>4 DEF Claim
<1>5. ASSUME NEW t \in Threads, NEW p \in Nat, NEW q \in Nat, RanFirst(t, p, q)
      PROVE  Fresh'
  BY <1>5 DEF RanFirst, Separate, Apart
<1>6. CASE Join
  BY <1>6 DEF Join
<1>7. CASE UNCHANGED dispatch_vars
  BY <1>7 DEF dispatch_vars
<1> QED BY <1>1, <1>2, <1>3, <1>4, <1>5, <1>6, <1>7, StepKinds

(* Every step keeps each index somewhere: waiting, held or run. *)
LEMMA CoveredStep ==
  ASSUME DispatchTypeOK, Shape, Covered, CallStep
  PROVE  Covered'
<1> USE IdlePiece, DispatchAssumption DEF DispatchTypeOK, Covered, Somewhere, In
<1>1. ASSUME Entered, NEW n \in Nat, size' = n, NEW x \in 0 .. n - 1
      PROVE  (stage' = "cutting" /\ cut' <= x) \/ Somewhere(x)'
  <2>1. n > 0 /\ 0 <= x /\ x < n
    OBVIOUS
  <2>2. CASE stage' = "serial"
    <3>1. held' = [held EXCEPT ![Main] = <<0, n>>]
      BY <1>1, <2>1, <2>2 DEF Entered
    <3>2. In(held'[Main], x)
      BY <2>1, <3>1
    <3> QED BY <3>2
  <2>3. CASE stage' = "parallel"
    <3>1. <<0, n>> \in ranges'
      BY <1>1, <2>1, <2>3 DEF Entered
    <3>2. In(<<0, n>>, x)
      BY <2>1
    <3> QED BY <3>1, <3>2
  <2>4. CASE stage' = "cutting"
    BY <1>1, <2>1, <2>4 DEF Entered
  <2> QED BY <1>1, <2>1, <2>2, <2>3, <2>4 DEF Entered
<1>2. ASSUME CutOff, NEW x \in 0 .. size - 1
      PROVE  (stage' = "cutting" /\ cut' <= x) \/ Somewhere(x)'
  <2>1. <<cut, cut'>> \in ranges' /\ ranges \subseteq ranges' /\ held' = held /\ ran' = ran
    BY <1>2 DEF CutOff
  <2>2. CASE Somewhere(x)
    BY <2>1, <2>2
  <2>3. CASE cut <= x /\ x < cut'
    BY <2>1, <2>3
  <2>4. CASE cut' <= x
    BY <1>2, <2>4 DEF CutOff
  <2> QED BY <1>2, <2>2, <2>3, <2>4 DEF CutOff
<1>3. ASSUME NEW r \in ranges, NEW m \in Int, HalvedAt(r, m), NEW x \in 0 .. size - 1
      PROVE  Somewhere(x)'
  <2>1. /\ <<r[1], m>> \in ranges' /\ <<m, r[2]>> \in ranges' /\ ranges \ {r} \subseteq ranges'
        /\ held' = held /\ ran' = ran
    BY <1>3 DEF HalvedAt
  <2>2. Somewhere(x)
    BY <1>3 DEF HalvedAt
  <2>3. r \in (0 .. size) \X (0 .. size)
    OBVIOUS
  <2>4. CASE In(r, x)
    BY <1>3, <2>1, <2>3, <2>4
  <2>5. CASE ~ In(r, x)
    BY <2>1, <2>2, <2>5
  <2> QED BY <2>4, <2>5
<1>4. ASSUME NEW t \in Threads, NEW r \in ranges, Claim(t, r)
      PROVE  Covered'
  BY <1>4 DEF Claim, Busy
<1>5. ASSUME NEW t \in Threads, NEW p \in Nat, NEW q \in Nat, RanFirst(t, p, q),
             NEW x \in 0 .. size - 1
      PROVE  Somewhere(x)'
  <2>1. Somewhere(x)
    BY <1>5 DEF RanFirst, Shape
  <2>2. /\ ran' = ran \cup {p} /\ ranges' = ranges
        /\ \A u \in Threads : u # t => held'[u] = held[u]
    BY <1>5 DEF RanFirst
  <2>3. CASE In(held[t], x) /\ x # p
    <3>1. held'[t] = <<p + 1, q>>
      BY <1>5, <2>3 DEF RanFirst
    <3> QED BY <1>5, <2>3, <3>1 DEF RanFirst
  <2>4. CASE x = p
    BY <2>2, <2>4
  <2>5. CASE ~ In(held[t], x)
    BY <2>1, <2>2, <2>5
  <2> QED BY <2>3, <2>4, <2>5
<1>6. CASE Join
  BY <1>6 DEF Join, Shape
<1>7. CASE UNCHANGED dispatch_vars
  BY <1>7 DEF dispatch_vars
<1>8. CASE Entered
  <2>1. PICK n \in Nat : size' = n
    BY <1>8 DEF Entered
  <2>2. \A x \in 0 .. n - 1 : (stage' = "cutting" /\ cut' <= x) \/ Somewhere(x)'
    BY <1>1, <1>8, <2>1
  <2> QED BY <2>1, <2>2
<1>9. CASE CutOff
  BY <1>2, <1>9 DEF CutOff
<1>10. ASSUME NEW r \in ranges, NEW m \in Int, HalvedAt(r, m)
       PROVE  Covered'
  BY <1>3, <1>10 DEF HalvedAt
<1>11. ASSUME NEW t \in Threads, NEW p \in Nat, NEW q \in Nat, RanFirst(t, p, q)
       PROVE  Covered'
  BY <1>5, <1>11 DEF RanFirst
<1> QED BY <1>4, <1>6, <1>7, <1>8, <1>9, <1>10, <1>11, StepKinds

(* Three parts of a set that leave nothing out make the set. *)
LEMMA UnionIsWhole ==
  ASSUME NEW A, NEW B, NEW C, NEW D,
         A \subseteq D, B \subseteq D, C \subseteq D,
         \A x \in D : x \in A \/ x \in B \/ x \in C
  PROVE  A \cup B \cup C = D
OBVIOUS

Waiting == UNION {Span(r) : r \in ranges}
Taken   == UNION {Span(held[t]) : t \in Threads}

(* The intervals say what the sets of indices say. *)
LEMMA PiecesAsSets ==
  ASSUME Sound
  PROVE  EachIndexOnce /\ ReturnsComplete
<1> USE DEF Sound, DispatchTypeOK
<1>1. \A r \in ranges : \A x : x \in Span(r) <=> x \in 0 .. size - 1 /\ In(r, x)
  BY DEF Span, In
<1>2. \A t \in Threads : \A x : x \in Span(held[t]) <=> x \in 0 .. size - 1 /\ In(held[t], x)
  BY DEF Span, In
<1>3. \A r, s \in ranges : r # s => Span(r) \cap Span(s) = {}
  BY <1>1 DEF Separate, Apart, In
<1>4. \A t, u \in Threads : t # u => Span(held[t]) \cap Span(held[u]) = {}
  BY <1>2 DEF Separate, Apart, In
<1>5. \A r \in ranges, t \in Threads : Span(r) \cap Span(held[t]) = {}
  BY <1>1, <1>2 DEF Separate, Apart, In
<1>6. /\ \A t \in Threads : Span(held[t]) \cap ran = {}
      /\ \A r \in ranges : Span(r) \cap ran = {}
  BY <1>1, <1>2 DEF Fresh
<1>7. ASSUME stage \in {"serial", "parallel", "returned"}
      PROVE  ran \cup Waiting \cup Taken = 0 .. size - 1
  <2>1. \A x \in 0 .. size - 1 : Somewhere(x)
    BY <1>7 DEF Covered
  <2>2. ran \subseteq 0 .. size - 1
    OBVIOUS
  <2>3. Waiting \subseteq 0 .. size - 1
    BY <1>1 DEF Waiting
  <2>4. Taken \subseteq 0 .. size - 1
    BY <1>2 DEF Taken
  <2>5. \A x \in 0 .. size - 1 : x \in ran \/ x \in Waiting \/ x \in Taken
    BY <1>1, <1>2, <2>1 DEF Somewhere, Waiting, Taken
  <2> QED BY <2>2, <2>3, <2>4, <2>5, UnionIsWhole
<1>8. EachIndexOnce
  BY <1>3, <1>4, <1>5, <1>6, <1>7 DEF EachIndexOnce, Waiting, Taken
<1>9. ASSUME stage = "returned"
      PROVE  ran = 0 .. size - 1 /\ Busy = {} /\ ranges = {}
  <2>1. ranges = {} /\ \A t \in Threads : held[t] = Idle
    BY <1>9 DEF Shape
  <2>2. \A x \in 0 .. size - 1 : x \in ran
    BY <1>9, <2>1, IdlePiece DEF Covered, Somewhere, In
  <2> QED BY <2>1, <2>2 DEF Busy
<1> QED BY <1>8, <1>9 DEF ReturnsComplete

(* The call is sound in every state: the first, and after every step.      *)
LEMMA SoundStep ==
  ASSUME Sound, CallStep
  PROVE  Sound'
BY TypeStep, ShapeStep, SeparateStep, FreshStep, CoveredStep DEF Sound
=============================================================================
