---------------------------- MODULE DispatchProofs ----------------------------
(***************************************************************************)
(* For every number of indices and threads, every grain and both builds:   *)
(* dispatch_for() runs each index once, in one thread, returns when all    *)
(* have run, and never has more threads at work than it was asked for.     *)
(***************************************************************************)
EXTENDS DispatchCall, DispatchLemmas

(* Where a piece of TinyThread's parallelFor() may end: there are no more  *)
(* such places than threads asked for, and no two pieces share one.        *)
Ends == {MinOf(j * grain, size) : j \in 1 .. cap}

(* What is known of a call given a number of threads once it is handed to  *)
(* parallelFor(): the scheduler's cap (TBB) or the grain (TinyThread)      *)
(* bounds the threads at work.                                             *)
Laid ==
  /\ size <= cap * grain
  /\ \A r \in ranges : r[2] \in Ends
  /\ \A t \in Busy : held[t][2] \in Ends
  /\ stage = "cutting" => \E j \in Nat : cut = j * grain

Limited ==
  /\ requested = 1 => stage \notin {"cutting", "parallel"}
  /\ requested > 0 /\ stage \in {"cutting", "parallel"} => cap \in 1 .. requested
  /\ IsFiniteSet(Busy)
  /\ requested > 0 /\ stage = "parallel" /\ tbb => Cardinality(Busy) <= cap
  /\ stage = "cutting" => ~ tbb
  /\ requested > 0 /\ ~ tbb /\ stage \in {"cutting", "parallel"} => Laid

IInv == Sound /\ requested \in ThreadCounts /\ Limited
-----------------------------------------------------------------------------
(* A step of the call is a step of the dispatch with the call's parameters. *)
LEMMA NextIsCallStep ==
  ASSUME requested \in ThreadCounts, [CallNext]_callVars
  PROVE  CallStep /\ requested' = requested
<1> USE CallAssumption
<1>1. ASSUME NEW n \in 0 .. MaxSize, NEW small \in BOOLEAN, NEW g \in Grains,
             Enter(n, small, requested, g)
      PROVE  CallStep
  <2>1. n \in Nat /\ g \in Nat /\ requested \in Int
    OBVIOUS
  <2> QED BY <1>1, <2>1 DEF CallStep
<1>2. ASSUME NEW piece \in 1 .. MaxSize, Cut(piece)
      PROVE  CallStep
  <2>1. piece \in Nat \ {0}
    OBVIOUS
  <2> QED BY <1>2, <2>1 DEF CallStep
<1>3. CASE Call
  BY <1>1, <1>3 DEF Call
<1>4. ASSUME NEW t \in Threads, ThreadStep(t)
      PROVE  CallStep /\ requested' = requested
  BY <1>4 DEF ThreadStep, CallStep
<1>5. CASE Scheduler
  BY <1>2, <1>5 DEF Scheduler, CallStep
<1>6. CASE UNCHANGED callVars
  BY <1>6 DEF callVars, CallStep
<1> QED BY <1>3, <1>4, <1>5, <1>6 DEF CallNext

(* Rounded up, the quotient covers the number divided. *)
LEMMA CeilDivCovers ==
  ASSUME NEW m \in Nat \ {0}, NEW d \in Nat \ {0}
  PROVE  m <= d * CeilDiv(m, d)
<1>1. m \div d \in Nat /\ m % d \in 0 .. d - 1 /\ m = d * (m \div d) + (m % d)
  BY SMT
<1>2. PICK q \in Nat, r \in 0 .. d - 1 : q = m \div d /\ r = m % d /\ m = d * q + r
  BY <1>1
<1>3. CASE r # 0
  <2>1. CeilDiv(m, d) = q + 1
    BY <1>2, <1>3 DEF CeilDiv
  <2>2. d * (q + 1) = d * q + d
    BY <1>2, SMT
  <2> QED BY <1>2, <2>1, <2>2
<1>4. CASE r = 0
  BY <1>2, <1>4 DEF CeilDiv
<1> QED BY <1>3, <1>4

(* Products with one factor in common are ordered as the other factors. *)
LEMMA ProductLess ==
  ASSUME NEW j \in Nat, NEW c \in Nat, NEW g \in Nat \ {0}, j * g < c * g
  PROVE  j < c
<1> SUFFICES ASSUME c <= j PROVE FALSE
  OBVIOUS
<1>1. PICK d \in Nat : j = c + d
  <2>1. j - c \in Nat /\ j = c + (j - c)
    OBVIOUS
  <2> QED BY <2>1
<1>2. (c + d) * g = c * g + d * g
  BY SMT
<1>3. d * g >= 0 /\ d * g \in Int /\ c * g \in Int
  BY SMT
<1> QED BY <1>1, <1>2, <1>3

(* A product grows with its factor. *)
LEMMA ProductGrows ==
  ASSUME NEW c \in Nat, NEW g \in Nat, NEW h \in Nat, g <= h
  PROVE  c * g <= c * h
<1>1. PICK d \in Nat : h = g + d
  <2>1. h - g \in Nat /\ h = g + (h - g)
    OBVIOUS
  <2> QED BY <2>1
<1>2. c * (g + d) = c * g + c * d
  BY SMT
<1>3. c * d >= 0 /\ c * d \in Int /\ c * g \in Int
  BY SMT
<1> QED BY <1>1, <1>2, <1>3
-----------------------------------------------------------------------------
(* Before a call no thread is busy. *)
LEMMA LimitedInit == CallInit => Limited
<1> SUFFICES ASSUME CallInit PROVE Limited
  OBVIOUS
<1>1. Busy = {} /\ stage = "idle"
  BY DEF CallInit, DispatchInit, Busy
<1> QED BY <1>1, FS_EmptySet DEF Limited

(* Entering the dispatch keeps the limit: its pieces have the length that the cap asks for. *)
LEMMA LimitedEnter ==
  ASSUME Sound, requested \in Int, Limited, requested' = requested,
         NEW n \in Nat, NEW small \in BOOLEAN, NEW g \in Nat,
         Enter(n, small, requested, g)
  PROVE  Limited'
<1> USE DEF Sound, DispatchTypeOK
<1>1. stage = "idle" /\ (\A t \in Threads : held[t] = Idle) /\ tbb' = tbb /\ size' = n
  BY DEF Enter, Shape
<1>2. Busy = {}
  BY <1>1 DEF Busy
<1>3. CASE n = 0
  <2>1. stage' = "returned" /\ Busy' = {}
    BY <1>1, <1>3 DEF Enter, Busy
  <2> QED BY <2>1, FS_EmptySet DEF Limited
<1>4. CASE n > 0 /\ Serially(n, small, requested, g)
  <2>1. stage' = "serial" /\ held' = [held EXCEPT ![Main] = <<0, n>>]
    BY <1>4 DEF Enter
  <2>2. Busy' \subseteq {Main}
    BY <1>1, <2>1 DEF Busy
  <2>3. IsFiniteSet(Busy')
    BY <2>2, FS_Singleton, FS_Subset
  <2> QED BY <2>1, <2>3 DEF Limited
<1>5. CASE n > 0 /\ ~ Serially(n, small, requested, g)
  <2>1. /\ requested # 1
        /\ cap' = CapOf(n, requested, g) /\ grain' = GrainOf(n, requested, g) /\ cut' = 0
        /\ ranges' = IF tbb THEN {<<0, n>>} ELSE {}
        /\ stage' = IF tbb THEN "parallel" ELSE "cutting"
        /\ held' = held
    BY <1>5 DEF Enter, Serially
  <2>2. Busy' = {}
    BY <1>2, <2>1 DEF Busy
  <2>3. IsFiniteSet(Busy') /\ Cardinality(Busy') = 0
    BY <2>2, FS_EmptySet
  <2>4. cap' \in Int /\ grain' \in Nat \ {0}
    <3>1. n \in Nat \ {0} /\ tbb \in BOOLEAN
      BY <1>5
    <3> QED BY <2>1, <3>1, EnterParameters
  <2>5. requested > 0 => cap' \in 1 .. requested
    <3>1. MaxOf(g, 1) \in Nat \ {0}
      BY DEF MaxOf
    <3>2. CeilDiv(n, MaxOf(g, 1)) \in Nat \ {0}
      BY <1>5, <3>1, CeilDivPositive
    <3> QED BY <2>1, <3>2 DEF CapOf, MinOf
  <2>6. ASSUME requested > 0, ~ tbb
        PROVE  Laid'
    <3>1. cap' \in Nat \ {0} /\ n \in Nat \ {0}
      BY <1>5, <2>5, <2>6
    <3>2. CeilDiv(n, cap') \in Nat /\ n <= cap' * CeilDiv(n, cap')
      BY <3>1, CeilDivPositive, CeilDivCovers
    <3>3. CeilDiv(n, cap') <= grain'
      <4>1. MaxOf(g, 1) \in Nat
        BY DEF MaxOf
      <4> QED BY <2>1, <2>6, <3>2, <4>1 DEF GrainOf, MaxOf
    <3>4. cap' * CeilDiv(n, cap') <= cap' * grain'
      BY <2>4, <3>1, <3>2, <3>3, ProductGrows
    <3>5. cap' * CeilDiv(n, cap') \in Int /\ cap' * grain' \in Int
      BY <2>4, <3>2
    <3>6. size' <= cap' * grain'
      BY <1>1, <3>2, <3>4, <3>5
    <3>7. cut' = 0 * grain' /\ 0 \in Nat
      BY <2>1, <2>4
    <3> QED BY <2>1, <2>2, <2>6, <3>6, <3>7 DEF Laid
  <2> QED BY <1>1, <2>1, <2>3, <2>4, <2>5, <2>6 DEF Limited
<1> QED BY <1>3, <1>4, <1>5

(* A piece cut by TinyThread starts within the range, so there are no more than the cap. *)
LEMMA LimitedCut ==
  ASSUME Sound, requested \in Int, Limited, requested' = requested,
         NEW piece \in Nat \ {0}, Cut(piece)
  PROVE  Limited'
<1> USE DEF Sound, DispatchTypeOK
<1>1. /\ stage = "cutting" /\ cut < size /\ (\A t \in Threads : held[t] = Idle)
      /\ \A r \in ranges : r[1] < r[2] /\ r[2] <= cut
  BY DEF Cut, Shape, Separate
<1>2. /\ piece >= grain /\ (cut = 0 \/ piece = grain) /\ grain' = piece
      /\ cut' = MinOf(cut + piece, size)
      /\ ranges' = ranges \cup {<<cut, cut'>>}
      /\ UNCHANGED <<tbb, size, cap, held>>
      /\ stage' = IF cut' = size THEN "parallel" ELSE "cutting"
  BY DEF Cut
<1>3. Busy' = {} /\ Busy = {}
  BY <1>1, <1>2 DEF Busy
<1>4. IsFiniteSet(Busy') /\ Cardinality(Busy') = 0
  BY <1>3, FS_EmptySet
<1>5. ASSUME requested > 0
      PROVE  Laid'
  <2>1. Laid /\ cap \in 1 .. requested
    BY <1>1, <1>5 DEF Limited
  <2>2. cap * grain <= cap * piece /\ cap * grain \in Int /\ cap * piece \in Int
    BY <1>2, <2>1, ProductGrows
  <2>3. size' <= cap' * grain'
    BY <1>2, <2>1, <2>2 DEF Laid
  <2>4. PICK j \in Nat : cut = j * piece
    <3>1. CASE cut = 0
      <4>1. cut = 0 * piece
        BY <3>1
      <4> QED BY <4>1
    <3>2. CASE piece = grain
      BY <1>1, <2>1, <3>2 DEF Laid
    <3> QED BY <1>2, <3>1, <3>2
  <2>5. j < cap
    <3>1. j * piece < cap * piece
      BY <1>1, <1>2, <2>2, <2>3, <2>4
    <3> QED BY <2>1, <3>1, ProductLess
  <2>6. cut + piece = (j + 1) * piece
    <3>1. (j + 1) * piece = j * piece + piece
      BY SMT
    <3> QED BY <2>4, <3>1
  <2>7. j + 1 \in 1 .. cap
    BY <2>1, <2>5
  <2>8. cut' \in Ends'
    BY <1>2, <2>6, <2>7 DEF Ends
  <2>9. \A r \in ranges' : r[2] \in Ends'
    <3>1. CASE cut = 0
      <4>1. ranges = {}
        BY <1>1, <3>1
      <4> QED BY <1>2, <2>8, <4>1
    <3>2. CASE piece = grain
      <4>1. Ends' = Ends
        BY <1>2, <3>2 DEF Ends
      <4> QED BY <1>2, <2>1, <2>8, <4>1 DEF Laid
    <3> QED BY <1>2, <3>1, <3>2
  <2>10. stage' = "cutting" => cut' = (j + 1) * grain'
    BY <1>2, <2>6 DEF MinOf
  <2>11. j + 1 \in Nat
    OBVIOUS
  <2> QED BY <1>3, <2>3, <2>9, <2>10, <2>11 DEF Laid
<1> QED BY <1>1, <1>2, <1>4, <1>5 DEF Limited

(* A claim under TBB is made only below the cap. *)
LEMMA LimitedClaim ==
  ASSUME Sound, requested \in Int, Limited, requested' = requested,
         NEW t \in Threads, NEW r \in ranges, Claim(t, r)
  PROVE  Limited'
<1> USE DEF Sound, DispatchTypeOK
<1>1. /\ stage = "parallel" /\ t \notin Busy
      /\ tbb /\ cap > 0 => Cardinality(Busy) < cap
      /\ held' = [held EXCEPT ![t] = r] /\ ranges' = ranges \ {r}
      /\ UNCHANGED <<stage, tbb, size, cap, grain, cut>>
  BY DEF Claim
<1>2. r # Idle
  BY IdlePiece DEF Shape
<1>3. Busy' = Busy \cup {t}
  BY <1>1, <1>2 DEF Busy
<1>4. IsFiniteSet(Busy') /\ Cardinality(Busy') = Cardinality(Busy) + 1
  BY <1>1, <1>3, FS_AddElement DEF Limited
<1>5. Cardinality(Busy) \in Nat
  BY FS_CardinalityType DEF Limited
<1>6. ASSUME Laid
      PROVE  Laid'
  <2>1. Ends' = Ends
    BY <1>1 DEF Ends
  <2>2. \A u \in Busy' : held'[u] = IF u = t THEN r ELSE held[u]
    BY <1>1, <1>3 DEF Busy
  <2> QED BY <1>1, <1>3, <1>6, <2>1, <2>2 DEF Laid
<1> QED BY <1>1, <1>4, <1>5, <1>6 DEF Limited

(* Running an index makes no thread busy. *)
LEMMA LimitedRun ==
  ASSUME Sound, requested \in Int, Limited, requested' = requested,
         NEW t \in Threads, Run(t)
  PROVE  Limited'
<1> USE DEF Sound, DispatchTypeOK
<1>1. /\ t \in Busy
      /\ held' = [held EXCEPT ![t] =
                    IF held[t][1] + 1 = held[t][2] THEN Idle ELSE <<held[t][1] + 1, held[t][2]>>]
      /\ UNCHANGED <<stage, tbb, size, cap, grain, cut, ranges>>
  BY DEF Run
<1>2. Busy' \subseteq Busy
  BY <1>1 DEF Busy
<1>3. /\ IsFiniteSet(Busy') /\ Cardinality(Busy') <= Cardinality(Busy)
      /\ Cardinality(Busy) \in Nat /\ Cardinality(Busy') \in Nat
  BY <1>2, FS_Subset, FS_CardinalityType DEF Limited
<1>4. \A u \in Busy' : held'[u][2] = held[u][2]
  BY <1>1 DEF Busy
<1>5. ASSUME Laid
      PROVE  Laid'
  <2>1. Ends' = Ends
    BY <1>1 DEF Ends
  <2> QED BY <1>1, <1>2, <1>4, <1>5, <2>1 DEF Laid
<1> QED BY <1>1, <1>3, <1>5 DEF Limited

(* Every step keeps the limit. *)
LEMMA LimitedStep ==
  ASSUME Sound, requested \in ThreadCounts, Limited, [CallNext]_callVars
  PROVE  Limited'
<1>1. requested' = requested /\ requested \in Int
  BY NextIsCallStep, CallAssumption
<1>2. CASE Call
  <2>1. PICK n \in 0 .. MaxSize, small \in BOOLEAN, g \in Grains : Enter(n, small, requested, g)
    BY <1>2 DEF Call
  <2>2. n \in Nat /\ g \in Nat
    BY CallAssumption
  <2> QED BY <1>1, <2>1, <2>2, LimitedEnter
<1>3. ASSUME NEW t \in Threads, ThreadStep(t)
      PROVE  Limited'
  BY <1>1, <1>3, LimitedClaim, LimitedRun DEF ThreadStep
<1>4. ASSUME NEW piece \in 1 .. MaxSize, Cut(piece)
      PROVE  Limited'
  <2>1. piece \in Nat \ {0}
    BY CallAssumption
  <2> QED BY <1>1, <1>4, <2>1, LimitedCut
<1>5. ASSUME NEW r \in ranges, Split(r)
      PROVE  Limited'
  BY <1>1, <1>5 DEF Split, Limited, Busy
<1>6. CASE Join
  <2>1. Busy' = Busy /\ stage' = "returned"
    BY <1>6 DEF Join, Busy
  <2> QED BY <2>1 DEF Limited
<1>7. CASE UNCHANGED callVars
  BY <1>7 DEF callVars, dispatch_vars, Limited, Laid, Ends, Busy
<1> QED BY <1>2, <1>3, <1>4, <1>5, <1>6, <1>7 DEF CallNext, Scheduler

(* TinyThread: pieces held by different threads end at different places,   *)
(* so there are no more of them than places.                               *)
LEMMA EndsBoundThreads ==
  ASSUME Sound, Limited, Laid, cap \in Nat
  PROVE  Cardinality(Busy) <= cap
<1> USE DEF Sound, DispatchTypeOK
<1> DEFINE place == [j \in 1 .. cap |-> MinOf(j * grain, size)]
           end == [t \in Busy |-> held[t][2]]
<1>1. place \in Surjection(1 .. cap, Ends)
  BY DEF Surjection, Ends
<1>2. IsFiniteSet(1 .. cap) /\ Cardinality(1 .. cap) = cap
  BY FS_Interval
<1>3. IsFiniteSet(Ends) /\ Cardinality(Ends) <= cap
  BY <1>1, <1>2, FS_Surjection
<1>4. ASSUME NEW t \in Busy, NEW u \in Busy, held[t][2] = held[u][2]
      PROVE  t = u
  <2>1. held[t] \in (0 .. size) \X (0 .. size) /\ held[u] \in (0 .. size) \X (0 .. size)
    BY DEF Busy
  <2>2. held[t][1] < held[t][2] /\ held[u][1] < held[u][2]
    OBVIOUS
  <2>3. t # u => Apart(held[t], held[u])
    BY DEF Separate, Busy
  <2> QED BY <1>4, <2>1, <2>2, <2>3 DEF Apart
<1>5. end \in Injection(Busy, Ends)
  BY <1>4 DEF Laid, Injection, IsInjective
<1>6. Cardinality(Busy) <= Cardinality(Ends)
  BY <1>3, <1>5, FS_Injection
<1>7. Cardinality(Busy) \in Nat /\ Cardinality(Ends) \in Nat
  BY <1>3, FS_CardinalityType DEF Limited
<1> QED BY <1>3, <1>6, <1>7
-----------------------------------------------------------------------------
(* The invariant holds in every state of every call. *)
THEOREM Invariance == CallSpec => []IInv
<1> USE CallAssumption
<1>1. CallInit => IInv
  <2> SUFFICES ASSUME CallInit PROVE IInv
    OBVIOUS
  <2>1. Sound /\ requested \in ThreadCounts
    BY SoundInit DEF CallInit
  <2> QED BY <2>1, LimitedInit DEF IInv
<1>2. IInv /\ [CallNext]_callVars => IInv'
  BY NextIsCallStep, SoundStep, LimitedStep DEF IInv
<1> QED BY <1>1, <1>2, PTL DEF CallSpec

(* The state of a call stays what dispatch_for() and the scheduler make of *)
(* it: a positive grain, pieces and indices within the range.              *)
THEOREM TypeCorrect == CallSpec => []CallTypeOK
<1>1. IInv => CallTypeOK
  BY DEF IInv, Sound, CallTypeOK
<1> QED BY <1>1, Invariance, PTL

(* However many indices, threads and grains: each index belongs to one     *)
(* piece of one thread, or has run, and none is lost.                      *)
THEOREM OnceEach == CallSpec => []EachIndexOnce
<1>1. IInv => EachIndexOnce
  BY PiecesAsSets DEF IInv
<1> QED BY <1>1, Invariance, PTL

(* When dispatch_for() returns, all its indices have run and no thread is  *)
(* left in the worker.                                                     *)
THEOREM CompleteOnReturn == CallSpec => []ReturnsComplete
<1>1. IInv => ReturnsComplete
  BY PiecesAsSets DEF IInv
<1> QED BY <1>1, Invariance, PTL

(* nthreads is a cap in both builds, and 1 keeps the work in R's thread:   *)
(* with TBB by the scheduler, with TinyThread because the grain leaves     *)
(* room for at most nthreads pieces, however the remainders fall.          *)
THEOREM ThreadsCapped == CallSpec => []ThreadCap
<1>1. ASSUME IInv PROVE ThreadCap
  <2> USE DEF IInv
  <2>1. Cardinality(Busy) \in Nat /\ requested \in Int /\ Sound /\ Limited
    <3>1. Sound /\ Limited /\ requested \in Int
      BY <1>1, CallAssumption
    <3>2. IsFiniteSet(Busy)
      BY <3>1 DEF Limited
    <3> QED BY <3>1, <3>2, FS_CardinalityType
  <2>2. CASE stage \in {"idle", "cutting", "returned"}
    <3>1. Busy = {}
      BY <2>1, <2>2 DEF Sound, Shape, Busy
    <3> QED BY <2>1, <3>1, FS_EmptySet DEF ThreadCap
  <2>3. CASE stage = "serial"
    <3>1. Busy \subseteq {Main}
      BY <2>1, <2>3 DEF Sound, Shape, Busy
    <3>2. Cardinality(Busy) <= 1
      <4>1. IsFiniteSet({Main}) /\ Cardinality({Main}) = 1
        BY FS_Singleton
      <4> QED BY <3>1, <4>1, FS_Subset
    <3> QED BY <2>1, <3>1, <3>2 DEF ThreadCap
  <2>4. CASE stage = "parallel"
    <3>1. requested # 1
      BY <2>1, <2>4 DEF Limited
    <3>2. ASSUME requested > 0
          PROVE  Cardinality(Busy) <= requested
      <4>1. cap \in 1 .. requested
        BY <2>1, <2>4, <3>2 DEF Limited
      <4>2. tbb \in BOOLEAN
        BY <2>1 DEF Sound, DispatchTypeOK
      <4>3. CASE tbb
        BY <2>1, <2>4, <3>2, <4>1, <4>3 DEF Limited
      <4>4. CASE ~ tbb
        <5>1. Laid
          BY <2>1, <2>4, <3>2, <4>4 DEF Limited
        <5>2. Cardinality(Busy) <= cap
          BY <2>1, <4>1, <5>1, EndsBoundThreads
        <5> QED BY <2>1, <4>1, <5>2
      <4> QED BY <4>2, <4>3, <4>4
    <3> QED BY <3>1, <3>2 DEF ThreadCap
  <2> QED BY <2>1, <2>2, <2>3, <2>4 DEF Sound, DispatchTypeOK
<1> QED BY <1>1, Invariance, PTL
=============================================================================
