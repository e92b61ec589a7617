-------------------------- MODULE TextPipelineProofs --------------------------
(***************************************************************************)
(* For every vector, plan, number of threads and interleaving: the chunks  *)
(* tile the rows, and the pipeline answers what the row-by-row             *)
(* specification of RowMap answers.                                        *)
(***************************************************************************)
EXTENDS TextPipeline, DispatchLemmas

(* The rows that are in a chunk, or will not get another: up to the chunk  *)
(* being planned, then all of them.                                        *)
Reached == IF step = "plan" THEN begin ELSE n

(* ChunksTile of a plan for the first m rows, and what follows from it by  *)
(* counting chunks: every row is in one.                                   *)
Piece == [begin : Nat, end : Nat]
Plans == Seq(Piece)
InPiece(r, i) == r.begin <= i /\ i < r.end
Tiles(plan, m) ==
  /\ \A c \in 1 .. Len(plan) :
       /\ plan[c].begin < plan[c].end
       /\ plan[c].end <= m
       /\ plan[c].end - plan[c].begin <= MaxRows
       /\ plan[c].begin = IF c = 1 THEN 0 ELSE plan[c - 1].end
  /\ \A i \in 0 .. m - 1 : \E c \in 1 .. Len(plan) : InPiece(plan[c], i)
  /\ m = IF Len(plan) = 0 THEN 0 ELSE plan[Len(plan)].end

PlanInv ==
  /\ rows \in Inputs
  /\ nthreads \in ThreadCounts
  /\ chunks \in Plans
  /\ planned \in 0 .. n
  /\ begin \in 0 .. planned
  /\ step = "plan" => planned - begin < MaxRows
  /\ Tiles(chunks, Reached)

(* How far the caller is, and what it has handed to dispatch_for().        *)
CallInv ==
  /\ step \in {"plan", "dispatch"} => stage = "idle"
  /\ step \in {"join", "finish", "done"} => stage # "idle" /\ size = Len(chunks)
  /\ step \in {"plan", "dispatch", "join", "finish", "done"}
  /\ step \in {"finish", "done"} => stage = "returned"
  /\ step # "done" => answer = Pending

Text == Seq(Rows \X Int)
Results ==
  [kind : {"na", "original"}]
    \cup [kind : {"slice"}, offset : Nat, length : Nat]
    \cup [kind : {"changed"}, chunk : Nat, offset : Nat, length : Nat]
Doings == {"nothing", "allocate", "rows", "store", "no memory"}
WorkerTypes ==
  /\ results \in [Rows -> Results]
  /\ errors \in [Rows -> {"none", "soft", "hard"}]
  /\ step # "plan" => arenas \in [Chunks -> Text]
  /\ doing \in [Threads -> Doings]
  /\ at \in [Threads -> Nat]
  /\ buf \in [Threads -> Text]

(* A thread has a place in the worker exactly while it holds chunks, and   *)
(* its place is a row of the first of them.                                *)
AtWork(t) == doing[t] \in {"rows", "store"}
PlaceOf(t) ==
  /\ doing[t] = "nothing" <=> held[t] = Idle
  /\ AtWork(t) => Chunk(held[t][1]).begin <= at[t] /\ at[t] <= Chunk(held[t][1]).end
  /\ doing[t] = "store" =>
       /\ at[t] < Chunk(held[t][1]).end
       /\ rows[at[t]].outcome = "matched"
       /\ buf[t] = Tagged(at[t], rows[at[t]].new)
  /\ doing[t] = "no memory" => scarce
Places == \A t \in Threads : PlaceOf(t)

(* What is left of a matched row: the new text, found again in the string  *)
(* or in an arena, where nothing later writes over it.                     *)
Stored(i) ==
  \/ /\ results[i] = [kind |-> "original"]
     /\ rows[i].new = SourceText(i)
  \/ /\ rows[i].new # SourceText(i)
     /\ Contiguous(rows[i].new)
     /\ results[i] = [kind |-> "slice", offset |-> SliceOffset(rows[i].new),
                      length |-> Len(rows[i].new)]
  \/ /\ rows[i].new # SourceText(i)
     /\ results[i].kind = "changed"
     /\ results[i].chunk \in Chunks
     /\ results[i].offset \in Nat
     /\ results[i].length = Len(rows[i].new)
     /\ results[i].offset + results[i].length <= Len(arenas[results[i].chunk])
     /\ \A j \in 1 .. results[i].length :
          arenas[results[i].chunk][results[i].offset + j] = <<i, rows[i].new[j]>>

(* A row the worker is done with: marked as failed, or as its own outcome  *)
(* has it.                                                                 *)
Settled(i) ==
  \/ errors[i] = "hard"
  \/ /\ rows[i].outcome # "hard"
     /\ rows[i].outcome = "soft" => errors[i] = "soft"
     /\ rows[i].outcome = "matched" => Stored(i)

RowInv(i) ==
  /\ errors[i] = "hard" => rows[i].outcome = "hard" \/ scarce
  /\ errors[i] = "soft" => rows[i].outcome = "soft"
  /\ rows[i].outcome # "matched" =>
       results[i] = [kind |-> IF rows[i].outcome = "na" THEN "na" ELSE "original"]
RowsInv ==
  /\ \A i \in Rows : RowInv(i)
  /\ \A c \in ran : \A i \in Rows : InPiece(Chunk(c), i) => Settled(i)
  /\ \A t \in Threads : AtWork(t) =>
       \A i \in Rows : Chunk(held[t][1]).begin <= i /\ i < at[t] => Settled(i)

(* report_pcre2_errors() has let the call through.                         *)
Passed ==
  step = "finish" =>
    /\ \A i \in Rows : errors[i] # "hard"
    /\ warned = <<M!First(M!Soft), Cardinality(M!Soft)>>

IInv == Sound /\ PlanInv /\ CallInv /\ WorkerTypes /\ Places /\ RowsInv /\ Passed
-----------------------------------------------------------------------------
(* The rows of a call are the numbers below n. *)
LEMMA RowsRange ==
  ASSUME rows \in Inputs
  PROVE  /\ n \in Nat /\ IsFiniteSet(Rows) /\ Rows = 0 .. n - 1
         /\ \A i \in Rows : IsRow(rows[i])
<1>1. IsFiniteSet(Rows) /\ Rows = 0 .. n - 1 /\ \A i \in Rows : IsRow(rows[i])
  BY PipelineAssumption DEF Rows, n
<1>2. n \in Nat
  BY <1>1, FS_CardinalityType DEF n
<1> QED BY <1>1, <1>2

(* A saturated sum is a number. *)
LEMMA SaturatedNatural ==
  ASSUME NEW x \in Nat
  PROVE  Saturated(x) \in Nat
BY PipelineAssumption DEF Saturated, MinOf

(* So is the number of bytes of the rows before any row. *)
LEMMA BytesNatural ==
  ASSUME rows \in Inputs
  PROVE  \A i \in 0 .. n : BytesUpto[i] \in Nat
<1>1. n \in Nat /\ \A i \in 1 .. n : rows[i - 1].size \in Nat
  BY RowsRange DEF IsRow
<1> DEFINE turn == [i \in 1 .. n |-> [x \in Nat |-> Saturated(x + rows[i - 1].size)]]
           Body(f) == [i \in 0 .. n |-> IF i = 0 THEN 0 ELSE Saturated(f[i - 1] + rows[i - 1].size)]
<1>2. \A i \in 1 .. n : \A x \in Nat : turn[i][x] \in Nat
  BY <1>1, SaturatedNatural
<1>3. PICK f \in [0 .. n -> Nat] : f[0] = 0 /\ \A i \in 1 .. n : f[i] = turn[i][f[i - 1]]
  <2> HIDE DEF turn
  <2>1. n \in Nat /\ 0 \in Nat
    BY <1>1
  <2>2. \E f \in [0 .. n -> Nat] : Follows(f, n, 0, turn)
    BY <1>2, <2>1, RecursionExists
  <2> QED BY <2>2 DEF Follows
<1>4. f = Body(f)
  <2>1. \A i \in 0 .. n : f[i] = IF i = 0 THEN 0 ELSE Saturated(f[i - 1] + rows[i - 1].size)
    <3> SUFFICES ASSUME NEW i \in 1 .. n
                 PROVE  f[i] = Saturated(f[i - 1] + rows[i - 1].size)
      BY <1>1, <1>3
    <3>1. f[i - 1] \in Nat
      BY <1>1
    <3> QED BY <1>3, <3>1
  <2> QED BY <2>1
<1>5. BytesUpto = CHOOSE g : g = Body(g)
  BY DEF BytesUpto
<1>6. BytesUpto = Body(BytesUpto)
  <2> HIDE DEF Body
  <2> QED BY <1>4, <1>5
<1> DEFINE S == {i \in Nat : i <= n => BytesUpto[i] \in Nat}
<1>7. 0 \in S
  BY <1>1, <1>6
<1>8. ASSUME NEW i \in Nat, i \in S
      PROVE  i + 1 \in S
  <2> SUFFICES ASSUME i + 1 <= n PROVE BytesUpto[i + 1] \in Nat
    OBVIOUS
  <2>1. BytesUpto[i] \in Nat /\ rows[i].size \in Nat
    <3>1. i + 1 \in 1 .. n /\ i <= n /\ (i + 1) - 1 = i
      BY <1>1
    <3>2. rows[(i + 1) - 1].size \in Nat
      BY <1>1, <3>1
    <3> QED BY <1>8, <3>1, <3>2
  <2>2. BytesUpto[i + 1] = Saturated(BytesUpto[i] + rows[i].size)
    BY <1>1, <1>6
  <2>3. BytesUpto[i] + rows[i].size \in Nat
    BY <2>1
  <2> QED BY <2>2, <2>3, SaturatedNatural
<1>9. \A i \in Nat : i \in S
  <2> HIDE DEF S
  <2> QED BY <1>7, <1>8, SetInduction
<1> QED BY <1>1, <1>9

(* So is a division rounded up. *)
LEMMA CeilDivNatural ==
  ASSUME NEW x \in Nat, NEW d \in Nat \ {0}
  PROVE  CeilDiv(x, d) \in Nat
<1>1. x \div d \in Nat /\ x % d \in Nat
  BY SMT
<1> QED BY <1>1 DEF CeilDiv

(* Whatever the vector, dispatch_for() is asked for a number of threads    *)
(* and a grain.                                                            *)
LEMMA PlanParameters ==
  ASSUME PlanInv
  PROVE  DispatchThreads \in Int /\ PlanGrain \in Nat
<1>1. n \in Nat /\ nthreads \in Int /\ Len(chunks) \in Nat
  BY RowsRange, PipelineAssumption DEF PlanInv, Plans
<1>2. TotalBytes \in Nat
  BY <1>1, BytesNatural DEF TotalBytes, PlanInv
<1>3. Work \in Nat
  <2>1. TotalBytes + n * RowOverhead \in Nat
    BY <1>1, <1>2, PipelineAssumption
  <2> QED BY <2>1, SaturatedNatural DEF Work
<1>4. CeilDiv(CeilDiv(Work, TargetBytes), ChunksPerThread) \in Nat
  BY <1>3, CeilDivNatural, PipelineAssumption
<1>5. ThreadHint \in Nat /\ (n > 0 => ThreadHint > 0)
  BY <1>1, <1>4, PipelineAssumption DEF ThreadHint, MinOf, MaxOf
<1>6. DispatchThreads \in Int
  BY <1>1, <1>5 DEF DispatchThreads, MinOf
<1>7. PlanGrain \in Nat
  <2>1. CASE n = 0 \/ Serial
    BY <2>1 DEF PlanGrain
  <2>2. CASE ~ (n = 0 \/ Serial)
    <3>1. ThreadHint \in Nat \ {0}
      BY <1>1, <1>5, <2>2
    <3>2. CeilDiv(Len(chunks), ThreadHint) \in Nat
      BY <1>1, <3>1, CeilDivNatural
    <3> QED BY <2>2, <3>2 DEF PlanGrain
  <2> QED BY <2>1, <2>2
<1> QED BY <1>6, <1>7

(* A step of the pipeline is a step of its dispatch. *)
LEMMA NextIsCallStep ==
  ASSUME PlanInv, [Next]_vars
  PROVE  CallStep
<1>1. CASE Dispatch
  <2>1. Len(chunks) \in Nat /\ (Work < Threshold) \in BOOLEAN
    BY DEF PlanInv, Plans
  <2> QED BY <1>1, <2>1, PlanParameters DEF Dispatch, CallStep
<1>2. CASE PlanRow \/ FinishPlan \/ Report \/ Finalize \/ UNCHANGED vars
  BY <1>2 DEF PlanRow, FinishPlan, Report, Finalize, vars, CallStep
<1>3. CASE Halve \/ Joined
  BY <1>3 DEF Halve, Joined, CallStep
<1>4. ASSUME NEW t \in Threads, ThreadStep(t)
      PROVE  CallStep
  BY <1>4 DEF ThreadStep, TakeRange, Allocate, NoMemory, MarkChunk, PassRow, Rewrite, Store,
              EndChunk, NextChunk, CallStep
<1> QED BY <1>1, <1>2, <1>3, <1>4 DEF Next, Caller
-----------------------------------------------------------------------------
(* A chunk put behind the others covers the rows up to its end.            *)
LEMMA TilesGrow ==
  ASSUME NEW p, NEW q, NEW len \in Nat, Len(p) = len, Len(q) = len + 1,
         \A c \in 1 .. len : p[c] \in Piece /\ q[c] = p[c],
         NEW m \in Nat, NEW e \in Nat, m < e, e - m <= MaxRows, Tiles(p, m),
         q[len + 1].begin = m, q[len + 1].end = e
  PROVE  Tiles(q, e)
<1>1. \A c \in 1 .. len : p[c].begin \in Nat /\ p[c].end \in Nat
  BY DEF Piece
<1>2. m = IF len = 0 THEN 0 ELSE p[len].end
  BY DEF Tiles
<1>3. ASSUME NEW c \in 1 .. len + 1
      PROVE  /\ q[c].begin < q[c].end
             /\ q[c].end <= e
             /\ q[c].end - q[c].begin <= MaxRows
             /\ q[c].begin = IF c = 1 THEN 0 ELSE q[c - 1].end
  <2>1. CASE c = len + 1
    <3>1. len # 0 => q[c - 1] = p[len]
      BY <2>1
    <3> QED BY <1>2, <2>1, <3>1
  <2>2. CASE c # len + 1
    <3>1. c \in 1 .. len /\ q[c] = p[c] /\ p[c].end \in Nat /\ p[c].end <= m
      BY <1>1, <2>2 DEF Tiles
    <3>2. c # 1 => q[c - 1] = p[c - 1]
      BY <3>1
    <3> QED BY <3>1, <3>2 DEF Tiles
  <2> QED BY <2>1, <2>2
<1>4. ASSUME NEW i \in 0 .. e - 1
      PROVE  \E c \in 1 .. len + 1 : InPiece(q[c], i)
  <2>1. CASE i < m
    <3>0. i \in 0 .. m - 1 /\ \A j \in 0 .. m - 1 : \E c \in 1 .. Len(p) : InPiece(p[c], j)
      BY <2>1 DEF Tiles
    <3>1. PICK c \in 1 .. len : InPiece(p[c], i)
      BY <3>0
    <3>2. c \in 1 .. len + 1 /\ q[c] = p[c]
      OBVIOUS
    <3> QED BY <3>1, <3>2
  <2>2. CASE m <= i
    <3>1. InPiece(q[len + 1], i)
      BY <2>2 DEF InPiece
    <3> QED BY <3>1
  <2> QED BY <2>1, <2>2
<1> QED BY <1>3, <1>4 DEF Tiles

(* A chunk appended where the plan ends makes a plan that tiles up to the chunk's end. *)
LEMMA ChunkAppended ==
  ASSUME NEW plan \in Plans, NEW m \in Nat, Tiles(plan, m),
         NEW e \in Nat, m < e, e - m <= MaxRows
  PROVE  LET longer == Append(plan, [begin |-> m, end |-> e])
         IN  longer \in Plans /\ Tiles(longer, e)
<1> DEFINE last == [begin |-> m, end |-> e]
           longer == Append(plan, last)
<1>1. last \in Piece /\ last.begin = m /\ last.end = e
  BY DEF Piece
<1> HIDE DEF last
<1>2. PICK len \in Nat : len = Len(plan)
  BY DEF Plans
<1>3. longer \in Plans /\ Len(longer) = len + 1 /\ longer[len + 1] = last
  BY <1>1, <1>2 DEF Plans
<1>4. \A c \in 1 .. len : plan[c] \in Piece /\ longer[c] = plan[c]
  BY <1>1, <1>2 DEF Plans
<1> HIDE DEF longer
<1>5. longer[len + 1].begin = m /\ longer[len + 1].end = e
  BY <1>1, <1>3
<1>6. Tiles(longer, e)
  BY <1>2, <1>3, <1>4, <1>5, TilesGrow
<1> QED BY <1>3, <1>6 DEF longer, last

(* A thread leaves the job, the plan and the caller alone.                 *)
LEMMA ThreadFrame ==
  ASSUME NEW t \in Threads, ThreadStep(t)
  PROVE  UNCHANGED <<stage, size, job_vars, step, plan_vars, warned, answer>>
<1> USE DEF job_vars, plan_vars
<1>1. CASE TakeRange(t)
  BY <1>1 DEF TakeRange, Claim
<1>2. CASE Allocate(t)
  BY <1>2 DEF Allocate, dispatch_vars
<1>3. CASE NoMemory(t)
  <2>1. UNCHANGED dispatch_vars /\ UNCHANGED <<job_vars, step, plan_vars, warned, answer>>
    BY <1>3, Zenon DEF NoMemory
  <2> QED BY <2>1 DEF dispatch_vars
<1>4. CASE PassRow(t)
  BY <1>4 DEF PassRow, dispatch_vars
<1>5. CASE Rewrite(t)
  BY <1>5 DEF Rewrite, dispatch_vars
<1>6. CASE Store(t)
  BY <1>6 DEF Store, dispatch_vars
<1>7. CASE MarkChunk(t)
  <2>1. NextChunk(t) /\ UNCHANGED <<job_vars, step, plan_vars, warned, answer>>
    BY <1>7, Zenon DEF MarkChunk
  <2> QED BY <2>1 DEF NextChunk, Run
<1>8. CASE EndChunk(t)
  BY <1>8 DEF EndChunk, NextChunk, Run
<1> QED BY <1>1, <1>2, <1>3, <1>4, <1>5, <1>6, <1>7, <1>8 DEF ThreadStep

(* No step changes the call's input. *)
LEMMA RowsKept ==
  ASSUME [Next]_vars
  PROVE  UNCHANGED job_vars /\ n' = n /\ Rows' = Rows
<1>1. UNCHANGED job_vars
  <2>1. ASSUME NEW t \in Threads, ThreadStep(t)
        PROVE  UNCHANGED job_vars
    BY <2>1, ThreadFrame
  <2>2. CASE PlanRow \/ FinishPlan \/ Dispatch
    BY <2>2 DEF PlanRow, FinishPlan, Dispatch
  <2>3. CASE Report \/ Finalize
    BY <2>3 DEF Report, Finalize
  <2>4. CASE Halve \/ Joined \/ UNCHANGED vars
    BY <2>4 DEF Halve, Joined, vars
  <2> QED BY <2>1, <2>2, <2>3, <2>4 DEF Next, Caller
<1> QED BY <1>1 DEF job_vars, n, Rows

(* Only the planning loop changes the plan. *)
LEMMA PlanKept ==
  ASSUME [Next]_vars, ~ PlanRow, ~ FinishPlan
  PROVE  UNCHANGED plan_vars /\ (step = "plan" <=> step' = "plan")
<1>1. ASSUME NEW t \in Threads, ThreadStep(t)
      PROVE  UNCHANGED plan_vars /\ (step = "plan" <=> step' = "plan")
  BY <1>1, ThreadFrame
<1>2. CASE Dispatch \/ Report \/ Finalize
  BY <1>2 DEF Dispatch, Report, Finalize
<1>3. CASE Halve \/ Joined \/ UNCHANGED vars
  BY <1>3 DEF Halve, Joined, vars
<1> QED BY <1>1, <1>2, <1>3 DEF Next, Caller

(* Every step keeps the plan: chunks tile the rows read so far. *)
LEMMA PlanStep ==
  ASSUME PlanInv, [Next]_vars
  PROVE  PlanInv'
<1>1. n \in Nat /\ n' = n /\ UNCHANGED job_vars /\ MaxRows \in Nat \ {0}
  BY RowsRange, RowsKept, PipelineAssumption DEF PlanInv
<1>2. /\ chunks \in Plans /\ planned \in 0 .. n /\ begin \in 0 .. planned
      /\ step = "plan" => planned - begin < MaxRows
  BY DEF PlanInv
<1>3. rows' \in Inputs /\ nthreads' \in ThreadCounts
  BY <1>1 DEF PlanInv, job_vars
<1>4. CASE PlanRow
  <2>1. step = "plan" /\ step' = "plan" /\ planned < n /\ planned' = planned + 1
    BY <1>4 DEF PlanRow
  <2>2. Tiles(chunks, begin)
    BY <2>1 DEF PlanInv, Reached
  <2>3. CASE /\ chunks' = Append(chunks, [begin |-> begin, end |-> planned + 1])
             /\ begin' = planned + 1
    <3>1. planned + 1 \in Nat /\ begin \in Nat /\ begin < planned + 1 /\ planned + 1 - begin <= MaxRows
      BY <1>1, <1>2, <2>1
    <3>2. chunks' \in Plans /\ Tiles(chunks', begin')
      BY <1>2, <2>2, <2>3, <3>1, ChunkAppended
    <3>3. Tiles(chunks, Reached)'
      BY <2>1, <3>2 DEF Reached
    <3>4. planned' \in 0 .. n /\ begin' \in 0 .. planned' /\ planned' - begin' < MaxRows
      BY <1>1, <1>2, <2>1, <2>3
    <3> QED BY <1>1, <1>3, <3>2, <3>3, <3>4 DEF PlanInv
  <2>4. CASE UNCHANGED <<chunks, begin>> /\ planned - begin + 1 < MaxRows
    <3>1. Tiles(chunks, Reached)'
      BY <2>1, <2>2, <2>4 DEF Reached
    <3>2. planned' \in 0 .. n /\ begin' \in 0 .. planned' /\ planned' - begin' < MaxRows
      BY <1>1, <1>2, <2>1, <2>4
    <3> QED BY <1>1, <1>2, <1>3, <2>4, <3>1, <3>2 DEF PlanInv
  <2>5. \/ /\ chunks' = Append(chunks, [begin |-> begin, end |-> planned + 1])
           /\ begin' = planned + 1
        \/ UNCHANGED <<chunks, begin>> /\ ~ (planned - begin + 1 >= MaxRows)
    BY <1>4 DEF PlanRow
  <2> QED BY <1>1, <1>2, <2>3, <2>4, <2>5
<1>5. CASE FinishPlan
  <2>1. step = "plan" /\ step' = "dispatch" /\ planned = n /\ UNCHANGED <<planned, begin>>
    BY <1>5 DEF FinishPlan
  <2>2. Tiles(chunks, begin)
    BY <2>1 DEF PlanInv, Reached
  <2>3. chunks' \in Plans /\ Tiles(chunks', n)
    <3>1. CASE begin < n
      <4>1. chunks' = Append(chunks, [begin |-> begin, end |-> n])
        BY <1>5, <3>1 DEF FinishPlan
      <4>2. begin \in Nat /\ n - begin <= MaxRows
        BY <1>1, <1>2, <2>1
      <4> QED BY <1>1, <1>2, <2>2, <3>1, <4>1, <4>2, ChunkAppended
    <3>2. CASE ~ (begin < n)
      <4>1. chunks' = chunks /\ begin = n
        BY <1>1, <1>2, <1>5, <2>1, <3>2 DEF FinishPlan
      <4> QED BY <1>2, <2>2, <4>1
    <3> QED BY <3>1, <3>2
  <2>4. Tiles(chunks, Reached)'
    BY <1>1, <2>1, <2>3 DEF Reached
  <2> QED BY <1>1, <1>2, <1>3, <2>1, <2>3, <2>4 DEF PlanInv
<1>6. CASE ~ PlanRow /\ ~ FinishPlan
  <2>1. UNCHANGED plan_vars /\ (step = "plan" <=> step' = "plan")
    BY <1>6, PlanKept
  <2>2. Tiles(chunks, Reached)'
    <3>1. Reached' = Reached /\ chunks' = chunks
      BY <1>1, <2>1 DEF Reached, plan_vars
    <3>2. Tiles(chunks, Reached)
      BY DEF PlanInv
    <3> QED BY <3>1, <3>2
  <2> QED BY <1>1, <1>2, <1>3, <2>1, <2>2 DEF PlanInv, plan_vars
<1> QED BY <1>4, <1>5, <1>6

(* Every step keeps the dispatch's parameters those of the plan. *)
LEMMA CallStepKept ==
  ASSUME PlanInv, CallInv, Sound, [Next]_vars
  PROVE  CallInv'
<1>1. CASE PlanRow \/ FinishPlan \/ Finalize \/ Report
  BY <1>1 DEF CallInv, PlanRow, FinishPlan, Finalize, Report, dispatch_vars, plan_vars
<1>2. CASE Dispatch
  <2>1. Len(chunks) \in Nat
    BY DEF PlanInv, Plans
  <2> QED BY <1>2, <2>1 DEF CallInv, Dispatch, Enter, plan_vars
<1>3. CASE Joined
  BY <1>3 DEF CallInv, Joined, Join, plan_vars
<1>4. CASE Halve
  BY <1>4 DEF CallInv, Halve, Split, plan_vars
<1>5. ASSUME NEW t \in Threads, ThreadStep(t)
      PROVE  CallInv'
  BY <1>5, ThreadFrame DEF CallInv, plan_vars
<1>6. CASE UNCHANGED vars
  BY <1>6 DEF CallInv, vars, dispatch_vars, plan_vars
<1> QED BY <1>1, <1>2, <1>3, <1>4, <1>5, <1>6 DEF Next, Caller
-----------------------------------------------------------------------------
(* A finished plan's chunks are nonempty ranges of rows. *)
LEMMA ChunkShape ==
  ASSUME PlanInv, step # "plan", NEW c \in Chunks
  PROVE  /\ Chunk(c).begin \in Nat /\ Chunk(c).end \in Nat
         /\ Chunk(c).begin < Chunk(c).end /\ Chunk(c).end <= n
<1>1. chunks \in Plans /\ Tiles(chunks, n)
  BY DEF PlanInv, Reached
<1>2. Len(chunks) \in Nat
  BY <1>1 DEF Plans
<1>3. c + 1 \in 1 .. Len(chunks)
  BY <1>2 DEF Chunks
<1>4. chunks[c + 1] \in Piece
  BY <1>1, <1>3 DEF Plans
<1>5. chunks[c + 1].begin \in Nat /\ chunks[c + 1].end \in Nat
  BY <1>4 DEF Piece
<1>6. chunks[c + 1].begin < chunks[c + 1].end /\ chunks[c + 1].end <= n
  BY <1>1, <1>3 DEF Tiles
<1> QED BY <1>5, <1>6 DEF Chunk

(* The chunks a thread holds are chunks of the plan.                       *)
LEMMA HeldChunk ==
  ASSUME Sound, PlanInv, CallInv, NEW t \in Threads, held[t] # Idle
  PROVE  /\ step = "join"
         /\ held[t] = <<held[t][1], held[t][2]>>
         /\ held[t][1] \in Nat /\ held[t][2] \in Nat /\ held[t][1] < held[t][2]
         /\ \A c \in Int : held[t][1] <= c /\ c < held[t][2] => c \in Chunks
<1>1. step = "join" /\ size = Len(chunks)
  BY DEF Sound, Shape, CallInv
<1>2. PICK p \in 0 .. size, q \in 0 .. size : held[t] = <<p, q>> /\ p < q
  BY DEF Sound, DispatchTypeOK, Busy
<1>3. size \in Nat
  BY DEF Sound, DispatchTypeOK
<1> QED BY <1>1, <1>2, <1>3 DEF Chunks

(* A thread that is done with a chunk holds the ones after it, or nothing. *)
LEMMA RunNext ==
  ASSUME Sound, PlanInv, CallInv, NEW t \in Threads, Run(t)
  PROVE  /\ held[t] # Idle
         /\ held[t][1] \in Chunks
         /\ ran' = ran \cup {held[t][1]}
         /\ \A u \in Threads : u # t => held'[u] = held[u]
         /\ held'[t] # Idle => held'[t][1] \in Chunks /\ held'[t][1] = held[t][1] + 1
<1>1. held[t] # Idle
  BY DEF Run, Busy
<1>2. PICK p \in Nat, q \in Nat : held[t] = <<p, q>> /\ p < q
  BY <1>1, HeldChunk
<1>3. \A c \in Int : p <= c /\ c < q => c \in Chunks
  <2>1. held[t][1] = p /\ held[t][2] = q
    BY <1>2
  <2> QED BY <1>1, <2>1, HeldChunk
<1>4. p \in Chunks /\ (p + 1 < q => p + 1 \in Chunks)
  BY <1>2, <1>3
<1>5. held' = [held EXCEPT ![t] = IF p + 1 = q THEN Idle ELSE <<p + 1, q>>] /\ ran' = ran \cup {p}
  BY <1>2 DEF Run
<1>6. held = [u \in Threads |-> held[u]]
  BY DEF Sound, DispatchTypeOK
<1>7. held'[t] = IF p + 1 = q THEN Idle ELSE <<p + 1, q>>
  BY <1>5, <1>6
<1> QED BY <1>1, <1>2, <1>4, <1>5, <1>6, <1>7

(* The row a thread is at is one of the first chunk it holds.              *)
LEMMA AtWorkRow ==
  ASSUME Sound, PlanInv, CallInv, WorkerTypes, Places,
         NEW t \in Threads, AtWork(t), at[t] < Chunk(held[t][1]).end
  PROVE  /\ step = "join"
         /\ held[t][1] \in Chunks
         /\ at[t] \in Rows
         /\ InPiece(Chunk(held[t][1]), at[t])
<1>1. held[t] # Idle
  BY DEF Places, PlaceOf, AtWork
<1>2. step = "join" /\ held[t][1] \in Chunks
  BY <1>1, HeldChunk
<1>3. Chunk(held[t][1]).end \in Nat /\ Chunk(held[t][1]).end <= n
  BY <1>2, ChunkShape
<1>4. n \in Nat /\ Rows = 0 .. n - 1
  BY RowsRange DEF PlanInv
<1>5. at[t] \in Nat /\ Chunk(held[t][1]).begin <= at[t]
  BY DEF WorkerTypes, Places, PlaceOf
<1> QED BY <1>2, <1>3, <1>4, <1>5 DEF InPiece

(* The text made for a row is as long as the row's new text, byte for byte. *)
LEMMA TaggedText ==
  ASSUME PlanInv, NEW i \in Rows
  PROVE  /\ Tagged(i, rows[i].new) \in Text
         /\ Len(Tagged(i, rows[i].new)) = Len(rows[i].new)
         /\ \A j \in 1 .. Len(rows[i].new) : Tagged(i, rows[i].new)[j] = <<i, rows[i].new[j]>>
<1>1. rows[i].new \in Seq(Int)
  BY RowsRange DEF PlanInv, IsRow
<1>2. DOMAIN rows[i].new = 1 .. Len(rows[i].new) /\ Len(rows[i].new) \in Nat
  BY <1>1
<1> DEFINE text == [j \in 1 .. Len(rows[i].new) |-> <<i, rows[i].new[j]>>]
<1>3. Tagged(i, rows[i].new) = text
  BY <1>2 DEF Tagged
<1>4. \A j \in 1 .. Len(rows[i].new) : <<i, rows[i].new[j]>> \in Rows \X Int
  BY <1>1
<1>5. text \in Seq(Rows \X Int) /\ Len(text) = Len(rows[i].new)
  BY <1>2, <1>4
<1> QED BY <1>3, <1>5 DEF Text

(* Storing a row changes the result of that row only. *)
LEMMA StoreResult ==
  ASSUME NEW t \in Threads, Store(t), at[t] \in Rows, PlanInv,
         held[t][1] \in Chunks, arenas \in [Chunks -> Text], buf[t] \in Text
  PROVE  \E x \in Results : results' = [results EXCEPT ![at[t]] = x]
<1>1. PICK i \in Rows, c \in Chunks : i = at[t] /\ c = held[t][1]
  OBVIOUS
<1>2. PICK text \in Seq(Int) : text = rows[i].new
  BY RowsRange DEF PlanInv, IsRow
<1>3. Len(text) \in Nat /\ Len(arenas[c]) \in Nat /\ Len(buf[t]) \in Nat /\ c \in Nat
  BY <1>1, <1>2 DEF Text, Chunks
<1>4. CASE results' = [results EXCEPT ![i] = [kind |-> "original"]]
  BY <1>1, <1>4 DEF Results
<1>5. CASE /\ Contiguous(text)
           /\ results' = [results EXCEPT ![i] = [kind |-> "slice", offset |-> SliceOffset(text),
                                                 length |-> Len(text)]]
  <2>1. SliceOffset(text) \in Nat
    <3>1. text # <<>> => 1 \in DOMAIN text /\ text[1] \in Int
      BY <1>2
    <3> QED BY <1>5, <3>1 DEF Contiguous, SliceOffset
  <2> QED BY <1>1, <1>3, <1>5, <2>1 DEF Results
<1>6. CASE results' = [results EXCEPT ![i] = [kind |-> "changed", chunk |-> c,
                                              offset |-> Len(arenas[c]), length |-> Len(buf[t])]]
  BY <1>1, <1>3, <1>6 DEF Results
<1> QED BY <1>1, <1>2, <1>4, <1>5, <1>6 DEF Store

(* Every step keeps the types of what the workers write. *)
LEMMA TypesStep ==
  ASSUME Sound, PlanInv, CallInv, WorkerTypes, Places, [Next]_vars
  PROVE  WorkerTypes'
<1>0. Rows' = Rows /\ Text' = Text
  BY RowsKept DEF Text
<1>t. doing \in [Threads -> Doings] /\ at \in [Threads -> Nat] /\ buf \in [Threads -> Text]
  BY DEF WorkerTypes
<1>d. {"nothing", "rows"} \subseteq Doings
  BY DEF Doings
<1>1. UNCHANGED <<step, chunks>> /\ UNCHANGED worker_vars => WorkerTypes'
  BY <1>0 DEF WorkerTypes, worker_vars, Chunks
<1>2. CASE PlanRow \/ Report \/ Finalize
  <2>1. UNCHANGED worker_vars
    BY <1>2 DEF PlanRow, Report, Finalize
  <2>2. step' # "plan" => step # "plan" /\ UNCHANGED chunks
    BY <1>2 DEF PlanRow, Report, Finalize, plan_vars
  <2> QED BY <1>0, <2>1, <2>2 DEF WorkerTypes, worker_vars, Chunks
<1>3. CASE FinishPlan
  <2>1. arenas' = [c \in Chunks' |-> <<>>] /\ UNCHANGED <<results, errors, doing, at, buf>>
    BY <1>3 DEF FinishPlan, Chunks
  <2>2. <<>> \in Text
    BY DEF Text
  <2> QED BY <1>0, <2>1, <2>2 DEF WorkerTypes
<1>4. CASE Dispatch
  <2>1. step # "plan" /\ UNCHANGED <<chunks, results, arenas, errors, at, buf>>
    BY <1>4 DEF Dispatch, plan_vars
  <2>2. doing' \in [Threads -> Doings]
    BY <1>4 DEF Dispatch, WorkerTypes, Doings
  <2> QED BY <1>0, <2>1, <2>2 DEF WorkerTypes, Chunks
<1>5. CASE Halve \/ Joined \/ UNCHANGED vars
  BY <1>1, <1>5 DEF Halve, Joined, vars, plan_vars, worker_vars
<1>6. ASSUME NEW t \in Threads, ThreadStep(t)
      PROVE  WorkerTypes'
  <2>0. UNCHANGED <<step, chunks>> /\ Chunks' = Chunks
    BY <1>6, ThreadFrame DEF plan_vars, Chunks
  <2>1. CASE TakeRange(t)
    BY <1>0, <2>0, <2>1 DEF TakeRange, WorkerTypes, Doings
  <2>2. CASE Allocate(t)
    <3>1. held[t] # Idle
      BY <2>2 DEF Allocate, Places, PlaceOf
    <3>2. Chunk(held[t][1]).begin \in Nat
      BY <3>1, HeldChunk, ChunkShape
    <3>3. <<>> \in Text
      BY DEF Text
    <3> QED BY <1>0, <2>0, <2>2, <3>2, <3>3 DEF Allocate, WorkerTypes, Doings
  <2>3. CASE NoMemory(t)
    BY <1>0, <2>0, <2>3 DEF NoMemory, WorkerTypes, Doings
  <2>4. NextChunk(t) =>
          /\ doing' \in [Threads -> Doings]
          /\ at' \in [Threads -> Nat]
          /\ buf' \in [Threads -> Text]
    <3> SUFFICES ASSUME NextChunk(t)
                 PROVE  /\ doing' \in [Threads -> Doings]
                        /\ at' \in [Threads -> Nat]
                        /\ buf' \in [Threads -> Text]
      OBVIOUS
    <3>1. held'[t] # Idle => held'[t][1] \in Chunks /\ step = "join"
      BY RunNext, HeldChunk DEF NextChunk
    <3>2. held'[t] # Idle => Chunk(held'[t][1]).begin \in Nat
      BY <3>1, ChunkShape
    <3>3. <<>> \in Text
      BY DEF Text
    <3>4. CASE held'[t] = Idle
      BY <1>t, <1>d, <3>3, <3>4 DEF NextChunk
    <3>5. CASE held'[t] # Idle
      BY <1>t, <3>2, <3>5 DEF NextChunk
    <3> QED BY <3>4, <3>5
  <2>5. CASE MarkChunk(t)
    <3>1. errors' \in [Rows -> {"none", "soft", "hard"}]
      BY <2>5 DEF MarkChunk, WorkerTypes
    <3>2. UNCHANGED <<results, arenas>> /\ NextChunk(t)
      BY <2>5 DEF MarkChunk
    <3> QED BY <1>0, <2>0, <2>4, <3>1, <3>2 DEF WorkerTypes
  <2>6. CASE PassRow(t)
    <3>1. errors' \in [Rows -> {"none", "soft", "hard"}]
      BY <2>6 DEF PassRow, WorkerTypes
    <3>2. at' \in [Threads -> Nat] /\ UNCHANGED <<results, arenas, doing, buf>>
      BY <2>6 DEF PassRow, WorkerTypes
    <3> QED BY <1>0, <2>0, <3>1, <3>2 DEF WorkerTypes
  <2>7. CASE Rewrite(t)
    <3>1. at[t] \in Rows
      BY <2>7, AtWorkRow DEF Rewrite, AtRow, AtWork
    <3>2. Tagged(at[t], rows[at[t]].new) \in Text
      BY <3>1, TaggedText
    <3> QED BY <1>0, <2>0, <2>7, <3>2 DEF Rewrite, WorkerTypes, Doings
  <2>8. CASE Store(t)
    <3>1. at[t] \in Rows /\ held[t][1] \in Chunks /\ step # "plan"
      BY <2>8, AtWorkRow DEF Store, AtWork, Places, PlaceOf
    <3>2. PICK c : c = held[t][1]
      OBVIOUS
    <3>3. arenas \in [Chunks -> Text] /\ buf[t] \in Text
      BY <3>1 DEF WorkerTypes
    <3>4. arenas[c] \o buf[t] \in Text
      BY <3>1, <3>2, <3>3 DEF Text
    <3>5. arenas' \in [Chunks -> Text]
      BY <2>8, <3>2, <3>3, <3>4 DEF Store
    <3>6. results' \in [Rows -> Results]
      <4>1. PICK x \in Results : results' = [results EXCEPT ![at[t]] = x]
        BY <2>8, <3>1, <3>3, StoreResult
      <4> QED BY <4>1 DEF WorkerTypes
    <3>7. /\ doing' \in [Threads -> Doings]
          /\ at' \in [Threads -> Nat]
      <4>1. /\ doing' = [doing EXCEPT ![t] = "rows"]
            /\ at' = [at EXCEPT ![t] = at[t] + 1]
        BY <2>8 DEF Store
      <4> QED BY <1>t, <1>d, <4>1
    <3>8. UNCHANGED <<errors, buf>>
      BY <2>8 DEF Store
    <3> QED BY <1>0, <2>0, <3>5, <3>6, <3>7, <3>8 DEF WorkerTypes
  <2>9. CASE EndChunk(t)
    <3>1. UNCHANGED <<results, arenas, errors>> /\ NextChunk(t)
      BY <2>9 DEF EndChunk
    <3> QED BY <1>0, <2>0, <2>4, <3>1 DEF WorkerTypes
  <2> QED BY <1>6, <2>1, <2>2, <2>3, <2>5, <2>6, <2>7, <2>8, <2>9 DEF ThreadStep
<1> QED BY <1>2, <1>3, <1>4, <1>5, <1>6 DEF Next, Caller
-----------------------------------------------------------------------------
(* A thread's place stands when the step leaves the thread alone. *)
LEMMA PlaceKept ==
  ASSUME NEW t \in Threads, PlaceOf(t), UNCHANGED <<rows, scarce>>,
         doing'[t] = doing[t], held'[t] = held[t],
         \/ doing[t] = "nothing"
         \/ chunks' = chunks /\ at'[t] = at[t] /\ buf'[t] = buf[t]
  PROVE  PlaceOf(t)'
<1>1. CASE doing[t] = "nothing"
  BY <1>1 DEF PlaceOf, AtWork
<1>2. CASE chunks' = chunks /\ at'[t] = at[t] /\ buf'[t] = buf[t]
  <2>1. \A c : Chunk(c)' = Chunk(c)
    BY <1>2 DEF Chunk
  <2>2. Chunk(held[t][1])' = Chunk(held[t][1])
    BY <1>2 DEF Chunk
  <2>3. Tagged(at[t], rows[at[t]].new)' = Tagged(at[t], rows[at[t]].new)
    BY <1>2 DEF Tagged
  <2>4. rows'[at'[t]] = rows[at[t]]
    BY <1>2
  <2> QED BY <1>2, <2>2, <2>3, <2>4 DEF PlaceOf, AtWork
<1> QED BY <1>1, <1>2

(* What a thread's step does to the others: nothing.                       *)
LEMMA OthersKept ==
  ASSUME Sound, PlanInv, CallInv, WorkerTypes, NEW t \in Threads, ThreadStep(t),
         NEW u \in Threads, u # t
  PROVE  /\ doing'[u] = doing[u] /\ at'[u] = at[u] /\ buf'[u] = buf[u]
         /\ held'[u] = held[u]
<1>1. /\ doing = [v \in Threads |-> doing[v]]
      /\ at = [v \in Threads |-> at[v]]
      /\ buf = [v \in Threads |-> buf[v]]
      /\ held = [v \in Threads |-> held[v]]
  BY DEF WorkerTypes, Sound, DispatchTypeOK
<1>2. CASE TakeRange(t)
  BY <1>1, <1>2 DEF TakeRange, Claim
<1>3. CASE Allocate(t)
  BY <1>1, <1>3 DEF Allocate, dispatch_vars
<1>4. CASE NoMemory(t)
  BY <1>1, <1>4 DEF NoMemory, dispatch_vars
<1>5. CASE PassRow(t)
  BY <1>1, <1>5 DEF PassRow, dispatch_vars
<1>6. CASE Rewrite(t)
  BY <1>1, <1>6 DEF Rewrite, dispatch_vars
<1>7. CASE Store(t)
  BY <1>1, <1>7 DEF Store, dispatch_vars
<1>8. ASSUME NextChunk(t)
      PROVE  /\ doing'[u] = doing[u] /\ at'[u] = at[u] /\ buf'[u] = buf[u]
             /\ held'[u] = held[u]
  <2>1. held'[u] = held[u]
    BY <1>8, RunNext DEF NextChunk
  <2>2. CASE held'[t] = Idle
    BY <1>1, <1>8, <2>1, <2>2 DEF NextChunk
  <2>3. CASE held'[t] # Idle
    BY <1>1, <1>8, <2>1, <2>3 DEF NextChunk
  <2> QED BY <2>2, <2>3
<1>9. CASE MarkChunk(t) \/ EndChunk(t)
  BY <1>8, <1>9 DEF MarkChunk, EndChunk
<1> QED BY <1>2, <1>3, <1>4, <1>5, <1>6, <1>7, <1>9 DEF ThreadStep

(* Every step keeps each thread at a row of the chunk it holds. *)
LEMMA PlacesStep ==
  ASSUME Sound, PlanInv, CallInv, WorkerTypes, Places, [Next]_vars
  PROVE  Places'
<1>1. UNCHANGED <<rows, scarce>>
  BY RowsKept DEF job_vars
<1>t. /\ doing \in [Threads -> Doings] /\ at \in [Threads -> Nat] /\ buf \in [Threads -> Text]
      /\ held = [v \in Threads |-> held[v]] /\ Main \in Threads
  BY DispatchAssumption DEF WorkerTypes, Sound, DispatchTypeOK
<1>2. ASSUME stage = "idle"
      PROVE  \A t \in Threads : doing[t] = "nothing" /\ held[t] = Idle
  BY <1>2 DEF Sound, Shape, Places, PlaceOf
<1>3. CASE PlanRow \/ FinishPlan
  <2>1. stage = "idle" /\ UNCHANGED <<held, doing>>
    BY <1>3 DEF PlanRow, FinishPlan, CallInv, dispatch_vars, worker_vars
  <2> QED BY <1>1, <1>2, <2>1, PlaceKept DEF Places
<1>4. CASE Dispatch
  <2>1. stage = "idle" /\ Enter(Len(chunks), Work < Threshold, DispatchThreads, PlanGrain)
    BY <1>4 DEF Dispatch, Enter
  <2>2. PICK m \in Nat : m = Len(chunks)
    BY DEF PlanInv, Plans
  <2>3. CASE stage' = "serial"
    <3>1. m > 0 /\ held' = [held EXCEPT ![Main] = <<0, m>>]
      BY <2>1, <2>2, <2>3 DEF Enter
    <3>2. doing' = [doing EXCEPT ![Main] = "allocate"]
      BY <1>4, <2>3 DEF Dispatch
    <3>3. <<0, m>> # Idle
      BY <3>1 DEF Idle
    <3>4. PlaceOf(Main)'
      BY <1>t, <3>1, <3>2, <3>3 DEF PlaceOf, AtWork
    <3>5. ASSUME NEW t \in Threads, t # Main
          PROVE  PlaceOf(t)'
      <4>1. doing[t] = "nothing" /\ doing'[t] = doing[t] /\ held'[t] = held[t]
        BY <1>t, <1>2, <2>1, <3>1, <3>2, <3>5
      <4> QED BY <1>1, <4>1, PlaceKept DEF Places
    <3> QED BY <3>4, <3>5 DEF Places
  <2>4. CASE stage' # "serial"
    <3>1. held' = held
      BY <2>1, <2>4 DEF Enter
    <3>2. doing' = doing
      BY <1>4, <2>4 DEF Dispatch
    <3> QED BY <1>1, <1>2, <2>1, <3>1, <3>2, PlaceKept DEF Places
  <2> QED BY <2>3, <2>4
<1>5. CASE Halve \/ Joined \/ Report \/ Finalize \/ UNCHANGED vars
  <2>1. UNCHANGED <<held, doing, at, buf, chunks>>
    BY <1>5 DEF Halve, Joined, Report, Finalize, vars, Split, Join, dispatch_vars, plan_vars, worker_vars
  <2> QED BY <1>1, <2>1, PlaceKept DEF Places
<1>6. ASSUME NEW t \in Threads, ThreadStep(t)
      PROVE  Places'
  <2>1. chunks' = chunks /\ \A c : Chunk(c)' = Chunk(c)
    BY <1>6, ThreadFrame DEF plan_vars, Chunk
  <2>2. ASSUME NEW u \in Threads, u # t
        PROVE  PlaceOf(u)'
    BY <1>1, <1>6, <2>1, <2>2, OthersKept, PlaceKept DEF Places
  <2>3. PlaceOf(t)'
    <3>0. PlaceOf(t)
      BY DEF Places
    <3>1. CASE TakeRange(t)
      <4>1. PICK r \in ranges : Claim(t, r)
        BY <3>1 DEF TakeRange
      <4>2. held'[t] = r /\ doing'[t] = "allocate"
        BY <1>t, <3>1, <4>1 DEF TakeRange, Claim
      <4>3. r # Idle
        BY IdlePiece DEF Sound, Shape
      <4> QED BY <4>2, <4>3 DEF PlaceOf, AtWork
    <3>2. CASE Allocate(t)
      <4>1. /\ doing[t] = "allocate" /\ doing'[t] = "rows" /\ held' = held
            /\ at'[t] = Chunk(held[t][1]).begin
        BY <1>t, <3>2 DEF Allocate, dispatch_vars
      <4>2. held[t] # Idle
        BY <3>0, <4>1 DEF PlaceOf
      <4>3. Chunk(held[t][1]).begin <= at'[t] /\ at'[t] <= Chunk(held[t][1]).end
        BY <4>1, <4>2, HeldChunk, ChunkShape
      <4>4. Chunk(held[t][1])' = Chunk(held[t][1])
        BY <2>1, <4>1 DEF Chunk
      <4> QED BY <4>1, <4>2, <4>3, <4>4 DEF PlaceOf, AtWork
    <3>3. CASE NoMemory(t)
      <4>1. doing[t] = "allocate" /\ doing'[t] = "no memory" /\ held' = held /\ scarce'
        BY <1>1, <1>t, <3>3 DEF NoMemory, dispatch_vars
      <4> QED BY <3>0, <4>1 DEF PlaceOf, AtWork
    <3>4. CASE PassRow(t) \/ Store(t)
      <4>1. /\ AtWork(t) /\ doing'[t] = "rows" /\ held' = held /\ at'[t] = at[t] + 1
            /\ at[t] < Chunk(held[t][1]).end
        BY <1>t, <3>0, <3>4 DEF PassRow, Store, AtRow, AtWork, PlaceOf, dispatch_vars
      <4>2. held[t] # Idle
        BY <3>0, <4>1 DEF PlaceOf, AtWork
      <4>3. Chunk(held[t][1]).end \in Nat /\ Chunk(held[t][1]).begin \in Nat /\ at[t] \in Nat
        BY <1>t, <4>2, HeldChunk, ChunkShape
      <4>4. Chunk(held[t][1])' = Chunk(held[t][1])
        BY <2>1, <4>1 DEF Chunk
      <4>5. Chunk(held[t][1]).begin <= at[t]
        BY <3>0, <4>1 DEF PlaceOf
      <4>6. Chunk(held[t][1]).begin <= at[t] + 1 /\ at[t] + 1 <= Chunk(held[t][1]).end
        BY <4>1, <4>3, <4>5
      <4> QED BY <4>1, <4>2, <4>4, <4>6 DEF PlaceOf, AtWork
    <3>5. CASE Rewrite(t)
      <4>1. /\ AtWork(t) /\ doing'[t] = "store" /\ held' = held /\ at' = at
            /\ at[t] < Chunk(held[t][1]).end
            /\ rows[at[t]].outcome = "matched"
            /\ buf'[t] = Tagged(at[t], rows[at[t]].new)
        BY <1>t, <3>5 DEF Rewrite, AtRow, AtWork, dispatch_vars
      <4>2. held[t] # Idle
        BY <3>0, <4>1 DEF PlaceOf, AtWork
      <4>3. Chunk(held[t][1])' = Chunk(held[t][1])
        BY <2>1, <4>1 DEF Chunk
      <4>4. Tagged(at[t], rows[at[t]].new)' = Tagged(at[t], rows[at[t]].new)
        BY <1>1, <4>1 DEF Tagged
      <4> QED BY <1>1, <3>0, <4>1, <4>2, <4>3, <4>4 DEF PlaceOf, AtWork
    <3>6. CASE NextChunk(t) /\ doing[t] \in {"rows", "no memory"}
      <4>1. CASE held'[t] = Idle
        <5>1. doing'[t] = "nothing"
          BY <1>t, <3>6, <4>1 DEF NextChunk
        <5> QED BY <4>1, <5>1 DEF PlaceOf, AtWork
      <4>2. CASE held'[t] # Idle
        <5>1. doing' = doing /\ at'[t] = Chunk(held'[t][1]).begin
          BY <1>t, <3>6, <4>2 DEF NextChunk
        <5>2. held'[t][1] \in Chunks /\ step # "plan"
          BY <3>6, <4>2, RunNext, HeldChunk DEF NextChunk
        <5>3. Chunk(held'[t][1]).begin <= at'[t] /\ at'[t] <= Chunk(held'[t][1]).end
          BY <5>1, <5>2, ChunkShape
        <5>4. Chunk(held[t][1])' = Chunk(held'[t][1])
          BY <2>1 DEF Chunk
        <5>5. doing[t] = "no memory" => scarce
          BY <3>0 DEF PlaceOf
        <5> QED BY <1>1, <3>6, <4>2, <5>1, <5>3, <5>4, <5>5 DEF PlaceOf, AtWork
      <4> QED BY <4>1, <4>2
    <3>7. CASE MarkChunk(t) \/ EndChunk(t)
      BY <3>6, <3>7 DEF MarkChunk, EndChunk
    <3> QED BY <1>6, <3>1, <3>2, <3>3, <3>4, <3>5, <3>7 DEF ThreadStep
  <2> QED BY <2>2, <2>3 DEF Places
<1> QED BY <1>3, <1>4, <1>5, <1>6 DEF Next, Caller
-----------------------------------------------------------------------------
(* Nothing in an arena is written over.                                    *)
Grown ==
  \A c \in Chunks :
    /\ Len(arenas[c]) \in Nat /\ Len(arenas'[c]) \in Nat /\ Len(arenas[c]) <= Len(arenas'[c])
    /\ \A k \in 1 .. Len(arenas[c]) : arenas'[c][k] = arenas[c][k]

(* A stored row stays stored while the arenas grow at their ends. *)
LEMMA StoredKept ==
  ASSUME PlanInv, NEW i \in Rows, Stored(i), UNCHANGED <<rows, chunks>>, results'[i] = results[i], Grown
  PROVE  Stored(i)'
<1>1. /\ rows'[i] = rows[i] /\ Chunks' = Chunks
      /\ SourceText(i)' = SourceText(i)
      /\ Contiguous(rows[i].new)' = Contiguous(rows[i].new)
      /\ SliceOffset(rows[i].new)' = SliceOffset(rows[i].new)
  BY DEF Chunks, SourceText, Contiguous, SliceOffset
<1>2. rows[i].new \in Seq(Int)
  BY RowsRange DEF PlanInv, IsRow
<1>3. Len(rows[i].new) \in Nat
  BY <1>2
<1>4. CASE /\ results[i] = [kind |-> "original"]
           /\ rows[i].new = SourceText(i)
  BY <1>1, <1>4 DEF Stored
<1>5. CASE /\ rows[i].new # SourceText(i)
           /\ Contiguous(rows[i].new)
           /\ results[i] = [kind |-> "slice", offset |-> SliceOffset(rows[i].new),
                            length |-> Len(rows[i].new)]
  BY <1>1, <1>5 DEF Stored
<1>6. CASE /\ rows[i].new # SourceText(i)
           /\ results[i].kind = "changed"
           /\ results[i].chunk \in Chunks
           /\ results[i].offset \in Nat
           /\ results[i].length = Len(rows[i].new)
           /\ results[i].offset + results[i].length <= Len(arenas[results[i].chunk])
           /\ \A j \in 1 .. results[i].length :
                arenas[results[i].chunk][results[i].offset + j] = <<i, rows[i].new[j]>>
  <2>1. PICK c \in Chunks, off \in Nat, len \in Nat :
          c = results[i].chunk /\ off = results[i].offset /\ len = results[i].length
    BY <1>3, <1>6
  <2>2. /\ Len(arenas[c]) \in Nat /\ Len(arenas'[c]) \in Nat /\ Len(arenas[c]) <= Len(arenas'[c])
        /\ \A k \in 1 .. Len(arenas[c]) : arenas'[c][k] = arenas[c][k]
    BY <2>1 DEF Grown
  <2>3. off + len <= Len(arenas[c]) /\ \A j \in 1 .. len : arenas[c][off + j] = <<i, rows[i].new[j]>>
    BY <1>6, <2>1
  <2>4. off + len <= Len(arenas'[c])
    BY <2>2, <2>3
  <2>5. ASSUME NEW j \in 1 .. len
        PROVE  arenas'[c][off + j] = <<i, rows[i].new[j]>>
    <3>1. off + j \in 1 .. Len(arenas[c])
      BY <2>2, <2>3
    <3> QED BY <2>2, <2>3, <3>1
  <2> QED BY <1>1, <1>6, <2>1, <2>4, <2>5 DEF Stored
<1> QED BY <1>4, <1>5, <1>6 DEF Stored

(* A settled row stays settled while its error gets no weaker and the arenas grow. *)
LEMMA SettledKept ==
  ASSUME PlanInv, NEW i \in Rows, Settled(i), UNCHANGED <<rows, chunks>>, results'[i] = results[i],
         \/ errors'[i] = errors[i]
         \/ errors'[i] = "hard"
         \/ errors'[i] = "soft" /\ rows[i].outcome = "soft",
         Grown
  PROVE  Settled(i)'
<1>1. Stored(i) => Stored(i)'
  BY StoredKept
<1>2. rows'[i] = rows[i]
  OBVIOUS
<1> QED BY <1>1, <1>2 DEF Settled

(* What is known of a row stands when its result is kept and its error has a cause. *)
LEMMA RowKept ==
  ASSUME NEW i \in Rows, RowInv(i), UNCHANGED <<rows, scarce>>, results'[i] = results[i],
         \/ errors'[i] = errors[i]
         \/ errors'[i] = "hard" /\ (scarce \/ rows[i].outcome = "hard")
         \/ errors'[i] = "soft" /\ rows[i].outcome = "soft"
  PROVE  RowInv(i)'
BY DEF RowInv

(* What store_provenanced_text() does to the row it stores. *)
LEMMA StoreStores ==
  ASSUME Sound, PlanInv, CallInv, WorkerTypes, Places, NEW t \in Threads, Store(t)
  PROVE  /\ Grown
         /\ at[t] \in Rows
         /\ \A i \in Rows : i = at[t] => Stored(i)' /\ rows[i].outcome = "matched"
         /\ \A i \in Rows : i # at[t] => results'[i] = results[i]
         /\ UNCHANGED <<rows, scarce, chunks, errors>>
<1>1. PICK i \in Rows, c \in Chunks : i = at[t] /\ c = held[t][1]
  BY AtWorkRow DEF Store, AtWork, Places, PlaceOf
<1>2. step # "plan" /\ UNCHANGED <<rows, scarce, chunks, errors>>
  BY AtWorkRow, ThreadFrame DEF Store, AtWork, Places, PlaceOf, job_vars, plan_vars, ThreadStep
<1>3. arenas \in [Chunks -> Text] /\ results \in [Rows -> Results]
  BY <1>2 DEF WorkerTypes
<1>4. rows[i].outcome = "matched" /\ buf[t] = Tagged(i, rows[i].new)
  BY <1>1 DEF Store, Places, PlaceOf
<1>5. PICK new \in Seq(Int) : new = rows[i].new
  BY RowsRange DEF PlanInv, IsRow
<1>6. PICK text \in Text : /\ text = buf[t]
                           /\ Len(text) = Len(new)
                           /\ \A j \in 1 .. Len(new) : text[j] = <<i, new[j]>>
  BY <1>4, <1>5, TaggedText
<1>7. \A d \in Chunks : arenas[d] \in Text /\ Len(arenas[d]) \in Nat
  BY <1>3 DEF Text
<1>8. (buf[t] = Tagged(i, SourceText(i))) <=> new = SourceText(i)
  <2>1. ASSUME Tagged(i, new) = Tagged(i, SourceText(i))
        PROVE  new = SourceText(i)
    <3>1. DOMAIN new = DOMAIN Tagged(i, new) /\ DOMAIN SourceText(i) = DOMAIN Tagged(i, SourceText(i))
      BY DEF Tagged
    <3>2. DOMAIN new = DOMAIN SourceText(i)
      BY <2>1, <3>1
    <3>3. ASSUME NEW j \in DOMAIN new
          PROVE  new[j] = SourceText(i)[j]
      <4>1. Tagged(i, new)[j] = <<i, new[j]>> /\ Tagged(i, SourceText(i))[j] = <<i, SourceText(i)[j]>>
        BY <3>2 DEF Tagged
      <4> QED BY <2>1, <4>1
    <3>4. new = [j \in DOMAIN new |-> new[j]] /\ SourceText(i) = [j \in DOMAIN SourceText(i) |-> SourceText(i)[j]]
      BY DEF SourceText
    <3> QED BY <3>2, <3>3, <3>4
  <2> QED BY <1>4, <1>5, <2>1
<1>9. /\ rows'[i] = rows[i] /\ Chunks' = Chunks
      /\ SourceText(i)' = SourceText(i)
  BY <1>2 DEF Chunks, SourceText
<1>10. CASE /\ new = SourceText(i)
            /\ results' = [results EXCEPT ![i] = [kind |-> "original"]]
            /\ UNCHANGED arenas
  <2>1. results'[i] = [kind |-> "original"] /\ \A k \in Rows : k # i => results'[k] = results[k]
    BY <1>3, <1>10
  <2>2. Grown
    BY <1>7, <1>10 DEF Grown
  <2>3. Stored(i)'
    BY <1>5, <1>9, <1>10, <2>1 DEF Stored
  <2> QED BY <1>1, <1>2, <1>4, <2>1, <2>2, <2>3
<1>11. CASE /\ new # SourceText(i)
            /\ Contiguous(new)
            /\ results' = [results EXCEPT ![i] = [kind |-> "slice", offset |-> SliceOffset(new),
                                                  length |-> Len(new)]]
            /\ UNCHANGED arenas
  <2>1. /\ results'[i] = [kind |-> "slice", offset |-> SliceOffset(new), length |-> Len(new)]
        /\ \A k \in Rows : k # i => results'[k] = results[k]
    BY <1>3, <1>11
  <2>2. Grown
    BY <1>7, <1>11 DEF Grown
  <2>3. Stored(i)'
    BY <1>5, <1>9, <1>11, <2>1 DEF Stored
  <2> QED BY <1>1, <1>2, <1>4, <2>1, <2>2, <2>3
<1>12. CASE /\ new # SourceText(i)
            /\ results' = [results EXCEPT ![i] = [kind |-> "changed", chunk |-> c,
                                                  offset |-> Len(arenas[c]),
                                                  length |-> Len(text)]]
            /\ arenas' = [arenas EXCEPT ![c] = @ \o text]
  <2>1. PICK old \in Text : old = arenas[c]
    BY <1>7
  <2>2. /\ results'[i] = [kind |-> "changed", chunk |-> c, offset |-> Len(old), length |-> Len(text)]
        /\ \A k \in Rows : k # i => results'[k] = results[k]
    BY <1>3, <1>12, <2>1
  <2>3. arenas'[c] = old \o text /\ \A d \in Chunks : d # c => arenas'[d] = arenas[d]
    BY <1>3, <1>12, <2>1
  <2>4. /\ Len(old) \in Nat /\ Len(text) \in Nat /\ Len(old \o text) = Len(old) + Len(text)
        /\ \A k \in 1 .. Len(old) : (old \o text)[k] = old[k]
        /\ \A k \in 1 .. Len(text) : (old \o text)[Len(old) + k] = text[k]
    BY DEF Text
  <2>5. Grown
    <3> SUFFICES ASSUME NEW d \in Chunks
                 PROVE  /\ Len(arenas[d]) \in Nat /\ Len(arenas'[d]) \in Nat
                        /\ Len(arenas[d]) <= Len(arenas'[d])
                        /\ \A k \in 1 .. Len(arenas[d]) : arenas'[d][k] = arenas[d][k]
      BY DEF Grown
    <3>1. CASE d = c
      BY <2>1, <2>3, <2>4, <3>1
    <3>2. CASE d # c
      BY <1>7, <2>3, <3>2
    <3> QED BY <3>1, <3>2
  <2>6. Stored(i)'
    <3>1. /\ results'[i].kind = "changed" /\ results'[i].chunk = c
          /\ results'[i].offset = Len(old) /\ results'[i].length = Len(new)
      BY <1>6, <2>2
    <3>2. \A j \in 1 .. Len(new) : arenas'[c][Len(old) + j] = <<i, new[j]>>
      BY <1>6, <2>3, <2>4
    <3>3. Len(old) + Len(new) <= Len(arenas'[c])
      BY <1>6, <2>3, <2>4
    <3>4. \A j \in 1 .. results'[i].length :
            arenas'[results'[i].chunk][results'[i].offset + j] = <<i, rows'[i].new[j]>>
      BY <1>5, <1>9, <3>1, <3>2
    <3>5. results'[i].chunk \in Chunks' /\ results'[i].offset \in Nat /\ results'[i].length = Len(rows'[i].new)
      BY <1>5, <1>9, <2>4, <3>1
    <3>6. results'[i].offset + results'[i].length <= Len(arenas'[results'[i].chunk])
      BY <3>1, <3>3
    <3>7. rows'[i].new # SourceText(i)' /\ results'[i].kind = "changed"
      BY <1>5, <1>9, <1>12, <3>1
    <3> QED BY <3>4, <3>5, <3>6, <3>7 DEF Stored
  <2> QED BY <1>1, <1>2, <1>4, <2>2, <2>5, <2>6
<1>13. \/ /\ buf[t] = Tagged(i, SourceText(i))
          /\ results' = [results EXCEPT ![i] = [kind |-> "original"]]
          /\ UNCHANGED arenas
       \/ /\ buf[t] # Tagged(i, SourceText(i))
          /\ Contiguous(new)
          /\ results' = [results EXCEPT ![i] = [kind |-> "slice", offset |-> SliceOffset(new),
                                                length |-> Len(new)]]
          /\ UNCHANGED arenas
       \/ /\ ~ Contiguous(new)
          /\ results' = [results EXCEPT ![i] = [kind |-> "changed", chunk |-> c,
                                                offset |-> Len(arenas[c]),
                                                length |-> Len(text)]]
          /\ arenas' = [arenas EXCEPT ![c] = @ \o text]
  BY <1>1, <1>5, <1>6 DEF Store
<1>14. new = SourceText(i) => Contiguous(new)
  <2> SUFFICES ASSUME new = SourceText(i) PROVE Contiguous(new)
    OBVIOUS
  <2>1. rows[i].size \in Nat
    BY RowsRange DEF PlanInv, IsRow
  <2>2. new = [j \in 1 .. rows[i].size |-> j]
    BY DEF SourceText
  <2>3. DOMAIN new = 1 .. rows[i].size /\ Len(new) = rows[i].size
    BY <2>1, <2>2
  <2> QED BY <2>1, <2>2, <2>3 DEF Contiguous
<1> QED BY <1>8, <1>10, <1>11, <1>12, <1>13, <1>14

(* A thread's step settles no row's fate twice: what was settled stays so. *)
LEMMA ThreadRows ==
  ASSUME Sound, PlanInv, CallInv, WorkerTypes, Places, RowsInv,
         NEW t \in Threads, ThreadStep(t), NEW i \in Rows
  PROVE  (Settled(i) => Settled(i)') /\ RowInv(i)'
<1>1. UNCHANGED <<rows, scarce, chunks>> /\ RowInv(i)
  BY RowsKept, ThreadFrame DEF Next, job_vars, plan_vars, RowsInv
<1>2. held[t] # Idle => arenas \in [Chunks -> Text]
  BY HeldChunk DEF WorkerTypes
<1>3. UNCHANGED arenas /\ held[t] # Idle => Grown
  BY <1>2 DEF Grown, Text
<1>e. errors = [k \in Rows |-> errors[k]]
  BY DEF WorkerTypes
<1>p. PlaceOf(t)
  BY DEF Places
<1>4. CASE Store(t)
  <2>1. Grown /\ errors' = errors
    BY <1>4, StoreStores
  <2>2. CASE i = at[t]
    <3>1. Stored(i)' /\ rows[i].outcome = "matched"
      BY <1>4, <2>2, StoreStores
    <3> QED BY <1>1, <2>1, <3>1 DEF Settled, RowInv
  <2>3. CASE i # at[t]
    <3>1. results'[i] = results[i]
      BY <1>4, <2>3, StoreStores
    <3> QED BY <1>1, <2>1, <3>1, SettledKept, RowKept
  <2> QED BY <2>2, <2>3
<1>5. CASE MarkChunk(t)
  <2>1. UNCHANGED <<results, arenas>> /\ (errors'[i] = errors[i] \/ errors'[i] = "hard") /\ scarce
    BY <1>5, <1>p DEF MarkChunk, PlaceOf
  <2>2. held[t] # Idle
    BY <1>5, RunNext DEF MarkChunk, NextChunk
  <2> QED BY <1>1, <1>3, <2>1, <2>2, SettledKept, RowKept
<1>6. CASE PassRow(t)
  <2>1. UNCHANGED <<results, arenas>>
    BY <1>6 DEF PassRow
  <2>2. \/ errors'[i] = errors[i]
        \/ errors'[i] = "hard" /\ rows[i].outcome = "hard"
        \/ errors'[i] = "soft" /\ rows[i].outcome = "soft"
    BY <1>6, <1>e DEF PassRow
  <2>3. held[t] # Idle
    BY <1>6, <1>p DEF PassRow, AtRow, PlaceOf
  <2> QED BY <1>1, <1>3, <2>1, <2>2, <2>3, SettledKept, RowKept
<1>7. CASE TakeRange(t)
  <2>1. UNCHANGED <<results, arenas, errors>>
    BY <1>7 DEF TakeRange
  <2>2. Grown
    <3>1. step = "join"
      <4>1. stage = "parallel"
        BY <1>7 DEF TakeRange, Claim
      <4> QED BY <4>1 DEF CallInv
    <3> QED BY <2>1, <3>1 DEF WorkerTypes, Grown, Text
  <2> QED BY <1>1, <2>1, <2>2, SettledKept, RowKept
<1>8. CASE Allocate(t) \/ NoMemory(t) \/ Rewrite(t) \/ EndChunk(t)
  <2>1. UNCHANGED <<results, arenas, errors>> /\ doing[t] # "nothing"
    BY <1>8 DEF Allocate, NoMemory, Rewrite, EndChunk, AtRow
  <2>2. held[t] # Idle
    BY <1>p, <2>1 DEF PlaceOf
  <2> QED BY <1>1, <1>3, <2>1, <2>2, SettledKept, RowKept
<1> QED BY <1>4, <1>5, <1>6, <1>7, <1>8 DEF ThreadStep

(* Every step keeps what is known of every row. *)
LEMMA RowsStep ==
  ASSUME Sound, PlanInv, CallInv, WorkerTypes, Places, RowsInv, [Next]_vars
  PROVE  RowsInv'
<1>1. UNCHANGED <<rows, scarce>> /\ Rows' = Rows
  BY RowsKept DEF job_vars
<1>t. /\ doing \in [Threads -> Doings] /\ at \in [Threads -> Nat]
      /\ errors = [k \in Rows |-> errors[k]]
  BY DEF WorkerTypes
<1>2. ASSUME UNCHANGED <<errors, results>>
      PROVE  \A i \in Rows : RowInv(i)'
  BY <1>1, <1>2, RowKept DEF RowsInv
<1>3. ASSUME stage = "idle", UNCHANGED <<errors, results, ran>>, \A t \in Threads : ~ AtWork(t)'
      PROVE  RowsInv'
  <2>1. ran = {}
    BY <1>3 DEF Sound, Shape
  <2> QED BY <1>1, <1>2, <1>3, <2>1 DEF RowsInv
<1>4. ASSUME stage = "idle"
      PROVE  \A t \in Threads : doing[t] = "nothing"
  BY <1>4 DEF Sound, Shape, Places, PlaceOf
<1>5. CASE PlanRow \/ FinishPlan
  <2>1. stage = "idle" /\ UNCHANGED <<errors, results, ran, doing>>
    BY <1>5 DEF PlanRow, FinishPlan, CallInv, dispatch_vars, worker_vars
  <2> QED BY <1>3, <1>4, <2>1 DEF AtWork
<1>6. CASE Dispatch
  <2>1. stage = "idle" /\ UNCHANGED <<errors, results, ran>>
    BY <1>6 DEF Dispatch, Enter
  <2>2. \A t \in Threads : doing'[t] \in {"nothing", "allocate"}
    BY <1>6, <1>4, <1>t, <2>1 DEF Dispatch
  <2> QED BY <1>3, <2>1, <2>2 DEF AtWork
<1>7. CASE Halve \/ Joined \/ Report \/ Finalize \/ UNCHANGED vars
  <2>1. UNCHANGED <<held, ran, results, arenas, errors, doing, at, chunks>>
    BY <1>7 DEF Halve, Joined, Report, Finalize, vars, Split, Join, dispatch_vars, plan_vars, worker_vars
  <2>2. \A i \in Rows : Settled(i)' = Settled(i)
    BY <1>1, <2>1 DEF Settled, Stored, Contiguous, SliceOffset, SourceText, Chunks
  <2>3. \A c : Chunk(c)' = Chunk(c)
    BY <2>1 DEF Chunk
  <2>4. \A t \in Threads : AtWork(t)' = AtWork(t) /\ Chunk(held[t][1])' = Chunk(held[t][1])
    BY <2>1 DEF AtWork, Chunk
  <2> QED BY <1>1, <1>2, <2>1, <2>2, <2>3, <2>4 DEF RowsInv, InPiece
<1>8. ASSUME NEW t \in Threads, ThreadStep(t)
      PROVE  RowsInv'
  <2>1. \A i \in Rows : (Settled(i) => Settled(i)') /\ RowInv(i)'
    BY <1>8, ThreadRows
  <2>2. chunks' = chunks /\ \A c : Chunk(c)' = Chunk(c)
    BY <1>8, ThreadFrame DEF plan_vars, Chunk
  <2>3. ASSUME NEW u \in Threads, u # t, AtWork(u)', NEW i \in Rows,
               Chunk(held'[u][1]).begin <= i, i < at'[u]
        PROVE  Settled(i)'
    <3>1. AtWork(u) /\ held'[u] = held[u] /\ at'[u] = at[u]
      BY <1>8, <2>3, OthersKept DEF AtWork
    <3> QED BY <2>1, <2>3, <3>1 DEF RowsInv
  <2>p. PlaceOf(t)
    BY DEF Places
  <2>4. CASE TakeRange(t) \/ NoMemory(t)
    <3>1. ran' = ran /\ ~ AtWork(t)'
      BY <1>t, <2>4 DEF TakeRange, Claim, NoMemory, dispatch_vars, AtWork
    <3> QED BY <1>1, <2>1, <2>2, <2>3, <3>1 DEF RowsInv, InPiece
  <2>5. CASE Allocate(t)
    <3>1. ran' = ran /\ held' = held /\ at'[t] = Chunk(held[t][1]).begin /\ held[t] # Idle
      BY <1>t, <2>5, <2>p DEF Allocate, dispatch_vars, PlaceOf
    <3>2. Chunk(held[t][1]).begin \in Nat
      BY <3>1, HeldChunk, ChunkShape
    <3>3. \A i \in Rows : ~ (Chunk(held'[t][1]).begin <= i /\ i < at'[t])
      BY <3>1, <3>2, RowsRange DEF PlanInv
    <3> QED BY <1>1, <2>1, <2>2, <2>3, <3>1, <3>3 DEF RowsInv, InPiece
  <2>6. CASE PassRow(t) \/ Store(t) \/ Rewrite(t)
    <3>1. ran' = ran /\ held' = held /\ AtWork(t)
      BY <2>6 DEF PassRow, Store, Rewrite, AtRow, AtWork, dispatch_vars
    <3>2. at'[t] = at[t] + 1 \/ (at'[t] = at[t] /\ Rewrite(t))
      BY <1>t, <2>6 DEF PassRow, Store, Rewrite
    <3>3. ASSUME PassRow(t), NEW i \in Rows, i = at[t]
          PROVE  Settled(i)'
      <4>1. rows[i].outcome \in Outcomes /\ rows'[i] = rows[i]
        BY <1>1, RowsRange DEF PlanInv, IsRow
      <4>2. rows[i].outcome # "matched"
        BY <3>3 DEF PassRow
      <4>3. rows[i].outcome \in {"soft", "hard"} => errors'[i] = rows[i].outcome
        BY <1>t, <3>3 DEF PassRow
      <4> QED BY <4>1, <4>2, <4>3 DEF Settled
    <3>4. ASSUME Store(t), NEW i \in Rows, i = at[t]
          PROVE  Settled(i)'
      <4>1. Stored(i)' /\ rows[i].outcome = "matched"
        BY <3>4, StoreStores
      <4> QED BY <1>1, <4>1 DEF Settled
    <3>5. ASSUME NEW i \in Rows, Chunk(held'[t][1]).begin <= i, i < at'[t]
          PROVE  Settled(i)'
      <4>1. CASE i = at[t]
        <5>1. ~ Rewrite(t)
          BY <1>t, <3>5, <4>1 DEF Rewrite
        <5> QED BY <2>6, <3>3, <3>4, <4>1, <5>1
      <4>2. CASE i # at[t]
        <5>1. i < at[t]
          BY <1>t, <3>2, <3>5, <4>2, RowsRange DEF PlanInv
        <5>2. Settled(i)
          BY <3>1, <3>5, <5>1 DEF RowsInv
        <5> QED BY <2>1, <5>2
      <4> QED BY <4>1, <4>2
    <3> QED BY <1>1, <2>1, <2>2, <2>3, <3>1, <3>5 DEF RowsInv, InPiece
  <2>7. ASSUME NextChunk(t), \A i \in Rows : InPiece(Chunk(held[t][1]), i) => Settled(i)',
               doing[t] \in {"rows", "no memory"}
        PROVE  RowsInv'
    <3>1. ran' = ran \cup {held[t][1]}
      BY <2>7, RunNext DEF NextChunk
    <3>2. ASSUME AtWork(t)', NEW i \in Rows
          PROVE  ~ (Chunk(held'[t][1]).begin <= i /\ i < at'[t])
      <4>1. held'[t] # Idle
        BY <1>t, <2>7, <3>2 DEF NextChunk, AtWork
      <4>2. at'[t] = Chunk(held'[t][1]).begin
        BY <1>t, <2>7, <4>1 DEF NextChunk
      <4>3. held'[t][1] \in Chunks /\ step # "plan"
        BY <2>7, <4>1, RunNext, HeldChunk DEF NextChunk
      <4>4. Chunk(held'[t][1]).begin \in Nat /\ i \in Int
        BY <4>3, ChunkShape, RowsRange DEF PlanInv
      <4> QED BY <4>2, <4>4
    <3>3. ASSUME NEW c \in ran', NEW i \in Rows, InPiece(Chunk(c), i)
          PROVE  Settled(i)'
      <4>1. CASE c \in ran
        BY <2>1, <3>3, <4>1 DEF RowsInv
      <4>2. CASE c = held[t][1]
        BY <2>7, <3>3, <4>2
      <4> QED BY <3>1, <4>1, <4>2
    <3> QED BY <1>1, <2>1, <2>2, <2>3, <3>2, <3>3 DEF RowsInv, InPiece
  <2>8. CASE MarkChunk(t)
    <3>1. ASSUME NEW i \in Rows, InPiece(Chunk(held[t][1]), i)
          PROVE  Settled(i)'
      <4>1. errors'[i] = "hard"
        BY <2>8, <3>1 DEF MarkChunk, InPiece
      <4> QED BY <4>1 DEF Settled
    <3> QED BY <2>7, <2>8, <3>1 DEF MarkChunk
  <2>9. CASE EndChunk(t)
    <3>1. ASSUME NEW i \in Rows, InPiece(Chunk(held[t][1]), i)
          PROVE  Settled(i)'
      <4>1. AtWork(t) /\ ~ (at[t] < Chunk(held[t][1]).end)
        BY <2>9 DEF EndChunk, AtRow, AtWork
      <4>2. held[t] # Idle
        BY <2>p, <4>1 DEF PlaceOf, AtWork
      <4>3. Chunk(held[t][1]).end \in Nat
        BY <4>2, HeldChunk, ChunkShape
      <4>4. i < at[t] /\ Chunk(held[t][1]).begin <= i
        BY <1>t, <3>1, <4>1, <4>3, RowsRange DEF InPiece, PlanInv
      <4>5. Settled(i)
        BY <4>1, <4>4 DEF RowsInv
      <4> QED BY <2>1, <4>5
    <3> QED BY <2>7, <2>9, <3>1 DEF EndChunk
  <2> QED BY <1>8, <2>4, <2>5, <2>6, <2>8, <2>9 DEF ThreadStep
<1> QED BY <1>5, <1>6, <1>7, <1>8 DEF Next, Caller
-----------------------------------------------------------------------------
(* When dispatch_for() has returned, every row of the vector is settled.   *)
LEMMA AllSettled ==
  ASSUME Sound, PlanInv, CallInv, RowsInv, stage = "returned"
  PROVE  \A i \in Rows : Settled(i)
<1>1. ran = 0 .. size - 1
  BY PiecesAsSets DEF ReturnsComplete
<1>2. size = Len(chunks) /\ step # "plan"
  BY DEF CallInv
<1>3. Tiles(chunks, n) /\ Len(chunks) \in Nat
  BY <1>2 DEF PlanInv, Reached, Plans
<1>4. ASSUME NEW i \in Rows
      PROVE  Settled(i)
  <2>1. i \in 0 .. n - 1
    BY RowsRange DEF PlanInv
  <2>2. PICK c \in 1 .. Len(chunks) : InPiece(chunks[c], i)
    BY <1>3, <2>1 DEF Tiles
  <2>3. c - 1 \in ran /\ (c - 1) + 1 = c
    BY <1>1, <1>2, <1>3
  <2>4. Chunk(c - 1) = chunks[c]
    BY <2>3 DEF Chunk
  <2> QED BY <2>2, <2>3, <2>4 DEF RowsInv
<1> QED BY <1>4

(* The first of some rows is one of them, and no other comes before it.    *)
LEMMA FirstRow ==
  ASSUME PlanInv, NEW S \in SUBSET Rows, S # {}
  PROVE  FirstOf(S) \in S /\ \A j \in S : FirstOf(S) <= j
<1>1. S \in SUBSET Nat
  BY RowsRange DEF PlanInv
<1>2. \E x \in S : \A y \in S : x <= y
  BY <1>1, LeastNatural
<1> QED BY <1>2 DEF FirstOf

(* Every step keeps the rows that a thread has passed settled. *)
LEMMA PassedStep ==
  ASSUME Sound, PlanInv, CallInv, Places, RowsInv, Passed, [Next]_vars
  PROVE  Passed'
<1>1. UNCHANGED <<rows, scarce>> /\ Rows' = Rows
  BY RowsKept DEF job_vars
<1>2. M!Soft' = M!Soft /\ M!Soft = {i \in Rows : rows[i].outcome = "soft"}
  BY <1>1 DEF M!Soft, Rows
<1>3. ASSUME step' = "finish", UNCHANGED <<step, errors, warned>>
      PROVE  Passed'
  BY <1>1, <1>2, <1>3 DEF Passed
<1>4. CASE Report
  <2> DEFINE hard == {i \in Rows : errors[i] = "hard"}
             soft == {i \in Rows : errors[i] = "soft"}
  <2>1. stage = "returned" /\ UNCHANGED errors
    BY <1>4 DEF Report, worker_vars
  <2> SUFFICES ASSUME step' = "finish" PROVE Passed'
    BY DEF Passed
  <2>2. hard = {} /\ warned' = IF soft = {} THEN <<-1, 0>> ELSE <<FirstOf(soft), Cardinality(soft)>>
    BY <1>4 DEF Report
  <2>3. soft = M!Soft
    <3>1. ASSUME NEW i \in Rows
          PROVE  errors[i] = "soft" <=> rows[i].outcome = "soft"
      <4>1. Settled(i) /\ RowInv(i)
        BY <2>1, AllSettled DEF RowsInv
      <4>2. errors[i] # "hard"
        BY <2>2
      <4> QED BY <4>1, <4>2 DEF Settled, RowInv
    <3> QED BY <1>2, <3>1
  <2>4. warned' = <<M!First(M!Soft), Cardinality(M!Soft)>>
    <3>1. Cardinality({}) = 0
      BY FS_EmptySet
    <3>2. M!First(M!Soft) = IF M!Soft = {} THEN -1 ELSE FirstOf(M!Soft)
      BY DEF M!First, FirstOf
    <3> HIDE DEF soft, hard
    <3> QED BY <2>2, <2>3, <3>1, <3>2
  <2>5. \A i \in Rows : errors[i] # "hard"
    BY <2>2
  <2> QED BY <1>1, <1>2, <2>1, <2>4, <2>5 DEF Passed
<1>5. CASE PlanRow \/ FinishPlan \/ Dispatch \/ Finalize
  BY <1>5 DEF PlanRow, FinishPlan, Dispatch, Finalize, Passed
<1>6. CASE Halve \/ Joined \/ UNCHANGED vars
  <2>1. UNCHANGED <<step, errors, warned>>
    BY <1>6 DEF Halve, Joined, vars, worker_vars
  <2> QED BY <1>3, <2>1 DEF Passed
<1>7. ASSUME NEW t \in Threads, ThreadStep(t)
      PROVE  Passed'
  <2>1. step' = step /\ stage # "returned"
    <3>1. stage = "returned" => held[t] = Idle /\ ranges = {}
      BY DEF Sound, Shape
    <3>2. ASSUME stage = "returned"
          PROVE  FALSE
      <4>1. doing[t] = "nothing" /\ held[t] = Idle
        BY <3>1, <3>2 DEF Places, PlaceOf
      <4>2. ~ NextChunk(t)
        BY <4>1 DEF NextChunk, Run, Busy
      <4>3. ~ TakeRange(t)
        BY <3>1, <3>2 DEF TakeRange
      <4> QED BY <1>7, <4>1, <4>2, <4>3
           DEF ThreadStep, Allocate, NoMemory, MarkChunk, PassRow, Rewrite, Store, EndChunk, AtRow
    <3> QED BY <1>7, <3>2, ThreadFrame
  <2> QED BY <2>1 DEF Passed, CallInv
<1> QED BY <1>4, <1>5, <1>6, <1>7 DEF Next, Caller
-----------------------------------------------------------------------------
(* The invariant holds at the start of a call. *)
LEMMA InvInit ==
  ASSUME Init
  PROVE  IInv
<1>1. Sound /\ stage = "idle" /\ \A t \in Threads : held[t] = Idle
  BY SoundInit DEF Init, DispatchInit
<1>2. PlanInv
  <2>1. rows \in Inputs /\ nthreads \in ThreadCounts /\ planned = 0 /\ begin = 0 /\ chunks = <<>>
        /\ step = "plan" /\ MaxRows \in Nat \ {0}
    BY PipelineAssumption DEF Init
  <2>2. n \in Nat
    BY <2>1, RowsRange
  <2>3. Tiles(<<>>, 0)
    BY DEF Tiles
  <2>4. <<>> \in Plans
    BY DEF Plans
  <2> QED BY <2>1, <2>2, <2>3, <2>4 DEF PlanInv, Reached
<1>3. CallInv
  BY <1>1 DEF Init, CallInv
<1>4. \A t \in Threads : doing[t] = "nothing"
  BY DEF Init
<1>5. WorkerTypes
  <2>1. results \in [Rows -> Results]
    BY DEF Init, InitialResults, Results
  <2>2. errors \in [Rows -> {"none", "soft", "hard"}]
    BY DEF Init
  <2>3. "nothing" \in Doings /\ <<>> \in Text /\ step = "plan"
    BY DEF Doings, Text, Init
  <2>4. doing \in [Threads -> Doings] /\ at \in [Threads -> Nat] /\ buf \in [Threads -> Text]
    BY <2>3 DEF Init
  <2> QED BY <2>1, <2>2, <2>3, <2>4 DEF WorkerTypes
<1>6. Places
  BY <1>1, <1>4 DEF Places, PlaceOf, AtWork
<1>7. RowsInv
  <2>1. ran = {}
    BY <1>1 DEF Sound, Shape
  <2>2. \A i \in Rows : RowInv(i)
    BY DEF Init, InitialResults, RowInv
  <2> QED BY <1>4, <2>1, <2>2 DEF RowsInv, AtWork
<1>8. Passed
  BY DEF Init, Passed
<1> QED BY <1>1, <1>2, <1>3, <1>5, <1>6, <1>7, <1>8 DEF IInv

(* Every step keeps the invariant. *)
LEMMA InvStep ==
  ASSUME IInv, [Next]_vars
  PROVE  IInv'
<1>1. Sound /\ PlanInv /\ CallInv /\ WorkerTypes /\ Places /\ RowsInv /\ Passed
  BY DEF IInv
<1>2. Sound'
  BY <1>1, NextIsCallStep, SoundStep
<1>3. PlanInv' /\ CallInv' /\ WorkerTypes'
  BY <1>1, PlanStep, CallStepKept, TypesStep
<1>4. Places' /\ RowsInv' /\ Passed'
  BY <1>1, PlacesStep, RowsStep, PassedStep
<1> QED BY <1>2, <1>3, <1>4 DEF IInv

(* In every state the plan tiles the rows, each thread is at a row of its  *)
(* chunk, and every row that a thread has passed has its own text or its   *)
(* own error: what make_text_work_plan() and the workers of                *)
(* fast_regex_sub_impl() leave, under any schedule of dispatch_for().      *)
THEOREM Invariance == Spec => []IInv
<1>1. Init => IInv
  BY InvInit
<1>2. IInv /\ [Next]_vars => IInv'
  BY InvStep
<1> QED BY <1>1, <1>2, PTL DEF Spec

(* A plan that tiles the rows is what ChunksTile asks for. *)
LEMMA ChunksOfTiles ==
  ASSUME PlanInv
  PROVE  ChunksTile
<1>1. PICK len \in Nat : len = Len(chunks)
  BY DEF PlanInv, Plans
<1>2. Tiles(chunks, Reached) /\ n \in Nat
  BY RowsRange DEF PlanInv
<1>3. ASSUME NEW c \in Chunks
      PROVE  /\ Chunk(c).begin < Chunk(c).end
             /\ Chunk(c).end - Chunk(c).begin <= MaxRows
             /\ Chunk(c).begin = IF c = 0 THEN 0 ELSE Chunk(c - 1).end
  <2>1. c \in 0 .. len - 1 /\ c + 1 \in 1 .. len
    BY <1>1 DEF Chunks
  <2>2. /\ chunks[c + 1].begin < chunks[c + 1].end
        /\ chunks[c + 1].end - chunks[c + 1].begin <= MaxRows
        /\ chunks[c + 1].begin = IF c + 1 = 1 THEN 0 ELSE chunks[(c + 1) - 1].end
    BY <1>1, <1>2, <2>1 DEF Tiles
  <2>3. (c + 1 = 1 <=> c = 0) /\ (c + 1) - 1 = (c - 1) + 1
    BY <2>1
  <2> QED BY <2>2, <2>3 DEF Chunk
<1>4. ASSUME step # "plan"
      PROVE  IF n = 0 THEN chunks = <<>> ELSE Chunk(Len(chunks) - 1).end = n
  <2>1. Tiles(chunks, n)
    BY <1>2, <1>4 DEF Reached
  <2>2. n = IF len = 0 THEN 0 ELSE chunks[len].end
    BY <1>1, <2>1 DEF Tiles
  <2>3. CASE n = 0
    <3>1. len = 0
      <4> SUFFICES ASSUME len # 0 PROVE FALSE
        OBVIOUS
      <4>1. len - 1 \in Chunks /\ (len - 1) + 1 = len
        BY <1>1 DEF Chunks
      <4>2. Chunk(len - 1).begin \in Nat /\ Chunk(len - 1).begin < Chunk(len - 1).end
        BY <1>4, <4>1, ChunkShape
      <4>3. Chunk(len - 1) = chunks[len]
        BY <4>1 DEF Chunk
      <4> QED BY <2>2, <2>3, <4>2, <4>3
    <3>2. chunks = <<>>
      <4>1. chunks \in Seq(Piece) /\ Len(chunks) = 0
        BY <1>1, <3>1 DEF PlanInv, Plans
      <4> QED BY <4>1
    <3> QED BY <2>3, <3>2
  <2>4. CASE n # 0
    <3>1. len # 0 /\ (len - 1) + 1 = len
      BY <2>2, <2>4
    <3> QED BY <1>1, <2>2, <2>4, <3>1 DEF Chunk
  <2> QED BY <2>3, <2>4
<1> QED BY <1>3, <1>4 DEF ChunksTile

(* The chunks of make_text_work_plan() tile the rows, in every state.      *)
THEOREM RowsTiled == Spec => []ChunksTile
<1>1. IInv => ChunksTile
  BY ChunksOfTiles DEF IInv
<1> QED BY <1>1, Invariance, PTL
-----------------------------------------------------------------------------
(* A slice is the string's bytes one after the other.                      *)
LEMMA SliceBytes ==
  ASSUME NEW text \in Seq(Int), Contiguous(text)
  PROVE  \A j \in 1 .. Len(text) : text[j] = SliceOffset(text) + j
<1>1. Len(text) \in Nat /\ \A j \in 1 .. Len(text) : text[j] \in Int
  OBVIOUS
<1> DEFINE S == {k \in Nat : k + 1 \in 1 .. Len(text) => text[k + 1] = SliceOffset(text) + (k + 1)}
<1>2. 0 \in S
  <2> SUFFICES ASSUME 1 \in 1 .. Len(text) PROVE text[1] = SliceOffset(text) + 1
    OBVIOUS
  <2>1. text # <<>>
    OBVIOUS
  <2> QED BY <1>1, <2>1 DEF SliceOffset
<1>3. ASSUME NEW k \in Nat, k \in S
      PROVE  k + 1 \in S
  <2> SUFFICES ASSUME (k + 1) + 1 \in 1 .. Len(text)
               PROVE  text[(k + 1) + 1] = SliceOffset(text) + ((k + 1) + 1)
    OBVIOUS
  <2>1. k + 1 \in 1 .. Len(text) - 1 /\ k + 1 \in 1 .. Len(text)
    BY <1>1
  <2>2. text[(k + 1) + 1] = text[k + 1] + 1
    BY <2>1 DEF Contiguous
  <2>3. text[k + 1] = SliceOffset(text) + (k + 1)
    BY <1>3, <2>1
  <2>4. SliceOffset(text) \in Int
    <3>1. text[1] \in Int
      BY <1>1, <2>1
    <3> QED BY <3>1 DEF SliceOffset
  <2> QED BY <2>2, <2>3, <2>4
<1> HIDE DEF S
<1>4. \A k \in Nat : k \in S
  BY <1>2, <1>3, SetInduction
<1>5. ASSUME NEW j \in 1 .. Len(text)
      PROVE  text[j] = SliceOffset(text) + j
  <2>1. j - 1 \in S /\ (j - 1) + 1 = j
    BY <1>4
  <2> QED BY <2>1 DEF S
<1> QED BY <1>5

(* A part of a sequence that is, byte for byte, another one.               *)
LEMMA PartIs ==
  ASSUME NEW V, NEW s \in Seq(V), NEW off \in Nat, NEW u, NEW len \in Nat,
         u = [j \in 1 .. len |-> u[j]], off + len <= Len(s),
         \A j \in 1 .. len : s[off + j] = u[j]
  PROVE  SubSeq(s, off + 1, off + len) = u
<1>1. SubSeq(s, off + 1, off + len) = [j \in 1 .. len |-> s[j + (off + 1) - 1]]
  <2>1. 1 .. (off + len) - (off + 1) + 1 = 1 .. len
    BY SMT
  <2> QED BY <2>1
<1>2. \A j \in 1 .. len : s[j + (off + 1) - 1] = u[j]
  <2> SUFFICES ASSUME NEW j \in 1 .. len PROVE s[j + (off + 1) - 1] = u[j]
    OBVIOUS
  <2>1. j + (off + 1) - 1 = off + j
    OBVIOUS
  <2> QED BY <2>1
<1> QED BY <1>1, <1>2

(* What is stored for a matched row is the text RowMap gives it.           *)
LEMMA StoredText ==
  ASSUME PlanInv, WorkerTypes, step # "plan", NEW i \in Rows, rows[i].outcome = "matched", Stored(i)
  PROVE  TextOf(i) = M!Mapped(i)
<1>1. PICK new \in Seq(Int) : new = rows[i].new /\ \A j \in DOMAIN new : new[j] <= rows[i].size
  BY RowsRange DEF PlanInv, IsRow
<1>2. Len(new) \in Nat /\ DOMAIN new = 1 .. Len(new) /\ rows[i].size \in Nat
  BY <1>1, RowsRange DEF PlanInv, IsRow
<1>3. SourceText(i) = M!Source(i)
  BY DEF SourceText, M!Source
<1>4. M!Mapped(i) = IF new # SourceText(i) THEN M!New(i) ELSE M!Same(i)
  BY <1>1, <1>3 DEF M!Mapped
<1> DEFINE u == [j \in 1 .. Len(new) |-> <<i, new[j]>>]
<1>5. M!New(i) = [kind |-> "new", text |-> u]
  BY <1>1, <1>2 DEF M!New
<1>6. Tagged(i, SourceText(i)) = [j \in 1 .. rows[i].size |-> <<i, j>>]
  BY <1>2 DEF Tagged, SourceText
<1>7. M!Same(i) = [kind |-> "same", text |-> Tagged(i, SourceText(i))]
  BY <1>2, <1>6 DEF M!Same, M!Source
<1>8. CASE /\ results[i] = [kind |-> "original"]
           /\ rows[i].new = SourceText(i)
  <2>1. results[i].kind = "original"
    BY <1>8
  <2> QED BY <1>1, <1>4, <1>7, <1>8, <2>1 DEF TextOf
<1>9. CASE /\ rows[i].new # SourceText(i)
           /\ Contiguous(rows[i].new)
           /\ results[i] = [kind |-> "slice", offset |-> SliceOffset(rows[i].new),
                            length |-> Len(rows[i].new)]
  <2> DEFINE source == [j \in 1 .. rows[i].size |-> <<i, j>>]
  <2>1. /\ results[i].kind = "slice"
        /\ results[i].offset = SliceOffset(new) /\ results[i].length = Len(new)
    BY <1>1, <1>9
  <2>2. \A j \in 1 .. Len(new) : new[j] = SliceOffset(new) + j
    BY <1>1, <1>9, SliceBytes
  <2>3. SliceOffset(new) \in Nat
    <3>1. new # <<>> => 1 \in DOMAIN new /\ new[1] \in Int
      OBVIOUS
    <3> QED BY <1>1, <1>9, <3>1 DEF Contiguous, SliceOffset
  <2>4. source \in Seq({i} \X Int) /\ Len(source) = rows[i].size
    <3>1. \A j \in 1 .. rows[i].size : <<i, j>> \in {i} \X Int
      OBVIOUS
    <3> QED BY <1>2, <3>1
  <2>5. SliceOffset(new) + Len(new) <= rows[i].size
    <3>1. CASE Len(new) = 0
      <4>1. new = <<>>
        BY <3>1
      <4> QED BY <1>2, <3>1, <4>1 DEF SliceOffset
    <3>2. CASE Len(new) # 0
      <4>1. Len(new) \in DOMAIN new
        BY <1>2, <3>2
      <4> QED BY <1>1, <1>2, <2>2, <4>1
    <3> QED BY <3>1, <3>2
  <2>6. \A j \in 1 .. Len(new) : source[SliceOffset(new) + j] = u[j]
    <3> SUFFICES ASSUME NEW j \in 1 .. Len(new) PROVE source[SliceOffset(new) + j] = u[j]
      OBVIOUS
    <3>1. SliceOffset(new) + j \in 1 .. rows[i].size /\ SliceOffset(new) + j = new[j]
      BY <1>2, <2>2, <2>3, <2>5
    <3> QED BY <3>1
  <2>7. SubSeq(source, SliceOffset(new) + 1, SliceOffset(new) + Len(new)) = u
    <3> HIDE DEF source
    <3>1. u = [j \in 1 .. Len(new) |-> u[j]]
      OBVIOUS
    <3> HIDE DEF u
    <3>2. PICK off \in Nat, len \in Nat : off = SliceOffset(new) /\ len = Len(new)
      BY <1>2, <2>3
    <3>3. off + len <= Len(source) /\ (\A j \in 1 .. len : source[off + j] = u[j]) /\ u = [j \in 1 .. len |-> u[j]]
      BY <2>4, <2>5, <2>6, <3>1, <3>2
    <3>4. SubSeq(source, off + 1, off + len) = u
      BY <2>4, <3>3, PartIs
    <3> QED BY <3>2, <3>4
  <2>8. TextOf(i) = [kind |-> "new", text |-> SubSeq(source, SliceOffset(new) + 1, SliceOffset(new) + Len(new))]
    BY <1>6, <2>1 DEF TextOf
  <2> QED BY <1>1, <1>4, <1>5, <1>9, <2>7, <2>8
<1>10. CASE /\ rows[i].new # SourceText(i)
            /\ results[i].kind = "changed"
            /\ results[i].chunk \in Chunks
            /\ results[i].offset \in Nat
            /\ results[i].length = Len(rows[i].new)
            /\ results[i].offset + results[i].length <= Len(arenas[results[i].chunk])
            /\ \A j \in 1 .. results[i].length :
                 arenas[results[i].chunk][results[i].offset + j] = <<i, rows[i].new[j]>>
  <2>1. PICK arena \in Text, off \in Nat : arena = arenas[results[i].chunk] /\ off = results[i].offset
    BY <1>10 DEF WorkerTypes
  <2>2. off + Len(new) <= Len(arena) /\ \A j \in 1 .. Len(new) : arena[off + j] = u[j]
    BY <1>1, <1>10, <2>1
  <2>3. SubSeq(arena, off + 1, off + Len(new)) = u
    <3>1. u = [j \in 1 .. Len(new) |-> u[j]]
      OBVIOUS
    <3> HIDE DEF u
    <3> QED BY <1>2, <2>2, <3>1, PartIs DEF Text
  <2>4. TextOf(i) = [kind |-> "new", text |-> SubSeq(arena, off + 1, off + Len(new))]
    BY <1>1, <1>10, <2>1 DEF TextOf
  <2> QED BY <1>1, <1>4, <1>5, <1>10, <2>3, <2>4
<1> QED BY <1>8, <1>9, <1>10 DEF Stored
-----------------------------------------------------------------------------
(* A report that stops the call is an answer of the abstract map, or no step of it. *)
LEMMA ReportStops ==
  ASSUME IInv, Report
  PROVE  [M!MNext]_(<<rows, scarce, answer>>)
<1> DEFINE hard == {i \in Rows : errors[i] = "hard"}
<1>1. UNCHANGED <<rows, scarce>> /\ stage = "returned" /\ answer = Pending /\ hard \in SUBSET Rows
  BY DEF Report, job_vars, IInv, CallInv
<1>2. CASE hard = {}
  BY <1>1, <1>2 DEF Report
<1>3. CASE hard # {}
  <2>1. answer' = [kind |-> "stop", row |-> FirstOf(hard)]
    BY <1>3 DEF Report
  <2>2. FirstOf(hard) \in hard /\ \A j \in hard : FirstOf(hard) <= j
    BY <1>1, <1>3, FirstRow DEF IInv
  <2>3. PICK i \in hard : i = FirstOf(hard)
    BY <2>2
  <2>4. M!Hard(i) \/ scarce
    BY <2>3 DEF IInv, RowsInv, RowInv, M!Hard
  <2>5. \A j \in DOMAIN rows : j < i => ~ M!Hard(j)
    <3> SUFFICES ASSUME NEW j \in Rows, j < i, rows[j].outcome = "hard" PROVE FALSE
      BY DEF M!Hard, Rows
    <3>1. Settled(j)
      BY <1>1, AllSettled DEF IInv
    <3>2. j \in hard
      BY <3>1 DEF Settled
    <3>3. i <= j /\ i \in Int /\ j \in Int
      BY <2>2, <2>3, <3>2, RowsRange DEF IInv, PlanInv
    <3> QED BY <3>3
  <2>6. M!Stop(i) /\ i \in DOMAIN rows
    BY <1>1, <2>1, <2>3, <2>4, <2>5 DEF M!Stop, M!Pending, Pending, Rows
  <2> QED BY <2>6 DEF M!MNext
<1> QED BY <1>2, <1>3

(* The assembled result is the answer of the abstract map. *)
LEMMA FinalizeAnswers ==
  ASSUME IInv, Finalize
  PROVE  M!Answer
<1>1. /\ UNCHANGED <<rows, scarce>> /\ step = "finish" /\ stage = "returned" /\ answer = Pending
      /\ PlanInv /\ WorkerTypes /\ RowsInv /\ Passed
  BY DEF Finalize, job_vars, IInv, CallInv
<1>2. ASSUME NEW i \in Rows
      PROVE  ~ M!Hard(i) /\ TextOf(i) = M!Mapped(i)
  <2>1. Settled(i) /\ errors[i] # "hard" /\ RowInv(i)
    BY <1>1, AllSettled DEF IInv, Passed, RowsInv
  <2>2. rows[i].outcome # "hard"
    BY <2>1 DEF Settled
  <2>3. CASE rows[i].outcome = "matched"
    BY <1>1, <2>1, <2>2, <2>3, StoredText DEF Settled, M!Hard
  <2>4. CASE rows[i].outcome = "na"
    <3>1. results[i].kind = "na"
      BY <2>1, <2>4 DEF RowInv
    <3> QED BY <2>4, <3>1 DEF TextOf, M!Mapped, M!NA, M!Hard
  <2>5. CASE rows[i].outcome \notin {"matched", "na"}
    <3>1. results[i].kind = "original"
      BY <2>1, <2>5 DEF RowInv
    <3>2. TextOf(i) = [kind |-> "same", text |-> Tagged(i, SourceText(i))]
      BY <3>1 DEF TextOf
    <3>3. M!Mapped(i) = M!Same(i)
      BY <2>5 DEF M!Mapped
    <3>4. rows[i].size \in Nat
      BY <1>1, RowsRange DEF PlanInv, IsRow
    <3>5. Tagged(i, SourceText(i)) = [j \in DOMAIN M!Source(i) |-> <<i, j>>]
      BY <3>4 DEF Tagged, SourceText, M!Source
    <3> QED BY <2>2, <3>2, <3>3, <3>5 DEF M!Same, M!Hard
  <2> QED BY <2>3, <2>4, <2>5
<1>3. answer' = [kind |-> "value", value |-> [i \in Rows |-> TextOf(i)],
                 warns |-> warned[1], count |-> warned[2]]
  BY DEF Finalize
<1>4. warned[1] = M!First(M!Soft) /\ warned[2] = Cardinality(M!Soft)
  BY <1>1 DEF Passed
<1>5. [i \in Rows |-> TextOf(i)] = [i \in DOMAIN rows |-> M!Mapped(i)]
  BY <1>2 DEF Rows
<1>6. \A i \in DOMAIN rows : ~ M!Hard(i)
  BY <1>2 DEF Rows
<1>7. M!Cardinality(M!Soft) = Cardinality(M!Soft)
  BY DEF M!Cardinality, Cardinality
<1> QED BY <1>1, <1>3, <1>4, <1>5, <1>6, <1>7 DEF M!Answer, M!Pending, Pending

(* Every step of the pipeline is a step of the abstract map or none. *)
LEMMA MappedStep ==
  ASSUME IInv, [Next]_vars
  PROVE  [M!MNext]_(<<rows, scarce, answer>>)
<1>1. UNCHANGED <<rows, scarce>>
  BY RowsKept DEF job_vars
<1>2. CASE Report
  BY <1>2, ReportStops
<1>3. CASE Finalize
  BY <1>3, FinalizeAnswers DEF M!MNext
<1>4. CASE PlanRow \/ FinishPlan \/ Dispatch
  BY <1>1, <1>4 DEF PlanRow, FinishPlan, Dispatch
<1>5. CASE Halve \/ Joined \/ UNCHANGED vars
  BY <1>1, <1>5 DEF Halve, Joined, vars
<1>6. ASSUME NEW t \in Threads, ThreadStep(t)
      PROVE  [M!MNext]_(<<rows, scarce, answer>>)
  BY <1>1, <1>6, ThreadFrame
<1> QED BY <1>2, <1>3, <1>4, <1>5, <1>6 DEF Next, Caller

(* Whatever the chunks, the threads and their interleaving, the pipeline   *)
(* implements the row-by-row specification: fast_regex_sub_impl() answers  *)
(* each row's own text, or stops at a row no hard error comes before.      *)
THEOREM Maps == Spec => MapsRows
<1>1. Init => M!MInit
  BY DEF Init, M!MInit, M!Pending, Pending
<1>2. IInv /\ [Next]_vars => [M!MNext]_(<<rows, scarce, answer>>)
  BY MappedStep
<1> QED BY <1>1, <1>2, Invariance, PTL DEF Spec, MapsRows, M!MSpec
=============================================================================
