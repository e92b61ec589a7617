----------------------------- MODULE TextPipeline -----------------------------
(***************************************************************************)
(* fast_regex_sub_impl(): a vector of strings through the pipeline every   *)
(* string-producing kernel shares. The caller plans byte-balanced chunks   *)
(* of rows (src/src/text_results.h), threads rewrite the rows of a chunk   *)
(* into the chunk's arena and note errors by row (src/src/fgrepl.cpp), and *)
(* once they have joined the caller reports the errors and builds the R    *)
(* strings. What PCRE2 makes of a row is data, given with the row.         *)
(***************************************************************************)
EXTENDS ParallelDispatch, Sequences

CONSTANTS
  Inputs,           \* the vectors considered: functions on 0 .. n-1
  ThreadCounts,     \* the values of nthreads, -1 for NULL
  Hardware,         \* hardware_concurrency()
  Threshold,        \* parallel_threshold
  MaxRows,          \* MAX_ROWS, 4096
  TargetBytes,      \* TARGET_BYTES, 256 KiB
  ChunksPerThread,  \* CHUNKS_PER_THREAD, 6
  RowOverhead,      \* row_overhead, 24
  SizeMax           \* the largest size_t

(* A row as PCRE2 leaves it: what came of the match, the bytes of the      *)
(* string, and the new text, in which a positive number is a byte kept and *)
(* so one of the string's.                                                 *)
Outcomes == {"na", "nomatch", "matched", "soft", "hard"}
IsRow(r) ==
  /\ r.outcome \in Outcomes
  /\ r.size \in Nat
  /\ r.new \in Seq(Int)
  /\ \A j \in DOMAIN r.new : r.new[j] <= r.size

ASSUME PipelineAssumption ==
  /\ {MaxRows, TargetBytes, ChunksPerThread, Hardware} \subseteq Nat \ {0}
  /\ {RowOverhead, SizeMax, Threshold} \subseteq Nat
  /\ ThreadCounts \subseteq Int
  /\ \A vector \in Inputs :
       /\ IsFiniteSet(DOMAIN vector)
       /\ DOMAIN vector = 0 .. Cardinality(DOMAIN vector) - 1
       /\ \A i \in DOMAIN vector : IsRow(vector[i])

VARIABLES
  rows,      \* the vector: by row its size, its match outcome, its new text
  nthreads,
  scarce,    \* may pcre2_match_data_create_from_pattern() return NULL?
  step,      \* the caller: "plan", "dispatch", "join", "finish", "done"
  planned,   \* rows seen by the planning loop
  begin,     \* first row of the chunk being planned
  bytes,     \* its estimated bytes
  chunks,    \* the plan: a sequence of [begin, end, bytes]
  results,   \* TextResult by row
  arenas,    \* by chunk: the bytes of its changed strings
  errors,    \* by row: 0, "soft" or "hard"
  doing,     \* by thread: "nothing", "allocate", "rows", "store", "no memory"
  at,        \* by thread: the row it is at
  buf,       \* by thread: the buffer a row is rewritten into
  warned,    \* the warning report_pcre2_errors() gave: first row and count
  answer

job_vars    == <<rows, nthreads, scarce>>
plan_vars   == <<planned, begin, bytes, chunks>>
worker_vars == <<results, arenas, errors, doing, at, buf>>
vars == <<dispatch_vars, job_vars, step, plan_vars, worker_vars, warned, answer>>

Rows == DOMAIN rows
n    == Cardinality(Rows)
Chunk(c) == chunks[c + 1]
Chunks   == 0 .. Len(chunks) - 1
Pending  == [kind |-> "pending"]

-----------------------------------------------------------------------------
(* make_text_work_plan(): sizes saturate at the largest size_t.            *)
Saturated(x) == MinOf(x, SizeMax)

BytesUpto[i \in 0 .. n] == IF i = 0 THEN 0 ELSE Saturated(BytesUpto[i - 1] + rows[i - 1].size)
TotalBytes == BytesUpto[n]

(* estimated_string_work(snapshot, 24) *)
Work == Saturated(TotalBytes + n * RowOverhead)

Serial == nthreads = 1 \/ Work < Threshold

(* How many threads the bytes justify, at CHUNKS_PER_THREAD chunks each.   *)
ThreadHint ==
  MinOf(MinOf(IF nthreads > 0 THEN nthreads ELSE Hardware, n),
        MaxOf(1, CeilDiv(CeilDiv(Work, TargetBytes), ChunksPerThread)))

DesiredChunks == Saturated(ThreadHint * ChunksPerThread)
Target == IF Serial THEN SizeMax ELSE MaxOf(1, CeilDiv(Work, DesiredChunks))

(* plan.dispatch_threads and plan.grain_size: an empty vector leaves early *)
(* with the defaults.                                                      *)
DispatchThreads == IF n > 0 /\ nthreads > 0 THEN MinOf(nthreads, ThreadHint) ELSE nthreads
PlanGrain == IF n = 0 \/ Serial THEN 1 ELSE CeilDiv(Len(chunks), ThreadHint)

(* make_text_results() *)
InitialResults == [i \in Rows |-> [kind |-> IF rows[i].outcome = "na" THEN "na" ELSE "original"]]

Init ==
  /\ DispatchInit
  /\ rows \in Inputs
  /\ nthreads \in ThreadCounts
  /\ scarce \in BOOLEAN
  /\ step = "plan"
  /\ planned = 0
  /\ begin = 0
  /\ bytes = 0
  /\ chunks = <<>>
  /\ results = InitialResults
  /\ arenas = <<>>
  /\ errors = [i \in Rows |-> "none"]
  /\ doing = [t \in Threads |-> "nothing"]
  /\ at = [t \in Threads |-> 0]
  /\ buf = [t \in Threads |-> <<>>]
  /\ warned = <<>>
  /\ answer = Pending

FaultyRowCount ==   \* lets one row too many into a chunk
  /\ step = "plan"
  /\ planned < n
  /\ LET total == Saturated(bytes + Saturated(rows[planned].size + RowOverhead))
     IN  IF planned - begin >= MaxRows \/ total >= Target
           THEN /\ chunks' = Append(chunks, [begin |-> begin, end |-> planned + 1])
                /\ begin' = planned + 1
                /\ bytes' = 0
           ELSE /\ bytes' = total
                /\ UNCHANGED <<chunks, begin>>
  /\ planned' = planned + 1
  /\ UNCHANGED <<dispatch_vars, job_vars, step, worker_vars, warned, answer>>

(* One turn of the planning loop: a chunk is closed after the row that     *)
(* fills it, by rows or by bytes.                                          *)
PlanRow ==
  /\ step = "plan"
  /\ planned < n
  /\ LET total == Saturated(bytes + Saturated(rows[planned].size + RowOverhead))
         full  == planned - begin + 1 >= MaxRows \/ total >= Target
     IN  IF full
           THEN /\ chunks' = Append(chunks, [begin |-> begin, end |-> planned + 1])
                /\ begin' = planned + 1
                /\ bytes' = 0
           ELSE /\ bytes' = total
                /\ UNCHANGED <<chunks, begin>>
  /\ planned' = planned + 1
  /\ UNCHANGED <<dispatch_vars, job_vars, step, worker_vars, warned, answer>>

(* The rows left over make the last chunk; then one arena per chunk.       *)
FinishPlan ==
  /\ step = "plan"
  /\ planned = n
  /\ chunks' = IF begin < n THEN Append(chunks, [begin |-> begin, end |-> n]) ELSE chunks
  /\ arenas' = [c \in 0 .. Len(chunks') - 1 |-> <<>>]
  /\ step' = "dispatch"
  /\ UNCHANGED <<dispatch_vars, job_vars, planned, begin, bytes,
                 results, errors, doing, at, buf, warned, answer>>
-----------------------------------------------------------------------------
(* dispatch_for() over the chunks; a call that runs in the caller enters   *)
(* the worker at once.                                                     *)
Dispatch ==
  /\ step = "dispatch"
  /\ Enter(Len(chunks), Work < Threshold, DispatchThreads, PlanGrain)
  /\ doing' = IF stage' = "serial" THEN [doing EXCEPT ![Main] = "allocate"] ELSE doing
  /\ step' = "join"
  /\ UNCHANGED <<job_vars, plan_vars, results, arenas, errors, at, buf, warned, answer>>

(* A thread is given a range of chunks and enters PCRE2SubWorker.          *)
TakeRange(t) ==
  /\ \E r \in ranges : Claim(t, r)
  /\ doing' = [doing EXCEPT ![t] = "allocate"]
  /\ UNCHANGED <<job_vars, step, plan_vars, results, arenas, errors, at, buf, warned, answer>>

(* Each call of the worker makes its own match data and buffer.            *)
Allocate(t) ==
  /\ doing[t] = "allocate"
  /\ doing' = [doing EXCEPT ![t] = "rows"]
  /\ at' = [at EXCEPT ![t] = Chunk(held[t][1]).begin]
  /\ buf' = [buf EXCEPT ![t] = <<>>]
  /\ UNCHANGED <<dispatch_vars, job_vars, step, plan_vars, results, arenas, errors, warned, answer>>

NoMemory(t) ==
  /\ doing[t] = "allocate"
  /\ scarce
  /\ doing' = [doing EXCEPT ![t] = "no memory"]
  /\ UNCHANGED <<dispatch_vars, job_vars, step, plan_vars, results, arenas, errors, at, buf,
                 warned, answer>>

(* What follows the last row of a chunk: the next chunk of the range, or   *)
(* the end of the worker.                                                  *)
NextChunk(t) ==
  /\ Run(t)
  /\ IF held'[t] = Idle
       THEN /\ doing' = [doing EXCEPT ![t] = "nothing"]
            /\ at' = [at EXCEPT ![t] = 0]
            /\ buf' = [buf EXCEPT ![t] = <<>>]
       ELSE /\ at' = [at EXCEPT ![t] = Chunk(held'[t][1]).begin]
            /\ UNCHANGED <<doing, buf>>

(* Without match data every row of the range is marked as failed.          *)
MarkChunk(t) ==
  /\ doing[t] = "no memory"
  /\ LET chunk == Chunk(held[t][1])
     IN  errors' = [i \in Rows |-> IF chunk.begin <= i /\ i < chunk.end THEN "hard" ELSE errors[i]]
  /\ NextChunk(t)
  /\ UNCHANGED <<job_vars, step, plan_vars, results, arenas, warned, answer>>

AtRow(t) == doing[t] = "rows" /\ at[t] < Chunk(held[t][1]).end

FaultyPassRow(t) ==   \* goes on without going to the next row
  /\ AtRow(t)
  /\ rows[at[t]].outcome # "matched"
  /\ IF rows[at[t]].outcome \in {"soft", "hard"}
       THEN errors' = [errors EXCEPT ![at[t]] = rows[at[t]].outcome]
       ELSE UNCHANGED errors
  /\ UNCHANGED <<dispatch_vars, job_vars, step, plan_vars, results, arenas, doing, at, buf,
                 warned, answer>>

(* NA and a string with no match keep the result they were given; a match  *)
(* error is noted by row.                                                  *)
PassRow(t) ==
  /\ AtRow(t)
  /\ rows[at[t]].outcome # "matched"
  /\ IF rows[at[t]].outcome \in {"soft", "hard"}
       THEN errors' = [errors EXCEPT ![at[t]] = rows[at[t]].outcome]
       ELSE UNCHANGED errors
  /\ at' = [at EXCEPT ![t] = at[t] + 1]
  /\ UNCHANGED <<dispatch_vars, job_vars, step, plan_vars, results, arenas, doing, buf,
                 warned, answer>>

Tagged(i, text) == [j \in DOMAIN text |-> <<i, text[j]>>]
SourceText(i) == [j \in 1 .. rows[i].size |-> j]

(* The substitution clears the thread's buffer and writes the new text.    *)
Rewrite(t) ==
  /\ AtRow(t)
  /\ rows[at[t]].outcome = "matched"
  /\ buf' = [buf EXCEPT ![t] = Tagged(at[t], rows[at[t]].new)]
  /\ doing' = [doing EXCEPT ![t] = "store"]
  /\ UNCHANGED <<dispatch_vars, job_vars, step, plan_vars, results, arenas, errors, at,
                 warned, answer>>

(* SourceSliceProvenance: an empty replacement leaves one unbroken slice.  *)
Contiguous(text) ==
  /\ \A j \in DOMAIN text : text[j] > 0
  /\ \A j \in 1 .. Len(text) - 1 : text[j + 1] = text[j] + 1
SliceOffset(text) == IF text = <<>> THEN 0 ELSE text[1] - 1

FaultyStore(t) ==   \* forgets what the arena already holds
  /\ doing[t] = "store"
  /\ LET i == at[t]
         c == held[t][1]
     IN  /\ arenas' = [arenas EXCEPT ![c] = @ \o buf[t]]
         /\ results' = [results EXCEPT ![i] = [kind |-> "changed", chunk |-> c,
                                               offset |-> 0,
                                               length |-> Len(buf[t])]]
  /\ doing' = [doing EXCEPT ![t] = "rows"]
  /\ at' = [at EXCEPT ![t] = at[t] + 1]
  /\ UNCHANGED <<dispatch_vars, job_vars, step, plan_vars, errors, buf, warned, answer>>

(* store_provenanced_text(): text equal to the string keeps it, an unbroken*)
(* slice is recorded by its place, the rest goes to the end of the chunk's *)
(* arena.                                                                  *)
Store(t) ==
  /\ doing[t] = "store"
  /\ LET i == at[t]
         c == held[t][1]
         text == rows[i].new
     IN  \/ /\ buf[t] = Tagged(i, SourceText(i))
            /\ results' = [results EXCEPT ![i] = [kind |-> "original"]]
            /\ UNCHANGED arenas
         \/ /\ buf[t] # Tagged(i, SourceText(i))
            /\ Contiguous(text)
            /\ results' = [results EXCEPT ![i] = [kind |-> "slice", offset |-> SliceOffset(text),
                                                  length |-> Len(text)]]
            /\ UNCHANGED arenas
         \/ /\ ~ Contiguous(text)
            /\ results' = [results EXCEPT ![i] = [kind |-> "changed", chunk |-> c,
                                                  offset |-> Len(arenas[c]),
                                                  length |-> Len(buf[t])]]
            /\ arenas' = [arenas EXCEPT ![c] = @ \o buf[t]]
  /\ doing' = [doing EXCEPT ![t] = "rows"]
  /\ at' = [at EXCEPT ![t] = at[t] + 1]
  /\ UNCHANGED <<dispatch_vars, job_vars, step, plan_vars, errors, buf, warned, answer>>

EndChunk(t) ==
  /\ doing[t] = "rows"
  /\ ~ AtRow(t)
  /\ NextChunk(t)
  /\ UNCHANGED <<job_vars, step, plan_vars, results, arenas, errors, warned, answer>>

Halve ==
  /\ \E r \in ranges : Split(r)
  /\ UNCHANGED <<job_vars, step, plan_vars, worker_vars, warned, answer>>

Joined ==
  /\ Join
  /\ UNCHANGED <<job_vars, step, plan_vars, worker_vars, warned, answer>>
-----------------------------------------------------------------------------
FirstOf(S) == CHOOSE i \in S : \A j \in S : i <= j

(* report_pcre2_errors(): stop at the first hard error in row order, warn  *)
(* once about the first soft one and count the others.                     *)
Report ==
  /\ step = "join"
  /\ stage = "returned"
  /\ LET hard == {i \in Rows : errors[i] = "hard"}
         soft == {i \in Rows : errors[i] = "soft"}
     IN  IF hard # {}
           THEN /\ answer' = [kind |-> "stop", row |-> FirstOf(hard)]
                /\ step' = "done"
                /\ UNCHANGED warned
           ELSE /\ warned' = IF soft = {} THEN <<-1, 0>> ELSE <<FirstOf(soft), Cardinality(soft)>>
                /\ step' = "finish"
                /\ UNCHANGED answer
  /\ UNCHANGED <<dispatch_vars, job_vars, plan_vars, worker_vars>>

(* The string made for a row from what its TextResult points at.           *)
TextOf(i) ==
  CASE results[i].kind = "na" -> [kind |-> "na", text |-> <<>>]
    [] results[i].kind = "original" -> [kind |-> "same", text |-> Tagged(i, SourceText(i))]
    [] results[i].kind = "slice" ->
         [kind |-> "new",
          text |-> SubSeq(Tagged(i, SourceText(i)), results[i].offset + 1,
                          results[i].offset + results[i].length)]
    [] results[i].kind = "changed" ->
         [kind |-> "new",
          text |-> SubSeq(arenas[results[i].chunk], results[i].offset + 1,
                          results[i].offset + results[i].length)]

(* finalize_text_results() *)
Finalize ==
  /\ step = "finish"
  /\ answer' = [kind |-> "value", value |-> [i \in Rows |-> TextOf(i)],
                warns |-> warned[1], count |-> warned[2]]
  /\ step' = "done"
  /\ UNCHANGED <<dispatch_vars, job_vars, plan_vars, worker_vars, warned>>

ThreadStep(t) ==
  \/ TakeRange(t) \/ Allocate(t) \/ NoMemory(t) \/ MarkChunk(t)
  \/ PassRow(t) \/ Rewrite(t) \/ Store(t) \/ EndChunk(t)

Caller == PlanRow \/ FinishPlan \/ Dispatch \/ Halve \/ Joined \/ Report \/ Finalize

Next == Caller \/ \E t \in Threads : ThreadStep(t)

Spec == Init /\ [][Next]_vars

(* The caller runs on, TBB cuts and hands out what is left, and threads    *)
(* that hold a range run it.                                               *)
FairSpec ==
  /\ Spec
  /\ WF_vars(Caller)
  /\ \A t \in Threads : WF_vars(ThreadStep(t))
-----------------------------------------------------------------------------
(* The chunks of a plan follow each other from row 0, none is empty, none  *)
(* holds more than MAX_ROWS rows and together they hold every row: with    *)
(* each chunk run by one thread, each row is rewritten once.               *)
ChunksTile ==
  /\ \A c \in Chunks :
       /\ Chunk(c).begin < Chunk(c).end
       /\ Chunk(c).end - Chunk(c).begin <= MaxRows
       /\ Chunk(c).begin = IF c = 0 THEN 0 ELSE Chunk(c - 1).end
  /\ step # "plan" =>
       IF n = 0 THEN chunks = <<>> ELSE Chunk(Len(chunks) - 1).end = n

(* Whatever the chunks and the interleaving, the call gives the answer of  *)
(* the row-by-row specification: no row is built from another row's bytes, *)
(* and which error stops the call does not depend on which came first.     *)
M == INSTANCE RowMap
MapsRows == M!MSpec

(* The call returns, or stops, whatever the rows do. *)
Answers == <>(step = "done")
=============================================================================
