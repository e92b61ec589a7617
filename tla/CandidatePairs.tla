---------------------------- MODULE CandidatePairs ----------------------------
(***************************************************************************)
(* block_pairs() and sorted_neighbourhood(): every key (a pass) is a code  *)
(* per record, pairs of records whose codes are near enough are collected, *)
(* each once, under the first pass that finds it.                          *)
(*                                                                         *)
(* fast_candidate_pairs_impl() (src/src/linkage_pairs.cpp) sorts the y     *)
(* records of each pass by code, bounds the number of pairs, and then      *)
(* threads collect the pairs of a chunk of x records in a list of their    *)
(* own; the lists are joined in chunk order.                               *)
(***************************************************************************)
EXTENDS ParallelDispatch, SequencesExt

CONSTANTS
  Problems,        \* the calls considered
  RowsPerChunk,    \* rows_per_chunk, 1024
  Threshold,       \* the parallel threshold, 200000
  Limit            \* the largest int, 2^31 - 1

(* A problem is what .candidate_pairs() passes down: x and y codes by pass *)
(* and record, Missing for NA, otherwise 1 .. K with every number in use.  *)
Missing == 0

UsedCodes(q, p) ==
  {c \in {q.x[p][i] : i \in 0 .. q.nx - 1} \cup {q.y[p][j] : j \in 0 .. q.ny - 1} : c # Missing}

ASSUME PairsAssumption ==
  /\ RowsPerChunk \in Nat \ {0}
  /\ {Threshold, Limit} \subseteq Nat
  /\ \A q \in Problems :
       /\ q.nx \in Nat /\ q.ny \in Nat
       /\ q.x \in Seq([0 .. q.nx - 1 -> Nat])
       /\ q.y \in Seq([0 .. q.ny - 1 -> Nat])
       /\ Len(q.x) = Len(q.y) /\ Len(q.x) > 0
       /\ \A p \in DOMAIN q.x : \E k \in 0 .. q.nx + q.ny : UsedCodes(q, p) = 1 .. k
       /\ q.dedupe \in BOOLEAN
       /\ q.dedupe => q.x = q.y /\ q.nx = q.ny
       /\ q.half \in Nat
       /\ q.nthreads \in Int
       /\ q.maxBlock \in Nat \ {0}

VARIABLES
  job,       \* [x, y, nx, ny, half, dedupe, maxBlock, nthreads]
  phase,     \* "count", "prefix", "place", "blocks", "check", "dispatch", "pairs", "done"
  pass,      \* the pass being prepared
  cursor,    \* the loop variable of the phase
  offsets,   \* by pass: where the y records of a code start in members
  members,   \* by pass: y records by code, then by index
  fill,      \* of the pass being placed: where the next record of a code goes
  skipped,   \* by pass: the codes whose block is too big
  bound,     \* twice the upper bound on the number of pairs
  lists,     \* by chunk: the <<x, y, pass>> found
  row,       \* by thread: the x record it is at, -1 between chunks
  scan,      \* by thread: the next pass to scan for that record
  found,     \* by thread: the <<y, pass>> found for that record
  ordered,   \* by thread: is found in order and without repeats as it is?
  givers,    \* by thread: passes that found something (contributors)
  answer

setup_vars  == <<pass, cursor, offsets, members, fill, skipped, bound>>
worker_vars == <<lists, row, scan, found, ordered, givers>>
vars == <<dispatch_vars, job, phase, setup_vars, worker_vars, answer>>

Passes == DOMAIN job.x
XRows  == 0 .. job.nx - 1
YRows  == 0 .. job.ny - 1
Codes(p) == UsedCodes(job, p)
NCodes(p) == Cardinality(Codes(p))
XCount(p, c) == Cardinality({i \in XRows : job.x[p][i] = c})
NChunks == CeilDiv(job.nx, RowsPerChunk)

NoRow == -1
-----------------------------------------------------------------------------
Init ==
  /\ DispatchInit
  /\ job \in Problems
  /\ phase = "count"
  /\ pass = 1
  /\ cursor = 0
  /\ offsets = [p \in Passes |-> [c \in 0 .. NCodes(p) + 1 |-> 0]]
  /\ members = [p \in Passes |-> <<>>]
  /\ fill = <<>>
  /\ skipped = [p \in Passes |-> {}]
  /\ bound = 0
  /\ lists = [c \in 0 .. NChunks - 1 |-> <<>>]
  /\ row = [t \in Threads |-> NoRow]
  /\ scan = [t \in Threads |-> 1]
  /\ found = [t \in Threads |-> <<>>]
  /\ ordered = [t \in Threads |-> TRUE]
  /\ givers = [t \in Threads |-> 0]
  /\ answer = [kind |-> "pending"]

(* Counting sort of the y records by code: count each code one place up,   *)
(* add up, then put each record where its code's next free place is.       *)
CountRecord ==
  /\ phase = "count"
  /\ IF cursor < job.ny
       THEN /\ LET c == job.y[pass][cursor]
               IN  offsets' = IF c = Missing THEN offsets
                              ELSE [offsets EXCEPT ![pass][c + 1] = @ + 1]
            /\ cursor' = cursor + 1
            /\ UNCHANGED phase
       ELSE /\ phase' = "prefix"
            /\ cursor' = 1
            /\ UNCHANGED offsets
  /\ UNCHANGED <<dispatch_vars, job, pass, members, fill, skipped, bound, worker_vars, answer>>

AddUp ==
  /\ phase = "prefix"
  /\ IF cursor <= NCodes(pass) + 1
       THEN /\ offsets' = [offsets EXCEPT ![pass][cursor] = @ + offsets[pass][cursor - 1]]
            /\ cursor' = cursor + 1
            /\ UNCHANGED <<phase, members, fill>>
       ELSE /\ phase' = "place"
            /\ cursor' = 0
            /\ members' = [members EXCEPT ![pass] =
                             [q \in 1 .. offsets[pass][NCodes(pass) + 1] |-> NoRow]]
            /\ fill' = offsets[pass]
            /\ UNCHANGED offsets
  /\ UNCHANGED <<dispatch_vars, job, pass, skipped, bound, worker_vars, answer>>

FaultyPlaceRecord ==   \* stays at a record whose key is missing
  /\ phase = "place"
  /\ IF cursor < job.ny
       THEN LET c == job.y[pass][cursor]
            IN  /\ c # Missing
                /\ members' = [members EXCEPT ![pass][fill[c] + 1] = cursor]
                /\ fill' = [fill EXCEPT ![c] = @ + 1]
                /\ cursor' = cursor + 1
                /\ UNCHANGED phase
       ELSE /\ phase' = "blocks"
            /\ cursor' = 1
            /\ UNCHANGED <<members, fill>>
  /\ UNCHANGED <<dispatch_vars, job, pass, offsets, skipped, bound, worker_vars, answer>>

PlaceRecord ==
  /\ phase = "place"
  /\ IF cursor < job.ny
       THEN /\ LET c == job.y[pass][cursor]
               IN  IF c = Missing
                     THEN UNCHANGED <<members, fill>>
                     ELSE /\ members' = [members EXCEPT ![pass][fill[c] + 1] = cursor]
                          /\ fill' = [fill EXCEPT ![c] = @ + 1]
            /\ cursor' = cursor + 1
            /\ UNCHANGED phase
       ELSE /\ phase' = "blocks"
            /\ cursor' = 1
            /\ UNCHANGED <<members, fill>>
  /\ UNCHANGED <<dispatch_vars, job, pass, offsets, skipped, bound, worker_vars, answer>>

(* A block is the records of a code, of both sides when they differ.       *)
BlockSize(p, c) ==
  LET ys == offsets[p][c + 1] - offsets[p][c]
  IN  IF job.dedupe THEN ys ELSE XCount(p, c) + ys
TooBig(p, c) == job.half = 0 /\ BlockSize(p, c) > job.maxBlock

(* The y records whose code is within the window of c, as a range of       *)
(* members.                                                                *)
WindowFrom(p, c) == offsets[p][MaxOf(1, c - job.half)]
WindowTo(p, c)   == offsets[p][MinOf(NCodes(p), c + job.half) + 1]

FaultyWeighBlock ==   \* counts the pairs within the block, not those of the window
  /\ phase = "blocks"
  /\ cursor <= NCodes(pass)
  /\ IF TooBig(pass, cursor)
       THEN /\ skipped' = [skipped EXCEPT ![pass] = @ \cup {cursor}]
            /\ UNCHANGED bound
       ELSE /\ bound' = bound + XCount(pass, cursor)
                          * (offsets[pass][cursor + 1] - offsets[pass][cursor])
                          * (IF job.dedupe THEN 1 ELSE 2)
            /\ UNCHANGED skipped
  /\ cursor' = cursor + 1
  /\ UNCHANGED <<dispatch_vars, job, phase, pass, offsets, members, fill, worker_vars, answer>>

(* One code: skip a block over the maximum, add what the others can give.  *)
(* The pairs of a deduplication are counted from both ends.                *)
WeighBlock ==
  /\ phase = "blocks"
  /\ cursor <= NCodes(pass)
  /\ IF TooBig(pass, cursor)
       THEN /\ skipped' = [skipped EXCEPT ![pass] = @ \cup {cursor}]
            /\ UNCHANGED bound
       ELSE /\ bound' = bound + XCount(pass, cursor)
                          * (WindowTo(pass, cursor) - WindowFrom(pass, cursor))
                          * (IF job.dedupe THEN 1 ELSE 2)
            /\ UNCHANGED skipped
  /\ cursor' = cursor + 1
  /\ UNCHANGED <<dispatch_vars, job, phase, pass, offsets, members, fill, worker_vars, answer>>

NextPass ==
  /\ phase = "blocks"
  /\ cursor > NCodes(pass)
  /\ IF pass < Len(job.x)
       THEN /\ pass' = pass + 1
            /\ phase' = "count"
       ELSE /\ phase' = "check"
            /\ UNCHANGED pass
  /\ cursor' = 0
  /\ UNCHANGED <<dispatch_vars, job, offsets, members, fill, skipped, bound, worker_vars, answer>>

(* A result whose rows an int might not number is refused beforehand.      *)
CheckBound ==
  /\ phase = "check"
  /\ IF bound > 2 * Limit
       THEN /\ answer' = [kind |-> "stop"]
            /\ phase' = "done"
       ELSE /\ phase' = "dispatch"
            /\ UNCHANGED answer
  /\ UNCHANGED <<dispatch_vars, job, setup_vars, worker_vars>>

(* bound and so work is a double; halves are dropped when it is converted. *)
Work == bound \div 2 + job.nx

(* Chunk c holds the x records from c * RowsPerChunk on. *)
FirstRow(c) == c * RowsPerChunk
LastRow(c)  == MinOf(job.nx, FirstRow(c) + RowsPerChunk) - 1

Dispatch ==
  /\ phase = "dispatch"
  /\ Enter(NChunks, Work < Threshold, job.nthreads, 1)
  /\ row' = IF stage' = "serial" THEN [row EXCEPT ![Main] = 0] ELSE row
  /\ phase' = "pairs"
  /\ UNCHANGED <<job, setup_vars, lists, scan, found, ordered, givers, answer>>
-----------------------------------------------------------------------------
TakeRange(t) ==
  /\ \E r \in ranges : Claim(t, r) /\ row' = [row EXCEPT ![t] = FirstRow(r[1])]
  /\ UNCHANGED <<job, phase, setup_vars, lists, scan, found, ordered, givers, answer>>

SingleExact == Len(job.x) = 1 /\ job.half = 0
InChunk(t) == row[t] # NoRow /\ row[t] <= LastRow(held[t][1])

(* The y records in the window of record i. *)
Window(p, i) ==
  LET c == job.x[p][i]
  IN  IF c = Missing \/ c \in skipped[p] THEN <<>>
      ELSE SubSeq(members[p], WindowFrom(p, c) + 1, WindowTo(p, c))

(* The elements of S one after the other as the pairs of R have them.      *)
InOrder(S, R) ==
  [k \in 1 .. Cardinality(S) |->
     CHOOSE e \in S : Cardinality({d \in S : <<d, e>> \in R}) = k - 1]
Ascending(S) == InOrder(S, {r \in S \X S : r[1] < r[2]})

(* A deduplication meets each pair from both of its records and keeps it   *)
(* where the partner is above i.                                           *)
Partners(p, i) ==
  LET all  == Window(p, i)
      kept == Ascending({q \in DOMAIN all : all[q] > i})
  IN  IF job.dedupe THEN [q \in DOMAIN kept |-> all[kept[q]]] ELSE all

(* single_exact() takes what follows the place upper_bound() finds for i.  *)
ExactPartners(i) ==
  LET block == Window(1, i)
      above == {q \in DOMAIN block : block[q] > i}
  IN  IF ~ job.dedupe THEN block
      ELSE IF above = {} THEN <<>>
      ELSE SubSeq(block, CHOOSE q \in above : \A r \in above : q <= r, Len(block))

FaultyScanPass(t) ==   \* takes a window's partners to be in record order
  /\ InChunk(t)
  /\ ~ SingleExact
  /\ scan[t] <= Len(job.x)
  /\ LET p == scan[t]
         partners == Partners(p, row[t])
     IN  /\ found' = [found EXCEPT ![t] =
                        @ \o [q \in DOMAIN partners |-> <<partners[q], p>>]]
         /\ IF partners = <<>>
              THEN UNCHANGED <<givers, ordered>>
              ELSE /\ givers' = [givers EXCEPT ![t] = @ + 1]
                   /\ ordered' = [ordered EXCEPT ![t] = @ /\ givers'[t] = 1]
  /\ scan' = [scan EXCEPT ![t] = @ + 1]
  /\ UNCHANGED <<dispatch_vars, job, phase, setup_vars, lists, row, answer>>

(* PairWorker, one pass for one x record.                                  *)
ScanPass(t) ==
  /\ InChunk(t)
  /\ ~ SingleExact
  /\ scan[t] <= Len(job.x)
  /\ LET p == scan[t]
         partners == Partners(p, row[t])
     IN  /\ found' = [found EXCEPT ![t] =
                        @ \o [q \in DOMAIN partners |-> <<partners[q], p>>]]
         /\ IF partners = <<>>
              THEN UNCHANGED <<givers, ordered>>
              ELSE /\ givers' = [givers EXCEPT ![t] = @ + 1]
                   /\ ordered' = [ordered EXCEPT ![t] = @ /\ givers'[t] = 1 /\ job.half = 0]
  /\ scan' = [scan EXCEPT ![t] = @ + 1]
  /\ UNCHANGED <<dispatch_vars, job, phase, setup_vars, lists, row, answer>>

Before(c, d) == c[1] < d[1] \/ (c[1] = d[1] /\ c[2] < d[2])

(* Sorted by partner then pass, and only the first of each partner kept.   *)
FirstOfEach(s) ==
  LET all    == {s[q] : q \in DOMAIN s}
      sorted == InOrder(all, {r \in all \X all : Before(r[1], r[2])})
      firsts == Ascending({q \in DOMAIN sorted : q = 1 \/ sorted[q - 1][1] # sorted[q][1]})
  IN  [k \in DOMAIN firsts |-> sorted[firsts[k]]]

(* The record's pairs go to its chunk's list, as found when they came from *)
(* one exact pass.                                                         *)
EmitRow(t) ==
  /\ InChunk(t)
  /\ ~ SingleExact
  /\ scan[t] > Len(job.x)
  /\ LET c == held[t][1]
         pairs == IF ordered[t] THEN found[t] ELSE FirstOfEach(found[t])
     IN  lists' = [lists EXCEPT ![c] =
                     @ \o [q \in DOMAIN pairs |-> <<row[t], pairs[q][1], pairs[q][2]>>]]
  /\ row' = [row EXCEPT ![t] = @ + 1]
  /\ scan' = [scan EXCEPT ![t] = 1]
  /\ found' = [found EXCEPT ![t] = <<>>]
  /\ ordered' = [ordered EXCEPT ![t] = TRUE]
  /\ givers' = [givers EXCEPT ![t] = 0]
  /\ UNCHANGED <<dispatch_vars, job, phase, setup_vars, answer>>

(* One exact pass has nothing to sort and nothing to drop.                 *)
ExactRow(t) ==
  /\ InChunk(t)
  /\ SingleExact
  /\ LET partners == ExactPartners(row[t])
         c == held[t][1]
     IN  lists' = [lists EXCEPT ![c] =
                     @ \o [q \in DOMAIN partners |-> <<row[t], partners[q], 1>>]]
  /\ row' = [row EXCEPT ![t] = @ + 1]
  /\ UNCHANGED <<dispatch_vars, job, phase, setup_vars, scan, found, ordered, givers, answer>>

EndChunk(t) ==
  /\ row[t] # NoRow
  /\ ~ InChunk(t)
  /\ Run(t)
  /\ row' = [row EXCEPT ![t] = IF held'[t] = Idle THEN NoRow ELSE FirstRow(held'[t][1])]
  /\ UNCHANGED <<job, phase, setup_vars, lists, scan, found, ordered, givers, answer>>

Halve ==
  /\ \E r \in ranges : Split(r)
  /\ UNCHANGED <<job, phase, setup_vars, worker_vars, answer>>

Joined ==
  /\ Join
  /\ UNCHANGED <<job, phase, setup_vars, worker_vars, answer>>

(* The lists of the chunks, one after the other. *)
Gather ==
  /\ phase = "pairs"
  /\ stage = "returned"
  /\ answer' = [kind |-> "pairs",
                pairs |-> FlattenSeq([c \in 1 .. NChunks |-> lists[c - 1]]),
                skippedBlocks |-> Cardinality(UNION {{p} \X skipped[p] : p \in Passes})]
  /\ phase' = "done"
  /\ UNCHANGED <<dispatch_vars, job, setup_vars, worker_vars>>

Setup  == CountRecord \/ AddUp \/ PlaceRecord \/ WeighBlock \/ NextPass \/ CheckBound
Caller == Setup \/ Dispatch \/ Halve \/ Joined \/ Gather
ThreadStep(t) == TakeRange(t) \/ ScanPass(t) \/ EmitRow(t) \/ ExactRow(t) \/ EndChunk(t)

Next == Caller \/ \E t \in Threads : ThreadStep(t)

Spec == Init /\ [][Next]_vars

(* The caller runs on, TBB hands out the chunks, threads run theirs.       *)
FairSpec ==
  /\ Spec
  /\ WF_vars(Caller)
  /\ \A t \in Threads : WF_vars(ThreadStep(t))
-----------------------------------------------------------------------------
(* The definition: the records of a pair have codes at most half a window  *)
(* apart in some pass, in a block that is not over the maximum.            *)
Distance(c, d) == IF c < d THEN d - c ELSE c - d
BlockRecords(p, c) ==
  Cardinality({j \in YRows : job.y[p][j] = c}) + IF job.dedupe THEN 0 ELSE XCount(p, c)
Near(p, i, j) ==
  LET c == job.x[p][i]
      d == job.y[p][j]
  IN  /\ Missing \notin {c, d}
      /\ Distance(c, d) <= job.half
      /\ job.half = 0 => BlockRecords(p, c) <= job.maxBlock
Wanted ==
  {e \in XRows \X YRows :
     /\ job.dedupe => e[1] < e[2]
     /\ \E p \in Passes : Near(p, e[1], e[2])}

(* "one row per pair: x_index, y_index (...) and pass, the first key that  *)
(* paired them, ordered by x_index then y_index", whatever the chunks, the *)
(* interleaving and the shortcuts taken.                                   *)
ResultExact ==
  answer.kind = "pairs" =>
    LET pairs == answer.pairs
    IN  /\ {<<pairs[q][1], pairs[q][2]>> : q \in DOMAIN pairs} = Wanted
        /\ \A q \in DOMAIN pairs :
             LET i == pairs[q][1]  j == pairs[q][2]  p == pairs[q][3]
             IN  Near(p, i, j) /\ \A o \in 1 .. p - 1 : ~ Near(o, i, j)
        /\ \A q \in 1 .. Len(pairs) - 1 :
             \/ pairs[q][1] < pairs[q + 1][1]
             \/ /\ pairs[q][1] = pairs[q + 1][1]
                /\ pairs[q][2] < pairs[q + 1][2]

(* "An upper bound on the pairs this pass can produce": the call is never  *)
(* let through when an int cannot number its pairs.                        *)
BoundCovers ==
  phase \in {"check", "dispatch", "pairs"} => 2 * Cardinality(Wanted) <= bound

(* The call returns its pairs or stops. *)
PairsReturned == <>(phase = "done")
=============================================================================
