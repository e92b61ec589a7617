---------------------------- MODULE ParallelDispatch ----------------------------
(***************************************************************************)
(* dispatch_for() of src/src/parallel_dispatch.h: one call that runs a     *)
(* worker over the indices 0 .. n-1, in the caller when the work is small  *)
(* or one thread is asked for, and otherwise on RcppParallel's threads.    *)
(*                                                                         *)
(* Every kernel of the package hangs on this call: the workers write rows, *)
(* chunks and arenas with no lock, which is sound only if each index       *)
(* belongs to one thread and the call returns after the last of them. The  *)
(* kernels' modules extend this one and add what their worker does with an *)
(* index to Run.                                                           *)
(*                                                                         *)
(* Split, Claim and Cut are RcppParallel and TBB, outside src/: modelled   *)
(* from the contract dispatch_for() relies on (a range is cut into pieces, *)
(* each piece is given to one thread, at most as many threads as asked     *)
(* for when the build has TBB).                                            *)
(***************************************************************************)
EXTENDS Integers, FiniteSets

CONSTANTS
  Threads,       \* the threads of the process
  Main,          \* the calling (R) thread
  Builds         \* the builds considered: TRUE with TBB, FALSE TinyThread

ASSUME DispatchAssumption ==
  /\ Main \in Threads
  /\ Builds \subseteq BOOLEAN

VARIABLES
  stage,    \* "idle", "serial", "cutting", "parallel", "returned"
  tbb,      \* RCPP_PARALLEL_USE_TBB
  size,     \* end - begin
  cap,      \* num_threads as dispatch_for() passes it on, <= 0 for no cap
  grain,    \* grain_size as passed on
  cut,      \* TinyThread: where the next piece starts
  ranges,   \* pieces no thread has taken yet, as <<first, one past the last>>
  held,     \* by thread: what is left of its piece
  ran       \* the indices whose work is done

dispatch_vars == <<stage, tbb, size, cap, grain, cut, ranges, held, ran>>

Idle == <<0, 0>>
Busy == {t \in Threads : held[t] # Idle}
Span(r) == r[1] .. (r[2] - 1)

MaxOf(x, y) == IF x < y THEN y ELSE x
MinOf(x, y) == IF x < y THEN x ELSE y

(* fast_string_ceil_div() *)
CeilDiv(x, y) == x \div y + (IF x % y # 0 THEN 1 ELSE 0)
-----------------------------------------------------------------------------
DispatchInit ==
  /\ stage = "idle"
  /\ tbb \in Builds
  /\ size = 0
  /\ cap = 0
  /\ grain = 1
  /\ cut = 0
  /\ ranges = {}
  /\ held = [t \in Threads |-> Idle]
  /\ ran = {}

(* An empty range returns at once; small work, num_threads = 1 and a       *)
(* thread count that the number of grains brings down to 1 run in the      *)
(* caller; the rest is handed to parallelFor().                            *)
Serially(n, small, threads, g) ==
  \/ small
  \/ threads = 1
  \/ threads > 0 /\ MinOf(threads, CeilDiv(n, MaxOf(g, 1))) = 1

(* The cap and grain given to parallelFor(). *)
CapOf(n, threads, g) == IF threads > 0 THEN MinOf(threads, CeilDiv(n, MaxOf(g, 1))) ELSE threads
FaultyGrainOf(n, threads, g) == MaxOf(g, 1)   \* leaves TinyThread the kernel's grain

GrainOf(n, threads, g) ==
  IF ~ tbb /\ threads > 0
    THEN MaxOf(MaxOf(g, 1), CeilDiv(n, CapOf(n, threads, g)))
    ELSE MaxOf(g, 1)

Enter(n, small, threads, g) ==
  /\ stage = "idle"
  /\ size' = n
  /\ \/ /\ n = 0
        /\ stage' = "returned"
        /\ UNCHANGED <<cap, grain, cut, ranges, held>>
     \/ /\ n > 0
        /\ Serially(n, small, threads, g)
        /\ stage' = "serial"
        /\ held' = [held EXCEPT ![Main] = <<0, n>>]
        /\ UNCHANGED <<cap, grain, cut, ranges>>
     \/ /\ n > 0
        /\ ~ Serially(n, small, threads, g)
        /\ cap' = CapOf(n, threads, g)
        /\ grain' = GrainOf(n, threads, g)
        /\ cut' = 0
        /\ IF tbb
             THEN stage' = "parallel" /\ ranges' = {<<0, n>>}
             ELSE stage' = "cutting"  /\ ranges' = {}
        /\ UNCHANGED held
  /\ UNCHANGED <<tbb, ran>>

(* TinyThread's parallelFor() lays pieces of one size, at least the grain, *)
(* end to end and starts a thread for each.                                *)
Cut(piece) ==
  /\ stage = "cutting"
  /\ piece >= grain
  /\ cut = 0 \/ piece = grain
  /\ ranges' = ranges \cup {<<cut, MinOf(cut + piece, size)>>}
  /\ cut' = MinOf(cut + piece, size)
  /\ grain' = piece
  /\ stage' = IF cut' = size THEN "parallel" ELSE "cutting"
  /\ UNCHANGED <<tbb, size, cap, held, ran>>

FaultySplit(r) ==   \* both halves have the middle index
  /\ stage = "parallel"
  /\ tbb
  /\ r \in ranges
  /\ r[2] - r[1] > grain
  /\ LET middle == r[1] + (r[2] - r[1]) \div 2
     IN  ranges' = (ranges \ {r}) \cup {<<r[1], middle + 1>>, <<middle, r[2]>>}
  /\ UNCHANGED <<stage, tbb, size, cap, grain, cut, held, ran>>

(* TBB may halve a piece that is longer than the grain. *)
Split(r) ==
  /\ stage = "parallel"
  /\ tbb
  /\ r \in ranges
  /\ r[2] - r[1] > grain
  /\ LET middle == r[1] + (r[2] - r[1]) \div 2
     IN  ranges' = (ranges \ {r}) \cup {<<r[1], middle>>, <<middle, r[2]>>}
  /\ UNCHANGED <<stage, tbb, size, cap, grain, cut, held, ran>>

Claim(t, r) ==
  /\ stage = "parallel"
  /\ r \in ranges
  /\ t \notin Busy
  /\ tbb /\ cap > 0 => Cardinality(Busy) < cap
  /\ held' = [held EXCEPT ![t] = r]
  /\ ranges' = ranges \ {r}
  /\ UNCHANGED <<stage, tbb, size, cap, grain, cut, ran>>

FaultyRun(t) ==   \* runs the index after the last
  /\ t \in Busy
  /\ ran' = ran \cup {held[t][1]}
  /\ held' = [held EXCEPT ![t] =
                IF held[t][1] = held[t][2] THEN Idle ELSE <<held[t][1] + 1, held[t][2]>>]
  /\ UNCHANGED <<stage, tbb, size, cap, grain, cut, ranges>>

FaultyRunOn(t) ==   \* never leaves the last index
  /\ t \in Busy
  /\ ran' = ran \cup {held[t][1]}
  /\ held' = [held EXCEPT ![t] =
                IF held[t][1] + 1 = held[t][2] THEN held[t] ELSE <<held[t][1] + 1, held[t][2]>>]
  /\ UNCHANGED <<stage, tbb, size, cap, grain, cut, ranges>>

(* worker(begin, end): the thread is done with the first index of what it  *)
(* holds.                                                                  *)
Run(t) ==
  /\ t \in Busy
  /\ ran' = ran \cup {held[t][1]}
  /\ held' = [held EXCEPT ![t] =
                IF held[t][1] + 1 = held[t][2] THEN Idle ELSE <<held[t][1] + 1, held[t][2]>>]
  /\ UNCHANGED <<stage, tbb, size, cap, grain, cut, ranges>>

FaultyJoin ==   \* returns when the last piece is taken
  /\ stage \in {"serial", "parallel"}
  /\ ranges = {}
  /\ stage' = "returned"
  /\ UNCHANGED <<tbb, size, cap, grain, cut, ranges, held, ran>>

(* The call returns when the worker has returned in every thread. *)
Join ==
  /\ stage \in {"serial", "parallel"}
  /\ ranges = {}
  /\ Busy = {}
  /\ stage' = "returned"
  /\ UNCHANGED <<tbb, size, cap, grain, cut, ranges, held, ran>>
-----------------------------------------------------------------------------
DispatchTypeOK ==
  /\ stage \in {"idle", "serial", "cutting", "parallel", "returned"}
  /\ tbb \in BOOLEAN
  /\ size \in Nat
  /\ cap \in Int
  /\ grain \in Nat \ {0}
  /\ cut \in 0 .. size
  /\ ranges \subseteq (0 .. size) \X (0 .. size)
  /\ held \in [Threads -> (0 .. size) \X (0 .. size)]
  /\ \A t \in Busy : held[t][1] < held[t][2]
  /\ ran \subseteq 0 .. size - 1

(* The pieces waiting and the pieces held are disjoint, touch nothing that *)
(* has run, and with it make up the whole range from the moment it is cut: *)
(* no index is run by two threads, none twice and none is lost. This is    *)
(* what lets every worker write its rows and arenas without a lock.        *)
EachIndexOnce ==
  /\ \A r, s \in ranges : r # s => Span(r) \cap Span(s) = {}
  /\ \A t, u \in Threads : t # u => Span(held[t]) \cap Span(held[u]) = {}
  /\ \A t \in Threads : Span(held[t]) \cap ran = {}
  /\ \A r \in ranges : Span(r) \cap ran = {}
  /\ \A r \in ranges, t \in Threads : Span(r) \cap Span(held[t]) = {}
  /\ stage \in {"serial", "parallel", "returned"} =>
       ran \cup (UNION {Span(r) : r \in ranges}) \cup (UNION {Span(held[t]) : t \in Threads})
         = 0 .. size - 1

(* When the call returns every index has been run and no thread still runs *)
(* the worker, whose buffers the caller frees next.                        *)
ReturnsComplete ==
  stage = "returned" => ran = 0 .. size - 1 /\ Busy = {} /\ ranges = {}
=============================================================================
