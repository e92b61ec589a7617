--------------------------- MODULE PartitionMerge ---------------------------
(***************************************************************************)
(* What cluster_pairs() promises, with no union-find in sight: the records *)
(* start in blocks of their own, every matched pair merges the two blocks  *)
(* of its records, and at the end each record is given the number of its   *)
(* block, blocks being numbered from 1 in the order of their first record. *)
(* R/linkage_pairs.R:160-197.                                              *)
(***************************************************************************)
EXTENDS Integers, FiniteSets

CONSTANT Records     \* the records, 0 .. n-1

VARIABLES
  blocks,            \* a partition of Records
  cluster            \* the numbering returned, 0 for "not numbered yet"

BlockOf(v) == CHOOSE B \in blocks : v \in B

(* The first record of the block of v, and its number among first records. *)
FirstOf(B)  == CHOOSE v \in B : \A w \in B : v <= w
NumberOf(v) == Cardinality({B \in blocks : FirstOf(B) <= FirstOf(BlockOf(v))})

PInit ==
  /\ blocks  = {{v} : v \in Records}
  /\ cluster = [v \in Records |-> 0]

Merge(v, w) ==
  /\ \A u \in Records : cluster[u] = 0
  /\ blocks' = (blocks \ {BlockOf(v), BlockOf(w)}) \cup {BlockOf(v) \cup BlockOf(w)}
  /\ UNCHANGED cluster

Number(v) ==
  /\ cluster[v] = 0
  /\ cluster' = [cluster EXCEPT ![v] = NumberOf(v)]
  /\ UNCHANGED blocks

PNext == \/ \E v, w \in Records : Merge(v, w)
         \/ \E v \in Records : Number(v)

PSpec == PInit /\ [][PNext]_<<blocks, cluster>>
=============================================================================
