----------------------------- MODULE ClusterPairs -----------------------------
(***************************************************************************)
(* cluster_pairs(): union-find over matched pairs, then a labelling pass.  *)
(*                                                                         *)
(* fast_cluster_pairs_impl() keeps a parent forest and a size per record.  *)
(* Both the pass over the pairs and the labelling pass walk to a root with *)
(* path halving, so even the read-only looking labelling pass rewrites the *)
(* forest it reads. One action below is one loop iteration or one          *)
(* statement of src/src/linkage_pairs.cpp:254-288.                         *)
(***************************************************************************)
EXTENDS Integers, Sequences, FiniteSets

CONSTANTS
  N,            \* number of records (the R argument n)
  InputPairs,   \* the pairs a caller may pass, 0-based
  MaxPairs      \* bound on the length of the input

Records == 0 .. N - 1

(* cluster_pairs() rejects every index below 1 or above n before the call. *)
ASSUME ClusterAssumption ==
  /\ N \in Nat
  /\ InputPairs \subseteq Records \X Records
  /\ MaxPairs \in Nat

None == -1

VARIABLES
  input,    \* the pairs, in order
  k,        \* number of pairs consumed
  pc,       \* "pairs", "findA", "findB", "link", "label", "number", "done"
  v,        \* find()'s cursor
  a,        \* find(i[k] - 1), once known
  parent,
  sizes,    \* of the trees, kept at their roots
  row,      \* the record being labelled
  label,    \* by root: its cluster number, 0 before it has one
  next,     \* the last cluster number given
  out       \* the result, 0 where nothing is written yet

vars == <<input, k, pc, v, a, parent, sizes, row, label, next, out>>

input_vars == <<input, k>>
forest     == <<parent, sizes>>
labels     == <<row, label, next, out>>
-----------------------------------------------------------------------------
Inputs == UNION {[1 .. m -> InputPairs] : m \in 0 .. MaxPairs}

Init ==
  /\ input \in Inputs
  /\ k = 0
  /\ pc = "pairs"
  /\ v = None
  /\ a = None
  /\ parent = [u \in Records |-> u]
  /\ sizes   = [u \in Records |-> 1]
  /\ row = 0
  /\ label = [u \in Records |-> 0]
  /\ next = 0
  /\ out = [u \in Records |-> 0]

IsRoot(u) == parent[u] = u

FaultyHalveStep ==   \* shortens the path and stays where it was
  /\ pc \in {"findA", "findB", "number"}
  /\ ~ IsRoot(v)
  /\ parent' = [parent EXCEPT ![v] = parent[parent[v]]]
  /\ UNCHANGED <<input_vars, pc, v, a, sizes, labels>>

(* One turn of find()'s loop: point v at its grandparent and move there.   *)
HalveStep ==
  /\ pc \in {"findA", "findB", "number"}
  /\ ~ IsRoot(v)
  /\ parent' = [parent EXCEPT ![v] = parent[parent[v]]]
  /\ v' = parent'[v]
  /\ UNCHANGED <<input_vars, pc, a, sizes, labels>>

TakePair ==
  /\ pc = "pairs"
  /\ k < Len(input)
  /\ pc' = "findA"
  /\ v' = input[k + 1][1]
  /\ UNCHANGED <<input_vars, a, forest, labels>>

FoundA ==
  /\ pc = "findA"
  /\ IsRoot(v)
  /\ a' = v
  /\ v' = input[k + 1][2]
  /\ pc' = "findB"
  /\ UNCHANGED <<input_vars, forest, labels>>

FoundB ==
  /\ pc = "findB"
  /\ IsRoot(v)
  /\ pc' = "link"
  /\ UNCHANGED <<input_vars, v, a, forest, labels>>

(* The smaller of the two trees goes under the root of the larger; on a    *)
(* tie the first stays on top.                                             *)
Upper == IF sizes[a] < sizes[v] THEN v ELSE a
Lower == IF sizes[a] < sizes[v] THEN a ELSE v

FaultyLinkRecord ==   \* hangs the second record, not its root
  /\ pc = "link"
  /\ IF a = v
       THEN UNCHANGED forest
       ELSE /\ parent' = [parent EXCEPT ![input[k + 1][2]] = a]
            /\ sizes'   = [sizes EXCEPT ![a] = sizes[a] + sizes[v]]
  /\ k' = k + 1
  /\ pc' = "pairs"
  /\ v' = None
  /\ a' = None
  /\ UNCHANGED <<input, labels>>

Link ==
  /\ pc = "link"
  /\ IF a = v
       THEN UNCHANGED forest
       ELSE /\ parent' = [parent EXCEPT ![Lower] = Upper]
            /\ sizes'   = [sizes EXCEPT ![Upper] = sizes[a] + sizes[v]]
  /\ k' = k + 1
  /\ pc' = "pairs"
  /\ v' = None
  /\ a' = None
  /\ UNCHANGED <<input, labels>>

(* The pairs are used up: label the records in order.                      *)
StartLabels ==
  /\ pc = "pairs"
  /\ k = Len(input)
  /\ pc' = "label"
  /\ UNCHANGED <<input_vars, v, a, forest, labels>>

FaultyTakeRow ==   \* one record too many
  /\ pc = "label"
  /\ row <= N
  /\ v' = row
  /\ pc' = "number"
  /\ UNCHANGED <<input_vars, a, forest, labels>>

TakeRow ==
  /\ pc = "label"
  /\ row < N
  /\ v' = row
  /\ pc' = "number"
  /\ UNCHANGED <<input_vars, a, forest, labels>>

FaultyNumberRow ==   \* labels the record where the root is meant
  /\ pc = "number"
  /\ IsRoot(v)
  /\ next'  = next + 1
  /\ label' = [label EXCEPT ![row] = next + 1]
  /\ out' = [out EXCEPT ![row] = label'[row]]
  /\ row' = row + 1
  /\ v' = None
  /\ pc' = "label"
  /\ UNCHANGED <<input_vars, a, forest>>

FaultyNumberByRoot ==   \* numbers a cluster after its root, not its first record
  /\ pc = "number"
  /\ IsRoot(v)
  /\ out' = [out EXCEPT ![row] = v + 1]
  /\ row' = row + 1
  /\ v' = None
  /\ pc' = "label"
  /\ UNCHANGED <<input_vars, a, forest, label, next>>

NumberRow ==
  /\ pc = "number"
  /\ IsRoot(v)
  /\ IF label[v] = 0
       THEN /\ next'  = next + 1
            /\ label' = [label EXCEPT ![v] = next + 1]
       ELSE UNCHANGED <<next, label>>
  /\ out' = [out EXCEPT ![row] = label'[v]]
  /\ row' = row + 1
  /\ v' = None
  /\ pc' = "label"
  /\ UNCHANGED <<input_vars, a, forest>>

Return ==
  /\ pc = "label"
  /\ row = N
  /\ pc' = "done"
  /\ UNCHANGED <<input_vars, v, a, forest, labels>>

Next ==
  \/ TakePair \/ HalveStep \/ FoundA \/ FoundB \/ Link
  \/ StartLabels \/ TakeRow \/ NumberRow \/ Return

Spec == Init /\ [][Next]_vars
-----------------------------------------------------------------------------
TypeOK ==
  /\ input \in Inputs
  /\ k \in 0 .. Len(input)
  /\ pc \in {"pairs", "findA", "findB", "link", "label", "number", "done"}
  /\ pc \in {"findA", "findB", "link"} => k < Len(input)
  /\ pc \in {"findA", "findB", "link", "number"} => v \in Records
  /\ pc \in {"findB", "link"} => a \in Records
  /\ pc = "number" => row < N
  /\ parent \in [Records -> Records]
  /\ sizes \in [Records -> Nat \ {0}]
  /\ row \in 0 .. N
  /\ label \in [Records -> Nat]
  /\ next \in Nat
  /\ out \in [Records -> Nat]

(* A set of records is closed under the first m pairs when no pair leaves  *)
(* it, and closed under the forest when no parent edge does. Two records   *)
(* are joined by a chain of pairs when every closed set with one has the   *)
(* other: connectivity with no recursion, whatever the number of records.  *)
PairClosed(m, S) == \A q \in 1 .. m : input[q][1] \in S <=> input[q][2] \in S
ForestClosed(S)  == \A u \in Records : u \in S <=> parent[u] \in S

Chained(m, u, w) ==
  \A S \in SUBSET Records : PairClosed(m, S) /\ u \in S => w \in S
SameTree(u, w) ==
  \A S \in SUBSET Records : ForestClosed(S) /\ u \in S => w \in S

(* Path halving and linking keep the forest a faithful record of the pairs *)
(* already consumed: they generate the same partition after every step,    *)
(* in the labelling pass too.                                              *)
ForestIsPartition ==
  \A S \in SUBSET Records : PairClosed(k, S) <=> ForestClosed(S)

(* A parent edge always leads to a strictly larger recorded size, so the   *)
(* forest has no cycle for find() to loop in, whatever was halved.         *)
SizesClimb == \A u \in Records : ~ IsRoot(u) => sizes[u] < sizes[parent[u]]

(* The result groups two records exactly when a chain of matched pairs     *)
(* joins them ("connected components of the match graph").                 *)
ResultIsComponents ==
  pc = "done" => \A u, w \in Records : out[u] = out[w] <=> Chained(Len(input), u, w)

(* find() always ends, and a call that has begun returns. *)
Terminates == pc # "pairs" ~> pc = "done"
-----------------------------------------------------------------------------
(* The refinement mapping: a block is a tree of the forest.                *)
TreeOf(u) == {w \in Records : SameTree(u, w)}

P == INSTANCE PartitionMerge WITH
       blocks  <- {TreeOf(u) : u \in Records},
       cluster <- out

Refines == P!PSpec
=============================================================================
