-------------------------- MODULE ClusterPairsProofs --------------------------
(***************************************************************************)
(* For every number of records and every input: the forest always          *)
(* generates the partition of the pairs consumed so far, no parent edge    *)
(* can close a cycle, and the numbers returned are the connected           *)
(* components.                                                             *)
(***************************************************************************)
EXTENDS ClusterPairs, NaturalLemmas

(* Two records no closed set tells apart. *)
Together(u, w) ==
  \A S \in SUBSET Records : ForestClosed(S) => (u \in S <=> w \in S)

(* Every tree has one root: some function names it, is constant along      *)
(* parent edges and fixes the roots. (Which function is left open, so no   *)
(* recursion along the edges is needed.)                                   *)
NamesRoots(f) ==
  /\ f \in [Records -> Records]
  /\ \A u \in Records : f[parent[u]] = f[u]
  /\ \A u \in Records : IsRoot(u) => f[u] = u
RootsNamed == \E f \in [Records -> Records] : NamesRoots(f)

(* What find() and the pair being consumed have established so far. *)
CursorInv ==
  /\ pc = "findA" => Together(input[k + 1][1], v)
  /\ pc \in {"findB", "link"} =>
       /\ IsRoot(a)
       /\ Together(input[k + 1][1], a)
       /\ Together(input[k + 1][2], v)
  /\ pc = "link" => IsRoot(v)
  /\ pc = "number" => Together(row, v)

(* Labels are given to roots only, never twice, and only after the last    *)
(* pair; a written result is the label of the root of its tree.            *)
LabelInv ==
  /\ pc \in {"pairs", "findA", "findB", "link"} =>
       row = 0 /\ \A u \in Records : label[u] = 0
  /\ pc \in {"label", "number", "done"} => k = Len(input)
  /\ pc = "done" => row = N
  /\ \A u \in Records : label[u] # 0 => IsRoot(u) /\ label[u] <= next
  /\ \A u, w \in Records : label[u] = label[w] /\ label[u] # 0 => u = w
  /\ \A u \in Records : u < row =>
       \E r \in Records : IsRoot(r) /\ label[r] # 0 /\ out[u] = label[r] /\ Together(u, r)

IInv ==
  /\ TypeOK
  /\ ForestIsPartition
  /\ SizesClimb
  /\ RootsNamed
  /\ CursorInv
  /\ LabelInv
-----------------------------------------------------------------------------
(* The records are the numbers below N. *)
LEMMA RecordsRange == \A u : u \in Records <=> u \in Nat /\ u < N
BY ClusterAssumption DEF Records

(* An input is a sequence of pairs of records. *)
LEMMA InputIsSeq ==
  ASSUME input \in Inputs
  PROVE  /\ input \in Seq(InputPairs)
         /\ Len(input) \in Nat
         /\ \A q \in 1 .. Len(input) : input[q][1] \in Records /\ input[q][2] \in Records
<1>1. PICK m \in 0 .. MaxPairs : input \in [1 .. m -> InputPairs]
  BY DEF Inputs
<1>2. m \in Nat
  BY ClusterAssumption
<1>3. input \in Seq(InputPairs) /\ Len(input) = m
  BY <1>1, <1>2
<1>4. \A q \in 1 .. m : input[q] \in Records \X Records
  BY <1>1, ClusterAssumption
<1>. QED BY <1>2, <1>3, <1>4

(* Path halving at a record that is not a root changes no closed set. *)
LEMMA HalvingKeepsClosedSets ==
  ASSUME parent \in [Records -> Records],
         v \in Records, ~ IsRoot(v),
         parent' = [parent EXCEPT ![v] = parent[parent[v]]],
         NEW S \in SUBSET Records
  PROVE  ForestClosed(S)' <=> ForestClosed(S)
<1>. DEFINE p == parent[v]
<1>1. p \in Records /\ p # v /\ parent'[p] = parent[p] /\ parent'[v] = parent[p]
  BY DEF IsRoot
<1>2. ASSUME ForestClosed(S) PROVE ForestClosed(S)'
  BY <1>1, <1>2 DEF ForestClosed
<1>3. ASSUME ForestClosed(S)' PROVE ForestClosed(S)
  <2>1. v \in S <=> p \in S
    BY <1>1, <1>3 DEF ForestClosed
  <2>. QED BY <1>3, <2>1 DEF ForestClosed
<1>. QED BY <1>2, <1>3

(* Linking one root under another closes exactly the sets that were closed *)
(* and hold both roots or neither.                                         *)
LEMMA LinkingJoinsRoots ==
  ASSUME parent \in [Records -> Records],
         NEW r \in Records, NEW s \in Records, IsRoot(r),
         parent' = [parent EXCEPT ![r] = s],
         NEW S \in SUBSET Records
  PROVE  ForestClosed(S)' <=> (ForestClosed(S) /\ (r \in S <=> s \in S))
BY DEF ForestClosed, IsRoot
-----------------------------------------------------------------------------
(* The variables have their types at the start. *)
LEMMA TypeInit == Init => TypeOK
<1>. SUFFICES ASSUME Init PROVE TypeOK
  OBVIOUS
<1>. QED BY InputIsSeq, ClusterAssumption DEF Init, TypeOK, Records

(* Every step keeps the types. *)
LEMMA TypeStep ==
  ASSUME TypeOK, [Next]_vars
  PROVE  TypeOK'
<1>. USE DEF TypeOK, input_vars, forest, labels, IsRoot
<1>. input \in Inputs /\ N \in Nat
  BY ClusterAssumption
<1>0. /\ Len(input) \in Nat
      /\ \A q \in 1 .. Len(input) : input[q][1] \in Records /\ input[q][2] \in Records
  BY InputIsSeq
<1>1. CASE TakePair
  BY <1>0, <1>1 DEF TakePair
<1>2. CASE HalveStep
  BY <1>0, <1>2 DEF HalveStep
<1>3. CASE FoundA
  BY <1>0, <1>3 DEF FoundA
<1>4. CASE FoundB
  BY <1>0, <1>4 DEF FoundB
<1>5. CASE Link
  <2>1. Upper \in Records /\ Lower \in Records /\ sizes[a] + sizes[v] \in Nat \ {0}
    BY <1>5 DEF Link, Upper, Lower
  <2>2. parent' \in [Records -> Records] /\ sizes' \in [Records -> Nat \ {0}]
    <3>1. CASE a = v
      BY <1>5, <3>1 DEF Link
    <3>2. CASE a # v
      <4>1. /\ parent' = [parent EXCEPT ![Lower] = Upper]
            /\ sizes' = [sizes EXCEPT ![Upper] = sizes[a] + sizes[v]]
        BY <1>5, <3>2 DEF Link
      <4>. QED BY <2>1, <4>1
    <3>. QED BY <3>1, <3>2
  <2>3. k + 1 \in 0 .. Len(input)
    BY <1>0, <1>5 DEF Link
  <2>. QED BY <1>5, <2>2, <2>3 DEF Link
<1>6. CASE StartLabels
  BY <1>0, <1>6 DEF StartLabels
<1>7. CASE TakeRow
  <2>1. row \in Nat /\ row < N
    BY <1>7 DEF TakeRow
  <2>2. row \in Records
    BY <2>1, RecordsRange
  <2>. QED BY <1>0, <1>7, <2>1, <2>2 DEF TakeRow
<1>8. CASE NumberRow
  <2>0. row \in Nat /\ row < N /\ v \in Records
    BY <1>8 DEF NumberRow
  <2>1. row \in Records
    BY <2>0, RecordsRange
  <2>4. row + 1 \in 0 .. N
    BY <2>0, ClusterAssumption
  <2>2. label' \in [Records -> Nat] /\ next' \in Nat
    BY <1>8, <2>0, <2>1 DEF NumberRow
  <2>3. out' \in [Records -> Nat]
    BY <1>8, <2>0, <2>1, <2>2 DEF NumberRow
  <2>. QED BY <1>0, <1>8, <2>0, <2>1, <2>2, <2>3, <2>4 DEF NumberRow
<1>9. CASE Return
  BY <1>0, <1>9 DEF Return
<1>10. CASE UNCHANGED vars
  BY <1>10 DEF vars
<1>. QED BY <1>1, <1>2, <1>3, <1>4, <1>5, <1>6, <1>7, <1>8, <1>9, <1>10 DEF Next

(* Type correctness: in particular find() never leaves the records and the *)
(* pass over the pairs never reads past the input.                         *)
THEOREM TypeCorrect == Spec => []TypeOK
<1>1. TypeOK /\ [Next]_vars => TypeOK'
  BY TypeStep
<1>. QED BY TypeInit, <1>1, PTL DEF Spec
-----------------------------------------------------------------------------
(* Every step but Link leaves the partition, the roots and the two facts   *)
(* about the shape of the forest as they were.                             *)
ForestKept ==
  /\ \A S \in SUBSET Records : ForestClosed(S)' <=> ForestClosed(S)
  /\ \A u \in Records : IsRoot(u)' <=> IsRoot(u)
  /\ SizesClimb'
  /\ RootsNamed'

(* A step that leaves the forest alone keeps what is said of it. *)
LEMMA ForestUntouched ==
  ASSUME SizesClimb, RootsNamed, UNCHANGED forest
  PROVE  ForestKept
BY DEF forest, ForestKept, ForestClosed, IsRoot, SizesClimb, RootsNamed, NamesRoots

(* A halving of find() keeps the sizes climbing, the roots named and every tree together. *)
LEMMA HalvingKeepsForest ==
  ASSUME TypeOK, SizesClimb, RootsNamed, HalveStep
  PROVE  ForestKept
<1>. DEFINE p == parent[v]
            g == parent[p]
<1>1. /\ parent \in [Records -> Records] /\ sizes \in [Records -> Nat \ {0}]
      /\ v \in Records /\ ~ IsRoot(v)
      /\ parent' = [parent EXCEPT ![v] = parent[parent[v]]] /\ sizes' = sizes
  BY DEF TypeOK, HalveStep
<1>2. p \in Records /\ g \in Records /\ p # v
  BY <1>1 DEF IsRoot
<1>3. sizes[v] < sizes[p] /\ (g # p => sizes[p] < sizes[g])
  BY <1>1, <1>2 DEF SizesClimb, IsRoot
<1>4. sizes[v] \in Nat /\ sizes[p] \in Nat /\ sizes[g] \in Nat
  BY <1>1, <1>2
<1>5. sizes[v] < sizes[g]
  BY <1>3, <1>4
<1>6. g # v
  BY <1>4, <1>5
<1>7. parent'[v] = g /\ \A u \in Records : u # v => parent'[u] = parent[u]
  BY <1>1, <1>2
<1>8. \A S \in SUBSET Records : ForestClosed(S)' <=> ForestClosed(S)
  BY <1>1, HalvingKeepsClosedSets
<1>9. \A u \in Records : IsRoot(u)' <=> IsRoot(u)
  BY <1>1, <1>6, <1>7 DEF IsRoot
<1>10. SizesClimb'
  BY <1>1, <1>5, <1>7 DEF SizesClimb, IsRoot
<1>11. RootsNamed'
  <2>1. PICK f \in [Records -> Records] : NamesRoots(f)
    BY DEF RootsNamed
  <2>2. f[g] = f[v]
    BY <1>1, <1>2, <2>1 DEF NamesRoots
  <2>3. NamesRoots(f)'
    BY <1>7, <1>9, <2>1, <2>2 DEF NamesRoots
  <2>. QED BY <2>1, <2>3 DEF RootsNamed
<1>. QED BY <1>8, <1>9, <1>10, <1>11 DEF ForestKept

(* Link puts the root with the smaller size under the other, which then    *)
(* has the larger size of the two, and both under one name.                *)
LEMMA LinkKeepsShape ==
  ASSUME TypeOK, SizesClimb, RootsNamed, CursorInv, Link
  PROVE  SizesClimb' /\ RootsNamed'
<1>1. /\ parent \in [Records -> Records] /\ sizes \in [Records -> Nat \ {0}]
      /\ v \in Records /\ a \in Records /\ IsRoot(a) /\ IsRoot(v)
  BY DEF TypeOK, Link, CursorInv
<1>2. CASE a = v
  <2>1. UNCHANGED forest
    BY <1>2 DEF Link
  <2>. QED BY <2>1, ForestUntouched DEF ForestKept
<1>3. CASE a # v
  <2>1. /\ parent' = [parent EXCEPT ![Lower] = Upper]
        /\ sizes' = [sizes EXCEPT ![Upper] = sizes[a] + sizes[v]]
    BY <1>3 DEF Link
  <2>2. /\ Upper \in Records /\ Lower \in Records /\ Upper # Lower
        /\ IsRoot(Upper) /\ IsRoot(Lower)
        /\ sizes[a] + sizes[v] = sizes[Upper] + sizes[Lower]
    BY <1>1, <1>3 DEF Upper, Lower
  <2>3. /\ parent'[Lower] = Upper /\ sizes'[Upper] = sizes[Upper] + sizes[Lower]
        /\ \A u \in Records : u # Lower => parent'[u] = parent[u]
        /\ \A u \in Records : u # Upper => sizes'[u] = sizes[u]
        /\ \A u \in Records : sizes[u] \in Nat \ {0}
    BY <1>1, <2>1, <2>2
  <2>4. SizesClimb'
    <3>. SUFFICES ASSUME NEW u \in Records, parent'[u] # u
                  PROVE  sizes'[u] < sizes'[parent'[u]]
      BY DEF SizesClimb, IsRoot
    <3>1. CASE u = Lower
      <4>1. sizes'[Lower] = sizes[Lower]
        BY <2>2, <2>3
      <4>2. sizes[Lower] < sizes[Upper] + sizes[Lower]
        BY <2>2, <2>3
      <4>. QED BY <2>3, <3>1, <4>1, <4>2
    <3>2. CASE u # Lower
      <4>1. parent'[u] = parent[u] /\ parent[u] \in Records /\ ~ IsRoot(u) /\ u # Upper
        BY <1>1, <2>2, <2>3, <3>2 DEF IsRoot
      <4>2. sizes[u] < sizes[parent[u]] /\ sizes'[u] = sizes[u]
        BY <2>3, <4>1 DEF SizesClimb
      <4>3. sizes'[parent[u]] >= sizes[parent[u]]
        BY <2>2, <2>3, <4>1
      <4>4. sizes'[parent[u]] \in Nat /\ sizes[parent[u]] \in Nat /\ sizes[u] \in Nat
        BY <2>2, <2>3, <4>1
      <4>. QED BY <4>1, <4>2, <4>3, <4>4
    <3>. QED BY <3>1, <3>2
  <2>5. RootsNamed'
    <3>1. PICK f \in [Records -> Records] : NamesRoots(f)
      BY DEF RootsNamed
    <3>. DEFINE h == [u \in Records |-> IF f[u] = Lower THEN Upper ELSE f[u]]
    <3>2. h \in [Records -> Records]
      BY <2>2, <3>1
    <3>3. f[Lower] = Lower /\ f[Upper] = Upper
      BY <2>2, <3>1 DEF NamesRoots
    <3>4. \A u \in Records : parent[u] \in Records /\ f[parent[u]] = f[u]
      BY <1>1, <3>1 DEF NamesRoots
    <3>5. \A u \in Records : h[parent'[u]] = h[u]
      <4>. SUFFICES ASSUME NEW u \in Records PROVE h[parent'[u]] = h[u]
        OBVIOUS
      <4>1. CASE u = Lower
        BY <2>2, <2>3, <3>3, <4>1
      <4>2. CASE u # Lower
        BY <2>3, <3>4, <4>2
      <4>. QED BY <4>1, <4>2
    <3>6. \A u \in Records : parent'[u] = u => h[u] = u
      <4>. SUFFICES ASSUME NEW u \in Records, parent'[u] = u PROVE h[u] = u
        OBVIOUS
      <4>1. u # Lower /\ parent[u] = u
        BY <2>2, <2>3
      <4>2. f[u] = u
        BY <3>1, <4>1 DEF NamesRoots, IsRoot
      <4>. QED BY <4>1, <4>2
    <3>7. PICK renamed \in [Records -> Records] : renamed = h
      BY <3>2
    <3>8. NamesRoots(renamed)'
      BY <3>5, <3>6, <3>7 DEF NamesRoots, IsRoot
    <3>. QED BY <3>8 DEF RootsNamed
  <2>. QED BY <2>4, <2>5
<1>. QED BY <1>2, <1>3
-----------------------------------------------------------------------------
(* The same records stay together across a step that moves no root. *)
LEMMA TogetherKept ==
  ASSUME ForestKept, NEW u, NEW w, Together(u, w)
  PROVE  Together(u, w)'
BY DEF ForestKept, Together

(* Who is in a record's tree is in its parent's. *)
LEMMA TogetherAlong ==
  ASSUME TypeOK, NEW u \in Records, NEW w, Together(w, u)
  PROVE  Together(w, parent[u])
BY DEF Together, TypeOK, ForestClosed

(* Consuming a pair closes over it exactly the sets the linked forest is   *)
(* closed over.                                                            *)
LEMMA LinkKeepsPartition ==
  ASSUME TypeOK, CursorInv, ForestIsPartition, Link
  PROVE  ForestIsPartition'
<1>1. /\ parent \in [Records -> Records]
      /\ v \in Records /\ a \in Records /\ IsRoot(a) /\ IsRoot(v)
      /\ k \in Nat /\ k' = k + 1 /\ input' = input
      /\ Together(input[k + 1][1], a) /\ Together(input[k + 1][2], v)
  <2>1. Len(input) \in Nat
    BY InputIsSeq DEF TypeOK
  <2>. QED BY <2>1 DEF TypeOK, Link, CursorInv
<1>. SUFFICES ASSUME NEW S \in SUBSET Records
              PROVE  PairClosed(k, S)' <=> ForestClosed(S)'
  BY DEF ForestIsPartition
<1>2. PairClosed(k, S)' <=>
        PairClosed(k, S) /\ (input[k + 1][1] \in S <=> input[k + 1][2] \in S)
  <2>1. 1 .. k + 1 = (1 .. k) \cup {k + 1}
    BY <1>1
  <2>. QED BY <1>1, <2>1 DEF PairClosed
<1>3. PairClosed(k, S) <=> ForestClosed(S)
  BY DEF ForestIsPartition
<1>4. ForestClosed(S)' <=> ForestClosed(S) /\ (a \in S <=> v \in S)
  <2>1. CASE a = v
    BY <2>1 DEF Link, forest, ForestClosed
  <2>2. CASE a # v
    <3>1. parent' = [parent EXCEPT ![Lower] = Upper]
      BY <2>2 DEF Link
    <3>2. Upper \in Records /\ Lower \in Records /\ IsRoot(Lower) /\ {Upper, Lower} = {a, v}
      BY <1>1 DEF Upper, Lower
    <3>3. ForestClosed(S)' <=> ForestClosed(S) /\ (Lower \in S <=> Upper \in S)
      BY <1>1, <3>1, <3>2, LinkingJoinsRoots
    <3>. QED BY <3>2, <3>3
  <2>. QED BY <2>1, <2>2
<1>. QED BY <1>1, <1>2, <1>3, <1>4 DEF Together
(* The invariant holds before the first pair. *)
LEMMA InvInit == Init => IInv
<1>. SUFFICES ASSUME Init PROVE IInv
  OBVIOUS
<1>1. TypeOK
  BY TypeInit
<1>2. ForestIsPartition
  BY DEF Init, ForestIsPartition, PairClosed, ForestClosed
<1>3. SizesClimb
  BY DEF Init, SizesClimb, IsRoot
<1>4. RootsNamed
  <2>. DEFINE f == [u \in Records |-> u]
  <2>1. f \in [Records -> Records] /\ NamesRoots(f)
    BY DEF Init, NamesRoots, IsRoot
  <2>. QED BY <2>1 DEF RootsNamed
<1>5. CursorInv
  BY DEF Init, CursorInv
<1>6. LabelInv
  BY RecordsRange DEF Init, LabelInv
<1>. QED BY <1>1, <1>2, <1>3, <1>4, <1>5, <1>6 DEF IInv

(* Every step but Link moves no root and consumes no pair. *)
LEMMA ForestStep ==
  ASSUME IInv, [Next]_vars, ~ Link
  PROVE  ForestKept /\ ForestIsPartition'
<1>1. ForestKept /\ UNCHANGED input_vars
  <2>1. CASE HalveStep
    BY <2>1, HalvingKeepsForest DEF IInv, HalveStep
  <2>2. CASE UNCHANGED forest /\ UNCHANGED input_vars
    BY <2>2, ForestUntouched DEF IInv
  <2>. QED BY <2>1, <2>2
       DEF Next, vars, forest, input_vars, TakePair, FoundA, FoundB, StartLabels, TakeRow, NumberRow, Return
<1>. QED BY <1>1 DEF ForestKept, IInv, ForestIsPartition, PairClosed, input_vars

(* Every step keeps what find() knows about the pair in hand. *)
LEMMA CursorStep ==
  ASSUME IInv, [Next]_vars
  PROVE  CursorInv'
<1>. USE DEF IInv, CursorInv, input_vars, labels, forest
<1>0. \A u : Together(u, u)
  BY DEF Together
<1>1. CASE TakePair
  <2>1. pc' = "findA" /\ input' = input /\ k' = k /\ v' = input[k + 1][1]
    BY <1>1 DEF TakePair
  <2>2. Together(input[k + 1][1], v)'
    BY <2>1 DEF Together
  <2>. QED BY <2>1, <2>2
<1>2. CASE HalveStep
  <2>1. /\ pc' = pc /\ input' = input /\ k' = k /\ a' = a /\ row' = row
        /\ v' = parent[parent[v]] /\ pc \in {"findA", "findB", "number"}
        /\ v \in Records /\ parent \in [Records -> Records]
    BY <1>2 DEF HalveStep, TypeOK
  <2>2. ForestKept
    BY <1>2, HalvingKeepsForest
  <2>3. \A w : Together(w, v) => (Together(w, v))'
    <3>. SUFFICES ASSUME NEW w, Together(w, v) PROVE (Together(w, v))'
      OBVIOUS
    <3>1. Together(w, parent[parent[v]])
      BY <2>1, TogetherAlong
    <3>. QED BY <2>1, <2>2, <3>1, TogetherKept DEF Together, ForestKept
  <2>4. pc = "findB" => a \in Records
    BY DEF TypeOK
  <2>. QED BY <2>1, <2>2, <2>3, <2>4, TogetherKept DEF ForestKept, Together
<1>3. CASE FoundA
  <2>1. /\ pc' = "findB" /\ input' = input /\ k' = k /\ a' = v
        /\ v' = input[k + 1][2] /\ IsRoot(v) /\ Together(input[k + 1][1], v)
    BY <1>3 DEF FoundA
  <2>2. parent' = parent
    BY <1>3 DEF FoundA
  <2>. QED BY <2>1, <2>2 DEF Together, ForestClosed, IsRoot
<1>4. CASE FoundB
  BY <1>4 DEF FoundB, Together, ForestClosed, IsRoot
<1>5. CASE Link
  BY <1>5 DEF Link
<1>6. CASE StartLabels
  BY <1>6 DEF StartLabels
<1>7. CASE TakeRow
  BY <1>7 DEF TakeRow, Together
<1>8. CASE NumberRow
  BY <1>8 DEF NumberRow
<1>9. CASE Return
  BY <1>9 DEF Return
<1>10. CASE UNCHANGED vars
  BY <1>10 DEF vars, Together, ForestClosed, IsRoot
<1>. QED BY <1>1, <1>2, <1>3, <1>4, <1>5, <1>6, <1>7, <1>8, <1>9, <1>10 DEF Next

(* In the passes over the pairs nothing is labelled; afterwards the only   *)
(* step that moves the forest keeps every root and every tree.             *)
LEMMA LabelStep ==
  ASSUME IInv, [Next]_vars
  PROVE  LabelInv'
<1>. USE DEF IInv, LabelInv, input_vars, labels
<1>0. \A u : u \in Records <=> u \in Nat /\ u < N
  BY RecordsRange
<1>1. CASE TakePair \/ FoundA \/ FoundB
  <2>1. /\ row' = 0 /\ \A u \in Records : label'[u] = 0
        /\ pc' \notin {"label", "number", "done"}
    BY <1>1 DEF TakePair, FoundA, FoundB
  <2>. QED BY <1>0, <2>1
<1>2. CASE HalveStep
  <2>1. ForestKept
    BY <1>2, HalvingKeepsForest
  <2>. QED BY <1>2, <2>1, TogetherKept DEF HalveStep, ForestKept
<1>3. CASE Link
  <2>1. row' = 0 /\ pc' = "pairs" /\ \A u \in Records : label'[u] = 0
    BY <1>3 DEF Link
  <2>. QED BY <1>0, <2>1
<1>4. CASE StartLabels
  <2>1. /\ row' = 0 /\ (\A u \in Records : label'[u] = 0) /\ pc' = "label"
        /\ k' = Len(input')
    BY <1>4 DEF StartLabels
  <2>. QED BY <1>0, <2>1
<1>5. CASE TakeRow \/ Return \/ UNCHANGED vars
  <2>1. /\ UNCHANGED <<parent, row, label, next, out, k, input>>
        /\ pc' = "done" => row = N
        /\ pc' \in {"pairs", "findA", "findB", "link"} => pc' = pc
        /\ pc' \in {"label", "number", "done"} => pc \in {"label", "number", "done"}
    BY <1>5 DEF TakeRow, Return, forest, vars, TypeOK
  <2>2. \A u, w : Together(u, w) => Together(u, w)'
    BY <2>1 DEF Together, ForestClosed
  <2>3. \A u : IsRoot(u) => IsRoot(u)'
    BY <2>1 DEF IsRoot
  <2>4. /\ pc' \in {"pairs", "findA", "findB", "link"} =>
             row' = 0 /\ \A u \in Records : label'[u] = 0
        /\ pc' \in {"label", "number", "done"} => k' = Len(input')
    BY <2>1
  <2>5. /\ \A u \in Records : label'[u] # 0 => IsRoot(u)' /\ label'[u] <= next'
        /\ \A u, w \in Records : label'[u] = label'[w] /\ label'[u] # 0 => u = w
    BY <2>1, <2>3
  <2>6. ASSUME NEW u \in Records, u < row'
        PROVE  \E r \in Records : IsRoot(r)' /\ label'[r] # 0 /\ out'[u] = label'[r] /\ Together(u, r)'
    BY <2>1, <2>2, <2>3, <2>6
  <2>. QED BY <2>1, <2>4, <2>5, <2>6
<1>6. CASE NumberRow
  <2>1. /\ v \in Records /\ IsRoot(v) /\ Together(row, v) /\ row \in Nat /\ row < N
        /\ next \in Nat /\ label \in [Records -> Nat] /\ out \in [Records -> Nat]
        /\ UNCHANGED <<parent, k, input>>
        /\ pc' = "label" /\ row' = row + 1 /\ k = Len(input)
        /\ out' = [out EXCEPT ![row] = label'[v]]
    BY <1>6 DEF NumberRow, forest, TypeOK, CursorInv
  <2>2. /\ label' \in [Records -> Nat] /\ label'[v] # 0 /\ next' \in Nat
        /\ \A u \in Records : u # v => label'[u] = label[u]
        /\ \A u \in Records : label'[u] # 0 => IsRoot(u) /\ label'[u] <= next'
        /\ \A u, w \in Records : label'[u] = label'[w] /\ label'[u] # 0 => u = w
        /\ label[v] # 0 => label'[v] = label[v]
    <3>1. CASE label[v] = 0
      <4>1. next' = next + 1 /\ label' = [label EXCEPT ![v] = next + 1]
        BY <1>6, <3>1 DEF NumberRow
      <4>2. /\ label'[v] = next + 1 /\ label' \in [Records -> Nat]
            /\ \A u \in Records : u # v => label'[u] = label[u]
        BY <2>1, <4>1
      <4>3. \A u \in Records : label[u] # 0 => label[u] \in Nat /\ label[u] < next + 1
        BY <2>1
      <4>4. \A u \in Records : label'[u] # 0 => IsRoot(u) /\ label'[u] <= next'
        BY <2>1, <4>1, <4>2, <4>3
      <4>5. \A u, w \in Records : label'[u] = label'[w] /\ label'[u] # 0 => u = w
        BY <2>1, <4>2, <4>3
      <4>. QED BY <2>1, <3>1, <4>1, <4>2, <4>4, <4>5
    <3>2. CASE label[v] # 0
      <4>1. next' = next /\ label' = label
        BY <1>6, <3>2 DEF NumberRow
      <4>. QED BY <2>1, <3>2, <4>1
    <3>. QED BY <3>1, <3>2
  <2>3. \A u, w : (Together(u, w) => Together(u, w)') /\ (IsRoot(u) => IsRoot(u)')
    BY <2>1 DEF Together, ForestClosed, IsRoot
  <2>4. ASSUME NEW u \in Records, u < row'
        PROVE  \E r \in Records : IsRoot(r) /\ label'[r] # 0 /\ out'[u] = label'[r] /\ Together(u, r)
    <3>1. CASE u = row
      BY <2>1, <2>2, <3>1
    <3>2. CASE u # row
      <4>1. u < row /\ out'[u] = out[u]
        BY <1>0, <2>1, <2>4, <3>2
      <4>2. PICK r \in Records : IsRoot(r) /\ label[r] # 0 /\ out[u] = label[r] /\ Together(u, r)
        BY <4>1
      <4>3. label'[r] = label[r]
        BY <2>2, <4>2
      <4>. QED BY <4>1, <4>2, <4>3
    <3>. QED BY <3>1, <3>2
  <2>. QED BY <2>1, <2>2, <2>3, <2>4
<1>. QED BY <1>1, <1>2, <1>3, <1>4, <1>5, <1>6 DEF Next

(* The facts above, together, hold in every reachable state. *)
THEOREM Invariance == Spec => []IInv
<1>1. IInv /\ [Next]_vars => IInv'
  <2>. SUFFICES ASSUME IInv, [Next]_vars PROVE IInv'
    OBVIOUS
  <2>1. ForestIsPartition' /\ SizesClimb' /\ RootsNamed'
    <3>1. CASE Link
      BY <3>1, LinkKeepsShape, LinkKeepsPartition DEF IInv
    <3>2. CASE ~ Link
      BY <3>2, ForestStep DEF ForestKept
    <3>. QED BY <3>1, <3>2
  <2>. QED BY <2>1, TypeStep, CursorStep, LabelStep DEF IInv
<1>. QED BY InvInit, <1>1, PTL DEF Spec

(* For any number of records and any matched pairs, path halving and       *)
(* linking keep the forest a faithful record of the pairs consumed.        *)
THEOREM PartitionKept == Spec => []ForestIsPartition
BY Invariance, PTL DEF IInv

(* The numbers cluster_pairs() returns are the connected components of the *)
(* match graph: equal exactly when a chain of pairs joins the records.     *)
THEOREM ComponentsReturned == Spec => []ResultIsComponents
<1>1. IInv => ResultIsComponents
  <2>. SUFFICES ASSUME IInv, pc = "done", NEW u \in Records, NEW w \in Records
                PROVE  out[u] = out[w] <=> Chained(Len(input), u, w)
    BY DEF ResultIsComponents
  <2>1. row = N /\ k = Len(input)
    BY DEF IInv, LabelInv
  <2>2. PICK r \in Records : IsRoot(r) /\ label[r] # 0 /\ out[u] = label[r] /\ Together(u, r)
    BY <2>1, RecordsRange DEF IInv, LabelInv
  <2>3. PICK s \in Records : IsRoot(s) /\ label[s] # 0 /\ out[w] = label[s] /\ Together(w, s)
    BY <2>1, RecordsRange DEF IInv, LabelInv
  <2>4. \A S \in SUBSET Records : PairClosed(Len(input), S) <=> ForestClosed(S)
    BY <2>1 DEF IInv, ForestIsPartition
  <2>5. ASSUME out[u] = out[w] PROVE Chained(Len(input), u, w)
    <3>1. r = s
      BY <2>2, <2>3, <2>5 DEF IInv, LabelInv
    <3>. QED BY <2>2, <2>3, <2>4, <3>1 DEF Together, Chained
  <2>6. ASSUME Chained(Len(input), u, w) PROVE out[u] = out[w]
    <3>1. PICK f \in [Records -> Records] : NamesRoots(f)
      BY DEF IInv, RootsNamed
    <3>. DEFINE tree == {x \in Records : f[x] = r}
    <3>2. tree \in SUBSET Records /\ ForestClosed(tree)
      BY <3>1 DEF NamesRoots, ForestClosed, IInv, TypeOK
    <3>3. r \in tree
      BY <2>2, <3>1 DEF NamesRoots
    <3>4. u \in tree
      BY <2>2, <3>2, <3>3 DEF Together
    <3>5. w \in tree
      BY <2>4, <2>6, <3>2, <3>4 DEF Chained
    <3>6. s \in tree
      BY <2>3, <3>2, <3>5 DEF Together
    <3>7. f[s] = r /\ f[s] = s
      BY <2>3, <3>1, <3>6 DEF NamesRoots
    <3>. QED BY <2>2, <2>3, <3>7
  <2>. QED BY <2>5, <2>6
<1>. QED BY Invariance, <1>1, PTL
-----------------------------------------------------------------------------
(* The blocks of the abstract specification are the trees of the forest,   *)
(* and closed sets say all there is to know of those.                      *)
Trees == {TreeOf(u) : u \in Records}

TreesAreClasses ==
  /\ \A u \in Records : /\ TreeOf(u) \in SUBSET Records
                        /\ u \in TreeOf(u)
                        /\ ForestClosed(TreeOf(u))
  /\ \A u, w \in Records : w \in TreeOf(u) <=> Together(u, w)
  /\ \A u, w \in Records : w \in TreeOf(u) => TreeOf(w) = TreeOf(u)

(* Trees are classes: a tree is closed, and it is the tree of each of its records. *)
LEMMA TreeShape == parent \in [Records -> Records] => TreesAreClasses
<1> SUFFICES ASSUME parent \in [Records -> Records] PROVE TreesAreClasses
  OBVIOUS
<1>1. \A u, w \in Records : SameTree(u, w) <=> Together(u, w)
  <2> SUFFICES ASSUME NEW u \in Records, NEW w \in Records, SameTree(u, w)
               PROVE  Together(u, w)
    BY DEF SameTree, Together
  <2>1. ASSUME NEW S \in SUBSET Records, ForestClosed(S), w \in S
        PROVE  u \in S
    <3>1. ForestClosed(Records \ S)
      BY <2>1 DEF ForestClosed
    <3> QED BY <2>1, <3>1 DEF SameTree
  <2> QED BY <2>1 DEF SameTree, Together
<1>2. \A u, w \in Records : w \in TreeOf(u) <=> Together(u, w)
  BY <1>1 DEF TreeOf
<1>3. \A u \in Records : TreeOf(u) \in SUBSET Records /\ u \in TreeOf(u)
  BY DEF TreeOf, SameTree
<1>4. ASSUME NEW u \in Records
      PROVE  ForestClosed(TreeOf(u))
  <2>1. \A x \in Records : Together(u, x) <=> Together(u, parent[x])
    BY DEF Together, ForestClosed
  <2> QED BY <1>2, <2>1 DEF ForestClosed
<1>5. ASSUME NEW u \in Records, NEW w \in Records, w \in TreeOf(u)
      PROVE  TreeOf(w) = TreeOf(u)
  <2>1. Together(u, w)
    BY <1>2, <1>5
  <2>2. \A x \in Records : Together(w, x) <=> Together(u, x)
    BY <2>1 DEF Together
  <2>3. \A x \in Records : x \in TreeOf(w) <=> x \in TreeOf(u)
    BY <1>2, <2>2
  <2> QED BY <1>3, <2>3
<1> QED BY <1>2, <1>3, <1>4, <1>5 DEF TreesAreClasses

(* The same in the next state. *)
LEMMA TreeShapeNext == (parent \in [Records -> Records] => TreesAreClasses)'
BY TreeShape, PTL

(* A block of the abstract partition is a tree of the forest. *)
LEMMA BlockIsTree ==
  ASSUME parent \in [Records -> Records], NEW u \in Records
  PROVE  P!BlockOf(u) = TreeOf(u)
<1>1. TreeOf(u) \in Trees /\ u \in TreeOf(u)
  BY TreeShape DEF Trees, TreesAreClasses
<1>2. ASSUME NEW B \in Trees, u \in B
      PROVE  B = TreeOf(u)
  <2>1. PICK w \in Records : B = TreeOf(w)
    BY DEF Trees
  <2> QED BY <1>2, <2>1, TreeShape DEF TreesAreClasses
<1>3. P!BlockOf(u) = CHOOSE B \in Trees : u \in B
  BY DEF P!BlockOf, Trees
<1> QED BY <1>1, <1>2, <1>3

(* A block that is not empty has a least record. *)
LEMMA FirstRecord ==
  ASSUME NEW B \in SUBSET Records, B # {}
  PROVE  P!FirstOf(B) \in B /\ \A w \in B : P!FirstOf(B) <= w
<1>1. B \in SUBSET Nat
  BY RecordsRange
<1>2. \E x \in B : \A y \in B : x <= y
  BY <1>1, LeastNatural
<1> QED BY <1>2 DEF P!FirstOf

(* Closed sets that stay closed only when they have both or neither of two *)
(* records: the trees of the two merge and the others stay.                *)
LEMMA JoiningMergesTrees ==
  ASSUME NEW x \in Records, NEW y \in Records,
         parent \in [Records -> Records], parent' \in [Records -> Records],
         \A S \in SUBSET Records : ForestClosed(S)' <=> ForestClosed(S) /\ (x \in S <=> y \in S)
  PROVE  Trees' = (Trees \ {TreeOf(x), TreeOf(y)}) \cup {TreeOf(x) \cup TreeOf(y)}
<1>1. TreesAreClasses
  BY TreeShape
<1>2. TreesAreClasses'
  BY TreeShapeNext
<1>3. PICK both \in SUBSET Records : both = TreeOf(x) \cup TreeOf(y)
  BY <1>1 DEF TreesAreClasses
<1>4. x \in both /\ y \in both /\ ForestClosed(both)'
  <2>1. x \in both /\ y \in both
    BY <1>1, <1>3 DEF TreesAreClasses
  <2>2. ForestClosed(TreeOf(x)) /\ ForestClosed(TreeOf(y))
    BY <1>1 DEF TreesAreClasses
  <2>3. ForestClosed(both)
    BY <1>3, <2>2 DEF ForestClosed
  <2> QED BY <2>1, <2>3
<1>5. \A u, w \in Records : Together(u, w) => Together(u, w)'
  BY DEF Together
<1>6. Together(x, y)'
  BY DEF Together
<1>7. ASSUME NEW u \in Records, u \in both
      PROVE  TreeOf(u)' = both
  <2>1. ASSUME NEW w \in Records, w \in TreeOf(u)'
        PROVE  w \in both
    <3>1. Together(u, w)'
      BY <1>2, <2>1 DEF TreesAreClasses
    <3> QED BY <1>4, <1>7, <3>1 DEF Together
  <2>2. \A w \in Records : w \in both => Together(x, w) \/ Together(y, w)
    BY <1>1, <1>3 DEF TreesAreClasses
  <2>3. \A w \in Records : w \in both => Together(x, w)' \/ Together(y, w)'
    BY <1>5, <2>2
  <2>4. ASSUME NEW w \in Records, w \in both
        PROVE  w \in TreeOf(u)'
    <3>1. Together(u, w)'
      BY <1>6, <1>7, <2>3, <2>4 DEF Together
    <3> QED BY <1>2, <3>1 DEF TreesAreClasses
  <2>5. TreeOf(u)' \in SUBSET Records
    BY <1>2 DEF TreesAreClasses
  <2> QED BY <1>3, <2>1, <2>4, <2>5
<1>8. ASSUME NEW u \in Records, u \notin both
      PROVE  TreeOf(u)' = TreeOf(u)
  <2>1. PICK T \in SUBSET Records : T = TreeOf(u)
    BY <1>1 DEF TreesAreClasses
  <2>2. x \notin T /\ y \notin T
    <3>1. ~ Together(x, u) /\ ~ Together(y, u)
      BY <1>1, <1>3, <1>8 DEF TreesAreClasses
    <3>2. ~ Together(u, x) /\ ~ Together(u, y)
      BY <3>1 DEF Together
    <3> QED BY <1>1, <2>1, <3>2 DEF TreesAreClasses
  <2>3. u \in T /\ ForestClosed(T)
    BY <1>1, <2>1 DEF TreesAreClasses
  <2>4. ForestClosed(T)'
    BY <2>2, <2>3
  <2>5. \A w \in Records : Together(u, w)' => w \in T
    BY <2>3, <2>4 DEF Together
  <2>6. \A w \in Records : w \in T => Together(u, w)'
    BY <1>1, <1>5, <2>1 DEF TreesAreClasses
  <2>7. \A w \in Records : w \in TreeOf(u)' <=> w \in T
    BY <1>2, <2>5, <2>6 DEF TreesAreClasses
  <2>8. TreeOf(u)' \in SUBSET Records
    BY <1>2 DEF TreesAreClasses
  <2> QED BY <2>1, <2>7, <2>8
<1>9. \A u \in Records : u \in both <=> TreeOf(u) \in {TreeOf(x), TreeOf(y)}
  BY <1>1, <1>3 DEF TreesAreClasses
<1>10. Trees' = {TreeOf(u)' : u \in Records}
  BY DEF Trees
<1>11. ASSUME NEW B \in Trees'
       PROVE  B \in (Trees \ {TreeOf(x), TreeOf(y)}) \cup {both}
  <2>1. PICK u \in Records : B = TreeOf(u)'
    BY <1>10
  <2>2. CASE u \in both
    BY <1>7, <2>1, <2>2
  <2>3. CASE u \notin both
    BY <1>8, <1>9, <2>1, <2>3 DEF Trees
  <2> QED BY <2>2, <2>3
<1>12. both \in Trees'
  BY <1>4, <1>7, <1>10
<1>13. ASSUME NEW B \in Trees, B \notin {TreeOf(x), TreeOf(y)}
       PROVE  B \in Trees'
  <2>1. PICK u \in Records : B = TreeOf(u)
    BY DEF Trees
  <2>2. TreeOf(u)' = B
    BY <1>8, <1>9, <1>13, <2>1
  <2> QED BY <1>10, <2>2
<1> QED BY <1>3, <1>11, <1>12, <1>13

(* Linking two roots merges their trees.                                   *)
LEMMA LinkMergesTrees ==
  ASSUME TypeOK, TypeOK', CursorInv, Link, a # v
  PROVE  Trees' = (Trees \ {TreeOf(a), TreeOf(v)}) \cup {TreeOf(a) \cup TreeOf(v)}
<1>1. /\ parent \in [Records -> Records] /\ parent' \in [Records -> Records]
      /\ a \in Records /\ v \in Records /\ IsRoot(a) /\ IsRoot(v)
  BY DEF TypeOK, Link, CursorInv
<1>2. PICK x \in Records : x = a
  BY <1>1
<1>3. PICK y \in Records : y = v
  BY <1>1
<1>4. ASSUME NEW S \in SUBSET Records
      PROVE  ForestClosed(S)' <=> ForestClosed(S) /\ (x \in S <=> y \in S)
  <2>1. parent' = [parent EXCEPT ![Lower] = Upper]
    BY DEF Link
  <2>2. Upper \in Records /\ Lower \in Records /\ IsRoot(Lower) /\ {Upper, Lower} = {x, y}
    BY <1>1, <1>2, <1>3 DEF Upper, Lower
  <2>3. ForestClosed(S)' <=> ForestClosed(S) /\ (Lower \in S <=> Upper \in S)
    BY <1>1, <2>1, <2>2, LinkingJoinsRoots
  <2> QED BY <2>2, <2>3
<1>5. Trees' = (Trees \ {TreeOf(x), TreeOf(y)}) \cup {TreeOf(x) \cup TreeOf(y)}
  BY <1>1, <1>4, JoiningMergesTrees
<1>6. TreeOf(x) = TreeOf(a) /\ TreeOf(y) = TreeOf(v)
  BY <1>2, <1>3
<1> QED BY <1>5, <1>6
-----------------------------------------------------------------------------
(* Numbers are given in the order of first records: the last one counts    *)
(* the trees begun among the rows passed, and a root's label the trees     *)
(* begun up to its own.                                                    *)
Begun(m) == {B \in Trees : P!FirstOf(B) < m}

NumberInv ==
  /\ \A u \in Records : u >= row => out[u] = 0
  /\ next = Cardinality(Begun(row))
  /\ \A r \in Records : label[r] # 0 =>
       /\ P!FirstOf(TreeOf(r)) < row
       /\ label[r] = Cardinality(Begun(P!FirstOf(TreeOf(r)) + 1))

(* A tree has one root. *)
LEMMA RootsApart ==
  ASSUME RootsNamed, NEW r \in Records, NEW s \in Records,
         IsRoot(r), IsRoot(s), Together(r, s), parent \in [Records -> Records]
  PROVE  r = s
<1>1. PICK f \in [Records -> Records] : NamesRoots(f)
  BY DEF RootsNamed
<1> DEFINE tree == {x \in Records : f[x] = r}
<1>2. tree \in SUBSET Records /\ ForestClosed(tree)
  BY <1>1 DEF NamesRoots, ForestClosed
<1>3. r \in tree
  BY <1>1 DEF NamesRoots
<1>4. s \in tree
  BY <1>2, <1>3 DEF Together
<1> QED BY <1>1, <1>4 DEF NamesRoots

(* The trees, and those with a record before a given row, are finitely many. *)
LEMMA TreesFinite ==
  ASSUME parent \in [Records -> Records]
  PROVE  /\ Trees \in SUBSET SUBSET Records
         /\ IsFiniteSet(Trees)
         /\ \A m : IsFiniteSet(Begun(m))
<1>1. Trees \in SUBSET SUBSET Records
  BY TreeShape DEF Trees, TreesAreClasses
<1>2. IsFiniteSet(Records)
  BY FS_Interval, ClusterAssumption DEF Records
<1>3. IsFiniteSet(SUBSET Records)
  BY <1>2, FS_SUBSET
<1>4. IsFiniteSet(Trees)
  BY <1>1, <1>3, FS_Subset
<1>5. ASSUME NEW m PROVE IsFiniteSet(Begun(m))
  <2>1. Begun(m) \in SUBSET Trees
    BY DEF Begun
  <2> QED BY <1>4, <2>1, FS_Subset
<1> QED BY <1>1, <1>4, <1>5

(* A tree begins at its first record, which is in no other tree. *)
LEMMA TreesBegin ==
  ASSUME parent \in [Records -> Records], NEW u \in Records
  PROVE  /\ P!FirstOf(TreeOf(u)) \in Records
         /\ P!FirstOf(TreeOf(u)) \in TreeOf(u)
         /\ \A w \in TreeOf(u) : P!FirstOf(TreeOf(u)) <= w
         /\ \A B \in Trees : P!FirstOf(B) = u => B = TreeOf(u)
<1>1. /\ TreeOf(u) \in SUBSET Records /\ TreeOf(u) # {}
  BY TreeShape DEF TreesAreClasses
<1>2. ASSUME NEW B \in Trees, P!FirstOf(B) = u
      PROVE  B = TreeOf(u)
  <2>1. PICK w \in Records : B = TreeOf(w)
    BY DEF Trees
  <2>2. TreeOf(w) \in SUBSET Records /\ TreeOf(w) # {}
    BY TreeShape DEF TreesAreClasses
  <2>3. u \in TreeOf(w)
    BY <1>2, <2>1, <2>2, FirstRecord
  <2> QED BY <2>1, <2>3, TreeShape DEF TreesAreClasses
<1>3. P!FirstOf(TreeOf(u)) \in TreeOf(u) /\ \A w \in TreeOf(u) : P!FirstOf(TreeOf(u)) <= w
  <2>1. PICK B \in SUBSET Records : B = TreeOf(u)
    BY <1>1
  <2>2. P!FirstOf(B) \in B /\ \A w \in B : P!FirstOf(B) <= w
    BY <1>1, <2>1, FirstRecord
  <2> QED BY <2>1, <2>2
<1> QED BY <1>1, <1>2, <1>3

(* What is known when a row is about to get its number: its root was found. *)
LEMMA RowToNumber ==
  ASSUME IInv, NumberRow
  PROVE  /\ v \in Records /\ IsRoot(v) /\ Together(row, v)
         /\ row \in Records /\ row \in Nat /\ next \in Nat
         /\ parent \in [Records -> Records]
         /\ label \in [Records -> Nat] /\ out \in [Records -> Nat]
<1>1. pc = "number" /\ IsRoot(v) /\ TypeOK /\ CursorInv
  BY DEF NumberRow, IInv
<1>2. /\ v \in Records /\ row \in 0 .. N /\ row < N
      /\ parent \in [Records -> Records]
      /\ label \in [Records -> Nat] /\ out \in [Records -> Nat] /\ next \in Nat
  BY <1>1 DEF TypeOK
<1>3. Together(row, v)
  BY <1>1 DEF CursorInv
<1>4. row \in Nat
  BY <1>2, ClusterAssumption
<1> QED BY <1>1, <1>2, <1>3, <1>4, RecordsRange

(* What the next row adds to the trees begun: its own tree, when the root  *)
(* of that tree has no label yet, and nothing otherwise.                   *)
LEMMA NewTree ==
  ASSUME IInv, NumberInv, NumberRow, label[v] = 0
  PROVE  /\ P!FirstOf(TreeOf(row)) = row
         /\ Cardinality(Begun(row + 1)) = next + 1
<1>1. /\ v \in Records /\ IsRoot(v) /\ Together(row, v) /\ row \in Records
      /\ row \in Nat /\ parent \in [Records -> Records] /\ RootsNamed
  BY RowToNumber DEF IInv
<1>2. PICK b \in Records : b = P!FirstOf(TreeOf(row))
  BY <1>1, TreesBegin
<1>3. row \in TreeOf(row) /\ b <= row /\ b \in TreeOf(row) /\ b \in Nat
  BY <1>1, <1>2, TreesBegin, TreeShape, RecordsRange DEF TreesAreClasses
<1>4. ~ (b < row)
  <2> SUFFICES ASSUME b < row PROVE FALSE
    OBVIOUS
  <2>1. PICK r \in Records : IsRoot(r) /\ label[r] # 0 /\ Together(b, r)
    BY <1>2 DEF IInv, LabelInv
  <2>2. Together(row, b)
    BY <1>1, <1>2, <1>3, TreeShape DEF TreesAreClasses
  <2>3. Together(r, v)
    BY <1>1, <2>1, <2>2 DEF Together
  <2> QED BY <1>1, <2>1, <2>3, RootsApart
<1>5. b = row
  BY <1>1, <1>3, <1>4
<1>6. Begun(row + 1) = Begun(row) \cup {TreeOf(row)}
  <2>1. ASSUME NEW B \in Trees
        PROVE  P!FirstOf(B) < row + 1 <=> P!FirstOf(B) < row \/ B = TreeOf(row)
    <3>1. PICK w \in Records : B = TreeOf(w)
      BY DEF Trees
    <3>2. P!FirstOf(B) \in Nat
      BY <1>1, <3>1, TreesBegin, RecordsRange
    <3>3. P!FirstOf(B) = row <=> B = TreeOf(row)
      BY <1>1, <1>2, <1>5, TreesBegin
    <3> QED BY <1>1, <1>2, <1>5, <3>2, <3>3
  <2>2. TreeOf(row) \in Trees
    BY <1>1 DEF Trees
  <2> QED BY <2>1, <2>2 DEF Begun
<1>7. TreeOf(row) \notin Begun(row)
  <2>1. P!FirstOf(TreeOf(row)) = row /\ ~ (row < row)
    BY <1>1, <1>2, <1>5
  <2>2. ~ (P!FirstOf(TreeOf(row)) < row)
    BY <2>1
  <2> QED BY <2>2 DEF Begun
<1>8. Cardinality(Begun(row + 1)) = Cardinality(Begun(row)) + 1
  BY <1>1, <1>6, <1>7, TreesFinite, FS_AddElement
<1> QED BY <1>2, <1>5, <1>8 DEF NumberInv

(* A row whose root has a label belongs to a tree that was begun before it. *)
LEMMA OldTree ==
  ASSUME IInv, NumberInv, NumberRow, label[v] # 0
  PROVE  /\ TreeOf(row) = TreeOf(v)
         /\ Begun(row + 1) = Begun(row)
<1>1. /\ v \in Records /\ IsRoot(v) /\ Together(row, v) /\ row \in Records
      /\ row \in Nat /\ parent \in [Records -> Records]
  BY RowToNumber
<1>2. TreeOf(row) = TreeOf(v)
  BY <1>1, TreeShape DEF TreesAreClasses
<1>3. P!FirstOf(TreeOf(row)) < row
  BY <1>1, <1>2 DEF NumberInv
<1>4. ASSUME NEW B \in Trees
      PROVE  P!FirstOf(B) < row + 1 <=> P!FirstOf(B) < row
  <2>1. PICK w \in Records : B = TreeOf(w)
    BY DEF Trees
  <2>2. P!FirstOf(B) \in Nat
    BY <1>1, <2>1, TreesBegin, RecordsRange
  <2>3. P!FirstOf(B) # row
    <3>1. P!FirstOf(B) = row => B = TreeOf(row)
      BY <1>1, TreesBegin
    <3> QED BY <1>1, <1>3, <2>2, <3>1
  <2> QED BY <1>1, <2>2, <2>3
<1> QED BY <1>2, <1>4 DEF Begun

(* A step that keeps the closed sets keeps the trees. *)
LEMMA TreesKept ==
  ASSUME \A S \in SUBSET Records : ForestClosed(S)' <=> ForestClosed(S)
  PROVE  /\ \A u \in Records : TreeOf(u)' = TreeOf(u)
         /\ Trees' = Trees
         /\ \A m : {B \in Trees' : P!FirstOf(B) < m} = Begun(m)
<1>1. \A u, w \in Records : SameTree(u, w)' <=> SameTree(u, w)
  BY DEF SameTree
<1>2. \A u \in Records : TreeOf(u)' = TreeOf(u)
  BY <1>1 DEF TreeOf
<1>3. Trees' = Trees
  BY <1>2 DEF Trees
<1> QED BY <1>2, <1>3 DEF Begun

(* No tree is begun before row 0. *)
LEMMA NothingBegun ==
  parent \in [Records -> Records] => Cardinality(Begun(0)) = 0
<1> SUFFICES ASSUME parent \in [Records -> Records] PROVE Cardinality(Begun(0)) = 0
  OBVIOUS
<1>1. ASSUME NEW B \in Trees PROVE ~ (P!FirstOf(B) < 0)
  <2>1. PICK w \in Records : B = TreeOf(w)
    BY DEF Trees
  <2>2. P!FirstOf(B) \in Nat
    BY <2>1, TreesBegin, RecordsRange
  <2> QED BY <2>2
<1>2. Begun(0) = {}
  BY <1>1 DEF Begun
<1> QED BY <1>2, FS_EmptySet

(* The numbering starts with nothing begun. *)
LEMMA NumberInit == Init => NumberInv
<1> SUFFICES ASSUME Init PROVE NumberInv
  OBVIOUS
<1>1. /\ parent \in [Records -> Records]
      /\ row = 0 /\ next = 0
      /\ \A u \in Records : out[u] = 0 /\ label[u] = 0
  BY DEF Init
<1> QED BY <1>1, NothingBegun DEF NumberInv

(* Every step keeps the number of the next label equal to that of the trees begun. *)
LEMMA NumberStep ==
  ASSUME IInv, IInv', NumberInv, [Next]_vars
  PROVE  NumberInv'
<1>1. /\ parent \in [Records -> Records] /\ parent' \in [Records -> Records]
      /\ out \in [Records -> Nat] /\ label \in [Records -> Nat]
  BY DEF IInv, TypeOK
<1>2. CASE Link
  <2>1. /\ row' = 0 /\ next' = next /\ row = 0
        /\ \A u \in Records : out'[u] = out[u] /\ label'[u] = 0
    <3>1. pc = "link" /\ UNCHANGED labels
      BY <1>2 DEF Link
    <3>2. row = 0 /\ \A u \in Records : label[u] = 0
      BY <3>1 DEF IInv, LabelInv
    <3> QED BY <3>1, <3>2 DEF labels
  <2>2. next = 0 /\ \A u \in Records : out[u] = 0
    <3>1. next = 0
      BY <1>1, <2>1, NothingBegun DEF NumberInv
    <3>2. \A u \in Records : u >= 0
      BY RecordsRange
    <3> QED BY <2>1, <3>1, <3>2 DEF NumberInv
  <2>3. (Cardinality(Begun(0)) = 0)'
    <3>1. (parent \in [Records -> Records] => Cardinality(Begun(0)) = 0)'
      BY NothingBegun, PTL
    <3> QED BY <1>1, <3>1
  <2>4. Cardinality(Begun(row))' = 0
    BY <2>1, <2>3 DEF Begun
  <2> QED BY <2>1, <2>2, <2>4 DEF NumberInv
<1>3. CASE NumberRow
  <2>1. /\ v \in Records /\ row \in Records /\ row \in Nat /\ next \in Nat
        /\ IsRoot(v) /\ Together(row, v)
    BY <1>3, RowToNumber
  <2>2. /\ parent' = parent /\ row' = row + 1
        /\ out' = [out EXCEPT ![row] = label'[v]]
    BY <1>3 DEF NumberRow, forest
  <2>3. \A S \in SUBSET Records : ForestClosed(S)' <=> ForestClosed(S)
    BY <2>2 DEF ForestClosed
  <2>4. ASSUME NEW u \in Records, u >= row'
        PROVE  out'[u] = 0
    <3>1. u \in Nat /\ u # row /\ u >= row
      BY <2>1, <2>2, <2>4, RecordsRange
    <3>2. out[u] = 0
      BY <3>1 DEF NumberInv
    <3> QED BY <1>1, <2>2, <3>1, <3>2
  <2>5. Begun(row)' = Begun(row + 1)
    <3>1. Begun(row)' = {B \in Trees' : P!FirstOf(B) < row'}
      BY DEF Begun
    <3> QED BY <2>2, <2>3, <3>1, TreesKept
  <2>6. /\ next' = Cardinality(Begun(row + 1))
        /\ \A r \in Records : label'[r] # 0 =>
             /\ P!FirstOf(TreeOf(r)) < row + 1
             /\ label'[r] = Cardinality(Begun(P!FirstOf(TreeOf(r)) + 1))
    <3>0. \A r \in Records : P!FirstOf(TreeOf(r)) \in Nat
      BY <1>1, TreesBegin, RecordsRange
    <3>1. CASE label[v] = 0
      <4>1. next' = next + 1 /\ label' = [label EXCEPT ![v] = next + 1]
        BY <1>3, <3>1 DEF NumberRow
      <4>2. /\ P!FirstOf(TreeOf(row)) = row
            /\ Cardinality(Begun(row + 1)) = next + 1
        BY <1>3, <3>1, NewTree
      <4>3. TreeOf(row) = TreeOf(v)
        BY <1>1, <2>1, TreeShape DEF TreesAreClasses
      <4>4. ASSUME NEW r \in Records, label'[r] # 0
            PROVE  /\ P!FirstOf(TreeOf(r)) < row + 1
                   /\ label'[r] = Cardinality(Begun(P!FirstOf(TreeOf(r)) + 1))
        <5>1. CASE r = v
          <6>1. P!FirstOf(TreeOf(r)) = row /\ label'[r] = next + 1
            BY <1>1, <4>1, <4>2, <4>3, <5>1
          <6> QED BY <2>1, <4>2, <6>1
        <5>2. CASE r # v
          <6>1. label'[r] = label[r]
            BY <1>1, <4>1, <5>2
          <6>2. /\ P!FirstOf(TreeOf(r)) < row
                /\ label[r] = Cardinality(Begun(P!FirstOf(TreeOf(r)) + 1))
            BY <4>4, <6>1 DEF NumberInv
          <6> QED BY <2>1, <3>0, <6>1, <6>2
        <5> QED BY <5>1, <5>2
      <4> QED BY <4>1, <4>2, <4>4
    <3>2. CASE label[v] # 0
      <4>1. next' = next /\ label' = label
        BY <1>3, <3>2 DEF NumberRow
      <4>2. Begun(row + 1) = Begun(row)
        BY <1>3, <3>2, OldTree
      <4>3. next = Cardinality(Begun(row))
        BY DEF NumberInv
      <4>4. \A r \in Records : label[r] # 0 =>
              /\ P!FirstOf(TreeOf(r)) < row
              /\ label[r] = Cardinality(Begun(P!FirstOf(TreeOf(r)) + 1))
        BY DEF NumberInv
      <4>5. \A r \in Records : P!FirstOf(TreeOf(r)) < row => P!FirstOf(TreeOf(r)) < row + 1
        BY <2>1, <3>0
      <4> QED BY <4>1, <4>2, <4>3, <4>4, <4>5
    <3> QED BY <3>1, <3>2
  <2>7. ASSUME NEW r \in Records, label'[r] # 0
        PROVE  /\ P!FirstOf(TreeOf(r)') < row'
               /\ label'[r] = Cardinality({B \in Trees' : P!FirstOf(B) < P!FirstOf(TreeOf(r)') + 1})
    <3>1. TreeOf(r)' = TreeOf(r)
      BY <2>3, TreesKept
    <3>2. {B \in Trees' : P!FirstOf(B) < P!FirstOf(TreeOf(r)) + 1} = Begun(P!FirstOf(TreeOf(r)) + 1)
      BY <2>3, TreesKept
    <3> QED BY <2>2, <2>6, <2>7, <3>1, <3>2
  <2>8. next' = Cardinality(Begun(row)')
    BY <2>5, <2>6
  <2> QED BY <2>4, <2>7, <2>8 DEF NumberInv, Begun
<1>4. CASE ~ Link /\ ~ NumberRow
  <2>1. UNCHANGED <<row, label, next, out>>
    BY <1>4 DEF Next, vars, labels, TakePair, HalveStep, FoundA, FoundB, StartLabels, TakeRow, Return
  <2>2. \A S \in SUBSET Records : ForestClosed(S)' <=> ForestClosed(S)
    BY <1>4, ForestStep DEF ForestKept
  <2>3. {B \in Trees' : P!FirstOf(B) < row} = Begun(row)
    BY <2>2, TreesKept
  <2>4. ASSUME NEW r \in Records, label'[r] # 0
        PROVE  /\ P!FirstOf(TreeOf(r)') < row'
               /\ label'[r] = Cardinality({B \in Trees' : P!FirstOf(B) < P!FirstOf(TreeOf(r)') + 1})
    <3>1. TreeOf(r)' = TreeOf(r)
      BY <2>2, TreesKept
    <3>2. {B \in Trees' : P!FirstOf(B) < P!FirstOf(TreeOf(r)) + 1} = Begun(P!FirstOf(TreeOf(r)) + 1)
      BY <2>2, TreesKept
    <3>3. label'[r] = label[r] /\ row' = row
      BY <2>1
    <3>4. /\ P!FirstOf(TreeOf(r)) < row
          /\ label[r] = Cardinality(Begun(P!FirstOf(TreeOf(r)) + 1))
      BY <2>4, <3>3 DEF NumberInv
    <3> QED BY <3>1, <3>2, <3>3, <3>4
  <2>5. \A u \in Records : u >= row' => out'[u] = 0
    BY <2>1 DEF NumberInv
  <2>6. next' = Cardinality({B \in Trees' : P!FirstOf(B) < row'})
    BY <2>1, <2>3 DEF NumberInv
  <2> QED BY <2>4, <2>5, <2>6 DEF NumberInv, Begun
<1> QED BY <1>2, <1>3, <1>4

(* A record's number in the abstract partition, in terms of the trees. *)
LEMMA NumberOfTree ==
  ASSUME parent \in [Records -> Records], NEW u \in Records
  PROVE  P!NumberOf(u) = Cardinality({B \in Trees : P!FirstOf(B) <= P!FirstOf(TreeOf(u))})
<1>1. P!BlockOf(u) = TreeOf(u)
  BY BlockIsTree
<1>2. ASSUME NEW S PROVE P!Cardinality(S) = Cardinality(S)
  BY DEF P!Cardinality, Cardinality
<1>3. P!NumberOf(u) = P!Cardinality({B \in Trees : P!FirstOf(B) <= P!FirstOf(TreeOf(u))})
  BY <1>1 DEF P!NumberOf, Trees
<1> QED BY <1>2, <1>3

(* The label that a row gets is the number that the abstract specification gives its block. *)
LEMMA NumberOfIsLabel ==
  ASSUME IInv, NumberInv, NumberRow
  PROVE  label'[v] = P!NumberOf(row)
<1>1. /\ v \in Records /\ row \in Records /\ Together(row, v)
      /\ parent \in [Records -> Records] /\ label \in [Records -> Nat]
  BY RowToNumber
<1>2. TreeOf(row) = TreeOf(v)
  BY <1>1, TreeShape DEF TreesAreClasses
<1>3. PICK b \in Records : b = P!FirstOf(TreeOf(row))
  BY <1>1, TreesBegin
<1>4. {B \in Trees : P!FirstOf(B) <= b} = Begun(b + 1)
  <2>1. ASSUME NEW B \in Trees
        PROVE  P!FirstOf(B) <= b <=> P!FirstOf(B) < b + 1
    <3>1. PICK w \in Records : B = TreeOf(w)
      BY DEF Trees
    <3>2. P!FirstOf(B) \in Nat /\ b \in Nat
      BY <1>1, <3>1, TreesBegin, RecordsRange
    <3> QED BY <3>2
  <2> QED BY <2>1 DEF Begun
<1>5. P!NumberOf(row) = Cardinality(Begun(b + 1))
  BY <1>1, <1>3, <1>4, NumberOfTree
<1>6. CASE label[v] = 0
  <2>1. label'[v] = next + 1
    BY <1>1, <1>3, <1>6 DEF NumberRow
  <2>2. P!FirstOf(TreeOf(row)) = row /\ Cardinality(Begun(row + 1)) = next + 1
    BY <1>6, NewTree
  <2> QED BY <1>3, <1>5, <2>1, <2>2
<1>7. CASE label[v] # 0
  <2>1. label'[v] = label[v]
    BY <1>7 DEF NumberRow
  <2>2. label[v] = Cardinality(Begun(P!FirstOf(TreeOf(v)) + 1))
    BY <1>1, <1>7 DEF NumberInv
  <2> QED BY <1>2, <1>3, <1>5, <2>1, <2>2
<1> QED BY <1>6, <1>7

(* The call starts where the abstract merging starts: every record its own block. *)
LEMMA RefinedInit == Init => P!PInit
<1> SUFFICES ASSUME Init PROVE P!PInit
  OBVIOUS
<1>1. /\ parent = [u \in Records |-> u] /\ out = [u \in Records |-> 0]
  BY DEF Init
<1>2. ASSUME NEW u \in Records PROVE TreeOf(u) = {u}
  <2>1. \A S \in SUBSET Records : ForestClosed(S)
    BY <1>1 DEF ForestClosed
  <2>2. {u} \in SUBSET Records
    OBVIOUS
  <2>3. \A w \in Records : SameTree(u, w) <=> w = u
    BY <2>1, <2>2 DEF SameTree
  <2> QED BY <2>3 DEF TreeOf
<1>3. {TreeOf(u) : u \in Records} = {{u} : u \in Records}
  BY <1>2
<1> QED BY <1>1, <1>3 DEF P!PInit

(* Joining two different roots merges two blocks, writing a number is      *)
(* numbering a record, and every other step leaves blocks and numbers.     *)
LEMMA RefinedStep ==
  ASSUME IInv, IInv', NumberInv, [Next]_vars
  PROVE  P!PNext \/ UNCHANGED <<Trees, out>>
<1>1. parent \in [Records -> Records] /\ out \in [Records -> Nat]
  BY DEF IInv, TypeOK
<1>2. CASE Link
  <2>1. pc = "link" /\ UNCHANGED labels /\ row = 0
    BY <1>2 DEF Link, IInv, LabelInv
  <2>2. out' = out
    BY <2>1 DEF labels
  <2>3. \A u \in Records : out[u] = 0
    BY <2>1, RecordsRange DEF NumberInv
  <2>4. a \in Records /\ v \in Records
    BY <2>1 DEF IInv, TypeOK
  <2>5. CASE a = v
    <3>1. parent' = parent
      BY <1>2, <2>5 DEF Link, forest
    <3>2. Trees' = Trees
      BY <3>1, TreesKept DEF ForestClosed
    <3> QED BY <2>2, <3>2
  <2>6. CASE a # v
    <3>1. Trees' = (Trees \ {TreeOf(a), TreeOf(v)}) \cup {TreeOf(a) \cup TreeOf(v)}
      BY <1>2, <2>6, LinkMergesTrees DEF IInv
    <3>2. P!BlockOf(a) = TreeOf(a) /\ P!BlockOf(v) = TreeOf(v)
      BY <1>1, <2>4, BlockIsTree
    <3>3. P!Merge(a, v)
      BY <2>2, <2>3, <3>1, <3>2 DEF P!Merge, Trees
    <3> QED BY <2>4, <3>3 DEF P!PNext
  <2> QED BY <2>5, <2>6
<1>3. CASE NumberRow
  <2>1. row \in Records /\ row \in Nat
    BY <1>3, RowToNumber
  <2>2. parent' = parent /\ out' = [out EXCEPT ![row] = label'[v]]
    BY <1>3 DEF NumberRow, forest
  <2>3. Trees' = Trees
    BY <2>2, TreesKept DEF ForestClosed
  <2>4. out[row] = 0
    <3>1. row >= row
      BY <2>1
    <3> QED BY <2>1, <3>1 DEF NumberInv
  <2>5. label'[v] = P!NumberOf(row)
    BY <1>3, NumberOfIsLabel
  <2>6. P!Number(row)
    BY <2>2, <2>3, <2>4, <2>5 DEF P!Number, Trees
  <2> QED BY <2>1, <2>6 DEF P!PNext
<1>4. CASE ~ Link /\ ~ NumberRow
  <2>1. UNCHANGED <<row, label, next, out>>
    BY <1>4 DEF Next, vars, labels, TakePair, HalveStep, FoundA, FoundB, StartLabels, TakeRow, Return
  <2>2. \A S \in SUBSET Records : ForestClosed(S)' <=> ForestClosed(S)
    BY <1>4, ForestStep DEF ForestKept
  <2>3. Trees' = Trees
    BY <2>2, TreesKept
  <2> QED BY <2>1, <2>3
<1> QED BY <1>2, <1>3, <1>4

(* Union-find with path halving and a labelling pass does what is asked of *)
(* it in the abstract: every run merges blocks of records pair by pair,    *)
(* then gives each record the number of its block, blocks numbered from 1  *)
(* in the order of their first record, whatever the records and the pairs. *)
THEOREM Implements == Spec => Refines
<1>1. Init => P!PInit
  BY RefinedInit
<1>2. IInv /\ IInv' /\ NumberInv /\ [Next]_vars => [P!PNext]_(<<{TreeOf(u) : u \in Records}, out>>)
  <2>1. IInv /\ IInv' /\ NumberInv /\ [Next]_vars => P!PNext \/ UNCHANGED <<Trees, out>>
    BY RefinedStep
  <2> QED BY <2>1 DEF Trees
<1>3. IInv /\ IInv' /\ NumberInv /\ [Next]_vars => NumberInv'
  BY NumberStep
<1> QED BY <1>1, <1>2, <1>3, NumberInit, Invariance, PTL DEF Spec, Refines, P!PSpec
=============================================================================
