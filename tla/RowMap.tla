-------------------------------- MODULE RowMap --------------------------------
(***************************************************************************)
(* What a substitution kernel promises, with no threads, chunks or arenas: *)
(* one step from the call to its answer. Either every row is mapped by     *)
(* itself, NA staying NA and an unchanged string staying the same object,  *)
(* with a warning naming the first row a resource limit was hit in; or the *)
(* call stops at the first row that failed hard.                           *)
(***************************************************************************)
EXTENDS Integers, FiniteSets

VARIABLES
  rows,      \* the job: a function on 0 .. n-1
  scarce,    \* may memory run out during the call?
  answer

Pending == [kind |-> "pending"]

Hard(i) == rows[i].outcome = "hard"
Soft    == {i \in DOMAIN rows : rows[i].outcome = "soft"}

(* The row's own text, byte by byte, and the text the kernel makes of it:  *)
(* a positive number is a byte kept, a negative one a byte put in.         *)
Source(i) == [j \in 1 .. rows[i].size |-> j]

NA      == [kind |-> "na",   text |-> <<>>]
Same(i) == [kind |-> "same", text |-> [j \in DOMAIN Source(i) |-> <<i, j>>]]
New(i)  == [kind |-> "new",  text |-> [j \in DOMAIN rows[i].new |-> <<i, rows[i].new[j]>>]]

Mapped(i) ==
  IF rows[i].outcome = "na" THEN NA
  ELSE IF rows[i].outcome = "matched" /\ rows[i].new # Source(i) THEN New(i)
  ELSE Same(i)

First(S) == IF S = {} THEN -1 ELSE CHOOSE i \in S : \A j \in S : i <= j
-----------------------------------------------------------------------------
MInit == answer = Pending

Answer ==
  /\ answer = Pending
  /\ \A i \in DOMAIN rows : ~ Hard(i)
  /\ answer' = [kind  |-> "value",
                value |-> [i \in DOMAIN rows |-> Mapped(i)],
                warns |-> First(Soft),
                count |-> Cardinality(Soft)]
  /\ UNCHANGED <<rows, scarce>>

Stop(i) ==
  /\ answer = Pending
  /\ Hard(i) \/ scarce
  /\ \A j \in DOMAIN rows : j < i => ~ Hard(j)
  /\ answer' = [kind |-> "stop", row |-> i]
  /\ UNCHANGED <<rows, scarce>>

MNext == Answer \/ \E i \in DOMAIN rows : Stop(i)

MSpec == MInit /\ [][MNext]_<<rows, scarce, answer>>
=============================================================================
