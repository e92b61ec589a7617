--------------------------- MODULE MatchLoopsProofs ---------------------------
(***************************************************************************)
(* For every call and every row, however the searches answer: a search is  *)
(* given an offset in the string that is on a character, each search of a  *)
(* row begins behind the one before it, and every row gets the answer that *)
(* the places of its matches say.                                          *)
(***************************************************************************)
EXTENDS MatchLoops, NaturalLemmas, SequenceTheorems

(* What is in hand while a row is walked: where the next search begins, the *)
(* match found last, from there on, and for gsub() where an empty match     *)
(* would not count, which is where the next search begins.                  *)
Walking == {"search", "match", "retry", "store"}

WalkInv ==
  /\ call \in Calls
  /\ pc \in Walking \cup {"row", "done"}
  /\ i \in Nat \ {0}
  /\ pc \in Walking => i \in DOMAIN call.rows
  /\ pc \in {"search", "match"} =>
       /\ offset \in row.chars
       /\ barred = None \/ (op = "gsub" /\ barred = offset /\ barred < row.size)
  /\ pc = "match" =>
       /\ got.kind = "match" =>
            /\ {got.start, got.end} \subseteq row.chars
            /\ offset <= got.start /\ got.start <= got.end
            /\ got.start = got.end => call.canEmpty

(* The strings of a call, as assumed. *)
LEMMA RowShape ==
  ASSUME NEW q \in Calls, NEW k \in DOMAIN q.rows
  PROVE  /\ q.rows[k].size \in Nat
         /\ q.rows[k].chars \subseteq 0 .. q.rows[k].size
         /\ {0, q.rows[k].size} \subseteq q.rows[k].chars
         /\ \A p \in Start(q.rows[k]) :
              /\ p \in Nat /\ q.rows[k].hit[p] \in Nat
              /\ {p, p + q.rows[k].hit[p]} \subseteq q.rows[k].chars
              /\ q.rows[k].hit[p] = 0 => q.canEmpty
<1>1. /\ q.rows[k].size \in Nat
      /\ q.rows[k].chars \subseteq 0 .. q.rows[k].size
      /\ {0, q.rows[k].size} \subseteq q.rows[k].chars
      /\ q.rows[k].hit \in [0 .. q.rows[k].size -> None .. q.rows[k].size]
      /\ \A p \in Start(q.rows[k]) : {p, p + q.rows[k].hit[p]} \subseteq q.rows[k].chars
      /\ (\E p \in Start(q.rows[k]) : q.rows[k].hit[p] = 0) => q.canEmpty
  BY MatchAssumption
<1>2. ASSUME NEW p \in Start(q.rows[k]) PROVE p \in Nat /\ q.rows[k].hit[p] \in Nat
  BY <1>1 DEF Start, None
<1> QED BY <1>1, <1>2

(* One character on: the next place a character begins, or the end, or at   *)
(* the end one place behind it.                                             *)
LEMMA StepPastLands ==
  ASSUME row.size \in Nat, row.chars \subseteq 0 .. row.size, row.size \in row.chars,
         NEW from \in row.chars
  PROVE  /\ StepPast(from) \in Nat /\ StepPast(from) > from
         /\ StepPast(from) <= row.size => StepPast(from) \in row.chars
         /\ from < row.size => StepPast(from) <= row.size
         /\ \A q \in row.chars : q > from => StepPast(from) <= q
<1> DEFINE Fits(p) == /\ p > from
                      /\ p \in row.chars \/ p = row.size + 1
                      /\ \A q \in row.chars : q > from => p <= q
<1>1. \E p \in 1 .. row.size + 1 : Fits(p)
  <2>1. CASE from = row.size
    <3>1. row.size + 1 \in 1 .. row.size + 1 /\ Fits(row.size + 1)
      BY <2>1
    <3> QED BY <3>1
  <2>2. CASE from # row.size
    <3> DEFINE Behind == {p \in row.chars : p > from}
    <3>1. Behind \in SUBSET Nat /\ row.size \in Behind
      BY <2>2
    <3>2. PICK p \in Behind : \A q \in Behind : p <= q
      BY <3>1, LeastNatural
    <3>3. p \in 1 .. row.size + 1 /\ Fits(p)
      BY <3>2
    <3> QED BY <3>3
  <2> QED BY <2>1, <2>2
<1>2. StepPast(from) \in 1 .. row.size + 1 /\ Fits(StepPast(from))
  BY <1>1 DEF StepPast
<1> QED BY <1>2

(* What every step of the walk starts from. *)
LEMMA RowInHand ==
  ASSUME WalkInv, pc \in Walking
  PROVE  /\ row.size \in Nat /\ row.chars \subseteq 0 .. row.size
         /\ {0, row.size} \subseteq row.chars
         /\ \A p \in Start(row) :
              /\ p \in Nat /\ row.hit[p] \in Nat
              /\ {p, p + row.hit[p]} \subseteq row.chars
              /\ row.hit[p] = 0 => call.canEmpty
<1>1. call \in Calls /\ i \in DOMAIN call.rows
  BY DEF WalkInv
<1> QED BY <1>1, RowShape DEF row

(* What a match in hand is good for: it lies behind the offset, and the place to go on from *)
(* is farther than the offset and on a character.                                           *)
LEMMA MatchInHand ==
  ASSUME WalkInv, pc = "match", got.kind = "match"
  PROVE  /\ offset \in Nat /\ got.start \in Nat /\ got.end \in Nat
         /\ got.end \in row.chars /\ offset <= got.start /\ got.start <= got.end
         /\ got.start = got.end => call.canEmpty
         /\ Onward \in Nat /\ Onward > offset
         /\ Onward <= row.size => Onward \in row.chars
<1>1. row.size \in Nat /\ row.chars \subseteq 0 .. row.size /\ row.size \in row.chars
  BY RowInHand DEF Walking
<1>2. /\ offset \in row.chars /\ {got.start, got.end} \subseteq row.chars
      /\ offset <= got.start /\ got.start <= got.end
      /\ got.start = got.end => call.canEmpty
  BY DEF WalkInv
<1>3. CASE Empty
  <2>1. Onward = StepPast(got.end)
    BY <1>3 DEF Onward
  <2>2. /\ StepPast(got.end) \in Nat /\ StepPast(got.end) > got.end
        /\ StepPast(got.end) <= row.size => StepPast(got.end) \in row.chars
    BY <1>1, <1>2, StepPastLands
  <2> QED BY <1>1, <1>2, <2>1, <2>2
<1>4. CASE ~ Empty
  <2>1. Onward = got.end /\ got.start # got.end
    BY <1>4 DEF Onward, Empty
  <2> QED BY <1>1, <1>2, <2>1
<1> QED BY <1>3, <1>4

(* The kinds of step: a row ends, the walk ends and what is left of the row *)
(* is stored, and another search is made.                                   *)
LEMMA RowEnds ==
  ASSUME WalkInv, call' = call, pc' \in {"row", "done"}, i' \in {i, i + 1}
  PROVE  WalkInv'
BY DEF WalkInv, Walking

(* Leaving the loop keeps the invariant. *)
LEMMA WalkEnds ==
  ASSUME WalkInv, pc \in Walking, call' = call, pc' \in {"store", "retry"}, i' = i
  PROVE  WalkInv'
BY DEF WalkInv, Walking

(* Going on from a character, with no place barred or the offset itself, keeps the invariant. *)
LEMMA WalkGoesOn ==
  ASSUME WalkInv, pc \in Walking, call' = call, pc' = "search", i' = i,
         offset' \in row.chars,
         barred' = None \/ (op = "gsub" /\ barred' = offset' /\ barred' < row.size)
  PROVE  WalkInv'
<1>1. row' = row /\ op' = op
  BY DEF row, op
<1> QED BY <1>1 DEF WalkInv, Walking

(* Beginning a row keeps the invariant. *)
LEMMA BeginKeeps ==
  ASSUME WalkInv, BeginRow
  PROVE  WalkInv'
<1>1. CASE Skipped
  BY <1>1, RowEnds DEF BeginRow
<1>2. CASE ~ Skipped
  <2>1. PICK q \in Calls : q = call
    BY DEF WalkInv
  <2>2. /\ pc' = "search" /\ call' = q /\ i' = i /\ offset' = 0 /\ barred' = None
        /\ i \in Nat \ {0} /\ i <= Len(q.rows)
    BY <1>2, <2>1 DEF BeginRow, WalkInv
  <2>3. i \in DOMAIN q.rows
    <3>1. q.rows \in Seq(Range(q.rows))
      BY MatchAssumption
    <3>2. DOMAIN q.rows = 1 .. Len(q.rows) /\ Len(q.rows) \in Nat
      BY <3>1
    <3> QED BY <2>2, <3>2
  <2>4. 0 \in q.rows[i].chars
    BY <2>3, RowShape
  <2> QED BY <2>1, <2>2, <2>3, <2>4 DEF WalkInv, Walking, row
<1> QED BY <1>1, <1>2

(* A search keeps the invariant: what it finds lies on characters behind the offset. *)
LEMMA SearchKeeps ==
  ASSUME WalkInv, Search
  PROVE  WalkInv'
<1>1. /\ pc = "search" /\ pc' = "match" /\ call' = call /\ i' = i
      /\ offset' = offset /\ barred' = barred
  BY DEF Search
<1>2. row' = row /\ op' = op
  BY <1>1 DEF row, op
<1>3. got'.kind = "match" => /\ {got'.start, got'.end} \subseteq row.chars
                             /\ offset <= got'.start /\ got'.start <= got'.end
                             /\ got'.start = got'.end => call.canEmpty
  <2> DEFINE ahead == {p \in Start(row) : p >= offset}
             nearest == CHOOSE p \in ahead : \A q \in ahead : p <= q
  <2>0. \/ got' = Failed
        \/ got' = IF ahead = {} THEN Nothing
                  ELSE [kind |-> "match", start |-> nearest, end |-> nearest + row.hit[nearest]]
    BY DEF Search
  <2> HIDE DEF nearest
  <2>1. CASE got' \in {Nothing, Failed}
    <3>1. Nothing.kind # "match" /\ Failed.kind # "match"
      BY DEF Nothing, Failed
    <3> QED BY <2>1, <3>1
  <2>2. CASE ahead # {} /\ got' = [kind |-> "match", start |-> nearest,
                                   end |-> nearest + row.hit[nearest]]
    <3>1. \A p \in Start(row) : /\ p \in Nat /\ row.hit[p] \in Nat
                                /\ {p, p + row.hit[p]} \subseteq row.chars
                                /\ row.hit[p] = 0 => call.canEmpty
      BY <1>1, RowInHand DEF Walking
    <3>2. ahead \in SUBSET Nat
      BY <3>1
    <3>3. \E p \in ahead : \A q \in ahead : p <= q
      BY <2>2, <3>2, LeastNatural
    <3>4. nearest \in ahead
      BY <3>3 DEF nearest
    <3>5. /\ got'.start = nearest /\ got'.end = nearest + row.hit[nearest]
          /\ nearest \in Start(row) /\ nearest >= offset
      BY <2>2, <3>4
    <3> QED BY <3>1, <3>5
  <2> QED BY <2>0, <2>1, <2>2
<1> QED BY <1>1, <1>2, <1>3 DEF WalkInv, Walking
-----------------------------------------------------------------------------
(* The steps that make another search.                                      *)
LEMMA CountAdvances ==
  ASSUME WalkInv, CountMatch
  PROVE  WalkInv' /\ (pc' = "search" => offset' > offset)
<1>1. pc = "match" /\ got.kind = "match" /\ call' = call
  BY DEF CountMatch
<1>2. CASE AtEnd
  <2>1. pc' = "row" /\ i' = i + 1
    BY <1>2 DEF CountMatch, Finish
  <2> QED BY <1>1, <2>1, RowEnds
<1>3. CASE ~ AtEnd
  <2>1. pc' = "search" /\ i' = i /\ offset' = Onward /\ ~ (Onward >= row.size)
    BY <1>3 DEF CountMatch, AtEnd
  <2>2. barred' = None
    BY <1>1 DEF CountMatch, WalkInv
  <2>3. /\ Onward \in Nat /\ Onward > offset /\ row.size \in Nat
        /\ Onward <= row.size => Onward \in row.chars
    BY <1>1, MatchInHand, RowInHand DEF Walking
  <2> QED BY <1>1, <2>1, <2>2, <2>3, WalkGoesOn DEF Walking
<1> QED BY <1>2, <1>3

(* Neither of them takes a pattern that matches "". *)
LEMMA PiecesAdvance ==
  ASSUME WalkInv, SplitMatch \/ FieldMatch
  PROVE  WalkInv' /\ (pc' = "search" => offset' > offset)
<1>1. /\ pc = "match" /\ got.kind = "match" /\ call' = call /\ i' = i
      /\ offset' = got.end /\ barred' = barred
      /\ op \in {"split", "field"} /\ pc' \in {"search", "store"}
  BY DEF SplitMatch, FieldMatch
<1>2. ~ call.canEmpty
  BY <1>1, MatchAssumption DEF WalkInv, op
<1>3. barred = None
  BY <1>1 DEF WalkInv
<1>4. /\ offset \in Nat /\ got.start \in Nat /\ got.end \in row.chars /\ got.end \in Nat
      /\ got.end > offset
  <2>1. /\ offset \in Nat /\ got.start \in Nat /\ got.end \in Nat
        /\ got.end \in row.chars /\ offset <= got.start /\ got.start <= got.end
        /\ got.start = got.end => call.canEmpty
    BY <1>1, MatchInHand
  <2> QED BY <1>2, <2>1
<1>5. CASE pc' = "search"
  BY <1>1, <1>3, <1>4, <1>5, WalkGoesOn DEF Walking
<1>6. CASE pc' = "store"
  BY <1>1, <1>6, WalkEnds DEF Walking
<1> QED BY <1>1, <1>5, <1>6

(* A substituted match keeps the invariant and moves the offset on. *)
LEMMA SubAdvances ==
  ASSUME WalkInv, SubMatch
  PROVE  WalkInv' /\ (pc' = "search" => offset' > offset)
<1>1. pc = "match" /\ got.kind = "match" /\ call' = call /\ i' = i /\ op = "gsub"
  BY DEF SubMatch
<1>2. /\ Onward \in Nat /\ Onward > offset /\ offset \in Nat
      /\ Onward <= row.size => Onward \in row.chars
      /\ got.end \in row.chars
  BY <1>1, MatchInHand
<1>3. row.size \in Nat /\ row.chars \subseteq 0 .. row.size
  BY <1>1, RowInHand DEF Walking
<1>4. CASE got.end = row.size \/ Onward > row.size
  <2>1. pc' = "store"
    BY <1>4 DEF SubMatch
  <2> QED BY <1>1, <2>1, WalkEnds DEF Walking
<1>5. CASE ~ (got.end = row.size \/ Onward > row.size)
  <2>1. /\ pc' = "search" /\ offset' = Onward
        /\ barred' = IF call.canEmpty /\ ~ Empty THEN got.end ELSE None
    BY <1>5 DEF SubMatch
  <2>2. barred' = None \/ (barred' = offset' /\ barred' < row.size)
    BY <1>2, <1>3, <1>5, <2>1 DEF Onward
  <2> QED BY <1>1, <1>2, <1>3, <1>5, <2>1, <2>2, WalkGoesOn DEF Walking
<1> QED BY <1>4, <1>5

(* A suppressed empty match keeps the invariant and moves the offset on. *)
LEMMA SuppressedAdvances ==
  ASSUME WalkInv, SubSuppressed
  PROVE  WalkInv' /\ (pc' = "search" => offset' > offset)
<1>1. /\ pc = "match" /\ call' = call /\ i' = i /\ pc' = "search"
      /\ offset' = StepPast(barred) /\ barred' = None /\ barred # None
  BY DEF SubSuppressed, Suppressed
<1>2. row.size \in Nat /\ row.chars \subseteq 0 .. row.size /\ row.size \in row.chars
  BY <1>1, RowInHand DEF Walking
<1>3. barred \in row.chars /\ barred = offset /\ barred < row.size
  BY <1>1 DEF WalkInv
<1>4. StepPast(barred) > barred /\ StepPast(barred) \in row.chars
  BY <1>2, <1>3, StepPastLands
<1> QED BY <1>1, <1>3, <1>4, WalkGoesOn DEF Walking
-----------------------------------------------------------------------------
(* Every step keeps the invariant, and a step from a match to the next search advances. *)
LEMMA StepKeeps ==
  ASSUME WalkInv, [Next]_vars
  PROVE  WalkInv' /\ (pc = "match" /\ pc' = "search" => offset' > offset)
<1>1. CASE CountMatch \/ SplitMatch \/ FieldMatch \/ SubMatch \/ SubSuppressed
  BY <1>1, CountAdvances, PiecesAdvance, SubAdvances, SuppressedAdvances
<1>2. CASE BeginRow \/ Search
  BY <1>2, BeginKeeps, SearchKeeps DEF BeginRow, Search
<1>3. CASE CountEnd \/ SplitEnd \/ ForgetRow \/ FieldStore \/ FieldFailed \/ SubFailed
             \/ SubRetry \/ SubStore \/ EndChunk
  <2>1. call' = call /\ pc' \in {"row", "done"} /\ i' \in {i, i + 1}
    BY <1>3 DEF CountEnd, SplitEnd, ForgetRow, FieldStore, FieldFailed, SubFailed, SubRetry,
                SubStore, EndChunk, Fail, Finish
  <2> QED BY <2>1, RowEnds
<1>4. CASE FieldEnd \/ SubFirst
  <2>1. pc = "match" /\ call' = call /\ pc' = "store" /\ i' = i
    BY <1>4 DEF FieldEnd, SubFirst
  <2> QED BY <2>1, WalkEnds DEF Walking
<1>5. CASE SubEnd \/ SubBuiltIn
  <2>1. /\ pc = "match" /\ call' = call
        /\ \/ pc' = "row" /\ i' = i + 1
           \/ pc' \in {"store", "retry"} /\ i' = i
    BY <1>5 DEF SubEnd, SubBuiltIn, Fail, Finish
  <2> QED BY <2>1, RowEnds, WalkEnds DEF Walking
<1>6. CASE UNCHANGED vars
  <2>1. /\ call' = call /\ pc' = pc /\ i' = i /\ offset' = offset /\ barred' = barred
        /\ got' = got /\ row' = row /\ op' = op
    BY <1>6 DEF vars, row_vars, row, op
  <2> QED BY <2>1 DEF WalkInv
<1> QED BY <1>1, <1>2, <1>3, <1>4, <1>5, <1>6 DEF Next

(* In every reachable state the walk along the row in hand is sound.        *)
THEOREM Invariance == Spec => []WalkInv
<1>1. Init => WalkInv
  BY DEF Init, WalkInv, Walking
<1> QED BY <1>1, StepKeeps, PTL DEF Spec

(* pcre2_match() is never given an offset beyond the string or inside a     *)
(* character, whatever matches, empty or not, come one after the other.     *)
THEOREM OffsetsLegal == Spec => []SearchesLegal
<1>1. WalkInv => SearchesLegal
  BY DEF WalkInv, SearchesLegal
<1> QED BY <1>1, Invariance, PTL

(* No loop searches a place again: not at an empty match, and not at one    *)
(* that gsub() does not count.                                              *)
THEOREM OffsetsAdvance == Spec => SearchesAdvance
<1>1. WalkInv /\ [Next]_vars => [pc = "match" /\ pc' = "search" => offset' > offset]_vars
  BY StepKeeps
<1> QED BY <1>1, Invariance, PTL DEF Spec, SearchesAdvance
-----------------------------------------------------------------------------
(* What of a row does not change: its characters, and where the pattern     *)
(* matches.                                                                 *)
IsRow(r) ==
  /\ r.size \in Nat
  /\ r.chars \subseteq 0 .. r.size
  /\ {0, r.size} \subseteq r.chars
  /\ Start(r) \subseteq 0 .. r.size
  /\ \A p \in Start(r) : r.hit[p] \in Nat /\ {p, p + r.hit[p]} \subseteq r.chars

(* The rows of a call are such. *)
LEMMA RowsAre ==
  ASSUME NEW q \in Calls, NEW k \in DOMAIN q.rows
  PROVE  IsRow(q.rows[k])
<1>1. Start(q.rows[k]) \subseteq 0 .. q.rows[k].size
  BY DEF Start
<1> QED BY <1>1, RowShape DEF IsRow

(* T are places taken one after the other, as Bars says.                    *)
IsTaken(S, Bars, T) ==
  T \in SUBSET S /\ \A p \in S : p \in T <=> \A q \in T : <<q, p>> \notin Bars
Upward(Bars) == \A e \in Bars : e[1] < e[2]

(* There are such places: below n, for one n after the other. *)
LEMMA TakenBelow ==
  ASSUME NEW m \in Nat, NEW S \in SUBSET (0 .. m), NEW Bars, Upward(Bars), NEW n \in Nat
  PROVE  \E T : IsTaken({p \in S : p < n}, Bars, T)
<1> DEFINE U(k) == {p \in S : p < k}
           Good == {k \in Nat : \E T : IsTaken(U(k), Bars, T)}
<1>1. 0 \in Good
  <2>1. IsTaken(U(0), Bars, {})
    BY DEF IsTaken
  <2> QED BY <2>1
<1>2. ASSUME NEW k \in Nat, k \in Good PROVE k + 1 \in Good
  <2>1. PICK T : IsTaken(U(k), Bars, T)
    BY <1>2
  <2>2. U(k + 1) = U(k) \cup (S \cap {k})
    <3>1. \A p \in S : p \in Nat
      OBVIOUS
    <3>2. \A p \in S : p < k + 1 <=> p < k \/ p = k
      BY <3>1
    <3> QED BY <3>2
  <2>3. \A q \in T : q \in S /\ q < k
    BY <2>1 DEF IsTaken
  <2>4. \A p \in U(k) : <<k, p>> \notin Bars
    BY DEF Upward
  <2>5. <<k, k>> \notin Bars
    BY DEF Upward
  <2>6. CASE k \in S /\ \A q \in T : <<q, k>> \notin Bars
    <3>1. IsTaken(U(k + 1), Bars, T \cup {k})
      BY <2>1, <2>2, <2>3, <2>4, <2>5, <2>6 DEF IsTaken
    <3> QED BY <3>1
  <2>7. CASE ~ (k \in S /\ \A q \in T : <<q, k>> \notin Bars)
    <3>1. IsTaken(U(k + 1), Bars, T)
      BY <2>1, <2>2, <2>3, <2>7 DEF IsTaken
    <3> QED BY <3>1
  <2> QED BY <2>6, <2>7
<1> HIDE DEF Good
<1>3. n \in Good
  BY <1>1, <1>2, SetInduction
<1> QED BY <1>3 DEF Good

(* So Taken() is such a set. *)
LEMMA TakenIs ==
  ASSUME NEW m \in Nat, NEW S \in SUBSET (0 .. m), NEW Bars, Upward(Bars)
  PROVE  IsTaken(S, Bars, Taken(S, Bars))
<1>1. S = {p \in S : p < m + 1}
  <2>1. \A p \in S : p \in 0 .. m
    OBVIOUS
  <2>2. \A p \in S : p < m + 1
    BY <2>1
  <2> QED BY <2>2
<1>2. \E T : IsTaken(S, Bars, T)
  <2>1. m + 1 \in Nat
    OBVIOUS
  <2>2. \E T : IsTaken({p \in S : p < m + 1}, Bars, T)
    BY <2>1, TakenBelow
  <2> QED BY <1>1, <2>2
<1>3. \E T \in SUBSET S : \A p \in S : p \in T <=> \A q \in T : <<q, p>> \notin Bars
  BY <1>2 DEF IsTaken
<1>4. /\ Taken(S, Bars) \in SUBSET S
      /\ \A p \in S : p \in Taken(S, Bars) <=> \A q \in Taken(S, Bars) : <<q, p>> \notin Bars
  BY <1>3 DEF Taken
<1> QED BY <1>4 DEF IsTaken

(* And there is only one. *)
LEMMA TakenOnce ==
  ASSUME NEW m \in Nat, NEW S \in SUBSET (0 .. m), NEW Bars, Upward(Bars),
         NEW T, IsTaken(S, Bars, T), NEW V, IsTaken(S, Bars, V)
  PROVE  T = V
<1> DEFINE D == {p \in S : ~ (p \in T <=> p \in V)}
<1> SUFFICES ASSUME T # V PROVE FALSE
  OBVIOUS
<1>1. D \in SUBSET Nat /\ D # {}
  <2>1. T \in SUBSET S /\ V \in SUBSET S
    BY DEF IsTaken
  <2>2. \E p \in S : ~ (p \in T <=> p \in V)
    BY <2>1
  <2>3. \A p \in S : p \in Nat
    OBVIOUS
  <2> QED BY <2>2, <2>3
<1>2. PICK p \in D : \A q \in D : p <= q
  BY <1>1, LeastNatural
<1>3. ASSUME NEW q \in S, q < p PROVE q \in T <=> q \in V
  BY <1>1, <1>2, <1>3
<1>4. \A q \in S : <<q, p>> \in Bars => q < p
  BY DEF Upward
<1>5. (\A q \in T : <<q, p>> \notin Bars) <=> (\A q \in V : <<q, p>> \notin Bars)
  BY <1>3, <1>4 DEF IsTaken
<1> QED BY <1>2, <1>5 DEF IsTaken

(* The places in order. *)
LEMMA PlacesInOrder ==
  ASSUME NEW m \in Nat, NEW S \in SUBSET (0 .. m)
  PROVE  Rising(S, InOrder(S)) /\ IsFiniteSet(S)
<1>1. IsFiniteSet(0 .. m)
  <2>1. 0 \in Int /\ m \in Int
    OBVIOUS
  <2> QED BY <2>1, FS_Interval
<1>2. IsFiniteSet(S)
  BY <1>1, FS_Subset
<1>3. S \in SUBSET Int
  OBVIOUS
<1>4. InOrder(S) = ByRank(S, Smaller(S))
  BY DEF InOrder, ByRank, Below, Smaller
<1> QED BY <1>2, <1>3, <1>4, AscendingPlaces

(* S are places taken in r, and offset o lies behind the first n of them    *)
(* and before the others.                                                   *)
Passed(r, S, n, o) ==
  /\ n \in 0 .. Cardinality(S)
  /\ \A k \in 1 .. n : InOrder(S)[k] < o /\ InOrder(S)[k] + r.hit[InOrder(S)[k]] <= o
  /\ \A k \in n + 1 .. Cardinality(S) : o <= InOrder(S)[k]

(* The places a loop takes, one by one. *)
LEMMA TakenPlaces ==
  ASSUME NEW r, IsRow(r), NEW Bars, Upward(Bars), NEW S, S = Taken(Start(r), Bars)
  PROVE  IsTaken(Start(r), Bars, S) /\ Rising(S, InOrder(S)) /\ S \in SUBSET Start(r)
<1>1. PICK m \in Nat : m = r.size
  BY DEF IsRow
<1>2. Start(r) \in SUBSET (0 .. m)
  BY <1>1 DEF IsRow
<1>3. IsTaken(Start(r), Bars, S)
  BY <1>2, TakenIs
<1>4. S \in SUBSET Start(r)
  BY <1>3 DEF IsTaken
<1>5. S \in SUBSET (0 .. m)
  BY <1>2, <1>4
<1> QED BY <1>3, <1>4, <1>5, PlacesInOrder

(* The first place ahead that none of those passed bars is the next one taken. *)
LEMMA NextTaken ==
  ASSUME NEW r, IsRow(r), NEW Bars, Upward(Bars), NEW S, S = Taken(Start(r), Bars),
         NEW n, NEW o \in Nat, Passed(r, S, n, o),
         NEW p \in Start(r), o <= p, \A s \in Start(r) : o <= s => p <= s,
         \A k \in 1 .. n : <<InOrder(S)[k], p>> \notin Bars
  PROVE  p \in S /\ n + 1 \in 1 .. Cardinality(S) /\ InOrder(S)[n + 1] = p
<1>1. PICK c : c = InOrder(S)
  OBVIOUS
<1>2. PICK z \in Nat : z = Cardinality(S)
  BY TakenPlaces DEF Rising
<1>3. /\ \A k \in 1 .. z : c[k] \in S
      /\ \A k, l \in 1 .. z : k < l => c[k] < c[l]
      /\ \A e \in S : \E k \in 1 .. z : c[k] = e
      /\ S \in SUBSET Start(r) /\ \A s \in Start(r) : s \in Nat
  <2>1. Rising(S, c) /\ S \in SUBSET Start(r)
    BY <1>1, TakenPlaces
  <2>2. \A s \in Start(r) : s \in Nat
    BY DEF IsRow
  <2> QED BY <1>2, <2>1, <2>2 DEF Rising
<1>4. /\ n \in 0 .. z
      /\ \A k \in 1 .. n : c[k] < o
      /\ \A k \in n + 1 .. z : o <= c[k]
  BY <1>1, <1>2 DEF Passed
<1>5. p \in S
  <2>1. \A q \in S : <<q, p>> \notin Bars
    <3>1. SUFFICES ASSUME NEW q \in S, <<q, p>> \in Bars PROVE FALSE
      OBVIOUS
    <3>2. q < p
      BY <3>1 DEF Upward
    <3>3. PICK k \in 1 .. z : c[k] = q
      BY <1>3
    <3>4. k \notin 1 .. n
      BY <1>1, <3>1, <3>3
    <3>5. o <= q
      BY <1>4, <3>3, <3>4
    <3>6. q \in Start(r) /\ q \in Nat /\ p \in Nat
      BY <1>3
    <3>7. p <= q
      BY <3>5, <3>6
    <3> QED BY <3>2, <3>6, <3>7
  <2> QED BY <2>1, TakenPlaces DEF IsTaken
<1>6. PICK k \in 1 .. z : c[k] = p
  BY <1>3, <1>5
<1>7. k \notin 1 .. n /\ k >= n + 1
  BY <1>3, <1>4, <1>6
<1>8. n + 1 \in 1 .. z /\ c[n + 1] \in S /\ o <= c[n + 1]
  BY <1>3, <1>4, <1>7
<1>9. p <= c[n + 1]
  BY <1>3, <1>8
<1>10. k = n + 1
  <2>1. n + 1 < k => c[n + 1] < p
    BY <1>3, <1>6, <1>8
  <2>2. c[n + 1] \in Nat /\ p \in Nat
    BY <1>3, <1>8
  <2> QED BY <1>4, <1>7, <1>9, <2>1, <2>2
<1> QED BY <1>1, <1>2, <1>5, <1>6, <1>8, <1>10

(* Where no place is ahead all have been taken. *)
LEMMA NoneLeft ==
  ASSUME NEW r, IsRow(r), NEW Bars, Upward(Bars), NEW S, S = Taken(Start(r), Bars),
         NEW n, NEW o \in Nat, Passed(r, S, n, o), \A s \in S : ~ (o <= s)
  PROVE  n = Cardinality(S)
<1>1. PICK z \in Nat : z = Cardinality(S) /\ \A k \in 1 .. z : InOrder(S)[k] \in S
  BY TakenPlaces DEF Rising
<1>2. n \in 0 .. z /\ \A k \in n + 1 .. z : o <= InOrder(S)[k]
  BY <1>1 DEF Passed
<1>3. ~ (n < z)
  <2>1. SUFFICES ASSUME n < z PROVE FALSE
    OBVIOUS
  <2>2. z \in n + 1 .. z /\ z \in 1 .. z
    BY <1>2, <2>1
  <2> QED BY <1>1, <1>2, <2>2
<1> QED BY <1>1, <1>2, <1>3

(* Going on behind the next place taken passes it. *)
LEMMA PassesNext ==
  ASSUME NEW r, IsRow(r), NEW Bars, Upward(Bars), NEW S, S = Taken(Start(r), Bars),
         NEW n, NEW o \in Nat, Passed(r, S, n, o), n + 1 \in 1 .. Cardinality(S),
         NEW p, p = InOrder(S)[n + 1],
         NEW u \in Nat, p < u, p + r.hit[p] <= u, \A s \in S : p < s => u <= s
  PROVE  Passed(r, S, n + 1, u)
<1>1. PICK c : c = InOrder(S)
  OBVIOUS
<1>2. PICK z \in Nat : z = Cardinality(S)
  BY TakenPlaces DEF Rising
<1>3. /\ \A k \in 1 .. z : c[k] \in S
      /\ \A k, l \in 1 .. z : k < l => c[k] < c[l]
      /\ S \in SUBSET Start(r) /\ \A s \in Start(r) : s \in Nat /\ r.hit[s] \in Nat
  <2>1. Rising(S, c) /\ S \in SUBSET Start(r)
    BY <1>1, TakenPlaces
  <2>2. \A s \in Start(r) : s \in Nat /\ r.hit[s] \in Nat
    BY DEF IsRow
  <2> QED BY <1>2, <2>1, <2>2 DEF Rising
<1>4. /\ n \in 0 .. z /\ n + 1 \in 1 .. z
      /\ \A k \in 1 .. n : c[k] < o /\ c[k] + r.hit[c[k]] <= o
      /\ \A k \in n + 1 .. z : o <= c[k]
  BY <1>1, <1>2 DEF Passed
<1>5. p = c[n + 1] /\ o <= p /\ p \in Nat
  BY <1>1, <1>3, <1>4
<1>6. ASSUME NEW k \in 1 .. n + 1 PROVE c[k] < u /\ c[k] + r.hit[c[k]] <= u
  <2>1. CASE k = n + 1
    BY <1>5, <2>1
  <2>2. CASE k \in 1 .. n
    <3>1. c[k] \in Nat /\ r.hit[c[k]] \in Nat
      BY <1>3, <1>4, <2>2
    <3> QED BY <1>4, <1>5, <2>2, <3>1
  <2> QED BY <1>4, <2>1, <2>2
<1>7. ASSUME NEW k \in n + 2 .. z PROVE u <= c[k]
  <2>1. k \in 1 .. z /\ n + 1 < k
    BY <1>4
  <2>2. p < c[k] /\ c[k] \in S
    BY <1>3, <1>4, <1>5, <2>1
  <2> QED BY <2>2
<1>8. n + 1 + 1 = n + 2
  BY <1>4
<1> QED BY <1>1, <1>2, <1>4, <1>6, <1>7, <1>8 DEF Passed

(* What lies ahead is not inside a match that has been passed. *)
LEMMA NotInside ==
  ASSUME NEW r, IsRow(r), NEW S, S \in SUBSET Start(r), Rising(S, InOrder(S)),
         NEW n, NEW o \in Nat, Passed(r, S, n, o), NEW p \in Nat, o <= p
  PROVE  \A k \in 1 .. n : /\ <<InOrder(S)[k], p>> \notin Inside(r)
                           /\ InOrder(S)[k] \in S /\ InOrder(S)[k] < p
<1> SUFFICES ASSUME NEW k \in 1 .. n
             PROVE  /\ <<InOrder(S)[k], p>> \notin Inside(r)
                    /\ InOrder(S)[k] \in S /\ InOrder(S)[k] < p
  OBVIOUS
<1>1. k \in 1 .. Cardinality(S)
  BY DEF Passed, Rising
<1>2. PICK q \in S : q = InOrder(S)[k]
  BY <1>1 DEF Rising
<1>3. q \in Nat /\ r.hit[q] \in Nat
  BY DEF IsRow
<1>4. q < o /\ q + r.hit[q] <= o
  BY <1>2 DEF Passed
<1>5. <<q, p>> \notin Inside(r)
  BY <1>3, <1>4 DEF Inside
<1> QED BY <1>2, <1>3, <1>4, <1>5

(* The places taken are apart. *)
LEMMA TakenApart ==
  ASSUME NEW r, IsRow(r), NEW Bars, Upward(Bars), NEW S, S = Taken(Start(r), Bars),
         Inside(r) \subseteq Bars, NEW p \in S, NEW s \in S, p < s
  PROVE  p + r.hit[p] <= s
<1>1. <<p, s>> \notin Bars /\ p \in Start(r) /\ s \in Start(r)
  BY TakenPlaces DEF IsTaken
<1>2. p \in Nat /\ s \in Nat /\ r.hit[p] \in Nat
  BY <1>1 DEF IsRow
<1>3. ~ (p + r.hit[p] > s)
  BY <1>1 DEF Inside, Earlier
<1> QED BY <1>2, <1>3

-----------------------------------------------------------------------------
(* What bars a place from being counted, and from being replaced.           *)
CountBars(r) == Inside(r) \cup {e \in Earlier(r) : e[2] = r.size /\ After(r, e[1]) >= r.size}
ReplaceBars(r) ==
  Inside(r) \cup
    {e \in Earlier(r) : r.hit[e[1]] > 0 /\ r.hit[e[2]] = 0 /\ e[1] + r.hit[e[1]] = e[2]}

(* Both bar only places further on. *)
LEMMA BarsUpward ==
  ASSUME NEW r
  PROVE  /\ Upward(Inside(r)) /\ Upward(CountBars(r)) /\ Upward(ReplaceBars(r))
         /\ Counted(r) = Taken(Start(r), CountBars(r)) /\ Inside(r) \subseteq CountBars(r)
         /\ Replaced(r) = Taken(Start(r), ReplaceBars(r)) /\ Inside(r) \subseteq ReplaceBars(r)
<1>1. \A e \in Earlier(r) : e[1] < e[2]
  BY DEF Earlier
<1>2. Upward(Inside(r)) /\ Upward(CountBars(r)) /\ Upward(ReplaceBars(r))
  BY <1>1 DEF Upward, Inside, CountBars, ReplaceBars
<1>3. Counted(r) = Taken(Start(r), CountBars(r)) /\ Replaced(r) = Taken(Start(r), ReplaceBars(r))
  BY DEF Counted, Replaced, CountBars, ReplaceBars
<1>4. Inside(r) \subseteq CountBars(r) /\ Inside(r) \subseteq ReplaceBars(r)
  BY DEF CountBars, ReplaceBars
<1> QED BY <1>2, <1>3, <1>4

(* The places counted are among those where the pattern matches, in order. *)
LEMMA CountedPlaces ==
  ASSUME NEW r, IsRow(r)
  PROVE  Counted(r) \in SUBSET Start(r) /\ Rising(Counted(r), InOrder(Counted(r)))
BY BarsUpward, TakenPlaces

(* And so are the places replaced. *)
LEMMA ReplacedPlaces ==
  ASSUME NEW r, IsRow(r)
  PROVE  Replaced(r) \in SUBSET Start(r) /\ Rising(Replaced(r), InOrder(Replaced(r)))
BY BarsUpward, TakenPlaces

(* p is the first place of r at or behind offset o where the pattern matches. *)
FirstAhead(r, o, p) == p \in Start(r) /\ o <= p /\ \A s \in Start(r) : o <= s => p <= s

(* u is where a loop may go on behind the match at p. *)
Beyond(r, p, u) ==
  /\ u \in Nat /\ p < u /\ p + r.hit[p] <= u
  /\ \A s \in r.chars : p < s /\ p + r.hit[p] <= s => u <= s

(* The match found first is the next one counted. *)
LEMMA CountsNext ==
  ASSUME NEW r, IsRow(r), NEW n, NEW o \in Nat, Passed(r, Counted(r), n, o),
         NEW p, FirstAhead(r, o, p),
         p = r.size => \A k \in 1 .. n : ~ (After(r, InOrder(Counted(r))[k]) >= r.size)
  PROVE  /\ p \in Counted(r) /\ n + 1 \in 1 .. Cardinality(Counted(r))
         /\ InOrder(Counted(r))[n + 1] = p
<1>1. PICK S : S = Counted(r) /\ S = Taken(Start(r), CountBars(r))
  BY BarsUpward
<1>2. S \in SUBSET Start(r) /\ Rising(S, InOrder(S)) /\ Passed(r, S, n, o)
  BY <1>1, CountedPlaces
<1>3. p \in Start(r) /\ p \in Nat /\ r.size \in Nat /\ o <= p
  BY DEF FirstAhead, IsRow
<1>4. \A k \in 1 .. n : <<InOrder(S)[k], p>> \notin Inside(r) /\ InOrder(S)[k] \in S
  BY <1>2, <1>3, NotInside
<1>5. ASSUME NEW k \in 1 .. n PROVE <<InOrder(S)[k], p>> \notin CountBars(r)
  <2>1. PICK q \in Start(r) : q = InOrder(S)[k]
    BY <1>2, <1>4
  <2>2. r.hit[q] \in Nat /\ q \in Nat
    BY DEF IsRow
  <2>3. p = r.size => ~ (After(r, q) >= r.size)
    BY <1>1, <2>1
  <2> QED BY <1>4, <2>1, <2>3 DEF CountBars
<1> QED BY <1>1, <1>2, <1>3, <1>5, BarsUpward, NextTaken DEF FirstAhead

(* Behind it the loop has passed one more. *)
LEMMA CountPasses ==
  ASSUME NEW r, IsRow(r), NEW n, NEW o \in Nat, Passed(r, Counted(r), n, o),
         n + 1 \in 1 .. Cardinality(Counted(r)),
         NEW p, p = InOrder(Counted(r))[n + 1], NEW u, Beyond(r, p, u)
  PROVE  Passed(r, Counted(r), n + 1, u)
<1>1. PICK S : S = Counted(r) /\ S = Taken(Start(r), CountBars(r))
  BY BarsUpward
<1>2. S \in SUBSET Start(r) /\ p \in S
  BY <1>1, CountedPlaces DEF Rising
<1>3. \A s \in S : p < s => u <= s
  <2>1. \A s \in S : p < s => p + r.hit[p] <= s
    BY <1>1, <1>2, BarsUpward, TakenApart
  <2>2. \A s \in S : s \in r.chars
    BY <1>2 DEF IsRow
  <2> QED BY <2>1, <2>2 DEF Beyond
<1> QED BY <1>1, <1>3, BarsUpward, PassesNext DEF Beyond

(* Where it does not go on none is left. *)
LEMMA CountEnds ==
  ASSUME NEW r, IsRow(r), NEW n, NEW o \in Nat, Passed(r, Counted(r), n, o),
         n + 1 \in 1 .. Cardinality(Counted(r)),
         NEW p, p = InOrder(Counted(r))[n + 1], NEW u, Beyond(r, p, u),
         r.size <= u, p < r.size => After(r, p) = u
  PROVE  n + 1 = Cardinality(Counted(r))
<1>1. PICK S : S = Counted(r) /\ S = Taken(Start(r), CountBars(r))
  BY BarsUpward
<1>2. S \in SUBSET Start(r) /\ p \in S /\ IsTaken(Start(r), CountBars(r), S)
  BY <1>1, CountedPlaces, TakenPlaces, BarsUpward DEF Rising
<1>3. Passed(r, S, n + 1, u)
  BY <1>1, CountPasses
<1>4. ASSUME NEW s \in S, u <= s PROVE FALSE
  <2>1. s \in Start(r) /\ p \in Start(r) /\ r.size \in Nat /\ s \in 0 .. r.size /\ p \in Nat
    BY <1>2 DEF IsRow
  <2>2. u \in Nat /\ p < u
    BY DEF Beyond
  <2>3. s = r.size /\ p < s /\ u >= r.size
    BY <1>4, <2>1, <2>2
  <2>4. After(r, p) = u
    BY <2>3
  <2>5. <<p, s>> \in Earlier(r)
    BY <2>1, <2>3 DEF Earlier
  <2>6. <<p, s>> \in CountBars(r)
    BY <2>3, <2>4, <2>5 DEF CountBars
  <2> QED BY <1>2, <2>1, <2>6 DEF IsTaken
<1>5. u \in Nat
  BY DEF Beyond
<1> QED BY <1>1, <1>3, <1>4, <1>5, BarsUpward, NoneLeft

(* The match found first is the next one replaced, unless it is empty where another ends. *)
LEMMA ReplacesNext ==
  ASSUME NEW r, IsRow(r), NEW n, NEW o \in Nat, Passed(r, Replaced(r), n, o),
         NEW p, FirstAhead(r, o, p),
         r.hit[p] = 0 => \A k \in 1 .. n :
           LET q == InOrder(Replaced(r))[k] IN r.hit[q] > 0 => q + r.hit[q] < p
  PROVE  /\ p \in Replaced(r) /\ n + 1 \in 1 .. Cardinality(Replaced(r))
         /\ InOrder(Replaced(r))[n + 1] = p
<1>1. PICK S : S = Replaced(r) /\ S = Taken(Start(r), ReplaceBars(r))
  BY BarsUpward
<1>2. S \in SUBSET Start(r) /\ Rising(S, InOrder(S)) /\ Passed(r, S, n, o)
  BY <1>1, ReplacedPlaces
<1>3. p \in Start(r) /\ p \in Nat /\ o <= p
  BY DEF FirstAhead, IsRow
<1>4. \A k \in 1 .. n : <<InOrder(S)[k], p>> \notin Inside(r) /\ InOrder(S)[k] \in S
  BY <1>2, <1>3, NotInside
<1>5. ASSUME NEW k \in 1 .. n PROVE <<InOrder(S)[k], p>> \notin ReplaceBars(r)
  <2>1. PICK q \in Start(r) : q = InOrder(S)[k]
    BY <1>2, <1>4
  <2>2. r.hit[q] \in Nat /\ q \in Nat
    BY DEF IsRow
  <2>3. ~ (r.hit[q] > 0 /\ r.hit[p] = 0 /\ q + r.hit[q] = p)
    <3>1. r.hit[p] = 0 /\ r.hit[q] > 0 => q + r.hit[q] < p
      BY <1>1, <2>1
    <3> QED BY <1>3, <2>2, <3>1
  <2> QED BY <1>4, <2>1, <2>3 DEF ReplaceBars
<1> QED BY <1>1, <1>2, <1>3, <1>5, BarsUpward, NextTaken DEF FirstAhead

(* Behind it the loop has passed one more. *)
LEMMA ReplacePasses ==
  ASSUME NEW r, IsRow(r), NEW n, NEW o \in Nat, Passed(r, Replaced(r), n, o),
         n + 1 \in 1 .. Cardinality(Replaced(r)),
         NEW p, p = InOrder(Replaced(r))[n + 1], NEW u, Beyond(r, p, u)
  PROVE  Passed(r, Replaced(r), n + 1, u)
<1>1. PICK S : S = Replaced(r) /\ S = Taken(Start(r), ReplaceBars(r))
  BY BarsUpward
<1>2. S \in SUBSET Start(r) /\ p \in S
  BY <1>1, ReplacedPlaces DEF Rising
<1>3. \A s \in S : p < s => u <= s
  <2>1. \A s \in S : p < s => p + r.hit[p] <= s
    BY <1>1, <1>2, BarsUpward, TakenApart
  <2>2. \A s \in S : s \in r.chars
    BY <1>2 DEF IsRow
  <2> QED BY <2>1, <2>2 DEF Beyond
<1> QED BY <1>1, <1>3, BarsUpward, PassesNext DEF Beyond

(* A match that reaches the end, or behind which there is nowhere to go on, is the last one. *)
LEMMA ReplaceEnds ==
  ASSUME NEW r, IsRow(r), NEW n, NEW o \in Nat, Passed(r, Replaced(r), n, o),
         n + 1 \in 1 .. Cardinality(Replaced(r)),
         NEW p, p = InOrder(Replaced(r))[n + 1], NEW u, Beyond(r, p, u),
         p + r.hit[p] = r.size \/ u > r.size
  PROVE  n + 1 = Cardinality(Replaced(r))
<1>1. PICK S : S = Replaced(r) /\ S = Taken(Start(r), ReplaceBars(r))
  BY BarsUpward
<1>2. S \in SUBSET Start(r) /\ p \in S /\ IsTaken(Start(r), ReplaceBars(r), S)
  BY <1>1, ReplacedPlaces, TakenPlaces, BarsUpward DEF Rising
<1>3. Passed(r, S, n + 1, u)
  BY <1>1, ReplacePasses
<1>4. ASSUME NEW s \in S, u <= s PROVE FALSE
  <2>1. /\ s \in Start(r) /\ p \in Start(r) /\ r.size \in Nat /\ s \in 0 .. r.size /\ p \in Nat
        /\ r.hit[p] \in Nat /\ r.hit[s] \in Nat /\ s + r.hit[s] \in 0 .. r.size
    BY <1>2 DEF IsRow
  <2>2. u \in Nat /\ p < u /\ p + r.hit[p] <= u
    BY DEF Beyond
  <2>3. s = r.size /\ p < s /\ p + r.hit[p] = s /\ r.hit[s] = 0 /\ r.hit[p] > 0
    BY <1>4, <2>1, <2>2
  <2>4. <<p, s>> \in Earlier(r)
    BY <2>1, <2>3 DEF Earlier
  <2>5. <<p, s>> \in ReplaceBars(r)
    BY <2>3, <2>4 DEF ReplaceBars
  <2> QED BY <1>2, <2>1, <2>5 DEF IsTaken
<1>5. u \in Nat
  BY DEF Beyond
<1> QED BY <1>1, <1>3, <1>4, <1>5, BarsUpward, NoneLeft

(* An empty match where one that is not empty ends is none of them, and the next character is *)
(* far enough on.                                                                             *)
LEMMA ReplaceSkips ==
  ASSUME NEW r, IsRow(r), NEW n, NEW o \in Nat, Passed(r, Replaced(r), n, o),
         o \in Start(r), r.hit[o] = 0,
         NEW k \in 1 .. n, r.hit[InOrder(Replaced(r))[k]] > 0,
         InOrder(Replaced(r))[k] + r.hit[InOrder(Replaced(r))[k]] = o,
         NEW u \in Nat, o < u, \A s \in r.chars : o < s => u <= s
  PROVE  Passed(r, Replaced(r), n, u)
<1>1. PICK S : S = Replaced(r) /\ S = Taken(Start(r), ReplaceBars(r))
  BY BarsUpward
<1>2. S \in SUBSET Start(r) /\ Rising(S, InOrder(S)) /\ IsTaken(Start(r), ReplaceBars(r), S)
  BY <1>1, ReplacedPlaces, TakenPlaces, BarsUpward
<1>3. PICK c : c = InOrder(S)
  OBVIOUS
<1>4. PICK z \in Nat : z = Cardinality(S) /\ \A l \in 1 .. z : c[l] \in S
  BY <1>2, <1>3 DEF Rising
<1>5. /\ n \in 0 .. z
      /\ \A l \in 1 .. n : c[l] < o /\ c[l] + r.hit[c[l]] <= o
      /\ \A l \in n + 1 .. z : o <= c[l]
  BY <1>1, <1>3, <1>4 DEF Passed
<1>6. o \notin S
  <2>1. PICK q \in S : q = c[k]
    BY <1>4, <1>5
  <2>2. q \in Start(r) /\ q < o /\ r.hit[q] > 0 /\ q + r.hit[q] = o
    BY <1>1, <1>2, <1>3, <1>5, <2>1
  <2>3. <<q, o>> \in ReplaceBars(r)
    BY <2>2 DEF ReplaceBars, Earlier
  <2> QED BY <1>2, <2>1, <2>3 DEF IsTaken
<1>7. ASSUME NEW l \in n + 1 .. z PROVE u <= c[l]
  <2>1. l \in 1 .. z /\ o <= c[l]
    BY <1>5
  <2>2. PICK s \in Start(r) : s = c[l] /\ s \in S
    BY <1>2, <1>4, <2>1
  <2>3. s # o /\ s \in r.chars /\ s \in Nat
    BY <1>6, <2>2 DEF IsRow
  <2> QED BY <2>1, <2>2, <2>3
<1>8. ASSUME NEW l \in 1 .. n PROVE c[l] < u /\ c[l] + r.hit[c[l]] <= u
  <2>0. l \in 1 .. z
    BY <1>5
  <2>1. c[l] \in Start(r)
    BY <1>2, <1>4, <2>0
  <2>2. c[l] \in Nat /\ r.hit[c[l]] \in Nat
    BY <2>1 DEF IsRow
  <2> QED BY <1>5, <2>2
<1> QED BY <1>1, <1>3, <1>4, <1>5, <1>7, <1>8 DEF Passed

-----------------------------------------------------------------------------
(* Where no match is empty nothing else bars a place from being replaced. *)
LEMMA SolidChain ==
  ASSUME NEW r, IsRow(r), \A p \in Start(r) : r.hit[p] # 0,
         NEW f \in Start(r), \A p \in Start(r) : f <= p
  PROVE  Taken({p \in Start(r) : p >= f}, Inside(r)) = Replaced(r)
<1>1. {p \in Start(r) : p >= f} = Start(r)
  <2>1. \A p \in Start(r) : p \in Nat
    BY DEF IsRow
  <2> QED BY <2>1
<1>2. ReplaceBars(r) = Inside(r)
  BY DEF ReplaceBars, Earlier
<1> QED BY <1>1, <1>2, BarsUpward

(* Some bytes of a row. *)
LEMMA BytesAre ==
  ASSUME NEW a \in Int, NEW b \in Int
  PROVE  /\ Bytes(a, b) \in Seq(Int)
         /\ a <= b => /\ Len(Bytes(a, b)) = b - a
                      /\ \A k \in 1 .. b - a : Bytes(a, b)[k] = a + k
         /\ b <= a => Bytes(a, b) = <<>>
<1>1. CASE a <= b
  <2>1. PICK n \in Nat : n = b - a
    BY <1>1
  <2>2. Bytes(a, b) = [k \in 1 .. n |-> a + k]
    BY <2>1 DEF Bytes
  <2>3. \A k \in 1 .. n : a + k \in Int
    OBVIOUS
  <2>4. Bytes(a, b) \in Seq(Int) /\ Len(Bytes(a, b)) = n
    BY <2>2, <2>3
  <2>5. a = b => Bytes(a, b) = <<>>
    BY <2>1, <2>4
  <2> QED BY <1>1, <2>1, <2>2, <2>4, <2>5
<1>2. CASE b < a
  <2>1. 1 .. b - a = {}
    BY <1>2
  <2>2. Bytes(a, b) = <<>>
    BY <2>1 DEF Bytes
  <2> QED BY <1>2, <2>2
<1> QED BY <1>1, <1>2

(* Bytes next to one another. *)
LEMMA BytesJoin ==
  ASSUME NEW a \in Int, NEW b \in Int, NEW c \in Int, a <= b, b <= c
  PROVE  Bytes(a, b) \o Bytes(b, c) = Bytes(a, c)
<1>1. PICK s \in Seq(Int), t \in Seq(Int), u \in Seq(Int) :
        s = Bytes(a, b) /\ t = Bytes(b, c) /\ u = Bytes(a, c)
  BY BytesAre
<1>2. /\ Len(s) = b - a /\ \A k \in 1 .. b - a : s[k] = a + k
      /\ Len(t) = c - b /\ \A k \in 1 .. c - b : t[k] = b + k
      /\ Len(u) = c - a /\ \A k \in 1 .. c - a : u[k] = a + k
  <2>1. Len(s) = b - a /\ \A k \in 1 .. b - a : s[k] = a + k
    BY <1>1, BytesAre
  <2>2. Len(t) = c - b /\ \A k \in 1 .. c - b : t[k] = b + k
    BY <1>1, BytesAre
  <2>3. a <= c
    OBVIOUS
  <2>4. Len(u) = c - a /\ \A k \in 1 .. c - a : u[k] = a + k
    BY <1>1, <2>3, BytesAre
  <2> QED BY <2>1, <2>2, <2>4
<1>3. s \o t \in Seq(Int) /\ Len(s \o t) = Len(u) /\ Len(s \o t) = Len(s) + Len(t)
  <2>1. s \o t \in Seq(Int) /\ Len(s \o t) = Len(s) + Len(t)
    OBVIOUS
  <2>2. Len(s) = b - a /\ Len(t) = c - b /\ Len(u) = c - a
    BY <1>2
  <2> QED BY <2>1, <2>2
<1>4. ASSUME NEW k \in 1 .. Len(u) PROVE (s \o t)[k] = u[k]
  <2>1. CASE k <= b - a
    BY <1>2, <2>1
  <2>2. CASE ~ (k <= b - a)
    <3>0. k \in 1 .. Len(s) + Len(t) /\ Len(s) = b - a /\ Len(t) = c - b
      BY <1>2, <1>3
    <3>1. k - Len(s) \in 1 .. Len(t) /\ k > Len(s)
      BY <2>2, <3>0
    <3>2. (s \o t)[k] = t[k - Len(s)]
      <4>1. \A l \in 1 .. Len(s) + Len(t) :
              (s \o t)[l] = IF l <= Len(s) THEN s[l] ELSE t[l - Len(s)]
        BY ConcatProperties
      <4>2. ~ (k <= Len(s))
        BY <3>0, <3>1
      <4> QED BY <3>0, <4>1, <4>2
    <3>3. k - (b - a) \in 1 .. c - b /\ t[k - (b - a)] = b + (k - (b - a))
      BY <1>2, <3>0, <3>1
    <3>4. (s \o t)[k] = b + (k - (b - a))
      BY <3>0, <3>2, <3>3
    <3> QED BY <1>2, <3>4
  <2> QED BY <2>1, <2>2
<1>5. s \o t = u
  BY <1>3, <1>4, SeqEqual
<1> QED BY <1>1, <1>5

(* What the substituted text is made of, one match after the other. *)
IsBuilt(r, S, by, f) ==
  /\ f \in [0 .. Cardinality(S) -> Seq(Int)]
  /\ f[0] = <<>>
  /\ \A k \in 1 .. Cardinality(S) :
       f[k] = f[k - 1] \o Bytes(EndOf(r, InOrder(S), k - 1), InOrder(S)[k]) \o by
  /\ Substituted(r, S, by)
       = f[Cardinality(S)] \o Bytes(EndOf(r, InOrder(S), Cardinality(S)), r.size)
Built(r, S, by) == CHOOSE f : IsBuilt(r, S, by, f)

(* Places are numbers, and so are the ends of the matches. *)
LEMMA EndsAre ==
  ASSUME NEW r, IsRow(r), NEW S \in SUBSET Start(r), Rising(S, InOrder(S))
  PROVE  /\ Cardinality(S) \in Nat
         /\ \A k \in 1 .. Cardinality(S) : /\ InOrder(S)[k] \in S /\ InOrder(S)[k] \in 0 .. r.size
                                           /\ r.hit[InOrder(S)[k]] \in Nat
         /\ \A k \in 0 .. Cardinality(S) : EndOf(r, InOrder(S), k) \in 0 .. r.size
<1>1. PICK z \in Nat : z = Cardinality(S)
  BY DEF Rising
<1>2. ASSUME NEW k \in 1 .. z
      PROVE  /\ InOrder(S)[k] \in S /\ InOrder(S)[k] \in 0 .. r.size /\ r.hit[InOrder(S)[k]] \in Nat
             /\ InOrder(S)[k] + r.hit[InOrder(S)[k]] \in 0 .. r.size
  <2>1. PICK p \in S : p = InOrder(S)[k]
    BY <1>1 DEF Rising
  <2>2. p \in Start(r) /\ p \in 0 .. r.size /\ r.hit[p] \in Nat /\ p + r.hit[p] \in 0 .. r.size
    BY DEF IsRow
  <2> QED BY <2>1, <2>2
<1>3. ASSUME NEW k \in 0 .. z PROVE EndOf(r, InOrder(S), k) \in 0 .. r.size
  <2>1. CASE k = 0
    BY <2>1 DEF EndOf, IsRow
  <2>2. CASE k \in 1 .. z
    BY <1>2, <2>2 DEF EndOf
  <2> QED BY <2>1, <2>2
<1> QED BY <1>1, <1>2, <1>3

(* It is made so. *)
LEMMA BuiltSo ==
  ASSUME NEW r, IsRow(r), NEW S \in SUBSET Start(r), Rising(S, InOrder(S)), NEW by \in Seq(Int)
  PROVE  IsBuilt(r, S, by, Built(r, S, by))
<1> DEFINE at == InOrder(S)
           m == Cardinality(S)
           V == Seq(Int)
           part(k) == Bytes(EndOf(r, at, k - 1), at[k])
           step == [k \in 1 .. m |-> [x \in V |-> x \o part(k) \o by]]
           Rec(g) == g = [k \in 0 .. m |->
                            IF k = 0 THEN <<>>
                            ELSE g[k - 1] \o Bytes(EndOf(r, at, k - 1), at[k]) \o by]
<1>1. m \in Nat
  BY EndsAre
<1>2. \A k \in 1 .. m : part(k) \in V
  <2>1. SUFFICES ASSUME NEW k \in 1 .. m PROVE part(k) \in V
    OBVIOUS
  <2>2. k - 1 \in 0 .. m
    BY <1>1
  <2>3. PICK a \in Int, b \in Int : a = EndOf(r, at, k - 1) /\ b = at[k]
    <3>1. EndOf(r, at, k - 1) \in 0 .. r.size /\ at[k] \in 0 .. r.size
      BY <2>2, EndsAre
    <3> QED BY <3>1
  <2> QED BY <2>3, BytesAre
<1>3. Substituted(r, S, by) = (CHOOSE g : Rec(g))[m] \o Bytes(EndOf(r, at, m), r.size)
  BY DEF Substituted
<1> HIDE DEF at, m, part
<1>4. <<>> \in V
  OBVIOUS
<1>5. \A k \in 1 .. m : \A x \in V : step[k][x] \in V
  <2>1. SUFFICES ASSUME NEW k \in 1 .. m, NEW x \in V PROVE x \o part(k) \o by \in V
    OBVIOUS
  <2>2. part(k) \in Seq(Int)
    BY <1>2
  <2> QED BY <2>2
<1>6. \E g \in [0 .. m -> V] : Follows(g, m, <<>>, step)
  <2> HIDE DEF step, V
  <2> QED BY <1>1, <1>4, <1>5, RecursionExists
<1>7. PICK g \in [0 .. m -> V] : g[0] = <<>> /\ \A k \in 1 .. m : g[k] = step[k][g[k - 1]]
  BY <1>6 DEF Follows
<1>8. \A k \in 1 .. m : g[k] = g[k - 1] \o part(k) \o by
  <2>1. SUFFICES ASSUME NEW k \in 1 .. m PROVE g[k] = g[k - 1] \o part(k) \o by
    OBVIOUS
  <2>2. g[k - 1] \in V
    BY <1>1
  <2> QED BY <1>7, <2>2
<1>9. Rec(g)
  <2>1. \A k \in 0 .. m : k # 0 => k \in 1 .. m
    BY <1>1
  <2> QED BY <1>7, <1>8, <2>1 DEF part
<1>10. PICK h : h = (CHOOSE f : Rec(f)) /\ Rec(h)
  <2> HIDE DEF Rec
  <2> QED BY <1>9
<1>11. h[0] = <<>> /\ \A k \in 1 .. m : h[k] = h[k - 1] \o part(k) \o by
  <2>1. \A k \in 0 .. m : h[k] = IF k = 0 THEN <<>> ELSE h[k - 1] \o part(k) \o by
    BY <1>10 DEF part
  <2>2. 0 \in 0 .. m /\ \A k \in 1 .. m : k \in 0 .. m /\ k # 0
    BY <1>1
  <2> QED BY <2>1, <2>2
<1>12. h \in [0 .. m -> V]
  <2> DEFINE Good == {k \in Nat : k <= m => h[k] = g[k]}
  <2>1. 0 \in Good
    BY <1>7, <1>11
  <2>2. ASSUME NEW k \in Nat, k \in Good PROVE k + 1 \in Good
    <3>1. k + 1 <= m => h[k + 1] = h[k] \o part(k + 1) \o by /\ g[k + 1] = g[k] \o part(k + 1) \o by
      <4>1. SUFFICES ASSUME k + 1 <= m
                     PROVE  /\ h[k + 1] = h[k] \o part(k + 1) \o by
                            /\ g[k + 1] = g[k] \o part(k + 1) \o by
        OBVIOUS
      <4>2. PICK l \in 1 .. m : l = k + 1 /\ l - 1 = k
        BY <1>1, <4>1
      <4>3. h[l] = h[l - 1] \o part(l) \o by /\ g[l] = g[l - 1] \o part(l) \o by
        BY <1>8, <1>11
      <4> QED BY <4>2, <4>3
    <3>2. k + 1 <= m => k <= m
      BY <1>1
    <3>3. k + 1 <= m => h[k + 1] = g[k + 1]
      BY <2>2, <3>1, <3>2
    <3> QED BY <3>3
  <2> HIDE DEF Good
  <2>3. \A k \in Nat : k \in Good
    BY <2>1, <2>2, SetInduction
  <2>4. \A k \in 0 .. m : h[k] = g[k]
    BY <1>1, <2>3 DEF Good
  <2>5. \A k \in 0 .. m : h[k] \in V
    BY <1>7, <2>4
  <2>6. h = [k \in 0 .. m |-> h[k]]
    BY <1>10
  <2> HIDE DEF V
  <2> QED BY <2>5, <2>6
<1>13. IsBuilt(r, S, by, h)
  BY <1>3, <1>10, <1>11, <1>12 DEF IsBuilt, m, at, part
<1> QED BY <1>13 DEF Built

-----------------------------------------------------------------------------
(* The rows behind the one at hand are answered, and what they have of the  *)
(* spans is not touched again.                                              *)
Span == [offset : Int, length : Int]
Spanned(k) == op \in {"extract", "split"} /\ ~ call.rows[k].na
RowDone(k, kept) ==
  /\ RowExact(k)
  /\ Spanned(k) => answer[k].count \in Nat /\ first[k] + answer[k].count <= kept
RowsInv ==
  /\ DOMAIN answer = DOMAIN call.rows /\ DOMAIN errors = DOMAIN call.rows
  /\ first \in [DOMAIN call.rows -> Nat]
  /\ spans \in Seq(Span)
  /\ pc \in Walking => first[i] <= Len(spans)
  /\ \A k \in DOMAIN call.rows :
       k < i => RowDone(k, IF pc \in Walking THEN first[i] ELSE Len(spans))
  /\ \A k \in DOMAIN call.rows : i <= k => errors[k] = FALSE
  /\ op = "field" => IF pc \in Walking THEN first[i] = 0 ELSE spans = <<>>

(* What a search has found.                                                 *)
Found ==
  /\ got.kind = "match" => /\ FirstAhead(row, offset, got.start)
                           /\ got.end = got.start + row.hit[got.start]
  /\ got.kind = "none" => \A p \in Start(row) : ~ (offset <= p)

(* The row at hand, n of whose places have been passed.                     *)
CountHand(n) ==
  /\ Passed(row, Counted(row), n, offset)
  /\ number = n
  /\ \A k \in 1 .. n : ~ (After(row, InOrder(Counted(row))[k]) >= row.size)
  /\ op = "extract" => /\ Len(spans) = first[i] + n
                       /\ \A k \in 1 .. n : spans[first[i] + k] = MatchSpans(row)[k]

SplitHand(n) ==
  /\ Passed(row, Counted(row), n, offset)
  /\ copied = EndOf(row, InOrder(Counted(row)), n)
  /\ Len(spans) = first[i] + n
  /\ \A k \in 1 .. n : spans[first[i] + k] = Fields(row)[k]

FieldSpans(n) ==
  /\ n \in 0 .. Cardinality(Counted(row))
  /\ Len(spans) = n
  /\ \A k \in 1 .. n : spans[k] = MatchSpans(row)[k]
FieldHand(n) == Passed(row, Counted(row), n, offset) /\ FieldSpans(n)
FieldReady(n) ==
  /\ FieldSpans(n)
  /\ n = Cardinality(Counted(row)) \/ (call.field > 0 /\ call.field <= n)

Traced ==
  /\ slice \in [contiguous : BOOLEAN, has : BOOLEAN, offset : Nat, length : Nat]
  /\ call.repl = "none" /\ slice.contiguous =>
       /\ output = Bytes(slice.offset, slice.offset + slice.length)
       /\ ~ slice.has => slice.length = 0

Barring(n) ==
  /\ barred # None => \E k \in 1 .. n :
       LET q == InOrder(Replaced(row))[k] IN row.hit[q] > 0 /\ q + row.hit[q] = barred
  /\ barred = None /\ call.canEmpty => \A k \in 1 .. n :
       LET q == InOrder(Replaced(row))[k] IN row.hit[q] > 0 => q + row.hit[q] < offset

Made(S, n) ==
  /\ copied = EndOf(row, InOrder(S), n)
  /\ output = Built(row, S, Replacement)[n]
  /\ Traced

GsubHand(n) ==
  /\ Passed(row, Replaced(row), n, offset)
  /\ offset = 0 <=> n = 0
  /\ BuiltIn => offset = 0
  /\ Made(Replaced(row), n)
  /\ Barring(n)

SubHand == offset = 0 /\ copied = 0 /\ output = <<>> /\ slice = NoSlice

Wanted == IF op = "sub" THEN {Least(Start(row))} ELSE Replaced(row)
SubReady == Start(row) # {} /\ Made(Wanted, Cardinality(Wanted))

HandInv ==
  pc \in Walking =>
    /\ ~ Skipped
    /\ pc = "match" => Found
    /\ pc \in {"search", "match"} =>
         /\ op \in {"count", "extract"} => \E n \in Nat : CountHand(n)
         /\ op = "split" => \E n \in Nat : SplitHand(n)
         /\ op = "field" => \E n \in Nat : FieldHand(n)
         /\ op = "gsub"  => \E n \in Nat : GsubHand(n)
         /\ op = "sub"   => SubHand
    /\ pc = "store" => /\ op = "field" => \E n \in Nat : FieldReady(n)
                       /\ op # "field" => op \in {"sub", "gsub"} /\ SubReady
    /\ pc = "retry" => op \in {"sub", "gsub"} /\ BuiltIn /\ Start(row) # {}

-----------------------------------------------------------------------------
(* Parts of two sequences that are the same. *)
LEMMA SamePart ==
  ASSUME NEW V, NEW s \in Seq(V), NEW t \in Seq(V), NEW a \in Nat, NEW c \in Nat,
         a + c <= Len(s), a + c <= Len(t), \A l \in 1 .. a + c : s[l] = t[l]
  PROVE  SubSeq(s, a + 1, a + c) = SubSeq(t, a + 1, a + c)
<1>1. /\ SubSeq(s, a + 1, a + c) = [n \in 1 .. c |-> s[a + n]]
      /\ SubSeq(t, a + 1, a + c) = [n \in 1 .. c |-> t[a + n]]
  OBVIOUS
<1>2. \A n \in 1 .. c : s[a + n] = t[a + n]
  OBVIOUS
<1> QED BY <1>1, <1>2

(* What a part of a sequence is. *)
LEMMA PartIs ==
  ASSUME NEW V, NEW s \in Seq(V), NEW a \in Nat, NEW c \in Nat, a + c <= Len(s),
         NEW u \in Seq(V), Len(u) = c, \A n \in 1 .. c : s[a + n] = u[n]
  PROVE  SubSeq(s, a + 1, a + c) = u
<1>1. SubSeq(s, a + 1, a + c) = [n \in 1 .. c |-> s[a + n]]
  OBVIOUS
<1>2. u = [n \in 1 .. c |-> u[n]]
  OBVIOUS
<1> QED BY <1>1, <1>2

(* A row whose matching did not fail is answered as the row it is.          *)
LEMMA AnsweredExactly ==
  ASSUME NEW k, NEW r, call'.rows[k] = r, ~ errors'[k], Answered(k, r)'
  PROVE  RowExact(k)'
BY DEF RowExact, Answered

(* One whose matching failed may be answered as one that does not match.    *)
LEMMA FailedExactly ==
  ASSUME NEW k, NEW r, call'.rows[k] = r, errors'[k], NEW u, u = Unmatched(r),
         Answered(k, u)'
  PROVE  RowExact(k)'
BY DEF RowExact, Answered, Unmatched

(* What answers one row in a state answers it in the next, if the answer    *)
(* and the spans stay the same.                                             *)
LEMMA AnsweredKept ==
  ASSUME NEW k, NEW r, call' = call, answer'[k] = answer[k],
         op \in {"extract", "split"} /\ ~ r.na => SpansOf(k)' = SpansOf(k), Answered(k, r),
         op \in {"count", "extract", "split", "field", "sub", "gsub"}
  PROVE  Answered(k, r)'
<1>1. op' = op /\ Replacement' = Replacement
  BY DEF op, Replacement
<1>2. CASE r.na \/ op \in {"count", "field", "sub", "gsub"}
  BY <1>1, <1>2 DEF Answered
<1>3. CASE ~ r.na /\ op \in {"extract", "split"}
  BY <1>1, <1>3 DEF Answered
<1> QED BY <1>2, <1>3

(* A row whose answer, error and spans stay the same keeps its answer. *)
LEMMA AnswerKept ==
  ASSUME NEW k, call' = call, answer'[k] = answer[k], errors'[k] = errors[k],
         Spanned(k) => SpansOf(k)' = SpansOf(k), RowExact(k),
         op \in {"count", "extract", "split", "field", "sub", "gsub"}
  PROVE  RowExact(k)'
<1>1. PICK r, u : r = call.rows[k] /\ u = Unmatched(r)
  OBVIOUS
<1>2. call'.rows[k] = r /\ u.na = r.na
  BY <1>1 DEF Unmatched
<1>3. op \in {"extract", "split"} /\ ~ r.na => SpansOf(k)' = SpansOf(k)
  BY <1>1 DEF Spanned
<1>4. CASE ~ errors[k]
  <2>1. Answered(k, r)
    BY <1>1, <1>4 DEF RowExact
  <2>2. Answered(k, r)'
    BY <1>3, <2>1, AnsweredKept
  <2> QED BY <1>2, <1>4, <2>2, AnsweredExactly
<1>5. CASE errors[k] /\ Answered(k, u)
  <2>1. Answered(k, u)'
    BY <1>2, <1>3, <1>5, AnsweredKept
  <2> QED BY <1>1, <1>2, <1>5, <2>1, FailedExactly
<1>6. CASE errors[k] /\ Withheld(k)
  <2>1. op' = op /\ Withheld(k)'
    <3>1. op' = op
      BY DEF op
    <3> QED BY <1>1, <1>3, <1>6, <3>1 DEF Withheld
  <2> QED BY <1>6, <2>1 DEF RowExact
<1> QED BY <1>1, <1>4, <1>5, <1>6 DEF RowExact

(* It stays done. *)
LEMMA DoneKept ==
  ASSUME NEW k, call' = call, answer'[k] = answer[k], errors'[k] = errors[k],
         first'[k] = first[k], first[k] \in Nat,
         spans \in Seq(Span), spans' \in Seq(Span),
         NEW m \in Nat, m <= Len(spans), m <= Len(spans'), \A l \in 1 .. m : spans'[l] = spans[l],
         RowDone(k, m), NEW w \in Nat, m <= w,
         op \in {"count", "extract", "split", "field", "sub", "gsub"}
  PROVE  RowDone(k, w)'
<1>1. op' = op /\ Spanned(k)' = Spanned(k)
  BY DEF op, Spanned
<1>2. ASSUME Spanned(k)
      PROVE  /\ answer[k].count \in Nat /\ first[k] + answer[k].count <= w
             /\ SpansOf(k)' = SpansOf(k)
  <2>1. PICK c \in Nat, a \in Nat : c = answer[k].count /\ a = first[k] /\ a + c <= m
    BY <1>2 DEF RowDone
  <2>2. SubSeq(spans, a + 1, a + c) = SubSeq(spans', a + 1, a + c)
    <3>1. PICK s \in Seq(Span), t \in Seq(Span) : s = spans /\ t = spans'
      OBVIOUS
    <3>2. a + c <= Len(s) /\ a + c <= Len(t) /\ \A l \in 1 .. a + c : s[l] = t[l]
      BY <2>1, <3>1
    <3> QED BY <3>1, <3>2, SamePart
  <2>3. SpansOf(k)' = SpansOf(k)
    BY <2>1, <2>2 DEF SpansOf
  <2> QED BY <2>1, <2>3
<1>3. RowExact(k)'
  BY <1>2, AnswerKept DEF RowDone
<1> QED BY <1>1, <1>2, <1>3 DEF RowDone

(* What the rows are: one after the other, the last ones not yet begun. *)
LEMMA RowTypes ==
  ASSUME WalkInv
  PROVE  /\ DOMAIN call.rows = 1 .. Len(call.rows) /\ Len(call.rows) \in Nat /\ i \in Nat \ {0}
         /\ pc \in Walking => i \in DOMAIN call.rows
         /\ op \in {"count", "extract", "split", "field", "sub", "gsub"}
<1>1. PICK q \in Calls : q = call
  BY DEF WalkInv
<1>2. q.rows \in Seq(Range(q.rows))
  BY MatchAssumption
<1>3. q.op \in {"count", "extract", "split", "field", "sub", "gsub"}
  BY MatchAssumption
<1> QED BY <1>1, <1>2, <1>3 DEF WalkInv, op

(* A row that ends with its answer joins those behind. *)
LEMMA RowJoins ==
  ASSUME WalkInv, RowsInv, pc \in Walking, call' = call, first' = first, i' = i + 1, pc' = "row",
         \E v : answer' = [answer EXCEPT ![i] = v],
         errors' = errors \/ errors' = [errors EXCEPT ![i] = TRUE],
         spans' \in Seq(Span), first[i] <= Len(spans'),
         \A l \in 1 .. first[i] : spans'[l] = spans[l],
         op = "field" => spans' = <<>>,
         NEW k, k = i, RowDone(k, Len(spans))'
  PROVE  RowsInv'
<1>1. i \in DOMAIN call.rows /\ DOMAIN call.rows = 1 .. Len(call.rows) /\ i \in Nat
  BY RowTypes
<1>2. PICK m \in Nat, w \in Nat : m = first[i] /\ w = Len(spans')
  BY <1>1 DEF RowsInv
<1>3. m <= Len(spans) /\ m <= w
  BY <1>2 DEF RowsInv
<1>4. ASSUME NEW l \in DOMAIN call.rows, l < i PROVE RowDone(l, w)'
  <2>1. answer'[l] = answer[l] /\ errors'[l] = errors[l] /\ first'[l] = first[l] /\ first[l] \in Nat
    <3>1. l # i /\ l \in DOMAIN answer /\ l \in DOMAIN errors
      BY <1>1, <1>4 DEF RowsInv
    <3> QED BY <3>1 DEF RowsInv
  <2>2. RowDone(l, m)
    BY <1>2, <1>4 DEF RowsInv
  <2>3. spans \in Seq(Span)
    BY DEF RowsInv
  <2> QED BY <1>2, <1>3, <2>1, <2>2, <2>3, RowTypes, DoneKept
<1>5. ASSUME NEW l \in DOMAIN call.rows, l < i' PROVE RowDone(l, w)'
  <2>1. CASE l = k
    BY <1>2, <2>1
  <2>2. CASE l # k
    <3>1. l < i
      BY <1>1, <1>5, <2>2
    <3> QED BY <1>4, <3>1
  <2> QED BY <2>1, <2>2
<1>6. ASSUME NEW l \in DOMAIN call.rows, i' <= l PROVE errors'[l] = FALSE
  <2>1. i <= l /\ l # i
    BY <1>1, <1>6
  <2> QED BY <2>1 DEF RowsInv
<1>7. pc' \notin Walking /\ op' = op
  BY DEF Walking, op
<1>8. DOMAIN answer' = DOMAIN call.rows /\ DOMAIN errors' = DOMAIN call.rows
  BY DEF RowsInv
<1>9. first' \in [DOMAIN call.rows -> Nat]
  BY DEF RowsInv
<1> QED BY <1>2, <1>5, <1>6, <1>7, <1>8, <1>9 DEF RowsInv

(* While a row is walked those behind it stay. *)
LEMMA RowsStay ==
  ASSUME WalkInv, RowsInv, pc \in Walking, call' = call, first' = first, i' = i, pc' \in Walking,
         answer' = answer, errors' = errors,
         spans' \in Seq(Span), first[i] <= Len(spans'),
         \A l \in 1 .. first[i] : spans'[l] = spans[l]
  PROVE  RowsInv'
<1>1. i \in DOMAIN call.rows /\ DOMAIN call.rows = 1 .. Len(call.rows) /\ i \in Nat
  BY RowTypes
<1>2. PICK m \in Nat : m = first[i]
  BY <1>1 DEF RowsInv
<1>3. m <= Len(spans) /\ m <= Len(spans')
  BY <1>2 DEF RowsInv
<1>4. ASSUME NEW l \in DOMAIN call.rows, l < i PROVE RowDone(l, m)'
  <2>1. answer'[l] = answer[l] /\ errors'[l] = errors[l] /\ first'[l] = first[l] /\ first[l] \in Nat
    BY <1>4 DEF RowsInv
  <2>2. RowDone(l, m)
    BY <1>2, <1>4 DEF RowsInv
  <2>3. spans \in Seq(Span) /\ op \in {"count", "extract", "split", "field", "sub", "gsub"}
    BY RowTypes DEF RowsInv
  <2>4. m <= m
    BY <1>2
  <2>5. \A w \in Nat : m <= w => RowDone(l, w)'
    BY <1>2, <1>3, <2>1, <2>2, <2>3, DoneKept
  <2> QED BY <2>4, <2>5
<1>5. op' = op
  BY DEF op
<1>6. /\ DOMAIN answer' = DOMAIN call.rows /\ DOMAIN errors' = DOMAIN call.rows
      /\ first' \in [DOMAIN call.rows -> Nat]
      /\ \A l \in DOMAIN call.rows : i' <= l => errors'[l] = FALSE
      /\ op' = "field" => first'[i'] = 0
  BY <1>5 DEF RowsInv
<1> QED BY <1>2, <1>3, <1>4, <1>5, <1>6 DEF RowsInv

-----------------------------------------------------------------------------
(* The row at hand. *)
LEMMA HandRow ==
  ASSUME WalkInv, RowsInv, pc \in Walking
  PROVE  /\ IsRow(row) /\ row = call.rows[i] /\ i \in DOMAIN call.rows /\ errors[i] = FALSE
         /\ i \in Nat /\ first[i] \in Nat /\ first[i] <= Len(spans) /\ spans \in Seq(Span)
         /\ DOMAIN answer = DOMAIN call.rows /\ DOMAIN errors = DOMAIN call.rows
<1>1. call \in Calls /\ i \in DOMAIN call.rows /\ i \in Nat
  BY RowTypes DEF WalkInv
<1>2. IsRow(call.rows[i])
  BY <1>1, RowsAre
<1> QED BY <1>1, <1>2 DEF row, RowsInv

(* A match found is the first one ahead, and Onward lies beyond it. *)
LEMMA MatchFound ==
  ASSUME WalkInv, RowsInv, Found, pc = "match", got.kind = "match"
  PROVE  /\ offset \in Nat /\ FirstAhead(row, offset, got.start) /\ Beyond(row, got.start, Onward)
         /\ got.start \in Start(row) /\ got.start \in Nat /\ row.hit[got.start] \in Nat
         /\ got.end = got.start + row.hit[got.start] /\ got.end \in Nat /\ got.end <= row.size
         /\ row.size \in Nat
         /\ Empty <=> row.hit[got.start] = 0
         /\ got.start < row.size => After(row, got.start) = Onward
<1>1. /\ row.size \in Nat /\ row.chars \subseteq 0 .. row.size /\ row.size \in row.chars
      /\ IsRow(row)
  BY RowInHand, HandRow DEF Walking
<1>2. /\ FirstAhead(row, offset, got.start) /\ got.end = got.start + row.hit[got.start]
      /\ offset \in row.chars
  BY DEF Found, WalkInv
<1>3. PICK p \in Start(row) : p = got.start
  BY <1>2 DEF FirstAhead
<1>4. /\ p \in Nat /\ row.hit[p] \in Nat /\ p \in row.chars
      /\ p + row.hit[p] \in row.chars
  BY <1>1 DEF IsRow
<1>5. Empty <=> row.hit[p] = 0
  BY <1>2, <1>3, <1>4 DEF Empty
<1>6. Beyond(row, p, Onward) /\ (p < row.size => After(row, p) = Onward)
  <2>1. CASE row.hit[p] = 0
    <3>1. Onward = StepPast(p)
      BY <1>2, <1>3, <1>4, <1>5, <2>1 DEF Onward
    <3>2. PICK u : u = StepPast(p)
      OBVIOUS
    <3>3. /\ u \in Nat /\ u > p /\ (u <= row.size => u \in row.chars)
          /\ p < row.size => u <= row.size
          /\ \A q \in row.chars : q > p => u <= q
      BY <1>1, <1>4, <3>2, StepPastLands
    <3>4. Beyond(row, p, u)
      BY <1>1, <1>4, <2>1, <3>3 DEF Beyond
    <3>5. p < row.size => After(row, p) = u
      <4> DEFINE Next1(x) == x > p /\ \A s \in row.chars : s > p => x <= s
      <4>1. SUFFICES ASSUME p < row.size PROVE After(row, p) = u
        OBVIOUS
      <4>2. u \in row.chars /\ Next1(u)
        BY <1>1, <3>3, <4>1
      <4>3. After(row, p) = CHOOSE x \in row.chars : Next1(x)
        BY <2>1 DEF After
      <4>4. PICK v \in row.chars : v = After(row, p) /\ Next1(v)
        <5> HIDE DEF Next1
        <5> QED BY <4>2, <4>3
      <4>5. u <= v /\ v <= u /\ u \in Nat /\ v \in Nat
        BY <1>1, <4>2, <4>4
      <4> QED BY <4>4, <4>5
    <3> QED BY <3>1, <3>2, <3>4, <3>5
  <2>2. CASE row.hit[p] # 0
    <3>1. Onward = p + row.hit[p]
      BY <1>2, <1>3, <1>5, <2>2 DEF Onward
    <3>2. row.hit[p] > 0
      BY <1>4, <2>2
    <3>3. After(row, p) = p + row.hit[p]
      BY <3>2 DEF After
    <3>4. Beyond(row, p, p + row.hit[p])
      BY <1>4, <3>2 DEF Beyond
    <3> QED BY <3>1, <3>3, <3>4
  <2> QED BY <2>1, <2>2
<1> QED BY <1>1, <1>2, <1>3, <1>4, <1>5, <1>6

(* What is between two rows is of no row. *)
LEMMA HandEmpty ==
  ASSUME pc' \notin Walking
  PROVE  HandInv'
BY DEF HandInv, Walking

(* The spans of the matches, in order. *)
LEMMA MatchSpansAre ==
  ASSUME NEW r, IsRow(r)
  PROVE  /\ MatchSpans(r) = [k \in 1 .. Cardinality(Counted(r)) |->
              [offset |-> InOrder(Counted(r))[k], length |-> r.hit[InOrder(Counted(r))[k]]]]
         /\ MatchSpans(r) \in Seq(Span) /\ Len(MatchSpans(r)) = Cardinality(Counted(r))
         /\ Cardinality(Counted(r)) \in Nat
<1>1. PICK S \in SUBSET Start(r) : S = Counted(r) /\ Rising(S, InOrder(S))
  BY CountedPlaces
<1>2. PICK z \in Nat : z = Cardinality(S)
  BY <1>1, EndsAre
<1>3. DOMAIN InOrder(S) = 1 .. z
  BY <1>1, <1>2 DEF Rising
<1>4. PICK m : m = MatchSpans(r)
  OBVIOUS
<1>5. m = [k \in 1 .. z |-> [offset |-> InOrder(S)[k], length |-> r.hit[InOrder(S)[k]]]]
  BY <1>1, <1>3, <1>4 DEF MatchSpans
<1>6. \A k \in 1 .. z : InOrder(S)[k] \in Int /\ r.hit[InOrder(S)[k]] \in Int
  <2>1. SUFFICES ASSUME NEW k \in 1 .. z
                 PROVE  InOrder(S)[k] \in Int /\ r.hit[InOrder(S)[k]] \in Int
    OBVIOUS
  <2>2. InOrder(S)[k] \in 0 .. r.size /\ r.hit[InOrder(S)[k]] \in Nat
    BY <1>1, <1>2, EndsAre
  <2> QED BY <2>2
<1>7. \A k \in 1 .. z : m[k] \in Span
  BY <1>5, <1>6 DEF Span
<1>8. m \in Seq(Span) /\ Len(m) = z
  <2>1. m = [k \in 1 .. z |-> m[k]]
    BY <1>5
  <2>2. m \in Seq(Span)
    BY <1>7, <2>1
  <2> QED BY <2>1, <2>2
<1> QED BY <1>1, <1>2, <1>4, <1>5, <1>8
-----------------------------------------------------------------------------
(* One more match is counted. *)
LEMMA CountStep ==
  ASSUME WalkInv, RowsInv, HandInv, CountMatch
  PROVE  \E n \in Nat :
           /\ CountHand(n) /\ Passed(row, Counted(row), n + 1, Onward)
           /\ got.start = InOrder(Counted(row))[n + 1]
           /\ n + 1 \in 1 .. Cardinality(Counted(row))
           /\ AtEnd => n + 1 = Cardinality(Counted(row))
           /\ ~ AtEnd => ~ (After(row, got.start) >= row.size)
<1>1. pc = "match" /\ got.kind = "match" /\ op \in {"count", "extract"}
  BY DEF CountMatch
<1>2. Found
  BY <1>1 DEF HandInv, Walking
<1>3. PICK n \in Nat : CountHand(n)
  BY <1>1 DEF HandInv, Walking
<1>4. PICK r, p, u : r = row /\ p = got.start /\ u = Onward
  OBVIOUS
<1>5. IsRow(r) /\ offset \in Nat /\ FirstAhead(r, offset, p) /\ Beyond(r, p, u)
      /\ (p < r.size => After(r, p) = u) /\ r.size \in Nat /\ got.end <= r.size /\ p \in Nat
      /\ got.end = p + r.hit[p]
  BY <1>1, <1>2, <1>4, HandRow, MatchFound DEF Walking
<1>6. Passed(r, Counted(r), n, offset)
  BY <1>3, <1>4 DEF CountHand
<1>7. \A k \in 1 .. n : ~ (After(r, InOrder(Counted(r))[k]) >= r.size)
  BY <1>3, <1>4 DEF CountHand
<1>8. n + 1 \in 1 .. Cardinality(Counted(r)) /\ InOrder(Counted(r))[n + 1] = p
  BY <1>5, <1>6, <1>7, CountsNext
<1>9. Passed(r, Counted(r), n + 1, u)
  BY <1>5, <1>6, <1>8, CountPasses
<1>10. AtEnd => n + 1 = Cardinality(Counted(r))
  <2>1. AtEnd => r.size <= u
    <3>1. u \in Nat /\ p + r.hit[p] <= u
      BY <1>5 DEF Beyond
    <3> QED BY <1>4, <1>5, <3>1 DEF AtEnd
  <2> QED BY <1>5, <1>6, <1>8, <2>1, CountEnds
<1>11. ~ AtEnd => ~ (After(r, p) >= r.size)
  <2>1. ~ AtEnd => ~ (u >= r.size)
    BY <1>4 DEF AtEnd
  <2>2. u \in Nat /\ p < u
    BY <1>5 DEF Beyond
  <2> QED BY <1>5, <2>1, <2>2
<1> QED BY <1>3, <1>4, <1>8, <1>9, <1>10, <1>11

(* Counting a match keeps the invariant. *)
LEMMA CountMatchKeeps ==
  ASSUME WalkInv, RowsInv, HandInv, CountMatch
  PROVE  RowsInv' /\ HandInv'
<1>1. /\ pc = "match" /\ op \in {"count", "extract"} /\ call' = call /\ first' = first
      /\ errors' = errors /\ number' = number + 1 /\ got' = got
  BY DEF CountMatch
<1>2. PICK n \in Nat :
        /\ CountHand(n) /\ Passed(row, Counted(row), n + 1, Onward)
        /\ got.start = InOrder(Counted(row))[n + 1]
        /\ n + 1 \in 1 .. Cardinality(Counted(row))
        /\ AtEnd => n + 1 = Cardinality(Counted(row))
        /\ ~ AtEnd => ~ (After(row, got.start) >= row.size)
  BY CountStep
<1>3. /\ IsRow(row) /\ i \in DOMAIN call.rows /\ i \in Nat /\ first[i] \in Nat
      /\ first[i] <= Len(spans) /\ spans \in Seq(Span) /\ errors[i] = FALSE
      /\ DOMAIN answer = DOMAIN call.rows /\ row = call.rows[i] /\ pc \in Walking
  BY <1>1, HandRow DEF Walking
<1>4. PICK r, m : r = row /\ m = first[i] /\ m \in Nat
  BY <1>3
<1>5. /\ got.start \in Nat /\ got.end - got.start = r.hit[got.start]
      /\ got.end \in Nat /\ Found
  <2>1. Found /\ got.kind = "match"
    BY <1>1 DEF HandInv, Walking, CountMatch
  <2>2. /\ got.start \in Nat /\ row.hit[got.start] \in Nat
        /\ got.end = got.start + row.hit[got.start] /\ got.end \in Nat
    BY <1>1, <2>1, MatchFound
  <2> QED BY <1>4, <2>1, <2>2
<1>6. PICK e \in Span : e = [offset |-> got.start, length |-> got.end - got.start]
  <2>1. got.start \in Int /\ got.end - got.start \in Int
    BY <1>5
  <2>2. [offset |-> got.start, length |-> got.end - got.start] \in Span
    BY <2>1 DEF Span
  <2> QED BY <2>2
<1>7. PICK c : c = InOrder(Counted(r))
  OBVIOUS
<1>8. spans' = IF op = "count" THEN spans ELSE Append(spans, e)
  BY <1>6 DEF CountMatch
<1>9. /\ spans' \in Seq(Span) /\ m <= Len(spans')
      /\ \A l \in 1 .. m : spans'[l] = spans[l]
  <2>1. CASE op = "count"
    BY <1>3, <1>4, <1>8, <2>1
  <2>2. CASE op # "count"
    <3>1. spans' = Append(spans, e)
      BY <1>8, <2>2
    <3> QED BY <1>3, <1>4, <1>6, <3>1
  <2> QED BY <2>1, <2>2
<1>10. op = "extract" => /\ Len(spans') = m + (n + 1)
                         /\ \A k \in 1 .. n + 1 : spans'[m + k] = MatchSpans(r)[k]
  <2>1. SUFFICES ASSUME op = "extract"
                 PROVE  /\ Len(spans') = m + (n + 1)
                        /\ \A k \in 1 .. n + 1 : spans'[m + k] = MatchSpans(r)[k]
    OBVIOUS
  <2>2. spans' = Append(spans, e)
    BY <1>8, <2>1
  <2>3. Len(spans) = m + n /\ \A k \in 1 .. n : spans[m + k] = MatchSpans(r)[k]
    BY <1>2, <1>4, <2>1 DEF CountHand
  <2>4. MatchSpans(r)[n + 1] = e
    <3>1. n + 1 \in 1 .. Cardinality(Counted(r)) /\ got.start = c[n + 1]
      BY <1>2, <1>4, <1>7
    <3>2. MatchSpans(r) = [k \in 1 .. Cardinality(Counted(r)) |->
                             [offset |-> c[k], length |-> r.hit[c[k]]]]
      BY <1>3, <1>4, <1>7, MatchSpansAre
    <3> QED BY <1>5, <1>6, <3>1, <3>2
  <2>5. /\ Len(spans') = m + (n + 1) /\ spans'[m + (n + 1)] = e
        /\ \A k \in 1 .. n : spans'[m + k] = spans[m + k]
    <3>1. PICK s \in Seq(Span) : s = spans
      BY <1>3
    <3>2. Len(s) = m + n /\ m \in Nat /\ spans' = Append(s, e)
      BY <1>4, <2>2, <2>3, <3>1
    <3>3. Len(Append(s, e)) = m + (n + 1) /\ Append(s, e)[m + (n + 1)] = e
      BY <3>2
    <3>4. \A k \in 1 .. n : m + k \in 1 .. Len(s)
      BY <3>2
    <3>5. \A l \in 1 .. Len(s) : Append(s, e)[l] = s[l]
      OBVIOUS
    <3> QED BY <3>1, <3>2, <3>3, <3>4, <3>5
  <2> QED BY <2>3, <2>4, <2>5
<1>11. CASE AtEnd
  <2>1. PICK v : v = [kind |-> "matches", count |-> number']
    OBVIOUS
  <2>2. answer' = [answer EXCEPT ![i] = v] /\ i' = i + 1 /\ pc' = "row"
    BY <1>11, <2>1 DEF CountMatch, Finish
  <2>3. PICK k : k = i
    OBVIOUS
  <2>4. answer'[k] = v /\ v.count = n + 1 /\ first'[k] = m
    BY <1>1, <1>2, <1>3, <1>4, <2>1, <2>2, <2>3 DEF CountHand
  <2>5. ~ row.na /\ ~ (call.extended /\ row.size = 0)
    BY <1>1, <1>3 DEF HandInv, Skipped
  <2>6. n + 1 = Cardinality(Counted(r))
    BY <1>2, <1>4, <1>11
  <2>7. op = "extract" => SpansOf(k)' = MatchSpans(r)
    <3>1. SUFFICES ASSUME op = "extract" PROVE SpansOf(k)' = MatchSpans(r)
      OBVIOUS
    <3>2. PICK z \in Nat : z = n + 1
      OBVIOUS
    <3>3. PICK s \in Seq(Span) : s = spans'
      BY <1>9
    <3>4. PICK u \in Seq(Span) : u = MatchSpans(r) /\ Len(u) = z
      BY <1>3, <1>4, <2>6, <3>2, MatchSpansAre
    <3>5. PICK a \in Nat : a = m
      BY <1>4
    <3>7. a + z <= Len(s) /\ \A l \in 1 .. z : s[a + l] = u[l]
      BY <1>10, <3>1, <3>2, <3>3, <3>4, <3>5
    <3>8. SubSeq(s, a + 1, a + z) = u
      BY <3>4, <3>7, PartIs
    <3>6. SubSeq(s, m + 1, m + z) = u
      BY <3>5, <3>8
    <3> QED BY <2>4, <3>2, <3>3, <3>4, <3>6 DEF SpansOf
  <2>8. op' = op
    BY <1>1 DEF op
  <2>9. RowDone(k, Len(spans))'
    <3>1. RowExact(k)'
      <4>1. call'.rows[k] = r /\ errors'[k] = FALSE /\ op' \in {"count", "extract"}
        BY <1>1, <1>3, <1>4, <2>3, <2>8
      <4>2. Answered(k, r)'
        BY <1>1, <1>4, <2>4, <2>5, <2>6, <2>7, <2>8, <4>1 DEF Answered
      <4> QED BY <4>1, <4>2, AnsweredExactly
    <3>2. Spanned(k)' => answer'[k].count \in Nat /\ first'[k] + answer'[k].count <= Len(spans')
      <4>1. Spanned(k)' => op = "extract"
        BY <1>1, <2>8 DEF Spanned
      <4> QED BY <1>4, <1>9, <1>10, <2>4, <4>1
    <3> QED BY <3>1, <3>2 DEF RowDone
  <2>10. RowsInv'
    BY <1>1, <1>3, <1>4, <1>9, <2>2, <2>3, <2>9, RowJoins
  <2>11. pc' \notin Walking
    BY <2>2 DEF Walking
  <2> QED BY <2>10, <2>11, HandEmpty
<1>12. CASE ~ AtEnd
  <2>1. offset' = Onward /\ pc' = "search" /\ i' = i /\ answer' = answer
    BY <1>12 DEF CountMatch
  <2>2. row' = row /\ op' = op /\ Skipped' = Skipped
    BY <1>1, <2>1 DEF row, op, Skipped
  <2>3. RowsInv'
    BY <1>1, <1>3, <1>4, <1>9, <2>1, RowsStay DEF Walking
  <2>4. CountHand(n + 1)'
    <3>1. number' = n + 1
      BY <1>1, <1>2 DEF CountHand
    <3>2. Passed(row', Counted(row'), n + 1, offset')
      BY <1>2, <2>1, <2>2
    <3>3. \A k \in 1 .. n + 1 : ~ (After(r, c[k]) >= r.size)
      <4>1. \A k \in 1 .. n : ~ (After(r, c[k]) >= r.size)
        BY <1>2, <1>4, <1>7 DEF CountHand
      <4>2. ~ (After(r, c[n + 1]) >= r.size)
        BY <1>2, <1>4, <1>7, <1>12
      <4>3. \A k \in 1 .. n + 1 : k \in 1 .. n \/ k = n + 1
        OBVIOUS
      <4> QED BY <4>1, <4>2, <4>3
    <3>4. first'[i'] = m /\ row' = r
      BY <1>1, <1>4, <2>1, <2>2
    <3> QED BY <1>7, <1>10, <2>2, <3>1, <3>2, <3>3, <3>4 DEF CountHand
  <2>5. \E l \in Nat : CountHand(l)'
    <3>1. n + 1 \in Nat
      OBVIOUS
    <3> QED BY <2>4, <3>1
  <2>6. ~ Skipped'
    BY <1>1, <2>2 DEF HandInv, Walking
  <2> QED BY <1>1, <2>1, <2>2, <2>3, <2>5, <2>6 DEF HandInv
<1> QED BY <1>11, <1>12

-----------------------------------------------------------------------------
(* Where no match is left ahead all places have been passed. *)
LEMMA AllCounted ==
  ASSUME WalkInv, RowsInv, HandInv, pc = "match", got.kind = "none",
         NEW n, Passed(row, Counted(row), n, offset)
  PROVE  n = Cardinality(Counted(row))
<1>1. Found
  BY DEF HandInv, Walking
<1>2. IsRow(row) /\ \A q \in row.chars : q \in Nat
  <2>1. IsRow(row)
    BY HandRow DEF Walking
  <2>3. row.size \in Nat /\ row.chars \subseteq 0 .. row.size
    BY RowInHand DEF Walking
  <2>2. \A q \in row.chars : q \in Nat
    BY <2>3
  <2> QED BY <2>1, <2>2
<1>3. offset \in Nat
  <2>1. offset \in row.chars
    BY DEF WalkInv
  <2> QED BY <1>2, <2>1
<1>4. \A s \in Counted(row) : ~ (offset <= s)
  BY <1>1, <1>2, CountedPlaces DEF Found
<1> QED BY <1>2, <1>3, <1>4, BarsUpward, NoneLeft

(* The spans a row ends with. *)
LEMMA SpansEnd ==
  ASSUME NEW k, NEW a \in Nat, NEW c \in Nat, spans' \in Seq(Span), first'[k] = a,
         answer'[k].count = c, a + c <= Len(spans'),
         NEW u \in Seq(Span), Len(u) = c, \A l \in 1 .. c : spans'[a + l] = u[l]
  PROVE  SpansOf(k)' = u
<1>1. PICK s \in Seq(Span) : s = spans'
  OBVIOUS
<1>2. SubSeq(s, a + 1, a + c) = u
  BY <1>1, PartIs
<1> QED BY <1>1, <1>2 DEF SpansOf

(* A span is added behind the others. *)
LEMMA SpanAdded ==
  ASSUME spans \in Seq(Span), NEW e \in Span, spans' = Append(spans, e),
         NEW m \in Nat, NEW n \in Nat, Len(spans) = m + n
  PROVE  /\ spans' \in Seq(Span) /\ Len(spans') = m + (n + 1) /\ spans'[m + (n + 1)] = e
         /\ \A l \in 1 .. m : spans'[l] = spans[l]
         /\ \A k \in 1 .. n : spans'[m + k] = spans[m + k]
<1>1. PICK s \in Seq(Span) : s = spans
  OBVIOUS
<1>2. Len(s) = m + n /\ spans' = Append(s, e)
  BY <1>1
<1>3. Len(Append(s, e)) = m + (n + 1) /\ Append(s, e)[m + (n + 1)] = e /\ Append(s, e) \in Seq(Span)
  BY <1>2
<1>4. \A k \in 1 .. n : m + k \in 1 .. Len(s)
  BY <1>2
<1>5. \A l \in 1 .. m : l \in 1 .. Len(s)
  BY <1>2
<1>6. \A l \in 1 .. Len(s) : Append(s, e)[l] = s[l]
  OBVIOUS
<1> QED BY <1>1, <1>2, <1>3, <1>4, <1>5, <1>6

(* The end of the count. *)
LEMMA CountEndKeeps ==
  ASSUME WalkInv, RowsInv, HandInv, CountEnd
  PROVE  RowsInv' /\ HandInv'
<1>1. /\ pc = "match" /\ op \in {"count", "extract"} /\ got.kind = "none"
      /\ call' = call /\ first' = first /\ errors' = errors /\ spans' = spans
      /\ i' = i + 1 /\ pc' = "row" /\ pc \in Walking
  BY DEF CountEnd, Finish, Walking
<1>2. PICK n \in Nat : CountHand(n)
  BY <1>1 DEF HandInv
<1>3. n = Cardinality(Counted(row)) /\ number = n
  BY <1>1, <1>2, AllCounted DEF CountHand
<1>4. /\ IsRow(row) /\ i \in DOMAIN call.rows /\ i \in Nat /\ first[i] \in Nat
      /\ first[i] <= Len(spans) /\ spans \in Seq(Span) /\ errors[i] = FALSE
      /\ DOMAIN answer = DOMAIN call.rows /\ row = call.rows[i]
  BY <1>1, HandRow
<1>5. PICK r, k, v : r = row /\ k = i /\ v = [kind |-> "matches", count |-> n]
  OBVIOUS
<1>12. PICK m \in Nat : m = first[i]
  BY <1>4
<1>6. answer' = [answer EXCEPT ![i] = v]
  BY <1>3, <1>5 DEF CountEnd, Finish
<1>7. answer'[k] = v /\ v.count = n /\ first'[k] = m
  BY <1>1, <1>4, <1>5, <1>6, <1>12
<1>8. ~ row.na /\ ~ (call.extended /\ row.size = 0) /\ op' = op
  BY <1>1 DEF HandInv, Skipped, op
<1>9. op = "extract" => SpansOf(k)' = MatchSpans(r) /\ m + n = Len(spans')
  <2>1. SUFFICES ASSUME op = "extract"
                 PROVE SpansOf(k)' = MatchSpans(r) /\ m + n = Len(spans')
    OBVIOUS
  <2>2. Len(spans) = m + n /\ \A l \in 1 .. n : spans[m + l] = MatchSpans(r)[l]
    BY <1>2, <1>5, <1>12, <2>1 DEF CountHand
  <2>3. PICK u \in Seq(Span) : u = MatchSpans(r) /\ Len(u) = n
    BY <1>3, <1>4, <1>5, MatchSpansAre
  <2>4. spans' \in Seq(Span) /\ m + n <= Len(spans')
    <3>1. spans' \in Seq(Span) /\ Len(spans') = m + n
      BY <1>1, <1>4, <2>2
    <3>2. m + n \in Nat
      OBVIOUS
    <3> QED BY <3>1, <3>2
  <2>6. \A l \in 1 .. n : spans'[m + l] = u[l]
    BY <1>1, <2>2, <2>3
  <2>5. SpansOf(k)' = u
    BY <1>7, <2>3, <2>4, <2>6, SpansEnd
  <2> QED BY <1>1, <2>2, <2>3, <2>5
<1>10. RowDone(k, Len(spans))'
  <2>1. RowExact(k)'
    <3>1. call'.rows[k] = r /\ errors'[k] = FALSE
      BY <1>1, <1>4, <1>5
    <3>2. Answered(k, r)'
      BY <1>1, <1>3, <1>5, <1>7, <1>8, <1>9, <3>1 DEF Answered
    <3> QED BY <3>1, <3>2, AnsweredExactly
  <2>2. Spanned(k)' => answer'[k].count \in Nat /\ first'[k] + answer'[k].count <= Len(spans')
    <3>1. Spanned(k)' => op = "extract"
      BY <1>1, <1>8 DEF Spanned
    <3> QED BY <1>7, <1>9, <3>1
  <2> QED BY <2>1, <2>2 DEF RowDone
<1>11. RowsInv'
  BY <1>1, <1>4, <1>5, <1>6, <1>10, RowJoins
<1> QED BY <1>1, <1>11, HandEmpty DEF Walking

(* In a row that does not match nothing is counted. *)
LEMMA UnmatchedIs ==
  ASSUME NEW r, IsRow(r), NEW u, u = Unmatched(r)
  PROVE  /\ u.na = r.na /\ u.size = r.size /\ Start(u) = {}
         /\ Cardinality(Counted(u)) = 0 /\ MatchSpans(u) = <<>>
<1>1. /\ u.na = r.na /\ u.size = r.size /\ u.chars = r.chars
      /\ u.hit = [p \in 0 .. r.size |-> None]
  BY DEF Unmatched
<1>2. Start(u) = {}
  BY <1>1 DEF Start
<1>3. IsRow(u)
  BY <1>1, <1>2 DEF IsRow
<1>4. Counted(u) = {}
  BY <1>2, <1>3, CountedPlaces
<1>5. Cardinality(Counted(u)) = 0
  BY <1>4, FS_EmptySet
<1>6. MatchSpans(u) = <<>>
  BY <1>3, <1>5, MatchSpansAre
<1> QED BY <1>1, <1>2, <1>5, <1>6

(* A search that failed. *)
LEMMA ForgetRowKeeps ==
  ASSUME WalkInv, RowsInv, HandInv, ForgetRow
  PROVE  RowsInv' /\ HandInv'
<1>1. /\ pc = "match" /\ op \in {"count", "extract", "split"}
      /\ call' = call /\ first' = first /\ errors' = [errors EXCEPT ![i] = TRUE]
      /\ spans' = SubSeq(spans, 1, first[i])
      /\ i' = i + 1 /\ pc' = "row" /\ pc \in Walking
  BY DEF ForgetRow, Fail, Finish, Walking
<1>2. /\ IsRow(row) /\ i \in DOMAIN call.rows /\ i \in Nat /\ first[i] \in Nat
      /\ first[i] <= Len(spans) /\ spans \in Seq(Span)
      /\ DOMAIN answer = DOMAIN call.rows /\ row = call.rows[i]
      /\ DOMAIN errors = DOMAIN call.rows
  BY <1>1, HandRow
<1>12. PICK m \in Nat : m = first[i]
  BY <1>2
<1>3. PICK k, v : k = i /\ m = first[i] /\ v = [kind |-> "matches", count |-> 0]
  BY <1>12
<1>4. answer' = [answer EXCEPT ![i] = v]
  BY <1>3 DEF ForgetRow, Fail, Finish
<1>5. answer'[k] = v /\ v.count = 0 /\ first'[k] = m /\ errors'[k] = TRUE
  BY <1>1, <1>2, <1>3, <1>4
<1>6. /\ spans' \in Seq(Span) /\ Len(spans') = m /\ \A l \in 1 .. m : spans'[l] = spans[l]
  <2>1. PICK s \in Seq(Span) : s = spans /\ m <= Len(s)
    BY <1>2, <1>3
  <2>2. SubSeq(s, 1, m) \in Seq(Span) /\ Len(SubSeq(s, 1, m)) = m
        /\ \A l \in 1 .. m : SubSeq(s, 1, m)[l] = s[l]
    BY <2>1
  <2> QED BY <1>1, <1>3, <2>1, <2>2
<1>7. ~ row.na /\ op' = op
  BY <1>1 DEF HandInv, Skipped, op
<1>8. SpansOf(k)' = <<>>
  <2>1. PICK u \in Seq(Span) : u = <<>> /\ Len(u) = 0
    <3>1. <<>> \in Seq(Span) /\ Len(<<>>) = 0
      OBVIOUS
    <3> QED BY <3>1
  <2>2. PICK z \in Nat : z = 0
    OBVIOUS
  <2>4. m + z <= Len(spans') /\ \A l \in 1 .. z : spans'[m + l] = u[l]
    BY <1>6, <2>2
  <2>5. /\ answer'[k].count = z /\ first'[k] = m /\ spans' \in Seq(Span)
        /\ Len(u) = z /\ m + z <= Len(spans') /\ \A l \in 1 .. z : spans'[m + l] = u[l]
    BY <1>5, <1>6, <2>1, <2>2, <2>4
  <2>3. SpansOf(k)' = u
    BY <2>5, SpansEnd
  <2> QED BY <2>1, <2>3
<1>9. RowDone(k, Len(spans))'
  <2>1. RowExact(k)'
    <3>1. PICK r, u : r = row /\ u = Unmatched(r)
      OBVIOUS
    <3>2. call'.rows[k] = r /\ ~ r.na
      BY <1>1, <1>2, <1>3, <1>7, <3>1
    <3>3. CASE op = "split"
      BY <1>5, <1>7, <1>8, <3>2, <3>3 DEF RowExact, Withheld
    <3>4. CASE op \in {"count", "extract"}
      <4>1. ~ u.na /\ Cardinality(Counted(u)) = 0 /\ MatchSpans(u) = <<>>
        BY <1>2, <3>1, <3>2, UnmatchedIs
      <4>2. Answered(k, u)'
        BY <1>5, <1>7, <1>8, <3>4, <4>1 DEF Answered
      <4> QED BY <1>5, <3>1, <3>2, <4>2, FailedExactly
    <3> QED BY <1>1, <3>3, <3>4
  <2> QED BY <1>5, <1>6, <2>1 DEF RowDone
<1>10. op = "field" => spans' = <<>>
  BY <1>1
<1>11. RowsInv'
  <2>1. first[i] <= Len(spans')
    BY <1>3, <1>6
  <2> QED BY <1>1, <1>2, <1>3, <1>4, <1>6, <1>9, <1>10, <2>1, RowJoins
<1> QED BY <1>1, <1>11, HandEmpty DEF Walking
-----------------------------------------------------------------------------
(* The fields between the matches. *)
LEMMA FieldsAre ==
  ASSUME NEW r, IsRow(r), NEW z, z = Cardinality(Counted(r))
  PROVE  /\ z \in Nat
         /\ Fields(r) = [k \in 1 .. z + 1 |->
              [offset |-> EndOf(r, InOrder(Counted(r)), k - 1),
               length |-> (IF k > z THEN r.size ELSE InOrder(Counted(r))[k])
                            - EndOf(r, InOrder(Counted(r)), k - 1)]]
         /\ Fields(r) \in Seq(Span) /\ Len(Fields(r)) = z + 1
         /\ \A k \in 0 .. z : EndOf(r, InOrder(Counted(r)), k) \in 0 .. r.size
         /\ \A k \in 1 .. z : InOrder(Counted(r))[k] \in 0 .. r.size
         /\ r.size \in Nat
<1>1. PICK S \in SUBSET Start(r) : S = Counted(r) /\ Rising(S, InOrder(S))
  BY CountedPlaces
<1>2. /\ z \in Nat /\ r.size \in Nat
      /\ \A k \in 0 .. z : EndOf(r, InOrder(S), k) \in 0 .. r.size
      /\ \A k \in 1 .. z : InOrder(S)[k] \in 0 .. r.size
  BY <1>1, EndsAre DEF IsRow
<1>3. PICK f : f = Fields(r)
  OBVIOUS
<1>4. f = [k \in 1 .. z + 1 |-> [offset |-> EndOf(r, InOrder(S), k - 1),
                                 length |-> (IF k > z THEN r.size ELSE InOrder(S)[k])
                                              - EndOf(r, InOrder(S), k - 1)]]
  BY <1>1, <1>3 DEF Fields
<1>5. \A k \in 1 .. z + 1 : f[k] \in Span
  <2>1. SUFFICES ASSUME NEW k \in 1 .. z + 1 PROVE f[k] \in Span
    OBVIOUS
  <2>2. PICK a \in Int : a = EndOf(r, InOrder(S), k - 1)
    <3>1. k - 1 \in 0 .. z
      BY <1>2
    <3> QED BY <1>2, <3>1
  <2>3. PICK b \in Int : b = IF k > z THEN r.size ELSE InOrder(S)[k]
    BY <1>2
  <2>4. f[k] = [offset |-> a, length |-> b - a]
    BY <1>4, <2>2, <2>3
  <2> QED BY <2>4 DEF Span
<1>6. f \in Seq(Span) /\ Len(f) = z + 1
  <2>1. PICK y \in Nat : y = z + 1
    BY <1>2
  <2>2. f = [k \in 1 .. y |-> f[k]]
    BY <1>4, <2>1
  <2>3. \A k \in 1 .. y : f[k] \in Span
    BY <1>5, <2>1
  <2>4. f \in Seq(Span)
    BY <2>2, <2>3
  <2> QED BY <2>1, <2>2, <2>4
<1> QED BY <1>1, <1>2, <1>3, <1>4, <1>6

(* A field lies between two ends. *)
LEMMA FieldAt ==
  ASSUME NEW r, IsRow(r), NEW z, z = Cardinality(Counted(r)), NEW c, c = InOrder(Counted(r)),
         NEW l \in 1 .. z + 1
  PROVE  Fields(r)[l] = [offset |-> EndOf(r, c, l - 1),
                         length |-> (IF l > z THEN r.size ELSE c[l]) - EndOf(r, c, l - 1)]
<1>1. PICK g : /\ g = [k \in 1 .. z + 1 |->
                        [offset |-> EndOf(r, c, k - 1),
                         length |-> (IF k > z THEN r.size ELSE c[k]) - EndOf(r, c, k - 1)]]
               /\ Fields(r) = g
  BY FieldsAre
<1> QED BY <1>1

(* A separator of a pattern that does not match "". *)
LEMMA SeparatorStep ==
  ASSUME WalkInv, RowsInv, HandInv, pc = "match", got.kind = "match", op \in {"split", "field"},
         NEW n, Passed(row, Counted(row), n, offset)
  PROVE  /\ Passed(row, Counted(row), n + 1, got.end)
         /\ got.start = InOrder(Counted(row))[n + 1]
         /\ n + 1 \in 1 .. Cardinality(Counted(row)) /\ n \in Nat
         /\ got.end = EndOf(row, InOrder(Counted(row)), n + 1)
<1>1. Found /\ ~ call.canEmpty
  BY MatchAssumption DEF HandInv, Walking, WalkInv, op
<1>2. PICK r, p : r = row /\ p = got.start
  OBVIOUS
<1>3. /\ IsRow(r) /\ offset \in Nat /\ FirstAhead(r, offset, p) /\ Beyond(r, p, Onward)
      /\ r.size \in Nat /\ p \in Start(r) /\ p \in Nat /\ r.hit[p] \in Nat
      /\ got.end = p + r.hit[p] /\ got.end <= r.size /\ (Empty <=> r.hit[p] = 0)
  BY <1>1, <1>2, HandRow, MatchFound DEF Walking
<1>4. r.hit[p] # 0
  BY <1>1, <1>2, <1>3, RowInHand DEF Walking
<1>5. Onward = got.end /\ p # r.size
  BY <1>3, <1>4 DEF Onward
<1>6. n + 1 \in 1 .. Cardinality(Counted(r)) /\ InOrder(Counted(r))[n + 1] = p
  BY <1>2, <1>3, <1>5, CountsNext
<1>7. Passed(r, Counted(r), n + 1, Onward)
  BY <1>2, <1>3, <1>6, CountPasses
<1>8. n \in Nat
  <2>1. Cardinality(Counted(r)) \in Nat
    BY <1>3, FieldsAre
  <2> QED BY <1>2, <2>1 DEF Passed
<1>9. got.end = EndOf(r, InOrder(Counted(r)), n + 1)
  BY <1>3, <1>6, <1>8 DEF EndOf
<1> QED BY <1>2, <1>5, <1>6, <1>7, <1>8, <1>9

(* One more field. *)
LEMMA SplitMatchKeeps ==
  ASSUME WalkInv, RowsInv, HandInv, SplitMatch
  PROVE  RowsInv' /\ HandInv'
<1>1. /\ pc = "match" /\ op = "split" /\ got.kind = "match"
      /\ call' = call /\ first' = first /\ errors' = errors /\ answer' = answer
      /\ copied' = got.end /\ offset' = got.end
      /\ i' = i /\ pc' = "search" /\ pc \in Walking /\ pc' \in Walking
      /\ spans' = Append(spans, [offset |-> copied, length |-> got.start - copied])
  BY DEF SplitMatch, Walking
<1>2. PICK n \in Nat : SplitHand(n)
  BY <1>1 DEF HandInv
<1>3. PICK r, c, m : r = row /\ c = InOrder(Counted(r)) /\ m = first[i]
  OBVIOUS
<1>4. /\ Passed(r, Counted(r), n + 1, got.end) /\ got.start = c[n + 1]
      /\ n + 1 \in 1 .. Cardinality(Counted(r)) /\ got.end = EndOf(r, c, n + 1)
  BY <1>1, <1>2, <1>3, SeparatorStep DEF SplitHand
<1>5. IsRow(r) /\ m \in Nat /\ spans \in Seq(Span) /\ m <= Len(spans)
  BY <1>1, <1>3, HandRow
<1>6. Len(spans) = m + n /\ copied = EndOf(r, c, n) /\ \A k \in 1 .. n : spans[m + k] = Fields(r)[k]
  BY <1>2, <1>3 DEF SplitHand
<1>7. PICK z \in Nat : z = Cardinality(Counted(r))
  BY <1>5, FieldsAre
<1>8. PICK e \in Span : /\ e = [offset |-> copied, length |-> got.start - copied]
                        /\ e = Fields(r)[n + 1]
  <2>1. /\ Fields(r) \in Seq(Span) /\ Len(Fields(r)) = z + 1
        /\ Fields(r) = [k \in 1 .. z + 1 |-> [offset |-> EndOf(r, c, k - 1),
                          length |-> (IF k > z THEN r.size ELSE c[k]) - EndOf(r, c, k - 1)]]
    BY <1>3, <1>5, <1>7, FieldsAre
  <2>2. n + 1 \in 1 .. z + 1 /\ ~ (n + 1 > z) /\ n + 1 - 1 = n
    BY <1>4, <1>7
  <2>3. Fields(r)[n + 1] = [offset |-> EndOf(r, c, n), length |-> c[n + 1] - EndOf(r, c, n)]
    BY <2>1, <2>2
  <2>4. Fields(r)[n + 1] \in Span
    BY <2>1, <2>2
  <2> QED BY <1>4, <1>6, <2>3, <2>4
<1>9. /\ spans' \in Seq(Span) /\ Len(spans') = m + (n + 1) /\ spans'[m + (n + 1)] = e
      /\ \A l \in 1 .. m : spans'[l] = spans[l]
      /\ \A k \in 1 .. n : spans'[m + k] = spans[m + k]
  BY <1>1, <1>5, <1>6, <1>8, SpanAdded
<1>10. RowsInv'
  <2>1. m <= Len(spans')
    BY <1>5, <1>9
  <2> QED BY <1>1, <1>3, <1>9, <2>1, RowsStay
<1>11. row' = r /\ op' = op /\ Skipped' = Skipped
  BY <1>1, <1>3 DEF row, op, Skipped
<1>12. SplitHand(n + 1)'
  <2>1. \A k \in 1 .. n + 1 : spans'[m + k] = Fields(r)[k]
    BY <1>6, <1>8, <1>9
  <2>2. first'[i'] = m
    BY <1>1, <1>3
  <2> QED BY <1>1, <1>3, <1>4, <1>9, <1>11, <2>1, <2>2 DEF SplitHand
<1>13. \E l \in Nat : SplitHand(l)'
  <2>1. n + 1 \in Nat
    OBVIOUS
  <2> QED BY <1>12, <2>1
<1>14. ~ Skipped'
  BY <1>1, <1>11 DEF HandInv
<1> QED BY <1>1, <1>10, <1>11, <1>13, <1>14 DEF HandInv

-----------------------------------------------------------------------------
(* The last field, or none if it is empty. *)
LEMMA SplitEndKeeps ==
  ASSUME WalkInv, RowsInv, HandInv, SplitEnd
  PROVE  RowsInv' /\ HandInv'
<1>1. /\ pc = "match" /\ op = "split" /\ got.kind = "none"
      /\ call' = call /\ first' = first /\ errors' = errors
      /\ i' = i + 1 /\ pc' = "row" /\ pc \in Walking
      /\ spans' = IF copied < row.size
                    THEN Append(spans, [offset |-> copied, length |-> row.size - copied])
                    ELSE spans
  BY DEF SplitEnd, Finish, Walking
<1>2. PICK n \in Nat : SplitHand(n)
  BY <1>1 DEF HandInv
<1>3. PICK r, c, k : r = row /\ c = InOrder(Counted(r)) /\ k = i
  OBVIOUS
<1>4. n = Cardinality(Counted(r))
  BY <1>1, <1>2, <1>3, AllCounted DEF SplitHand
<1>5. /\ IsRow(r) /\ i \in DOMAIN call.rows /\ i \in Nat /\ first[i] \in Nat
      /\ first[i] <= Len(spans) /\ spans \in Seq(Span) /\ errors[i] = FALSE
      /\ DOMAIN answer = DOMAIN call.rows /\ r = call.rows[i]
  BY <1>1, <1>3, HandRow
<1>6. PICK m \in Nat : m = first[i]
  BY <1>5
<1>7. Len(spans) = m + n /\ copied = EndOf(r, c, n) /\ \A l \in 1 .. n : spans[m + l] = Fields(r)[l]
  BY <1>2, <1>3, <1>6 DEF SplitHand
<1>8. PICK f \in Seq(Span) : f = Fields(r) /\ Len(f) = n + 1
  BY <1>4, <1>5, FieldsAre
<1>9. f[n + 1] = [offset |-> copied, length |-> r.size - copied]
  <2>1. n + 1 \in 1 .. n + 1 /\ n + 1 > n /\ n + 1 - 1 = n
    OBVIOUS
  <2>2. PICK y : y = n + 1
    OBVIOUS
  <2>3. f[y] = [offset |-> EndOf(r, c, y - 1),
                length |-> (IF y > n THEN r.size ELSE c[y]) - EndOf(r, c, y - 1)]
    BY <1>3, <1>4, <1>5, <1>8, <2>1, <2>2, FieldAt
  <2> QED BY <1>7, <2>1, <2>2, <2>3
<1>10. copied \in 0 .. r.size /\ r.size \in Nat
  <2>1. n \in 0 .. n
    OBVIOUS
  <2> QED BY <1>3, <1>4, <1>5, <1>7, <2>1, FieldsAre
<1>11. PICK w \in Nat : w = IF copied < r.size THEN n + 1 ELSE n
  OBVIOUS
<1>12. Dropped(f) \in Seq(Span) /\ Len(Dropped(f)) = w /\ \A l \in 1 .. w : Dropped(f)[l] = f[l]
  <2>1. Last(f).length = r.size - copied
    BY <1>8, <1>9 DEF Last
  <2>2. CASE copied < r.size
    <3>1. Last(f).length # 0
      BY <1>10, <2>1, <2>2
    <3>2. Dropped(f) = f
      BY <3>1 DEF Dropped
    <3> QED BY <1>8, <1>11, <2>2, <3>2
  <2>3. CASE ~ (copied < r.size)
    <3>1. Last(f).length = 0
      BY <1>10, <2>1, <2>3
    <3>2. Dropped(f) = SubSeq(f, 1, n)
      BY <1>8, <3>1 DEF Dropped, Front
    <3>3. SubSeq(f, 1, n) \in Seq(Span) /\ Len(SubSeq(f, 1, n)) = n
          /\ \A l \in 1 .. n : SubSeq(f, 1, n)[l] = f[l]
      BY <1>8
    <3> QED BY <1>11, <2>3, <3>2, <3>3
  <2> QED BY <2>2, <2>3
<1>13. /\ spans' \in Seq(Span) /\ Len(spans') = m + w
       /\ \A l \in 1 .. m : spans'[l] = spans[l]
       /\ \A l \in 1 .. w : spans'[m + l] = f[l]
  <2>1. CASE copied < r.size
    <3>1. PICK e \in Span : e = [offset |-> copied, length |-> r.size - copied] /\ e = f[n + 1]
      <4>1. f[n + 1] \in Span
        BY <1>8
      <4> QED BY <1>9, <4>1
    <3>2. spans' = Append(spans, e)
      BY <1>1, <1>3, <2>1, <3>1
    <3>3. /\ spans' \in Seq(Span) /\ Len(spans') = m + (n + 1) /\ spans'[m + (n + 1)] = e
          /\ \A l \in 1 .. m : spans'[l] = spans[l]
          /\ \A l \in 1 .. n : spans'[m + l] = spans[m + l]
      BY <1>5, <1>7, <3>2, SpanAdded
    <3>4. \A l \in 1 .. n + 1 : spans'[m + l] = f[l]
      <4>1. SUFFICES ASSUME NEW l \in 1 .. n + 1
                     PROVE  spans'[m + l] = f[l]
        OBVIOUS
      <4>2. CASE l = n + 1
        BY <3>1, <3>3, <4>2
      <4>3. CASE l # n + 1
        <5>1. l \in 1 .. n
          BY <4>3
        <5> QED BY <1>7, <1>8, <3>3, <5>1
      <4> QED BY <4>2, <4>3
    <3> QED BY <1>11, <2>1, <3>3, <3>4
  <2>2. CASE ~ (copied < r.size)
    <3>1. spans' = spans
      BY <1>1, <1>3, <2>2
    <3> QED BY <1>5, <1>7, <1>8, <1>11, <2>2, <3>1
  <2> QED BY <2>1, <2>2
<1>14. PICK v : v = [kind |-> "matches", count |-> Len(spans') - first[i]]
  OBVIOUS
<1>15. answer' = [answer EXCEPT ![i] = v]
  BY <1>14 DEF SplitEnd, Finish
<1>16. answer'[k] = v /\ v.count = w /\ first'[k] = m /\ errors'[k] = FALSE
  BY <1>1, <1>3, <1>5, <1>6, <1>13, <1>14, <1>15
<1>17. SpansOf(k)' = Dropped(f)
  <2>1. PICK u \in Seq(Span) : u = Dropped(f) /\ Len(u) = w
    BY <1>12
  <2>2. /\ answer'[k].count = w /\ first'[k] = m /\ spans' \in Seq(Span)
        /\ Len(u) = w /\ m + w <= Len(spans') /\ \A l \in 1 .. w : spans'[m + l] = u[l]
    BY <1>12, <1>13, <1>16, <2>1
  <2>3. SpansOf(k)' = u
    BY <2>2, SpansEnd
  <2> QED BY <2>1, <2>3
<1>18. ~ row.na /\ op' = op
  BY <1>1 DEF HandInv, Skipped, op
<1>19. RowDone(k, Len(spans))'
  <2>1. RowExact(k)'
    <3>1. call'.rows[k] = r
      BY <1>1, <1>3, <1>5
    <3>2. Answered(k, r)'
      BY <1>1, <1>3, <1>8, <1>16, <1>17, <1>18, <3>1 DEF Answered
    <3> QED BY <1>16, <3>1, <3>2, AnsweredExactly
  <2> QED BY <1>13, <1>16, <2>1 DEF RowDone
<1>20. RowsInv'
  <2>1. first[i] <= Len(spans')
    BY <1>6, <1>13
  <2>2. op # "field"
    BY <1>1
  <2> QED BY <1>1, <1>3, <1>6, <1>13, <1>15, <1>19, <2>1, <2>2, RowJoins
<1> QED BY <1>1, <1>20, HandEmpty DEF Walking
-----------------------------------------------------------------------------
(* One more separator. *)
LEMMA FieldMatchKeeps ==
  ASSUME WalkInv, RowsInv, HandInv, FieldMatch
  PROVE  RowsInv' /\ HandInv'
<1>1. /\ pc = "match" /\ op = "field" /\ got.kind = "match"
      /\ call' = call /\ first' = first /\ errors' = errors /\ answer' = answer
      /\ offset' = got.end /\ got' = got
      /\ i' = i /\ pc' = (IF Needed THEN "store" ELSE "search") /\ pc \in Walking /\ pc' \in Walking
      /\ spans' = Append(spans, [offset |-> got.start, length |-> got.end - got.start])
  BY DEF FieldMatch, Walking
<1>2. PICK n \in Nat : FieldHand(n)
  BY <1>1 DEF HandInv
<1>3. PICK r, c : r = row /\ c = InOrder(Counted(r))
  OBVIOUS
<1>4. /\ Passed(r, Counted(r), n + 1, got.end) /\ got.start = c[n + 1]
      /\ n + 1 \in 1 .. Cardinality(Counted(r)) /\ got.end = EndOf(r, c, n + 1)
  BY <1>1, <1>2, <1>3, SeparatorStep DEF FieldHand
<1>5. IsRow(r) /\ spans \in Seq(Span) /\ first[i] = 0
  BY <1>1, <1>3, HandRow DEF RowsInv
<1>6. Len(spans) = n /\ \A k \in 1 .. n : spans[k] = MatchSpans(r)[k]
  BY <1>2, <1>3 DEF FieldHand, FieldSpans
<1>7. PICK e \in Span : /\ e = [offset |-> got.start, length |-> got.end - got.start]
                        /\ e = MatchSpans(r)[n + 1]
  <2>1. /\ MatchSpans(r) = [k \in 1 .. Cardinality(Counted(r)) |->
             [offset |-> c[k], length |-> r.hit[c[k]]]]
        /\ MatchSpans(r) \in Seq(Span) /\ Len(MatchSpans(r)) = Cardinality(Counted(r))
    BY <1>3, <1>5, MatchSpansAre
  <2>2. MatchSpans(r)[n + 1] = [offset |-> c[n + 1], length |-> r.hit[c[n + 1]]]
    BY <1>4, <2>1
  <2>3. got.end - got.start = r.hit[c[n + 1]]
    <3>1. Found
      BY <1>1 DEF HandInv
    <3>2. got.end = got.start + r.hit[got.start] /\ got.start \in Nat /\ r.hit[got.start] \in Nat
      BY <1>1, <1>3, <3>1, MatchFound
    <3> QED BY <1>4, <3>2
  <2>4. MatchSpans(r)[n + 1] \in Span
    <3>1. PICK s \in Seq(Span) : s = MatchSpans(r) /\ Len(s) = Cardinality(Counted(r))
      BY <2>1
    <3>2. PICK y \in 1 .. Len(s) : y = n + 1
      BY <1>4, <3>1
    <3>3. s[y] \in Span
      OBVIOUS
    <3> QED BY <3>1, <3>2, <3>3
  <2> QED BY <1>4, <2>2, <2>3, <2>4
<1>8. /\ spans' \in Seq(Span) /\ Len(spans') = n + 1 /\ spans'[n + 1] = e
      /\ \A l \in 1 .. n : spans'[l] = spans[l]
  <2>1. PICK s \in Seq(Span) : s = spans /\ Len(s) = n
    BY <1>5, <1>6
  <2>2. spans' = Append(s, e)
    BY <1>1, <1>7, <2>1
  <2> QED BY <2>1, <2>2
<1>9. RowsInv'
  <2>1. first[i] <= Len(spans') /\ \A l \in 1 .. first[i] : spans'[l] = spans[l]
    BY <1>5, <1>8
  <2> QED BY <1>1, <1>8, <2>1, RowsStay
<1>10. row' = r /\ op' = op /\ Skipped' = Skipped
  BY <1>1, <1>3 DEF row, op, Skipped
<1>11. PICK y \in Nat : y = n + 1
  OBVIOUS
<1>12. FieldSpans(y)'
  <2>1. \A k \in 1 .. n + 1 : spans'[k] = MatchSpans(r)[k]
    BY <1>6, <1>7, <1>8
  <2>2. n + 1 \in 0 .. Cardinality(Counted(r))
    BY <1>4
  <2> QED BY <1>8, <1>10, <1>11, <2>1, <2>2 DEF FieldSpans
<1>13. ~ Skipped'
  BY <1>1, <1>10 DEF HandInv
<1>14. CASE Needed
  <2>1. call.field > 0 /\ call.field <= y
    <3>1. call.field > 0 /\ n + 1 >= call.field
      BY <1>6, <1>14 DEF Needed
    <3>2. call.field \in Int
      BY MatchAssumption DEF WalkInv
    <3> QED BY <1>11, <3>1, <3>2
  <2>2. FieldReady(y)'
    BY <1>1, <1>12, <2>1 DEF FieldReady
  <2>3. pc' = "store" /\ op' = "field"
    BY <1>1, <1>10, <1>14
  <2> QED BY <1>9, <1>13, <2>2, <2>3 DEF HandInv
<1>15. CASE ~ Needed
  <2>1. FieldHand(y)'
    BY <1>1, <1>4, <1>10, <1>11, <1>12 DEF FieldHand
  <2>2. pc' = "search" /\ op' = "field"
    BY <1>1, <1>10, <1>15
  <2> QED BY <1>9, <1>13, <2>1, <2>2 DEF HandInv
<1> QED BY <1>14, <1>15

(* No separator is left. *)
LEMMA FieldEndKeeps ==
  ASSUME WalkInv, RowsInv, HandInv, FieldEnd
  PROVE  RowsInv' /\ HandInv'
<1>1. /\ pc = "match" /\ op = "field" /\ got.kind = "none"
      /\ call' = call /\ first' = first /\ errors' = errors /\ answer' = answer
      /\ i' = i /\ pc' = "store" /\ pc \in Walking /\ pc' \in Walking /\ spans' = spans
  BY DEF FieldEnd, Walking
<1>2. PICK n \in Nat : FieldHand(n)
  BY <1>1 DEF HandInv
<1>3. n = Cardinality(Counted(row))
  BY <1>1, <1>2, AllCounted DEF FieldHand
<1>4. row' = row /\ op' = op /\ Skipped' = Skipped
  BY <1>1 DEF row, op, Skipped
<1>5. RowsInv'
  <2>1. spans \in Seq(Span) /\ first[i] <= Len(spans)
    BY <1>1, HandRow
  <2> QED BY <1>1, <2>1, RowsStay
<1>6. FieldReady(n)'
  <2>1. FieldSpans(n)'
    BY <1>1, <1>2, <1>4 DEF FieldHand, FieldSpans
  <2> QED BY <1>3, <1>4, <2>1 DEF FieldReady
<1>7. ~ Skipped'
  BY <1>1, <1>4 DEF HandInv
<1> QED BY <1>1, <1>4, <1>5, <1>6, <1>7 DEF HandInv

(* A search for separators that failed. *)
LEMMA FieldFailedKeeps ==
  ASSUME WalkInv, RowsInv, HandInv, FieldFailed
  PROVE  RowsInv' /\ HandInv'
<1>1. /\ pc = "match" /\ op = "field"
      /\ call' = call /\ first' = first /\ errors' = [errors EXCEPT ![i] = TRUE]
      /\ answer' = [answer EXCEPT ![i] = Missing]
      /\ i' = i + 1 /\ pc' = "row" /\ pc \in Walking /\ spans' = <<>>
  BY DEF FieldFailed, Fail, Finish, Walking
<1>2. /\ i \in DOMAIN call.rows /\ DOMAIN answer = DOMAIN call.rows /\ row = call.rows[i]
      /\ DOMAIN errors = DOMAIN call.rows
  BY <1>1, HandRow
<1>3. PICK k : k = i
  OBVIOUS
<1>4. answer'[k] = Missing /\ errors'[k] = TRUE
  BY <1>1, <1>2, <1>3
<1>5. op' = op /\ first[i] = 0
  BY <1>1 DEF op, RowsInv
<1>6. RowDone(k, Len(spans))'
  <2>1. RowExact(k)'
    <3>1. call'.rows[k] = row /\ ~ row.na
      BY <1>1, <1>2, <1>3 DEF HandInv, Skipped
    <3> QED BY <1>1, <1>4, <1>5, <3>1 DEF RowExact, Withheld
  <2>2. ~ Spanned(k)'
    BY <1>1, <1>5 DEF Spanned
  <2> QED BY <2>1, <2>2 DEF RowDone
<1>7. spans' \in Seq(Span) /\ first[i] <= Len(spans') /\ \A l \in 1 .. first[i] : spans'[l] = spans[l]
  BY <1>1, <1>5
<1>8. RowsInv'
  BY <1>1, <1>3, <1>6, <1>7, RowJoins
<1> QED BY <1>1, <1>8, HandEmpty DEF Walking

(* The text of a slice. *)
LEMMA SliceText ==
  ASSUME NEW from \in Int, NEW length \in Int, row.size \in Nat
  PROVE  TextOf(row, Slice(from, length)) = Bytes(from, from + length)
<1>1. CASE from = 0 /\ length = row.size
  <2>1. TextOf(row, Slice(from, length)) = Bytes(0, row.size)
    BY <1>1 DEF TextOf, Slice, Original
  <2>2. 0 = from /\ row.size = from + length
    BY <1>1
  <2> QED BY <2>1, <2>2
<1>2. CASE ~ (from = 0 /\ length = row.size)
  BY <1>2 DEF TextOf, Slice
<1> QED BY <1>1, <1>2

(* The field asked for. *)
LEMMA FieldStoreKeeps ==
  ASSUME WalkInv, RowsInv, HandInv, FieldStore
  PROVE  RowsInv' /\ HandInv'
<1> DEFINE pieces == Len(spans) + 1
           index == IF call.field > 0 THEN call.field ELSE pieces + call.field + 1
           from == IF index = 1 THEN 0 ELSE spans[index - 1].offset + spans[index - 1].length
           to == IF index < pieces THEN spans[index].offset ELSE row.size
           value == IF index \in 1 .. pieces THEN Slice(from, to - from) ELSE Missing
<1>1. /\ pc = "store" /\ op = "field"
      /\ call' = call /\ first' = first /\ errors' = errors
      /\ answer' = [answer EXCEPT ![i] = value]
      /\ i' = i + 1 /\ pc' = "row" /\ pc \in Walking /\ spans' = <<>>
  BY DEF FieldStore, Finish, Walking
<1>2. PICK n \in Nat : FieldReady(n)
  BY <1>1 DEF HandInv
<1>3. PICK r, c, k : r = row /\ c = InOrder(Counted(r)) /\ k = i
  OBVIOUS
<1>4. /\ IsRow(r) /\ i \in DOMAIN call.rows /\ errors[i] = FALSE
      /\ DOMAIN answer = DOMAIN call.rows /\ r = call.rows[i]
  BY <1>1, <1>3, HandRow
<1>5. PICK z \in Nat : z = Cardinality(Counted(r))
  BY <1>4, FieldsAre
<1>6. /\ n \in 0 .. z /\ Len(spans) = n
      /\ n = z \/ (call.field > 0 /\ call.field <= n)
  BY <1>2, <1>3, <1>5 DEF FieldReady, FieldSpans
<1>7. \A l \in 1 .. n : spans[l].offset = c[l] /\ spans[l].offset + spans[l].length = EndOf(r, c, l)
  <2>1. SUFFICES ASSUME NEW l \in 1 .. n
                 PROVE  spans[l].offset = c[l] /\ spans[l].offset + spans[l].length = EndOf(r, c, l)
    OBVIOUS
  <2>2. spans[l] = MatchSpans(r)[l]
    BY <1>2, <1>3 DEF FieldReady, FieldSpans
  <2>3. MatchSpans(r)[l] = [offset |-> c[l], length |-> r.hit[c[l]]]
    <3>1. l \in 1 .. z
      BY <1>6
    <3> QED BY <1>3, <1>4, <1>5, <3>1, MatchSpansAre
  <2>4. l # 0
    OBVIOUS
  <2> QED BY <2>2, <2>3, <2>4 DEF EndOf
<1>8. PICK f \in Int : f = IF call.field > 0 THEN call.field ELSE z + 1 + call.field + 1
  <2>1. call.field \in Int
    BY MatchAssumption DEF WalkInv
  <2> QED BY <2>1
<1>9. /\ f \in 1 .. z + 1 => index = f
      /\ f \in 1 .. z + 1 <=> index \in 1 .. pieces
  BY <1>6, <1>8
<1>10. Len(Fields(r)) = z + 1 /\ r.size \in Nat
  BY <1>4, <1>5, FieldsAre
<1>11. IF f \notin 1 .. z + 1 THEN value = Missing
       ELSE /\ value # Missing
            /\ TextOf(r, value) = Bytes(Fields(r)[f].offset, Fields(r)[f].offset + Fields(r)[f].length)
  <2>1. CASE f \notin 1 .. z + 1
    BY <1>9, <2>1
  <2>2. CASE f \in 1 .. z + 1
    <3>1. PICK a \in Int : a = EndOf(r, c, f - 1)
      <4>1. f - 1 \in 0 .. z
        BY <2>2
      <4>2. EndOf(r, c, f - 1) \in 0 .. r.size
        BY <1>3, <1>4, <1>5, <4>1, FieldsAre
      <4> QED BY <4>2
    <3>2. PICK b \in Int : b = IF f > z THEN r.size ELSE c[f]
      <4>1. f \in 1 .. z => c[f] \in 0 .. r.size
        BY <1>3, <1>4, <1>5, FieldsAre
      <4> QED BY <1>10, <2>2, <4>1
    <3>3. Fields(r)[f] = [offset |-> a, length |-> b - a]
      <4>1. Fields(r)[f] = [offset |-> EndOf(r, c, f - 1),
                            length |-> (IF f > z THEN r.size ELSE c[f]) - EndOf(r, c, f - 1)]
        BY <1>3, <1>4, <1>5, <2>2, FieldAt
      <4> QED BY <3>1, <3>2, <4>1
    <3>4. index = f /\ index \in 1 .. pieces
      BY <1>9, <2>2
    <3>5. from = a
      <4>1. CASE f = 1
        BY <3>1, <3>4, <4>1 DEF EndOf
      <4>2. CASE f # 1
        <5>1. f - 1 \in 1 .. n
          BY <1>6, <2>2, <3>4, <4>2
        <5> QED BY <1>7, <3>1, <3>4, <4>2, <5>1
      <4> QED BY <4>1, <4>2
    <3>6. to = b
      <4>1. CASE f <= n
        <5>1. f \in 1 .. n /\ index < pieces /\ ~ (f > z)
          BY <1>6, <2>2, <3>4, <4>1
        <5> QED BY <1>7, <3>2, <3>4, <5>1
      <4>2. CASE ~ (f <= n)
        <5>1. f > z /\ ~ (index < pieces)
          BY <1>6, <1>8, <2>2, <3>4, <4>2
        <5> QED BY <1>3, <3>2, <5>1
      <4> QED BY <4>1, <4>2
    <3>7. value = Slice(a, b - a)
      BY <3>4, <3>5, <3>6
    <3>8. TextOf(r, Slice(a, b - a)) = Bytes(a, a + (b - a))
      BY <1>3, <1>10, SliceText
    <3>9. Slice(a, b - a) # Missing
      BY DEF Slice, Original, Missing
    <3> QED BY <2>2, <3>3, <3>7, <3>8, <3>9
  <2> QED BY <2>1, <2>2
<1> HIDE DEF value, pieces, index, from, to
<1>12. PICK v : v = value
  OBVIOUS
<1>13. answer'[k] = v /\ errors'[k] = FALSE /\ answer' = [answer EXCEPT ![i] = v]
  BY <1>1, <1>3, <1>4, <1>12
<1>14. op' = op /\ first[i] = 0 /\ ~ row.na
  BY <1>1 DEF op, RowsInv, HandInv, Skipped
<1>15. RowDone(k, Len(spans))'
  <2>1. RowExact(k)'
    <3>1. call'.rows[k] = r
      BY <1>1, <1>3, <1>4
    <3>2. Answered(k, r)'
      BY <1>1, <1>3, <1>8, <1>10, <1>11, <1>12, <1>13, <1>14, <3>1 DEF Answered
    <3> QED BY <1>13, <3>1, <3>2, AnsweredExactly
  <2>2. ~ Spanned(k)'
    BY <1>1, <1>14 DEF Spanned
  <2> QED BY <2>1, <2>2 DEF RowDone
<1>16. spans' \in Seq(Span) /\ first[i] <= Len(spans') /\ \A l \in 1 .. first[i] : spans'[l] = spans[l]
  BY <1>1, <1>14
<1>17. RowsInv'
  BY <1>1, <1>3, <1>13, <1>15, <1>16, RowJoins
<1> QED BY <1>1, <1>17, HandEmpty DEF Walking

-----------------------------------------------------------------------------
(* A row of fsub() or fgsub() ends with its text. *)
LEMMA TextJoins ==
  ASSUME WalkInv, RowsInv, HandInv, pc \in Walking, op \in {"sub", "gsub"},
         call' = call, first' = first, i' = i + 1, pc' = "row", spans' = spans,
         NEW v, answer' = [answer EXCEPT ![i] = v],
         errors' = errors \/ errors' = [errors EXCEPT ![i] = TRUE],
         errors' # errors => v = Original,
         IF Start(row) = {} THEN v = Original
         ELSE errors' = errors => TextOf(row, v) = Substituted(row, Wanted, Replacement)
  PROVE  RowsInv' /\ HandInv'
<1>1. /\ i \in DOMAIN call.rows /\ DOMAIN answer = DOMAIN call.rows /\ row = call.rows[i]
      /\ DOMAIN errors = DOMAIN call.rows /\ errors[i] = FALSE
      /\ first[i] <= Len(spans) /\ spans \in Seq(Span)
  BY HandRow
<1>2. PICK k, r : k = i /\ r = row
  OBVIOUS
<1>3. answer'[k] = v /\ call'.rows[k] = r /\ op' = op /\ Replacement' = Replacement /\ ~ r.na
  BY <1>1, <1>2 DEF op, Replacement, HandInv, Skipped
<1>4. errors'[k] = TRUE => v = Original
  BY <1>1, <1>2
<1>5. ~ (errors'[k] = TRUE) => errors' = errors
  BY <1>1, <1>2
<1>6. errors'[k] \in BOOLEAN
  BY <1>1, <1>2
<1>7. RowExact(k)'
  <2>1. IF errors'[k] \/ Start(r) = {} THEN v = Original
        ELSE TextOf(r, v) = Substituted(r, IF op = "sub" THEN {Least(Start(r))} ELSE Replaced(r), Replacement)
    BY <1>2, <1>4, <1>5, <1>6 DEF Wanted
  <2>2. CASE ~ errors'[k]
    <3>1. op = "sub" => Answered(k, r)'
      BY <1>3, <2>1, <2>2 DEF Answered
    <3>2. op = "gsub" => Answered(k, r)'
      BY <1>3, <2>1, <2>2 DEF Answered
    <3> QED BY <1>3, <2>2, <3>1, <3>2, AnsweredExactly
  <2>3. CASE errors'[k]
    <3>1. PICK u : u = Unmatched(r)
      OBVIOUS
    <3>2. IsRow(r)
      BY <1>2, HandRow
    <3>3. ~ u.na /\ Start(u) = {}
      BY <1>3, <3>1, <3>2, UnmatchedIs
    <3>4. Answered(k, u)'
      BY <1>3, <2>1, <2>3, <3>3 DEF Answered
    <3> QED BY <1>3, <2>3, <3>1, <3>4, FailedExactly
  <2> QED BY <2>2, <2>3
<1>8. RowDone(k, Len(spans))'
  BY <1>3, <1>7 DEF RowDone, Spanned
<1>9. RowsInv'
  <2>1. \A l \in 1 .. first[i] : spans'[l] = spans[l]
    OBVIOUS
  <2>2. op # "field" /\ spans' \in Seq(Span) /\ first[i] <= Len(spans')
    BY <1>1
  <2> QED BY <1>2, <1>8, <2>1, <2>2, RowJoins
<1> QED BY <1>9, HandEmpty DEF Walking

(* The least place of a row. *)
LEMMA LeastPlace ==
  ASSUME NEW r, IsRow(r), NEW p \in Start(r), \A s \in Start(r) : p <= s
  PROVE  Least(Start(r)) = p
<1>1. \A s \in Start(r) : s \in Nat
  BY DEF IsRow, Start
<1>2. \A x \in Start(r) : (\A s \in Start(r) : x <= s) => x = p
  <2>1. SUFFICES ASSUME NEW x \in Start(r), \A s \in Start(r) : x <= s
                 PROVE  x = p
    OBVIOUS
  <2>2. x <= p /\ p <= x /\ x \in Nat /\ p \in Nat
    BY <1>1, <2>1
  <2> QED BY <2>2
<1>3. \E x \in Start(r) : \A s \in Start(r) : x <= s
  OBVIOUS
<1> QED BY <1>2, <1>3 DEF Least

(* A row with places has a least one. *)
LEMMA LeastThere ==
  ASSUME NEW r, IsRow(r), Start(r) # {}
  PROVE  Least(Start(r)) \in Start(r) /\ \A s \in Start(r) : Least(Start(r)) <= s
<1>1. Start(r) \in SUBSET Nat
  BY DEF IsRow, Start
<1>2. \E x \in Start(r) : \A s \in Start(r) : x <= s
  BY <1>1, LeastNatural
<1> QED BY <1>2 DEF Least

(* What a trace tells after some more bytes of the source. *)
LEMMA TraceAppends ==
  ASSUME Traced, call' = call, NEW a \in Nat, NEW b \in Nat, a <= b,
         slice' = SliceAppend(slice, a, b),
         call.repl = "none" => output' = output \o Bytes(a, b)
  PROVE  Traced'
<1> DEFINE Slices == [contiguous : BOOLEAN, has : BOOLEAN, offset : Nat, length : Nat]
<1>1. PICK s \in Slices : s = slice
  BY DEF Traced
<1>2. PICK t : t = SliceAppend(s, a, b)
  OBVIOUS
<1>3. slice' = t
  BY <1>1, <1>2
<1>4. t \in Slices
  <2>1. b - a \in Nat /\ s.length + b - a \in Nat
    OBVIOUS
  <2> QED BY <1>2, <2>1 DEF SliceAppend
<1>5. ASSUME call.repl = "none", t.contiguous
      PROVE  output' = Bytes(t.offset, t.offset + t.length) /\ (~ t.has => t.length = 0)
  <2>1. s.contiguous
    BY <1>2, <1>5 DEF SliceAppend
  <2>2. output = Bytes(s.offset, s.offset + s.length) /\ (~ s.has => s.length = 0)
    BY <1>1, <1>5, <2>1 DEF Traced
  <2>3. output' = output \o Bytes(a, b)
    BY <1>5
  <2>4. Bytes(a, b) \in Seq(Int) /\ Bytes(s.offset, s.offset + s.length) \in Seq(Int)
    <3>1. a \in Int /\ b \in Int /\ s.offset \in Int /\ s.offset + s.length \in Int
      OBVIOUS
    <3> QED BY <3>1, BytesAre
  <2>5. CASE a = b
    <3>1. Bytes(a, b) = <<>>
      BY <2>5, BytesAre
    <3>2. t = s
      BY <1>2, <2>5 DEF SliceAppend
    <3> QED BY <2>2, <2>3, <2>4, <3>1, <3>2
  <2>6. CASE a # b /\ ~ s.has
    <3>1. t = [contiguous |-> TRUE, has |-> TRUE, offset |-> a, length |-> b - a]
      BY <1>2, <2>1, <2>6 DEF SliceAppend
    <3>2. s.offset + s.length = s.offset /\ s.offset \in Int
      BY <2>2, <2>6
    <3>3. output = <<>>
      BY <2>2, <3>2, BytesAre
    <3>4. t.offset = a /\ t.offset + t.length = b /\ t.has
      BY <3>1
    <3> QED BY <2>3, <2>4, <3>3, <3>4
  <2>7. CASE a # b /\ s.has /\ s.offset + s.length = a
    <3>1. t = [s EXCEPT !.length = s.length + b - a]
      BY <1>2, <2>1, <2>7 DEF SliceAppend
    <3>2. t.offset = s.offset /\ t.length = s.length + b - a /\ t.has
      BY <2>7, <3>1
    <3>3. t.offset + t.length = b
      BY <2>7, <3>2
    <3>4. PICK o \in Int : o = s.offset
      OBVIOUS
    <3>5. o <= a
      BY <2>7, <3>4
    <3>6. Bytes(o, a) \o Bytes(a, b) = Bytes(o, b)
      BY <3>5, BytesJoin
    <3> QED BY <2>2, <2>3, <2>7, <3>2, <3>3, <3>4, <3>6
  <2>8. ~ (a # b /\ s.has /\ s.offset + s.length # a)
    <3>1. SUFFICES ASSUME a # b, s.has, s.offset + s.length # a
                   PROVE  FALSE
      OBVIOUS
    <3>2. t = [s EXCEPT !.contiguous = FALSE]
      BY <1>2, <2>1, <3>1 DEF SliceAppend
    <3> QED BY <1>5, <3>2
  <2> QED BY <2>5, <2>6, <2>7, <2>8
<1> QED BY <1>3, <1>4, <1>5 DEF Traced

(* The text made so far goes on with one more match. *)
LEMMA MadeOn ==
  ASSUME WalkInv, RowsInv, pc \in Walking, call' = call, i' = i,
         NEW S \in SUBSET Start(row), Rising(S, InOrder(S)),
         NEW n \in Nat, n + 1 \in 1 .. Cardinality(S), Made(S, n),
         NEW p, p = InOrder(S)[n + 1], copied <= p,
         output' = output \o Bytes(copied, p) \o Replacement,
         slice' = SliceAppend(slice, copied, p), copied' = p + row.hit[p]
  PROVE  Made(S, n + 1)'
<1>1. PICK r, c, z, by : /\ r = row /\ c = InOrder(S) /\ z = Cardinality(S) /\ by = Replacement
  OBVIOUS
<1>2. IsRow(r) /\ by \in Seq(Int)
  BY <1>1, HandRow DEF Replacement, Mark
<1>3. PICK g : g = Built(r, S, by)
  OBVIOUS
<1>4. IsBuilt(r, S, by, g)
  BY <1>1, <1>2, <1>3, BuiltSo
<1>5. PICK y \in 1 .. z : y = n + 1
  BY <1>1
<1>6. y - 1 = n /\ z \in Nat /\ n \in 0 .. z
  <2>1. z \in Nat
    BY <1>1 DEF Rising
  <2> QED BY <1>5, <2>1
<1>7. g[y] = g[n] \o Bytes(EndOf(r, c, n), c[y]) \o by
  BY <1>1, <1>4, <1>6 DEF IsBuilt
<1>8. g[y] = output'
  BY <1>1, <1>3, <1>5, <1>7 DEF Made
<1>9. copied' = EndOf(r, c, y)
  <2>1. y # 0
    OBVIOUS
  <2> QED BY <1>1, <1>5, <2>1 DEF EndOf
<1>10. copied \in Nat /\ p \in Nat
  <2>1. EndOf(r, c, n) \in 0 .. r.size /\ c[y] \in 0 .. r.size /\ r.size \in Nat
    BY <1>1, <1>2, <1>6, EndsAre DEF IsRow
  <2> QED BY <1>1, <1>5, <2>1 DEF Made
<1>11. Traced'
  <2>1. Traced
    BY DEF Made
  <2>2. call.repl = "none" => output' = output \o Bytes(copied, p)
    <3>1. SUFFICES ASSUME call.repl = "none"
                   PROVE  output' = output \o Bytes(copied, p)
      OBVIOUS
    <3>2. output \in Seq(Int)
      BY <1>1, <1>3, <1>4, <1>6 DEF Made, IsBuilt
    <3>3. Bytes(copied, p) \in Seq(Int)
      <4>1. copied \in Int /\ p \in Int
        BY <1>10
      <4> QED BY <4>1, BytesAre
    <3>4. output' = output \o Bytes(copied, p) \o <<>>
      BY <3>1 DEF Replacement
    <3> QED BY <3>2, <3>3, <3>4
  <2> QED BY <1>10, <2>1, <2>2, TraceAppends
<1>12. row' = r /\ Replacement' = by
  BY <1>1 DEF row, Replacement
<1> QED BY <1>1, <1>3, <1>5, <1>8, <1>9, <1>11, <1>12 DEF Made

(* What stays made. *)
LEMMA MadeStays ==
  ASSUME call' = call, i' = i, copied' = copied, output' = output, slice' = slice,
         NEW S, NEW n, Made(S, n)
  PROVE  Made(S, n)'
<1>1. row' = row /\ Replacement' = Replacement
  BY DEF row, Replacement
<1>2. Traced'
  BY DEF Made, Traced
<1> QED BY <1>1, <1>2 DEF Made

(* A match that is not suppressed is the next one replaced. *)
LEMMA ReplaceStep ==
  ASSUME WalkInv, RowsInv, pc = "match", got.kind = "match", op = "gsub", Found, ~ Suppressed,
         NEW n \in Nat, GsubHand(n)
  PROVE  /\ got.start = InOrder(Replaced(row))[n + 1]
         /\ n + 1 \in 1 .. Cardinality(Replaced(row))
         /\ Passed(row, Replaced(row), n + 1, Onward)
         /\ got.end = row.size \/ Onward > row.size => n + 1 = Cardinality(Replaced(row))
         /\ \A k \in 1 .. n : InOrder(Replaced(row))[k] + row.hit[InOrder(Replaced(row))[k]] <= offset
<1>1. PICK r, c, S, p : r = row /\ S = Replaced(r) /\ c = InOrder(S) /\ p = got.start
  OBVIOUS
<1>2. IsRow(r)
  BY <1>1, HandRow DEF Walking
<1>3. /\ offset \in Nat /\ FirstAhead(r, offset, p) /\ Beyond(r, p, Onward)
      /\ p \in Start(r) /\ p \in Nat /\ r.hit[p] \in Nat
      /\ got.end = p + r.hit[p] /\ (Empty <=> r.hit[p] = 0)
  BY <1>1, MatchFound
<1>4. Passed(r, S, n, offset) /\ offset <= p
  BY <1>1, <1>3 DEF GsubHand, FirstAhead
<1>5. \A k \in 1 .. n : c[k] + r.hit[c[k]] <= offset
  BY <1>1, <1>4 DEF Passed
<1>6. \A k \in 1 .. n : c[k] + r.hit[c[k]] \in Nat
  <2>1. S \in SUBSET Start(r) /\ Rising(S, c)
    BY <1>1, <1>2, ReplacedPlaces
  <2>2. \A k \in 1 .. Cardinality(S) : c[k] \in 0 .. r.size /\ r.hit[c[k]] \in Nat
    BY <1>1, <1>2, <2>1, EndsAre
  <2>3. n \in 0 .. Cardinality(S) /\ Cardinality(S) \in Nat
    BY <1>4, <2>1 DEF Passed, Rising
  <2>4. SUFFICES ASSUME NEW k \in 1 .. n
                 PROVE  c[k] + r.hit[c[k]] \in Nat
    OBVIOUS
  <2>5. k \in 1 .. Cardinality(S)
    BY <2>3
  <2>6. c[k] \in 0 .. r.size /\ r.hit[c[k]] \in Nat
    BY <2>2, <2>5
  <2> QED BY <2>6
<1>7. r.hit[p] = 0 => \A k \in 1 .. n : LET q == c[k] IN r.hit[q] > 0 => q + r.hit[q] < p
  <2>1. SUFFICES ASSUME r.hit[p] = 0, NEW k \in 1 .. n, r.hit[c[k]] > 0
                 PROVE  c[k] + r.hit[c[k]] < p
    OBVIOUS
  <2>2. PICK e \in Nat : e = c[k] + r.hit[c[k]]
    BY <1>6
  <2>3. call.canEmpty
    BY <1>1, <1>3, <2>1, RowInHand DEF Walking
  <2>4. CASE barred = None
    <3>1. e < offset
      BY <1>1, <2>1, <2>2, <2>3, <2>4 DEF GsubHand, Barring
    <3> QED BY <1>3, <1>4, <2>2, <3>1
  <2>5. CASE barred # None
    <3>1. barred = offset
      BY <2>5 DEF WalkInv
    <3>2. p # offset
      BY <1>1, <1>3, <2>1, <2>5, <3>1 DEF Suppressed
    <3>3. e <= offset
      BY <1>5, <2>2
    <3> QED BY <1>3, <1>4, <2>2, <3>2, <3>3
  <2> QED BY <2>4, <2>5
<1>8. n + 1 \in 1 .. Cardinality(S) /\ c[n + 1] = p
  BY <1>1, <1>2, <1>3, <1>4, <1>7, ReplacesNext
<1>9. Passed(r, S, n + 1, Onward)
  BY <1>1, <1>2, <1>3, <1>4, <1>8, ReplacePasses
<1>10. got.end = row.size \/ Onward > row.size => n + 1 = Cardinality(S)
  BY <1>1, <1>2, <1>3, <1>4, <1>8, ReplaceEnds
<1> QED BY <1>1, <1>5, <1>8, <1>9, <1>10

(* One more match replaced in fgsub(). *)
LEMMA SubMatchKeeps ==
  ASSUME WalkInv, RowsInv, HandInv, SubMatch
  PROVE  RowsInv' /\ HandInv'
<1>1. /\ pc = "match" /\ op = "gsub" /\ ~ BuiltIn /\ got.kind = "match" /\ ~ Suppressed
      /\ call' = call /\ first' = first /\ errors' = errors /\ answer' = answer
      /\ i' = i /\ pc' \in {"store", "search"} /\ pc \in Walking /\ pc' \in Walking /\ spans' = spans
      /\ output' = output \o Bytes(copied, got.start) \o Replacement
      /\ slice' = SliceAppend(slice, copied, got.start) /\ copied' = got.end
      /\ pc' = "store" => got.end = row.size \/ Onward > row.size
      /\ pc' = "search" => /\ offset' = Onward
                           /\ barred' = IF call.canEmpty /\ ~ Empty THEN got.end ELSE None
  BY DEF SubMatch, Walking
<1>2. PICK n \in Nat : GsubHand(n)
  BY <1>1 DEF HandInv
<1>3. Found /\ ~ Skipped
  BY <1>1 DEF HandInv
<1>4. PICK r, S, c, p : r = row /\ S = Replaced(r) /\ c = InOrder(S) /\ p = got.start
  OBVIOUS
<1>5. /\ p = c[n + 1] /\ n + 1 \in 1 .. Cardinality(S) /\ Passed(r, S, n + 1, Onward)
      /\ got.end = row.size \/ Onward > row.size => n + 1 = Cardinality(S)
      /\ \A k \in 1 .. n : c[k] + r.hit[c[k]] <= offset
  BY <1>1, <1>2, <1>3, <1>4, ReplaceStep
<1>6. IsRow(r)
  BY <1>1, <1>4, HandRow
<1>7. /\ offset \in Nat /\ p \in Start(r) /\ p \in Nat /\ r.hit[p] \in Nat /\ offset <= p
      /\ got.end = p + r.hit[p] /\ (Empty <=> r.hit[p] = 0) /\ Onward \in Nat /\ p < Onward
  BY <1>1, <1>3, <1>4, MatchFound DEF FirstAhead, Beyond
<1>8. S \in SUBSET Start(r) /\ Rising(S, c)
  BY <1>4, <1>6, ReplacedPlaces
<1>9. PICK y \in Nat : y = n + 1
  OBVIOUS
<1>10. Made(S, n)
  BY <1>2, <1>4 DEF GsubHand
<1>11. PICK z \in Nat : z = Cardinality(S)
  BY <1>8 DEF Rising
<1>12. copied <= p
  <2>1. CASE n = 0
    BY <1>7, <1>10, <2>1 DEF Made, EndOf
  <2>2. CASE n # 0
    <3>1. copied = c[n] + r.hit[c[n]]
      BY <1>4, <1>10, <2>2 DEF Made, EndOf
    <3>2. copied <= offset
      <4>1. n \in 1 .. n
        BY <2>2
      <4> QED BY <1>5, <3>1, <4>1
    <3>3. copied \in Nat
      <4>1. n \in 0 .. z
        BY <1>5, <1>11
      <4>2. EndOf(r, c, n) \in 0 .. r.size
        BY <1>4, <1>6, <1>8, <1>11, <4>1, EndsAre
      <4> QED BY <1>4, <1>10, <4>2 DEF Made
    <3> QED BY <1>7, <3>2, <3>3
  <2> QED BY <2>1, <2>2
<1>13. Made(S, y)'
  BY <1>1, <1>4, <1>5, <1>7, <1>8, <1>9, <1>10, <1>12, MadeOn
<1>14. row' = r /\ op' = op /\ Skipped' = Skipped /\ BuiltIn' = BuiltIn /\ call' = call
  BY <1>1, <1>4 DEF row, op, Skipped, BuiltIn
<1>15. RowsInv'
  <2>1. spans \in Seq(Span) /\ first[i] <= Len(spans)
    BY <1>1, HandRow
  <2> QED BY <1>1, <2>1, RowsStay
<1>16. CASE pc' = "store"
  <2>1. y = Cardinality(S)
    BY <1>1, <1>5, <1>9, <1>16
  <2>2. Wanted' = S
    BY <1>1, <1>4, <1>14 DEF Wanted
  <2>3. Start(row') # {}
    BY <1>7, <1>14
  <2>4. SubReady'
    BY <1>13, <2>1, <2>2, <2>3 DEF SubReady
  <2> QED BY <1>1, <1>3, <1>14, <1>15, <1>16, <2>4 DEF HandInv
<1>17. CASE pc' = "search"
  <2>1. offset' = Onward /\ barred' = IF call.canEmpty /\ ~ Empty THEN got.end ELSE None
    BY <1>1, <1>17
  <2>2. Passed(row, Replaced(row), y, offset)'
    BY <1>4, <1>5, <1>9, <1>14, <2>1
  <2>3. offset' # 0 /\ y # 0
    BY <1>7, <1>9, <2>1
  <2>4. Made(Replaced(row), y)'
    BY <1>4, <1>13, <1>14
  <2>5. Barring(y)'
    <3>1. barred' # None => \E k \in 1 .. y : r.hit[c[k]] > 0 /\ c[k] + r.hit[c[k]] = barred'
      <4>1. SUFFICES ASSUME barred' # None
                     PROVE  \E k \in 1 .. y : r.hit[c[k]] > 0 /\ c[k] + r.hit[c[k]] = barred'
        OBVIOUS
      <4>2. y \in 1 .. y
        BY <1>9
      <4>3. r.hit[p] > 0 /\ p + r.hit[p] = barred'
        BY <1>7, <2>1, <4>1
      <4> QED BY <1>5, <1>9, <4>2, <4>3
    <3>2. barred' = None /\ call.canEmpty =>
            \A k \in 1 .. y : r.hit[c[k]] > 0 => c[k] + r.hit[c[k]] < offset'
      <4>1. SUFFICES ASSUME barred' = None, call.canEmpty, NEW k \in 1 .. y, r.hit[c[k]] > 0
                     PROVE  c[k] + r.hit[c[k]] < offset'
        OBVIOUS
      <4>2. r.hit[p] = 0
        BY <1>7, <2>1, <4>1 DEF None
      <4>3. k # n + 1
        BY <1>5, <4>1, <4>2
      <4>4. k \in 1 .. n
        BY <1>9, <4>3
      <4>5. PICK e \in Nat : e = c[k] + r.hit[c[k]]
        <5>1. k \in 0 .. z /\ k # 0
          BY <1>5, <1>11, <4>4
        <5>2. EndOf(r, c, k) \in 0 .. r.size
          BY <1>4, <1>6, <1>8, <1>11, <5>1, EndsAre
        <5> QED BY <5>1, <5>2 DEF EndOf
      <4>6. e <= offset
        BY <1>5, <4>4, <4>5
      <4> QED BY <1>7, <2>1, <4>5, <4>6
    <3> QED BY <1>4, <1>14, <3>1, <3>2 DEF Barring
  <2>6. GsubHand(y)'
    BY <1>1, <1>14, <2>2, <2>3, <2>4, <2>5 DEF GsubHand
  <2> QED BY <1>1, <1>3, <1>14, <1>15, <1>17, <2>6 DEF HandInv
<1> QED BY <1>1, <1>16, <1>17

(* An empty match where a consuming one ended is passed over. *)
LEMMA SubSuppressedKeeps ==
  ASSUME WalkInv, RowsInv, HandInv, SubSuppressed
  PROVE  RowsInv' /\ HandInv'
<1>1. /\ pc = "match" /\ op = "gsub" /\ got.kind = "match" /\ Suppressed
      /\ call' = call /\ first' = first /\ errors' = errors /\ answer' = answer
      /\ i' = i /\ pc' = "search" /\ pc \in Walking /\ pc' \in Walking /\ spans' = spans
      /\ output' = output /\ slice' = slice /\ copied' = copied
      /\ offset' = StepPast(barred) /\ barred' = None
  BY DEF SubSuppressed, Walking
<1>2. PICK n \in Nat : GsubHand(n)
  BY <1>1 DEF HandInv
<1>3. Found /\ ~ Skipped
  BY <1>1 DEF HandInv
<1>4. PICK r, S, c : r = row /\ S = Replaced(r) /\ c = InOrder(S)
  OBVIOUS
<1>5. IsRow(r)
  BY <1>1, <1>4, HandRow
<1>6. /\ offset \in Nat /\ offset \in Start(r) /\ r.hit[offset] = 0
      /\ barred = offset /\ barred # None /\ offset \in r.chars
  <2>1. barred # None /\ got.start = barred /\ got.end = barred /\ barred = offset /\ offset \in r.chars
    BY <1>1, <1>4 DEF Suppressed, WalkInv
  <2>2. offset \in Nat /\ got.start \in Start(r) /\ (Empty <=> r.hit[got.start] = 0)
    BY <1>1, <1>3, <1>4, MatchFound
  <2> QED BY <2>1, <2>2 DEF Empty
<1>7. PICK k \in 1 .. n : r.hit[c[k]] > 0 /\ c[k] + r.hit[c[k]] = offset
  BY <1>2, <1>4, <1>6 DEF GsubHand, Barring
<1>8. PICK u \in Nat : u = StepPast(offset) /\ offset < u /\ \A s \in r.chars : offset < s => u <= s
  <2>1. row.size \in Nat /\ row.chars \subseteq 0 .. row.size /\ row.size \in row.chars
    BY <1>1, RowInHand
  <2>2. offset \in row.chars
    BY <1>4, <1>6
  <2>3. /\ StepPast(offset) \in Nat /\ StepPast(offset) > offset
        /\ \A q \in row.chars : q > offset => StepPast(offset) <= q
    BY <2>1, <2>2, StepPastLands
  <2>4. offset < StepPast(offset)
    BY <1>6, <2>3
  <2>5. \A s \in r.chars : offset < s => StepPast(offset) <= s
    <3>1. SUFFICES ASSUME NEW s \in r.chars, offset < s
                   PROVE  StepPast(offset) <= s
      OBVIOUS
    <3>2. s > offset
      BY <1>4, <1>6, <2>1, <3>1
    <3> QED BY <1>4, <2>3, <3>2
  <2> QED BY <2>3, <2>4, <2>5
<1>9. Passed(r, S, n, offset)
  BY <1>2, <1>4 DEF GsubHand
<1>10. Passed(r, S, n, u)
  BY <1>4, <1>5, <1>6, <1>7, <1>8, <1>9, ReplaceSkips
<1>11. row' = r /\ op' = op /\ Skipped' = Skipped /\ BuiltIn' = BuiltIn /\ offset' = u
  BY <1>1, <1>4, <1>6, <1>8 DEF row, op, Skipped, BuiltIn
<1>12. offset' # 0 /\ n # 0 /\ ~ BuiltIn
  <2>1. n # 0
    BY <1>7
  <2> QED BY <1>2, <1>6, <1>8, <1>11, <2>1 DEF GsubHand
<1>13. Made(Replaced(row), n)'
  <2>1. Made(S, n)
    BY <1>2, <1>4 DEF GsubHand
  <2>2. Made(S, n)'
    BY <1>1, <2>1, MadeStays
  <2> QED BY <1>4, <1>11, <2>2
<1>14. Barring(n)'
  <2>1. \A l \in 1 .. n : c[l] + r.hit[c[l]] < u
    <3>1. SUFFICES ASSUME NEW l \in 1 .. n
                   PROVE  c[l] + r.hit[c[l]] < u
      OBVIOUS
    <3>2. c[l] + r.hit[c[l]] <= offset
      BY <1>4, <1>9 DEF Passed
    <3>3. PICK e \in Nat : e = c[l] + r.hit[c[l]]
      <4>1. S \in SUBSET Start(r) /\ Rising(S, c)
        BY <1>4, <1>5, ReplacedPlaces
      <4>2. l \in 0 .. Cardinality(S) /\ l # 0
        BY <1>9, <4>1 DEF Passed, Rising
      <4>3. EndOf(r, c, l) \in 0 .. r.size
        BY <1>4, <1>5, <4>1, <4>2, EndsAre
      <4> QED BY <4>2, <4>3 DEF EndOf
    <3> QED BY <1>6, <1>8, <3>2, <3>3
  <2> QED BY <1>1, <1>4, <1>11, <2>1 DEF Barring
<1>15. GsubHand(n)'
  BY <1>4, <1>10, <1>11, <1>12, <1>13, <1>14 DEF GsubHand
<1>16. RowsInv'
  <2>1. spans \in Seq(Span) /\ first[i] <= Len(spans)
    BY <1>1, HandRow
  <2> QED BY <1>1, <2>1, RowsStay
<1> QED BY <1>1, <1>3, <1>11, <1>15, <1>16 DEF HandInv

(* No match is left to replace. *)
LEMMA SubEndKeeps ==
  ASSUME WalkInv, RowsInv, HandInv, SubEnd
  PROVE  RowsInv' /\ HandInv'
<1>1. /\ pc = "match" /\ op \in {"sub", "gsub"} /\ got.kind = "none" /\ pc \in Walking
      /\ call' = call /\ first' = first /\ errors' = errors /\ spans' = spans
      /\ output' = output /\ slice' = slice /\ copied' = copied
  BY DEF SubEnd, Walking, row_vars
<1>2. Found /\ ~ Skipped
  BY <1>1 DEF HandInv
<1>3. PICK r, S, c : r = row /\ S = Replaced(r) /\ c = InOrder(S)
  OBVIOUS
<1>4. IsRow(r) /\ offset \in Nat
  <2>1. IsRow(r)
    BY <1>1, <1>3, HandRow
  <2>2. offset \in r.chars
    BY <1>1, <1>3 DEF WalkInv
  <2> QED BY <2>1, <2>2 DEF IsRow
<1>5. \A p \in Start(r) : ~ (offset <= p)
  BY <1>1, <1>2, <1>3 DEF Found
<1>6. CASE offset = 0
  <2>1. Start(row) = {}
    <3>1. \A p \in Start(r) : p \in Nat
      BY <1>4 DEF IsRow
    <3> QED BY <1>3, <1>5, <1>6, <3>1
  <2>2. i' = i + 1 /\ pc' = "row" /\ answer' = [answer EXCEPT ![i] = Original]
    BY <1>6 DEF SubEnd, Finish
  <2> QED BY <1>1, <2>1, <2>2, TextJoins
<1>7. CASE offset # 0
  <2>1. op = "gsub"
    BY <1>1, <1>7 DEF HandInv, SubHand
  <2>2. PICK n \in Nat : GsubHand(n)
    BY <1>1, <2>1 DEF HandInv
  <2>3. n # 0 /\ Passed(r, S, n, offset) /\ Made(S, n)
    BY <1>3, <1>7, <2>2 DEF GsubHand
  <2>4. S \in SUBSET Start(r) /\ Rising(S, c)
    BY <1>3, <1>4, ReplacedPlaces
  <2>5. n = Cardinality(S)
    <3>1. Upward(ReplaceBars(r)) /\ S = Taken(Start(r), ReplaceBars(r))
      BY <1>3, BarsUpward
    <3>2. \A s \in S : ~ (offset <= s)
      BY <1>5, <2>4
    <3> QED BY <1>4, <2>3, <3>1, <3>2, NoneLeft
  <2>6. pc' = "store" /\ i' = i /\ answer' = answer /\ pc' \in Walking
    BY <1>7 DEF SubEnd, Walking
  <2>7. row' = r /\ op' = op /\ Skipped' = Skipped
    BY <1>1, <1>3, <2>6 DEF row, op, Skipped
  <2>8. Made(S, n)'
    BY <1>1, <2>3, <2>6, MadeStays
  <2>9. Wanted' = S
    BY <1>3, <2>1, <2>7 DEF Wanted
  <2>10. Start(r) # {}
    <3>1. 1 \in 1 .. Cardinality(S)
      BY <2>3, <2>5
    <3>2. c[1] \in S
      BY <2>4, <3>1 DEF Rising
    <3> QED BY <2>4, <3>2
  <2>11. SubReady'
    BY <2>5, <2>7, <2>8, <2>9, <2>10 DEF SubReady
  <2>12. RowsInv'
    <3>1. spans \in Seq(Span) /\ first[i] <= Len(spans)
      BY <1>1, HandRow
    <3> QED BY <1>1, <2>6, <3>1, RowsStay
  <2> QED BY <1>2, <2>1, <2>6, <2>7, <2>11, <2>12 DEF HandInv
<1> QED BY <1>6, <1>7

(* A search or an expansion that failed. *)
LEMMA SubFailedKeeps ==
  ASSUME WalkInv, RowsInv, HandInv, SubFailed
  PROVE  RowsInv' /\ HandInv'
<1>1. /\ pc = "match" /\ op \in {"sub", "gsub"} /\ pc \in Walking
      /\ call' = call /\ first' = first /\ errors' = [errors EXCEPT ![i] = TRUE] /\ spans' = spans
      /\ answer' = [answer EXCEPT ![i] = Original] /\ i' = i + 1 /\ pc' = "row"
  BY DEF SubFailed, Fail, Finish, Walking
<1>2. errors' # errors
  <2>1. errors[i] = FALSE /\ i \in DOMAIN errors
    BY <1>1, HandRow
  <2> QED BY <1>1, <2>1
<1> QED BY <1>1, <1>2, TextJoins

(* Places that are one alone. *)
LEMMA OnePlace ==
  ASSUME NEW r, IsRow(r), NEW p \in Start(r)
  PROVE  /\ {p} \in SUBSET Start(r) /\ Rising({p}, InOrder({p}))
         /\ Cardinality({p}) = 1 /\ InOrder({p})[1] = p
<1>1. {p} \in SUBSET (0 .. r.size) /\ r.size \in Nat
  BY DEF IsRow
<1>2. Rising({p}, InOrder({p}))
  BY <1>1, PlacesInOrder
<1>3. Cardinality({p}) = 1
  BY FS_Singleton
<1>4. InOrder({p})[1] \in {p}
  <2>1. 1 \in 1 .. 1
    OBVIOUS
  <2> QED BY <1>2, <1>3, <2>1 DEF Rising
<1> QED BY <1>2, <1>3, <1>4

(* Nothing is made before the first match. *)
LEMMA NothingMade ==
  ASSUME WalkInv, RowsInv, pc \in Walking, NEW S \in SUBSET Start(row), Rising(S, InOrder(S)),
         copied = 0, output = <<>>, slice = NoSlice
  PROVE  Made(S, 0)
<1>1. IsRow(row) /\ Replacement \in Seq(Int)
  BY HandRow DEF Replacement, Mark
<1>2. IsBuilt(row, S, Replacement, Built(row, S, Replacement))
  BY <1>1, BuiltSo
<1>3. output = Built(row, S, Replacement)[0]
  BY <1>2 DEF IsBuilt
<1>4. copied = EndOf(row, InOrder(S), 0)
  BY DEF EndOf
<1>5. Traced
  <2>1. Bytes(0, 0) = <<>>
    BY BytesAre
  <2> QED BY <2>1 DEF Traced, NoSlice
<1> QED BY <1>3, <1>4, <1>5 DEF Made

(* The one match that fsub() replaces. *)
LEMMA SubFirstKeeps ==
  ASSUME WalkInv, RowsInv, HandInv, SubFirst
  PROVE  RowsInv' /\ HandInv'
<1>1. /\ pc = "match" /\ op = "sub" /\ got.kind = "match" /\ pc \in Walking
      /\ call' = call /\ first' = first /\ errors' = errors /\ spans' = spans /\ answer' = answer
      /\ output' = Bytes(0, got.start) \o Replacement
      /\ slice' = SliceAppend(slice, 0, got.start) /\ copied' = got.end
      /\ pc' = "store" /\ i' = i /\ pc' \in Walking
  BY DEF SubFirst, Walking
<1>2. Found /\ ~ Skipped /\ SubHand
  BY <1>1 DEF HandInv
<1>3. PICK r, p : r = row /\ p = got.start
  OBVIOUS
<1>4. IsRow(r)
  BY <1>1, <1>3, HandRow
<1>5. /\ p \in Start(r) /\ p \in Nat /\ got.end = p + r.hit[p]
      /\ \A s \in Start(r) : p <= s
  <2>1. FirstAhead(r, 0, p) /\ p \in Nat /\ got.end = p + r.hit[p]
    BY <1>1, <1>2, <1>3, MatchFound DEF SubHand
  <2>2. \A s \in Start(r) : 0 <= s
    BY <1>4 DEF IsRow
  <2> QED BY <2>1, <2>2 DEF FirstAhead
<1>6. PICK S : S = {p}
  OBVIOUS
<1>7. S \in SUBSET Start(r) /\ Rising(S, InOrder(S)) /\ Cardinality(S) = 1 /\ InOrder(S)[1] = p
  BY <1>4, <1>5, <1>6, OnePlace
<1>8. Made(S, 0)
  BY <1>1, <1>2, <1>3, <1>7, NothingMade DEF SubHand
<1>9. output' = output \o Bytes(copied, p) \o Replacement
  <2>1. PICK b \in Seq(Int) : b = Bytes(0, p)
    <3>1. 0 \in Int /\ p \in Int
      BY <1>5
    <3> QED BY <3>1, BytesAre
  <2>2. <<>> \o b = b
    OBVIOUS
  <2> QED BY <1>1, <1>2, <1>3, <2>1, <2>2 DEF SubHand
<1>10. Made(S, 1)'
  <2>1. PICK n \in Nat : n = 0
    OBVIOUS
  <2>2. n + 1 = 1 /\ n + 1 \in 1 .. Cardinality(S)
    BY <1>7, <2>1
  <2>3. Made(S, n)
    BY <1>8, <2>1
  <2>4. copied <= p /\ slice' = SliceAppend(slice, copied, p) /\ copied' = p + row.hit[p] /\ p = InOrder(S)[n + 1]
    BY <1>1, <1>2, <1>3, <1>5, <1>7, <2>2 DEF SubHand
  <2>5. Made(S, n + 1)'
    BY <1>1, <1>3, <1>7, <1>9, <2>2, <2>3, <2>4, MadeOn
  <2> QED BY <2>2, <2>5
<1>11. row' = r /\ op' = op /\ Skipped' = Skipped
  BY <1>1, <1>3 DEF row, op, Skipped
<1>12. Wanted' = S
  <2>1. Least(Start(r)) = p
    BY <1>4, <1>5, LeastPlace
  <2> QED BY <1>1, <1>6, <1>11, <2>1 DEF Wanted
<1>13. SubReady'
  BY <1>5, <1>7, <1>10, <1>11, <1>12 DEF SubReady
<1>14. RowsInv'
  <2>1. spans \in Seq(Span) /\ first[i] <= Len(spans)
    BY <1>1, HandRow
  <2> QED BY <1>1, <2>1, RowsStay
<1> QED BY <1>1, <1>2, <1>11, <1>13, <1>14 DEF HandInv

(* What is behind the last match, and the text stored. *)
LEMMA SubStoreKeeps ==
  ASSUME WalkInv, RowsInv, HandInv, SubStore
  PROVE  RowsInv' /\ HandInv'
<1>1. PICK text, whole :
        text = output \o Bytes(copied, row.size) /\ whole = SliceAppend(slice, copied, row.size)
  OBVIOUS
<1>2. PICK v : v = IF text = Bytes(0, row.size) THEN Original
                   ELSE IF call.repl = "none" /\ whole.contiguous /\ whole.length = Len(text)
                     THEN [kind |-> "slice", offset |-> whole.offset, length |-> whole.length]
                   ELSE [kind |-> "changed", text |-> text]
  OBVIOUS
<1>3. /\ pc = "store" /\ op \in {"sub", "gsub"} /\ pc \in Walking
      /\ call' = call /\ first' = first /\ errors' = errors /\ spans' = spans
      /\ output' = text /\ slice' = whole
      /\ answer' = [answer EXCEPT ![i] = v] /\ i' = i + 1 /\ pc' = "row"
  BY <1>1, <1>2 DEF SubStore, Finish, Walking
<1>4. SubReady
  BY <1>3 DEF HandInv
<1>5. PICK r, S, c, z : r = row /\ S = Wanted /\ c = InOrder(S) /\ z = Cardinality(S)
  OBVIOUS
<1>6. IsRow(r) /\ Replacement \in Seq(Int)
  BY <1>3, <1>5, HandRow DEF Replacement, Mark
<1>7. Start(r) # {} /\ Made(S, z)
  BY <1>4, <1>5 DEF SubReady
<1>8. S \in SUBSET Start(r) /\ Rising(S, c)
  <2>1. CASE op = "sub"
    <3>1. Least(Start(r)) \in Start(r)
      BY <1>6, <1>7, LeastThere
    <3>2. S = {Least(Start(r))}
      BY <1>5, <2>1 DEF Wanted
    <3> QED BY <1>5, <1>6, <3>1, <3>2, OnePlace
  <2>2. CASE op = "gsub"
    <3>1. S = Replaced(r)
      BY <1>5, <2>2 DEF Wanted
    <3> QED BY <1>5, <1>6, <3>1, ReplacedPlaces
  <2> QED BY <1>3, <2>1, <2>2
<1>9. PICK g : g = Built(r, S, Replacement)
  OBVIOUS
<1>10. IsBuilt(r, S, Replacement, g)
  BY <1>5, <1>6, <1>8, <1>9, BuiltSo
<1>11. output = g[z] /\ copied = EndOf(r, c, z) /\ Traced
  BY <1>5, <1>7, <1>9 DEF Made
<1>12. text = Substituted(r, S, Replacement)
  BY <1>1, <1>5, <1>10, <1>11 DEF IsBuilt
<1>13. Traced'
  <2>1. copied \in 0 .. r.size /\ r.size \in Nat
    <3>1. z \in Nat
      BY <1>5, <1>8 DEF Rising
    <3>2. z \in 0 .. z
      BY <3>1
    <3> QED BY <1>5, <1>6, <1>8, <1>11, <3>2, EndsAre DEF IsRow
  <2>2. copied \in Nat /\ copied <= r.size
    BY <2>1
  <2> QED BY <1>1, <1>3, <1>5, <1>11, <2>1, <2>2, TraceAppends
<1>14. TextOf(r, v) = text
  <2>1. CASE text = Bytes(0, row.size)
    BY <1>2, <1>5, <2>1 DEF TextOf, Original
  <2>2. CASE text # Bytes(0, row.size) /\ call.repl = "none" /\ whole.contiguous /\ whole.length = Len(text)
    <3>1. v = [kind |-> "slice", offset |-> whole.offset, length |-> whole.length]
      BY <1>2, <2>2
    <3>2. text = Bytes(whole.offset, whole.offset + whole.length)
      BY <1>3, <1>13, <2>2 DEF Traced
    <3> QED BY <3>1, <3>2 DEF TextOf
  <2>3. CASE text # Bytes(0, row.size) /\ ~ (call.repl = "none" /\ whole.contiguous /\ whole.length = Len(text))
    <3>1. v = [kind |-> "changed", text |-> text]
      BY <1>2, <2>3
    <3> QED BY <3>1 DEF TextOf
  <2> QED BY <2>1, <2>2, <2>3
<1> QED BY <1>3, <1>5, <1>7, <1>12, <1>14, TextJoins

(* What pcre2_substitute() writes from the first match on. *)
LEMMA SubstituteText ==
  ASSUME WalkInv, RowsInv, pc \in Walking, op \in {"sub", "gsub"}, BuiltIn,
         NEW f \in Start(row), \A s \in Start(row) : f <= s
  PROVE  Substitute(f).text = Substituted(row, Wanted, Replacement)
<1>1. PICK r : r = row
  OBVIOUS
<1>2. IsRow(r)
  BY <1>1, HandRow
<1>3. CASE op = "sub"
  <2>1. Least(Start(r)) = f
    BY <1>1, <1>2, LeastPlace
  <2> QED BY <1>1, <1>3, <2>1 DEF Substitute, Wanted
<1>4. CASE op = "gsub"
  <2>1. ~ call.canEmpty
    BY <1>4 DEF BuiltIn
  <2>2. \A p \in Start(r) : r.hit[p] # 0
    BY <1>1, <2>1, RowInHand
  <2>3. Taken({p \in Start(r) : p >= f}, Inside(r)) = Replaced(r)
    BY <1>1, <1>2, <2>2, SolidChain
  <2> QED BY <1>1, <1>4, <2>3 DEF Substitute, Wanted
<1> QED BY <1>3, <1>4

(* The text that is stored. *)
LEMMA StoredText ==
  ASSUME NEW text
  PROVE  TextOf(row, Stored(text)) = text
<1>1. CASE text = Bytes(0, row.size)
  BY <1>1 DEF TextOf, Stored, Original
<1>2. CASE text # Bytes(0, row.size)
  <2>1. Stored(text) = [kind |-> "changed", text |-> text]
    BY <1>2 DEF Stored
  <2> QED BY <2>1 DEF TextOf
<1> QED BY <1>1, <1>2

(* The row that PCRE2 fails on. *)
LEMMA BuiltInFails ==
  ASSUME WalkInv, RowsInv, HandInv, pc \in Walking, op \in {"sub", "gsub"}, call' = call, first' = first,
         spans' = spans, Fail(Original)
  PROVE  RowsInv' /\ HandInv'
<1>1. /\ errors' = [errors EXCEPT ![i] = TRUE] /\ answer' = [answer EXCEPT ![i] = Original]
      /\ i' = i + 1 /\ pc' = "row"
  BY DEF Fail, Finish
<1>2. errors' # errors
  <2>1. errors[i] = FALSE /\ i \in DOMAIN errors
    BY HandRow
  <2> QED BY <1>1, <2>1
<1> QED BY <1>1, <1>2, TextJoins

(* The first call of pcre2_substitute(). *)
LEMMA SubBuiltInKeeps ==
  ASSUME WalkInv, RowsInv, HandInv, SubBuiltIn
  PROVE  RowsInv' /\ HandInv'
<1>1. /\ pc = "match" /\ op \in {"sub", "gsub"} /\ got.kind = "match" /\ pc \in Walking /\ BuiltIn
      /\ call' = call /\ first' = first /\ spans' = spans
  BY DEF SubBuiltIn, Walking
<1>2. Found /\ ~ Skipped
  BY <1>1 DEF HandInv
<1>3. PICK r, p : r = row /\ p = got.start
  OBVIOUS
<1>4. IsRow(r)
  BY <1>1, <1>3, HandRow
<1>5. offset = 0
  <2>1. CASE op = "sub"
    BY <1>1, <2>1 DEF HandInv, SubHand
  <2>2. CASE op = "gsub"
    BY <1>1, <2>2 DEF HandInv, GsubHand
  <2> QED BY <1>1, <2>1, <2>2
<1>6. p \in Start(r) /\ \A s \in Start(r) : p <= s
  <2>1. FirstAhead(r, 0, p)
    BY <1>1, <1>2, <1>3, <1>5, MatchFound
  <2>2. \A s \in Start(r) : 0 <= s
    BY <1>4 DEF IsRow
  <2> QED BY <2>1, <2>2 DEF FirstAhead
<1>7. PICK done : done = Substitute(p)
  OBVIOUS
<1>8. TextOf(r, Stored(done.text)) = Substituted(r, Wanted, Replacement)
  BY <1>1, <1>3, <1>6, <1>7, SubstituteText, StoredText
<1>9. CASE Fail(Original)
  BY <1>1, <1>9, BuiltInFails
<1>10. CASE Finish(Stored(done.text)) /\ errors' = errors
  <2>1. answer' = [answer EXCEPT ![i] = Stored(done.text)] /\ i' = i + 1 /\ pc' = "row"
    BY <1>10 DEF Finish
  <2>2. Start(row) # {}
    BY <1>3, <1>6
  <2> QED BY <1>1, <1>3, <1>8, <1>10, <2>1, <2>2, TextJoins
<1>11. CASE pc' = "retry" /\ i' = i /\ errors' = errors /\ answer' = answer
  <2>1. pc' \in Walking
    BY <1>11 DEF Walking
  <2>2. row' = row /\ op' = op /\ Skipped' = Skipped /\ BuiltIn' = BuiltIn
    BY <1>1, <1>11 DEF row, op, Skipped, BuiltIn
  <2>3. RowsInv'
    <3>1. spans \in Seq(Span) /\ first[i] <= Len(spans)
      BY <1>1, HandRow
    <3> QED BY <1>1, <1>11, <2>1, <3>1, RowsStay
  <2>4. Start(row') # {}
    BY <1>3, <1>6, <2>2
  <2> QED BY <1>1, <1>2, <1>11, <2>2, <2>3, <2>4 DEF HandInv
<1> QED BY <1>3, <1>7, <1>9, <1>10, <1>11 DEF SubBuiltIn

(* The second call, from the start again. *)
LEMMA SubRetryKeeps ==
  ASSUME WalkInv, RowsInv, HandInv, SubRetry
  PROVE  RowsInv' /\ HandInv'
<1>1. /\ pc = "retry" /\ pc \in Walking /\ call' = call /\ first' = first /\ spans' = spans
  BY DEF SubRetry, Walking
<1>2. op \in {"sub", "gsub"} /\ BuiltIn /\ Start(row) # {}
  BY <1>1 DEF HandInv
<1>3. PICK r, f : r = row /\ f = Least(Start(r))
  OBVIOUS
<1>4. f \in Start(r) /\ \A s \in Start(r) : f <= s
  <2>1. IsRow(r)
    BY <1>1, <1>3, HandRow
  <2> QED BY <1>2, <1>3, <2>1, LeastThere
<1>5. PICK done : done = Substitute(f)
  OBVIOUS
<1>6. TextOf(r, Stored(done.text)) = Substituted(r, Wanted, Replacement)
  BY <1>1, <1>2, <1>3, <1>4, <1>5, SubstituteText, StoredText
<1>7. CASE Fail(Original)
  BY <1>1, <1>2, <1>7, BuiltInFails
<1>8. CASE Finish(Stored(done.text)) /\ errors' = errors
  <2>1. answer' = [answer EXCEPT ![i] = Stored(done.text)] /\ i' = i + 1 /\ pc' = "row"
    BY <1>8 DEF Finish
  <2> QED BY <1>1, <1>2, <1>3, <1>6, <1>8, <2>1, TextJoins
<1> QED BY <1>3, <1>5, <1>7, <1>8 DEF SubRetry

-----------------------------------------------------------------------------
(* Before a row's first search none of its places has been passed. *)
LEMMA NonePassed ==
  ASSUME NEW r, IsRow(r), NEW S \in SUBSET Start(r), Rising(S, InOrder(S))
  PROVE  Passed(r, S, 0, 0)
<1>1. PICK z \in Nat : z = Cardinality(S)
  BY DEF Rising
<1> DEFINE c == InOrder(S)
<1>2. \A k \in 1 .. z : c[k] \in 0 .. r.size
  BY <1>1, EndsAre
<1>3. \A k \in 0 + 1 .. z : 0 <= c[k]
  <2>1. r.size \in Nat
    BY DEF IsRow
  <2>2. SUFFICES ASSUME NEW k \in 0 + 1 .. z
                 PROVE  0 <= c[k]
    OBVIOUS
  <2>3. k \in 1 .. z
    OBVIOUS
  <2> QED BY <1>2, <2>1, <2>3
<1>4. 0 \in 0 .. z
  BY <1>1
<1>5. \A k \in 1 .. 0 : FALSE
  OBVIOUS
<1> QED BY <1>1, <1>3, <1>4, <1>5 DEF Passed

(* While the rows behind do not change what they are given. *)
LEMMA RowsBehind ==
  ASSUME WalkInv, RowsInv, pc \notin Walking, call' = call, spans' = spans, errors' = errors,
         NEW k \in DOMAIN call.rows, k < i, answer'[k] = answer[k], first'[k] = first[k]
  PROVE  RowDone(k, Len(spans))'
<1>1. spans \in Seq(Span) /\ first[k] \in Nat /\ RowDone(k, Len(spans))
  BY DEF RowsInv
<1>2. PICK m \in Nat : m = Len(spans)
  BY <1>1
<1>3. \A l \in 1 .. m : spans'[l] = spans[l]
  OBVIOUS
<1>4. RowDone(k, m)'
  BY <1>1, <1>2, <1>3, RowTypes, DoneKept
<1> QED BY <1>2, <1>4

(* A row that is passed over has its answer. *)
LEMMA SkippedKeeps ==
  ASSUME WalkInv, RowsInv, BeginRow, Skipped
  PROVE  RowsInv' /\ HandInv'
<1>1. /\ pc = "row" /\ i <= Len(call.rows) /\ pc \notin Walking /\ pc' = "row" /\ pc' \notin Walking
      /\ call' = call /\ i' = i + 1 /\ spans' = spans /\ errors' = errors
      /\ first' = [first EXCEPT ![i] = Len(spans)]
  BY DEF BeginRow, Walking
<1>2. PICK v : v = IF row.na THEN Missing ELSE [kind |-> "matches", count |-> 0]
  OBVIOUS
<1>3. answer' = [answer EXCEPT ![i] = v]
  BY <1>2 DEF BeginRow
<1>4. DOMAIN call.rows = 1 .. Len(call.rows) /\ Len(call.rows) \in Nat /\ i \in Nat \ {0}
  BY RowTypes
<1>5. i \in DOMAIN call.rows
  BY <1>1, <1>4
<1>6. /\ DOMAIN answer = DOMAIN call.rows /\ DOMAIN errors = DOMAIN call.rows
      /\ first \in [DOMAIN call.rows -> Nat] /\ spans \in Seq(Span)
      /\ \A k \in DOMAIN call.rows : i <= k => errors[k] = FALSE
      /\ op = "field" => spans = <<>>
  BY <1>1 DEF RowsInv
<1>7. PICK m \in Nat : m = Len(spans)
  BY <1>6
<1>8. PICK k, r : k = i /\ r = row
  OBVIOUS
<1>9. answer'[k] = v /\ first'[k] = m /\ errors'[k] = FALSE /\ call'.rows[k] = r /\ op' = op
  BY <1>1, <1>3, <1>4, <1>5, <1>6, <1>7, <1>8 DEF row, op
<1>10. RowExact(k)'
  <2>1. CASE r.na
    <3>1. v = Missing
      BY <1>2, <1>8, <2>1
    <3>2. Answered(k, r)'
      BY <1>9, <2>1, <3>1 DEF Answered
    <3> QED BY <1>9, <3>2, AnsweredExactly
  <2>2. CASE ~ r.na
    <3>1. /\ op \in {"count", "extract"} /\ call.extended /\ r.size = 0
          /\ v = [kind |-> "matches", count |-> 0]
      BY <1>2, <1>8, <2>2 DEF Skipped
    <3>2. CASE op = "count"
      <4>1. Answered(k, r)'
        BY <1>1, <1>9, <2>2, <3>1, <3>2 DEF Answered
      <4> QED BY <1>9, <4>1, AnsweredExactly
    <3>3. CASE op = "extract"
      <4>1. SpansOf(k)' = <<>>
        <5>1. <<>> \in Seq(Span) /\ Len(<<>>) = 0
          OBVIOUS
        <5>2. answer'[k].count = 0
          BY <1>9, <3>1
        <5>3. spans' \in Seq(Span) /\ m + 0 <= Len(spans') /\ 0 \in Nat
          BY <1>1, <1>6, <1>7
        <5>4. \A l \in 1 .. 0 : spans'[m + l] = <<>>[l]
          OBVIOUS
        <5> QED BY <1>9, <5>1, <5>2, <5>3, <5>4, SpansEnd
      <4>2. Answered(k, r)'
        BY <1>1, <1>9, <2>2, <3>1, <3>3, <4>1 DEF Answered
      <4> QED BY <1>9, <4>2, AnsweredExactly
    <3> QED BY <3>1, <3>2, <3>3
  <2> QED BY <2>1, <2>2
<1>11. RowDone(k, Len(spans))'
  <2>1. Spanned(k)' => answer'[k].count = 0
    BY <1>2, <1>8, <1>9 DEF Spanned
  <2>2. m + 0 <= Len(spans')
    BY <1>1, <1>7
  <2> QED BY <1>9, <1>10, <2>1, <2>2 DEF RowDone
<1>12. ASSUME NEW l \in DOMAIN call.rows, l < i' PROVE RowDone(l, Len(spans))'
  <2>1. CASE l = i
    BY <1>8, <1>11, <2>1
  <2>2. CASE l # i
    <3>1. l < i
      BY <1>1, <1>4, <1>12, <2>2
    <3>2. answer'[l] = answer[l] /\ first'[l] = first[l]
      BY <1>1, <1>3, <1>6, <2>2
    <3> QED BY <1>1, <3>1, <3>2, RowsBehind
  <2> QED BY <2>1, <2>2
<1>13. ASSUME NEW l \in DOMAIN call.rows, i' <= l PROVE errors'[l] = FALSE
  <2>1. i <= l
    BY <1>1, <1>4, <1>13
  <2> QED BY <1>1, <1>6, <2>1
<1>14. first' \in [DOMAIN call.rows -> Nat] /\ DOMAIN answer' = DOMAIN call.rows
  BY <1>1, <1>3, <1>6, <1>7
<1>15. RowsInv'
  BY <1>1, <1>6, <1>9, <1>12, <1>13, <1>14 DEF RowsInv
<1> QED BY <1>1, <1>15, HandEmpty

(* A row that is walked starts with nothing passed. *)
LEMMA BeginRowKeeps ==
  ASSUME WalkInv, RowsInv, BeginRow, ~ Skipped
  PROVE  RowsInv' /\ HandInv'
<1>1. /\ pc = "row" /\ i <= Len(call.rows) /\ pc \notin Walking /\ pc' = "search" /\ pc' \in Walking
      /\ call' = call /\ i' = i /\ spans' = spans /\ errors' = errors /\ answer' = answer
      /\ first' = [first EXCEPT ![i] = Len(spans)]
      /\ offset' = 0 /\ barred' = None /\ copied' = 0 /\ output' = <<>> /\ slice' = NoSlice
      /\ number' = 0
  BY DEF BeginRow, Walking
<1>2. DOMAIN call.rows = 1 .. Len(call.rows) /\ Len(call.rows) \in Nat /\ i \in Nat \ {0} /\ call \in Calls
  BY RowTypes DEF WalkInv
<1>3. i \in DOMAIN call.rows
  BY <1>1, <1>2
<1>4. /\ DOMAIN answer = DOMAIN call.rows /\ DOMAIN errors = DOMAIN call.rows
      /\ first \in [DOMAIN call.rows -> Nat] /\ spans \in Seq(Span)
      /\ \A k \in DOMAIN call.rows : i <= k => errors[k] = FALSE
      /\ op = "field" => spans = <<>>
  BY <1>1 DEF RowsInv
<1>5. PICK m \in Nat : m = Len(spans)
  BY <1>4
<1>6. PICK r : r = row
  OBVIOUS
<1>7. IsRow(r) /\ row' = r /\ op' = op /\ Skipped' = Skipped
  <2>1. IsRow(call.rows[i])
    BY <1>2, <1>3, RowsAre
  <2> QED BY <1>1, <1>6, <2>1 DEF row, op, Skipped
<1>8. first'[i] = m /\ Len(spans') = m
  BY <1>1, <1>3, <1>4, <1>5
<1>9. RowsInv'
  <2>1. ASSUME NEW l \in DOMAIN call.rows, l < i' PROVE RowDone(l, Len(spans))'
    <3>1. answer'[l] = answer[l] /\ first'[l] = first[l] /\ l < i
      BY <1>1, <1>2, <1>4, <2>1
    <3> QED BY <1>1, <3>1, RowsBehind
  <2>2. first' \in [DOMAIN call.rows -> Nat]
    BY <1>1, <1>4, <1>5
  <2>3. op = "field" => m = 0
    BY <1>4, <1>5
  <2>4. ASSUME NEW l \in DOMAIN call.rows, l < i' PROVE RowDone(l, first[i])'
    <3>1. first'[i'] = Len(spans')
      BY <1>1, <1>8
    <3> QED BY <2>1, <2>4, <3>1
  <2> QED BY <1>1, <1>4, <1>5, <1>7, <1>8, <2>2, <2>3, <2>4 DEF RowsInv
<1>10. Passed(r, Counted(r), 0, 0)
  BY <1>7, CountedPlaces, NonePassed
<1>11. Passed(r, Replaced(r), 0, 0)
  BY <1>7, ReplacedPlaces, NonePassed
<1>12. PICK n \in Nat : n = 0
  OBVIOUS
<1>13. \A k \in 1 .. n : FALSE
  BY <1>12
<1>14. m + n = m
  BY <1>12
<1>15. CountHand(n)'
  BY <1>1, <1>7, <1>8, <1>10, <1>12, <1>13, <1>14 DEF CountHand
<1>16. SplitHand(n)'
  <2>1. copied' = EndOf(r, InOrder(Counted(r)), n)
    BY <1>1, <1>12 DEF EndOf
  <2> QED BY <1>1, <1>7, <1>8, <1>10, <1>12, <1>13, <1>14, <2>1 DEF SplitHand
<1>17. op = "field" => FieldHand(n)'
  <2>1. SUFFICES ASSUME op = "field"
                 PROVE  FieldHand(n)'
    OBVIOUS
  <2>2. Len(spans') = n
    BY <1>1, <1>4, <1>12, <2>1
  <2>3. n \in 0 .. Cardinality(Counted(r))
    BY <1>10, <1>12 DEF Passed
  <2>4. FieldSpans(n)'
    BY <1>7, <1>13, <2>2, <2>3 DEF FieldSpans
  <2> QED BY <1>1, <1>7, <1>10, <1>12, <2>4 DEF FieldHand
<1>18. GsubHand(n)'
  <2>1. Replacement \in Seq(Int) /\ Replacement' = Replacement
    BY <1>1 DEF Replacement, Mark
  <2>2. IsBuilt(r, Replaced(r), Replacement, Built(r, Replaced(r), Replacement))
    BY <1>7, <2>1, ReplacedPlaces, BuiltSo
  <2>3. output' = Built(r, Replaced(r), Replacement)[n]
    BY <1>1, <1>12, <2>2 DEF IsBuilt
  <2>4. copied' = EndOf(r, InOrder(Replaced(r)), n)
    BY <1>1, <1>12 DEF EndOf
  <2>5. Traced'
    <3>1. Bytes(0, 0) = <<>>
      BY BytesAre
    <3> QED BY <1>1, <3>1 DEF Traced, NoSlice
  <2>6. Made(Replaced(row), n)'
    BY <1>7, <2>1, <2>3, <2>4, <2>5 DEF Made
  <2>7. Barring(n)'
    BY <1>1, <1>13 DEF Barring
  <2> QED BY <1>1, <1>7, <1>11, <1>12, <2>6, <2>7 DEF GsubHand
<1>19. SubHand'
  BY <1>1 DEF SubHand
<1>20. HandInv'
  BY <1>1, <1>7, <1>15, <1>16, <1>17, <1>18, <1>19 DEF HandInv
<1> QED BY <1>9, <1>20

-----------------------------------------------------------------------------
(* A search answers with the first match ahead, or says that there is none. *)
LEMMA SearchKeepsHand ==
  ASSUME WalkInv, RowsInv, HandInv, Search
  PROVE  RowsInv' /\ HandInv'
<1>1. /\ pc = "search" /\ pc' = "match" /\ pc \in Walking /\ pc' \in Walking
      /\ call' = call /\ i' = i /\ offset' = offset /\ barred' = barred /\ copied' = copied
      /\ spans' = spans /\ output' = output /\ slice' = slice /\ first' = first
      /\ number' = number /\ errors' = errors /\ answer' = answer
  BY DEF Search, Walking
<1>2. PICK r : r = row
  OBVIOUS
<1>3. IsRow(r) /\ row' = r /\ op' = op /\ Skipped' = Skipped /\ BuiltIn' = BuiltIn /\ Replacement' = Replacement
  BY <1>1, <1>2, HandRow DEF row, op, Skipped, BuiltIn, Replacement
<1>4. offset \in Nat /\ \A p \in Start(r) : p \in Nat
  <2>1. offset \in r.chars
    BY <1>1, <1>2 DEF WalkInv
  <2> QED BY <1>3, <2>1 DEF IsRow
<1>5. RowsInv'
  <2>1. spans \in Seq(Span) /\ first[i] <= Len(spans)
    BY <1>1, HandRow
  <2> QED BY <1>1, <2>1, RowsStay
<1>6. Found'
  <2> DEFINE ahead == {p \in Start(r) : p >= offset}
             next == CHOOSE p \in ahead : \A q \in ahead : p <= q
  <2>1. got' = Failed \/ got' = IF ahead = {} THEN Nothing
                                ELSE [kind |-> "match", start |-> next, end |-> next + r.hit[next]]
    BY <1>2 DEF Search
  <2>2. CASE got' = Failed
    BY <2>2 DEF Found, Failed, Nothing
  <2>3. CASE got' # Failed /\ ahead = {}
    <3>1. got' = Nothing
      BY <2>1, <2>3
    <3>2. \A p \in Start(r) : ~ (offset <= p)
      BY <1>4, <2>3
    <3> QED BY <1>1, <1>3, <3>1, <3>2 DEF Found, Nothing
  <2>4. CASE got' # Failed /\ ahead # {}
    <3>1. ahead \in SUBSET Nat
      BY <1>4
    <3>2. \E p \in ahead : \A q \in ahead : p <= q
      BY <2>4, <3>1, LeastNatural
    <3>3. PICK p : p = next
      OBVIOUS
    <3>4. p \in ahead /\ \A q \in ahead : p <= q
      BY <3>2, <3>3
    <3>5. FirstAhead(r, offset, p)
      BY <1>4, <3>4 DEF FirstAhead
    <3>6. got' = [kind |-> "match", start |-> p, end |-> p + r.hit[p]]
      BY <2>1, <2>4, <3>3
    <3> QED BY <1>1, <1>3, <3>5, <3>6 DEF Found
  <2> QED BY <2>2, <2>3, <2>4
<1>7. \A n \in Nat : CountHand(n) => CountHand(n)'
  BY <1>1, <1>2, <1>3 DEF CountHand
<1>8. \A n \in Nat : SplitHand(n) => SplitHand(n)'
  BY <1>1, <1>2, <1>3 DEF SplitHand
<1>9. \A n \in Nat : FieldHand(n) => FieldHand(n)'
  BY <1>1, <1>2, <1>3 DEF FieldHand, FieldSpans
<1>10. \A n \in Nat : GsubHand(n) => GsubHand(n)'
  <2>1. SUFFICES ASSUME NEW n \in Nat, GsubHand(n)
                 PROVE  GsubHand(n)'
    OBVIOUS
  <2>2. Made(Replaced(r), n)'
    <3>1. Made(Replaced(r), n)
      BY <1>2, <2>1 DEF GsubHand
    <3> QED BY <1>1, <3>1, MadeStays
  <2>3. Barring(n)'
    BY <1>1, <1>2, <1>3, <2>1 DEF GsubHand, Barring
  <2> QED BY <1>1, <1>2, <1>3, <2>1, <2>2, <2>3 DEF GsubHand
<1>11. SubHand => SubHand'
  BY <1>1 DEF SubHand
<1>12. /\ ~ Skipped
       /\ op \in {"count", "extract"} => \E n \in Nat : CountHand(n)
       /\ op = "split" => \E n \in Nat : SplitHand(n)
       /\ op = "field" => \E n \in Nat : FieldHand(n)
       /\ op = "gsub"  => \E n \in Nat : GsubHand(n)
       /\ op = "sub"   => SubHand
  BY <1>1 DEF HandInv
<1> QED BY <1>1, <1>3, <1>5, <1>6, <1>7, <1>8, <1>9, <1>10, <1>11, <1>12 DEF HandInv

(* The chunk ends when no row is left, and the answers stay. *)
AnswerInv ==
  /\ RowsInv /\ HandInv
  /\ pc = "done" => i > Len(call.rows)

(* The end of the chunk. *)
LEMMA EndChunkKeeps ==
  ASSUME WalkInv, RowsInv, HandInv, EndChunk
  PROVE  RowsInv' /\ HandInv'
<1>1. /\ pc = "row" /\ pc \notin Walking /\ pc' = "done" /\ pc' \notin Walking
      /\ call' = call /\ i' = i /\ spans' = spans /\ first' = first
      /\ errors' = errors /\ answer' = answer
  BY DEF EndChunk, Walking
<1>2. \A k \in DOMAIN call.rows : k < i => RowDone(k, Len(spans))'
  BY <1>1, RowsBehind
<1>3. op' = op
  BY <1>1 DEF op
<1>4. RowsInv'
  BY <1>1, <1>2, <1>3 DEF RowsInv
<1> QED BY <1>1, <1>4, HandEmpty

(* Before the first row nothing is answered. *)
LEMMA AnswersStart ==
  ASSUME Init
  PROVE  AnswerInv
<1>1. /\ pc = "row" /\ pc \notin Walking /\ i = 1 /\ spans = <<>> /\ call \in Calls
      /\ first = [k \in DOMAIN call.rows |-> 0]
      /\ errors = [k \in DOMAIN call.rows |-> FALSE]
      /\ answer = [k \in DOMAIN call.rows |-> Original]
  BY DEF Init, Walking
<1>2. \A k \in DOMAIN call.rows : ~ (k < i)
  <2>1. call.rows \in Seq(Range(call.rows))
    BY <1>1, MatchAssumption
  <2> QED BY <1>1, <2>1
<1>3. spans \in Seq(Span)
  BY <1>1
<1>4. RowsInv
  BY <1>1, <1>2, <1>3 DEF RowsInv
<1> QED BY <1>1, <1>4 DEF AnswerInv, HandInv

(* Every step keeps the answers. *)
LEMMA AnswersKept ==
  ASSUME WalkInv, AnswerInv, [Next]_vars
  PROVE  AnswerInv'
<1>1. RowsInv /\ HandInv
  BY DEF AnswerInv
<1>2. CASE BeginRow \/ Search \/ EndChunk
  <2>1. RowsInv' /\ HandInv'
    BY <1>1, <1>2, SkippedKeeps, BeginRowKeeps, SearchKeepsHand, EndChunkKeeps
  <2>2. pc' = "done" => i' > Len(call'.rows)
    BY <1>2 DEF BeginRow, Search, EndChunk
  <2> QED BY <2>1, <2>2 DEF AnswerInv
<1>3. CASE CountMatch \/ CountEnd \/ SplitMatch \/ SplitEnd \/ ForgetRow
  <2>1. RowsInv' /\ HandInv'
    BY <1>1, <1>3, CountMatchKeeps, CountEndKeeps, SplitMatchKeeps, SplitEndKeeps, ForgetRowKeeps
  <2>2. pc' # "done"
    BY <1>3 DEF CountMatch, CountEnd, SplitMatch, SplitEnd, ForgetRow, Fail, Finish
  <2> QED BY <2>1, <2>2 DEF AnswerInv
<1>4. CASE FieldMatch \/ FieldEnd \/ FieldStore \/ FieldFailed
  <2>1. RowsInv' /\ HandInv'
    BY <1>1, <1>4, FieldMatchKeeps, FieldEndKeeps, FieldStoreKeeps, FieldFailedKeeps
  <2>2. pc' # "done"
    BY <1>4 DEF FieldMatch, FieldEnd, FieldStore, FieldFailed, Fail, Finish
  <2> QED BY <2>1, <2>2 DEF AnswerInv
<1>5. CASE SubMatch \/ SubSuppressed \/ SubEnd \/ SubFailed \/ SubFirst
  <2>1. RowsInv' /\ HandInv'
    BY <1>1, <1>5, SubMatchKeeps, SubSuppressedKeeps, SubEndKeeps, SubFailedKeeps, SubFirstKeeps
  <2>2. pc' # "done"
    BY <1>5 DEF SubMatch, SubSuppressed, SubEnd, SubFailed, SubFirst, Fail, Finish
  <2> QED BY <2>1, <2>2 DEF AnswerInv
<1>6. CASE SubStore \/ SubBuiltIn \/ SubRetry
  <2>1. RowsInv' /\ HandInv'
    BY <1>1, <1>6, SubStoreKeeps, SubBuiltInKeeps, SubRetryKeeps
  <2>2. pc' # "done"
    BY <1>6 DEF SubStore, SubBuiltIn, SubRetry, Fail, Finish
  <2> QED BY <2>1, <2>2 DEF AnswerInv
<1>7. CASE UNCHANGED vars
  <2>1. /\ call' = call /\ pc' = pc /\ i' = i /\ row_vars' = row_vars /\ spans' = spans /\ first' = first
        /\ number' = number /\ errors' = errors /\ answer' = answer
    BY <1>7 DEF vars
  <2>2. /\ offset' = offset /\ got' = got /\ barred' = barred /\ copied' = copied
        /\ output' = output /\ slice' = slice
    BY <2>1 DEF row_vars
  <2>3. /\ row' = row /\ op' = op /\ Skipped' = Skipped /\ BuiltIn' = BuiltIn
        /\ Replacement' = Replacement /\ Wanted' = Wanted
    BY <2>1 DEF row, op, Skipped, BuiltIn, Replacement, Wanted
  <2>4. \A k, kept : RowDone(k, kept) => RowDone(k, kept)'
    <3>1. SUFFICES ASSUME NEW k, NEW kept, RowDone(k, kept) PROVE RowDone(k, kept)'
      OBVIOUS
    <3>2. SpansOf(k)' = SpansOf(k) /\ Spanned(k)' = Spanned(k)
      BY <2>1, <2>3 DEF SpansOf, Spanned
    <3>3. op \in {"count", "extract", "split", "field", "sub", "gsub"}
      BY RowTypes
    <3>4. RowExact(k)'
      BY <2>1, <3>1, <3>2, <3>3, AnswerKept DEF RowDone
    <3> QED BY <2>1, <3>1, <3>2, <3>4 DEF RowDone
  <2>5. RowsInv'
    BY <1>1, <2>1, <2>3, <2>4 DEF RowsInv
  <2>6. Found' = Found /\ SubHand' = SubHand
    BY <2>2, <2>3 DEF Found, SubHand
  <2>7. \A S, n : Made(S, n)' = Made(S, n)
    BY <2>1, <2>2, <2>3 DEF Made, Traced
  <2>8. SubReady' = SubReady
    BY <2>3, <2>7 DEF SubReady
  <2>9. \A n : CountHand(n)' = CountHand(n)
    BY <2>1, <2>2, <2>3 DEF CountHand
  <2>10. \A n : SplitHand(n)' = SplitHand(n)
    BY <2>1, <2>2, <2>3 DEF SplitHand
  <2>11. \A n : FieldHand(n)' = FieldHand(n) /\ FieldReady(n)' = FieldReady(n)
    BY <2>1, <2>2, <2>3 DEF FieldHand, FieldReady, FieldSpans
  <2>12. \A n : GsubHand(n)' = GsubHand(n)
    <3>1. \A n : Barring(n)' = Barring(n)
      BY <2>1, <2>2, <2>3 DEF Barring
    <3> QED BY <2>1, <2>2, <2>3, <2>7, <3>1 DEF GsubHand
  <2>13. HandInv'
    BY <1>1, <2>1, <2>3, <2>6, <2>8, <2>9, <2>10, <2>11, <2>12 DEF HandInv
  <2> QED BY <2>1, <2>5, <2>13 DEF AnswerInv
<1> QED BY <1>2, <1>3, <1>4, <1>5, <1>6, <1>7 DEF Next

(* In every reachable state each row behind the one in hand has its whole   *)
(* answer, and of the row in hand the places passed are those its reference *)
(* takes, with what they give.                                              *)
THEOREM RowsAnswered == Spec => []AnswerInv
<1>1. Init => AnswerInv
  BY AnswersStart
<1>2. WalkInv /\ AnswerInv /\ [Next]_vars => AnswerInv'
  BY AnswersKept
<1> QED BY <1>1, <1>2, Invariance, PTL DEF Spec

(* Of any rows, with matches anywhere, empty or not, and with searches that *)
(* fail: when the chunk is done fcount(), fextract_all(), fstrsplit(),      *)
(* fsplit_field(), fsub() and fgsub() have given each row its answer.       *)
THEOREM AnswersFound == Spec => []AnswersExact
<1>1. WalkInv /\ AnswerInv => AnswersExact
  <2>1. SUFFICES ASSUME WalkInv, AnswerInv, pc = "done", NEW k \in DOMAIN answer
                 PROVE  RowExact(k)
    BY DEF AnswersExact
  <2>2. k \in DOMAIN call.rows
    BY <2>1 DEF AnswerInv, RowsInv
  <2>3. k < i
    <3>1. DOMAIN call.rows = 1 .. Len(call.rows) /\ Len(call.rows) \in Nat /\ i \in Nat
      BY <2>1, RowTypes
    <3> QED BY <2>1, <2>2, <3>1 DEF AnswerInv
  <2> QED BY <2>1, <2>2, <2>3 DEF AnswerInv, RowsInv, RowDone
<1> QED BY <1>1, Invariance, RowsAnswered, PTL
=============================================================================
