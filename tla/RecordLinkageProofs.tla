--------------------------- MODULE RecordLinkageProofs ---------------------------
(***************************************************************************)
(* For every session of rLink() and whatever its expressions give: each    *)
(* score column is made of the comparator's own two terms, nothing is      *)
(* evaluated or spread twice, and no copy outlives the comparator that     *)
(* reads it last. For every model behind it: each pair is weighed by its   *)
(* own levels and the links are those of the greedy order.                 *)
(***************************************************************************)
EXTENDS RecordLinkage, NaturalLemmas

(* The steps of the two stages. A deduplication has no keys of side 2.     *)
Turned(c)   == IF c.dedupe THEN {1} ELSE Sides
KeySteps(c) == (Nat \X Turned(c) \X Nat) \cup [1 .. 1 -> Nat]
Step(i, k)  == IF k = 3 THEN <<i>> ELSE <<i, k>>

(* Of the comparators done e steps of the next one are taken, too.         *)
Left(c, d, e, w) ==
  /\ Len(w) = 3 * (Len(c.cmp) - d) - e
  /\ \A i \in d + 1 .. Len(c.cmp), k \in 1 .. 3 :
       3 * (i - d - 1) + k > e => w[3 * (i - d - 1) + k - e] = Step(i, k)

Done  == Len(columns)
Reads(i, id) == id \in {PairId(i, 1), PairId(i, 2)}
Place(k, e)  == <<"compare", Data(k), e>>
Cached(s, e) == <<IF call.dedupe THEN 0 ELSE s, e>>

SessionType ==
  /\ SessionAdmitted(call)
  /\ session \in {"keys", "compare", "done", "stopped"}
  /\ DOMAIN termCache = Sides
  /\ problems \in Seq(Range(problems))
  /\ columns \in Seq(Range(columns))
  /\ spread \in Seq(Range(spread))
  /\ \A at \in DOMAIN drawn : drawn[at] \in Seq(Range(drawn[at])) /\ Len(drawn[at]) > 0
  /\ Done <= Len(call.cmp)

(* Of the comparator at hand e steps are taken: its terms have been        *)
(* evaluated, if none has failed.                                          *)
Ahead(e) ==
  /\ Left(call, Done, e, work)
  /\ e > 0 => Done < Len(call.cmp)
  /\ e = 0 => problems = <<>>
  /\ problems = <<>> => \A k \in 1 .. e : RecId(Done + 1, k) \in DOMAIN recCache

WorkInv ==
  /\ session = "keys" => /\ work \in Seq(KeySteps(call))
                       /\ columns = <<>> /\ pairCache = <<>> /\ recCache = <<>> /\ spread = <<>>
                       /\ \A at \in DOMAIN drawn : at[1] = "keys"
  /\ session = "compare" =>
       /\ work \in Seq(Range(work))
       /\ \E e \in 0 .. 2 : Ahead(e)
  /\ session = "done" => problems = <<>>

(* An expression is evaluated again only by a comparator, where it failed. *)
DrawnOnce ==
  \A at \in DOMAIN drawn : at[1] = "keys" \/ Bad \notin Range(drawn[at]) => Len(drawn[at]) = 1

(* Every expression that was evaluated without failing is in its cache,    *)
(* where the failures of the passes are, too.                              *)
DrawnKept ==
  \A at \in DOMAIN drawn :
    /\ at[1] = "keys" => at[2] \in Sides /\ at[3] \in DOMAIN termCache[at[2]]
    /\ at[1] = "compare" /\ Bad \notin Range(drawn[at]) => Cached(at[2], at[3]) \in DOMAIN recCache

Told   == {<<Data(m[1]), m[2]>> : m \in Range(problems)}
Failed == {<<at[2], at[3]>> : at \in {a \in DOMAIN drawn : Bad \in Range(drawn[a])}}

DrawnInv == DrawnOnce /\ DrawnKept /\ Told = Failed

(* What the caches hold is what the first evaluation gave.                 *)
RecordsKept ==
  problems = <<>> => \A id \in DOMAIN recCache, k \in Sides :
    id = Cached(k, id[2]) =>
      Place(k, id[2]) \in DOMAIN drawn /\ recCache[id] = drawn[Place(k, id[2])][1]

PairsKept ==
  \A id \in DOMAIN pairCache :
    /\ id[1] \in Sides
    /\ Place(id[1], id[2]) \in DOMAIN drawn
    /\ pairCache[id] = At(drawn[Place(id[1], id[2])][1], IF id[1] = 1 THEN xi ELSE yi)

CacheInv ==
  /\ RecordsKept
  /\ PairsKept
  /\ \A i \in DOMAIN columns : \A k \in Sides : Place(k, call.cmp[i][k]) \in DOMAIN drawn
  /\ ScoresOwnTerms

(* A copy is there exactly from the first comparator that reads it to the  *)
(* last.                                                                   *)
SpreadInv ==
  /\ IsInjective(spread)
  /\ \A id \in Range(spread) : \E i \in 1 .. Done : Reads(i, id)
  /\ DOMAIN pairCache =
       {id \in Range(spread) : \E i \in DOMAIN call.cmp : i > Done /\ Reads(i, id)}

SessionInv == SessionType /\ WorkInv /\ DrawnInv /\ CacheInv /\ SpreadInv
-----------------------------------------------------------------------------
(* Sequences. *)
LEMMA OfItsRange ==
  ASSUME NEW S, NEW s \in Seq(S)
  PROVE  s \in Seq(Range(s))
<1>1. \A j \in 1 .. Len(s) : s[j] \in Range(s)
  BY DEF Range
<1> QED BY <1>1

Longer(s, x, t) ==
  /\ t \in Seq(Range(t)) /\ Len(t) = Len(s) + 1 /\ Len(s) \in Nat
  /\ DOMAIN s = 1 .. Len(s) /\ DOMAIN t = 1 .. Len(s) + 1
  /\ t[Len(s) + 1] = x /\ \A j \in 1 .. Len(s) : t[j] = s[j]
  /\ Range(t) = Range(s) \cup {x}

(* Appending a value makes a sequence longer by it. *)
LEMMA Appended ==
  ASSUME NEW s, s \in Seq(Range(s)), NEW x, NEW t, t = Append(s, x)
  PROVE  Longer(s, x, t)
<1> DEFINE S == Range(s) \cup {x}
<1>1. s \in Seq(S) /\ x \in S
  <2>1. \A j \in 1 .. Len(s) : s[j] \in S
    OBVIOUS
  <2> QED BY <2>1
<1>2. /\ t \in Seq(S) /\ Len(t) = Len(s) + 1 /\ Len(s) \in Nat
      /\ DOMAIN s = 1 .. Len(s) /\ DOMAIN t = 1 .. Len(s) + 1
      /\ t[Len(s) + 1] = x /\ \A j \in 1 .. Len(s) : t[j] = s[j]
  BY <1>1
<1>3. Range(t) = S
  <2>1. Range(t) \subseteq S
    BY <1>2 DEF Range
  <2>2. ASSUME NEW y \in Range(s) PROVE y \in Range(t)
    <3>1. PICK j \in 1 .. Len(s) : y = s[j]
      BY <1>2 DEF Range
    <3>2. t[j] = y /\ j \in DOMAIN t
      BY <1>2, <3>1
    <3> QED BY <3>2 DEF Range
  <2>3. x \in Range(t)
    <3>1. Len(s) + 1 \in DOMAIN t
      BY <1>2
    <3> QED BY <1>2, <3>1 DEF Range
  <2> QED BY <2>1, <2>2, <2>3
<1> QED BY <1>2, <1>3 DEF Longer

(* Flattening sequences over a set gives one over the set. *)
LEMMA Flattened ==
  ASSUME NEW S, NEW s \in Seq(Seq(S))
  PROVE  FlattenSeq(s) \in Seq(S)
<1>1. CASE Len(s) = 0
  <2>1. FlattenSeq(s) = <<>>
    BY <1>1 DEF FlattenSeq
  <2> QED BY <2>1
<1>2. CASE Len(s) > 0
  <2>1. PICK f \in [0 .. Len(s) -> Seq(S)] : FlattenSeq(s) = f[Len(s)]
    BY <1>2, FlattenedBySteps
  <2>2. Len(s) \in 0 .. Len(s)
    OBVIOUS
  <2> QED BY <2>1, <2>2
<1> QED BY <1>1, <1>2

(* Flattening triples puts each triple's members at its own three places. *)
LEMMA FlattenedTriples ==
  ASSUME NEW S, NEW s \in Seq(Seq(S)), \A i \in 1 .. Len(s) : Len(s[i]) = 3
  PROVE  /\ Len(FlattenSeq(s)) = 3 * Len(s)
         /\ \A i \in 1 .. Len(s), k \in 1 .. 3 : FlattenSeq(s)[3 * (i - 1) + k] = s[i][k]
<1>1. CASE Len(s) = 0
  <2>1. FlattenSeq(s) = s
    BY <1>1 DEF FlattenSeq
  <2> QED BY <1>1, <2>1
<1>2. CASE Len(s) > 0
  <2>1. PICK f \in [0 .. Len(s) -> Seq(S)] :
          /\ f[0] = <<>> /\ \A i \in 1 .. Len(s) : f[i] = f[i - 1] \o s[i]
          /\ FlattenSeq(s) = f[Len(s)]
    BY <1>2, FlattenedBySteps
  <2> DEFINE Good(m) == /\ Len(f[m]) = 3 * m
                        /\ \A i \in 1 .. m, k \in 1 .. 3 : f[m][3 * (i - 1) + k] = s[i][k]
             T == {m \in Nat : m <= Len(s) => Good(m)}
  <2>2. Good(0)
    BY <2>1
  <2>3. ASSUME NEW m \in 1 .. Len(s), Good(m - 1) PROVE Good(m)
    <3>1. PICK u \in Seq(S), v \in Seq(S) : u = f[m - 1] /\ v = s[m] /\ f[m] = u \o v
      <4>1. m - 1 \in 0 .. Len(s) /\ s[m] \in Seq(S)
        OBVIOUS
      <4>2. f[m - 1] \in Seq(S)
        BY <4>1
      <4> QED BY <2>1, <4>1, <4>2
    <3>2. Len(u) = 3 * (m - 1) /\ Len(v) = 3
      BY <2>3, <3>1
    <3>3. /\ Len(u \o v) = Len(u) + Len(v)
          /\ \A q \in 1 .. Len(u) + Len(v) :
               (u \o v)[q] = IF q <= Len(u) THEN u[q] ELSE v[q - Len(u)]
      OBVIOUS
    <3>4. Len(f[m]) = 3 * m
      BY <3>1, <3>2, <3>3
    <3>5. ASSUME NEW i \in 1 .. m, NEW k \in 1 .. 3
          PROVE  f[m][3 * (i - 1) + k] = s[i][k]
      <4>1. PICK q \in 1 .. 3 * m : q = 3 * (i - 1) + k
        OBVIOUS
      <4>2. f[m][q] = IF q <= 3 * (m - 1) THEN u[q] ELSE v[q - 3 * (m - 1)]
        <5>1. q \in 1 .. Len(u) + Len(v)
          BY <3>2
        <5>2. (u \o v)[q] = IF q <= Len(u) THEN u[q] ELSE v[q - Len(u)]
          BY <3>3, <5>1
        <5> QED BY <3>1, <3>2, <5>2
      <4>3. CASE i = m
        <5>1. ~ (q <= 3 * (m - 1)) /\ q - 3 * (m - 1) = k
          BY <4>1, <4>3
        <5> QED BY <3>1, <4>1, <4>2, <4>3, <5>1
      <4>4. CASE i # m
        <5>1. i \in 1 .. m - 1 /\ q <= 3 * (m - 1)
          BY <4>1, <4>4
        <5>2. u[q] = s[i][k]
          BY <2>3, <3>1, <4>1, <5>1
        <5> QED BY <4>1, <4>2, <5>1, <5>2
      <4> QED BY <4>3, <4>4
    <3> QED BY <3>4, <3>5
  <2> HIDE DEF Good
  <2>4. 0 \in T
    BY <2>2
  <2>5. ASSUME NEW m \in Nat, m \in T PROVE m + 1 \in T
    <3> SUFFICES ASSUME m + 1 <= Len(s) PROVE Good(m + 1)
      OBVIOUS
    <3>1. PICK q \in 1 .. Len(s) : q = m + 1
      OBVIOUS
    <3>2. q - 1 = m /\ Good(m)
      BY <2>5, <3>1
    <3> QED BY <2>3, <3>1, <3>2
  <2> HIDE DEF T
  <2>6. \A m \in Nat : m \in T
    BY <2>4, <2>5, SetInduction
  <2>7. Good(Len(s))
    BY <2>6 DEF T
  <2> QED BY <2>1, <2>7 DEF Good
<1> QED BY <1>1, <1>2
-----------------------------------------------------------------------------
(* The work of the two stages. *)
LEMMA ComparisonsLeft ==
  ASSUME NEW c, SessionAdmitted(c), NEW w, w = CompareWork(c)
  PROVE  w \in Seq(Range(w)) /\ Left(c, 0, 0, w) /\ Len(c.cmp) \in Nat
<1>1. DOMAIN c.cmp = 1 .. Len(c.cmp) /\ Len(c.cmp) \in Nat
  BY DEF SessionAdmitted
<1> DEFINE S == {Step(i, k) : i \in 1 .. Len(c.cmp), k \in 1 .. 3}
           Three(i) == <<<<i, 1>>, <<i, 2>>, <<i>>>>
           s == [i \in 1 .. Len(c.cmp) |-> Three(i)]
<1>2. ASSUME NEW i \in 1 .. Len(c.cmp)
      PROVE  /\ Three(i) \in Seq(S) /\ s[i] = Three(i) /\ Len(s[i]) = 3
             /\ s[i][1] = Step(i, 1) /\ s[i][2] = Step(i, 2) /\ s[i][3] = Step(i, 3)
  <2>1. Three(i) = <<Step(i, 1), Step(i, 2), Step(i, 3)>> /\ s[i] = Three(i)
    BY DEF Step
  <2>2. Step(i, 1) \in S /\ Step(i, 2) \in S /\ Step(i, 3) \in S
    OBVIOUS
  <2> HIDE DEF S, s, Three
  <2> QED BY <2>1, <2>2
<1>3. s \in Seq(Seq(S)) /\ Len(s) = Len(c.cmp)
  <2> HIDE DEF S, Three
  <2>1. \A i \in 1 .. Len(c.cmp) : Three(i) \in Seq(S)
    BY <1>2
  <2> QED BY <1>1, <2>1
<1>4. w = FlattenSeq(s)
  BY <1>1 DEF CompareWork
<1> HIDE DEF S, s, Three
<1>5. w \in Seq(S)
  BY <1>3, <1>4, Flattened
<1>6. w \in Seq(Range(w))
  <2>1. \A q \in 1 .. Len(w) : w[q] \in Range(w)
    BY <1>5 DEF Range
  <2> QED BY <1>5, <2>1
<1>7. /\ Len(w) = 3 * Len(c.cmp)
      /\ \A i \in 1 .. Len(c.cmp), k \in 1 .. 3 : w[3 * (i - 1) + k] = s[i][k]
  <2>1. \A i \in 1 .. Len(s) : Len(s[i]) = 3
    BY <1>2, <1>3
  <2>2. s \in Seq(Seq(S))
    BY <1>3
  <2>3. /\ Len(FlattenSeq(s)) = 3 * Len(s)
        /\ \A i \in 1 .. Len(s), k \in 1 .. 3 : FlattenSeq(s)[3 * (i - 1) + k] = s[i][k]
    BY <2>1, <2>2, FlattenedTriples
  <2>4. Len(s) = Len(c.cmp)
    BY <1>3
  <2> QED BY <1>4, <2>3, <2>4
<1>8. \A i \in 1 .. Len(c.cmp), k \in 1 .. 3 : s[i][k] = Step(i, k)
  BY <1>2
<1>9. Left(c, 0, 0, w)
  <2>1. ASSUME NEW i \in 0 + 1 .. Len(c.cmp), NEW k \in 1 .. 3
        PROVE  w[3 * (i - 0 - 1) + k - 0] = Step(i, k)
    <3>1. 3 * (i - 0 - 1) + k - 0 = 3 * (i - 1) + k /\ i \in 1 .. Len(c.cmp)
      BY <1>1
    <3> QED BY <1>7, <1>8, <3>1
  <2> QED BY <1>1, <1>7, <2>1 DEF Left
<1> QED BY <1>1, <1>6, <1>9

(* The steps that make a call's keys are steps on its passes. *)
LEMMA KeysToMake ==
  ASSUME NEW c, SessionAdmitted(c)
  PROVE  KeyWork(c) \in Seq(KeySteps(c))
<1>1. DOMAIN c.passes = 1 .. Len(c.passes) /\ Len(c.passes) \in Nat
  BY DEF SessionAdmitted
<1> DEFINE Terms(p, side) == [t \in DOMAIN c.passes[p][side] |-> <<p, side, t>>]
           Pass(p) == Terms(p, 1) \o (IF c.dedupe THEN <<>> ELSE Terms(p, 2)) \o <<<<p>>>>
<1>2. ASSUME NEW p \in 1 .. Len(c.passes), NEW side \in Turned(c)
      PROVE  Terms(p, side) \in Seq(KeySteps(c))
  <2>1. side \in Sides
    BY DEF Turned, Sides
  <2>2. PICK n \in Nat : DOMAIN c.passes[p][side] = 1 .. n
    <3>1. c.passes[p][side] \in Seq(Range(c.passes[p][side]))
      BY <1>1, <2>1 DEF SessionAdmitted
    <3> QED BY <3>1
  <2>3. \A t \in 1 .. n : <<p, side, t>> \in KeySteps(c)
    BY DEF KeySteps
  <2> HIDE DEF KeySteps
  <2> QED BY <2>2, <2>3
<1>3. ASSUME NEW p \in 1 .. Len(c.passes)
      PROVE  Pass(p) \in Seq(KeySteps(c))
  <2>1. Terms(p, 1) \in Seq(KeySteps(c))
    BY <1>2 DEF Turned, Sides
  <2>2. (IF c.dedupe THEN <<>> ELSE Terms(p, 2)) \in Seq(KeySteps(c))
    BY <1>2 DEF Turned, Sides
  <2>3. <<<<p>>>> \in Seq(KeySteps(c))
    <3>1. <<p>> \in [1 .. 1 -> Nat]
      OBVIOUS
    <3>2. <<p>> \in KeySteps(c)
      BY <3>1 DEF KeySteps
    <3> QED BY <3>2
  <2> HIDE DEF Terms
  <2> QED BY <2>1, <2>2, <2>3
<1> HIDE DEF Pass
<1>4. [p \in 1 .. Len(c.passes) |-> Pass(p)] \in Seq(Seq(KeySteps(c)))
  BY <1>1, <1>3
<1>5. KeyWork(c) = FlattenSeq([p \in 1 .. Len(c.passes) |-> Pass(p)])
  BY <1>1 DEF KeyWork, Pass
<1> QED BY <1>4, <1>5, Flattened

(* The next step of a comparator, and what is left behind it. *)
LEMMA NextStep ==
  ASSUME SessionType, WorkInv, session = "compare", work # <<>>
  PROVE  \E e \in 0 .. 2 :
           /\ Done < Len(call.cmp) /\ Head(work) = Step(Done + 1, e + 1)
           /\ problems = <<>> => \A k \in 1 .. e : RecId(Done + 1, k) \in DOMAIN recCache
           /\ Tail(work) \in Seq(Range(Tail(work)))
           /\ Left(call, IF e = 2 THEN Done + 1 ELSE Done, IF e = 2 THEN 0 ELSE e + 1, Tail(work))
<1>1. PICK n \in Nat, d \in Nat : n = Len(call.cmp) /\ d = Done /\ d <= n
  BY DEF SessionType, SessionAdmitted, Done
<1>2. PICK e \in 0 .. 2 :
        /\ Left(call, d, e, work)
        /\ problems = <<>> => \A k \in 1 .. e : RecId(Done + 1, k) \in DOMAIN recCache
  BY <1>1 DEF WorkInv, Ahead
<1>3. PICK w \in Seq(Range(work)) : w = work /\ w # <<>>
  BY DEF WorkInv
<1>4. /\ Len(w) = 3 * (n - d) - e
      /\ \A i \in d + 1 .. n, k \in 1 .. 3 :
           3 * (i - d - 1) + k > e => w[3 * (i - d - 1) + k - e] = Step(i, k)
  BY <1>1, <1>2, <1>3 DEF Left
<1>5. /\ Len(w) \in Nat \ {0} /\ Head(w) = w[1]
      /\ Tail(w) \in Seq(Range(work)) /\ Len(Tail(w)) = Len(w) - 1
      /\ \A j \in 1 .. Len(w) - 1 : Tail(w)[j] = w[j + 1]
  BY <1>3
<1>6. d < n
  BY <1>4, <1>5
<1>7. Head(w) = Step(d + 1, e + 1)
  <2>1. d + 1 \in d + 1 .. n /\ e + 1 \in 1 .. 3 /\ 3 * ((d + 1) - d - 1) + (e + 1) = e + 1
    BY <1>6
  <2>2. w[3 * ((d + 1) - d - 1) + (e + 1) - e] = Step(d + 1, e + 1)
    BY <1>4, <2>1
  <2>3. 3 * ((d + 1) - d - 1) + (e + 1) - e = 1
    OBVIOUS
  <2> QED BY <1>5, <2>2, <2>3
<1>8. Tail(w) \in Seq(Range(Tail(w)))
  <2>1. PICK t \in Seq(Range(work)) : t = Tail(w)
    BY <1>5
  <2> QED BY <2>1, OfItsRange
<1>9. ASSUME NEW i \in d + 1 .. n, NEW k \in 1 .. 3, 3 * (i - d - 1) + k > e + 1
      PROVE  Tail(w)[3 * (i - d - 1) + k - (e + 1)] = Step(i, k)
  <2>1. PICK j \in 1 .. Len(w) - 1 : j = 3 * (i - d - 1) + k - (e + 1)
    BY <1>4, <1>9
  <2>2. j + 1 = 3 * (i - d - 1) + k - e
    BY <2>1
  <2>3. Tail(w)[j] = w[j + 1]
    BY <1>5
  <2>4. w[3 * (i - d - 1) + k - e] = Step(i, k)
    BY <1>4, <1>9
  <2> QED BY <2>1, <2>2, <2>3, <2>4
<1>10. CASE e = 2
  <2>1. Len(Tail(w)) = 3 * (n - (d + 1)) - 0
    BY <1>4, <1>5, <1>10
  <2>2. ASSUME NEW i \in (d + 1) + 1 .. n, NEW k \in 1 .. 3
        PROVE  Tail(w)[3 * (i - (d + 1) - 1) + k - 0] = Step(i, k)
    <3>1. i \in d + 1 .. n /\ 3 * (i - d - 1) + k > e + 1
      BY <1>10
    <3>2. 3 * (i - (d + 1) - 1) + k - 0 = 3 * (i - d - 1) + k - (e + 1)
      BY <1>10
    <3> QED BY <1>9, <3>1, <3>2
  <2>3. Left(call, d + 1, 0, Tail(w))
    BY <1>1, <2>1, <2>2 DEF Left
  <2> QED BY <1>1, <1>2, <1>3, <1>6, <1>7, <1>8, <1>10, <2>3
<1>11. CASE e # 2
  <2>1. Len(Tail(w)) = 3 * (n - d) - (e + 1)
    BY <1>4, <1>5
  <2>2. Left(call, d, e + 1, Tail(w))
    BY <1>1, <1>9, <2>1 DEF Left
  <2> QED BY <1>1, <1>2, <1>3, <1>6, <1>7, <1>8, <1>11, <2>2
<1> QED BY <1>10, <1>11

(* A term that is read has a last comparator that reads it. *)
LEMMA LastRead ==
  ASSUME SessionAdmitted(call), NEW id, NEW i \in DOMAIN call.cmp, Reads(i, id)
  PROVE  /\ LastUse(id) \in DOMAIN call.cmp /\ Reads(LastUse(id), id)
         /\ \A j \in DOMAIN call.cmp : Reads(j, id) => j <= LastUse(id)
<1>1. PICK n \in Nat : DOMAIN call.cmp = 1 .. n
  BY DEF SessionAdmitted
<1> DEFINE T == {j \in DOMAIN call.cmp : Reads(j, id)}
<1>2. T \in SUBSET (0 .. n) /\ T # {}
  BY <1>1
<1>3. PICK x \in T : \A y \in T : y <= x
  BY <1>2, GreatestNatural
<1>4. \E y \in T : \A z \in T : y >= z
  BY <1>1, <1>3
<1>5. LastUse(id) = Max(T)
  BY DEF LastUse, Reads
<1>6. Max(T) \in T /\ \A z \in T : Max(T) >= z
  BY <1>4 DEF Max
<1> QED BY <1>1, <1>5, <1>6

(* What adding a key to a cache gives. *)
LEMMA WithGives ==
  ASSUME NEW f, NEW x, NEW v
  PROVE  /\ DOMAIN With(f, x, v) = DOMAIN f \cup {x} /\ With(f, x, v)[x] = v
         /\ \A y \in DOMAIN f : y # x => With(f, x, v)[y] = f[y]
BY DEF With

(* What evaluating an expression adds to what has been drawn. *)
Drawing(f, at, v) == With(f, at, Append(IF at \in DOMAIN f THEN f[at] ELSE <<>>, v))

(* What f and g tell of an evaluation at `at` that gave v. *)
Drew(f, g, at, v) ==
  /\ DOMAIN g = DOMAIN f \cup {at}
  /\ \A a \in DOMAIN f : a # at => g[a] = f[a]
  /\ \A a \in DOMAIN g : g[a] \in Seq(Range(g[a])) /\ Len(g[a]) > 0
  /\ \A a \in DOMAIN f : g[a][1] = f[a][1]
  /\ at \notin DOMAIN f => g[at][1] = v /\ Len(g[at]) = 1 /\ Range(g[at]) = {v}
  /\ at \in DOMAIN f => Range(g[at]) = Range(f[at]) \cup {v}

(* What recording an evaluation gives. *)
LEMMA DrawGives ==
  ASSUME NEW f, NEW at, NEW v,
         \A a \in DOMAIN f : f[a] \in Seq(Range(f[a])) /\ Len(f[a]) > 0
  PROVE  \E g : g = Drawing(f, at, v) /\ Drew(f, g, at, v)
<1>1. \E old : /\ old = IF at \in DOMAIN f THEN f[at] ELSE <<>>
               /\ at \in DOMAIN f => old = f[at]
               /\ at \notin DOMAIN f => old = <<>>
  OBVIOUS
<1>2. PICK old : /\ old = IF at \in DOMAIN f THEN f[at] ELSE <<>>
                 /\ at \in DOMAIN f => old = f[at]
                 /\ at \notin DOMAIN f => old = <<>>
  BY <1>1
<1>3. Drawing(f, at, v) = With(f, at, Append(old, v))
  BY <1>2 DEF Drawing
<1>6. old \in Seq(Range(old))
  <2>1. CASE at \in DOMAIN f
    BY <1>2, <2>1
  <2>2. CASE at \notin DOMAIN f
    BY <1>2, <2>2
  <2> QED BY <2>1, <2>2
<1>7. PICK new : new = Append(old, v) /\ new \in Seq(Range(new)) /\ Len(new) = Len(old) + 1
      /\ new[Len(old) + 1] = v /\ (\A j \in 1 .. Len(old) : new[j] = old[j])
      /\ Range(new) = Range(old) \cup {v}
  BY <1>6, Appended DEF Longer
<1>3a. /\ DOMAIN With(f, at, new) = DOMAIN f \cup {at} /\ With(f, at, new)[at] = new
       /\ \A a \in DOMAIN f : a # at => With(f, at, new)[a] = f[a]
  BY DEF With
<1>4. PICK g : g = With(f, at, new)
  OBVIOUS
<1>4a. /\ DOMAIN g = DOMAIN f \cup {at} /\ g[at] = new
       /\ \A a \in DOMAIN f : a # at => g[a] = f[a]
  BY <1>3a, <1>4
<1>5. g = Drawing(f, at, v)
  BY <1>3, <1>4, <1>7
<1>5a. \A a \in DOMAIN f : f[a] \in Seq(Range(f[a])) /\ Len(f[a]) > 0
  OBVIOUS
<1>7a. Len(old) \in Nat
  BY <1>6
<1>7b. \A a \in DOMAIN g : g[a] \in Seq(Range(g[a])) /\ Len(g[a]) > 0
  <2>1. \A a \in DOMAIN g : a # at => a \in DOMAIN f /\ g[a] = f[a]
    BY <1>4a
  <2>2. Len(new) > 0 /\ new \in Seq(Range(new))
    BY <1>7, <1>7a
  <2>3. Len(g[at]) > 0 /\ g[at] \in Seq(Range(g[at]))
    BY <1>4a, <2>2
  <2>4. ASSUME NEW a \in DOMAIN g PROVE g[a] \in Seq(Range(g[a])) /\ Len(g[a]) > 0
    <3>1. CASE a = at
      BY <2>3, <3>1
    <3>2. CASE a # at
      BY <1>5a, <2>1, <3>2
    <3> QED BY <3>1, <3>2
  <2> QED BY <2>4
<1>8. CASE at \in DOMAIN f
  <2>1. old = f[at] /\ Len(old) > 0
    BY <1>2, <1>5a, <1>8
  <2>2. new[1] = f[at][1]
    BY <1>7, <1>7a, <2>1
  <2>3. \A a \in DOMAIN f : g[a][1] = f[a][1]
    BY <1>4a, <2>2
  <2> QED BY <1>4a, <1>5, <1>7, <1>7b, <1>8, <2>1, <2>3 DEF Drew
<1>9. CASE at \notin DOMAIN f
  <2>1. old = <<>> /\ Range(old) = {}
    BY <1>2, <1>9 DEF Range
  <2>2. Len(new) = 1 /\ new[1] = v /\ Range(new) = {v}
    BY <1>7, <2>1
  <2>3. \A a \in DOMAIN f : g[a] = f[a]
    BY <1>4a, <1>9
  <2> QED BY <1>4a, <1>5, <1>7b, <1>9, <2>2, <2>3 DEF Drew
<1> QED BY <1>8, <1>9
-----------------------------------------------------------------------------
(* What a step leaves alone. *)
LEMMA SpreadRests ==
  ASSUME SpreadInv, UNCHANGED <<call, columns, spread, pairCache>>
  PROVE  SpreadInv'
BY DEF SpreadInv, Done, Reads, PairId, IsInjective

(* The types stand in a step that changes nothing they speak of but the phase. *)
LEMMA TypeRests ==
  ASSUME SessionType, UNCHANGED <<call, termCache, problems, columns, spread, drawn>>,
         session' \in {"keys", "compare", "done", "stopped"}
  PROVE  SessionType'
BY DEF SessionType, Done

(* What is known of evaluations stands when they are left alone. *)
LEMMA DrawnRests ==
  ASSUME DrawnInv, UNCHANGED <<call, termCache, problems, recCache, drawn>>
  PROVE  DrawnInv'
BY DEF DrawnInv, DrawnOnce, DrawnKept, Told, Failed, Data, Cached

(* What is known of the caches stands when they are left alone. *)
LEMMA CacheRests ==
  ASSUME CacheInv, UNCHANGED <<call, problems, recCache, pairCache, xi, yi, columns, drawn>>
  PROVE  CacheInv'
BY DEF CacheInv, RecordsKept, PairsKept, ScoresOwnTerms, Cached, Place, Data

(* Steps of the model leave the session as it is. *)
LEMMA Rests ==
  ASSUME SessionInv, UNCHANGED sessionVars
  PROVE  SessionInv'
<1>1. /\ call' = call /\ session' = session /\ work' = work /\ termCache' = termCache
      /\ keys' = keys /\ problems' = problems /\ recCache' = recCache
      /\ pairCache' = pairCache /\ xi' = xi /\ yi' = yi /\ columns' = columns
      /\ drawn' = drawn /\ spread' = spread
  BY DEF sessionVars
<1>2. SpreadInv'
  BY <1>1, SpreadRests DEF SessionInv
<1>3. SessionType'
  BY <1>1, TypeRests DEF SessionInv, SessionType
<1>4. WorkInv'
  BY <1>1 DEF SessionInv, WorkInv, Ahead, Done, RecId
<1>5. DrawnInv'
  BY <1>1, DrawnRests DEF SessionInv
<1>6. CacheInv'
  BY <1>1, CacheRests DEF SessionInv
<1> QED BY <1>2, <1>3, <1>4, <1>5, <1>6 DEF SessionInv

(* Nothing is kept before the first comparator. *)
LEMMA NothingKept ==
  ASSUME recCache = <<>>, pairCache = <<>>, columns = <<>>, spread = <<>>
  PROVE  CacheInv /\ SpreadInv
<1>1. DOMAIN recCache = {} /\ DOMAIN pairCache = {} /\ DOMAIN columns = {} /\ Range(spread) = {}
      /\ DOMAIN spread = {}
  BY DEF Range
<1>2. CacheInv
  BY <1>1 DEF CacheInv, RecordsKept, PairsKept, ScoresOwnTerms
<1>3. SpreadInv
  BY <1>1 DEF SpreadInv, IsInjective
<1> QED BY <1>2, <1>3

(* Nothing is wrong with empty caches. *)
LEMMA NothingKeptNext ==
  ASSUME recCache' = <<>>, pairCache' = <<>>, columns' = <<>>, spread' = <<>>
  PROVE  CacheInv' /\ SpreadInv'
<1>1. DOMAIN recCache' = {} /\ DOMAIN pairCache' = {} /\ DOMAIN columns' = {}
      /\ Range(spread)' = {} /\ DOMAIN spread' = {}
  BY DEF Range
<1>2. CacheInv'
  BY <1>1 DEF CacheInv, RecordsKept, PairsKept, ScoresOwnTerms
<1>3. SpreadInv'
  BY <1>1 DEF SpreadInv, IsInjective
<1> QED BY <1>2, <1>3
-----------------------------------------------------------------------------
(* An expression is evaluated for the first time, or again because it failed. *)
Adds(at, v) ==
  /\ \A a \in DOMAIN drawn' : drawn'[a] \in Seq(Range(drawn'[a])) /\ Len(drawn'[a]) > 0
  /\ problems' \in Seq(Range(problems'))
  /\ DOMAIN drawn' = DOMAIN drawn \cup {at}
  /\ \A a \in DOMAIN drawn : drawn'[a][1] = drawn[a][1] /\ (a # at => drawn'[a] = drawn[a])
  /\ at \in DOMAIN drawn => Bad \in Range(drawn'[at])
  /\ at \notin DOMAIN drawn => drawn'[at][1] = v /\ Range(drawn'[at]) = {v}

(* An evaluation of a term that has none, or failed, is recorded once and told if it fails. *)
LEMMA Evaluated ==
  ASSUME SessionType, DrawnOnce, Told = Failed, call' = call,
         NEW k, NEW e, NEW v, NEW at, at[1] = session, at[2] = Data(k), at[3] = e,
         drawn' = Drawing(drawn, at, v),
         problems' = IF v = Bad THEN Append(problems, <<k, e>>) ELSE problems,
         at \in DOMAIN drawn => session # "keys" /\ Bad \in Range(drawn[at])
  PROVE  Adds(at, v) /\ DrawnOnce' /\ (Told = Failed)'
<1>1. PICK f : f = drawn
  OBVIOUS
<1>2a. PICK g : g = Drawing(f, at, v) /\ Drew(f, g, at, v)
  <2>1. \A a \in DOMAIN f : f[a] \in Seq(Range(f[a])) /\ Len(f[a]) > 0
    BY <1>1 DEF SessionType
  <2> QED BY <2>1, DrawGives
<1>2. /\ DOMAIN g = DOMAIN f \cup {at}
      /\ \A a \in DOMAIN f : a # at => g[a] = f[a]
      /\ \A a \in DOMAIN g : g[a] \in Seq(Range(g[a])) /\ Len(g[a]) > 0
      /\ \A a \in DOMAIN f : g[a][1] = f[a][1]
      /\ at \notin DOMAIN f => g[at][1] = v /\ Len(g[at]) = 1 /\ Range(g[at]) = {v}
      /\ at \in DOMAIN f => Range(g[at]) = Range(f[at]) \cup {v}
  BY <1>2a DEF Drew
<1>3. drawn' = g
  BY <1>1, <1>2a
<1>4. PICK P : P = problems /\ P \in Seq(Range(P))
  BY DEF SessionType
<1>5. PICK Q : /\ problems' = Q /\ Q \in Seq(Range(Q))
               /\ v = Bad => Range(Q) = Range(P) \cup {<<k, e>>}
               /\ v # Bad => Q = P
  <2>1. CASE v = Bad
    <3>1. PICK m : m = <<k, e>>
      OBVIOUS
    <3>2a. PICK Q : Q = Append(P, m)
      OBVIOUS
    <3>2b. P \in Seq(Range(P))
      BY <1>4
    <3>2. Q = Append(P, m) /\ Q \in Seq(Range(Q)) /\ Range(Q) = Range(P) \cup {m}
      BY <3>2a, <3>2b, Appended DEF Longer
    <3>3. problems' = Q
      BY <1>4, <2>1, <3>1, <3>2
    <3> QED BY <2>1, <3>1, <3>2, <3>3
  <2>2. CASE v # Bad
    BY <1>4, <2>2
  <2> QED BY <2>1, <2>2
<1>6. at[1] = session /\ at[2] = Data(k) /\ at[3] = e
  OBVIOUS
<1>7. DrawnOnce'
  <2>1. ASSUME NEW a \in DOMAIN g, a[1] = "keys" \/ Bad \notin Range(g[a])
        PROVE  Len(g[a]) = 1
    <3>1. CASE a = at /\ at \in DOMAIN f
      <4>1. Bad \in Range(g[at]) /\ at[1] # "keys"
        BY <1>1, <1>2, <1>6, <3>1
      <4> QED BY <2>1, <3>1, <4>1
    <3>2. CASE a = at /\ at \notin DOMAIN f
      BY <1>2, <3>2
    <3>3. CASE a # at
      <4>1. a \in DOMAIN f /\ g[a] = f[a]
        BY <1>2, <3>3
      <4> QED BY <1>1, <2>1, <4>1 DEF DrawnOnce
    <3> QED BY <3>1, <3>2, <3>3
  <2> QED BY <1>3, <2>1 DEF DrawnOnce
<1>8. PICK new : new = <<Data(k), e>>
  OBVIOUS
<1>9. Told' = IF v = Bad THEN Told \cup {new} ELSE Told
  <2>1. Told' = {<<Data(m[1]), m[2]>> : m \in Range(Q)}
    BY <1>5 DEF Told, Data
  <2>2. Told = {<<Data(m[1]), m[2]>> : m \in Range(P)}
    BY <1>4 DEF Told
  <2>3. CASE v # Bad
    BY <1>5, <2>1, <2>2, <2>3
  <2>4. CASE v = Bad
    <3>0. PICK M : M = <<k, e>>
      OBVIOUS
    <3>1. M = <<k, e>> /\ M[1] = k /\ M[2] = e
      BY <3>0
    <3>2. Range(Q) = Range(P) \cup {M}
      BY <1>5, <2>4, <3>1
    <3>3. new = <<Data(M[1]), M[2]>>
      BY <1>8, <3>1
    <3> QED BY <2>1, <2>2, <2>4, <3>2, <3>3
  <2> QED BY <2>3, <2>4
<1>10. Failed' = IF v = Bad THEN Failed \cup {new} ELSE Failed
  <2> DEFINE Sick(h) == {a \in DOMAIN h : Bad \in Range(h[a])}
  <2>1. Failed' = {<<a[2], a[3]>> : a \in Sick(g)} /\ Failed = {<<a[2], a[3]>> : a \in Sick(f)}
    BY <1>1, <1>3 DEF Failed
  <2>2. \A a : a # at => (a \in Sick(g) <=> a \in Sick(f))
    BY <1>2
  <2>3. at \in Sick(g) <=> v = Bad \/ at \in Sick(f)
    BY <1>2
  <2>4. new = <<at[2], at[3]>>
    BY <1>6, <1>8
  <2>5. v # Bad => Sick(g) = Sick(f)
    BY <2>2, <2>3
  <2>6. v = Bad => Sick(g) = Sick(f) \cup {at}
    BY <2>2, <2>3
  <2> HIDE DEF Sick
  <2>7. CASE v = Bad
    BY <2>1, <2>4, <2>6, <2>7
  <2>8. CASE v # Bad
    BY <2>1, <2>5, <2>8
  <2> QED BY <2>7, <2>8
<1>11. Told' = Failed'
  BY <1>9, <1>10
<1>12. /\ at \in DOMAIN drawn => Bad \in Range(g[at])
       /\ at \notin DOMAIN drawn => g[at][1] = v /\ Range(g[at]) = {v}
       /\ DOMAIN g = DOMAIN drawn \cup {at}
  BY <1>1, <1>2
<1>13. \A a \in DOMAIN drawn : g[a][1] = drawn[a][1] /\ (a # at => g[a] = drawn[a])
  BY <1>1, <1>2
<1>14. /\ \A a \in DOMAIN drawn' : drawn'[a] \in Seq(Range(drawn'[a])) /\ Len(drawn'[a]) > 0
       /\ problems' \in Seq(Range(problems'))
  BY <1>2, <1>3, <1>5
<1>15. /\ at \in DOMAIN drawn => Bad \in Range(drawn'[at])
       /\ at \notin DOMAIN drawn => drawn'[at][1] = v /\ Range(drawn'[at]) = {v}
       /\ DOMAIN drawn' = DOMAIN drawn \cup {at}
  BY <1>3, <1>12
<1>16. \A a \in DOMAIN drawn : drawn'[a][1] = drawn[a][1] /\ (a # at => drawn'[a] = drawn[a])
  BY <1>3, <1>13
<1> QED BY <1>7, <1>11, <1>14, <1>15, <1>16 DEF Adds
-----------------------------------------------------------------------------
(* The steps of the passes. *)
LEMMA TermStep ==
  ASSUME NEW c, NEW w \in KeySteps(c), Len(w) = 3
  PROVE  w[2] \in Turned(c)
<1>1. CASE w \in Nat \X Turned(c) \X Nat
  BY <1>1
<1>2. CASE w \in [1 .. 1 -> Nat]
  <2>1. Len(w) = 1
    BY <1>2
  <2> QED BY <2>1
<1> QED BY <1>1, <1>2 DEF KeySteps

(* Reading a term of a key, or evaluating it the first time, keeps the invariant. *)
LEMMA CachedTermKeeps ==
  ASSUME SessionInv, CachedTerm
  PROVE  SessionInv'
<1>1. /\ session = "keys" /\ work # <<>> /\ work' = Tail(work)
      /\ call' = call /\ session' = session /\ keys' = keys /\ recCache' = recCache
      /\ pairCache' = pairCache /\ xi' = xi /\ yi' = yi /\ columns' = columns /\ spread' = spread
  BY DEF CachedTerm
<1>2. /\ work \in Seq(KeySteps(call))
      /\ columns = <<>> /\ pairCache = <<>> /\ recCache = <<>> /\ spread = <<>>
      /\ \A at \in DOMAIN drawn : at[1] = "keys"
  BY <1>1 DEF SessionInv, WorkInv
<1>3. CacheInv' /\ SpreadInv'
  BY <1>1, <1>2, NothingKeptNext
<1>4. PICK step : step = Head(work)
  OBVIOUS
<1>5. step \in KeySteps(call) /\ Tail(work) \in Seq(KeySteps(call)) /\ Len(step) = 3
  <2>1. PICK w \in Seq(KeySteps(call)) : w = work
    BY <1>2
  <2>2. Head(w) \in KeySteps(call) /\ Tail(w) \in Seq(KeySteps(call))
    BY <1>1, <2>1
  <2>3. Len(Head(work)) = 3
    BY DEF CachedTerm
  <2> QED BY <1>4, <2>1, <2>2, <2>3
<1>6. PICK side : side = step[2] /\ side \in Turned(call)
  BY <1>5, TermStep
<1>7. side \in Sides /\ Data(side) = side
  BY <1>6 DEF Turned, Sides, Data
<1>8. PICK e : e = call.passes[step[1]][side][step[3]]
  OBVIOUS
<1>9. CASE UNCHANGED <<termCache, problems, drawn>>
  <2>1. termCache' = termCache /\ problems' = problems /\ drawn' = drawn
    BY <1>9
  <2>2. SessionType'
    BY <1>1, <2>1 DEF SessionInv, SessionType, Done
  <2>3. WorkInv'
    BY <1>1, <1>2, <1>5, <2>1 DEF WorkInv
  <2>4. DrawnInv'
    BY <1>1, <2>1 DEF SessionInv, DrawnInv, DrawnOnce, DrawnKept, Told, Failed, Data, Cached
  <2> QED BY <1>3, <2>2, <2>3, <2>4 DEF SessionInv
<1>10. ASSUME NEW v, e \notin DOMAIN termCache[side],
              termCache' = [termCache EXCEPT ![side] = With(@, e, v)],
              problems' = IF v = Bad THEN Append(problems, <<side, e>>) ELSE problems,
              Draw(side, e, v)
       PROVE  SessionInv'
  <2>1. PICK at : at = <<session, Data(side), e>>
    OBVIOUS
  <2>2. at[1] = session /\ at[2] = Data(side) /\ at[3] = e /\ at[2] = side
    BY <1>7, <2>1
  <2>3. drawn' = Drawing(drawn, at, v)
    BY <1>10, <2>1 DEF Draw, Drawing
  <2>4. at \notin DOMAIN drawn
    BY <1>1, <1>10, <2>2 DEF SessionInv, DrawnInv, DrawnKept
  <2>5. SessionType /\ DrawnOnce /\ Told = Failed
    BY DEF SessionInv, DrawnInv
  <2>6a. Adds(at, v) /\ DrawnOnce' /\ (Told = Failed)'
    <3>1. at \in DOMAIN drawn => session # "keys" /\ Bad \in Range(drawn[at])
      BY <2>4
    <3>2. problems' = IF v = Bad THEN Append(problems, <<side, e>>) ELSE problems
      BY <1>10
    <3>3. at[1] = session /\ at[2] = Data(side) /\ at[3] = e /\ call' = call
      BY <1>1, <2>2
    <3> QED BY <2>3, <2>5, <3>1, <3>2, <3>3, Evaluated
  <2>6. /\ \A a \in DOMAIN drawn' : drawn'[a] \in Seq(Range(drawn'[a])) /\ Len(drawn'[a]) > 0
        /\ problems' \in Seq(Range(problems'))
        /\ DOMAIN drawn' = DOMAIN drawn \cup {at}
    BY <2>6a DEF Adds
  <2>7. /\ DOMAIN termCache' = Sides /\ e \in DOMAIN termCache'[side]
        /\ \A s \in Sides : DOMAIN termCache[s] \subseteq DOMAIN termCache'[s]
    <3>1. DOMAIN With(termCache[side], e, v) = DOMAIN termCache[side] \cup {e}
      BY WithGives
    <3>2. DOMAIN termCache = Sides
      BY <2>5 DEF SessionType
    <3> QED BY <1>7, <1>10, <3>1, <3>2
  <2>8. SessionType'
    BY <1>1, <2>5, <2>6, <2>7 DEF SessionType, Done
  <2>9. WorkInv'
    <3>1. \A a \in DOMAIN drawn' : a[1] = "keys"
      BY <1>1, <1>2, <2>2, <2>6
    <3> QED BY <1>1, <1>2, <1>5, <3>1 DEF WorkInv
  <2>10. DrawnKept'
    <3>1. ASSUME NEW a \in DOMAIN drawn'
          PROVE  a[1] = "keys" /\ a[2] \in Sides /\ a[3] \in DOMAIN termCache'[a[2]]
      <4>1. CASE a = at
        BY <1>1, <1>7, <2>2, <2>7, <4>1
      <4>2. CASE a # at
        <5>1. a \in DOMAIN drawn /\ a[1] = "keys"
          BY <1>2, <2>6, <4>2
        <5>2. a[2] \in Sides /\ a[3] \in DOMAIN termCache[a[2]]
          BY <5>1 DEF SessionInv, DrawnInv, DrawnKept
        <5> QED BY <2>7, <5>1, <5>2
      <4> QED BY <4>1, <4>2
    <3> QED BY <3>1 DEF DrawnKept
  <2> QED BY <1>3, <2>6a, <2>8, <2>9, <2>10 DEF SessionInv, DrawnInv
<1> QED
  <2>1. \/ UNCHANGED <<termCache, problems, drawn>>
        \/ /\ e \notin DOMAIN termCache[side]
           /\ \E v \in Outcomes(Data(side), e) :
                /\ termCache' = [termCache EXCEPT ![side] = With(@, e, v)]
                /\ problems' = IF v = Bad THEN Append(problems, <<side, e>>) ELSE problems
                /\ Draw(side, e, v)
    BY <1>4, <1>6, <1>8 DEF CachedTerm
  <2> QED BY <1>9, <1>10, <2>1

(* Making a pass's key keeps the invariant. *)
LEMMA PassKeyKeeps ==
  ASSUME SessionInv, PassKey
  PROVE  SessionInv'
<1>1. /\ session = "keys" /\ work # <<>> /\ work' = Tail(work)
      /\ UNCHANGED <<call, session, termCache, problems, recCache, pairCache, xi, yi, columns, drawn,
                     spread>>
  BY DEF PassKey
<1>2. SpreadInv' /\ SessionType' /\ DrawnInv' /\ CacheInv'
  BY <1>1, SpreadRests, TypeRests, DrawnRests, CacheRests DEF SessionInv, SessionType
<1>3. WorkInv'
  <2>1. PICK w \in Seq(KeySteps(call)) : w = work
    BY <1>1 DEF SessionInv, WorkInv
  <2>2. Tail(w) \in Seq(KeySteps(call))
    BY <1>1, <2>1
  <2> QED BY <1>1, <2>1, <2>2 DEF SessionInv, WorkInv
<1> QED BY <1>2, <1>3 DEF SessionInv

(* Stopping keeps the invariant. *)
LEMMA StopKeeps ==
  ASSUME SessionInv, Stop
  PROVE  SessionInv'
<1>1. /\ session' = "stopped"
      /\ UNCHANGED <<call, termCache, keys, problems, recCache, pairCache, xi, yi, columns, drawn,
                     spread>>
  BY DEF Stop
<1>2. SpreadInv' /\ SessionType' /\ DrawnInv' /\ CacheInv'
  BY <1>1, SpreadRests, TypeRests, DrawnRests, CacheRests DEF SessionInv
<1>3. WorkInv'
  BY <1>1 DEF WorkInv
<1> QED BY <1>2, <1>3 DEF SessionInv

(* Finding the pairs keeps the invariant: the next caches start empty. *)
LEMMA FindPairsKeeps ==
  ASSUME SessionInv, FindPairs
  PROVE  SessionInv'
<1>1. /\ session = "keys" /\ problems = <<>> /\ session' = "compare" /\ work' = CompareWork(call)
      /\ UNCHANGED <<call, termCache, keys, problems, recCache, pairCache, columns, drawn, spread>>
  BY DEF FindPairs
<1>2. columns = <<>> /\ pairCache = <<>> /\ recCache = <<>> /\ spread = <<>>
  BY <1>1 DEF SessionInv, WorkInv
<1>3. SessionType' /\ DrawnInv'
  BY <1>1, TypeRests, DrawnRests DEF SessionInv
<1>4. CacheInv' /\ SpreadInv'
  BY <1>1, <1>2, NothingKeptNext
<1>5. PICK c : c = call /\ SessionAdmitted(c)
  BY DEF SessionInv, SessionType
<1>6. PICK w : w = CompareWork(c)
  OBVIOUS
<1>7. w \in Seq(Range(w)) /\ Left(c, 0, 0, w) /\ Len(c.cmp) \in Nat
  BY <1>5, <1>6, ComparisonsLeft
<1>8. work' = w /\ call' = c
  BY <1>1, <1>5, <1>6
<1>9. Done' = 0
  BY <1>1, <1>2 DEF Done
<1>10. WorkInv'
  <2>1. work' \in Seq(Range(work)')
    BY <1>7, <1>8
  <2>2. Left(call', Done', 0, work')
    BY <1>7, <1>8, <1>9
  <2>3. \A k \in 1 .. 0 : FALSE
    OBVIOUS
  <2> QED BY <1>1, <2>1, <2>2, <2>3 DEF WorkInv, Ahead
<1> QED BY <1>3, <1>4, <1>10 DEF SessionInv

(* The comparators are done when the work is, with nothing failed: a       *)
(* message of the keys stopped the call, and one of a comparator's terms   *)
(* does when it comes to be called.                                        *)
LEMMA CompareDoneKeeps ==
  ASSUME SessionInv, CompareDone
  PROVE  SessionInv'
<1>1. /\ session = "compare" /\ work = <<>> /\ session' = "done"
      /\ UNCHANGED <<call, work, termCache, keys, problems, recCache, pairCache, xi, yi, columns,
                     drawn, spread>>
  BY DEF CompareDone
<1>2. SpreadInv' /\ SessionType' /\ DrawnInv' /\ CacheInv'
  BY <1>1, SpreadRests, TypeRests, DrawnRests, CacheRests DEF SessionInv
<1>3. problems = <<>>
  <2>1. PICK e \in 0 .. 2 : Left(call, Done, e, work) /\ (e = 0 => problems = <<>>)
    BY <1>1 DEF SessionInv, WorkInv, Ahead
  <2>2. PICK n \in Nat, d \in Nat : n = Len(call.cmp) /\ d = Done
    BY DEF SessionInv, SessionType, SessionAdmitted, Done
  <2>3. 3 * (n - d) - e = 0
    BY <1>1, <2>1, <2>2 DEF Left
  <2>4. e = 0
    BY <2>3
  <2> QED BY <2>1, <2>4
<1>4. WorkInv'
  BY <1>1, <1>3 DEF WorkInv
<1> QED BY <1>2, <1>4 DEF SessionInv
-----------------------------------------------------------------------------
(* A term of a comparator. *)
LEMMA CacheGrows ==
  ASSUME CacheInv, UNCHANGED <<call, pairCache, xi, yi, columns>>, RecordsKept',
         DOMAIN drawn \subseteq DOMAIN drawn',
         \A a \in DOMAIN drawn : drawn'[a][1] = drawn[a][1]
  PROVE  CacheInv'
<1>1. /\ call' = call /\ pairCache' = pairCache /\ xi' = xi /\ yi' = yi /\ columns' = columns
      /\ \A k, e : Place(k, e)' = Place(k, e)
  BY DEF Place, Data
<1>2. PairsKept'
  <2>1. ASSUME NEW id \in DOMAIN pairCache
        PROVE  /\ id[1] \in Sides
               /\ Place(id[1], id[2]) \in DOMAIN drawn'
               /\ pairCache[id] = At(drawn'[Place(id[1], id[2])][1], IF id[1] = 1 THEN xi ELSE yi)
    <3>1. /\ id[1] \in Sides
          /\ Place(id[1], id[2]) \in DOMAIN drawn
          /\ pairCache[id] = At(drawn[Place(id[1], id[2])][1], IF id[1] = 1 THEN xi ELSE yi)
      BY <2>1 DEF CacheInv, PairsKept
    <3>2. drawn'[Place(id[1], id[2])][1] = drawn[Place(id[1], id[2])][1]
      BY <3>1
    <3> QED BY <3>1, <3>2
  <2> QED BY <1>1, <2>1 DEF PairsKept
<1>3. ASSUME NEW i \in DOMAIN columns, NEW k \in Sides
      PROVE  /\ Place(k, call.cmp[i][k]) \in DOMAIN drawn
             /\ drawn'[Place(k, call.cmp[i][k])][1] = drawn[Place(k, call.cmp[i][k])][1]
  BY DEF CacheInv
<1>4. ASSUME NEW i \in DOMAIN columns
      PROVE  /\ columns[i].score = <<At(drawn'[Place(1, call.cmp[i][1])][1], xi),
                                     At(drawn'[Place(2, call.cmp[i][2])][1], yi)>>
             /\ columns[i].convert = columns[i].score
  <2>1. 1 \in Sides /\ 2 \in Sides
    BY DEF Sides
  <2>2. /\ columns[i].score = <<At(drawn[Place(1, call.cmp[i][1])][1], xi),
                                At(drawn[Place(2, call.cmp[i][2])][1], yi)>>
        /\ columns[i].convert = columns[i].score
    BY DEF CacheInv, ScoresOwnTerms, Place
  <2> QED BY <1>3, <2>1, <2>2
<1>5. ScoresOwnTerms'
  BY <1>1, <1>4 DEF ScoresOwnTerms, Place, Data
<1>6. \A i \in DOMAIN columns : \A k \in Sides : Place(k, call.cmp[i][k]) \in DOMAIN drawn'
  BY <1>3
<1>7. \A i \in DOMAIN columns' : \A k \in Sides : Place(k, call.cmp[i][k])' \in DOMAIN drawn'
  BY <1>1, <1>6 DEF Place, Data
<1> QED BY <1>1, <1>2, <1>5, <1>7 DEF CacheInv

(* While no message is collected nothing has failed. *)
LEMMA NothingFailed ==
  ASSUME Told = Failed, problems = <<>>
  PROVE  \A at \in DOMAIN drawn : Bad \notin Range(drawn[at])
<1>1. Range(problems) = {}
  BY DEF Range
<1>2. Failed = {}
  BY <1>1 DEF Told
<1>3. ASSUME NEW at \in DOMAIN drawn, Bad \in Range(drawn[at])
      PROVE  FALSE
  <2>1. at \in {a \in DOMAIN drawn : Bad \in Range(drawn[a])}
    BY <1>3
  <2>2. <<at[2], at[3]>> \in Failed
    BY <2>1 DEF Failed
  <2> QED BY <1>2, <2>2
<1> QED BY <1>3

(* Evaluating a term for a side's records keeps the invariant. *)
LEMMA RecordTermKeeps ==
  ASSUME SessionInv, RecordTerm
  PROVE  SessionInv'
<1>1. /\ session = "compare" /\ work # <<>> /\ Len(Head(work)) = 2 /\ work' = Tail(work)
      /\ call' = call /\ session' = session /\ termCache' = termCache
      /\ pairCache' = pairCache /\ xi' = xi /\ yi' = yi /\ columns' = columns /\ spread' = spread
  BY DEF RecordTerm
<1>2. SessionType /\ WorkInv /\ DrawnInv /\ CacheInv /\ SpreadInv
  BY DEF SessionInv
<1>3. PICK e \in 0 .. 2 :
        /\ Done < Len(call.cmp) /\ Head(work) = Step(Done + 1, e + 1)
        /\ problems = <<>> => \A k \in 1 .. e : RecId(Done + 1, k) \in DOMAIN recCache
        /\ Tail(work) \in Seq(Range(Tail(work)))
        /\ Left(call, IF e = 2 THEN Done + 1 ELSE Done, IF e = 2 THEN 0 ELSE e + 1, Tail(work))
  BY <1>1, <1>2, NextStep
<1>4. PICK i : i = Done + 1
  OBVIOUS
<1>5. e # 2 /\ Head(work) = <<i, e + 1>>
  <2>1. CASE e = 2
    <3>1. Head(work) = <<i>>
      BY <1>3, <1>4, <2>1 DEF Step
    <3>2. Len(<<i>>) = 1
      OBVIOUS
    <3> QED BY <1>1, <3>1, <3>2
  <2>2. CASE e # 2
    BY <1>3, <1>4, <2>2 DEF Step
  <2> QED BY <2>1, <2>2
<1>6. PICK k \in Sides : k = e + 1
  BY <1>5 DEF Sides
<1>7. PICK id : id = RecId(i, k)
  OBVIOUS
<1>8. PICK x : x = call.cmp[i][k]
  OBVIOUS
<1>9. Head(work)[1] = i /\ Head(work)[2] = k
  BY <1>5, <1>6
<1>10. \/ id \in DOMAIN recCache /\ UNCHANGED <<recCache, problems, drawn>>
       \/ /\ id \notin DOMAIN recCache
          /\ \E v \in Outcomes(Data(k), x) :
               /\ recCache' = IF v = Bad THEN recCache ELSE With(recCache, id, v)
               /\ problems' = IF v = Bad THEN Append(problems, <<k, x>>) ELSE problems
               /\ Draw(k, x, v)
  BY <1>7, <1>8, <1>9 DEF RecordTerm
<1>11. id = Cached(k, x) /\ id[2] = x
  BY <1>7, <1>8 DEF RecId, Cached
<1>12. SpreadInv'
  BY <1>1, <1>2, SpreadRests
<1>13. ASSUME DOMAIN recCache \subseteq DOMAIN recCache',
              problems' = <<>> => problems = <<>> /\ id \in DOMAIN recCache'
       PROVE  WorkInv'
  <2>1. Done' = Done /\ Tail(work) \in Seq(Range(Tail(work))) /\ Left(call, Done, e + 1, Tail(work))
    BY <1>1, <1>3, <1>5 DEF Done
  <2>2. work' \in Seq(Range(work')) /\ Left(call', Done', e + 1, work')
    BY <1>1, <2>1
  <2>3. e + 1 \in 0 .. 2 /\ e + 1 # 0 /\ Done < Len(call.cmp)
    BY <1>3, <1>5
  <2>4. ASSUME problems' = <<>>, NEW j \in 1 .. e + 1
        PROVE  RecId(Done + 1, j) \in DOMAIN recCache'
    <3>1. CASE j = e + 1
      BY <1>4, <1>6, <1>7, <1>13, <2>4, <3>1
    <3>2. CASE j # e + 1
      BY <1>3, <1>13, <2>4, <3>2
    <3> QED BY <3>1, <3>2
  <2>5. PICK m \in 0 .. 2 : m = e + 1
    BY <2>3
  <2>6. Ahead(m)'
    <3>1. problems' = <<>> => \A j \in 1 .. m : RecId(Done + 1, j)' \in DOMAIN recCache'
      BY <1>1, <2>1, <2>4, <2>5 DEF RecId
    <3>2. Left(call, Done, m, work)' /\ m # 0 /\ Done' < Len(call'.cmp)
      BY <1>1, <2>1, <2>2, <2>3, <2>5
    <3> QED BY <3>1, <3>2 DEF Ahead
  <2> QED BY <1>1, <2>2, <2>6 DEF WorkInv
<1>14. CASE id \in DOMAIN recCache /\ UNCHANGED <<recCache, problems, drawn>>
  <2>1. recCache' = recCache /\ problems' = problems /\ drawn' = drawn
    BY <1>14
  <2>2. SessionType'
    BY <1>1, <1>2, <2>1, TypeRests DEF SessionType
  <2>3. DrawnInv' /\ CacheInv'
    BY <1>1, <1>2, <2>1, DrawnRests, CacheRests
  <2>4. WorkInv'
    BY <1>13, <1>14, <2>1
  <2> QED BY <1>12, <2>2, <2>3, <2>4 DEF SessionInv
<1>15. ASSUME NEW v, id \notin DOMAIN recCache,
              recCache' = IF v = Bad THEN recCache ELSE With(recCache, id, v),
              problems' = IF v = Bad THEN Append(problems, <<k, x>>) ELSE problems,
              Draw(k, x, v)
       PROVE  SessionInv'
  <2>1. PICK at : at = <<session, Data(k), x>>
    OBVIOUS
  <2>2. at[1] = session /\ at[2] = Data(k) /\ at[3] = x
    BY <2>1
  <2>3. drawn' = Drawing(drawn, at, v)
    BY <1>15, <2>1 DEF Draw, Drawing
  <2>4. Cached(at[2], at[3]) = id /\ at = Place(k, x)
    BY <1>1, <1>11, <2>1, <2>2 DEF Cached, Data, Place
  <2>5. at \in DOMAIN drawn => session # "keys" /\ Bad \in Range(drawn[at])
    BY <1>1, <1>2, <1>15, <2>2, <2>4 DEF DrawnInv, DrawnKept
  <2>6. SessionType /\ DrawnOnce /\ Told = Failed
    BY <1>2 DEF DrawnInv
  <2>7. problems' = IF v = Bad THEN Append(problems, <<k, x>>) ELSE problems
    BY <1>15
  <2>8. Adds(at, v) /\ DrawnOnce' /\ (Told = Failed)'
    <3>1. at[1] = session /\ at[2] = Data(k) /\ at[3] = x /\ call' = call
      BY <1>1, <2>2
    <3> QED BY <2>3, <2>5, <2>6, <2>7, <3>1, Evaluated
  <2>9. /\ \A a \in DOMAIN drawn' : drawn'[a] \in Seq(Range(drawn'[a])) /\ Len(drawn'[a]) > 0
        /\ problems' \in Seq(Range(problems'))
        /\ DOMAIN drawn' = DOMAIN drawn \cup {at}
        /\ \A a \in DOMAIN drawn : drawn'[a][1] = drawn[a][1] /\ (a # at => drawn'[a] = drawn[a])
        /\ at \in DOMAIN drawn => Bad \in Range(drawn'[at])
        /\ at \notin DOMAIN drawn => drawn'[at][1] = v /\ Range(drawn'[at]) = {v}
    BY <2>8 DEF Adds
  <2>10. SessionType'
    BY <1>1, <2>6, <2>9 DEF SessionType, Done
  <2>11. /\ v = Bad => recCache' = recCache
         /\ v # Bad => /\ DOMAIN recCache' = DOMAIN recCache \cup {id} /\ recCache'[id] = v
                       /\ \A r \in DOMAIN recCache : r # id => recCache'[r] = recCache[r]
    <3>1. /\ DOMAIN With(recCache, id, v) = DOMAIN recCache \cup {id}
          /\ With(recCache, id, v)[id] = v
          /\ \A r \in DOMAIN recCache : r # id => With(recCache, id, v)[r] = recCache[r]
      BY DEF With
    <3> QED BY <1>15, <3>1
  <2>12. problems' = <<>> => problems = <<>> /\ v # Bad
    <3>1. CASE v = Bad
      <4>1. PICK P, m : P = problems /\ P \in Seq(Range(P)) /\ m = <<k, x>>
        BY <2>6 DEF SessionType
      <4>2. PICK Q : Q = Append(P, m)
        OBVIOUS
      <4>3. Len(Q) = Len(P) + 1 /\ Len(P) \in Nat
        BY <4>1, <4>2, Appended DEF Longer
      <4>4. Q # <<>>
        BY <4>3
      <4>5. problems' = Q
        BY <2>7, <3>1, <4>1, <4>2
      <4> QED BY <4>4, <4>5
    <3>2. CASE v # Bad
      BY <2>7, <3>2
    <3> QED BY <3>1, <3>2
  <2>13. WorkInv'
    BY <1>13, <2>11, <2>12
  <2>14. DrawnKept'
    <3>1. ASSUME NEW a \in DOMAIN drawn'
          PROVE  /\ a[1] = "keys" => a[2] \in Sides /\ a[3] \in DOMAIN termCache[a[2]]
                 /\ a[1] = "compare" /\ Bad \notin Range(drawn'[a]) =>
                      Cached(a[2], a[3]) \in DOMAIN recCache'
      <4>1. CASE a = at
        <5>1. Bad \notin Range(drawn'[at]) => v # Bad
          BY <2>9
        <5> QED BY <1>1, <2>2, <2>4, <2>11, <4>1, <5>1
      <4>2. CASE a # at
        <5>1. a \in DOMAIN drawn /\ drawn'[a] = drawn[a]
          BY <2>9, <4>2
        <5>2. /\ a[1] = "keys" => a[2] \in Sides /\ a[3] \in DOMAIN termCache[a[2]]
              /\ a[1] = "compare" /\ Bad \notin Range(drawn[a]) =>
                   Cached(a[2], a[3]) \in DOMAIN recCache
          BY <1>2, <5>1 DEF DrawnInv, DrawnKept
        <5> QED BY <2>11, <5>1, <5>2
      <4> QED BY <4>1, <4>2
    <3> QED BY <1>1, <3>1 DEF DrawnKept, Cached
  <2>15. RecordsKept'
    <3>1. SUFFICES ASSUME problems' = <<>>, NEW r \in DOMAIN recCache', NEW s \in Sides,
                          r = Cached(s, r[2])
                   PROVE  Place(s, r[2]) \in DOMAIN drawn' /\ recCache'[r] = drawn'[Place(s, r[2])][1]
      BY <1>1 DEF RecordsKept, Cached, Place, Data
    <3>2. problems = <<>> /\ v # Bad /\ at \notin DOMAIN drawn
      BY <2>5, <2>6, <2>12, <3>1, NothingFailed
    <3>3. CASE r = id
      <4>1. Cached(s, x) = Cached(k, x)
        BY <1>11, <3>1, <3>3
      <4>2. Place(s, x) = at
        BY <2>4, <4>1 DEF Cached, Place, Data
      <4> QED BY <1>11, <2>9, <2>11, <3>2, <3>3, <4>2
    <3>4. CASE r # id
      <4>1. r \in DOMAIN recCache /\ recCache'[r] = recCache[r]
        BY <2>11, <3>2, <3>4
      <4>2. Place(s, r[2]) \in DOMAIN drawn /\ recCache[r] = drawn[Place(s, r[2])][1]
        BY <1>2, <3>1, <3>2, <4>1 DEF CacheInv, RecordsKept
      <4> QED BY <2>9, <4>1, <4>2
    <3> QED BY <3>3, <3>4
  <2>16. CacheInv'
    BY <1>1, <1>2, <2>9, <2>15, CacheGrows
  <2> QED BY <1>12, <2>8, <2>10, <2>13, <2>14, <2>16 DEF SessionInv, DrawnInv
<1> QED BY <1>10, <1>14, <1>15
-----------------------------------------------------------------------------
(* A comparator. *)
Spread(s, m, x, t) ==
  /\ t = s \o m /\ t \in Seq(Range(t)) /\ IsInjective(t)
  /\ Range(t) = IF m = <<>> THEN Range(s) ELSE Range(s) \cup {x}

(* Spreading at most one new term appends it to the terms spread. *)
LEMMA Spreading ==
  ASSUME NEW s, s \in Seq(Range(s)), IsInjective(s), NEW x, NEW m,
         m = <<>> \/ (m = <<x>> /\ x \notin Range(s))
  PROVE  \E t : Spread(s, m, x, t)
<1>1. CASE m = <<>>
  <2>1. s \o m = s
    BY <1>1
  <2> QED BY <1>1, <2>1 DEF Spread
<1>2. CASE m = <<x>> /\ x \notin Range(s)
  <2>1. PICK t : t = Append(s, x)
    OBVIOUS
  <2>2. s \in Seq(Range(s))
    OBVIOUS
  <2>3a. Longer(s, x, t)
    BY <2>1, <2>2, Appended
  <2>3. /\ t \in Seq(Range(t)) /\ Len(t) = Len(s) + 1 /\ Len(s) \in Nat
        /\ DOMAIN s = 1 .. Len(s) /\ DOMAIN t = 1 .. Len(s) + 1
        /\ t[Len(s) + 1] = x /\ \A j \in 1 .. Len(s) : t[j] = s[j]
        /\ Range(t) = Range(s) \cup {x}
    BY <2>3a DEF Longer
  <2>4. s \o m = t
    <3>1. s \o <<x>> = Append(s, x)
      <4>1. s \in Seq(Range(s) \cup {x})
        <5>1. \A j \in 1 .. Len(s) : s[j] \in Range(s) \cup {x}
          OBVIOUS
        <5> QED BY <5>1
      <4> QED BY <4>1
    <3> QED BY <1>2, <2>1, <3>1
  <2>5. ASSUME NEW a \in DOMAIN t, NEW b \in DOMAIN t, t[a] = t[b]
        PROVE  a = b
    <3>1. \A j \in 1 .. Len(s) : t[j] = s[j] /\ s[j] \in Range(s)
      BY <2>3 DEF Range
    <3>2. CASE a \in 1 .. Len(s) /\ b \in 1 .. Len(s)
      <4>1. s[a] = s[b] /\ a \in DOMAIN s /\ b \in DOMAIN s
        BY <2>3, <2>5, <3>2
      <4> QED BY <4>1 DEF IsInjective
    <3>3. CASE a = Len(s) + 1 /\ b \in 1 .. Len(s)
      BY <1>2, <2>3, <2>5, <3>1, <3>3
    <3>4. CASE a \in 1 .. Len(s) /\ b = Len(s) + 1
      BY <1>2, <2>3, <2>5, <3>1, <3>4
    <3>5. CASE a = Len(s) + 1 /\ b = Len(s) + 1
      BY <3>5
    <3> QED BY <2>3, <3>2, <3>3, <3>4, <3>5
  <2>6. IsInjective(t)
    BY <2>5 DEF IsInjective
  <2>7. m # <<>>
    BY <1>2
  <2> QED BY <2>3, <2>4, <2>6, <2>7 DEF Spread
<1> QED BY <1>1, <1>2

Fill(f, x, v) == IF x \in DOMAIN f THEN f ELSE With(f, x, v)

FilledIn(f, x, v, y, w, g) ==
  /\ DOMAIN g = DOMAIN f \cup {x, y}
  /\ \A z \in DOMAIN f : g[z] = f[z]
  /\ x \notin DOMAIN f => g[x] = v
  /\ y \notin DOMAIN f => g[y] = w

(* What filling two places of the pair cache gives. *)
LEMMA Filling ==
  ASSUME NEW f, NEW x, NEW v, NEW y, NEW w, x # y
  PROVE  \E g : g = Fill(Fill(f, x, v), y, w) /\ FilledIn(f, x, v, y, w, g)
<1>1. PICK h : h = Fill(f, x, v)
  OBVIOUS
<1>2. /\ DOMAIN h = DOMAIN f \cup {x}
      /\ \A z \in DOMAIN f : h[z] = f[z]
      /\ x \notin DOMAIN f => h[x] = v
  BY <1>1 DEF Fill, With
<1>3. PICK g : g = Fill(h, y, w)
  OBVIOUS
<1>4. /\ DOMAIN g = DOMAIN h \cup {y}
      /\ \A z \in DOMAIN h : g[z] = h[z]
      /\ y \notin DOMAIN h => g[y] = w
  BY <1>3 DEF Fill, With
<1>5. g = Fill(Fill(f, x, v), y, w)
  BY <1>1, <1>3
<1>6. DOMAIN g = DOMAIN f \cup {x, y} /\ \A z \in DOMAIN f : g[z] = f[z]
  BY <1>2, <1>4
<1>7. x \notin DOMAIN f => g[x] = v
  BY <1>2, <1>4
<1>8. y \notin DOMAIN f => g[y] = w
  BY <1>2, <1>4
<1> QED BY <1>5, <1>6, <1>7, <1>8 DEF FilledIn

(* What calling comparator i does, its two copies filled in. *)
Called(i, both) ==
  LET x == PairId(i, 1)
      y == PairId(i, 2)
      v == At(recCache[RecId(i, 1)], xi)
      w == At(recCache[RecId(i, 2)], yi)
  IN  /\ columns' = Append(columns, [score |-> <<both[x], both[y]>>, convert |-> <<v, w>>])
      /\ pairCache' = [id \in DOMAIN both \ {z \in {x, y} : LastUse(z) = i} |-> both[id]]
      /\ spread' = (spread \o (IF x \in DOMAIN pairCache THEN <<>> ELSE <<x>>))
                     \o (IF y \in DOMAIN pairCache THEN <<>> ELSE <<y>>)
      /\ FilledIn(pairCache, x, v, y, w, both)

(* A comparison that is next calls its comparator with two vectors. *)
LEMMA CompareCalls ==
  ASSUME Compare, NEW i, Head(work)[1] = i
  PROVE  \E both : Called(i, both)
<1>1. PICK x, y, v, w :
        /\ x = PairId(i, 1) /\ y = PairId(i, 2)
        /\ v = At(recCache[RecId(i, 1)], xi) /\ w = At(recCache[RecId(i, 2)], yi)
  OBVIOUS
<1>2. PICK ids, fresh : ids = <<x, y>> /\ fresh = <<v, w>>
  OBVIOUS
<1>3. ids[1] = x /\ ids[2] = y /\ fresh[1] = v /\ fresh[2] = w /\ Range(ids) = {x, y}
  <2>1. DOMAIN ids = {1, 2}
    BY <1>2
  <2> QED BY <1>2, <2>1 DEF Range
<1>4. x # y
  BY <1>1 DEF PairId
<1>5. PICK both : both = Fill(Fill(pairCache, x, v), y, w) /\ FilledIn(pairCache, x, v, y, w, both)
  BY <1>4, Filling
<1>6. LET Filled(cache, k) == IF ids[k] \in DOMAIN cache THEN cache ELSE With(cache, ids[k], fresh[k])
          all == Filled(Filled(pairCache, 1), 2)
          Missing(k) == IF ids[k] \in DOMAIN pairCache THEN <<>> ELSE <<ids[k]>>
      IN  /\ columns' = Append(columns, [score |-> <<all[ids[1]], all[ids[2]]>>, convert |-> fresh])
          /\ pairCache' = [id \in DOMAIN all \ {z \in Range(ids) : LastUse(z) = i} |-> all[id]]
          /\ spread' = spread \o Missing(1) \o Missing(2)
  BY <1>1, <1>2 DEF Compare
<1>7. /\ columns' = Append(columns, [score |-> <<both[x], both[y]>>, convert |-> fresh])
      /\ pairCache' = [id \in DOMAIN both \ {z \in {x, y} : LastUse(z) = i} |-> both[id]]
      /\ spread' = (spread \o (IF x \in DOMAIN pairCache THEN <<>> ELSE <<x>>))
                     \o (IF y \in DOMAIN pairCache THEN <<>> ELSE <<y>>)
  BY <1>3, <1>5, <1>6 DEF Fill
<1> QED BY <1>1, <1>2, <1>5, <1>7 DEF Called

(* A comparison keeps the invariant: its column is made of its own terms, and what it drops *)
(* is read by no later one.                                                                 *)
LEMMA CompareKeeps ==
  ASSUME SessionInv, Compare
  PROVE  SessionInv'
<1>1. /\ session = "compare" /\ work # <<>> /\ Len(Head(work)) = 1 /\ problems = <<>>
      /\ work' = Tail(work)
      /\ call' = call /\ session' = session /\ termCache' = termCache /\ problems' = problems
      /\ recCache' = recCache /\ xi' = xi /\ yi' = yi /\ drawn' = drawn
  BY DEF Compare
<1>2. SessionType /\ WorkInv /\ DrawnInv /\ CacheInv /\ SpreadInv
  BY DEF SessionInv
<1>3. PICK e \in 0 .. 2 :
        /\ Done < Len(call.cmp) /\ Head(work) = Step(Done + 1, e + 1)
        /\ problems = <<>> => \A k \in 1 .. e : RecId(Done + 1, k) \in DOMAIN recCache
        /\ Tail(work) \in Seq(Range(Tail(work)))
        /\ Left(call, IF e = 2 THEN Done + 1 ELSE Done, IF e = 2 THEN 0 ELSE e + 1, Tail(work))
  BY <1>1, <1>2, NextStep
<1>4. PICK i : i = Done + 1
  OBVIOUS
<1>5. e = 2 /\ Head(work) = <<i>>
  <2>1. ASSUME e # 2 PROVE FALSE
    <3>1. Head(work) = <<i, e + 1>>
      BY <1>3, <1>4, <2>1 DEF Step
    <3>2. Len(<<i, e + 1>>) = 2
      OBVIOUS
    <3> QED BY <1>1, <3>1, <3>2
  <2>2. e = 2
    BY <2>1
  <2> QED BY <1>3, <1>4, <2>2 DEF Step
<1>6. Head(work)[1] = i
  BY <1>5
<1>7. PICK both : Called(i, both)
  BY <1>6, CompareCalls
<1>8. Done \in Nat /\ DOMAIN call.cmp = 1 .. Len(call.cmp) /\ i \in DOMAIN call.cmp
  BY <1>2, <1>3, <1>4 DEF SessionType, SessionAdmitted, Done
<1>9. PICK x, y, v, w :
        /\ x = PairId(i, 1) /\ y = PairId(i, 2)
        /\ v = At(recCache[RecId(i, 1)], xi) /\ w = At(recCache[RecId(i, 2)], yi)
  OBVIOUS
<1>10. /\ columns' = Append(columns, [score |-> <<both[x], both[y]>>, convert |-> <<v, w>>])
       /\ pairCache' = [id \in DOMAIN both \ {z \in {x, y} : LastUse(z) = i} |-> both[id]]
       /\ spread' = (spread \o (IF x \in DOMAIN pairCache THEN <<>> ELSE <<x>>))
                      \o (IF y \in DOMAIN pairCache THEN <<>> ELSE <<y>>)
       /\ FilledIn(pairCache, x, v, y, w, both)
  BY <1>7, <1>9 DEF Called
<1>11. /\ DOMAIN both = DOMAIN pairCache \cup {x, y}
       /\ \A z \in DOMAIN pairCache : both[z] = pairCache[z]
       /\ x \notin DOMAIN pairCache => both[x] = v
       /\ y \notin DOMAIN pairCache => both[y] = w
  BY <1>10 DEF FilledIn
<1>12. PICK a, b : a = call.cmp[i][1] /\ b = call.cmp[i][2]
  OBVIOUS
<1>13. /\ x[1] = 1 /\ x[2] = a /\ y[1] = 2 /\ y[2] = b /\ x # y
       /\ Reads(i, x) /\ Reads(i, y) /\ \A id : Reads(i, id) => id \in {x, y}
  BY <1>9, <1>12 DEF PairId, Reads
(* What the terms gave. *)
<1>14. /\ Place(1, a) \in DOMAIN drawn /\ recCache[RecId(i, 1)] = drawn[Place(1, a)][1]
       /\ Place(2, b) \in DOMAIN drawn /\ recCache[RecId(i, 2)] = drawn[Place(2, b)][1]
  <2>1. \A k \in 1 .. 2 : RecId(i, k) \in DOMAIN recCache
    BY <1>1, <1>3, <1>4, <1>5
  <2>2. ASSUME NEW k \in Sides, NEW id, id = RecId(i, k)
        PROVE  /\ Place(k, call.cmp[i][k]) \in DOMAIN drawn
               /\ recCache[id] = drawn[Place(k, call.cmp[i][k])][1]
    <3>1. id = Cached(k, call.cmp[i][k]) /\ id[2] = call.cmp[i][k]
      BY <2>2 DEF RecId, Cached
    <3>2. id \in DOMAIN recCache
      BY <2>1, <2>2 DEF Sides
    <3> QED BY <1>1, <1>2, <3>1, <3>2 DEF CacheInv, RecordsKept
  <2>3. 1 \in Sides /\ 2 \in Sides
    BY DEF Sides
  <2> QED BY <1>12, <2>2, <2>3
<1>15. v = At(drawn[Place(1, a)][1], xi) /\ w = At(drawn[Place(2, b)][1], yi)
  BY <1>9, <1>14
<1>16. ASSUME NEW id \in DOMAIN pairCache
       PROVE  /\ id[1] \in Sides /\ Place(id[1], id[2]) \in DOMAIN drawn
              /\ pairCache[id] = At(drawn[Place(id[1], id[2])][1], IF id[1] = 1 THEN xi ELSE yi)
  BY <1>2 DEF CacheInv, PairsKept
<1>17. both[x] = v /\ both[y] = w
  <2>1. CASE x \in DOMAIN pairCache
    BY <1>11, <1>13, <1>15, <1>16, <2>1
  <2>2. CASE y \in DOMAIN pairCache
    BY <1>11, <1>13, <1>15, <1>16, <2>2
  <2> QED BY <1>11, <2>1, <2>2
<1>18. ASSUME NEW id \in DOMAIN both
       PROVE  /\ id[1] \in Sides /\ Place(id[1], id[2]) \in DOMAIN drawn
              /\ both[id] = At(drawn[Place(id[1], id[2])][1], IF id[1] = 1 THEN xi ELSE yi)
  <2>1. CASE id = x
    BY <1>13, <1>14, <1>15, <1>17, <2>1 DEF Sides
  <2>2. CASE id = y
    BY <1>13, <1>14, <1>15, <1>17, <2>2 DEF Sides
  <2>3. CASE id \in DOMAIN pairCache
    BY <1>11, <1>16, <2>3
  <2> QED BY <1>11, <2>1, <2>2, <2>3
<1>19. /\ DOMAIN pairCache' = DOMAIN both \ {z \in {x, y} : LastUse(z) = i}
       /\ \A id \in DOMAIN pairCache' : pairCache'[id] = both[id]
  BY <1>10
<1>20. PairsKept'
  <2>1. \A k, u : Place(k, u)' = Place(k, u)
    BY <1>1 DEF Place, Data
  <2>2. \A id \in DOMAIN pairCache' :
          /\ id[1] \in Sides /\ Place(id[1], id[2]) \in DOMAIN drawn
          /\ pairCache'[id] = At(drawn[Place(id[1], id[2])][1], IF id[1] = 1 THEN xi ELSE yi)
    BY <1>18, <1>19
  <2> QED BY <1>1, <2>1, <2>2 DEF PairsKept
(* The column. *)
<1>21. PICK col : col = [score |-> <<both[x], both[y]>>, convert |-> <<v, w>>]
  OBVIOUS
<1>22. PICK cols : cols = columns /\ cols \in Seq(Range(cols))
  BY <1>2 DEF SessionType
<1>23. PICK more : more = Append(cols, col)
  OBVIOUS
<1>24. columns' = more
  BY <1>10, <1>21, <1>22, <1>23
<1>25. Longer(cols, col, more)
  BY <1>22, <1>23, Appended
<1>26. /\ more \in Seq(Range(more)) /\ Len(more) = Len(cols) + 1 /\ Len(cols) \in Nat
       /\ DOMAIN cols = 1 .. Len(cols) /\ DOMAIN more = 1 .. Len(cols) + 1
       /\ more[Len(cols) + 1] = col /\ \A j \in 1 .. Len(cols) : more[j] = cols[j]
  BY <1>25 DEF Longer
<1>27. Done = Len(cols) /\ Done' = Done + 1 /\ i = Len(cols) + 1
  BY <1>4, <1>22, <1>24, <1>26 DEF Done
<1>28. col.score = <<v, w>> /\ col.convert = <<v, w>>
  BY <1>17, <1>21
<1>29. ASSUME NEW j \in DOMAIN columns'
       PROVE  /\ \A k \in Sides : Place(k, call.cmp[j][k]) \in DOMAIN drawn
              /\ columns'[j].score = <<At(drawn[Place(1, call.cmp[j][1])][1], xi),
                                       At(drawn[Place(2, call.cmp[j][2])][1], yi)>>
              /\ columns'[j].convert = columns'[j].score
  <2>1. CASE j = i
    <3>1. columns'[j] = col
      BY <1>24, <1>26, <1>27, <2>1
    <3>2. /\ columns'[j].score = <<At(drawn[Place(1, call.cmp[j][1])][1], xi),
                                   At(drawn[Place(2, call.cmp[j][2])][1], yi)>>
          /\ columns'[j].convert = columns'[j].score
      BY <1>12, <1>15, <1>28, <2>1, <3>1
    <3>3. \A k \in Sides : Place(k, call.cmp[j][k]) \in DOMAIN drawn
      BY <1>12, <1>14, <2>1 DEF Sides
    <3> QED BY <3>2, <3>3
  <2>2. CASE j # i
    <3>1. j \in DOMAIN columns /\ columns'[j] = columns[j]
      BY <1>22, <1>24, <1>26, <1>27, <2>2
    <3>2. /\ \A k \in Sides : Place(k, call.cmp[j][k]) \in DOMAIN drawn
          /\ columns[j].score = <<At(drawn[Place(1, call.cmp[j][1])][1], xi),
                                  At(drawn[Place(2, call.cmp[j][2])][1], yi)>>
          /\ columns[j].convert = columns[j].score
      BY <1>2, <3>1 DEF CacheInv, ScoresOwnTerms, Place
    <3> QED BY <3>1, <3>2
  <2> QED BY <2>1, <2>2
<1>30. CacheInv'
  <2>1. RecordsKept'
    BY <1>1, <1>2 DEF CacheInv, RecordsKept, Cached, Place, Data
  <2>2. ScoresOwnTerms'
    BY <1>1, <1>29 DEF ScoresOwnTerms, Place, Data
  <2>3. \A j \in DOMAIN columns' : \A k \in Sides : Place(k, call.cmp[j][k])' \in DOMAIN drawn'
    BY <1>1, <1>29 DEF Place, Data
  <2> QED BY <1>1, <1>20, <2>1, <2>2, <2>3 DEF CacheInv
(* The copies. *)
<1>31. /\ spread \in Seq(Range(spread)) /\ IsInjective(spread)
       /\ \A id \in Range(spread) : \E j \in 1 .. Done : Reads(j, id)
       /\ DOMAIN pairCache =
            {id \in Range(spread) : \E j \in DOMAIN call.cmp : j > Done /\ Reads(j, id)}
  BY <1>2 DEF SessionType, SpreadInv
<1>32. \A id \in {x, y} : id \in Range(spread) => id \in DOMAIN pairCache
  BY <1>4, <1>8, <1>13, <1>31
<1>33. PICK m, n : /\ m = (IF x \in DOMAIN pairCache THEN <<>> ELSE <<x>>)
                   /\ n = (IF y \in DOMAIN pairCache THEN <<>> ELSE <<y>>)
  OBVIOUS
<1>34. /\ (m = <<>> /\ x \in DOMAIN pairCache) \/ (m = <<x>> /\ m # <<>> /\ x \notin DOMAIN pairCache)
       /\ (n = <<>> /\ y \in DOMAIN pairCache) \/ (n = <<y>> /\ n # <<>> /\ y \notin DOMAIN pairCache)
  BY <1>33
<1>35. PICK s : s = spread
  OBVIOUS
<1>36. m = <<>> \/ (m = <<x>> /\ x \notin Range(s))
  BY <1>32, <1>34, <1>35
<1>36a. s \in Seq(Range(s)) /\ IsInjective(s)
  BY <1>31, <1>35
<1>37a. PICK t : Spread(s, m, x, t)
  BY <1>36, <1>36a, Spreading
<1>37. /\ t = s \o m /\ t \in Seq(Range(t)) /\ IsInjective(t)
       /\ Range(t) = IF m = <<>> THEN Range(s) ELSE Range(s) \cup {x}
  BY <1>37a DEF Spread
<1>38. n = <<>> \/ (n = <<y>> /\ y \notin Range(t))
  BY <1>13, <1>32, <1>34, <1>35, <1>37
<1>38a. t \in Seq(Range(t)) /\ IsInjective(t)
  BY <1>37
<1>39a. PICK u : Spread(t, n, y, u)
  BY <1>38, <1>38a, Spreading
<1>39. /\ u = t \o n /\ u \in Seq(Range(u)) /\ IsInjective(u)
       /\ Range(u) = IF n = <<>> THEN Range(t) ELSE Range(t) \cup {y}
  BY <1>39a DEF Spread
<1>40. spread' = u
  BY <1>10, <1>33, <1>35, <1>37, <1>39
<1>41. Range(u) = Range(spread) \cup {x, y}
  <2>1. x \in DOMAIN pairCache => x \in Range(spread)
    BY <1>31
  <2>2. y \in DOMAIN pairCache => y \in Range(spread)
    BY <1>31
  <2>3. Range(t) = Range(spread) \cup {x}
    BY <1>34, <1>35, <1>37, <2>1
  <2> QED BY <1>34, <1>39, <2>2, <2>3
<1>42. \A id \in Range(u) : \E j \in 1 .. Done + 1 : Reads(j, id)
  <2>1. Reads(i, x) /\ Reads(i, y) /\ i \in 1 .. Done + 1
    BY <1>4, <1>8, <1>13
  <2>2. \A id \in Range(spread) : \E j \in 1 .. Done : Reads(j, id)
    BY <1>31
  <2>3. \A j \in 1 .. Done : j \in 1 .. Done + 1
    BY <1>8
  <2>4. \A id \in Range(spread) : \E j \in 1 .. Done + 1 : Reads(j, id)
    BY <2>2, <2>3
  <2>5. \A id \in {x, y} : \E j \in 1 .. Done + 1 : Reads(j, id)
    BY <2>1
  <2> QED BY <1>41, <2>4, <2>5
<1>43. ASSUME NEW id
       PROVE  id \in DOMAIN pairCache' <=>
                id \in Range(u) /\ \E j \in DOMAIN call.cmp : j > Done + 1 /\ Reads(j, id)
  <2>1. CASE id \in {x, y}
    <3>1. Reads(i, id) /\ id \in DOMAIN both /\ id \in Range(u)
      BY <1>11, <1>13, <1>41, <2>1
    <3>2. /\ LastUse(id) \in DOMAIN call.cmp /\ Reads(LastUse(id), id)
          /\ \A j \in DOMAIN call.cmp : Reads(j, id) => j <= LastUse(id)
      BY <1>2, <1>8, <3>1, LastRead DEF SessionType
    <3>3. id \in DOMAIN pairCache' <=> LastUse(id) # i
      BY <1>19, <2>1, <3>1
    <3>4. LastUse(id) >= i
      BY <1>8, <3>1, <3>2
    <3>5. LastUse(id) # i <=> \E j \in DOMAIN call.cmp : j > Done + 1 /\ Reads(j, id)
      BY <1>4, <1>8, <3>2, <3>4
    <3> QED BY <3>1, <3>3, <3>5
  <2>2. CASE id \notin {x, y}
    <3>1. id \in DOMAIN pairCache' <=> id \in DOMAIN pairCache
      BY <1>11, <1>19, <2>2
    <3>2. id \in Range(u) <=> id \in Range(spread)
      BY <1>41, <2>2
    <3>3. \A j \in DOMAIN call.cmp : j > Done /\ Reads(j, id) => j > Done + 1
      BY <1>4, <1>8, <1>13, <2>2
    <3>4. \A j \in DOMAIN call.cmp : j > Done + 1 => j > Done
      BY <1>8
    <3> QED BY <1>31, <3>1, <3>2, <3>3, <3>4
  <2> QED BY <2>1, <2>2
<1>44. SpreadInv'
  <2>1. \A j, id : Reads(j, id)' <=> Reads(j, id)
    BY <1>1 DEF Reads, PairId
  <2>2. DOMAIN pairCache' =
          {id \in Range(u) : \E j \in DOMAIN call.cmp : j > Done + 1 /\ Reads(j, id)}
    BY <1>43
  <2>3. IsInjective(spread')
    BY <1>39, <1>40
  <2>4. Range(spread)' = Range(u)
    BY <1>40
  <2> QED BY <1>1, <1>27, <1>40, <1>42, <2>1, <2>2, <2>3, <2>4 DEF SpreadInv
(* The rest. *)
<1>45. SessionType'
  <2>1. /\ spread' \in Seq(Range(spread')) /\ columns' \in Seq(Range(columns'))
        /\ Done' <= Len(call'.cmp)
    BY <1>1, <1>3, <1>4, <1>8, <1>24, <1>26, <1>27, <1>39, <1>40
  <2> QED BY <1>1, <1>2, <2>1 DEF SessionType
<1>46. DrawnInv'
  BY <1>1, <1>2, DrawnRests
<1>47. WorkInv'
  <2>1. PICK z \in 0 .. 2 : z = 0
    OBVIOUS
  <2>2. Left(call, Done, z, work)' /\ work' \in Seq(Range(work'))
    BY <1>1, <1>3, <1>5, <1>27, <2>1
  <2>3. Ahead(z)'
    BY <1>1, <2>1, <2>2 DEF Ahead
  <2> QED BY <1>1, <2>2, <2>3 DEF WorkInv
<1> QED BY <1>30, <1>44, <1>45, <1>46, <1>47 DEF SessionInv
-----------------------------------------------------------------------------
(* The beginning. *)
LEMMA OpenHolds ==
  ASSUME NEW c, SessionAdmitted(c), Open(c)
  PROVE  SessionInv
<1>1. /\ call = c /\ termCache = [side \in Sides |-> <<>>] /\ problems = <<>>
      /\ recCache = <<>> /\ pairCache = <<>> /\ columns = <<>> /\ drawn = <<>> /\ spread = <<>>
      /\ session = IF c.passes = <<>> THEN "compare" ELSE "keys"
      /\ work = IF c.passes = <<>> THEN CompareWork(c) ELSE KeyWork(c)
  BY DEF Open
<1>2. DOMAIN drawn = {} /\ Range(problems) = {} /\ Done = 0
  BY <1>1 DEF Range, Done
<1>3. PICK w : w = CompareWork(c)
  OBVIOUS
<1>4. w \in Seq(Range(w)) /\ Left(c, 0, 0, w) /\ Len(c.cmp) \in Nat
  BY <1>3, ComparisonsLeft
<1>5. KeyWork(c) \in Seq(KeySteps(c))
  BY KeysToMake
<1>6. SessionType
  <2>1. /\ <<>> \in Seq(Range(<<>>)) /\ Done <= Len(c.cmp)
    BY <1>2, <1>4
  <2>2. problems \in Seq(Range(problems)) /\ columns \in Seq(Range(columns))
        /\ spread \in Seq(Range(spread))
    BY <1>1, <2>1
  <2>3. DOMAIN termCache = Sides
    BY <1>1
  <2>4. session \in {"keys", "compare", "done", "stopped"}
    BY <1>1
  <2> QED BY <1>1, <1>2, <2>1, <2>2, <2>3, <2>4 DEF SessionType
<1>7. WorkInv
  <2>1. CASE c.passes = <<>>
    <3>1. session = "compare" /\ work = w
      BY <1>1, <1>3, <2>1
    <3>2. PICK z \in 0 .. 2 : z = 0
      OBVIOUS
    <3>3. Ahead(z)
      BY <1>1, <1>2, <1>4, <3>1, <3>2 DEF Ahead
    <3> QED BY <1>4, <3>1, <3>3 DEF WorkInv
  <2>2. CASE c.passes # <<>>
    <3>1. session = "keys" /\ work \in Seq(KeySteps(call))
      BY <1>1, <1>5, <2>2
    <3> QED BY <1>1, <1>2, <3>1 DEF WorkInv
  <2> QED BY <2>1, <2>2
<1>8. DrawnInv
  <2>1. Told = {} /\ Failed = {}
    BY <1>2 DEF Told, Failed
  <2> QED BY <1>2, <2>1 DEF DrawnInv, DrawnOnce, DrawnKept
<1>9. CacheInv /\ SpreadInv
  BY <1>1, NothingKept
<1> QED BY <1>6, <1>7, <1>8, <1>9 DEF SessionInv

(* The call without a session is admitted. *)
LEMMA NoSessionAdmitted == SessionAdmitted(NoSession)
<1>1. /\ NoSession.dedupe = FALSE /\ NoSession.passes = <<>> /\ NoSession.cmp = <<>>
      /\ NoSession.given = <<>>
  BY DEF NoSession
<1>2. <<>> \in Seq(Range(<<>>)) /\ DOMAIN <<>> = {}
  OBVIOUS
<1> QED BY <1>1, <1>2 DEF SessionAdmitted
-----------------------------------------------------------------------------
(* Of every linkage the sessions keep their invariant: a session is opened *)
(* once, and nothing but its own steps (SessionNext) touches what it keeps. *)
THEOREM Invariance == LinkageSpec => []SessionInv
<1>1. ASSUME LinkageInit PROVE SessionInv
  <2>1. ASSUME NEW c \in Sessions, Open(c) PROVE SessionInv
    <3>1. SessionAdmitted(c)
      BY SessionAssumption
    <3> QED BY <2>1, <3>1, OpenHolds
  <2>2. ASSUME Open(NoSession) PROVE SessionInv
    BY <2>2, NoSessionAdmitted, OpenHolds
  <2>3. (\E c \in Sessions : Open(c)) \/ Open(NoSession)
    BY <1>1 DEF LinkageInit
  <2> QED BY <2>1, <2>2, <2>3
<1>2. ASSUME SessionInv, [LinkageNext]_recordVars PROVE SessionInv'
  <2>1. CASE SessionNext
    <3>1. CASE CachedTerm
      BY <1>2, <3>1, CachedTermKeeps
    <3>2. CASE PassKey
      BY <1>2, <3>2, PassKeyKeeps
    <3>3. CASE KeysFailed
      BY <1>2, <3>3, StopKeeps DEF KeysFailed
    <3>4. CASE FindPairs
      BY <1>2, <3>4, FindPairsKeeps
    <3>5. CASE RecordTerm
      BY <1>2, <3>5, RecordTermKeeps
    <3>6. CASE CompareFailed
      BY <1>2, <3>6, StopKeeps DEF CompareFailed
    <3>7. CASE Compare
      BY <1>2, <3>7, CompareKeeps
    <3>8. CASE CompareDone
      BY <1>2, <3>8, CompareDoneKeeps
    <3>9. CASE KeyRefused
      BY <1>2, <3>9, StopKeeps DEF KeyRefused
    <3>10. CASE ScoreRefused
      BY <1>2, <3>10, StopKeeps DEF ScoreRefused
    <3> QED BY <2>1, <3>1, <3>2, <3>3, <3>4, <3>5, <3>6, <3>7, <3>8, <3>9, <3>10 DEF SessionNext
  <2>2. CASE UNCHANGED sessionVars
    BY <1>2, <2>2, Rests
  <2>3. SessionNext \/ UNCHANGED sessionVars
    BY <1>2 DEF LinkageNext, Link, recordVars
  <2> QED BY <2>1, <2>2, <2>3
<1> QED BY <1>1, <1>2, PTL DEF LinkageSpec

(* Every score column is made of its comparator's own two terms, nothing   *)
(* is evaluated or spread twice, no copy outlives the comparator that      *)
(* reads it last, and no call with a failure gives a result.               *)
THEOREM SessionsExact == LinkageSpec => []SessionExact
<1>1. ASSUME SessionInv PROVE SessionExact
  <2>1. ScoresOwnTerms
    BY <1>1 DEF SessionInv, CacheInv
  <2>2. /\ \A at \in DOMAIN drawn : (at[1] = "keys" \/ Bad \notin Range(drawn[at])) => Len(drawn[at]) = 1
        /\ {<<Data(m[1]), m[2]>> : m \in Range(problems)}
             = {<<at[2], at[3]>> : at \in {a \in DOMAIN drawn : Bad \in Range(drawn[a])}}
    BY <1>1 DEF SessionInv, DrawnInv, DrawnOnce, Told, Failed
  <2>3. IsInjective(spread)
    BY <1>1 DEF SessionInv, SpreadInv
  <2>4. DOMAIN pairCache =
          {id \in Range(spread) : \E i \in DOMAIN call.cmp :
                                    i > Len(columns) /\ id \in {PairId(i, 1), PairId(i, 2)}}
    BY <1>1 DEF SessionInv, SpreadInv, Done, Reads
  <2>5. session = "done" => problems = <<>>
    BY <1>1 DEF SessionInv, WorkInv
  <2> QED BY <2>1, <2>2, <2>3, <2>4, <2>5 DEF SessionExact, CachesTight
<1> QED BY <1>1, Invariance, PTL
-----------------------------------------------------------------------------
(* The patterns of the first rows lv[1 .. Len(ix)]: d of them, cs[1 .. d], *)
(* all different; ix has each row's pattern, ct the rows of each.          *)
Different(cs, d) == \A p, o \in 1 .. d : cs[p] = cs[o] => p = o
Placed(lv, ix, cs) == \A r \in DOMAIN ix : cs[ix[r]] = lv[r]
RowsOf(ix, p) == {r \in DOMAIN ix : ix[r] = p}
Tallied(ix, d, ct) == \A p \in 1 .. d : ct[p] = Cardinality(RowsOf(ix, p))
Patterns(lv, ix, d, cs, ct) ==
  /\ d \in Nat /\ ix \in Seq(1 .. d) /\ ct \in Seq(Nat) /\ Len(ct) = d
  /\ Different(cs, d) /\ Placed(lv, ix, cs) /\ Tallied(ix, d, ct)

Agree(cs, cs2, d) == \A p \in 1 .. d : cs2[p] = cs[p]
Lacks(cs, d, x) == \A p \in 1 .. d : cs[p] # x

(* t is s with x behind. *)
Behind(s, x, t) ==
  /\ Len(t) = Len(s) + 1 /\ DOMAIN s = 1 .. Len(s) /\ DOMAIN t = 1 .. Len(s) + 1
  /\ t[Len(s) + 1] = x /\ \A k \in 1 .. Len(s) : t[k] = s[k]

(* What appending gives. *)
LEMMA AppendGives ==
  ASSUME NEW S, NEW s \in Seq(S), NEW x \in S
  PROVE  Append(s, x) \in Seq(S) /\ Behind(s, x, Append(s, x))
BY DEF Behind

(* The rows of a pattern when one more row is in, of pattern b. *)
LEMMA RowsGrow ==
  ASSUME NEW d \in Nat, NEW ix \in Seq(1 .. d), NEW b, NEW i, Behind(ix, b, i), NEW p \in Nat
  PROVE  /\ p # b => RowsOf(i, p) = RowsOf(ix, p)
         /\ p = b => Cardinality(RowsOf(i, p)) = Cardinality(RowsOf(ix, p)) + 1
<1>1. PICK n \in Nat : n = Len(ix) /\ DOMAIN ix = 1 .. n
  OBVIOUS
<1>2. DOMAIN i = 1 .. n + 1 /\ i[n + 1] = b /\ \A r \in 1 .. n : i[r] = ix[r]
  BY <1>1 DEF Behind
<1>3. ASSUME p # b PROVE RowsOf(i, p) = RowsOf(ix, p)
  BY <1>1, <1>2, <1>3 DEF RowsOf
<1>4. ASSUME p = b PROVE Cardinality(RowsOf(i, p)) = Cardinality(RowsOf(ix, p)) + 1
  <2>1. PICK T : T = RowsOf(ix, p)
    OBVIOUS
  <2>2. RowsOf(i, p) = T \cup {n + 1}
    BY <1>1, <1>2, <1>4, <2>1 DEF RowsOf
  <2>3. IsFiniteSet(1 .. n)
    <3>1. n \in Int /\ 1 \in Int
      OBVIOUS
    <3> QED BY <3>1, FS_Interval
  <2>4. T \subseteq 1 .. n /\ n + 1 \notin T
    BY <1>1, <2>1 DEF RowsOf
  <2>5. IsFiniteSet(T)
    BY <2>3, <2>4, FS_Subset
  <2>6. Cardinality(T \cup {n + 1}) = Cardinality(T) + 1
    BY <2>4, <2>5, FS_AddElement
  <2> QED BY <2>1, <2>2, <2>6
<1> QED BY <1>3, <1>4

(* A pattern not seen yet has no rows. *)
LEMMA NoRowsYet ==
  ASSUME NEW d \in Nat, NEW ix \in Seq(1 .. d)
  PROVE  Cardinality(RowsOf(ix, d + 1)) = 0
<1>1. RowsOf(ix, d + 1) = {}
  <2>1. \A r \in DOMAIN ix : ix[r] \in 1 .. d
    OBVIOUS
  <2> QED BY <2>1 DEF RowsOf
<1> QED BY <1>1, FS_EmptySet

(* A row's pattern stays that of its levels when the patterns grow.        *)
LEMMA PlacedStep ==
  ASSUME NEW lv, NEW d \in Nat, NEW ix \in Seq(1 .. d), NEW cs, Placed(lv, ix, cs),
         NEW cs2, Agree(cs, cs2, d), NEW b, cs2[b] = lv[Len(ix) + 1], NEW i, Behind(ix, b, i)
  PROVE  Placed(lv, i, cs2)
<1>1. PICK n \in Nat : n = Len(ix) /\ DOMAIN ix = 1 .. n
  OBVIOUS
<1>2. DOMAIN i = 1 .. n + 1 /\ i[n + 1] = b /\ \A r \in 1 .. n : i[r] = ix[r]
  BY <1>1 DEF Behind
<1>3. ASSUME NEW r \in 1 .. n PROVE cs2[i[r]] = lv[r]
  <2>1. ix[r] \in 1 .. d /\ i[r] = ix[r]
    BY <1>1, <1>2
  <2>2. cs[ix[r]] = lv[r]
    BY <1>1 DEF Placed
  <2>3. cs2[ix[r]] = cs[ix[r]]
    BY <2>1 DEF Agree
  <2> QED BY <2>1, <2>2, <2>3
<1>4. ASSUME NEW r \in 1 .. n + 1 PROVE cs2[i[r]] = lv[r]
  <2>1. r \in 1 .. n \/ r = n + 1
    OBVIOUS
  <2> QED BY <1>1, <1>2, <1>3, <2>1
<1> QED BY <1>2, <1>4 DEF Placed

(* A row whose codes are new is a pattern more. *)
LEMMA NewPattern ==
  ASSUME NEW lv, NEW ix, NEW d, NEW cs, NEW ct, Patterns(lv, ix, d, cs, ct),
         NEW cs2, Agree(cs, cs2, d), Lacks(cs, d, lv[Len(ix) + 1]), cs2[d + 1] = lv[Len(ix) + 1]
  PROVE  Patterns(lv, Append(ix, d + 1), d + 1, cs2, Append(ct, 1))
<1>1. /\ d \in Nat /\ ix \in Seq(1 .. d) /\ ct \in Seq(Nat) /\ Len(ct) = d
      /\ Different(cs, d) /\ Placed(lv, ix, cs) /\ Tallied(ix, d, ct)
  BY DEF Patterns
<1>2. PICK i \in Seq(1 .. d + 1) : i = Append(ix, d + 1) /\ Behind(ix, d + 1, i)
  <2>1. PICK S : S = 1 .. d + 1
    OBVIOUS
  <2>2. ix \in Seq(S) /\ d + 1 \in S
    <3>1. 1 .. d \subseteq S /\ d + 1 \in S
      BY <1>1, <2>1
    <3> QED BY <1>1, <3>1
  <2> QED BY <2>1, <2>2, AppendGives
<1>3. PICK t \in Seq(Nat) : t = Append(ct, 1) /\ Behind(ct, 1, t)
  <2>1. 1 \in Nat
    OBVIOUS
  <2> QED BY <1>1, <2>1, AppendGives
<1>4. d + 1 \in Nat /\ Len(t) = d + 1 /\ t[d + 1] = 1 /\ \A p \in 1 .. d : t[p] = ct[p]
  BY <1>1, <1>3 DEF Behind
<1>5. Different(cs2, d + 1)
  <2>1. ASSUME NEW p \in 1 .. d + 1, NEW o \in 1 .. d + 1, cs2[p] = cs2[o] PROVE p = o
    <3>1. (p \in 1 .. d \/ p = d + 1) /\ (o \in 1 .. d \/ o = d + 1)
      BY <1>1
    <3>2. \A e \in 1 .. d : cs2[e] # cs2[d + 1] /\ cs2[e] = cs[e]
      BY DEF Agree, Lacks
    <3> QED BY <1>1, <2>1, <3>1, <3>2 DEF Different
  <2> QED BY <2>1 DEF Different
<1>6. Placed(lv, i, cs2)
  BY <1>1, <1>2, PlacedStep
<1>7. Tallied(i, d + 1, t)
  <2>1. ASSUME NEW p \in 1 .. d + 1 PROVE t[p] = Cardinality(RowsOf(i, p))
    <3>1. p \in Nat /\ (p = d + 1 \/ (p # d + 1 /\ p \in 1 .. d))
      BY <1>1
    <3>2. CASE p = d + 1
      <4>1. Cardinality(RowsOf(i, p)) = Cardinality(RowsOf(ix, p)) + 1
        BY <1>1, <1>2, <3>1, <3>2, RowsGrow
      <4>2. Cardinality(RowsOf(ix, p)) = 0
        BY <1>1, <3>2, NoRowsYet
      <4> QED BY <1>4, <3>2, <4>1, <4>2
    <3>3. CASE p # d + 1 /\ p \in 1 .. d
      <4>1. RowsOf(i, p) = RowsOf(ix, p)
        BY <1>1, <1>2, <3>1, <3>3, RowsGrow
      <4>2. ct[p] = Cardinality(RowsOf(ix, p))
        BY <1>1, <3>3 DEF Tallied
      <4> QED BY <1>4, <3>3, <4>1, <4>2
    <3> QED BY <3>1, <3>2, <3>3
  <2> QED BY <2>1 DEF Tallied
<1> QED BY <1>2, <1>3, <1>4, <1>5, <1>6, <1>7 DEF Patterns

(* A row whose codes are known is counted with its pattern. *)
LEMMA KnownPattern ==
  ASSUME NEW lv, NEW ix, NEW d, NEW cs, NEW ct, Patterns(lv, ix, d, cs, ct),
         NEW cs2, Agree(cs, cs2, d), NEW b \in 1 .. d, cs[b] = lv[Len(ix) + 1]
  PROVE  Patterns(lv, Append(ix, b), d, cs2, [ct EXCEPT ![b] = @ + 1])
<1>1. /\ d \in Nat /\ ix \in Seq(1 .. d) /\ ct \in Seq(Nat) /\ Len(ct) = d
      /\ Different(cs, d) /\ Placed(lv, ix, cs) /\ Tallied(ix, d, ct)
  BY DEF Patterns
<1>2. PICK i \in Seq(1 .. d) : i = Append(ix, b) /\ Behind(ix, b, i)
  BY <1>1, AppendGives
<1>3. PICK t : t = [ct EXCEPT ![b] = @ + 1]
  OBVIOUS
<1>4. /\ t \in Seq(Nat) /\ Len(t) = d /\ t[b] = ct[b] + 1 /\ \A p \in 1 .. d : p # b => t[p] = ct[p]
  BY <1>1, <1>3
<1>5. Different(cs2, d)
  BY <1>1 DEF Different, Agree
<1>6. Placed(lv, i, cs2)
  <2>1. cs2[b] = lv[Len(ix) + 1]
    BY DEF Agree
  <2> QED BY <1>1, <1>2, <2>1, PlacedStep
<1>7. Tallied(i, d, t)
  <2>1. ASSUME NEW p \in 1 .. d PROVE t[p] = Cardinality(RowsOf(i, p))
    <3>1. p \in Nat /\ ct[p] = Cardinality(RowsOf(ix, p))
      BY <1>1 DEF Tallied
    <3>2. CASE p = b
      <4>1. Cardinality(RowsOf(i, p)) = Cardinality(RowsOf(ix, p)) + 1
        BY <1>1, <1>2, <3>1, <3>2, RowsGrow
      <4> QED BY <1>4, <3>1, <3>2, <4>1
    <3>3. CASE p # b
      <4>1. RowsOf(i, p) = RowsOf(ix, p)
        BY <1>1, <1>2, <3>1, <3>3, RowsGrow
      <4> QED BY <1>4, <3>1, <3>3, <4>1
    <3> QED BY <3>2, <3>3
  <2> QED BY <2>1 DEF Tallied
<1>8. Patterns(lv, i, d, cs2, t)
  BY <1>1, <1>4, <1>5, <1>6, <1>7 DEF Patterns
<1> QED BY <1>2, <1>3, <1>8

(* The patterns the model has. *)
CollapseInv ==
  /\ Patterns(input.levels, index, distinct, codes, counts)
  /\ seen = 1 .. distinct
  /\ codes \in Seq(Range(codes)) /\ Len(codes) >= distinct

(* One more row is collapsed. *)
LEMMA CollapseKeeps ==
  ASSUME CollapseInv, Model!CollapseRow
  PROVE  CollapseInv'
<1>1. PICK row : row = input.levels[Len(index) + 1]
  OBVIOUS
<1>2. PICK table : table = SubSeq(codes, 1, distinct) \o <<row>>
  OBVIOUS
<1>3. /\ table \in Seq(Range(table)) /\ Len(table) = distinct + 1
      /\ table[distinct + 1] = row /\ \A p \in 1 .. distinct : table[p] = codes[p]
  <2>1. distinct \in Nat /\ codes \in Seq(Range(codes)) /\ Len(codes) >= distinct
    BY DEF CollapseInv, Patterns
  <2>2. PICK S : S = Range(codes) \cup {row}
    OBVIOUS
  <2>3. codes \in Seq(S) /\ row \in S
    BY <2>1, <2>2
  <2>4. table \in Seq(S)
    BY <1>2, <2>1, <2>3
  <2>5. table \in Seq(Range(table))
    BY <2>4, OfItsRange
  <2> QED BY <1>2, <2>1, <2>3, <2>5
<1>4. /\ codes' = table /\ input' = input
      /\ \/ /\ {b \in seen : table[b] = table[distinct + 1]} = {}
            /\ seen' = seen \cup {distinct + 1} /\ counts' = Append(counts, 1)
            /\ index' = Append(index, distinct + 1) /\ distinct' = distinct + 1
         \/ \E b \in {b \in seen : table[b] = table[distinct + 1]} :
              /\ counts' = [counts EXCEPT ![b] = @ + 1] /\ index' = Append(index, b)
              /\ seen' = seen /\ distinct' = distinct
  BY <1>1, <1>2 DEF Model!CollapseRow, Model!Slot, Model!WithCandidate, Model!SameCodes
<1>5. Patterns(input.levels, index, distinct, codes, counts) /\ seen = 1 .. distinct
      /\ distinct \in Nat
  BY DEF CollapseInv, Patterns
<1>6. Agree(codes, table, distinct)
  BY <1>3 DEF Agree
<1>7. CASE /\ {b \in seen : table[b] = table[distinct + 1]} = {}
           /\ seen' = seen \cup {distinct + 1} /\ counts' = Append(counts, 1)
           /\ index' = Append(index, distinct + 1) /\ distinct' = distinct + 1
  <2>1. Lacks(codes, distinct, row)
    BY <1>3, <1>5, <1>7 DEF Lacks
  <2>2. Patterns(input.levels, Append(index, distinct + 1), distinct + 1, table, Append(counts, 1))
    BY <1>1, <1>3, <1>5, <1>6, <2>1, NewPattern
  <2>3. 1 .. distinct + 1 = (1 .. distinct) \cup {distinct + 1} /\ Len(table) >= distinct + 1
    BY <1>3, <1>5
  <2> QED BY <1>3, <1>4, <1>5, <1>7, <2>2, <2>3 DEF CollapseInv, Range
<1>8. CASE \E b \in {b \in seen : table[b] = table[distinct + 1]} :
              /\ counts' = [counts EXCEPT ![b] = @ + 1] /\ index' = Append(index, b)
              /\ seen' = seen /\ distinct' = distinct
  <2>1. PICK b \in 1 .. distinct :
          /\ table[b] = table[distinct + 1]
          /\ counts' = [counts EXCEPT ![b] = @ + 1] /\ index' = Append(index, b)
    BY <1>5, <1>8
  <2>2. codes[b] = row /\ seen' = seen /\ distinct' = distinct
    BY <1>3, <1>8, <2>1
  <2>3. Patterns(input.levels, Append(index, b), distinct, table, [counts EXCEPT ![b] = @ + 1])
    BY <1>1, <1>5, <1>6, <2>2, KnownPattern
  <2>4. Len(table) >= distinct
    BY <1>3, <1>5
  <2> QED BY <1>3, <1>4, <1>5, <2>1, <2>2, <2>3, <2>4 DEF CollapseInv, Range
<1> QED BY <1>4, <1>7, <1>8
-----------------------------------------------------------------------------
(* The weight of a row: that of its levels, if the model knows them all. *)
InModel(pattern) == \A k \in DOMAIN Levels : pattern[k] = NA \/ pattern[k] \in 0 .. Levels[k] - 1
Weigh(pattern) == IF Model!OutOfModel(pattern) THEN NA ELSE Model!PatternWeight(point, pattern)

(* The comparisons added up one after the other. *)
AddsUp(p, pattern, f) ==
  f = [k \in 0 .. Len(Levels) |->
         IF k = 0 THEN 0 ELSE f[k - 1] + IF pattern[k] = NA THEN 0 ELSE LevelWeight(p, k, pattern[k])]

(* The weight of a pattern that is in the model is a number. *)
LEMMA PatternWeighs ==
  ASSUME NEW p \in Points, NEW pattern, InModel(pattern)
  PROVE  Model!PatternWeight(p, pattern) \in Int
<1>1. PICK n \in Nat : n = Len(Levels) /\ DOMAIN Levels = 1 .. n
  BY ModelAssumption
<1> DEFINE Gain(k) == IF pattern[k] = NA THEN 0 ELSE LevelWeight(p, k, pattern[k])
           step == [k \in 1 .. n |-> [x \in Int |-> x + Gain(k)]]
<1>2. ASSUME NEW k \in 1 .. n PROVE Gain(k) \in Int
  <2>1. pattern[k] = NA \/ pattern[k] \in 0 .. Levels[k] - 1
    BY <1>1 DEF InModel
  <2>2. \A l \in 0 .. Levels[k] - 1 : LevelWeight(p, k, l) \in Int
    BY <1>1, ModelAssumption
  <2> QED BY <2>1, <2>2
<1>3. \A k \in 1 .. n : \A x \in Int : step[k][x] = x + Gain(k) /\ step[k][x] \in Int
  BY <1>2
<1> HIDE DEF step
<1>4. PICK f \in [0 .. n -> Int] : Follows(f, n, 0, step)
  <2>1. \A k \in 1 .. n : \A x \in Int : step[k][x] \in Int
    BY <1>3
  <2>2. 0 \in Int
    OBVIOUS
  <2> QED BY <2>1, <2>2, RecursionExists
<1>5. f[0] = 0 /\ \A k \in 1 .. n : f[k] = f[k - 1] + Gain(k)
  <2>1. \A k \in 1 .. n : f[k - 1] \in Int
    OBVIOUS
  <2> QED BY <1>3, <1>4, <2>1 DEF Follows
<1>6. AddsUp(p, pattern, f)
  <2>1. \A k \in 0 .. n : k = 0 \/ k \in 1 .. n
    OBVIOUS
  <2> QED BY <1>1, <1>5, <2>1 DEF AddsUp
<1>7. PICK g : AddsUp(p, pattern, g) /\ Model!PatternWeight(p, pattern) = g[n]
  <2>1. AddsUp(p, pattern, CHOOSE g : AddsUp(p, pattern, g))
    BY <1>6
  <2>2. Model!PatternWeight(p, pattern) = (CHOOSE g : AddsUp(p, pattern, g))[n]
    BY <1>1 DEF Model!PatternWeight, AddsUp
  <2> QED BY <2>1, <2>2
<1>8. g[0] = 0 /\ \A k \in 1 .. n : g[k] = g[k - 1] + Gain(k)
  BY <1>1, <1>7 DEF AddsUp
<1> HIDE DEF Gain
<1>9. \A k \in Nat : k \in {i \in Nat : i <= n => g[i] \in Int}
  <2> DEFINE T == {i \in Nat : i <= n => g[i] \in Int}
  <2>1. 0 \in T
    BY <1>8
  <2>2. ASSUME NEW i \in Nat, i \in T PROVE i + 1 \in T
    <3>1. PICK k \in Nat : k = i + 1 /\ k - 1 = i
      OBVIOUS
    <3>2. k \in 1 .. n => g[k] \in Int
      BY <1>2, <1>8, <2>2, <3>1
    <3> QED BY <3>1, <3>2
  <2> HIDE DEF T
  <2>3. \A i \in Nat : i \in T
    BY <2>1, <2>2, SetInduction
  <2> QED BY <2>3 DEF T
<1> QED BY <1>7, <1>9

(* So the weight of a row of an admitted input is a number or it is missing. *)
LEMMA RowWeighs ==
  ASSUME point \in Points, NEW pattern, \A k \in DOMAIN Levels : pattern[k] \in {NA} \cup Nat
  PROVE  /\ Weigh(pattern) # NA => Weigh(pattern) \in Int
         /\ Weigh(pattern) = IF \E k \in DOMAIN Levels : pattern[k] # NA /\ pattern[k] >= Levels[k]
                             THEN NA ELSE Model!PatternWeight(point, pattern)
<1>1. Model!OutOfModel(pattern) \/ InModel(pattern)
  BY DEF Model!OutOfModel, Model!Width, InModel
<1>2. \A k \in DOMAIN Levels : Levels[k] \in Nat
  BY ModelAssumption
<1>3. Model!OutOfModel(pattern) <=> \E k \in DOMAIN Levels : pattern[k] # NA /\ pattern[k] >= Levels[k]
  <2>1. ASSUME NEW k \in DOMAIN Levels
        PROVE  pattern[k] # NA => (pattern[k] \notin 0 .. Levels[k] - 1 <=> pattern[k] >= Levels[k])
    BY <1>2
  <2> QED BY <2>1 DEF Model!OutOfModel, Model!Width
<1>4. InModel(pattern) => Model!PatternWeight(point, pattern) \in Int
  BY PatternWeighs
<1> QED BY <1>1, <1>3, <1>4 DEF Weigh
-----------------------------------------------------------------------------
(* The rows of s are still to come, in the order R has them. *)
Queue(s, R) ==
  /\ s \in Seq(Range(s))
  /\ \A k, l \in 1 .. Len(s) : k < l => <<s[k], s[l]>> \in R

(* A listing of rows is a queue of them all. *)
LEMMA ListingQueues ==
  ASSUME NEW S, NEW R, NEW s, Listing(S, R, s)
  PROVE  Queue(s, R) /\ Range(s) = S
<1>1. PICK n \in Nat : n = Cardinality(S)
  BY DEF Listing
<1>2. /\ s \in [1 .. n -> S]
      /\ \A k, l \in 1 .. n : k < l => <<s[k], s[l]>> \in R
      /\ \A e \in S : \E k \in 1 .. n : s[k] = e
  BY <1>1 DEF Listing
<1>3. s \in Seq(S) /\ Len(s) = n
  BY <1>2
<1>4. Range(s) = S
  BY <1>2 DEF Range
<1> QED BY <1>2, <1>3, <1>4 DEF Queue

(* The first of a queue is taken off. *)
LEMMA QueueMoves ==
  ASSUME NEW R, NEW s, Queue(s, R), s # <<>>, \A r \in Range(s) : <<r, r>> \notin R
  PROVE  /\ Queue(Tail(s), R)
         /\ Head(s) \in Range(s)
         /\ Range(Tail(s)) = Range(s) \ {Head(s)}
         /\ \A r \in Range(Tail(s)) : <<Head(s), r>> \in R
<1>1. PICK n \in Nat : n = Len(s) /\ DOMAIN s = 1 .. n /\ 1 \in 1 .. n
  BY DEF Queue
<1>2. PICK t : t = Tail(s)
  OBVIOUS
<1>3. Len(t) = n - 1 /\ DOMAIN t = 1 .. n - 1 /\ \A k \in 1 .. n - 1 : t[k] = s[k + 1]
  BY <1>1, <1>2 DEF Queue
<1>4. t \in Seq(Range(s)) /\ Head(s) = s[1]
  BY <1>1, <1>2 DEF Queue
<1>5. \A k \in 1 .. n - 1 : k + 1 \in 1 .. n /\ 1 < k + 1
  OBVIOUS
<1>6. \A k, l \in 1 .. n : k < l => <<s[k], s[l]>> \in R
  BY <1>1 DEF Queue
<1>7. \A k, l \in 1 .. n - 1 : k < l => <<t[k], t[l]>> \in R
  <2>1. ASSUME NEW k \in 1 .. n - 1, NEW l \in 1 .. n - 1, k < l PROVE <<t[k], t[l]>> \in R
    <3>1. PICK c \in 1 .. n, d \in 1 .. n : c = k + 1 /\ d = l + 1 /\ c < d
      BY <1>5, <2>1
    <3> QED BY <1>3, <1>6, <3>1
  <2> QED BY <2>1
<1>8. \A k \in 1 .. n - 1 : <<s[1], t[k]>> \in R
  BY <1>1, <1>3, <1>5, <1>6
<1>9. Range(t) = {t[k] : k \in 1 .. n - 1} /\ Range(s) = {s[k] : k \in 1 .. n}
  BY <1>1, <1>3 DEF Range
<1>10. Range(t) = Range(s) \ {s[1]}
  <2>1. \A k \in 1 .. n : k = 1 \/ \E l \in 1 .. n - 1 : k = l + 1
    <3>1. \A k \in 1 .. n : k # 1 => k - 1 \in 1 .. n - 1 /\ k = (k - 1) + 1
      OBVIOUS
    <3> QED BY <3>1
  <2>2. \A k \in 1 .. n - 1 : t[k] \in Range(s) /\ t[k] # s[1]
    BY <1>1, <1>3, <1>5, <1>8, <1>9
  <2>3. \A k \in 1 .. n : s[k] = s[1] \/ s[k] \in Range(t)
    BY <1>3, <1>9, <2>1
  <2> QED BY <1>9, <2>2, <2>3
<1>11. t \in Seq(Range(t))
  BY <1>4, OfItsRange
<1> QED BY <1>1, <1>2, <1>3, <1>4, <1>7, <1>8, <1>9, <1>10, <1>11 DEF Queue
-----------------------------------------------------------------------------
(* The rows T are linked: each record of the side has been used as often   *)
(* as they have it, and no more often than it may be.                      *)
LinksOf(side, T, a) == {q \in T : side[q] = a}
Uses(side, used, T, most) ==
  /\ DOMAIN used = Range(side)
  /\ \A a \in Range(side) : used[a] = Cardinality(LinksOf(side, T, a)) /\ used[a] \in 0 .. most

(* Rows before r have used up what its record may be used.                 *)
UsedUp(R, side, T, r, most) == Cardinality({q \in T : <<q, r>> \in R /\ side[q] = side[r]}) = most

(* One more row is linked whose record is free. *)
LEMMA UsesGrow ==
  ASSUME NEW side, NEW used, NEW T, NEW most \in Nat, Uses(side, used, T, most), IsFiniteSet(T),
         NEW at \in DOMAIN side, at \notin T, used[side[at]] < most
  PROVE  Uses(side, [used EXCEPT ![side[at]] = @ + 1], T \cup {at}, most)
<1>1. PICK b \in Range(side) : b = side[at]
  BY DEF Range
<1>2. PICK u : u = [used EXCEPT ![b] = @ + 1]
  OBVIOUS
<1>3. DOMAIN u = Range(side) /\ u[b] = used[b] + 1 /\ \A a \in Range(side) : a # b => u[a] = used[a]
  BY <1>1, <1>2 DEF Uses
<1>4. ASSUME NEW a \in Range(side)
      PROVE  u[a] = Cardinality(LinksOf(side, T \cup {at}, a)) /\ u[a] \in 0 .. most
  <2>1. used[a] = Cardinality(LinksOf(side, T, a)) /\ used[a] \in 0 .. most
    BY DEF Uses
  <2>2. CASE a = b
    <3>1. LinksOf(side, T \cup {at}, a) = LinksOf(side, T, a) \cup {at}
      BY <1>1, <2>2 DEF LinksOf
    <3>2. LinksOf(side, T, a) \subseteq T /\ at \notin LinksOf(side, T, a)
      BY DEF LinksOf
    <3>3. IsFiniteSet(LinksOf(side, T, a))
      BY <3>2, FS_Subset
    <3>4. Cardinality(LinksOf(side, T, a) \cup {at}) = Cardinality(LinksOf(side, T, a)) + 1
      BY <3>2, <3>3, FS_AddElement
    <3> QED BY <1>1, <1>3, <2>1, <2>2, <3>1, <3>4
  <2>3. CASE a # b
    <3>1. LinksOf(side, T \cup {at}, a) = LinksOf(side, T, a)
      BY <1>1, <2>3 DEF LinksOf
    <3> QED BY <1>3, <2>1, <2>3, <3>1
  <2> QED BY <2>2, <2>3
<1> QED BY <1>1, <1>2, <1>3, <1>4 DEF Uses

(* A row that comes after all those linked is turned down when its record is used up. *)
LEMMA TurnedDown ==
  ASSUME NEW side, NEW used, NEW T, NEW most \in Nat, Uses(side, used, T, most), NEW R,
         NEW at \in DOMAIN side, \A q \in T : <<q, at>> \in R, ~ (used[side[at]] < most)
  PROVE  UsedUp(R, side, T, at, most)
<1>1. PICK a \in Range(side) : a = side[at]
  BY DEF Range
<1>2. used[a] = Cardinality(LinksOf(side, T, a)) /\ used[a] \in 0 .. most
  BY DEF Uses
<1>3. used[a] = most
  BY <1>1, <1>2
<1>4. LinksOf(side, T, a) = {q \in T : <<q, at>> \in R /\ side[q] = side[at]}
  BY <1>1 DEF LinksOf
<1> QED BY <1>2, <1>3, <1>4 DEF UsedUp

(* A row turned down before stays so. *)
LEMMA StaysDown ==
  ASSUME NEW side, NEW T, NEW most, NEW R, NEW r, UsedUp(R, side, T, r, most),
         NEW U, NEW at, <<at, r>> \notin R, U = T \/ U = T \cup {at}
  PROVE  UsedUp(R, side, U, r, most)
<1>1. {q \in U : <<q, r>> \in R /\ side[q] = side[r]} = {q \in T : <<q, r>> \in R /\ side[q] = side[r]}
  OBVIOUS
<1> QED BY <1>1 DEF UsedUp

(* Of the rows K in the order R those of s are still to come: the others   *)
(* are linked or, their allowance being used up by earlier links, turned   *)
(* down.                                                                   *)
LinkedRows(in, o) == {r \in DOMAIN in.levels : o[r] = TRUE}
Answered(in, K, o) ==
  /\ o \in [DOMAIN in.levels -> BOOLEAN \cup {NA}]
  /\ \A r \in DOMAIN in.levels : o[r] = NA <=> r \notin K
Refused(in, R, T, r) == UsedUp(R, in.i, T, r, in.n) \/ UsedUp(R, in.j, T, r, in.m)
RefusedOnly(in, R, P, o) == \A r \in P : o[r] = FALSE => Refused(in, R, LinkedRows(in, o), r)
Precede(P, Q, R) == \A q \in P, r \in Q : <<q, r>> \in R
Sifted(in, K, R, s, uI, uJ, o) ==
  /\ Queue(s, R) /\ Range(s) \subseteq K
  /\ Precede(K \ Range(s), Range(s), R)
  /\ Answered(in, K, o)
  /\ LinkedRows(in, o) \subseteq K \ Range(s)
  /\ Uses(in.i, uI, LinkedRows(in, o), in.n) /\ Uses(in.j, uJ, LinkedRows(in, o), in.m)
  /\ RefusedOnly(in, R, K \ Range(s), o)

(* The rows of an input. *)
LEMMA RowsCount ==
  ASSUME NEW in, Model!Admitted(in)
  PROVE  /\ DOMAIN in.levels = 1 .. Len(in.levels) /\ Len(in.levels) \in Nat
         /\ IsFiniteSet(DOMAIN in.levels)
         /\ DOMAIN in.i = DOMAIN in.levels /\ DOMAIN in.j = DOMAIN in.levels
         /\ in.n \in Nat \ {0} /\ in.m \in Nat \ {0}
<1>1. in.levels \in Seq(Range(in.levels))
  BY DEF Model!Admitted, Model!Range, Range
<1>2. PICK n \in Nat : n = Len(in.levels) /\ DOMAIN in.levels = 1 .. n
  BY <1>1
<1>3. IsFiniteSet(1 .. n)
  <2>1. n \in Int /\ 1 \in Int
    OBVIOUS
  <2> QED BY <2>1, FS_Interval
<1> QED BY <1>2, <1>3 DEF Model!Admitted, Model!OptionAdmitted

(* What linking the row at hand makes of the answers. *)
Linking(o, at, p) == p = [o EXCEPT ![at] = TRUE]

(* It is one of those linked, the others stay as they are. *)
LEMMA RowLinked ==
  ASSUME NEW in, NEW K, NEW o, Answered(in, K, o), NEW at \in DOMAIN in.levels, at \in K,
         NEW p, Linking(o, at, p)
  PROVE  Answered(in, K, p) /\ LinkedRows(in, p) = LinkedRows(in, o) \cup {at}
<1>1. PICK N : N = DOMAIN in.levels
  OBVIOUS
<1>2. o \in [N -> BOOLEAN \cup {NA}] /\ \A r \in N : o[r] = NA <=> r \notin K
  BY <1>1 DEF Answered
<1>3. p \in [N -> BOOLEAN \cup {NA}] /\ p[at] = TRUE /\ \A r \in N : r # at => p[r] = o[r]
  BY <1>1, <1>2 DEF Linking
<1>4. TRUE # NA
  BY ModelAssumption
<1>5. ASSUME NEW r \in N PROVE p[r] = NA <=> r \notin K
  <2>1. CASE r = at
    BY <1>3, <1>4, <2>1
  <2>2. CASE r # at
    BY <1>2, <1>3, <2>2
  <2> QED BY <2>1, <2>2
<1>6. LinkedRows(in, p) = LinkedRows(in, o) \cup {at}
  BY <1>1, <1>3 DEF LinkedRows
<1> QED BY <1>1, <1>3, <1>5, <1>6 DEF Answered

(* One more row is offered: linked when both its records are free, else    *)
(* turned down and nothing used.                                           *)
LEMMA RowOffered ==
  ASSUME NEW in, Model!Admitted(in), NEW K \in SUBSET DOMAIN in.levels, NEW R, Orders(K, R),
         NEW s, NEW uI, NEW uJ, NEW o, Sifted(in, K, R, s, uI, uJ, o), s # <<>>,
         NEW at, at = Head(s), NEW take \in BOOLEAN,
         take = (uI[in.i[at]] < in.n /\ uJ[in.j[at]] < in.m)
  PROVE  Sifted(in, K, R, Tail(s),
                IF take THEN [uI EXCEPT ![in.i[at]] = @ + 1] ELSE uI,
                IF take THEN [uJ EXCEPT ![in.j[at]] = @ + 1] ELSE uJ,
                IF take THEN [o EXCEPT ![at] = TRUE] ELSE o)
<1>1. /\ Queue(s, R) /\ Range(s) \subseteq K
      /\ Precede(K \ Range(s), Range(s), R)
      /\ Answered(in, K, o)
      /\ LinkedRows(in, o) \subseteq K \ Range(s)
      /\ Uses(in.i, uI, LinkedRows(in, o), in.n) /\ Uses(in.j, uJ, LinkedRows(in, o), in.m)
      /\ RefusedOnly(in, R, K \ Range(s), o)
  BY DEF Sifted
<1>2. PICK t, T : t = Tail(s) /\ T = LinkedRows(in, o)
  OBVIOUS
<1>3. \A d \in K : <<d, d>> \notin R
  BY DEF Orders
<1>4. /\ Queue(t, R) /\ at \in Range(s) /\ Range(t) = Range(s) \ {at}
      /\ \A r \in Range(t) : <<at, r>> \in R
  <2>1. \A r \in Range(s) : <<r, r>> \notin R
    BY <1>1, <1>3
  <2> QED BY <1>1, <1>2, <2>1, QueueMoves
<1>5. at \in K /\ at \in DOMAIN in.levels /\ K \ Range(t) = (K \ Range(s)) \cup {at}
  BY <1>1, <1>4
<1>6. Precede(K \ Range(t), Range(t), R)
  BY <1>1, <1>4, <1>5 DEF Precede
<1>7. \A r \in K \ Range(s) : <<r, at>> \in R /\ <<at, r>> \notin R
  <2>1. \A r \in K \ Range(s) : <<r, at>> \in R
    BY <1>1, <1>4 DEF Precede
  <2>2. \A r \in K : <<r, at>> \in R /\ <<at, r>> \in R => <<r, r>> \in R
    BY <1>5 DEF Orders
  <2> QED BY <1>3, <2>1, <2>2
<1>8. at \notin T /\ \A q \in T : <<q, at>> \in R
  BY <1>1, <1>2, <1>4, <1>7
<1>9. CASE take
  <2>1. PICK p : p = [o EXCEPT ![at] = TRUE]
    OBVIOUS
  <2>2. Answered(in, K, p) /\ LinkedRows(in, p) = T \cup {at}
    <3>1. Answered(in, K, o) /\ at \in DOMAIN in.levels /\ at \in K
      BY <1>1, <1>5
    <3>2. Answered(in, K, p) /\ LinkedRows(in, p) = LinkedRows(in, o) \cup {at}
      <4>1. Linking(o, at, p)
        BY <2>1 DEF Linking
      <4> QED BY <3>1, <4>1, RowLinked
    <3> QED BY <1>2, <3>2
  <2>3. IsFiniteSet(T)
    <3>1. T \subseteq DOMAIN in.levels
      BY <1>2 DEF LinkedRows
    <3> QED BY <3>1, RowsCount, FS_Subset
  <2>4. Uses(in.i, [uI EXCEPT ![in.i[at]] = @ + 1], T \cup {at}, in.n)
    <3>1. at \in DOMAIN in.i /\ in.n \in Nat /\ uI[in.i[at]] < in.n
      BY <1>5, <1>9, RowsCount
    <3> QED BY <1>1, <1>2, <1>8, <2>3, <3>1, UsesGrow
  <2>5. Uses(in.j, [uJ EXCEPT ![in.j[at]] = @ + 1], T \cup {at}, in.m)
    <3>1. at \in DOMAIN in.j /\ in.m \in Nat /\ uJ[in.j[at]] < in.m
      BY <1>5, <1>9, RowsCount
    <3> QED BY <1>1, <1>2, <1>8, <2>3, <3>1, UsesGrow
  <2>6. RefusedOnly(in, R, K \ Range(t), p)
    <3>1. ASSUME NEW r \in K \ Range(t), p[r] = FALSE PROVE Refused(in, R, T \cup {at}, r)
      <4>1. r # at
        BY <2>1, <3>1, <1>1, <1>5 DEF Answered
      <4>2. r \in K \ Range(s) /\ o[r] = FALSE
        BY <1>1, <1>5, <2>1, <3>1, <4>1 DEF Answered
      <4>3. Refused(in, R, T, r) /\ <<at, r>> \notin R
        BY <1>1, <1>2, <1>7, <4>2 DEF RefusedOnly
      <4> QED BY <4>3, StaysDown DEF Refused
    <3> QED BY <2>2, <3>1 DEF RefusedOnly
  <2>7. LinkedRows(in, p) \subseteq K \ Range(t)
    BY <1>1, <1>2, <1>5, <2>2
  <2> QED BY <1>1, <1>2, <1>4, <1>6, <1>9, <2>1, <2>2, <2>4, <2>5, <2>6, <2>7 DEF Sifted
<1>10. CASE ~ take
  <2>1. Refused(in, R, T, at)
    <3>1. CASE ~ (uI[in.i[at]] < in.n)
      <4>1. at \in DOMAIN in.i /\ in.n \in Nat
        BY <1>5, RowsCount
      <4> QED BY <1>1, <1>2, <1>8, <3>1, <4>1, TurnedDown DEF Refused
    <3>2. CASE ~ (uJ[in.j[at]] < in.m)
      <4>1. at \in DOMAIN in.j /\ in.m \in Nat
        BY <1>5, RowsCount
      <4> QED BY <1>1, <1>2, <1>8, <3>2, <4>1, TurnedDown DEF Refused
    <3> QED BY <1>10, <3>1, <3>2
  <2>2. RefusedOnly(in, R, K \ Range(t), o)
    BY <1>1, <1>2, <1>5, <2>1 DEF RefusedOnly
  <2>3. LinkedRows(in, o) \subseteq K \ Range(t)
    BY <1>1, <1>5
  <2> QED BY <1>1, <1>2, <1>4, <1>6, <1>10, <2>2, <2>3 DEF Sifted
<1> QED BY <1>9, <1>10
-----------------------------------------------------------------------------
(* The pairs of the rows T, each counted at the first row that has it. *)
PairsOf(T) == {Model!Pair(r) : r \in T}
FirstRows(T) == {r \in T : \A q \in T : q < r => Model!Pair(q) # Model!Pair(r)}

(* As many rows are counted as there are pairs, among any pairs Q. *)
LEMMA PairsCounted ==
  ASSUME NEW T \in SUBSET Nat, IsFiniteSet(T), NEW Q
  PROVE  Cardinality({r \in FirstRows(T) : Model!Pair(r) \in Q}) = Cardinality(PairsOf(T) \cap Q)
<1> DEFINE A == {r \in FirstRows(T) : Model!Pair(r) \in Q}
           B == PairsOf(T) \cap Q
           f == [r \in A |-> Model!Pair(r)]
<1>1. A \subseteq T
  BY DEF FirstRows
<1>2. f \in [A -> B]
  BY <1>1 DEF PairsOf
<1>3. ASSUME NEW q \in A, NEW r \in A, f[q] = f[r] PROVE q = r
  <2>1. Model!Pair(q) = Model!Pair(r) /\ q \in Nat /\ r \in Nat /\ q \in T /\ r \in T
    BY <1>1, <1>3
  <2>2. ~ (q < r) /\ ~ (r < q)
    BY <2>1 DEF FirstRows
  <2> QED BY <2>1, <2>2
<1>4. ASSUME NEW t \in B PROVE \E r \in A : f[r] = t
  <2>1. PICK S : S = {r \in T : Model!Pair(r) = t}
    OBVIOUS
  <2>2. S \in SUBSET Nat /\ S # {}
    BY <2>1 DEF PairsOf
  <2>3. PICK r \in S : \A q \in S : r <= q
    BY <2>2, LeastNatural
  <2>4. r \in T /\ Model!Pair(r) = t /\ r \in Nat
    BY <2>1, <2>3
  <2>5. ASSUME NEW q \in T, q < r PROVE Model!Pair(q) # Model!Pair(r)
    <3>1. q \notin S
      BY <2>3, <2>4, <2>5
    <3> QED BY <2>1, <2>4, <3>1
  <2>6. r \in A
    BY <2>4, <2>5 DEF FirstRows
  <2> QED BY <2>4, <2>6
<1> HIDE DEF f
<1>5. f \in Bijection(A, B)
  BY <1>2, <1>3, <1>4 DEF Bijection, Injection, IsInjective, Surjection
<1>6. IsFiniteSet(A)
  BY <1>1, FS_Subset
<1> HIDE DEF A, B
<1>7. Cardinality(A) = Cardinality(B)
  <2>1. ExistsBijection(A, B)
    BY <1>5 DEF ExistsBijection
  <2> QED BY <1>6, <2>1, FS_Bijection
<1> QED BY <1>7 DEF A, B
-----------------------------------------------------------------------------
(* What the model keeps: before its input nothing, then the patterns of    *)
(* the rows collapsed, a point of the parameters, and, once the pairs are  *)
(* weighed, each row's own weight and a selection under way.               *)
Untouched ==
  /\ codes = <<>> /\ distinct = 0 /\ seen = {} /\ counts = <<>> /\ index = <<>>
  /\ iteration = 0 /\ converged = FALSE
Fitted ==
  /\ point \in Points /\ iteration \in 0 .. input.maxIter /\ converged \in BOOLEAN
  /\ converged => Model!Moved(loglikAt, point) < Tolerance
Working ==
  /\ Model!Admitted(input)
  /\ Len(index) <= Len(input.levels)
  /\ modelStep # "collapse" => Len(index) = Len(input.levels)
  /\ Fitted

KnownRows(w) == Model!Known(w)
Ranked(w) == {r \in KnownRows(w) \X KnownRows(w) : Model!Heavier(w, r[1], r[2])}
RowsWeighed(w) == \A r \in DOMAIN input.levels : w[index[r]] = Weigh(input.levels[r])
FitOver == input.use = "fit" => converged \/ iteration = input.maxIter
Selecting ==
  /\ RowsWeighed(weight)
  /\ FitOver
  /\ Sifted(input, KnownRows(weight), Ranked(weight), todo, usedI, usedJ, out)
Compared ==
  LET pairs == PairsOf(LinkedRows(input, out))
  IN  /\ todo = <<>>
      /\ overlap.n = Cardinality(pairs)
      /\ overlap.common = Cardinality(pairs \cap Range(input.truth))

ModelInv ==
  /\ modelStep \in {"waiting", "collapse", "fit", "score", "select", "done", "stopped"}
  /\ CollapseInv
  /\ modelStep = "waiting" => Untouched
  /\ modelStep # "waiting" => Working
  /\ modelStep \in {"fit", "score"} => input.use = modelStep
  /\ modelStep \in {"select", "done"} => Selecting
  /\ modelStep = "done" => Compared

(* The records the pairs are made of. *)
PairsInv == \E m \in Nat : DOMAIN xi = 1 .. m /\ DOMAIN yi = 1 .. m

(* What a step of the model leaves alone. *)
LEMMA CollapseRests ==
  ASSUME CollapseInv, UNCHANGED <<input, codes, distinct, seen, counts, index>>
  PROVE  CollapseInv'
BY DEF CollapseInv

(* The fit stands where it is. *)
LEMMA FittedRests ==
  ASSUME Fitted, UNCHANGED <<input, point, iteration, converged, loglikAt>>
  PROVE  Fitted'
BY DEF Fitted, Model!Moved

(* So do an input collapsed and its fit, in every stage after the collapse. *)
LEMMA WorkingRests ==
  ASSUME Working, UNCHANGED <<input, index, point, iteration, converged, loglikAt>>,
         modelStep' = "collapse" \/ Len(index) = Len(input.levels)
  PROVE  Working'
<1>1. Fitted'
  BY FittedRests DEF Working
<1>2. Model!Admitted(input)'
  BY DEF Working, Model!Admitted, Model!OptionAdmitted, Model!Fitting, Model!Width
<1> QED BY <1>1, <1>2 DEF Working

(* The rows that can be linked, and their order. *)
LEMMA RankedRests ==
  ASSUME UNCHANGED <<input, index, weight>>
  PROVE  KnownRows(weight)' = KnownRows(weight) /\ Ranked(weight)' = Ranked(weight)
<1>1. KnownRows(weight)' = KnownRows(weight)
  BY DEF KnownRows, Model!Known, Model!Rows
<1> QED BY <1>1 DEF Ranked, Model!Heavier

(* The weights of the rows. *)
LEMMA WeighedRests ==
  ASSUME RowsWeighed(weight), UNCHANGED <<input, index, point, weight>>
  PROVE  RowsWeighed(weight)'
<1>1. \A pattern : Weigh(pattern)' = Weigh(pattern)
  BY DEF Weigh, Model!OutOfModel, Model!Width
<1> QED BY <1>1 DEF RowsWeighed

(* Other steps leave the model as it is. *)
LEMMA ModelRests ==
  ASSUME ModelInv, UNCHANGED linkVars
  PROVE  ModelInv'
<1>1. UNCHANGED <<input, modelStep, codes, distinct, seen, counts, index, point, iteration,
                  converged, loglikAt, weight, todo, usedI, usedJ, out, overlap>>
  BY DEF linkVars
<1>2. CollapseInv'
  BY <1>1, CollapseRests DEF ModelInv
<1>3. ASSUME modelStep = "waiting" PROVE Untouched'
  BY <1>1, <1>3 DEF ModelInv, Untouched
<1>4. ASSUME modelStep # "waiting" PROVE Working'
  BY <1>1, <1>4, WorkingRests DEF ModelInv, Working
<1>5. ASSUME modelStep \in {"select", "done"} PROVE Selecting'
  <2>1. KnownRows(weight)' = KnownRows(weight) /\ Ranked(weight)' = Ranked(weight)
    BY <1>1, RankedRests
  <2>2. Selecting
    BY <1>5 DEF ModelInv
  <2>3. RowsWeighed(weight)'
    BY <1>1, <2>2, WeighedRests DEF Selecting
  <2>4. FitOver'
    BY <1>1, <2>2 DEF Selecting, FitOver
  <2> QED BY <1>1, <2>1, <2>2, <2>3, <2>4 DEF Selecting
<1>6. ASSUME modelStep = "done" PROVE Compared'
  BY <1>1, <1>6 DEF ModelInv, Compared, PairsOf, Model!Pair
<1> QED BY <1>1, <1>2, <1>3, <1>4, <1>5, <1>6 DEF ModelInv

(* One more row is collapsed. *)
LEMMA CollapseRowKeeps ==
  ASSUME ModelInv, Model!CollapseRow
  PROVE  ModelInv'
<1>1. /\ modelStep = "collapse" /\ modelStep' = "collapse"
      /\ UNCHANGED <<input, point, iteration, converged, loglikAt>>
  BY DEF Model!CollapseRow, Model!fitVars
<1>2. Working /\ CollapseInv
  BY <1>1 DEF ModelInv
<1>3. CollapseInv'
  BY <1>2, CollapseKeeps
<1>4. Len(index') <= Len(input.levels)
  <2>1. Len(index) < Len(input.levels) /\ \E x : index' = Append(index, x)
    BY DEF Model!CollapseRow
  <2>2. PICK l \in Nat : l = Len(index)
    BY <1>2 DEF CollapseInv, Patterns
  <2>3. Len(index') = l + 1
    BY <1>2, <2>1, <2>2 DEF CollapseInv, Patterns
  <2>4. Len(input.levels) \in Nat
    BY <1>2, RowsCount DEF Working
  <2> QED BY <2>1, <2>2, <2>3, <2>4
<1>5. Fitted'
  BY <1>1, <1>2, FittedRests DEF Working
<1>6. Working'
  <2>1. Model!Admitted(input)'
    BY <1>1, <1>2 DEF Working, Model!Admitted, Model!OptionAdmitted, Model!Fitting, Model!Width
  <2> QED BY <1>1, <1>4, <1>5, <2>1 DEF Working
<1> QED BY <1>1, <1>3, <1>6 DEF ModelInv

(* The rows are all collapsed. *)
LEMMA CollapsedKeeps ==
  ASSUME ModelInv, Model!Collapsed
  PROVE  ModelInv'
<1>1. /\ modelStep = "collapse" /\ Len(index) = Len(input.levels)
      /\ modelStep' \in {"score", "stopped", "fit"}
      /\ modelStep' = "score" => input.use = "score"
      /\ modelStep' = "fit" => input.use # "score"
      /\ UNCHANGED <<input, codes, distinct, seen, counts, index, point, iteration, converged, loglikAt>>
  BY DEF Model!Collapsed, Model!fitVars, Model!patternVars
<1>2. Working /\ CollapseInv
  BY <1>1 DEF ModelInv
<1>3. CollapseInv' /\ Working'
  BY <1>1, <1>2, CollapseRests, WorkingRests
<1>4. input.use \in {"fit", "score"}
  BY <1>2 DEF Working, Model!Admitted, Model!OptionAdmitted
<1> QED BY <1>1, <1>3, <1>4 DEF ModelInv

(* An iteration of EM. *)
LEMMA IterateKeeps ==
  ASSUME ModelInv, Model!Iterate
  PROVE  ModelInv'
<1>1. /\ modelStep = "fit" /\ modelStep' = "fit" /\ iteration < input.maxIter
      /\ loglikAt' = point /\ point' = input.em[point] /\ iteration' = iteration + 1
      /\ converged' = (Model!Moved(point, input.em[point]) < Tolerance)
      /\ UNCHANGED <<input, codes, distinct, seen, counts, index>>
  BY DEF Model!Iterate, Model!patternVars
<1>2. Working /\ CollapseInv /\ input.use = "fit"
  BY <1>1 DEF ModelInv
<1>3. input.em \in [Points -> Points] /\ input.maxIter \in Nat /\ point \in Points
      /\ iteration \in 0 .. input.maxIter
  BY <1>2 DEF Working, Fitted, Model!Admitted, Model!OptionAdmitted
<1>4. Fitted'
  <2>1. point' \in Points /\ iteration' \in 0 .. input.maxIter
    BY <1>1, <1>3
  <2>2. converged' \in BOOLEAN
    BY <1>1
  <2>3. converged' => Model!Moved(loglikAt, point)' < Tolerance
    BY <1>1 DEF Model!Moved
  <2> QED BY <1>1, <2>1, <2>2, <2>3 DEF Fitted
<1>5. Working'
  <2>1. Model!Admitted(input)'
    BY <1>1, <1>2 DEF Working, Model!Admitted, Model!OptionAdmitted, Model!Fitting, Model!Width
  <2> QED BY <1>1, <1>2, <1>4, <2>1 DEF Working
<1>6. CollapseInv'
  BY <1>1, <1>2, CollapseRests
<1> QED BY <1>1, <1>2, <1>5, <1>6 DEF ModelInv

(* The model counts as the library does. *)
LEMMA SameCardinality == \A S : Model!Cardinality(S) = Cardinality(S)
BY DEF Model!Cardinality, Cardinality

(* The rows that can be linked have numbers for weights, so every two are  *)
(* in an order: the heavier first, of as heavy ones the earlier.           *)
LEMMA KnownOrdered ==
  ASSUME Working, NEW w, RowsWeighed(w)
  PROVE  /\ KnownRows(w) \in SUBSET DOMAIN input.levels /\ IsFiniteSet(KnownRows(w))
         /\ Orders(KnownRows(w), Ranked(w))
<1>0. PICK K, v : K = KnownRows(w) /\ v = [r \in K |-> w[index[r]]]
  OBVIOUS
<1>1. PICK n \in Nat : DOMAIN input.levels = 1 .. n
  BY RowsCount DEF Working
<1>2. K \in SUBSET (1 .. n) /\ IsFiniteSet(K)
  <2>1. K \in SUBSET DOMAIN input.levels
    BY <1>0 DEF KnownRows, Model!Known, Model!Rows
  <2> QED BY <1>1, <2>1, RowsCount, FS_Subset DEF Working
<1>3. \A r \in K : v[r] \in Int /\ r \in Int
  <2>1. ASSUME NEW r \in K PROVE v[r] \in Int /\ r \in Int
    <3>1. v[r] = Weigh(input.levels[r]) /\ v[r] # NA
      BY <1>0, <1>1, <1>2 DEF KnownRows, Model!Known, RowsWeighed
    <3>2. \A k \in DOMAIN Levels : input.levels[r][k] \in {NA} \cup Nat
      BY <1>1, <1>2 DEF Working, Model!Admitted, Model!Width
    <3>3. point \in Points
      BY DEF Working, Fitted
    <3>4. Weigh(input.levels[r]) # NA => Weigh(input.levels[r]) \in Int
      BY <3>2, <3>3, RowWeighs
    <3> QED BY <1>2, <3>1, <3>4
  <2> QED BY <2>1
<1>4. PICK R : R = Ranked(w)
  OBVIOUS
<1>5. \A a, b \in K : <<a, b>> \in R <=> v[a] > v[b] \/ (v[a] = v[b] /\ a < b)
  <2>1. ASSUME NEW a \in K, NEW b \in K
        PROVE  <<a, b>> \in R <=> v[a] > v[b] \/ (v[a] = v[b] /\ a < b)
    <3>1. <<a, b>> \in R <=> Model!Heavier(w, a, b)
      BY <1>0, <1>4 DEF Ranked
    <3> QED BY <1>0, <3>1 DEF Model!Heavier
  <2> QED BY <2>1
<1>6. Orders(K, R)
  <2>1. \A d \in K : <<d, d>> \notin R
    BY <1>3, <1>5
  <2>2. \A c, d, e \in K : <<c, d>> \in R /\ <<d, e>> \in R => <<c, e>> \in R
    <3>1. ASSUME NEW c \in K, NEW d \in K, NEW e \in K, <<c, d>> \in R, <<d, e>> \in R PROVE <<c, e>> \in R
      <4>1. /\ v[c] > v[d] \/ (v[c] = v[d] /\ c < d)
            /\ v[d] > v[e] \/ (v[d] = v[e] /\ d < e)
        BY <1>5, <3>1
      <4>2. v[c] \in Int /\ v[d] \in Int /\ v[e] \in Int /\ c \in Int /\ d \in Int /\ e \in Int
        BY <1>3
      <4>3. v[c] > v[e] \/ (v[c] = v[e] /\ c < e)
        BY <4>1, <4>2
      <4> QED BY <1>5, <4>3
    <3> QED BY <3>1
  <2>3. \A d, e \in K : d = e \/ <<d, e>> \in R \/ <<e, d>> \in R
    <3>1. ASSUME NEW d \in K, NEW e \in K PROVE d = e \/ <<d, e>> \in R \/ <<e, d>> \in R
      <4>1. v[d] \in Int /\ v[e] \in Int /\ d \in Int /\ e \in Int
        BY <1>3
      <4>2. d = e \/ (v[d] > v[e] \/ (v[d] = v[e] /\ d < e)) \/ (v[e] > v[d] \/ (v[e] = v[d] /\ e < d))
        BY <4>1
      <4> QED BY <1>5, <4>2
    <3> QED BY <3>1
  <2> QED BY <2>1, <2>2, <2>3 DEF Orders
<1> QED BY <1>0, <1>1, <1>2, <1>4, <1>6

(* Before the first offer nothing is linked or turned down. *)
LEMMA NothingOffered ==
  ASSUME NEW in, Model!Admitted(in), NEW K \in SUBSET DOMAIN in.levels, NEW R, NEW s, Queue(s, R), Range(s) = K,
         NEW uI, uI = [a \in Range(in.i) |-> 0], NEW uJ, uJ = [a \in Range(in.j) |-> 0],
         NEW o, o = [r \in DOMAIN in.levels |-> IF r \in K THEN FALSE ELSE NA]
  PROVE  Sifted(in, K, R, s, uI, uJ, o)
<1>1. TRUE # NA /\ FALSE # NA
  BY ModelAssumption
<1>2. Answered(in, K, o)
  BY <1>1 DEF Answered
<1>3. LinkedRows(in, o) = {}
  BY <1>1 DEF LinkedRows
<1>4. in.n \in Nat /\ in.m \in Nat
  BY RowsCount
<1>5. \A side, a : Cardinality(LinksOf(side, {}, a)) = 0
  <2>1. \A side, a : LinksOf(side, {}, a) = {}
    BY DEF LinksOf
  <2> QED BY <2>1, FS_EmptySet
<1>6. Uses(in.i, uI, {}, in.n) /\ Uses(in.j, uJ, {}, in.m)
  BY <1>4, <1>5 DEF Uses
<1>7. K \ Range(s) = {}
  OBVIOUS
<1>8. Precede({}, Range(s), R) /\ RefusedOnly(in, R, {}, o)
  BY DEF Precede, RefusedOnly
<1> QED BY <1>2, <1>3, <1>6, <1>7, <1>8 DEF Sifted

(* The pairs are weighed and put in their order. *)
LEMMA WeightedKeeps ==
  ASSUME ModelInv, modelStep \in {"fit", "score"}, NEW w, Model!Weighted(w), RowsWeighed(w), FitOver
  PROVE  ModelInv'
<1>1. /\ Working /\ CollapseInv /\ Len(index) = Len(input.levels)
  BY DEF ModelInv, Working
<1>2. /\ UNCHANGED <<input, codes, distinct, seen, counts, index, point, iteration, converged, loglikAt>>
      /\ weight' = w /\ modelStep' = "select" /\ todo' = Model!Offered(w)
      /\ usedI' = [a \in Range(input.i) |-> 0] /\ usedJ' = [a \in Range(input.j) |-> 0]
      /\ out' = [r \in DOMAIN input.levels |-> IF r \in KnownRows(w) THEN FALSE ELSE NA]
  BY DEF Model!Weighted, Model!patternVars, Model!fitVars, Model!Range, Range, Model!Rows, KnownRows
<1>3. PICK K, R : K = KnownRows(w) /\ R = Ranked(w)
  OBVIOUS
<1>4. K \in SUBSET DOMAIN input.levels /\ IsFiniteSet(K) /\ Orders(K, R)
  BY <1>1, <1>3, KnownOrdered
<1>5. todo' = ByRank(K, R)
  <2>1. todo' = Model!InOrder(K, R)
    BY <1>2, <1>3 DEF Model!Offered, KnownRows, Ranked
  <2>2. Model!InOrder(K, R) = ByRank(K, R)
    BY DEF Model!InOrder, ByRank, Below, Model!Cardinality, Cardinality
  <2> QED BY <2>1, <2>2
<1>6. Queue(todo', R) /\ Range(todo') = K
  BY <1>4, <1>5, RanksOrder, ListingQueues
<1>7. Sifted(input, K, R, todo', usedI', usedJ', out')
  BY <1>1, <1>2, <1>3, <1>4, <1>6, NothingOffered DEF Working
<1>8. KnownRows(weight)' = K /\ Ranked(weight)' = R
  <2>1. KnownRows(weight)' = K
    BY <1>2, <1>3 DEF KnownRows, Model!Known, Model!Rows
  <2> QED BY <1>2, <1>3, <2>1 DEF Ranked, Model!Heavier
<1>9. RowsWeighed(weight)'
  <2>1. \A pattern : Weigh(pattern)' = Weigh(pattern)
    BY <1>2 DEF Weigh, Model!OutOfModel, Model!Width
  <2> QED BY <1>2, <2>1 DEF RowsWeighed
<1>10. FitOver'
  BY <1>2 DEF FitOver
<1>11. Sifted(input, KnownRows(weight), Ranked(weight), todo, usedI, usedJ, out)'
  BY <1>2, <1>7, <1>8
<1>12. Selecting'
  BY <1>9, <1>10, <1>11 DEF Selecting
<1>13. CollapseInv' /\ Working'
  BY <1>1, <1>2, CollapseRests, WorkingRests
<1> QED BY <1>2, <1>12, <1>13 DEF ModelInv

(* The row at the head of the queue is offered. *)
LEMMA OfferKeeps ==
  ASSUME ModelInv, Model!Offer
  PROVE  ModelInv'
<1>1. /\ modelStep = "select" /\ todo # <<>> /\ modelStep' = "select" /\ todo' = Tail(todo)
      /\ UNCHANGED <<input, codes, distinct, seen, counts, index, point, iteration, converged, loglikAt, weight>>
  BY DEF Model!Offer, Model!fitVars, Model!patternVars
<1>2. Working /\ CollapseInv /\ Selecting /\ Len(index) = Len(input.levels)
  BY <1>1 DEF ModelInv, Working
<1>3. PICK K, R : K = KnownRows(weight) /\ R = Ranked(weight)
  OBVIOUS
<1>4. K \in SUBSET DOMAIN input.levels /\ Orders(K, R)
  BY <1>2, <1>3, KnownOrdered DEF Selecting
<1>5. Sifted(input, K, R, todo, usedI, usedJ, out)
  BY <1>2, <1>3 DEF Selecting
<1>6. PICK at : at = Head(todo)
  OBVIOUS
<1>7. PICK take \in BOOLEAN :
        /\ take = (usedI[input.i[at]] < input.n /\ usedJ[input.j[at]] < input.m)
        /\ usedI' = IF take THEN [usedI EXCEPT ![input.i[at]] = @ + 1] ELSE usedI
        /\ usedJ' = IF take THEN [usedJ EXCEPT ![input.j[at]] = @ + 1] ELSE usedJ
        /\ out' = IF take THEN [out EXCEPT ![at] = TRUE] ELSE out
  BY <1>6 DEF Model!Offer
<1>8. Sifted(input, K, R, todo', usedI', usedJ', out')
  BY <1>1, <1>2, <1>4, <1>5, <1>7, <1>6, RowOffered DEF Working
<1>9. KnownRows(weight)' = K /\ Ranked(weight)' = R
  BY <1>1, <1>3, RankedRests
<1>10. Sifted(input, KnownRows(weight), Ranked(weight), todo, usedI, usedJ, out)'
  BY <1>1, <1>8, <1>9
<1>11. RowsWeighed(weight)' /\ FitOver'
  BY <1>1, <1>2, WeighedRests DEF Selecting, FitOver
<1>12. Selecting'
  BY <1>10, <1>11 DEF Selecting
<1>13. CollapseInv' /\ Working'
  BY <1>1, <1>2, CollapseRests, WorkingRests
<1> QED BY <1>1, <1>12, <1>13 DEF ModelInv

(* A row's pattern is among the patterns. *)
LEMMA RowHasPattern ==
  ASSUME CollapseInv, Working, Len(index) = Len(input.levels), NEW r \in DOMAIN input.levels
  PROVE  r \in DOMAIN index /\ index[r] \in 1 .. distinct /\ codes[index[r]] = input.levels[r]
<1>1. index \in Seq(1 .. distinct) /\ Placed(input.levels, index, codes)
  BY DEF CollapseInv, Patterns
<1>2. PICK n \in Nat : DOMAIN input.levels = 1 .. n /\ n = Len(index)
  BY RowsCount DEF Working
<1>3. r \in DOMAIN index /\ index[r] \in 1 .. distinct
  <2>1. PICK S : S = 1 .. distinct
    OBVIOUS
  <2>2. index \in Seq(S)
    BY <1>1, <2>1
  <2>3. DOMAIN index = 1 .. n /\ \A q \in DOMAIN index : index[q] \in S
    BY <1>2, <2>2
  <2> QED BY <1>2, <2>1, <2>3
<1> QED BY <1>1, <1>3 DEF Placed

(* The fit has stopped: every level of a fit is one the model has.         *)
LEMMA FitDoneKeeps ==
  ASSUME ModelInv, Model!FitDone
  PROVE  ModelInv'
<1>1. PICK w : w = [p \in 1 .. distinct |-> Model!PatternWeight(point, codes[p])]
  OBVIOUS
<1>2. modelStep = "fit" /\ (converged \/ iteration >= input.maxIter) /\ Model!Weighted(w)
  BY <1>1 DEF Model!FitDone
<1>3. Working /\ CollapseInv /\ Len(index) = Len(input.levels) /\ input.use = "fit"
  BY <1>2 DEF ModelInv, Working
<1>4. FitOver
  <2>1. iteration \in 0 .. input.maxIter /\ input.maxIter \in Nat
    BY <1>3 DEF Working, Fitted, Model!Admitted, Model!OptionAdmitted
  <2> QED BY <1>2, <2>1 DEF FitOver
<1>5. RowsWeighed(w)
  <2>1. ASSUME NEW r \in DOMAIN input.levels PROVE w[index[r]] = Weigh(input.levels[r])
    <3>1. index[r] \in 1 .. distinct /\ codes[index[r]] = input.levels[r]
      BY <1>3, RowHasPattern
    <3>2. ~ Model!OutOfModel(input.levels[r])
      BY <1>3 DEF Working, Model!Admitted, Model!Fitting, Model!OutOfModel
    <3> QED BY <1>1, <3>1, <3>2 DEF Weigh
  <2> QED BY <2>1 DEF RowsWeighed
<1> QED BY <1>2, <1>4, <1>5, WeightedKeeps

(* A fitted model is applied. *)
LEMMA ScoreKeeps ==
  ASSUME ModelInv, Model!Score
  PROVE  ModelInv'
<1>1. PICK w : w = [p \in 1 .. distinct |-> IF Model!OutOfModel(codes[p]) THEN NA
                                          ELSE Model!PatternWeight(point, codes[p])]
  OBVIOUS
<1>2. modelStep = "score" /\ Model!Weighted(w)
  BY <1>1 DEF Model!Score
<1>3. Working /\ CollapseInv /\ Len(index) = Len(input.levels) /\ input.use = "score"
  BY <1>2 DEF ModelInv, Working
<1>4. FitOver
  BY <1>3 DEF FitOver
<1>5. RowsWeighed(w)
  <2>1. ASSUME NEW r \in DOMAIN input.levels PROVE w[index[r]] = Weigh(input.levels[r])
    <3>1. index[r] \in 1 .. distinct /\ codes[index[r]] = input.levels[r]
      BY <1>3, RowHasPattern
    <3> QED BY <1>1, <3>1 DEF Weigh
  <2> QED BY <2>1 DEF RowsWeighed
<1> QED BY <1>2, <1>4, <1>5, WeightedKeeps

(* The selection is compared with the truth. *)
LEMMA EvaluateKeeps ==
  ASSUME ModelInv, Model!Evaluate
  PROVE  ModelInv'
<1>1. /\ modelStep = "select" /\ modelStep' = "done" /\ todo = <<>>
      /\ UNCHANGED <<input, codes, distinct, seen, counts, index, point, iteration, converged, loglikAt,
                     weight, todo, usedI, usedJ, out>>
  BY DEF Model!Evaluate, Model!fitVars, Model!patternVars, Model!selectVars
<1>2. Working /\ CollapseInv /\ Selecting /\ Len(index) = Len(input.levels)
  BY <1>1 DEF ModelInv, Working
<1>3. PICK T : T = LinkedRows(input, out)
  OBVIOUS
<1>4. T \subseteq KnownRows(weight) /\ T \subseteq DOMAIN input.levels
  BY <1>2, <1>3 DEF Selecting, Sifted, LinkedRows
<1>5. T \in SUBSET Nat /\ IsFiniteSet(T)
  <2>1. PICK n \in Nat : DOMAIN input.levels = 1 .. n /\ IsFiniteSet(1 .. n)
    BY <1>2, RowsCount DEF Working
  <2> QED BY <1>4, <2>1, FS_Subset
<1>6. \A r \in T : NA \notin Range(Model!Pair(r))
  <2>1. ASSUME NEW r \in T PROVE NA \notin Range(Model!Pair(r))
    <3>1. input.i[r] # NA /\ input.j[r] # NA
      BY <1>4 DEF KnownRows, Model!Known
    <3>2. Range(<<input.i[r], input.j[r]>>) = {input.i[r], input.j[r]}
      BY DEF Range
    <3> QED BY <3>1, <3>2 DEF Model!Pair
  <2> QED BY <2>1
<1>7. Model!Counted(T) = FirstRows(T)
  BY <1>6 DEF Model!Counted, FirstRows, Model!Range, Range
<1>8. PICK Q : Q = {t \in Range(input.truth) : NA \notin Range(t)}
  OBVIOUS
<1>9. /\ overlap'.n = Cardinality(FirstRows(T))
      /\ overlap'.common = Cardinality({r \in FirstRows(T) : Model!Pair(r) \in Q})
  <2>1. T = {r \in Model!Rows : out[r] = TRUE}
    BY <1>3 DEF LinkedRows, Model!Rows
  <2>2. Q = {t \in Model!Range(input.truth) : NA \notin Model!Range(t)}
    BY <1>8 DEF Model!Range, Range
  <2>3. /\ overlap'.n = Model!Cardinality(Model!Counted(T))
        /\ overlap'.common = Model!Cardinality({r \in Model!Counted(T) : Model!Pair(r) \in Q})
    BY <2>1, <2>2 DEF Model!Evaluate
  <2> QED BY <1>7, <2>3, SameCardinality
<1>10. PairsOf(T) \cap Q = PairsOf(T) \cap Range(input.truth)
  BY <1>6, <1>8 DEF PairsOf
<1>11. overlap'.common = Cardinality(PairsOf(T) \cap Range(input.truth))
  BY <1>5, <1>9, <1>10, PairsCounted
<1>12. overlap'.n = Cardinality(PairsOf(T))
  <2>1. {r \in FirstRows(T) : Model!Pair(r) \in PairsOf(T)} = FirstRows(T)
    BY DEF FirstRows, PairsOf
  <2>2. PairsOf(T) \cap PairsOf(T) = PairsOf(T)
    OBVIOUS
  <2> QED BY <1>5, <1>9, <2>1, <2>2, PairsCounted
<1>13. Compared'
  <2>1. PairsOf(LinkedRows(input, out))' = PairsOf(T)
    BY <1>1, <1>3 DEF PairsOf, Model!Pair, LinkedRows
  <2> QED BY <1>1, <1>11, <1>12, <2>1 DEF Compared
<1>14. Selecting'
  <2>1. KnownRows(weight)' = KnownRows(weight) /\ Ranked(weight)' = Ranked(weight)
    BY <1>1, RankedRests
  <2>2. RowsWeighed(weight)' /\ FitOver'
    BY <1>1, <1>2, WeighedRests DEF Selecting, FitOver
  <2> QED BY <1>1, <1>2, <2>1, <2>2 DEF Selecting
<1>15. CollapseInv' /\ Working'
  BY <1>1, <1>2, CollapseRests, WorkingRests
<1> QED BY <1>1, <1>13, <1>14, <1>15 DEF ModelInv

(* The pairs a session starts with. *)
LEMMA OpenPairs ==
  ASSUME NEW c, SessionAdmitted(c), Open(c)
  PROVE  PairsInv
<1>1. PICK m \in Nat : DOMAIN c.given = 1 .. m
  BY DEF SessionAdmitted
<1> QED BY <1>1 DEF Open, PairsInv

(* The pairs are as many as there are records that share a key. *)
LEMMA FindPairsGives ==
  ASSUME FindPairs
  PROVE  PairsInv'
<1>1. Records[Data(1)] \in Nat /\ Records[Data(2)] \in Nat
  BY SessionAssumption DEF Data, Sides
<1>2. PICK a \in Nat, b \in Nat : a = Records[Data(1)] /\ b = Records[Data(2)]
  BY <1>1
<1>3. IsFiniteSet(1 .. a) /\ IsFiniteSet(1 .. b)
  <2>1. 1 \in Int /\ a \in Int /\ b \in Int
    OBVIOUS
  <2> QED BY <2>1, FS_Interval
<1>4. IsFiniteSet((1 .. a) \X (1 .. b))
  BY <1>3, FS_Product
<1>5. Blocked \subseteq (1 .. a) \X (1 .. b)
  BY <1>2 DEF Blocked
<1>6. PICK m \in Nat : m = Cardinality(Blocked)
  <2>1. IsFiniteSet(Blocked)
    BY <1>4, <1>5, FS_Subset
  <2> QED BY <2>1, FS_CardinalityType
<1>7. DOMAIN InRecordOrder(Blocked) = 1 .. m
  BY <1>6 DEF InRecordOrder
<1>8. DOMAIN xi' = 1 .. m /\ DOMAIN yi' = 1 .. m
  BY <1>7 DEF FindPairs
<1> QED BY <1>8 DEF PairsInv

(* No other step changes them. *)
LEMMA PairsKeep ==
  ASSUME PairsInv, [LinkageNext]_recordVars
  PROVE  PairsInv'
<1>1. CASE FindPairs
  BY <1>1, FindPairsGives
<1>2. CASE UNCHANGED <<xi, yi>>
  BY <1>2 DEF PairsInv
<1>3. FindPairs \/ UNCHANGED <<xi, yi>>
  <2>1. CASE SessionNext
    BY <2>1 DEF SessionNext, CachedTerm, PassKey, KeyRefused, KeysFailed, RecordTerm,
                CompareFailed, ScoreRefused, Compare, CompareDone, Stop
  <2>2. CASE UNCHANGED sessionVars
    BY <2>2 DEF sessionVars
  <2> QED BY <2>1, <2>2 DEF LinkageNext, Link, recordVars
<1> QED BY <1>1, <1>2, <1>3

(* Nothing is collapsed before an input is there. *)
LEMMA NothingCollapsed ==
  ASSUME Untouched
  PROVE  CollapseInv
<1>1. <<>> \in Seq(1 .. 0) /\ <<>> \in Seq(Nat) /\ <<>> \in Seq(Range(<<>>)) /\ Len(<<>>) = 0
      /\ DOMAIN <<>> = {} /\ 1 .. 0 = {}
  OBVIOUS
<1>2. Patterns(input.levels, <<>>, 0, <<>>, <<>>)
  BY <1>1 DEF Patterns, Different, Placed, Tallied
<1> QED BY <1>1, <1>2 DEF Untouched, CollapseInv

(* What a linkage begins with. *)
LEMMA BeginHolds ==
  ASSUME NEW in, NEW where \in {"waiting", "collapse"}, Model!Begin(in, where),
         where = "collapse" => Model!Admitted(in)
  PROVE  ModelInv
<1>1. /\ input = in /\ modelStep = where /\ point = in.point /\ Untouched
  BY DEF Model!Begin, Untouched
<1>2. CollapseInv
  BY <1>1, NothingCollapsed
<1>3. ASSUME where = "collapse" PROVE Working
  <2>1. Model!Admitted(input)
    BY <1>1, <1>3
  <2>2. Fitted
    <3>1. input.point \in Points /\ input.maxIter \in Nat
      BY <2>1 DEF Model!Admitted, Model!OptionAdmitted
    <3>2. point = input.point /\ iteration = 0 /\ converged = FALSE
      BY <1>1 DEF Untouched
    <3>3. iteration \in 0 .. input.maxIter
      BY <3>1, <3>2
    <3>4. converged \in BOOLEAN /\ ~ converged
      BY <3>2
    <3> QED BY <3>1, <3>2, <3>3, <3>4 DEF Fitted
  <2>3. Len(index) <= Len(input.levels)
    <3>1. Len(input.levels) \in Nat
      BY <2>1, RowsCount
    <3>2. Len(<<>>) = 0
      OBVIOUS
    <3> QED BY <1>1, <3>1, <3>2 DEF Untouched
  <2> QED BY <1>1, <1>3, <2>1, <2>2, <2>3 DEF Working
<1> QED BY <1>1, <1>2, <1>3 DEF ModelInv

(* The scored pairs are rows a model can be asked of. *)
LEMMA ScoredAdmitted ==
  ASSUME PairsInv, SessionType, Len(columns) = Len(Levels), NEW o \in Options, NEW t,
         o.use = "fit" => Model!Fitting(Scored)
  PROVE  Model!Admitted(Ask(o, Scored, xi, yi, t))
<1>1. PICK m \in Nat : DOMAIN xi = 1 .. m /\ DOMAIN yi = 1 .. m
  BY DEF PairsInv
<1>2. PICK s : s = Scored
  OBVIOUS
<1>3. DOMAIN s = 1 .. m /\ s \in Seq(Range(s))
  <2>1. DOMAIN s = 1 .. m /\ s = [q \in 1 .. m |-> s[q]]
    BY <1>1, <1>2 DEF Scored
  <2>2. \A q \in 1 .. m : s[q] \in Range(s)
    BY <2>1 DEF Range
  <2>3. s \in [1 .. m -> Range(s)]
    BY <2>1, <2>2
  <2> QED BY <2>1, <2>3
<1>4. DOMAIN columns = DOMAIN Levels
  BY ModelAssumption DEF SessionType
<1>5. \A r \in DOMAIN s, k \in DOMAIN Levels : s[r][k] \in {NA} \cup Nat
  <2>1. \A a, b : LevelOf(a, b) \in {NA} \cup Nat
    BY DEF LevelOf
  <2>2. \A r \in 1 .. m, k \in DOMAIN columns :
          s[r][k] = LevelOf(columns[k].score[1][r], columns[k].score[2][r])
    BY <1>1, <1>2 DEF Scored
  <2> QED BY <1>3, <1>4, <2>1, <2>2
<1>6. PICK in : in = Ask(o, s, xi, yi, t)
  OBVIOUS
<1>7. /\ in.use = o.use /\ in.n = o.n /\ in.m = o.m /\ in.point = o.point /\ in.em = o.em
      /\ in.maxIter = o.maxIter /\ in.levels = s /\ in.i = xi /\ in.j = yi
  BY <1>6 DEF Ask
<1>8. Model!OptionAdmitted(in)
  <2>1. Model!OptionAdmitted(o)
    BY ModelAssumption
  <2> QED BY <1>7, <2>1 DEF Model!OptionAdmitted
<1>9. in.use = "fit" => Model!Fitting(in.levels)
  BY <1>2, <1>7
<1>10. in.levels \in Seq(Model!Range(in.levels))
  BY <1>3, <1>7 DEF Model!Range, Range
<1>11. Model!Admitted(in)
  BY <1>1, <1>3, <1>5, <1>7, <1>8, <1>9, <1>10 DEF Model!Admitted, Model!Width
<1> QED BY <1>2, <1>6, <1>11

(* The scored pairs are handed on. *)
LEMMA LinkKeeps ==
  ASSUME ModelInv, PairsInv, SessionType, Link
  PROVE  ModelInv'
<1>1. PICK o \in Options :
        /\ o.use = "fit" => Model!Fitting(Scored)
        /\ input' = Ask(o, Scored, xi, yi, <<<<1, 1>>, <<1, 2>>>>) /\ point' = o.point
  BY DEF Link
<1>2. /\ modelStep = "waiting" /\ modelStep' = "collapse" /\ Len(columns) = Len(Levels)
      /\ UNCHANGED <<codes, distinct, seen, counts, index, iteration, converged>>
  BY DEF Link
<1>3. PICK in : in = Ask(o, Scored, xi, yi, <<<<1, 1>>, <<1, 2>>>>)
  OBVIOUS
<1>4. input' = in /\ Model!Admitted(in) /\ in.point = o.point
  BY <1>1, <1>2, <1>3, ScoredAdmitted DEF Ask
<1>5. Untouched
  BY <1>2 DEF ModelInv
<1>6. CollapseInv'
  <2>1. Patterns(in.levels, <<>>, 0, <<>>, <<>>)
    <3>1. <<>> \in Seq(1 .. 0) /\ <<>> \in Seq(Nat) /\ Len(<<>>) = 0 /\ DOMAIN <<>> = {} /\ 1 .. 0 = {}
      OBVIOUS
    <3> QED BY <3>1 DEF Patterns, Different, Placed, Tallied
  <2>2. codes \in Seq(Range(codes)) /\ Len(codes) >= distinct /\ seen = 1 .. distinct
    BY <1>5, NothingCollapsed DEF CollapseInv
  <2> QED BY <1>2, <1>4, <1>5, <2>1, <2>2 DEF CollapseInv, Untouched, Range
<1>7. Fitted'
  <2>1. in.point \in Points /\ in.maxIter \in Nat
    BY <1>4 DEF Model!Admitted, Model!OptionAdmitted
  <2>2. input' = in /\ point' = in.point /\ iteration' = 0 /\ converged' = FALSE
    BY <1>1, <1>2, <1>4, <1>5 DEF Untouched
  <2>3. iteration' \in 0 .. input'.maxIter
    BY <2>1, <2>2
  <2>4. converged' \in BOOLEAN /\ ~ converged'
    BY <2>2
  <2> QED BY <2>1, <2>2, <2>3, <2>4 DEF Fitted
<1>8. Working'
  <2>1. Len(input.levels)' \in Nat
    BY <1>4, RowsCount
  <2>2. Len(index)' <= Len(input.levels)'
    <3>1. Len(<<>>) = 0
      OBVIOUS
    <3> QED BY <1>2, <1>5, <2>1, <3>1 DEF Untouched
  <2>3. Model!Admitted(input)'
    BY <1>4 DEF Model!Admitted, Model!OptionAdmitted, Model!Fitting, Model!Width
  <2> QED BY <1>2, <1>7, <2>2, <2>3 DEF Working
<1> QED BY <1>2, <1>6, <1>8 DEF ModelInv

(* A step of the linkage keeps what the model keeps. *)
LEMMA ModelKeeps ==
  ASSUME ModelInv, PairsInv, SessionType, [LinkageNext]_recordVars
  PROVE  ModelInv'
<1>1. CASE UNCHANGED linkVars
  BY <1>1, ModelRests
<1>2. CASE Link
  BY <1>2, LinkKeeps
<1>3. CASE Model!ModelNext
  <2>1. CASE Model!CollapseRow
    BY <2>1, CollapseRowKeeps
  <2>2. CASE Model!Collapsed
    BY <2>2, CollapsedKeeps
  <2>3. CASE Model!Iterate
    BY <2>3, IterateKeeps
  <2>4. CASE Model!FitDone
    BY <2>4, FitDoneKeeps
  <2>5. CASE Model!Score
    BY <2>5, ScoreKeeps
  <2>6. CASE Model!Offer
    BY <2>6, OfferKeeps
  <2>7. CASE Model!Evaluate
    BY <2>7, EvaluateKeeps
  <2> QED BY <1>3, <2>1, <2>2, <2>3, <2>4, <2>5, <2>6, <2>7 DEF Model!ModelNext
<1>4. UNCHANGED linkVars \/ Link \/ Model!ModelNext
  BY DEF LinkageNext, recordVars
<1> QED BY <1>1, <1>2, <1>3, <1>4

(* Different patterns are as many as their codes. *)
LEMMA PatternsTold ==
  ASSUME CollapseInv
  PROVE  Model!PatternsCollapse
<1>1. /\ distinct \in Nat /\ index \in Seq(1 .. distinct)
      /\ Different(codes, distinct) /\ Placed(input.levels, index, codes)
      /\ Tallied(index, distinct, counts)
  BY DEF CollapseInv, Patterns
<1>2. PICK d \in Nat : d = distinct
  BY <1>1
<1>3. PICK S, f : S = {codes[p] : p \in 1 .. d} /\ f = [p \in 1 .. d |-> codes[p]]
  OBVIOUS
<1>4. f \in Bijection(1 .. d, S)
  <2>1. f \in [1 .. d -> S] /\ \A t \in S : \E p \in 1 .. d : f[p] = t
    BY <1>3
  <2>2. \A p, q \in 1 .. d : f[p] = f[q] => p = q
    BY <1>1, <1>2, <1>3 DEF Different
  <2> QED BY <2>1, <2>2 DEF Bijection, Injection, IsInjective, Surjection
<1>5. IsFiniteSet(1 .. d) /\ Cardinality(1 .. d) = d
  <2>1. d \in Int /\ 1 \in Int
    OBVIOUS
  <2>2. IsFiniteSet(1 .. d) /\ Cardinality(1 .. d) = IF 1 > d THEN 0 ELSE d - 1 + 1
    BY <2>1, FS_Interval
  <2> QED BY <2>2
<1>6. Cardinality(S) = d
  <2>1. ExistsBijection(1 .. d, S)
    BY <1>4 DEF ExistsBijection
  <2> QED BY <1>5, <2>1, FS_Bijection
<1>7. distinct = Model!Cardinality({codes[p] : p \in 1 .. distinct})
  BY <1>2, <1>3, <1>6, SameCardinality
<1>8. \A r \in DOMAIN index : index[r] \in 1 .. distinct /\ codes[index[r]] = input.levels[r]
  <2>1. \A r \in DOMAIN index : index[r] \in 1 .. distinct
    BY <1>1
  <2> QED BY <1>1, <2>1 DEF Placed
<1>9. \A p \in 1 .. distinct : counts[p] = Model!Cardinality({r \in DOMAIN index : index[r] = p})
  BY <1>1, SameCardinality DEF Tallied, RowsOf
<1> QED BY <1>7, <1>8, <1>9 DEF Model!PatternsCollapse

(* Every row has the weight of its levels, and the fit stopped for a reason. *)
LEMMA WeightsTold ==
  ASSUME ModelInv
  PROVE  Model!WeightsOfLevels
<1> SUFFICES ASSUME modelStep \in {"select", "done"}
             PROVE  /\ \A r \in Model!Rows :
                         Model!PairWeight(weight)[r] =
                           IF \E k \in Model!Width : input.levels[r][k] # NA /\ input.levels[r][k] >= Levels[k]
                           THEN NA ELSE Model!PatternWeight(point, input.levels[r])
                    /\ iteration <= input.maxIter
                    /\ input.use = "fit" =>
                         /\ converged \/ iteration = input.maxIter
                         /\ converged => Model!Moved(loglikAt, point) < Tolerance
  BY DEF Model!WeightsOfLevels
<1>1. Working /\ Selecting
  BY DEF ModelInv
<1>2. ASSUME NEW r \in DOMAIN input.levels
      PROVE  Model!PairWeight(weight)[r] =
               IF \E k \in Model!Width : input.levels[r][k] # NA /\ input.levels[r][k] >= Levels[k]
               THEN NA ELSE Model!PatternWeight(point, input.levels[r])
  <2>1. Model!PairWeight(weight)[r] = Weigh(input.levels[r])
    BY <1>1 DEF Selecting, RowsWeighed, Model!PairWeight, Model!Rows
  <2>2. \A k \in DOMAIN Levels : input.levels[r][k] \in {NA} \cup Nat
    BY <1>1 DEF Working, Model!Admitted, Model!Width
  <2>3. point \in Points
    BY <1>1 DEF Working, Fitted
  <2>4. PICK x : x = input.levels[r]
    OBVIOUS
  <2>5. Weigh(x) = IF \E k \in DOMAIN Levels : x[k] # NA /\ x[k] >= Levels[k]
                   THEN NA ELSE Model!PatternWeight(point, x)
    BY <2>2, <2>3, <2>4, RowWeighs
  <2> QED BY <2>1, <2>4, <2>5 DEF Model!Width
<1>3. iteration <= input.maxIter
  <2>1. iteration \in 0 .. input.maxIter /\ input.maxIter \in Nat
    BY <1>1 DEF Working, Fitted, Model!Admitted, Model!OptionAdmitted
  <2> QED BY <2>1
<1>4. /\ input.use = "fit" => converged \/ iteration = input.maxIter
      /\ converged => Model!Moved(loglikAt, point) < Tolerance
  BY <1>1 DEF Working, Fitted, Selecting, FitOver
<1> QED BY <1>2, <1>3, <1>4 DEF Model!Rows

(* The rows linked are within the allowances, those turned down were not,  *)
(* and the comparison counts pairs.                                        *)
LEMMA SelectionTold ==
  ASSUME ModelInv
  PROVE  Model!SelectionExact
<1> SUFFICES ASSUME modelStep = "done" PROVE Model!SelectionExact
  BY DEF Model!SelectionExact
<1>1. Working /\ Selecting /\ Compared
  BY DEF ModelInv
<1>2. PICK K, R : K = KnownRows(weight) /\ R = Ranked(weight)
  OBVIOUS
<1> DEFINE w == Model!PairWeight(weight)
           T == {r \in Model!Rows : out[r] = TRUE}
           Before(a, b) == w[a] > w[b] \/ (w[a] = w[b] /\ a < b)
           Earlier(r) == {q \in T : Before(q, r)}
<1>3. T = LinkedRows(input, out) /\ T \subseteq Model!Rows
  BY DEF LinkedRows, Model!Rows
<1> HIDE DEF T
<1>4. /\ Range(todo) = {} /\ Answered(input, K, out) /\ T \subseteq K \ Range(todo)
      /\ Uses(input.i, usedI, T, input.n) /\ Uses(input.j, usedJ, T, input.m)
      /\ RefusedOnly(input, R, K \ Range(todo), out)
  BY <1>1, <1>2, <1>3 DEF Selecting, Sifted, Compared, Range
<1>5. K \subseteq Model!Rows /\ \A r \in Model!Rows : w[r] = weight[index[r]]
  BY <1>2 DEF KnownRows, Model!Known, Model!Rows, Model!PairWeight
<1> HIDE DEF w
<1>6. \A a, b \in K : <<a, b>> \in R <=> w[a] > w[b] \/ (w[a] = w[b] /\ a < b)
  <2>1. ASSUME NEW a \in K, NEW b \in K
        PROVE  <<a, b>> \in R <=> w[a] > w[b] \/ (w[a] = w[b] /\ a < b)
    <3>1. <<a, b>> \in R <=> Model!Heavier(weight, a, b)
      BY <1>2 DEF Ranked
    <3> QED BY <1>5, <3>1 DEF Model!Heavier
  <2> QED BY <2>1
<1>7. DOMAIN input.i = Model!Rows /\ DOMAIN input.j = Model!Rows /\ input.n \in Nat /\ input.m \in Nat
  BY <1>1, RowsCount DEF Working, Model!Rows
<1>8. ASSUME NEW r \in T
      PROVE  /\ Model!Cardinality({q \in T : input.i[q] = input.i[r]}) <= input.n
             /\ Model!Cardinality({q \in T : input.j[q] = input.j[r]}) <= input.m
  <2>1. input.i[r] \in Range(input.i) /\ input.j[r] \in Range(input.j)
    BY <1>3, <1>7 DEF Range
  <2>2. /\ Cardinality(LinksOf(input.i, T, input.i[r])) \in 0 .. input.n
        /\ Cardinality(LinksOf(input.j, T, input.j[r])) \in 0 .. input.m
    BY <1>4, <2>1 DEF Uses
  <2>3. /\ LinksOf(input.i, T, input.i[r]) = {q \in T : input.i[q] = input.i[r]}
        /\ LinksOf(input.j, T, input.j[r]) = {q \in T : input.j[q] = input.j[r]}
    BY DEF LinksOf
  <2> QED BY <1>7, <2>2, <2>3, SameCardinality
<1>9. ASSUME NEW r \in Model!Rows, out[r] = FALSE
      PROVE  \/ Model!Cardinality({q \in Earlier(r) : input.i[q] = input.i[r]}) = input.n
             \/ Model!Cardinality({q \in Earlier(r) : input.j[q] = input.j[r]}) = input.m
  <2>1. r \in K
    <3>1. FALSE # NA
      BY ModelAssumption
    <3> QED BY <1>4, <1>9, <3>1 DEF Answered, Model!Rows
  <2>2. Refused(input, R, T, r)
    BY <1>3, <1>4, <1>9, <2>1 DEF RefusedOnly
  <2>3. \A q \in T : <<q, r>> \in R <=> Before(q, r)
    BY <1>4, <1>6, <2>1
  <2> HIDE DEF Before
  <2>4. /\ {q \in T : <<q, r>> \in R /\ input.i[q] = input.i[r]} = {q \in Earlier(r) : input.i[q] = input.i[r]}
        /\ {q \in T : <<q, r>> \in R /\ input.j[q] = input.j[r]} = {q \in Earlier(r) : input.j[q] = input.j[r]}
    BY <2>3
  <2> HIDE DEF Earlier
  <2> QED BY <2>2, <2>4, SameCardinality DEF Refused, UsedUp
<1>10. ASSUME NEW r \in Model!Rows
       PROVE  (out[r] = NA) = (NA \in {input.i[r], input.j[r], w[r]})
  <2>1. out[r] = NA <=> r \notin K
    BY <1>4 DEF Answered, Model!Rows
  <2>2. r \notin K <=> NA \in {input.i[r], input.j[r], w[r]}
    BY <1>2, <1>5 DEF KnownRows, Model!Known
  <2> QED BY <2>1, <2>2
<1>11. /\ overlap.n = Model!Cardinality({<<input.i[r], input.j[r]>> : r \in T})
       /\ overlap.common = Model!Cardinality({<<input.i[r], input.j[r]>> : r \in T} \cap Model!Range(input.truth))
  <2>1. PairsOf(T) = {<<input.i[r], input.j[r]>> : r \in T}
    BY DEF PairsOf, Model!Pair
  <2>2. Range(input.truth) = Model!Range(input.truth)
    BY DEF Range, Model!Range
  <2>3. overlap.n = Cardinality(PairsOf(T)) /\ overlap.common = Cardinality(PairsOf(T) \cap Range(input.truth))
    BY <1>1, <1>3 DEF Compared
  <2> QED BY <2>1, <2>2, <2>3, SameCardinality
<1>12. \A r \in T : /\ Model!Cardinality({q \in T : input.i[q] = input.i[r]}) <= input.n
                   /\ Model!Cardinality({q \in T : input.j[q] = input.j[r]}) <= input.m
  BY <1>8
<1>13. \A r \in Model!Rows :
         /\ out[r] = FALSE =>
              \/ Model!Cardinality({q \in Earlier(r) : input.i[q] = input.i[r]}) = input.n
              \/ Model!Cardinality({q \in Earlier(r) : input.j[q] = input.j[r]}) = input.m
         /\ (out[r] = NA) = (NA \in {input.i[r], input.j[r], w[r]})
  <2> HIDE DEF Earlier
  <2> QED BY <1>9, <1>10
<1> QED BY <1>11, <1>12, <1>13 DEF Model!SelectionExact, T, w

(* Of every linkage, whatever the records, the comparisons, the parameters *)
(* and the path EM takes through them: equal rows are one pattern and      *)
(* each is counted with its own, every pair is weighed by its own levels   *)
(* at the parameters returned, no record is linked more often than its     *)
(* allowance, a pair is turned down only for earlier links that used one   *)
(* up, and the comparison with the truth counts each pair once.            *)
THEOREM LinksFound == LinkageSpec => []LinksExact
<1>1. ASSUME LinkageInit PROVE ModelInv /\ PairsInv
  <2>1. ASSUME NEW c \in Sessions, Open(c) PROVE PairsInv
    <3>1. SessionAdmitted(c)
      BY SessionAssumption
    <3> QED BY <2>1, <3>1, OpenPairs
  <2>2. ASSUME Open(NoSession) PROVE PairsInv
    BY <2>2, NoSessionAdmitted, OpenPairs
  <2>3. PairsInv
    BY <1>1, <2>1, <2>2 DEF LinkageInit
  <2>4. ASSUME NEW in \in Given, Model!Start(in) PROVE ModelInv
    <3>1. Model!Admitted(in)
      BY ModelAssumption
    <3> QED BY <2>4, <3>1, BeginHolds DEF Model!Start
  <2>5. ASSUME Model!Begin(Ask(AnyOption, <<>>, <<>>, <<>>, <<>>), "waiting") PROVE ModelInv
    BY <2>5, BeginHolds
  <2> QED BY <1>1, <2>3, <2>4, <2>5 DEF LinkageInit
<1>2. ASSUME ModelInv, PairsInv, SessionInv, [LinkageNext]_recordVars PROVE ModelInv' /\ PairsInv'
  BY <1>2, ModelKeeps, PairsKeep DEF SessionInv
<1>3. ASSUME ModelInv PROVE LinksExact
  <2>1. Model!PatternsCollapse
    BY <1>3, PatternsTold DEF ModelInv
  <2> QED BY <1>3, <2>1, WeightsTold, SelectionTold
        DEF LinksExact, Model!LinksExact, Model!WeightsBelong
<1> QED BY <1>1, <1>2, <1>3, Invariance, PTL DEF LinkageSpec
=============================================================================
