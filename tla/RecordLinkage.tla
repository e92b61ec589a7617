----------------------------- MODULE RecordLinkage -----------------------------
(* A linkage from data to links: rLink() pairs and scores the records, the   *)
(* score columns are the levels a model is fitted to or applied to, and the  *)
(* pairs are selected by weight. The steps after rLink() are calls of their  *)
(* own, so the model may also start from levels the caller has already.      *)
EXTENDS Integers, Sequences, FiniteSets, SequencesExt
-----------------------------------------------------------------------------
(* rLink(): one blocking key per pass and side, the pairs that share one,    *)
(* and a score column per comparator. Terms are expressions evaluated        *)
(* against the data, which need not be pure; what an expression gives is     *)
(* kept per side for the passes, per record for the comparators, and, spread *)
(* to the pairs, only until the last comparator that reads it. The order of  *)
(* the pairs is CandidatePairs' subject: here they come in any one order.    *)
(* An expression has a value here: one that gives NULL leaves no message in   *)
(* the code, and drops out of the key or reaches the comparator as NULL.     *)
CONSTANTS
  NA,              \* a missing value of a record
  Records,         \* Records[d]: how many records data d has
  Bad,             \* what an expression that cannot be evaluated gives
  Outcomes(_, _)   \* (side, expression): what evaluating it can give, each Bad
                   \* or a vector of a value per record of the side

VARIABLES
  call,        \* [dedupe, matchMissing, passes, cmp, given]
  session,     \* "keys", "compare", "done", "stopped"
  work,        \* the steps of the session still to be taken
  termCache,   \* side -> expression -> value, for the passes
  keys,        \* side -> keys of the passes done
  problems,    \* messages collected: the terms that could not be evaluated
  recCache,    \* record id -> value, for the comparators
  pairCache,   \* pair id -> value spread to the pairs
  xi, yi,      \* the records of each pair
  columns,     \* per comparator done: what it was given, per pair
  drawn,       \* history: session's state, side, expression -> all that evaluating it gave
  spread       \* history: pair ids in the order they were spread

sessionVars == <<call, session, work, termCache, keys, problems, recCache, pairCache,
                 xi, yi, columns, drawn, spread>>

Sides == {1, 2}
(* The data behind a side: `d2` is `data_1` when deduplicating. *)
Data(side) == IF call.dedupe THEN 1 ELSE side

(* A call has passes and comparators, one after the other. A pass is <<terms  *)
(* of side 1, terms of side 2>>; a comparator is <<expression 1, expression  *)
(* 2>>.                                                                      *)
SessionAdmitted(c) ==
  /\ c.dedupe \in BOOLEAN
  /\ c.passes \in Seq(Range(c.passes))
  /\ \A p \in DOMAIN c.passes : \A side \in Sides :
       c.passes[p][side] \in Seq(Range(c.passes[p][side]))
  /\ c.cmp \in Seq(Range(c.cmp))
  /\ c.given \in Seq(Range(c.given))

With(f, x, v) == [y \in DOMAIN f \cup {x} |-> IF y = x THEN v ELSE f[y]]

KeyWork(c) ==
  LET Terms(p, side) == [t \in DOMAIN c.passes[p][side] |-> <<p, side, t>>]
      Pass(p) == Terms(p, 1) \o (IF c.dedupe THEN <<>> ELSE Terms(p, 2)) \o <<<<p>>>>
  IN  FlattenSeq([p \in DOMAIN c.passes |-> Pass(p)])

CompareWork(c) == FlattenSeq([i \in DOMAIN c.cmp |-> <<<<i, 1>>, <<i, 2>>, <<i>>>>])

Open(c) ==
  /\ call = c
  /\ session = IF c.passes = <<>> THEN "compare" ELSE "keys"
  /\ work = IF c.passes = <<>> THEN CompareWork(c) ELSE KeyWork(c)
  /\ termCache = [side \in Sides |-> <<>>] /\ keys = [side \in Sides |-> <<>>]
  /\ problems = <<>> /\ recCache = <<>> /\ pairCache = <<>>
  /\ xi = [q \in DOMAIN c.given |-> c.given[q][1]]
  /\ yi = [q \in DOMAIN c.given |-> c.given[q][2]]
  /\ columns = <<>> /\ drawn = <<>> /\ spread = <<>>

Draw(side, e, v) ==
  LET at == <<session, Data(side), e>>
  IN  drawn' = With(drawn, at, Append(IF at \in DOMAIN drawn THEN drawn[at] ELSE <<>>, v))

----------------------------------------------------------------------------
(* The blocking keys.                                                        *)

(* .rlink_cached_term(): a term that failed is remembered too, so that its   *)
(* message is left once.                                                     *)
CachedTerm ==
  /\ session = "keys" /\ work # <<>> /\ Len(Head(work)) = 3
  /\ LET p == Head(work)[1]
         side == Head(work)[2]
         e == call.passes[p][side][Head(work)[3]]
     IN  \/ /\ e \in DOMAIN termCache[side]
            /\ UNCHANGED <<termCache, problems, drawn>>
         \/ /\ e \notin DOMAIN termCache[side]
            /\ \E v \in Outcomes(Data(side), e) :
                 /\ termCache' = [termCache EXCEPT ![side] = With(@, e, v)]
                 /\ problems' = IF v = Bad THEN Append(problems, <<side, e>>) ELSE problems
                 /\ Draw(side, e, v)
  /\ work' = Tail(work)
  /\ UNCHANGED <<call, session, keys, recCache, pairCache, xi, yi, columns, spread>>

(* .rlink_key(): a missing term makes the key missing unless missings are to *)
(* be matched, when a placeholder takes its place.                           *)
KeyOf(parts, side) ==
  [r \in 1 .. Records[Data(side)] |->
     LET row == [t \in DOMAIN parts |-> parts[t][r]]
     IN  IF NA \in Range(row) /\ ~call.matchMissing THEN NA ELSE row]

Parts(p, side) == [t \in DOMAIN call.passes[p][side] |-> termCache[side][call.passes[p][side][t]]]

PassKey ==
  /\ session = "keys" /\ work # <<>> /\ Len(Head(work)) = 1
  /\ LET p == Head(work)[1]
         one == KeyOf(Parts(p, 1), 1)
     IN  keys' = IF problems # <<>> THEN keys   \* `next`: no key once a term has failed
                 ELSE [keys EXCEPT ![1] = Append(@, one),
                                   ![2] = Append(@, IF call.dedupe THEN one ELSE KeyOf(Parts(p, 2), 2))]
  /\ work' = Tail(work)
  /\ UNCHANGED <<call, session, termCache, problems, recCache, pairCache, xi, yi, columns, drawn, spread>>

Blocked ==
  {pair \in (1 .. Records[Data(1)]) \X (1 .. Records[Data(2)]) :
     /\ call.dedupe => pair[1] < pair[2]
     /\ \E p \in DOMAIN keys[1] : /\ keys[1][p][pair[1]] # NA
                                  /\ keys[1][p][pair[1]] = keys[2][p][pair[2]]}

Stop ==
  /\ session' = "stopped"
  /\ work' = <<>>
  /\ UNCHANGED <<call, termCache, keys, problems, recCache, pairCache, xi, yi, columns, drawn, spread>>

KeysFailed == session = "keys" /\ work = <<>> /\ problems # <<>> /\ Stop

(* .rlink_check_sep(): a value with one of the control characters that join  *)
(* the terms of a pass, or stand for a missing one, refuses the call. What   *)
(* characters a value has is not modelled: any pass that uses one may meet   *)
(* it.                                                                       *)
KeyRefused ==
  /\ session = "keys" /\ work # <<>> /\ Len(Head(work)) = 1 /\ problems = <<>>
  /\ call.matchMissing \/ \E side \in Sides : Len(call.passes[Head(work)[1]][side]) > 1
  /\ Stop

(* The pairs of block_pairs(): a record's partners in order, record by record. *)
Sooner(d, e) == d[1] < e[1] \/ (d[1] = e[1] /\ d[2] < e[2])
InRecordOrder(S) ==
  [k \in 1 .. Cardinality(S) |-> CHOOSE e \in S : Cardinality({d \in S : Sooner(d, e)}) = k - 1]

FindPairs ==
  /\ session = "keys" /\ work = <<>> /\ problems = <<>>
  /\ LET pairs == InRecordOrder(Blocked)
     IN  /\ xi' = [q \in DOMAIN pairs |-> pairs[q][1]]
         /\ yi' = [q \in DOMAIN pairs |-> pairs[q][2]]
  /\ session' = "compare" /\ work' = CompareWork(call)
  /\ UNCHANGED <<call, termCache, keys, problems, recCache, pairCache, columns, drawn, spread>>

----------------------------------------------------------------------------
(* The comparators.                                                          *)

RecId(i, k) == <<IF call.dedupe THEN 0 ELSE k, call.cmp[i][k]>>
PairId(i, k) == <<k, call.cmp[i][k]>>
(* Variant: dropped after the first comparator that reads it. *)
FirstUse(id) == Min({i \in DOMAIN call.cmp : id \in {PairId(i, 1), PairId(i, 2)}})

LastUse(id) == Max({i \in DOMAIN call.cmp : id \in {PairId(i, 1), PairId(i, 2)}})

RecordTerm ==
  /\ session = "compare" /\ work # <<>> /\ Len(Head(work)) = 2
  /\ LET i == Head(work)[1]
         k == Head(work)[2]
         id == RecId(i, k)
         e == call.cmp[i][k]
     IN  \/ /\ id \in DOMAIN recCache
            /\ UNCHANGED <<recCache, problems, drawn>>
         \/ /\ id \notin DOMAIN recCache
            /\ \E v \in Outcomes(Data(k), e) :
                 /\ recCache' = IF v = Bad THEN recCache ELSE With(recCache, id, v)
                 /\ problems' = IF v = Bad THEN Append(problems, <<k, e>>) ELSE problems
                 /\ Draw(k, e, v)
  /\ work' = Tail(work)
  /\ UNCHANGED <<call, session, termCache, keys, pairCache, xi, yi, columns, spread>>

CompareFailed ==
  session = "compare" /\ work # <<>> /\ Len(Head(work)) = 1 /\ problems # <<>> /\ Stop

(* A comparator may give scores of a wrong type or number, which refuses the *)
(* call.                                                                     *)
ScoreRefused ==
  session = "compare" /\ work # <<>> /\ Len(Head(work)) = 1 /\ problems = <<>> /\ Stop

At(v, rows) == [q \in DOMAIN rows |-> v[rows[q]]]

(* Both terms are spread to the pairs unless an earlier comparator's copy is *)
(* still there; what no later comparator reads is dropped before the         *)
(* comparator is called. The conversion of the score reads the records'      *)
(* values again.                                                             *)
Compare ==
  /\ session = "compare" /\ work # <<>> /\ Len(Head(work)) = 1 /\ problems = <<>>
  /\ LET i == Head(work)[1]
         ids == <<PairId(i, 1), PairId(i, 2)>>
         fresh == <<At(recCache[RecId(i, 1)], xi), At(recCache[RecId(i, 2)], yi)>>
         Filled(cache, k) == IF ids[k] \in DOMAIN cache THEN cache ELSE With(cache, ids[k], fresh[k])
         both == Filled(Filled(pairCache, 1), 2)
         Missing(k) == IF ids[k] \in DOMAIN pairCache THEN <<>> ELSE <<ids[k]>>
     IN  /\ columns' = Append(columns, [score |-> <<both[ids[1]], both[ids[2]]>>,
                                        convert |-> fresh])
         /\ pairCache' = [id \in DOMAIN both \ {x \in Range(ids) : LastUse(x) = i} |-> both[id]]
         /\ spread' = spread \o Missing(1) \o Missing(2)
  /\ work' = Tail(work)
  /\ UNCHANGED <<call, session, termCache, keys, problems, recCache, xi, yi, drawn>>

CompareDone ==
  /\ session = "compare" /\ work = <<>>
  /\ session' = "done"
  /\ UNCHANGED <<call, work, termCache, keys, problems, recCache, pairCache, xi, yi, columns, drawn, spread>>

SessionNext ==
  CachedTerm \/ PassKey \/ KeyRefused \/ KeysFailed \/ FindPairs
  \/ RecordTerm \/ CompareFailed \/ ScoreRefused \/ Compare \/ CompareDone

----------------------------------------------------------------------------
(* Every comparator is given, and its score converted with, the values that  *)
(* its own two terms gave for the records of each pair, whatever earlier     *)
(* comparators left in or dropped from the caches; an expression that is not *)
(* pure reads the same everywhere (the comparator loop of rLink()).          *)
ScoresOwnTerms ==
  \A i \in DOMAIN columns :
    LET Own(k) == drawn[<<"compare", Data(k), call.cmp[i][k]>>][1]
    IN  /\ columns[i].score = <<At(Own(1), xi), At(Own(2), yi)>>
        /\ columns[i].convert = columns[i].score

(* A term is evaluated once per side and stage unless it fails, a term of a  *)
(* pass even then; a term is spread to the pairs once, and its copy is kept  *)
(* exactly while a comparator to come reads it; every message names a term   *)
(* that failed, and no call that saw one fail gives a result (the caches of  *)
(* rLink()).                                                                 *)
CachesTight ==
  /\ \A at \in DOMAIN drawn : (at[1] = "keys" \/ Bad \notin Range(drawn[at])) => Len(drawn[at]) = 1
  /\ IsInjective(spread)
  /\ DOMAIN pairCache =
       {id \in Range(spread) : \E i \in DOMAIN call.cmp :
                                 i > Len(columns) /\ id \in {PairId(i, 1), PairId(i, 2)}}
  /\ {<<Data(m[1]), m[2]>> : m \in Range(problems)}
       = {<<at[2], at[3]>> : at \in {a \in DOMAIN drawn : Bad \in Range(drawn[a])}}
  /\ session = "done" => problems = <<>>

(* Of a session: every column is made of its own two terms, and nothing is   *)
(* kept longer than it is read.                                              *)
SessionExact == ScoresOwnTerms /\ CachesTight
-----------------------------------------------------------------------------
(* The model, and the linkage as a whole.                                    *)
CONSTANTS
  Levels, Points, Tolerance, LevelWeight(_, _, _),
  Sessions,      \* the calls of rLink()
  Options,       \* what a caller may ask of the model, apart from the rows
  Given          \* inputs of the model that come from elsewhere

ASSUME SessionAssumption ==
  /\ Records \in [Sides -> Nat]
  /\ \A c \in Sessions : SessionAdmitted(c)

VARIABLES input, modelStep, codes, distinct, seen, counts, index, point, iteration,
          converged, loglikAt, weight, todo, usedI, usedJ, out, overlap

Model == INSTANCE LinkageModel WITH stage <- modelStep

(* A level of a comparison is numbered from 0; the points stand for the      *)
(* model's probabilities, and points that differ by less than the tolerance  *)
(* count as converged. Rows from elsewhere are as long as their pairs.       *)
ASSUME ModelAssumption ==
  /\ Levels \in Seq(Nat \ {0}) /\ Levels # <<>>
  /\ Points \subseteq Int /\ Tolerance \in Nat \ {0} /\ NA \notin BOOLEAN
  /\ \A p \in Points : \A k \in DOMAIN Levels : \A l \in 0 .. Levels[k] - 1 :
       LevelWeight(p, k, l) \in Int
  /\ \A o \in Options : Model!OptionAdmitted(o)
  /\ \A in \in Given : Model!Admitted(in)

linkVars == <<input, modelStep, codes, distinct, seen, counts, index, point, iteration,
              converged, loglikAt, weight, todo, usedI, usedJ, out, overlap>>
recordVars == <<sessionVars, linkVars>>

NoSession == [dedupe |-> FALSE, matchMissing |-> FALSE, passes |-> <<>>, cmp |-> <<>>, given |-> <<>>]
Ask(o, levels, i, j, truth) ==
  [use |-> o.use, n |-> o.n, m |-> o.m, point |-> o.point, em |-> o.em, maxIter |-> o.maxIter,
   levels |-> levels, i |-> i, j |-> j, truth |-> truth]
AnyOption == CHOOSE o \in Options : TRUE

LinkageInit ==
  \/ /\ \E c \in Sessions : Open(c)
     /\ Model!Begin(Ask(AnyOption, <<>>, <<>>, <<>>, <<>>), "waiting")
  \/ /\ Open(NoSession)
     /\ \E in \in Given : Model!Start(in)

(* A score of equality, as a logical column: missing if either value is. *)
LevelOf(a, b) == IF NA \in {a, b} THEN NA ELSE IF a = b THEN 1 ELSE 0

Scored ==
  [q \in DOMAIN xi |->
     [k \in DOMAIN columns |-> LevelOf(columns[k].score[1][q], columns[k].score[2][q])]]

(* The scored pairs are handed on; the truth is known for some of them. *)
Link ==
  /\ session = "done" /\ modelStep = "waiting"
  /\ Len(columns) = Len(Levels)
  /\ \E o \in Options :
       /\ o.use = "fit" => Model!Fitting(Scored)
       /\ input' = Ask(o, Scored, xi, yi, <<<<1, 1>>, <<1, 2>>>>)
       /\ point' = o.point
  /\ modelStep' = "collapse"
  /\ UNCHANGED <<codes, distinct, seen, counts, index, iteration, converged, loglikAt, weight,
                 todo, usedI, usedJ, out, overlap>>
  /\ UNCHANGED sessionVars

LinkageNext ==
  \/ SessionNext /\ UNCHANGED linkVars
  \/ Link
  \/ Model!ModelNext /\ UNCHANGED sessionVars

LinkageSpec == LinkageInit /\ [][LinkageNext]_recordVars

(* Of the model see LinkageModel: every pair is weighed by its own levels,   *)
(* and the links selected are those of the greedy order.                     *)
LinksExact == Model!LinksExact
=============================================================================
