----------------------------- MODULE LinkageModel -----------------------------
(* The Fellegi-Sunter side of record linkage (linkage_model.cpp, called      *)
(* from linkage_model.R): scored pairs are collapsed into agreement          *)
(* patterns, a model is fitted to them by EM or a fitted one applied,        *)
(* pairs are selected under two allowances, and the selection is compared    *)
(* with a known truth. Probabilities are abstract: a point stands for all    *)
(* the parameters of the model, EM is any function from points to points,    *)
(* and a level's weight at a point is a whole number.                        *)
EXTENDS Integers, Sequences, FiniteSets, SequencesExt

CONSTANTS
  NA,            \* a missing level, index or weight
  Levels,        \* Levels[k]: the number of levels of comparison k
  Points,        \* the parameter points EM moves among, integers
  Tolerance,     \* EM has converged when it moves less than this
  LevelWeight(_, _, _) \* (point, k, level): log2(m / u) there


VARIABLES
  input,         \* what the caller gives (see Inputs)
  stage,         \* "waiting", "collapse", "fit", "score", "select", "done", "stopped"
  codes,         \* the patterns seen and, after them, the row being looked up
  distinct,      \* how many of them are patterns
  seen,          \* the hash map's keys: row numbers, compared by their codes
  counts,        \* rows per pattern
  index,         \* the pattern of each row done
  point,         \* the parameters
  iteration, converged,
  loglikAt,      \* the point the log likelihood was last taken at
  weight,        \* the weight of each pattern
  todo,          \* the pairs still to be offered to the selection
  usedI, usedJ,  \* links taken by each record of either side
  out,           \* the selection: TRUE, FALSE or NA per pair
  overlap        \* sizes of the two pair sets and of what they share

patternVars == <<codes, distinct, seen, counts, index>>
fitVars == <<point, iteration, converged, loglikAt>>
selectVars == <<todo, usedI, usedJ, out>>

Rows == DOMAIN input.levels
Width == DOMAIN Levels

(* A caller's input is [use, levels, i, j, truth, n, m, point, em, maxIter]: *)
(* "fit" starts EM at the point, "score" applies the model at the point.     *)
Fitting(levels) ==
  \A r \in DOMAIN levels, k \in Width : levels[r][k] \in {NA} \cup 0 .. Levels[k] - 1

(* em_linkage() and select_greedy() take whole numbers from 1 up; the levels *)
(* of a fit are those of its rows (.as_level_list()).                        *)
OptionAdmitted(o) ==
  /\ o.use \in {"fit", "score"}
  /\ {o.n, o.m} \subseteq Nat \ {0} /\ o.maxIter \in Nat
  /\ o.point \in Points
  /\ o.use = "fit" => o.em \in [Points -> Points]
Admitted(in) ==
  /\ OptionAdmitted(in)
  /\ in.levels \in Seq(Range(in.levels))
  /\ DOMAIN in.i = DOMAIN in.levels /\ DOMAIN in.j = DOMAIN in.levels
  /\ \A r \in DOMAIN in.levels, k \in Width : in.levels[r][k] \in {NA} \cup Nat
  /\ in.use = "fit" => Fitting(in.levels)

Begin(in, where) ==
  /\ input = in
  /\ stage = where
  /\ codes = <<>> /\ distinct = 0 /\ seen = {} /\ counts = <<>> /\ index = <<>>
  /\ point = in.point /\ iteration = 0 /\ converged = FALSE /\ loglikAt = NA
  /\ weight = <<>>
  /\ todo = <<>> /\ usedI = <<>> /\ usedJ = <<>> /\ out = <<>>
  /\ overlap = NA

Start(in) == Begin(in, "collapse")

----------------------------------------------------------------------------
(* fast_agreement_patterns_impl(). The row to look up is written in the      *)
(* slot just past the patterns, where the map can hash and compare it like   *)
(* any other; a row already known leaves it there to be overwritten.         *)

Slot == distinct + 1

WithCandidate(row) == SubSeq(codes, 1, distinct) \o <<row>>

SameCodes(table, a) == {b \in seen : table[b] = table[a]}

CollapseRow ==
  /\ stage = "collapse"
  /\ Len(index) < Len(input.levels)
  /\ LET row == input.levels[Len(index) + 1]
         table == WithCandidate(row)
         found == SameCodes(table, Slot)
     IN  /\ codes' = table
         /\ IF found = {}
            THEN /\ seen' = seen \cup {Slot}
                 /\ counts' = Append(counts, 1)
                 /\ index' = Append(index, Slot)
                 /\ distinct' = distinct + 1
            ELSE LET p == CHOOSE b \in found : TRUE
                 IN  /\ counts' = [counts EXCEPT ![p] = @ + 1]
                     /\ index' = Append(index, p)
                     /\ UNCHANGED <<seen, distinct>>
  /\ UNCHANGED <<input, stage, fitVars, weight, selectVars, overlap>>

Collapsed ==
  /\ stage = "collapse"
  /\ Len(index) = Len(input.levels)
  /\ stage' = IF input.use = "score" THEN "score"
              ELSE IF Rows = {} THEN "stopped"    \* "There are no pairs to fit."
              ELSE "fit"
  /\ UNCHANGED <<input, patternVars, fitVars, weight, selectVars, overlap>>

----------------------------------------------------------------------------
(* fast_em_linkage_impl() and fast_match_weight_impl().                      *)

(* pattern_loglik() of one class minus the other: comparisons the pair has   *)
(* no value for are skipped.                                                 *)
PatternWeight(p, pattern) ==
  LET total[k \in 0 .. Len(Levels)] ==
        IF k = 0 THEN 0
        ELSE total[k - 1] + IF pattern[k] = NA THEN 0 ELSE LevelWeight(p, k, pattern[k])
  IN  total[Len(Levels)]

Moved(p, q) == IF p > q THEN p - q ELSE q - p

(* One E step and one M step: the log likelihood is that of the parameters   *)
(* before the M step.                                                        *)
Iterate ==
  /\ stage = "fit"
  /\ ~converged /\ iteration < input.maxIter
  /\ loglikAt' = point
  /\ point' = input.em[point]
  /\ converged' = (Moved(point, input.em[point]) < Tolerance)
  /\ iteration' = iteration + 1
  /\ UNCHANGED <<input, stage, patternVars, weight, selectVars, overlap>>

PairWeight(w) == [r \in Rows |-> w[index[r]]]

(* The elements of S one after the other as the pairs of R have them.       *)
InOrder(S, R) ==
  [k \in 1 .. Cardinality(S) |->
     CHOOSE e \in S : Cardinality({d \in S : <<d, e>> \in R}) = k - 1]

(* The selection's std::stable_sort() over the pairs with nothing missing.   *)
Known(w) == {r \in Rows : input.i[r] # NA /\ input.j[r] # NA /\ w[index[r]] # NA}
Heavier(w, a, b) ==
  \/ w[index[a]] > w[index[b]]
  \/ w[index[a]] = w[index[b]] /\ a < b
Offered(w) == InOrder(Known(w), {r \in Known(w) \X Known(w) : Heavier(w, r[1], r[2])})

Weighted(w) ==
  /\ weight' = w
  /\ stage' = "select"
  /\ todo' = Offered(w)
  /\ usedI' = [r \in Range(input.i) |-> 0]
  /\ usedJ' = [r \in Range(input.j) |-> 0]
  /\ out' = [r \in Rows |-> IF r \in Known(w) THEN FALSE ELSE NA]
  /\ UNCHANGED <<input, patternVars, fitVars, overlap>>

(* The last E step, with the parameters that are returned. *)
FitDone ==
  /\ stage = "fit"
  /\ converged \/ iteration >= input.maxIter
  /\ Weighted([p \in 1 .. distinct |-> PatternWeight(point, codes[p])])

OutOfModel(pattern) == \E k \in Width : pattern[k] # NA /\ pattern[k] \notin 0 .. Levels[k] - 1

(* A fitted model applied to pairs it has not seen: a level it has no        *)
(* probability for leaves the pair without a weight.                         *)
Score ==
  /\ stage = "score"
  /\ Weighted([p \in 1 .. distinct |->
                 IF OutOfModel(codes[p]) THEN NA ELSE PatternWeight(point, codes[p])])

----------------------------------------------------------------------------
(* fast_select_greedy_impl(): one pair at a time, best first.                *)

(* Variant: a pair counts against its first record before the second is     *)
(* looked at.                                                                *)
OfferCountsFirst ==
  /\ stage = "select"
  /\ todo # <<>>
  /\ LET at == Head(todo)
         a == input.i[at]
         b == input.j[at]
         take == usedI[a] < input.n /\ usedJ[b] < input.m
     IN  /\ usedI' = IF usedI[a] < input.n THEN [usedI EXCEPT ![a] = @ + 1] ELSE usedI
         /\ usedJ' = IF take THEN [usedJ EXCEPT ![b] = @ + 1] ELSE usedJ
         /\ out' = IF take THEN [out EXCEPT ![at] = TRUE] ELSE out
  /\ todo' = Tail(todo)
  /\ UNCHANGED <<input, stage, patternVars, fitVars, weight, overlap>>

Offer ==
  /\ stage = "select"
  /\ todo # <<>>
  /\ LET at == Head(todo)
         a == input.i[at]
         b == input.j[at]
         take == usedI[a] < input.n /\ usedJ[b] < input.m
     IN  /\ usedI' = IF take THEN [usedI EXCEPT ![a] = @ + 1] ELSE usedI
         /\ usedJ' = IF take THEN [usedJ EXCEPT ![b] = @ + 1] ELSE usedJ
         /\ out' = IF take THEN [out EXCEPT ![at] = TRUE] ELSE out
  /\ todo' = Tail(todo)
  /\ UNCHANGED <<input, stage, patternVars, fitVars, weight, overlap>>

(* fast_pair_overlap_impl(): a pair of the prediction counts where it is     *)
(* seen first.                                                               *)
Pair(r) == <<input.i[r], input.j[r]>>
Counted(rows) == {r \in rows : NA \notin Range(Pair(r)) /\ \A q \in rows : q < r => Pair(q) # Pair(r)}

Evaluate ==
  /\ stage = "select"
  /\ todo = <<>>
  /\ LET predicted == {r \in Rows : out[r] = TRUE}
         known == {t \in Range(input.truth) : NA \notin Range(t)}
     IN  overlap' = [n |-> Cardinality(Counted(predicted)), other |-> Cardinality(known),
                     common |-> Cardinality({r \in Counted(predicted) : Pair(r) \in known})]
  /\ stage' = "done"
  /\ UNCHANGED <<input, patternVars, fitVars, weight, selectVars>>

ModelNext == CollapseRow \/ Collapsed \/ Iterate \/ FitDone \/ Score \/ Offer \/ Evaluate

----------------------------------------------------------------------------
(* Patterns are pairwise different, each row done is under the pattern of    *)
(* its own levels, and each count is the number of those rows, however many  *)
(* rows were written into the scratch slot in between                        *)
(* (fast_agreement_patterns_impl()).                                         *)
PatternsCollapse ==
  /\ distinct = Cardinality({codes[p] : p \in 1 .. distinct})
  /\ \A r \in DOMAIN index : index[r] \in 1 .. distinct /\ codes[index[r]] = input.levels[r]
  /\ \A p \in 1 .. distinct : counts[p] = Cardinality({r \in DOMAIN index : index[r] = p})

(* A pair's weight is that of its own levels at the parameters returned, not *)
(* at those of an iteration before, and it is missing exactly when the model *)
(* has no probability for one of them; the fit stopped because it converged  *)
(* or ran out of iterations (fast_em_linkage_impl(), match_weights()).       *)
WeightsOfLevels ==
  stage \in {"select", "done"} =>
    /\ \A r \in Rows :
         PairWeight(weight)[r] =
           IF \E k \in Width : input.levels[r][k] # NA /\ input.levels[r][k] >= Levels[k]
           THEN NA ELSE PatternWeight(point, input.levels[r])
    /\ iteration <= input.maxIter
    /\ input.use = "fit" =>
         /\ converged \/ iteration = input.maxIter
         /\ converged => Moved(loglikAt, point) < Tolerance

(* Through the collapse and the fit a pair keeps the levels it came with.   *)
WeightsBelong == PatternsCollapse /\ WeightsOfLevels

(* No record is linked more often than its allowance, and a pair is turned   *)
(* down only when pairs that come before it (heavier, or as heavy and given  *)
(* earlier) have used up the allowance of one of its records; a pair turned  *)
(* down uses up nothing. The evaluation counts distinct pairs.               *)
SelectionExact ==
  stage = "done" =>
    LET w == PairWeight(weight)
        taken == {r \in Rows : out[r] = TRUE}
        Before(a, b) == w[a] > w[b] \/ (w[a] = w[b] /\ a < b)
        Links(side, r, S) == {q \in S : side[q] = side[r]}
        Earlier(r) == {q \in taken : Before(q, r)}
        pairs == {<<input.i[r], input.j[r]>> : r \in taken}
    IN  /\ \A r \in taken : /\ Cardinality(Links(input.i, r, taken)) <= input.n
                            /\ Cardinality(Links(input.j, r, taken)) <= input.m
        /\ \A r \in Rows :
             /\ out[r] = FALSE => \/ Cardinality(Links(input.i, r, Earlier(r))) = input.n
                                  \/ Cardinality(Links(input.j, r, Earlier(r))) = input.m
             /\ (out[r] = NA) = (NA \in {input.i[r], input.j[r], w[r]})
        /\ overlap.n = Cardinality(pairs)
        /\ overlap.common = Cardinality(pairs \cap Range(input.truth))

(* Of the model: every pair is weighed by its own levels, and the links      *)
(* selected are those of the greedy order.                                   *)
LinksExact == WeightsBelong /\ SelectionExact
=============================================================================
