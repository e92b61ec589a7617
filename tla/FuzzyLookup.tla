------------------------------ MODULE FuzzyLookup ------------------------------
(***************************************************************************)
(* fuzzy_match() and fuzzy_top_n(): one call of fast_fuzzy_top_n_impl()    *)
(* (fuzzy_lookup.cpp). Each distinct query is scored against the table; a  *)
(* list keeps the top_n best, and what cannot get into it is skipped by a  *)
(* bound on its score that rises with the list's last one.                 *)
(*                                                                         *)
(* Threads share nothing but the table: a query's cells are its own. So    *)
(* the distinct queries are taken whole, in any order. Scores are exact    *)
(* fractions of Full, not rounded to floating point. Distances are those   *)
(* of EditDistance, which EditKernels shows the kernels to compute, for    *)
(* bytes as for code points.                                               *)
(***************************************************************************)
EXTENDS EditDistance

CONSTANTS
  NA,        \* the missing string
  Calls      \* [x, table, method, top_n, p, min_score, max_distance, match_na]

(* A common denominator of the scores of strings of up to five characters  *)
(* and of the prefix scales, multiples of 1/20.                            *)
Full == 7200

ASSUME LookupAssumption ==
  /\ MaxLength <= 5
  /\ Calls \subseteq
       [x : Seq(Strings \cup {NA}), table : Seq(Strings \cup {NA}),
        method : {"jaro_winkler", "levenshtein", "osa", "damerau"}, top_n : Nat \ {0},
        p : 0 .. 5, min_score : 0 .. Full, max_distance : Nat \cup {-1}, match_na : BOOLEAN]

VARIABLES
  call,
  waiting,  \* distinct queries that no thread has taken yet
  query,    \* the query being scored, 0 between two
  choice,   \* table entries scanned for it
  best,     \* its list [score, index], the best first
  cells,    \* what is written for each query
  copied    \* queries the copying loop has come to

vars == <<call, waiting, query, choice, best, cells, copied>>
-----------------------------------------------------------------------------
(* Jaro: each character of a claims the first free equal character of b in *)
(* its window.                                                             *)
Claims(a, b) ==
  LET range == Max({0, Max({Len(a), Len(b)}) \div 2 - 1})
      claim(claims, i) ==
        LET free == {j \in 1 .. Len(b) : j \in i - range .. i + range /\ a[i] = b[j]}
                      \ {claims[k][2] : k \in DOMAIN claims}
        IN  IF free = {} THEN claims ELSE Append(claims, <<i, Min(free)>>)
  IN  FoldLeft(claim, <<>>, [i \in DOMAIN a |-> i])

Jaro(a, b) ==
  LET claims == Claims(a, b)
      m      == Len(claims)
      inB    == SetToSortSeq({claims[k][2] : k \in 1 .. m}, <)
      t      == Cardinality({k \in 1 .. m : a[claims[k][1]] # b[inB[k]]})
  IN  CASE a = b -> Full
        [] a # b /\ m = 0 -> 0
        [] OTHER -> ((Full * m) \div Len(a) + (Full * m) \div Len(b)
                       + (Full * (2 * m - t)) \div (2 * m)) \div 3

Boosted(jaro, prefix) == jaro + (prefix * call.p * (Full - jaro)) \div 20

JaroWinkler(a, b) ==
  LET jaro == Jaro(a, b)
  IN  IF jaro = 0 THEN 0 ELSE Boosted(jaro, Min({4, Len(LongestCommonPrefix({a, b}))}))

(* jaro_winkler_bound(): the most that two strings of these lengths reach. *)
JaroWinklerBound(la, lb) ==
  LET shorter == Min({la, lb})
      longer  == Max({la, lb})
  IN  IF shorter = 0 THEN IF la = lb THEN Full ELSE 0
      ELSE Boosted((2 * Full + (Full * shorter) \div longer) \div 3, Min({4, shorter}))

Distance(a, b) ==
  CASE call.method = "levenshtein" -> Levenshtein(a, b)
    [] call.method = "osa" -> Osa(a, b)
    [] call.method = "damerau" -> Damerau(a, b)

EditScore(d, a, b) ==
  IF Max({Len(a), Len(b)}) = 0 THEN Full ELSE Full - (Full * d) \div Max({Len(a), Len(b)})

Abs(n) == Max({n, -n})

Better(c, d) == c.score > d.score \/ (c.score = d.score /\ c.index < d.index)
-----------------------------------------------------------------------------
X == call.x
Table == call.table

(* The first query equal to query i, and the distinct ones. *)
Representative(i) == Min({j \in DOMAIN X : X[j] = X[i]})
Distinct == {i \in DOMAIN X : Representative(i) = i}

(* Where the table has a string. *)
Places(s) == {i \in DOMAIN Table : Table[i] = s}

(* Whether the answer is looked up: exact is there for one answer only. *)
IsExactHit(q) == call.top_n = 1 /\ Places(X[q]) # {}

Init ==
  /\ call \in Calls
  /\ waiting = Distinct
  /\ query = 0
  /\ choice = 0
  /\ best = <<>>
  /\ cells = [i \in DOMAIN X |-> <<>>]
  /\ copied = 0

Write(q, list) == cells' = [cells EXCEPT ![q] = list]

(* What is answered without a scan: an NA, with match_na the table's first *)
(* one; a string the table has, by the first place where it has it.        *)
Answered(q, list) ==
  /\ query = 0
  /\ Write(q, list)
  /\ waiting' = waiting \ {q}
  /\ UNCHANGED <<call, query, choice, best, copied>>

MissingQuery ==
  \E q \in waiting :
    /\ X[q] = NA
    /\ Answered(q, IF call.match_na /\ Places(NA) # {}
                     THEN <<[score |-> Full, index |-> Min(Places(NA))]>> ELSE <<>>)

ExactHit ==
  \E q \in waiting :
    /\ X[q] # NA
    /\ IsExactHit(q)
    /\ Answered(q, <<[score |-> Full, index |-> Min(Places(X[q]))]>>)

StartScan ==
  /\ query = 0
  /\ \E q \in waiting :
       /\ X[q] # NA
       /\ ~IsExactHit(q)
       /\ query' = q
       /\ waiting' = waiting \ {q}
  /\ choice' = 0
  /\ best' = <<>>
  /\ UNCHANGED <<call, cells, copied>>
-----------------------------------------------------------------------------
Scanning == query # 0 /\ choice < Len(Table)
Entry == Table[choice + 1]

IsFull == Len(best) = call.top_n

(* The score that a candidate must reach, and the greatest distance that   *)
(* has it.                                                                 *)
Required == IF IsFull THEN Max({call.min_score, Last(best).score}) ELSE call.min_score

FaultyScoreCutoff(required, longer) ==   \* truncates just below a whole distance
  ((Full - required) * longer - 1) \div Full

ScoreCutoff(required, longer) == ((Full - required) * longer) \div Full

Cutoff(a, b) ==
  LET byScore == ScoreCutoff(Required, Max({Len(a), Len(b)}))
  IN  IF call.max_distance < 0 THEN byScore ELSE Min({call.max_distance, byScore})

(* The lengths alone say that the candidate cannot get into the list. *)
OutOfReach(a, b) ==
  IF call.method = "jaro_winkler"
    THEN LET bound == JaroWinklerBound(Len(a), Len(b))
         IN  bound < call.min_score \/ (IsFull /\ bound <= Last(best).score)
    ELSE Abs(Len(a) - Len(b)) > Cutoff(a, b)

TooFar(a, b) == call.method # "jaro_winkler" /\ Distance(a, b) > Cutoff(a, b)

Score(a, b) ==
  IF call.method = "jaro_winkler" THEN JaroWinkler(a, b) ELSE EditScore(Distance(a, b), a, b)

(* The candidate at its place, if the list has one for it. *)
Inserted(list, c) ==
  LET ahead == Cardinality({k \in DOMAIN list : Better(list[k], c)})
      longer == InsertAt(list, ahead + 1, c)
  IN  SubSeq(longer, 1, Min({Len(longer), call.top_n}))

SkipMissing ==
  /\ Scanning
  /\ Entry = NA
  /\ choice' = choice + 1
  /\ UNCHANGED <<call, waiting, query, best, cells, copied>>

(* Not scored, or not well enough. *)
SkipHopeless ==
  /\ Scanning
  /\ Entry # NA
  /\ \/ OutOfReach(X[query], Entry)
     \/ TooFar(X[query], Entry)
     \/ Score(X[query], Entry) < call.min_score
  /\ choice' = choice + 1
  /\ UNCHANGED <<call, waiting, query, best, cells, copied>>

(* For one answer a score of 1 ends the scan. *)
Consider ==
  /\ Scanning
  /\ Entry # NA
  /\ ~OutOfReach(X[query], Entry)
  /\ ~TooFar(X[query], Entry)
  /\ LET score == Score(X[query], Entry)
     IN  /\ score >= call.min_score
         /\ best' = Inserted(best, [score |-> score, index |-> choice + 1])
         /\ choice' = IF call.top_n = 1 /\ score = Full THEN Len(Table) ELSE choice + 1
  /\ UNCHANGED <<call, waiting, query, cells, copied>>

EndScan ==
  /\ query # 0
  /\ choice = Len(Table)
  /\ Write(query, best)
  /\ query' = 0
  /\ UNCHANGED <<call, waiting, choice, best, copied>>

(* When all distinct queries are done their cells go to their duplicates.  *)
Copy ==
  /\ query = 0
  /\ waiting = {}
  /\ copied < Len(X)
  /\ Write(copied + 1, cells[Representative(copied + 1)])
  /\ copied' = copied + 1
  /\ UNCHANGED <<call, waiting, query, choice, best>>

Next ==
  \/ MissingQuery \/ ExactHit \/ StartScan
  \/ SkipMissing \/ SkipHopeless \/ Consider \/ EndScan
  \/ Copy

Spec == Init /\ [][Next]_vars
-----------------------------------------------------------------------------
(* The table's entries among the first n that satisfy the limits, the      *)
(* best first, as many as asked for.                                       *)
Ranked(q, n) ==
  LET passes(i) ==
        /\ Table[i] # NA
        /\ Score(X[q], Table[i]) >= call.min_score
        /\ call.max_distance >= 0 => Distance(X[q], Table[i]) <= call.max_distance
      all == SetToSortSeq({[score |-> Score(X[q], Table[i]), index |-> i] :
                             i \in {j \in 1 .. n : passes(j)}}, Better)
  IN  SubSeq(all, 1, Min({Len(all), call.top_n}))

(* Every query gets the best entries, ties in the table's order, whether   *)
(* it was scanned, looked up or copied from its like; an NA gets an NA.    *)
ResultExact ==
  copied = Len(X) =>
    \A i \in DOMAIN X :
      cells[i] = IF X[i] # NA THEN Ranked(i, Len(Table))
                 ELSE IF call.match_na /\ Places(NA) # {}
                   THEN <<[score |-> Full, index |-> Min(Places(NA))]>> ELSE <<>>

(* What fuzzy_lookup.cpp (line 89) and the test of it (test-fuzzy-lookup.R *)
(* line 102) say of the look-up that replaces the scan: an identical       *)
(* string is the only way to score 1, so it is the scanned answer.         *)
ExactHitIsScanned ==
  copied = Len(X) =>
    \A i \in DOMAIN X : X[i] # NA /\ IsExactHit(i) => cells[i] = Ranked(i, Len(Table))
=============================================================================
