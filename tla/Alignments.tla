------------------------------ MODULE Alignments ------------------------------
(***************************************************************************)
(* The metrics of two strings that are computed from tables of their own:  *)
(* weighted Levenshtein, the LCS, indel, prefix and postfix metrics        *)
(* (distance_extra.cpp), Editex, the longest common substring,             *)
(* Smith-Waterman-Gotoh and Monge-Elkan (alignment_metrics.cpp),           *)
(* Ratcliff/Obershelp, the bag distance and Needleman-Wunsch               *)
(* (linkage_metrics.cpp). One thread's rows of one call: it keeps the row  *)
(* of the table it is at in a buffer, from pair to pair and, in the        *)
(* gestalt matching, from range to range of a pair.                        *)
(*                                                                         *)
(* Strings are sequences of code points. Weights are integers, scores      *)
(* exact fractions [n, d].                                                 *)
(***************************************************************************)
EXTENDS Utf8, SequencesExt, FiniteSetsExt

CONSTANTS
  NA,
  Least,       \* minus infinity
  AlignCalls   \* [metric, a, b, similarity, w], w the weights the metric has

CallsAdmitted ==
  \A c \in AlignCalls :
    /\ Len(c.a) = Len(c.b)
    /\ c.metric = "smith_waterman" => c.w.match > 0 /\ Least < c.w.open /\ c.w.open <= 0

VARIABLES
  acall,
  buffer,   \* the row, entries 0 .. Len(b) of the last table
  ranges,   \* gestalt: pairs of stretches still to match, the next one first
  total,    \* gestalt: characters matched
  found     \* per pair done

alignVars == <<acall, buffer, ranges, total, found>>

w == acall.w
NoScore == <<0, 0>>
Whole(n) == <<n, 1>>
Ratio(n, d) == IF d > 0 THEN <<n, d>> ELSE <<1, 1>>
Same(x, y) == IF NoScore \in {x, y} THEN x = y ELSE x[1] * y[2] = y[1] * x[2]
Greater(m, n) == IF m > n THEN m ELSE n
Longer(s, t) == Greater(Len(s), Len(t))

(* A distance, or the similarity that it leaves of the most it can be. *)
Scored(distance, most) ==
  IF acall.similarity THEN Ratio(most - distance, most) ELSE Whole(distance)

(* Variant: the buffer is made longer or shorter only.                     *)
AssignedKeeping(n, value) == [j \in 0 .. n |-> IF j \in DOMAIN buffer THEN buffer[j] ELSE value]

(* vector::assign(): the old contents are gone.                            *)
Assigned(n, value) == [j \in 0 .. n |-> value]
-----------------------------------------------------------------------------
(* Global alignments *)

Stripped(s, t) ==
  LET shorter == Min({Len(s), Len(t)})
      prefix  == Max({n \in 0 .. shorter : SubSeq(s, 1, n) = SubSeq(t, 1, n)})
      suffix  == Max({n \in 0 .. shorter - prefix :
                        \A k \in 0 .. n - 1 : s[Len(s) - k] = t[Len(t) - k]})
  IN  <<SubSeq(s, prefix + 1, Len(s) - suffix), SubSeq(t, prefix + 1, Len(t) - suffix)>>

(* weighted_levenshtein(), without the common ends. *)
WeightedTable(s, t) ==
  LET d[i \in 0 .. Len(s), j \in 0 .. Len(t)] ==
        IF i = 0 THEN j * w.insert
        ELSE IF j = 0 THEN i * w.remove
        ELSE Min({d[i - 1, j] + w.remove, d[i, j - 1] + w.insert,
                  d[i - 1, j - 1] + (IF s[i] = t[j] THEN 0 ELSE w.replace)})
  IN  d
WeightedDistance(s, t) ==
  LET p == Stripped(s, t) IN WeightedTable(p[1], p[2])[Len(p[1]), Len(p[2])]

WeightedMaximum(m, n) ==
  Min({m * w.remove + n * w.insert,
       IF m >= n THEN n * w.replace + (m - n) * w.remove
       ELSE m * w.replace + (n - m) * w.insert})

Weighted(s, t) == Scored(WeightedDistance(s, t), WeightedMaximum(Len(s), Len(t)))

(* needleman_wunsch() *)
Needleman(s, t) ==
  LET d[i \in 0 .. Len(s), j \in 0 .. Len(t)] ==
        IF i = 0 \/ j = 0 THEN (i + j) * w.gap
        ELSE Max({d[i - 1, j - 1] + (IF s[i] = t[j] THEN w.match ELSE w.mismatch),
                  d[i - 1, j] + w.gap, d[i, j - 1] + w.gap})
  IN  d[Len(s), Len(t)]

NeedlemanSimilarity(s, t) ==
  LET short == Min({Len(s), Len(t)})
      long  == Longer(s, t)
      best  == long * w.match
      worst == Min({short * w.mismatch + (long - short) * w.gap, (Len(s) + Len(t)) * w.gap})
      over  == Needleman(s, t) - worst
  IN  IF best <= worst THEN Whole(1) ELSE <<Max({0, Min({over, best - worst})}), best - worst>>

NeedlemanScore(s, t) ==
  IF acall.similarity THEN NeedlemanSimilarity(s, t) ELSE Whole(Needleman(s, t))
-----------------------------------------------------------------------------
(* Editex: a letter is a number as in ASCII. *)
Groups ==
  {{65, 69, 73, 79, 85, 89}, {66, 80}, {67, 75, 81}, {68, 84}, {76, 82}, {77, 78}, {71, 74},
   {70, 80, 86}, {83, 88, 90}, {67, 83, 90}}
HW == {72, 87}

SoundsLike(c, e) == \E g \in Groups : {c, e} \subseteq g
EditexR(c, e) == CASE c = e -> 0 [] c # e /\ SoundsLike(c, e) -> 1 [] OTHER -> 2
EditexD(previous, current) ==
  IF previous # current /\ previous \in HW THEN 1 ELSE EditexR(previous, current)

(* editex_prepare(), without the accented letters. *)
UpperCase(s) == [i \in DOMAIN s |-> IF s[i] \in 97 .. 122 THEN s[i] - 32 ELSE s[i]]
Before(s, i) == IF i = 1 THEN 32 ELSE s[i - 1]

EditexDistance(s, t) ==
  LET d[i \in 0 .. Len(s), j \in 0 .. Len(t)] ==
        IF i = 0 /\ j = 0 THEN 0
        ELSE IF i = 0 THEN d[0, j - 1] + EditexD(Before(t, j), t[j])
        ELSE IF j = 0 THEN d[i - 1, 0] + EditexD(Before(s, i), s[i])
        ELSE Min({d[i - 1, j] + EditexD(Before(s, i), s[i]),
                  d[i, j - 1] + EditexD(Before(t, j), t[j]),
                  d[i - 1, j - 1] + EditexR(s[i], t[j])})
  IN  IF <<>> \in {s, t} THEN 2 * (Len(s) + Len(t)) ELSE d[Len(s), Len(t)]

Editex(s, t) ==
  Scored(EditexDistance(UpperCase(s), UpperCase(t)), 2 * Longer(s, t))
-----------------------------------------------------------------------------
(* Local alignments, from the buffer *)

(* longest_common_substring(), of either file: the first of the longest in *)
(* s, then in t. The row above the first is the buffer.                    *)
CommonTable(s, t, above) ==
  LET d[i \in 0 .. Len(s), j \in 0 .. Len(t)] ==
        IF j = 0 THEN 0
        ELSE IF i = 0 THEN above[j]
        ELSE IF s[i] = t[j] THEN d[i - 1, j - 1] + 1 ELSE 0
  IN  d

CommonSubstring(s, t, above) ==
  LET d == CommonTable(s, t, above)
      cells == (1 .. Len(s)) \X (1 .. Len(t))
      size == Max({0} \cup {d[c] : c \in cells})
      i == Min({c[1] : c \in {c \in cells : d[c] = size}})
      j == Min({c[2] : c \in {c \in cells : c[1] = i /\ d[c] = size}})
  IN  IF size = 0 THEN [i |-> 0, j |-> 0, size |-> 0]
      ELSE [i |-> i - size, j |-> j - size, size |-> size]

LastRow(d, s, t) == [j \in 0 .. Len(t) |-> d[Len(s), j]]

(* smith_waterman_score(): h ends anywhere, e in a gap along t, f along s. *)
SmithTable(s, t, above) ==
  LET x[i \in 0 .. Len(s), j \in 0 .. Len(t)] ==
        IF i = 0 THEN [h |-> above[j], e |-> Least, f |-> Least]
        ELSE IF j = 0 THEN [h |-> 0, e |-> Least, f |-> Least]
        ELSE LET e == Greater(x[i, j - 1].h + w.open, x[i, j - 1].e + w.extend)
                 f == Greater(x[i - 1, j].h + w.open, x[i - 1, j].f + w.extend)
                 set == x[i - 1, j - 1].h + (IF s[i] = t[j] THEN w.match ELSE w.mismatch)
             IN  [h |-> Max({set, e, f, 0}), e |-> e, f |-> f]
  IN  x
SmithScore(x, s, t) == Max({0} \cup {x[i, j].h : i \in 1 .. Len(s), j \in 1 .. Len(t)})

Smith(score, s, t) ==
  IF acall.similarity THEN <<score, Min({Len(s), Len(t)}) * w.match>> ELSE Whole(score)
-----------------------------------------------------------------------------
(* Monge-Elkan, over the Levenshtein similarity: hundreds of 1/Unit.       *)
Unit == 12

Tokens(s) ==
  LET start == {i \in DOMAIN s : ~WhiteSpacePoint(s[i]) /\ (i = 1 \/ WhiteSpacePoint(s[i - 1]))}
      end(i) == Max({k \in i .. Len(s) : \A m \in i .. k : ~WhiteSpacePoint(s[m])})
      starts == SetToSortSeq(start, <)
  IN  [k \in DOMAIN starts |-> SubSeq(s, starts[k], end(starts[k]))]

(* The matrix with weights 1. *)
UnitDistance(s, t) ==
  LET d[i \in 0 .. Len(s), j \in 0 .. Len(t)] ==
        IF i = 0 \/ j = 0 THEN i + j
        ELSE Min({d[i - 1, j] + 1, d[i, j - 1] + 1,
                  d[i - 1, j - 1] + (IF s[i] = t[j] THEN 0 ELSE 1)})
  IN  d[Len(s), Len(t)]
Inner(s, t) == LET n == Longer(s, t) IN (Unit * (n - UnitDistance(s, t))) \div n

(* monge_elkan_directed(), times the number of tokens. *)
Directed(from, to) ==
  LET best(x) ==
        FoldLeft(LAMBDA b, y : IF b = Unit THEN b ELSE Greater(b, Inner(x, y)), 0, to)
  IN  FoldLeft(LAMBDA n, x : n + best(x), 0, from)

MongeElkan(s, t) ==
  LET x == Tokens(s)
      y == Tokens(t)
  IN  IF x = <<>> \/ y = <<>> THEN Whole(IF x = y THEN 1 ELSE 0)
      ELSE IF w.symmetric
        THEN <<Directed(x, y) * Len(y) + Directed(y, x) * Len(x), 2 * Unit * Len(x) * Len(y)>>
        ELSE <<Directed(x, y), Unit * Len(x)>>
-----------------------------------------------------------------------------
(* Bags *)
Times(s, c) == Cardinality({i \in DOMAIN s : s[i] = c})

(* bag_distance(): two sorted strings are merged. *)
BagDistance(s, t) ==
  LET p == SortSeq(s, <)
      r == SortSeq(t, <)
      from[i \in 1 .. Len(p) + 1, j \in 1 .. Len(r) + 1] ==
        IF i > Len(p) \/ j > Len(r) THEN [a |-> Len(p) - i + 1, b |-> Len(r) - j + 1]
        ELSE IF p[i] = r[j] THEN from[i + 1, j + 1]
        ELSE IF p[i] < r[j] THEN [from[i + 1, j] EXCEPT !.a = @ + 1]
        ELSE [from[i, j + 1] EXCEPT !.b = @ + 1]
  IN  Greater(from[1, 1].a, from[1, 1].b)

Bag(s, t) == Scored(BagDistance(s, t), Longer(s, t))
-----------------------------------------------------------------------------
(* simple_metric(). The LCS is that of rf_lcs_pair(), which see.           *)
LcsTable(s, t) ==
  LET d[i \in 0 .. Len(s), j \in 0 .. Len(t)] ==
        IF i = 0 \/ j = 0 THEN 0
        ELSE IF s[i] = t[j] THEN d[i - 1, j - 1] + 1 ELSE Greater(d[i - 1, j], d[i, j - 1])
  IN  d[Len(s), Len(t)]

Common(s, t) ==
  LET shorter == Min({Len(s), Len(t)})
  IN  CASE acall.metric \in {"lcs", "indel"} -> LcsTable(s, t)
        [] acall.metric = "prefix" -> Max({n \in 0 .. shorter : SubSeq(s, 1, n) = SubSeq(t, 1, n)})
        [] acall.metric = "postfix" ->
             Max({n \in 0 .. shorter :
                    SubSeq(s, Len(s) - n + 1, Len(s)) = SubSeq(t, Len(t) - n + 1, Len(t))})

Simple(s, t) ==
  IF acall.metric = "indel"
    THEN Scored(Len(s) + Len(t) - 2 * Common(s, t), Len(s) + Len(t))
    ELSE Scored(Longer(s, t) - Common(s, t), Longer(s, t))
-----------------------------------------------------------------------------
AlignInit ==
  /\ acall \in AlignCalls
  /\ buffer = [j \in {0} |-> 0] /\ ranges = <<>> /\ total = 0 /\ found = <<>>

Row == Len(found) + 1
S == acall.a[Row]
T == acall.b[Row]
More == Row <= Len(acall.a) /\ ranges = <<>>

SkipPair ==
  /\ More /\ NA \in {S, T}
  /\ found' = Append(found, NoScore)
  /\ UNCHANGED <<acall, buffer, ranges, total>>

(* A row that is written before it is read. *)
ScorePair ==
  /\ More /\ NA \notin {S, T}
  /\ acall.metric \notin {"gestalt", "lcs_str", "smith_waterman"}
  /\ found' = Append(found,
       CASE acall.metric = "weighted"     -> Weighted(S, T)
         [] acall.metric = "editex"       -> Editex(S, T)
         [] acall.metric = "monge_elkan"  -> MongeElkan(S, T)
         [] acall.metric = "needleman"    -> NeedlemanScore(S, T)
         [] acall.metric = "bag"          -> Bag(S, T)
         [] OTHER                         -> Simple(S, T))
  /\ UNCHANGED <<acall, buffer, ranges, total>>

SubstringPair ==
  /\ More /\ NA \notin {S, T} /\ acall.metric = "lcs_str"
  /\ LET above == Assigned(Len(T), 0)
         hit   == CommonSubstring(S, T, above)
     IN  /\ buffer' = LastRow(CommonTable(S, T, above), S, T)
         /\ found' = Append(found, IF acall.similarity THEN Ratio(hit.size, Longer(S, T))
                                   ELSE SubSeq(S, hit.i + 1, hit.i + hit.size))
  /\ UNCHANGED <<acall, ranges, total>>

AlignPair ==
  /\ More /\ NA \notin {S, T} /\ acall.metric = "smith_waterman"
  /\ LET x == SmithTable(S, T, Assigned(Len(T), 0))
     IN  IF acall.similarity /\ <<>> \in {S, T}
           THEN /\ found' = Append(found, Whole(IF S = T THEN 1 ELSE 0))
                /\ UNCHANGED buffer
           ELSE /\ found' = Append(found, Smith(SmithScore(x, S, T), S, T))
                /\ buffer' = [j \in 0 .. Len(T) |-> x[Len(S), j].h]
  /\ UNCHANGED <<acall, ranges, total>>

(* gestalt_matches() *)
StartPair ==
  /\ More /\ NA \notin {S, T} /\ acall.metric = "gestalt"
  /\ ranges' = <<<<S, T>>>>
  /\ total' = 0
  /\ UNCHANGED <<acall, buffer, found>>

(* What is left on the right is matched first. The last range of a pair    *)
(* ends it.                                                                *)
Gestalt(matched) ==
  LET n == Len(S) + Len(T)
      sim == Ratio(2 * matched, n)
  IN  IF acall.similarity THEN sim ELSE <<sim[2] - sim[1], sim[2]>>

MatchRange ==
  /\ ranges # <<>>
  /\ LET s == Head(ranges)[1]
         t == Head(ranges)[2]
         above == Assigned(Len(t), 0)
         m == CommonSubstring(s, t, above)
         rest == IF <<>> \in {s, t} \/ m.size = 0 THEN Tail(ranges)
                 ELSE <<<<SubSeq(s, m.i + m.size + 1, Len(s)), SubSeq(t, m.j + m.size + 1, Len(t))>>,
                        <<SubSeq(s, 1, m.i), SubSeq(t, 1, m.j)>>>> \o Tail(ranges)
         sum == IF <<>> \in {s, t} THEN total ELSE total + m.size
     IN  /\ ranges' = rest
         /\ total' = sum
         /\ buffer' = IF <<>> \in {s, t} THEN buffer ELSE LastRow(CommonTable(s, t, above), s, t)
         /\ found' = IF rest = <<>> THEN Append(found, Gestalt(sum)) ELSE found
  /\ UNCHANGED acall

AlignNext == SkipPair \/ ScorePair \/ SubstringPair \/ AlignPair \/ StartPair \/ MatchRange
AlignSpec == AlignInit /\ [][AlignNext]_alignVars
-----------------------------------------------------------------------------
(* What the metrics are. An alignment sets some characters of s against as *)
(* many of t, in order; the others stand alone.                            *)
Alignments(s, t) ==
  {a \in (SUBSET DOMAIN s) \X (SUBSET DOMAIN t) : Cardinality(a[1]) = Cardinality(a[2])}

Pairs(a) == LET p == SetToSortSeq(a[1], <)
                r == SetToSortSeq(a[2], <)
            IN  {<<p[k], r[k]>> : k \in DOMAIN p}

(* The value of an alignment: of its pairs and of what stands alone. *)
ValueOf(a, s, t, pair(_, _), ofS(_), ofT(_)) ==
  MapThenSumSet(LAMBDA p : pair(s[p[1]], t[p[2]]), Pairs(a))
    + MapThenSumSet(ofS, DOMAIN s \ a[1]) + MapThenSumSet(ofT, DOMAIN t \ a[2])

Cheapest(s, t, pair(_, _), ofS(_), ofT(_)) ==
  Min({ValueOf(a, s, t, pair, ofS, ofT) : a \in Alignments(s, t)})

WeightedCheapest(s, t, insert, remove, replace) ==
  Cheapest(s, t, LAMBDA c, e : IF c = e THEN 0 ELSE replace, LAMBDA i : remove, LAMBDA j : insert)

NeedlemanBest(s, t) ==
  -Cheapest(s, t, LAMBDA c, e : -(IF c = e THEN w.match ELSE w.mismatch),
            LAMBDA i : -w.gap, LAMBDA j : -w.gap)

EditexCheapest(s, t) ==
  Cheapest(s, t, EditexR, LAMBDA i : EditexD(Before(s, i), s[i]),
           LAMBDA j : EditexD(Before(t, j), t[j]))

(* The best alignment from its first pair to its last; what stands alone   *)
(* between two pairs is a gap on either side.                              *)
GapScore(n) == IF n = 0 THEN 0 ELSE w.open + (n - 1) * w.extend
SmithBest(s, t) ==
  LET value(a) ==
        LET p == SetToSortSeq(a[1], <)
            r == SetToSortSeq(a[2], <)
        IN  MapThenSumSet(LAMBDA k : IF s[p[k]] = t[r[k]] THEN w.match ELSE w.mismatch, DOMAIN p)
              + MapThenSumSet(LAMBDA k : GapScore(p[k] - p[k - 1] - 1) + GapScore(r[k] - r[k - 1] - 1),
                    2 .. Len(p))
  IN  Max({value(a) : a \in Alignments(s, t)})

(* difflib's find_longest_match(), and its matching blocks. *)
Blocks(s, t) ==
  {b \in [i : 0 .. Len(s), j : 0 .. Len(t), size : 0 .. Min({Len(s), Len(t)})] :
     /\ b.i + b.size <= Len(s) /\ b.j + b.size <= Len(t)
     /\ SubSeq(s, b.i + 1, b.i + b.size) = SubSeq(t, b.j + 1, b.j + b.size)}
LongestMatch(s, t) ==
  CHOOSE b \in Blocks(s, t) : \A c \in Blocks(s, t) :
    \/ b.size > c.size
    \/ b.size = c.size /\ b.i < c.i
    \/ b.size = c.size /\ b.i = c.i /\ b.j <= c.j

Texts(s) == {SubSeq(s, i, k) : i \in 1 .. Len(s), k \in 1 .. Len(s)} \cup {<<>>}
MatchingBlocks(s, t) ==
  LET sum[u \in Texts(s), v \in Texts(t)] ==
        LET b == LongestMatch(u, v)
        IN  IF b.size = 0 THEN 0
            ELSE b.size + sum[SubSeq(u, 1, b.i), SubSeq(v, 1, b.j)]
                   + sum[SubSeq(u, b.i + b.size + 1, Len(u)), SubSeq(v, b.j + b.size + 1, Len(v))]
  IN  sum[s, t]

Excess(s, t) == MapThenSumSet(LAMBDA c : Greater(0, Times(s, c) - Times(t, c)), Range(s))

(* For each token the nearest, on the average; the other way too, if so    *)
(* asked.                                                                  *)
NearestSum(from, to) ==
  MapThenSumSet(LAMBDA k : Max({Unit - (Unit * WeightedCheapest(from[k], to[m], 1, 1, 1))
                                \div Max({Len(from[k]), Len(to[m])}) : m \in DOMAIN to}),
      DOMAIN from)
NearestMean(x, y) == <<NearestSum(x, y), Unit * Len(x)>>
Mean(p, r) == <<p[1] * r[2] + r[1] * p[2], 2 * p[2] * r[2]>>

Distance(s, t) ==
  CASE acall.metric = "weighted" -> WeightedCheapest(s, t, w.insert, w.remove, w.replace)
    [] acall.metric = "indel"    -> WeightedCheapest(s, t, 1, 1, 2)
    [] acall.metric = "lcs"      -> Longer(s, t) - (Len(s) + Len(t) - WeightedCheapest(s, t, 1, 1, 2)) \div 2
    [] acall.metric = "prefix"   -> Longer(s, t) - Len(LongestCommonPrefix({s, t}))
    [] acall.metric = "postfix"  -> Longer(s, t) - Len(LongestCommonPrefix({Reverse(s), Reverse(t)}))
    [] acall.metric = "bag"      -> Greater(Excess(s, t), Excess(t, s))
    [] acall.metric = "editex"   ->
         IF <<>> \in {s, t} THEN 2 * Longer(s, t) ELSE EditexCheapest(UpperCase(s), UpperCase(t))

Most(s, t) ==
  CASE acall.metric = "weighted" -> WeightedMaximum(Len(s), Len(t))
    [] acall.metric = "indel"    -> Len(s) + Len(t)
    [] acall.metric = "editex"   -> 2 * Longer(s, t)
    [] OTHER                     -> Longer(s, t)

Defined(s, t) ==
  LET n == MatchingBlocks(s, t)
      x == Tokens(s)
      y == Tokens(t)
  IN  CASE acall.metric = "smith_waterman" ->
             IF ~acall.similarity THEN Whole(SmithBest(s, t))
             ELSE IF <<>> \in {s, t} THEN Whole(IF s = t THEN 1 ELSE 0)
             ELSE <<SmithBest(s, t), Min({Len(s), Len(t)}) * w.match>>
        [] acall.metric = "lcs_str" -> Ratio(LongestMatch(s, t).size, Longer(s, t))
        [] acall.metric = "gestalt" ->
             LET sim == Ratio(2 * n, Len(s) + Len(t))
             IN  IF acall.similarity THEN sim ELSE <<sim[2] - sim[1], sim[2]>>
        [] acall.metric = "monge_elkan" ->
             IF <<>> \in {x, y} THEN Whole(IF x = y THEN 1 ELSE 0)
             ELSE IF w.symmetric THEN Mean(NearestMean(x, y), NearestMean(y, x))
             ELSE NearestMean(x, y)
        [] acall.metric = "needleman" -> Whole(NeedlemanBest(s, t))
        [] OTHER -> Scored(Distance(s, t), Most(s, t))

(* Every answer is the best over all alignments of the pair, or what the   *)
(* definition makes of its common substrings and characters, whatever the  *)
(* buffer held; similarities lie between 0 and 1; Needleman-Wunsch reaches *)
(* 1 for equal strings only, and the bag distance is never more than the   *)
(* Levenshtein distance.                                                   *)
MetricsExact ==
  \A k \in DOMAIN found :
    LET s == acall.a[k]
        t == acall.b[k]
    IN  IF NA \in {s, t} THEN found[k] = NoScore
        ELSE IF acall.metric = "lcs_str" /\ ~acall.similarity
          THEN LET b == LongestMatch(s, t) IN found[k] = SubSeq(s, b.i + 1, b.i + b.size)
        ELSE /\ acall.similarity => found[k][1] \in 0 .. found[k][2]
             /\ IF acall.metric = "needleman" /\ acall.similarity
                  THEN found[k][1] = found[k][2] <=> s = t
                  ELSE Same(found[k], Defined(s, t))
             /\ acall.metric = "bag" /\ ~acall.similarity =>
                  found[k][1] <= WeightedCheapest(s, t, 1, 1, 1)

(* "An H or W that follows another letter can be inserted or deleted for 1"  *)
(* (alignment_metrics.R): two names that differ by just that are 1 apart at   *)
(* the most.                                                                 *)
EditexSilent ==
  acall.metric = "editex" /\ ~acall.similarity => \A k \in DOMAIN found :
    LET s == UpperCase(acall.a[k])
        t == UpperCase(acall.b[k])
    IN  \A i \in 2 .. Len(t) :
          /\ t[i] \in HW /\ t[i - 1] \in (65 .. 90) \ {t[i]}
          /\ s = RemoveAt(t, i)
          => found[k][1] <= 1
=============================================================================
