------------------------------ MODULE JaroScores ------------------------------
(* jaro_winkler(), jaro_winkler_matrix() and jaro_winkler_tokens(): one call  *)
(* (jaro_winkler_core.h, fgrepl_jaro.cpp, fgrepl_jaro_tokens.cpp). Rows,      *)
(* cells or rows of cells are shared out in ranges. A range has one table of  *)
(* masks, <<byte, bit>>, for all the short strings it compares: a comparison  *)
(* clears what it set, and none begins by clearing. Scores are exact, in      *)
(* parts of Whole; a string is a sequence of code points, or Na.               *)
EXTENDS Utf8, SequencesExt, FiniteSetsExt

CONSTANTS
  Na,
  WordBits,     \* 64
  PairCap,      \* 12: more tokens than this are not joined in pairs
  MaskCap,      \* 32: nor considered for it
  RotationCap,  \* 64: longer tokens are not turned round
  JaroCalls     \* [fn, a, b, same, useBytes, p], and of tokens also penalty, contractions

CapsAdmitted == {WordBits, PairCap, MaskCap, RotationCap} \subseteq Nat \ {0}

VARIABLES
  asked,
  spans,        \* [at, to, mask] and, of a matrix, the row i and column j
  grid,         \* scores per row or cell, from 1
  similarity    \* what is returned
jaroVars == <<asked, spans, grid, similarity>>

Whole == 6048000   \* divisible as often as strings of 8 and 5 tokens need
Missing == -1
Unscored == -2
NoPenalty == -1
-----------------------------------------------------------------------------
(* Characters that match. Places count from 0.                                *)
MatchRange(s, t) == Max({0, Max({Len(s), Len(t)}) \div 2 - 1})

(* 1 << n, less one: a shift by a word's width does not shift.                *)
LowBits(n) == 0 .. (n % WordBits) - 1
WordWindow(lo, hi) ==
  (IF hi = WordBits - 1 THEN 0 .. hi ELSE LowBits(hi + 1)) \ LowBits(lo)
WindowFor(i, s, t, inWord) ==
  LET lo == Max({0, i - MatchRange(s, t)})
      hi == Min({Len(t) - 1, i + MatchRange(s, t)})
  IN  IF inWord THEN WordWindow(lo, hi) ELSE lo .. hi

(* Each character of s claims the first place that is still free.             *)
Claims(s, t, places, inWord) ==
  FoldLeft(LAMBDA m, i :
             LET free == (places[s[i + 1]] \cap WindowFor(i, s, t, inWord)) \ m.b
             IN  IF free = {} THEN m ELSE [a |-> m.a \cup {i}, b |-> m.b \cup {Min(free)}],
           [a |-> {}, b |-> {}], [k \in DOMAIN s |-> k - 1])

Picked(s, places) ==
  LET at == SelectSeq([k \in DOMAIN s |-> k], LAMBDA k : k - 1 \in places)
  IN  [k \in DOMAIN at |-> s[at[k]]]
Transposed(s, t, m) ==
  Cardinality({k \in 1 .. Cardinality(m.a) : Picked(s, m.a)[k] # Picked(t, m.b)[k]})

Third == Whole \div 3
Jaro(s, t, m) ==
  LET n == Cardinality(m.a)
  IN  IF n = 0 THEN 0
      ELSE (n * Third) \div Len(s) + (n * Third) \div Len(t)
             + ((2 * n - Transposed(s, t, m)) * Third) \div (2 * n)

(* The prefix factor p counts in twentieths.                                  *)
Prefix(s, t) ==
  LET most == Min({4, Len(s), Len(t)})
  IN  Max({k \in 0 .. most : SubSeq(s, 1, k) = SubSeq(t, 1, k)})
Winkler(s, t, score) ==
  IF score = 0 THEN 0 ELSE score + (Prefix(s, t) * asked.p * (Whole - score)) \div 20

Entries(t) == {<<t[k], k - 1>> : k \in DOMAIN t}
PlacesIn(entries, s) == [c \in Range(s) |-> {q[2] : q \in {q \in entries : q[1] = c}}]
ByScan(s, t) == Jaro(s, t, Claims(s, t, PlacesIn(Entries(t), s), FALSE))

(* Variant: the entries of the other string's bytes are cleared.              *)
ClearedForFirst(mask, s, t) == {q \in mask : q[1] \notin Range(s)}

Cleared(mask, s, t) == {q \in mask : q[1] \notin Range(t)}

(* jaro_winkler_sim(): the score, and the table as it is left.                *)
Compared(s, t, mask) ==
  LET set == mask \cup Entries(t)
  IN  CASE s = t -> [score |-> Whole, mask |-> mask]
        [] s # t /\ <<>> \in {s, t} -> [score |-> 0, mask |-> mask]
        [] s # t /\ <<>> \notin {s, t} ->
             IF Max({Len(s), Len(t)}) <= WordBits
             THEN [score |-> Winkler(s, t, Jaro(s, t, Claims(s, t, PlacesIn(set, s), TRUE))),
                   mask |-> Cleared(set, s, t)]
             ELSE [score |-> Winkler(s, t, ByScan(s, t)), mask |-> mask]

(* sequence_jaro_winkler_similarity() *)
SequenceScore(s, t) ==
  IF s = t THEN Whole ELSE IF <<>> \in {s, t} THEN 0 ELSE Winkler(s, t, ByScan(s, t))

Ascii(s) == \A k \in DOMAIN s : s[k] < 128
Encoded(s) == FlattenSeq([k \in DOMAIN s |-> Utf8Bytes(s[k])])
PairScore(s, t, mask) ==
  IF Na \in {s, t} THEN [score |-> Missing, mask |-> mask]
  ELSE IF asked.useBytes \/ (Ascii(s) /\ Ascii(t)) THEN Compared(Encoded(s), Encoded(t), mask)
  ELSE [score |-> SequenceScore(s, t), mask |-> mask]
-----------------------------------------------------------------------------
(* Tokens: single ones and, for contractions, any two in their order.         *)
TokenSpace == {32, 9, 13, 10}
Tokens(s) ==
  LET first == SelectSeq([k \in DOMAIN s |-> k],
                         LAMBDA k : s[k] \notin TokenSpace /\ (k = 1 \/ s[k - 1] \in TokenSpace))
      last(k) == Min({m \in k .. Len(s) : m = Len(s) \/ s[m + 1] \in TokenSpace})
  IN  [n \in DOMAIN first |-> SubSeq(s, first[n], last(first[n]))]

Singles(words) == [n \in DOMAIN words |-> [text |-> words[n], of |-> {n}]]
Candidates(words) ==
  LET n == Len(words)
      pairs(i) == [k \in 1 .. n - i |-> [text |-> words[i] \o words[i + k], of |-> {i, i + k}]]
  IN  Singles(words) \o IF n \in 2 .. PairCap THEN FlattenSeq([i \in 1 .. n - 1 |-> pairs(i)]) ELSE <<>>

(* jaro_winkler_sim_best(): single tokens of one length, also turned round.   *)
Tries(x, y, joined) ==
  LET n == Len(x.text)
      turned == /\ joined /\ Cardinality(x.of) = 1 /\ Cardinality(y.of) = 1
                /\ Len(y.text) = n /\ n \in 2 .. RotationCap
  IN  <<x.text>> \o IF turned THEN [r \in 1 .. n - 1 |-> SubSeq(x.text, r + 1, n) \o SubSeq(x.text, 1, r)] ELSE <<>>

(* The table of all scores, row by row, and the masks as they are left.       *)
RowOf(k, bs) == ((k - 1) \div Len(bs)) + 1
ColumnOf(k, bs) == ((k - 1) % Len(bs)) + 1
Best(tries, t, mask) ==
  FoldLeft(LAMBDA u, s : LET c == Compared(s, t, u.mask) IN [score |-> Max({u.score, c.score}), mask |-> c.mask],
           [score |-> 0, mask |-> mask], tries)
TableRow(x, bs, joined, table) ==
  FoldLeft(LAMBDA u, y : LET c == Best(Tries(x, y, joined), y.text, u.mask)
                         IN  [sims |-> Append(u.sims, c.score), mask |-> c.mask],
           table, bs)
Table(as, bs, joined, mask) ==
  FoldLeft(LAMBDA u, x : TableRow(x, bs, joined, u), [sims |-> <<>>, mask |-> mask], as)

(* A pairing: the tokens it uses, its total and its size.                     *)
NoPairing == [a |-> {}, b |-> {}, total |-> 0, size |-> 0]
Fits(pairing, x, y) == x.of \cap pairing.a = {} /\ y.of \cap pairing.b = {}
With(pairing, x, y, score) ==
  [a |-> pairing.a \cup x.of, b |-> pairing.b \cup y.of,
   total |-> pairing.total + score, size |-> pairing.size + 1]

(* token_alignment_score(): the best of what is left, the first among equals. *)
ByBest(as, bs, sims) ==
  FoldLeft(LAMBDA u, n :
             LET open == {k \in DOMAIN sims : Fits(u, as[RowOf(k, bs)], bs[ColumnOf(k, bs)])}
                 k == Min({k \in open : \A m \in open : sims[m] <= sims[k]})
             IN  IF open = {} THEN u ELSE With(u, as[RowOf(k, bs)], bs[ColumnOf(k, bs)], sims[k]),
           NoPairing, [n \in 1 .. Min({Len(as), Len(bs)}) |-> n])
(* token_alignment_score_contractions(): sorted, then what fits in its turn.  *)
ByOrder(as, bs, sims) ==
  LET order == SortSeq([k \in DOMAIN sims |-> k], LAMBDA k, m : sims[k] > sims[m] \/ (sims[k] = sims[m] /\ k < m))
  IN  FoldLeft(LAMBDA u, k : IF Fits(u, as[RowOf(k, bs)], bs[ColumnOf(k, bs)])
                             THEN With(u, as[RowOf(k, bs)], bs[ColumnOf(k, bs)], sims[k]) ELSE u,
               NoPairing, order)

(* Tokens that no pair uses count, or cost.                                   *)
Aligned(pairing, na, nb) ==
  LET size == pairing.size + Max({na - Cardinality(pairing.a), nb - Cardinality(pairing.b)})
  IN  IF pairing.size = 0 THEN 0
      ELSE IF asked.penalty = NoPenalty THEN pairing.total \div size
      ELSE Max({0, pairing.total \div pairing.size - asked.penalty * (size - pairing.size)})

TokenAlignment(u, v, mask) ==
  LET joined == asked.contractions /\ Len(u) <= MaskCap /\ Len(v) <= MaskCap
      as == IF joined THEN Candidates(u) ELSE Singles(u)
      bs == IF joined THEN Candidates(v) ELSE Singles(v)
      table == Table(as, bs, joined, mask)
  IN  [score |-> Aligned(IF joined THEN ByOrder(as, bs, table.sims) ELSE ByBest(as, bs, table.sims),
                         Len(u), Len(v)),
       mask |-> table.mask]

Higher(c, d) == [score |-> Max({c.score, d.score}), mask |-> d.mask]
BetterOf(u, v, collapsed) ==
  IF ~asked.contractions /\ Len(u) = 1 /\ Len(v) = 1 THEN collapsed
  ELSE Higher(collapsed, TokenAlignment(u, v, collapsed.mask))
WordsScore(u, v, mask) == BetterOf(u, v, Compared(FlattenSeq(u), FlattenSeq(v), mask))
TokenScore(s, t, mask) ==
  IF Na \in {s, t} THEN [score |-> Missing, mask |-> mask]
  ELSE WordsScore(Tokens(Encoded(s)), Tokens(Encoded(t)), mask)
-----------------------------------------------------------------------------
Cells == Len(asked.a) * Len(asked.b)
Symmetric == asked.fn = "matrix" /\ asked.same
Work == IF asked.fn = "matrix" /\ ~asked.same THEN Cells ELSE Len(asked.a)

JaroInit ==
  /\ asked \in JaroCalls
  /\ spans = {} /\ grid = <<>> /\ similarity = <<>>

(* dispatch_for(); a matrix worker finds its first cell's row and column.     *)
StartScoring ==
  /\ spans = {}
  /\ \E cuts \in SUBSET (1 .. Work - 1) :
       spans' = {[at |-> b, to |-> Min({c \in cuts \cup {Work} : c >= b}), mask |-> {},
                  i |-> ((b - 1) % Len(asked.a)) + 1, j |-> (b - 1) \div Len(asked.a) + 1] :
                   b \in {1} \cup {c + 1 : c \in cuts}}
  /\ grid' = [k \in 1 .. IF asked.fn = "matrix" THEN Cells ELSE Len(asked.a) |-> Unscored]
  /\ UNCHANGED <<asked, similarity>>

Moved(span, mask) == [span EXCEPT !.at = @ + 1, !.mask = mask]

ScoreRow(span) ==
  LET s == asked.a[span.at]
      t == asked.b[span.at]
  IN  /\ asked.fn # "matrix"
      /\ \E result \in {IF asked.fn = "pairs" THEN PairScore(s, t, span.mask) ELSE TokenScore(s, t, span.mask)} :
           /\ grid' = [grid EXCEPT ![span.at] = result.score]
           /\ spans' = (spans \ {span}) \cup {Moved(span, result.mask)}
ScoreCell(span) ==
  LET below == span.i = Len(asked.a)
  IN  /\ asked.fn = "matrix" /\ ~asked.same
      /\ \E result \in {PairScore(asked.a[span.i], asked.b[span.j], span.mask)} :
           /\ grid' = [grid EXCEPT ![span.at] = result.score]
           /\ spans' = (spans \ {span}) \cup
                         {[Moved(span, result.mask) EXCEPT !.i = IF below THEN 1 ELSE @ + 1,
                                                           !.j = IF below THEN @ + 1 ELSE @]}
(* A row of a symmetric matrix: its diagonal and, twice, what is right of it. *)
ScoreTriangle(span) ==
  LET n == Len(asked.a)
      row == span.at
      run == FoldLeft(LAMBDA u, column :
                        LET c == PairScore(asked.a[row], asked.a[column], u.mask)
                        IN  [scores |-> Append(u.scores, c.score), mask |-> c.mask],
                      [scores |-> <<IF asked.a[row] = Na THEN Missing ELSE Whole>>, mask |-> span.mask],
                      [k \in 1 .. n - row |-> row + k])
  IN  /\ Symmetric
      /\ grid' = [k \in DOMAIN grid |->
                    LET i == ((k - 1) % n) + 1
                        j == (k - 1) \div n + 1
                    IN  IF Min({i, j}) = row THEN run.scores[Max({i, j}) - row + 1] ELSE grid[k]]
      /\ spans' = (spans \ {span}) \cup {Moved(span, run.mask)}

Score ==
  /\ similarity = <<>>
  /\ \E span \in spans : span.at <= span.to /\ (ScoreRow(span) \/ ScoreCell(span) \/ ScoreTriangle(span))
  /\ UNCHANGED <<asked, similarity>>
FinishScoring ==
  /\ similarity = <<>> /\ spans # {} /\ \A span \in spans : span.at > span.to
  /\ similarity' = grid
  /\ UNCHANGED <<asked, spans, grid>>

JaroNext == StartScoring \/ Score \/ FinishScoring
-----------------------------------------------------------------------------
(* Matches from both sides at once: of one character's places in either       *)
(* string, the first two make a pair, or the one too far behind is left out.  *)
MatchedPlaces(s, t, c) ==
  LET xs == SelectSeq([k \in DOMAIN s |-> k], LAMBDA k : s[k] = c)
      ys == SelectSeq([k \in DOMAIN t |-> k], LAMBDA k : t[k] = c)
      from[i \in 1 .. Len(xs) + 1, j \in 1 .. Len(ys) + 1] ==
        IF i > Len(xs) \/ j > Len(ys) THEN {}
        ELSE IF xs[i] + MatchRange(s, t) < ys[j] THEN from[i + 1, j]
        ELSE IF ys[j] + MatchRange(s, t) < xs[i] THEN from[i, j + 1]
        ELSE {<<xs[i] - 1, ys[j] - 1>>} \cup from[i + 1, j + 1]
  IN  from[1, 1]
JaroWinklerOf(s, t) ==
  LET matched == UNION {MatchedPlaces(s, t, c) : c \in Range(s)}
  IN  IF s = t THEN Whole
      ELSE Winkler(s, t, Jaro(s, t, [a |-> {q[1] : q \in matched}, b |-> {q[2] : q \in matched}]))
PairRight(s, t) ==
  IF Na \in {s, t} THEN Missing
  ELSE IF asked.useBytes THEN JaroWinklerOf(Encoded(s), Encoded(t)) ELSE JaroWinklerOf(s, t)

(* The two ways to pair greedily, each for the other.                         *)
TokensRight(s, t) ==
  LET u == Tokens(Encoded(s))
      v == Tokens(Encoded(t))
      joined == asked.contractions /\ Max({Len(u), Len(v)}) <= MaskCap
      as == IF joined THEN Candidates(u) ELSE Singles(u)
      bs == IF joined THEN Candidates(v) ELSE Singles(v)
      best(x, y) == Max({JaroWinklerOf(w, y.text) : w \in Range(Tries(x, y, joined))})
      sims == [k \in 1 .. Len(as) * Len(bs) |-> best(as[RowOf(k, bs)], bs[ColumnOf(k, bs)])]
      pairing == IF joined THEN ByBest(as, bs, sims) ELSE ByOrder(as, bs, sims)
      together == JaroWinklerOf(FlattenSeq(u), FlattenSeq(v))
  IN  IF Na \in {s, t} THEN Missing
      ELSE IF Len(u) = 1 /\ Len(v) = 1 /\ ~asked.contractions THEN together
      ELSE Max({together, Aligned(pairing, Len(u), Len(v))})

(* Every score is the pair's own, whatever was compared before it in its      *)
(* range, whichever way it was compared and from whichever side; it lies in   *)
(* [0, 1]; and no cell of a matrix is left out.                               *)
JaroExact ==
  \A k \in DOMAIN similarity :
    LET i == IF asked.fn = "matrix" THEN ((k - 1) % Len(asked.a)) + 1 ELSE k
        j == IF asked.fn = "matrix" THEN (k - 1) \div Len(asked.a) + 1 ELSE k
        s == asked.a[i]
        t == asked.b[j]
    IN  /\ similarity[k] = IF asked.fn = "tokens" THEN TokensRight(s, t) ELSE PairRight(s, t)
        /\ similarity[k] = Missing \/ similarity[k] \in 0 .. Whole
=============================================================================
