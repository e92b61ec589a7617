-------------------------------- MODULE QGrams --------------------------------
(***************************************************************************)
(* jaccard_index(), dice_coefficient(), tversky_index(),                   *)
(* overlap_coefficient(), qgram_cosine() and their matrices: one call      *)
(* (qgram_metrics.cpp, qgram_core.h). The q-grams of a string are sorted   *)
(* keys, merged with those of the other string. A large matrix has the     *)
(* keys of each distinct string made once, if they fit in memory and are   *)
(* used often enough; a symmetric one is then half computed and mirrored,  *)
(* a row by each task.                                                     *)
(*                                                                         *)
(* Scores are exact fractions; of a cosine, the fraction is its square.    *)
(* A string is [enc, bytes]: R keeps one object for all equal ones.        *)
(***************************************************************************)
EXTENDS Utf8, SequencesExt, FiniteSetsExt

CONSTANTS
  NA,
  PackedBytes,    \* 8: so many bytes are packed into one word
  PackedPoints,   \* 3: so many code points
  PointValues,    \* 2^21: more than any code point
  PreparedCells,  \* 4096: a smaller matrix is not prepared
  PreparedBytes,  \* 128 MiB: the most that prepared keys may take
  Grain,          \* 1024: cells of a task
  QCalls          \* [metric, a, b, same, matrix, useBytes, q, alpha, beta], weights in halves

LimitsAdmitted ==
  /\ {PackedBytes, PackedPoints, PreparedCells, PreparedBytes} \subseteq Nat
  /\ PointValues \in Nat \ {0} /\ Grain \in Nat \ {0}

VARIABLES
  qcall,
  arena,   \* what was prepared: [keys, a, b]; Unprepared before and without
  tasks,   \* what threads have not done yet, sets of cells
  scores   \* per cell, from 0; Unset until written

Unset == <<>>
Missing == <<-1, 1>>
One  == <<1, 1>>
Zero == <<0, 1>>
Unprepared == [keys |-> <<>>, a |-> <<>>, b |-> <<>>]

Power(n, k) == LET p[i \in 0 .. k] == IF i = 0 THEN 1 ELSE n * p[i - 1] IN p[k]
Fraction(n, d) == IF d = 0 THEN Zero ELSE <<n, d>>
Same(x, y) == IF Missing \in {x, y} THEN x = y ELSE x[1] * y[2] = y[1] * x[2]
-----------------------------------------------------------------------------
(* Keys *)

Q == qcall.q
GramCount(s) == Max({0, Len(s) - Q + 1})
Grams(s) == [i \in 1 .. GramCount(s) |-> SubSeq(s, i, i + Q - 1)]

(* The last Q symbols packed, at every symbol: the oldest is masked away.  *)
Packed(s, values) ==
  LET key[i \in 0 .. Len(s)] ==
        IF i = 0 THEN 0 ELSE (key[i - 1] % Power(values, Q - 1)) * values + s[i]
  IN  [i \in 1 .. GramCount(s) |-> key[i + Q - 1]]

Lexicographic(g, h) == \E k \in 1 .. Q : SubSeq(g, 1, k - 1) = SubSeq(h, 1, k - 1) /\ g[k] < h[k]

IsPacked(wide) == Q <= IF wide THEN PackedPoints ELSE PackedBytes
Less(g, h, wide) == IF IsPacked(wide) THEN g < h ELSE Lexicographic(g, h)

SortedKeys(s, wide) ==
  SortSeq(IF IsPacked(wide) THEN Packed(s, IF wide THEN PointValues ELSE 256) ELSE Grams(s),
          LAMBDA g, h : Less(g, h, wide))
DistinctKeys(keys) ==
  FoldLeft(LAMBDA u, g : IF u # <<>> /\ Last(u) = g THEN u ELSE Append(u, g), <<>>, keys)

(* The score goes by sets of q-grams, the cosine's by their counts. *)
Keys(s, wide) ==
  IF qcall.metric = "cosine" THEN SortedKeys(s, wide) ELSE DistinctKeys(SortedKeys(s, wide))
-----------------------------------------------------------------------------
(* Scores of sorted keys *)

(* sorted_intersection_size() *)
Shared(g, h, wide) ==
  LET from[i \in 1 .. Len(g) + 1, j \in 1 .. Len(h) + 1] ==
        IF i > Len(g) \/ j > Len(h) THEN 0
        ELSE IF g[i] = h[j] THEN 1 + from[i + 1, j + 1]
        ELSE IF Less(g[i], h[j], wide) THEN from[i + 1, j]
        ELSE from[i, j + 1]
  IN  from[1, 1]

(* qgram_frequency_overlap(): a run of equal keys is a q-gram's count. *)
RunEnd(g, i) == Max({k \in i .. Len(g) : \A m \in i .. k : g[m] = g[i]}) + 1
Frequencies(g, h, wide) ==
  LET from[i \in 1 .. Len(g) + 1, j \in 1 .. Len(h) + 1] ==
        LET ri == RunEnd(g, i)
            rj == RunEnd(h, j)
        IN  IF i > Len(g) /\ j > Len(h) THEN [a |-> 0, b |-> 0, dot |-> 0]
            ELSE IF j > Len(h) \/ (i <= Len(g) /\ Less(g[i], h[j], wide))
              THEN [from[ri, j] EXCEPT !.a = @ + (ri - i) * (ri - i)]
            ELSE IF i > Len(g) \/ Less(h[j], g[i], wide)
              THEN [from[i, rj] EXCEPT !.b = @ + (rj - j) * (rj - j)]
            ELSE LET r == from[ri, rj]
                 IN  [a |-> r.a + (ri - i) * (ri - i), b |-> r.b + (rj - j) * (rj - j),
                      dot |-> r.dot + (ri - i) * (rj - j)]
  IN  from[1, 1]

FromOverlap(m, n, inter) ==
  CASE qcall.metric = "jaccard" -> Fraction(inter, m + n - inter)
    [] qcall.metric = "dice"    -> Fraction(2 * inter, m + n)
    [] qcall.metric = "overlap" -> Fraction(inter, Min({m, n}))
    [] qcall.metric = "tversky" ->
         Fraction(2 * inter, 2 * inter + qcall.alpha * (m - inter) + qcall.beta * (n - inter))

FromKeys(g, h, wide) ==
  IF qcall.metric = "cosine"
    THEN LET f == Frequencies(g, h, wide) IN Fraction(f.dot * f.dot, f.a * f.b)
    ELSE FromOverlap(Len(g), Len(h), Shared(g, h, wide))
-----------------------------------------------------------------------------
(* The characters of a string (codepoint_snapshot.h). *)
PointsOf(text) ==
  LET from[i \in 1 .. Len(text) + 1] ==
        IF i > Len(text) THEN <<>>
        ELSE <<Utf8Decode(text, i).point>> \o from[i + Utf8Decode(text, i).width]
  IN  from[1]
IsAscii(text) == \A k \in DOMAIN text : text[k] < 128

(* One pair. Two ASCII strings are compared by their bytes. *)
PairScore(x, y) ==
  IF NA \in {x, y} THEN Missing
  ELSE LET wide == ~qcall.useBytes /\ ~(IsAscii(x.bytes) /\ IsAscii(y.bytes))
           s == IF wide THEN PointsOf(x.bytes) ELSE x.bytes
           t == IF wide THEN PointsOf(y.bytes) ELSE y.bytes
       IN  IF s = t THEN One ELSE FromKeys(Keys(s, wide), Keys(t, wide), wide)
-----------------------------------------------------------------------------
(* Preparation *)

A == qcall.a
B == qcall.b
Count == IF qcall.matrix THEN Len(A) * Len(B) ELSE Len(A)

(* A's strings and then b's, each with the times it is met in the matrix. *)
Inputs ==
  [k \in DOMAIN A |-> [s |-> A[k], reuse |-> Len(B)]]
    \o [k \in DOMAIN B |-> [s |-> B[k], reuse |-> Len(A)]]

(* prepare_packed_qgrams(): the distinct strings, as long as their keys    *)
(* fit; `work` counts the q-grams that would be made without preparation.  *)
AddInput(u, input) ==
  IF input.s = NA \/ u.full THEN u
  ELSE LET grams  == GramCount(input.s.bytes)
           met    == [u EXCEPT !.work = @ + grams * input.reuse]
           keys   == grams + Max({0, grams - u.longest})
           bytes  == u.bytes + 8 * keys
       IN  IF Contains(u.distinct, input.s) THEN met
           ELSE IF keys > (PreparedBytes - u.bytes) \div 8 \/ 128 > PreparedBytes - bytes
             THEN [u EXCEPT !.full = TRUE]
           ELSE [met EXCEPT !.bytes = bytes + 128, !.longest = Max({@, grams}),
                            !.distinct = Append(@, input.s), !.grams = @ + grams]
Distinct ==
  FoldLeft(AddInput,
    [distinct |-> <<>>, bytes |-> 40 * Len(Inputs), longest |-> 0, grams |-> 0, work |-> 0,
     full |-> Len(Inputs) > PreparedBytes \div 40], Inputs)

IsPrepared ==
  /\ qcall.matrix /\ qcall.useBytes
  /\ Q <= PackedBytes /\ Count >= PreparedCells
  /\ ~Distinct.full
  /\ Distinct.grams > 0 => 2 * Distinct.work >= 3 * Distinct.grams

(* The keys of the distinct strings one behind the other; each string has  *)
(* the slice of the one it is equal to.                                    *)
Prepared ==
  LET strings == Distinct.distinct
      keys    == [id \in DOMAIN strings |-> Keys(strings[id].bytes, FALSE)]
      before(id) == FlattenSeq(SubSeq(keys, 1, id - 1))
      slice(s) == IF s = NA THEN [offset |-> 0, size |-> 0, isNa |-> TRUE, id |-> 0]
                  ELSE LET id == CHOOSE id \in DOMAIN strings : strings[id] = s
                       IN  [offset |-> Len(before(id)), size |-> Len(keys[id]),
                            isNa |-> FALSE, id |-> id]
  IN  [keys |-> FlattenSeq(keys),
       a |-> [k \in DOMAIN A |-> slice(A[k])], b |-> [k \in DOMAIN B |-> slice(B[k])]]

(* SetOverlapCell, CosineCell: two strings without q-grams are equal when  *)
(* they are one and the same.                                              *)
PreparedCell(as, bs) ==
  LET stretch(u) == SubSeq(arena.keys, u.offset + 1, u.offset + u.size)
  IN  IF as.isNa \/ bs.isNa THEN Missing
      ELSE IF as.size = 0 /\ bs.size = 0 THEN IF as.id = bs.id THEN One ELSE Zero
      ELSE FromKeys(stretch(as), stretch(bs), FALSE)
-----------------------------------------------------------------------------
(* Variant: any matrix of a vector with itself is mirrored. *)
IsMirroredAlways == qcall.same

(* The scores that a matrix of a vector with itself mirrors. *)
IsMirrored == qcall.same /\ qcall.metric # "tversky"

Cells == 0 .. Count - 1
RowOf(cell) == cell % Len(A)
ColumnOf(cell) == cell \div Len(A)
Upper(row) == {cell \in Cells : row = Min({RowOf(cell), ColumnOf(cell)})}

Tasks(mirrored) ==
  IF mirrored THEN {Upper(row) : row \in 0 .. Len(A) - 1}
  ELSE {{cell \in Cells : cell \div Grain = k} : k \in {cell \div Grain : cell \in Cells}}

QgramsInit ==
  /\ qcall \in QCalls
  /\ arena = Unprepared /\ tasks = {} /\ scores = <<>>

Start ==
  /\ scores = <<>>
  /\ arena' = IF IsPrepared THEN Prepared ELSE Unprepared
  /\ tasks' = Tasks(IsPrepared /\ IsMirrored)
  /\ scores' = [cell \in Cells |-> Unset]
  /\ UNCHANGED qcall

(* PreparedSymmetricWorker: the cells right of the diagonal and their      *)
(* mirror images; the diagonal needs no score.                             *)
MirroredScore(cell) ==
  LET row    == Min({RowOf(cell), ColumnOf(cell)})
      column == Max({RowOf(cell), ColumnOf(cell)})
  IN  IF row # column THEN PreparedCell(arena.a[row + 1], arena.a[column + 1])
      ELSE IF arena.a[row + 1].isNa THEN Missing ELSE One

Score(cell) ==
  CASE arena # Unprepared /\ IsMirrored  -> MirroredScore(cell)
    [] arena # Unprepared /\ ~IsMirrored ->
         PreparedCell(arena.a[RowOf(cell) + 1], arena.b[ColumnOf(cell) + 1])
    [] arena = Unprepared /\ qcall.matrix -> PairScore(A[RowOf(cell) + 1], B[ColumnOf(cell) + 1])
    [] OTHER -> PairScore(A[cell + 1], B[cell + 1])

(* A thread does one task; tasks come in any order. *)
DoTask(task) ==
  /\ task \in tasks
  /\ tasks' = tasks \ {task}
  /\ scores' = [cell \in Cells |-> IF cell \in task THEN Score(cell) ELSE scores[cell]]
  /\ UNCHANGED <<qcall, arena>>

QgramsNext == Start \/ \E task \in tasks : DoTask(task)
-----------------------------------------------------------------------------
(* By the definition: sets of q-grams, or how often each occurs.           *)
Defined(x, y) ==
  LET text(u) == IF qcall.useBytes THEN u.bytes ELSE PointsOf(u.bytes)
      s == text(x)
      t == text(y)
      g == Range(Grams(s))
      h == Range(Grams(t))
      times(u, gram) == Cardinality({i \in DOMAIN Grams(u) : Grams(u)[i] = gram})
      squares(u) == MapThenSumSet(LAMBDA gram : times(u, gram) * times(u, gram), Range(Grams(u)))
      dot == MapThenSumSet(LAMBDA gram : times(s, gram) * times(t, gram), g \cap h)
  IN  IF NA \in {x, y} THEN Missing
      ELSE IF s = t THEN One
      ELSE IF qcall.metric = "cosine" THEN Fraction(dot * dot, squares(s) * squares(t))
      ELSE FromOverlap(Cardinality(g), Cardinality(h), Cardinality(g \cap h))

(* Every score is that of the definition, 1 for equal strings however      *)
(* short, whether it was computed from words or strings, bytes or points,  *)
(* for the pair alone or from prepared keys, or mirrored; every cell is    *)
(* written, whatever the order of the tasks.                               *)
QgramsExact ==
  scores # <<>> =>
    \A cell \in Cells :
      IF scores[cell] = Unset THEN tasks # {}
      ELSE Same(scores[cell],
             IF qcall.matrix THEN Defined(A[RowOf(cell) + 1], B[ColumnOf(cell) + 1])
             ELSE Defined(A[cell + 1], B[cell + 1]))
=============================================================================
