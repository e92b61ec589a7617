------------------------------ MODULE EditKernels ------------------------------
(***************************************************************************)
(* The edit-distance kernels: one call on one pair of strings.             *)
(*                                                                         *)
(*   bytes    levenshtein_core.h: common ends are stripped; what is left   *)
(*            goes to a bit-parallel kernel when the shorter string fits a *)
(*            machine word, else to a table of which two or three rows are *)
(*            kept.                                                        *)
(*   points   unicode_metric_core.h: the same on code points, tables only. *)
(*   within   the banded form: only cells near the diagonal, in two rows   *)
(*            that are used in turn, and an early end.                     *)
(*   agrep    approx_search.cpp: the pattern against any part of a text.   *)
(*                                                                         *)
(* A step is one row of the table: one turn of the kernels' outer loop.    *)
(* Words are sets of bit positions. Case folding and the decoding of       *)
(* strings into characters come before.                                    *)
(***************************************************************************)
EXTENDS EditDistance

CONSTANTS
  W,       \* bits of a machine word (64)
  Jobs,    \* calls: [method, form, s, t, k]
  Absent   \* the id of symbols that x does not have

JobsAdmitted ==
  /\ W \in Nat \ {0}
  /\ Jobs \subseteq [method : {"levenshtein", "osa", "damerau", "within", "agrep"},
                     form : {"bytes", "points"}, s : Strings, t : Strings, k : Nat]
  /\ Absent \notin Letters

None == -1

VARIABLES
  job,
  kernel,   \* "none" before the call, the loop that runs, "done"
  x,        \* the string the outer loop reads
  y,        \* the other one: the pattern, or the columns of the table
  i,        \* characters of x read
  word,     \* the bit-parallel kernels' words [pv, mv, d0, eq]
  score,
  row,      \* the row just written
  older,    \* the row before it, or what is left in its buffer
  fr,       \* damerau: row k - 1 at column j - 2, k the last row to match column j
  last,     \* damerau: the last row of a symbol
  answer

vars == <<job, kernel, x, y, i, word, score, row, older, fr, last, answer>>
-----------------------------------------------------------------------------
Columns == 0 .. Len(y)
NoRow == <<>>

Bits == 0 .. W - 1
Not(u) == Bits \ u
Xor(u, v) == (u \ v) \cup (v \ u)
Up(u) == {b + 1 : b \in u} \cap Bits
Value(u) == MapThenSumSet(LAMBDA b : 2 ^ b, u)
Plus(u, v) == {b \in Bits : ((Value(u) + Value(v)) \div 2 ^ b) % 2 = 1}

(* peq[c]: where the pattern has the character. *)
Eq(c) == {j \in Bits : j < Len(y) /\ y[j + 1] = c}
High == Len(y) - 1

CommonPrefix(s, t) == Len(LongestCommonPrefix({s, t}))

(* Both strings without their common prefix, then without the common       *)
(* suffix of what is left.                                                 *)
Stripped(s, t) ==
  LET p  == CommonPrefix(s, t)
      s1 == SubSeq(s, p + 1, Len(s))
      t1 == SubSeq(t, p + 1, Len(t))
      q  == CommonPrefix(Reverse(s1), Reverse(t1))
  IN  <<Prefix(s1, Len(s1) - q), Prefix(t1, Len(t1) - q)>>

(* Whether the pattern has a bit for every character. *)
FitsWord(u) == Len(u) <= W

LongerFirst(u, v) == IF Len(u) < Len(v) THEN <<v, u>> ELSE <<u, v>>

Init ==
  /\ job \in Jobs
  /\ kernel = "none"
  /\ x = <<>> /\ y = <<>>
  /\ i = 0
  /\ word = [pv |-> {}, mv |-> {}, d0 |-> {}, eq |-> {}]
  /\ score = 0
  /\ row = NoRow /\ older = NoRow /\ fr = NoRow
  /\ last = NoRow
  /\ answer = None

Return(d) ==
  /\ kernel' = "done"
  /\ answer' = d

(* A kernel's set-up: x and y, a first row of words, an empty or a full one.*)
Begin(name, pair) ==
  /\ kernel' = name
  /\ x' = pair[1]
  /\ y' = pair[2]
  /\ i' = 0
  /\ score' = Len(pair[2])
  /\ UNCHANGED answer

UseWords(pv) ==
  /\ word' = [pv |-> pv, mv |-> {}, d0 |-> {}, eq |-> {}]
  /\ UNCHANGED <<row, older, fr, last>>

UseRows(r, o) ==
  /\ row' = r
  /\ older' = o
  /\ UNCHANGED <<word, fr, last>>

FirstRow(t) == [j \in 0 .. Len(t) |-> j]

(* levenshtein_distance(), osa_distance() and sequence_levenshtein_        *)
(* distance(), sequence_osa_distance(), which knows equal strings but      *)
(* strips nothing. Of two strings of the same length the words' kernels    *)
(* take the first for the pattern, the tables take it for the rows.        *)
LevenshteinOrOsa ==
  /\ kernel = "none"
  /\ job.method \in {"levenshtein", "osa"}
  /\ LET pair == IF job.form = "points" /\ job.method = "osa" /\ job.s # job.t
                   THEN LongerFirst(job.s, job.t)
                   ELSE LongerFirst(Stripped(job.s, job.t)[1], Stripped(job.s, job.t)[2])
     IN  IF pair[2] = <<>>
           THEN Return(Len(pair[1])) /\ UNCHANGED <<x, y, i, word, score, row, older, fr, last>>
           ELSE IF job.form = "bytes" /\ FitsWord(pair[2])
             THEN Begin(IF job.method = "osa" THEN "hyyro" ELSE "myers",
                        IF Len(pair[1]) = Len(pair[2]) THEN Reverse(pair) ELSE pair)
                  /\ UseWords(Bits)
             ELSE Begin(IF job.method = "osa" THEN "osaRows" ELSE "rows", pair)
                  /\ UseRows(FirstRow(pair[2]), [j \in 0 .. Len(pair[2]) |-> 0])
  /\ UNCHANGED job

(* damerau_levenshtein_distance() and damerau_levenshtein_codepoints(). *)
DamerauStart ==
  /\ kernel = "none"
  /\ job.method = "damerau"
  /\ LET pair == LongerFirst(Stripped(job.s, job.t)[1], Stripped(job.s, job.t)[2])
         unreachable == Len(pair[1]) + 1
     IN  IF pair[2] = <<>>
           THEN Return(Len(pair[1])) /\ UNCHANGED <<x, y, i, word, score, row, older, fr, last>>
           ELSE /\ Begin("damerau", pair)
                /\ row'   = [j \in -1 .. Len(pair[2]) |-> IF j = -1 THEN unreachable ELSE j]
                /\ older' = [j \in -1 .. Len(pair[2]) |-> unreachable]
                /\ fr'    = [j \in 1 .. Len(pair[2]) |-> unreachable]
                /\ last'  = [c \in Letters \cup {Absent} |-> -1]
                /\ UNCHANGED word
  /\ UNCHANGED job

(* sequence_bounded_levenshtein_distance(): more than k is answered k + 1. *)
WithinStart ==
  /\ kernel = "none"
  /\ job.method = "within"
  /\ LET k == job.k
         pair == LongerFirst(Stripped(job.s, job.t)[1], Stripped(job.s, job.t)[2])
         gap == Len(pair[1]) - Len(pair[2])
     IN  IF gap > k \/ pair[2] = <<>>
           THEN /\ Return(IF gap > k THEN k + 1 ELSE gap)
                /\ UNCHANGED <<x, y, i, word, score, row, older, fr, last>>
           ELSE IF k >= Len(pair[1])
             THEN Begin("rows", pair) /\ UseRows(FirstRow(pair[2]), FirstRow(pair[2]))
             ELSE Begin("band", pair)
                  /\ UseRows([j \in 0 .. Len(pair[2]) |-> IF j <= k THEN j ELSE k + 1],
                             [j \in 0 .. Len(pair[2]) |-> k + 1])
  /\ UNCHANGED job

(* ApproxPattern::matches(): the pattern t anywhere in the text s. *)
AgrepStart ==
  /\ kernel = "none"
  /\ job.method = "agrep"
  /\ IF Len(job.t) <= job.k
       THEN Return(1) /\ UNCHANGED <<x, y, i, word, score, row, older, fr, last>>
       ELSE IF FitsWord(job.t)
         THEN Begin("search", <<job.s, job.t>>) /\ UseWords(0 .. Len(job.t) - 1)
         ELSE Begin("searchRows", <<job.s, job.t>>) /\ UseRows(FirstRow(job.t), NoRow)
  /\ UNCHANGED job
-----------------------------------------------------------------------------
Symbol == x[i + 1]
Reading(name) == kernel = name /\ i < Len(x)

Scored(ph, mh) ==
  IF High \in ph THEN score + 1 ELSE IF High \in mh THEN score - 1 ELSE score

(* One turn of myers_levenshtein_64() (carry is its first bit) and of      *)
(* ApproxPattern::myers() (no carry: the table's top row is zeros).        *)
MyersWords(carry) ==
  LET eq == Eq(Symbol)
      pv == word.pv
      mv == word.mv
      xv == eq \cup mv
      xh == Xor(Plus(eq \cap pv, pv), pv) \cup eq
      ph == mv \cup Not(xh \cup pv)
      mh == pv \cap xh
      up == Up(ph) \cup carry
  IN  [ph |-> ph, mh |-> mh,
       next |-> [word EXCEPT !.pv = Up(mh) \cup Not(xv \cup up), !.mv = up \cap xv]]

MyersRow ==
  /\ Reading("myers")
  /\ LET m == MyersWords({0})
     IN  score' = Scored(m.ph, m.mh) /\ word' = m.next
  /\ i' = i + 1
  /\ UNCHANGED <<job, kernel, x, y, row, older, fr, last, answer>>

(* The word TR: swaps that end here and were no match two back. *)
Transposed(eq) == Up(Not(word.d0) \cap eq) \cap word.eq

(* One turn of hyyro_osa_64(). *)
HyyroRow ==
  /\ Reading("hyyro")
  /\ LET eq == Eq(Symbol)
         vp == word.pv
         d0 == Xor(Plus(eq \cap vp, vp), vp) \cup eq \cup word.mv \cup Transposed(eq)
         hp == word.mv \cup Not(d0 \cup vp)
         hn == d0 \cap vp
         up == Up(hp) \cup {0}
     IN  /\ score' = Scored(hp, hn)
         /\ word' = [pv |-> Up(hn) \cup Not(d0 \cup up), mv |-> up \cap d0, d0 |-> d0, eq |-> eq]
  /\ i' = i + 1
  /\ UNCHANGED <<job, kernel, x, y, row, older, fr, last, answer>>

(* The id of a symbol in damerau_levenshtein_codepoints(); bytes are their *)
(* own.                                                                    *)
Id(c) == IF job.form = "points" /\ c \notin Range(x) THEN Absent ELSE c

Cost(j) == IF Symbol = y[j] THEN 0 ELSE 1

(* A row of the table that begins with first. *)
NextRow(first) ==
  LET new[j \in Columns] ==
        IF j = 0 THEN first ELSE Min({row[j] + 1, new[j - 1] + 1, row[j - 1] + Cost(j)})
  IN  new

(* levenshtein_dp(), sequence_levenshtein_distance(). *)
Row ==
  /\ Reading("rows")
  /\ row' = NextRow(i + 1)
  /\ i' = i + 1
  /\ UNCHANGED <<job, kernel, x, y, word, score, older, fr, last, answer>>

(* osa_dp(), sequence_osa_distance(): the row before the last is kept too. *)
OsaRow ==
  /\ Reading("osaRows")
  /\ row' = LET new[j \in Columns] ==
                  IF j = 0 THEN i + 1
                  ELSE Min({row[j] + 1, new[j - 1] + 1, row[j - 1] + Cost(j)}
                           \cup (IF i > 0 /\ j > 1 /\ Symbol = y[j - 1] /\ x[i] = y[j]
                                   THEN {older[j - 2] + 1} ELSE {}))
            IN  new
  /\ older' = row
  /\ i' = i + 1
  /\ UNCHANGED <<job, kernel, x, y, word, score, fr, last, answer>>

(* One cell of damerau_levenshtein_linear(). The new row replaces the row  *)
(* before the last cell by cell: before is what the cell just left held,   *)
(* t what was left of the last match in this row.                          *)
DamerauCell(acc, j) ==
  LET ai == Id(Symbol)
      bj == Id(y[j])
      k  == last[bj]
      plain == Min({row[j - 1] + Cost(j), acc.r[j - 1] + 1, row[j] + 1})
      best == IF ai # bj /\ j - acc.match = 1 THEN Min({plain, acc.fr[j] + (i + 1 - k)})
              ELSE IF ai # bj /\ i + 1 - k = 1 THEN Min({plain, acc.t + (j - acc.match)})
              ELSE plain
  IN  [r |-> [acc.r EXCEPT ![j] = best],
       before |-> acc.r[j],
       match |-> IF ai = bj THEN j ELSE acc.match,
       t |-> IF ai = bj THEN acc.before ELSE acc.t,
       fr |-> IF ai = bj THEN [acc.fr EXCEPT ![j] = row[j - 2]] ELSE acc.fr]

DamerauRow ==
  /\ Reading("damerau")
  /\ LET start == [r |-> [older EXCEPT ![0] = i + 1], before |-> older[0],
                   match |-> -1, t |-> Len(x) + 1, fr |-> fr]
         end == FoldLeftDomain(DamerauCell, start, y)
     IN  row' = end.r /\ fr' = end.fr
  /\ older' = row
  /\ last' = [last EXCEPT ![Id(Symbol)] = i + 1]
  /\ i' = i + 1
  /\ UNCHANGED <<job, kernel, x, y, word, score, answer>>

(* The band of row i + 1, and the row as it lies in its buffer: what the   *)
(* band does not reach is left from two rows ago.                          *)
BandFirst == Max({1, i + 1 - job.k})
BandLast  == Min({Len(y), i + 1 + job.k})

FaultyBanded ==   \* no sentinel on the left of the band
  LET outside == job.k + 1
      new[j \in Columns] ==
        IF j \in BandFirst .. BandLast
          THEN Min({row[j] + 1, new[j - 1] + 1, row[j - 1] + Cost(j), outside})
        ELSE IF j > 0 /\ j = BandLast + 1 THEN outside
        ELSE IF j = 0 THEN Min({i + 1, outside})
        ELSE older[j]
  IN  new

Banded ==
  LET outside == job.k + 1
      new[j \in Columns] ==
        IF j \in BandFirst .. BandLast
          THEN Min({row[j] + 1, new[j - 1] + 1, row[j - 1] + Cost(j), outside})
        ELSE IF j > 0 /\ j \in {BandFirst - 1, BandLast + 1} THEN outside
        ELSE IF j = 0 THEN Min({i + 1, outside})
        ELSE older[j]
  IN  new

(* A row with nothing within k ends the call. Column 0 is not asked.       *)
BandRow ==
  /\ Reading("band")
  /\ LET new == Banded
     IN  IF \A j \in BandFirst .. BandLast : new[j] > job.k
           THEN Return(job.k + 1) /\ UNCHANGED <<i, row, older>>
           ELSE /\ row' = new
                /\ older' = row
                /\ i' = i + 1
                /\ UNCHANGED <<kernel, answer>>
  /\ UNCHANGED <<job, x, y, word, score, fr, last>>

(* The search ends with the first place that is close enough. *)
FoundOrOn(d) ==
  IF d <= job.k THEN Return(1) ELSE UNCHANGED <<kernel, answer>>

SearchRow ==
  /\ Reading("search")
  /\ LET m == MyersWords({})
     IN  score' = Scored(m.ph, m.mh) /\ word' = m.next
  /\ FoundOrOn(score')
  /\ i' = i + 1
  /\ UNCHANGED <<job, x, y, row, older, fr, last>>

SearchTableRow ==
  /\ Reading("searchRows")
  /\ row' = NextRow(0)
  /\ FoundOrOn(row'[Len(y)])
  /\ i' = i + 1
  /\ UNCHANGED <<job, x, y, word, score, older, fr, last>>

(* x is used up. *)
Finish ==
  /\ kernel \notin {"none", "done"}
  /\ i = Len(x)
  /\ Return(CASE kernel \in {"myers", "hyyro"} -> score
              [] kernel \in {"search", "searchRows"} -> 0
              [] OTHER -> row[Len(y)])
  /\ UNCHANGED <<job, x, y, i, word, score, row, older, fr, last>>

Next ==
  \/ LevenshteinOrOsa \/ DamerauStart \/ WithinStart \/ AgrepStart
  \/ MyersRow \/ HyyroRow \/ Row \/ OsaRow \/ DamerauRow \/ BandRow
  \/ SearchRow \/ SearchTableRow \/ Finish

Spec == Init /\ [][Next]_vars
-----------------------------------------------------------------------------
(* What a cell of the table stands for: the distance of a prefix of x and  *)
(* a prefix of y; in a search, the best distance of any text that ends     *)
(* where the prefix of x does.                                             *)
Cell(j) ==
  LET read == Prefix(x, i)
      part == Prefix(y, j)
  IN  CASE kernel \in {"myers", "rows", "band"} -> Levenshtein(read, part)
        [] kernel \in {"hyyro", "osaRows"} -> Osa(read, part)
        [] kernel = "damerau" -> Damerau(read, part)
        [] kernel \in {"search", "searchRows"} ->
             Min({Levenshtein(SubSeq(x, from, i), part) : from \in 1 .. i + 1})

(* After every row the kernel's state stands for that row of the table:    *)
(* the words' bits are the steps from each cell to the next and the score  *)
(* is the last cell; the kept row is the row; the band has the row as far  *)
(* as it is within k.                                                      *)
StateIsTable ==
  /\ kernel \in {"myers", "hyyro", "search"} =>
       /\ score = Cell(Len(y))
       /\ \A j \in 1 .. Len(y) :
            /\ j - 1 \in word.pv <=> Cell(j) = Cell(j - 1) + 1
            /\ j - 1 \in word.mv <=> Cell(j) = Cell(j - 1) - 1
  /\ kernel \in {"rows", "osaRows", "damerau", "searchRows"} =>
       \A j \in Columns : row[j] = Cell(j)
  /\ kernel = "band" =>
       \A j \in Columns : j \in i - job.k .. i + job.k => row[j] = Min({Cell(j), job.k + 1})

(* The answer is the distance, whichever kernel the lengths, the form and  *)
(* the bound lead to.                                                      *)
AnswerExact ==
  kernel = "done" =>
    answer = CASE job.method = "levenshtein" -> Levenshtein(job.s, job.t)
               [] job.method = "osa" -> Osa(job.s, job.t)
               [] job.method = "damerau" -> Damerau(job.s, job.t)
               [] job.method = "within" -> Min({Levenshtein(job.s, job.t), job.k + 1})
               [] job.method = "agrep" ->
                    IF \E part \in SubSeqs(job.s) : Levenshtein(part, job.t) <= job.k THEN 1 ELSE 0

(* Of the edit distances: every turn of a kernel's loop leaves cells of the  *)
(* distance's table, and what is returned is the distance.                   *)
DistancesExact == StateIsTable /\ AnswerExact
=============================================================================
