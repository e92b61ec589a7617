------------------------------ MODULE FuzzScores ------------------------------
(***************************************************************************)
(* The scorers of the fuzz_ functions (rapidfuzz_core.h) and the searches  *)
(* over tables of strings that use them (fuzz.cpp): fuzz_cdist(), the      *)
(* matrix of all pairs, which computes one half when a vector is compared  *)
(* with itself, and fuzz_extract(), the best choices of each query, which  *)
(* hands the scorer the worst score still in the list as its cutoff. The   *)
(* basic scores are FuzzKernels'. Strings are sequences of code points.    *)
(***************************************************************************)
EXTENDS FuzzKernels

CONSTANTS
  Tables,       \* calls: [fn, scorer, x, y, same, process, cutoff, limit]
  TasksWanted,  \* 128: tasks the extraction aims for
  ChunkMin      \* 1024: choices that are worth a chunk

NA == <<-1>>
Unset == -2
NaScore == -3
NoAnswer == <<[query |-> 0, choice |-> 0, score |-> 0, rank |-> 0]>>

VARIABLES
  table,        \* the call
  todo,         \* tasks not begun: ranges of cells, rows, or query and chunk
  cells,        \* the matrix, by columns
  tasks,        \* tasks of the extraction under way or done: [query, choice, last, best]
  extract       \* the answer: [query, choice, score, rank]

tableVars == <<table, todo, cells, tasks, extract>>
-----------------------------------------------------------------------------
(* rf_default_process_char(): letters in lower case, digits, else a space. *)
(* An extract of the tables (rapidfuzz_unicode.h).                         *)
ProcessChar(c) ==
  CASE c \in (48 .. 57) \cup (97 .. 122) \cup {223, 233, 963} -> c
    [] c \in 65 .. 90 -> c + 32
    [] c = 201 -> 233
    [] c = 931 -> 963
    [] OTHER -> 32

(* rf_prepare_into() of decoded text. *)
Prepared(s, process) ==
  LET all  == [k \in DOMAIN s |-> ProcessChar(s[k])]
      kept == {k \in DOMAIN s : all[k] # 32}
  IN  IF ~process THEN s ELSE IF kept = {} THEN <<>> ELSE SubSeq(all, Min(kept), Max(kept))

(* rf_is_space(): in a string whose characters fit a byte only ASCII's.    *)
IsSpace(c, wide) ==
  \/ c \in (9 .. 13) \cup (28 .. 32)
  \/ wide /\ c \in {133, 160, 5760} \cup (8192 .. 8202) \cup {8232, 8233, 8239, 8287, 12288}

Less(s, t) ==
  \E k \in DOMAIN t : /\ \A q \in 1 .. k - 1 : q \in DOMAIN s /\ s[q] = t[q]
                      /\ k \in DOMAIN s => s[k] < t[k]

(* rf_sorted_split(): the stretches between spaces, in order. *)
InOrder(words) ==
  LET place(k) == Cardinality({q \in DOMAIN words :
                     Less(words[q], words[k]) \/ (words[q] = words[k] /\ q <= k)})
  IN  [n \in 1 .. Cardinality(DOMAIN words) |-> words[CHOOSE k \in DOMAIN words : place(k) = n]]

Tokens(s) ==
  LET wide   == \E k \in DOMAIN s : s[k] >= 256
      space  == {k \in DOMAIN s : IsSpace(s[k], wide)}
      starts == {k \in DOMAIN s \ space : k - 1 \in space \cup {0}}
      end(k) == Min({q \in k .. Len(s) : q + 1 \in space \cup {Len(s) + 1}})
  IN  InOrder([k \in starts |-> SubSeq(s, k, end(k))])

(* rf_join(), rf_joined_length() *)
Join(tokens) ==
  FlattenSeq([k \in DOMAIN tokens |-> IF k = 1 THEN tokens[1] ELSE <<32>> \o tokens[k]])
JoinedLength(tokens) == Len(Join(tokens))

Unique(tokens) ==
  LET upto[n \in 0 .. Len(tokens)] ==
        IF n = 0 THEN <<>>
        ELSE LET before == upto[n - 1]
             IN  IF before # <<>> /\ Last(before) = tokens[n] THEN before ELSE Append(before, tokens[n])
  IN  upto[Len(tokens)]

(* rf_set_decomposition(): a merge of the two sorted lists. What the token *)
(* scorers work on are the lists and their three parts.                    *)
Merge(A, B) ==
  LET from[i \in 1 .. Len(A) + 1, j \in 1 .. Len(B) + 1] ==
        IF i > Len(A) \/ j > Len(B)
          THEN [inter |-> <<>>, ab |-> SubSeq(A, i, Len(A)), ba |-> SubSeq(B, j, Len(B))]
        ELSE IF A[i] = B[j]
          THEN LET r == from[i + 1, j + 1] IN [r EXCEPT !.inter = <<A[i]>> \o @]
        ELSE IF Less(A[i], B[j])
          THEN LET r == from[i + 1, j] IN [r EXCEPT !.ab = <<A[i]>> \o @]
        ELSE LET r == from[i, j + 1] IN [r EXCEPT !.ba = <<B[j]>> \o @]
  IN  from[1, 1]
WithParts(A, B) == [a |-> A, b |-> B] @@ Merge(Unique(A), Unique(B))
Decomposed(s, t) == WithParts(Tokens(s), Tokens(t))
-----------------------------------------------------------------------------
CeilDiv(n, m) == (n + m - 1) \div m
(* A score times num/den; a cutoff divided by it, to the next score up.    *)
Scaled(score, f) == (score \div f[2]) * f[1]
Raised(cutoff, f) == (cutoff \div f[1]) * f[2] + CeilDiv((cutoff % f[1]) * f[2], f[1])

(* rf_ratio(), rf_partial_ratio(): see FuzzKernels. *)
RatioCut(s, t, cutoff) == Cut(Ratio(s, t), cutoff)
PartialCut(s, t, cutoff) == IF cutoff > Full THEN 0 ELSE Cut(Partial(s, t), cutoff)

(* rf_token_set_from_decomposition(): what is only in one string against   *)
(* what is only in the other, each behind the common words; and these      *)
(* alone against each.                                                     *)
WithinCutoff(m, n, dist, total, cutoff) ==
  LET limit == CeilDiv(total * (Full - cutoff), Full)
  IN  m - n \in -limit .. limit /\ dist <= limit

BestOfSets(cutoff, result, sect, gap, m, n, dist) ==
  LET ab == sect + gap + m
      ba == sect + gap + n
  IN  Max({result}
          \cup {Cut(Similarity(p[1], p[2]), cutoff) :
                  p \in {p \in {<<dist, ab + ba>>} : WithinCutoff(m, n, dist, ab + ba, cutoff)}
                        \cup IF sect = 0 THEN {} ELSE {<<gap + m, sect + ab>>, <<gap + n, sect + ba>>}})

BestOfParts(cutoff, result, d) ==
  LET sect == JoinedLength(d.inter)
  IN  BestOfSets(cutoff, result, sect, IF sect = 0 THEN 0 ELSE 1,
                 JoinedLength(d.ab), JoinedLength(d.ba), Indel(Join(d.ab), Join(d.ba)))

OneContained(d) == d.inter # <<>> /\ <<>> \in {d.ab, d.ba}

TokenSort(cutoff, d) == IF cutoff > Full THEN 0 ELSE RatioCut(Join(d.a), Join(d.b), cutoff)
PartialTokenSort(cutoff, d) == PartialCut(Join(d.a), Join(d.b), cutoff)

TokenSet(cutoff, d) ==
  IF cutoff > Full \/ <<>> \in {d.a, d.b} THEN 0
  ELSE IF OneContained(d) THEN Full
  ELSE BestOfParts(cutoff, 0, d)

PartialTokenSet(cutoff, d) ==
  IF cutoff > Full \/ <<>> \in {d.a, d.b} THEN 0
  ELSE IF d.inter # <<>> THEN Full
  ELSE PartialCut(Join(d.ab), Join(d.ba), cutoff)

TokenRatio(cutoff, d) ==
  IF cutoff > Full THEN 0
  ELSE IF OneContained(d) THEN Full
  ELSE BestOfParts(cutoff, TokenSort(cutoff, d), d)

(* Without repeated words the sets are the sorted lists. *)
OrOfSets(sorted, cutoff, d) ==
  IF Len(d.a) = Len(d.ab) /\ Len(d.b) = Len(d.ba) THEN sorted
  ELSE Max({sorted, PartialCut(Join(d.ab), Join(d.ba), Max({cutoff, sorted}))})
PartialTokenRatio(cutoff, d) ==
  IF cutoff > Full THEN 0
  ELSE IF d.inter # <<>> THEN Full
  ELSE OrOfSets(PartialTokenSort(cutoff, d), cutoff, d)

(* rf_wratio(): the cutoff rises with what is reached already.             *)
Unbase == <<19, 20>>
PartialScale(s, t) ==
  IF Max({Len(s), Len(t)}) <= 8 * Min({Len(s), Len(t)}) THEN <<9, 10>> ELSE <<3, 5>>
OfOneLength(s, t) == 2 * Max({Len(s), Len(t)}) < 3 * Min({Len(s), Len(t)})

OrTokens(ratio, cutoff, d) ==
  Max({ratio, Scaled(TokenRatio(Raised(Max({cutoff, ratio}), Unbase), d), Unbase)})
OrPartialTokens(parts, cutoff, d, f) ==
  Max({parts, Scaled(Scaled(PartialTokenRatio(Raised(Max({cutoff, parts}), Unbase), d), Unbase), f)})
OrPartial(ratio, s, t, cutoff, d, f) ==
  OrPartialTokens(Max({ratio, Scaled(PartialCut(s, t, cutoff), f)}), cutoff, d, f)

WRatioFrom(ratio, s, t, cutoff, d, f) ==
  IF OfOneLength(s, t) THEN OrTokens(ratio, cutoff, d)
  ELSE OrPartial(ratio, s, t, Raised(Max({cutoff, ratio}), f), d, f)
WRatio(s, t, cutoff, d) ==
  IF cutoff > Full \/ <<>> \in {s, t} THEN 0
  ELSE WRatioFrom(RatioCut(s, t, cutoff), s, t, cutoff, d, PartialScale(s, t))

Scorers ==
  {"ratio", "partial_ratio", "token_sort_ratio", "token_set_ratio", "token_ratio",
   "partial_token_sort_ratio", "partial_token_set_ratio", "partial_token_ratio", "wratio", "qratio"}

(* rf_qratio(), rf_score() *)
ScoreOf(scorer, s, t, cutoff, d) ==
  CASE scorer \in {"ratio", "qratio"} ->
         IF scorer = "qratio" /\ <<>> \in {s, t} THEN 0 ELSE RatioCut(s, t, cutoff)
    [] scorer = "partial_ratio"            -> PartialCut(s, t, cutoff)
    [] scorer = "token_sort_ratio"         -> TokenSort(cutoff, d)
    [] scorer = "token_set_ratio"          -> TokenSet(cutoff, d)
    [] scorer = "token_ratio"              -> TokenRatio(cutoff, d)
    [] scorer = "partial_token_sort_ratio" -> PartialTokenSort(cutoff, d)
    [] scorer = "partial_token_set_ratio"  -> PartialTokenSet(cutoff, d)
    [] scorer = "partial_token_ratio"      -> PartialTokenRatio(cutoff, d)
    [] scorer = "wratio"                   -> WRatio(s, t, cutoff, d)
Score(scorer, s, t, cutoff) == ScoreOf(scorer, s, t, cutoff, Decomposed(s, t))
-----------------------------------------------------------------------------
(* FuzzCorpus: the strings, prepared once. *)
Corpus(strings, k) == Prepared(strings[k], table.process)

PairScore(i, j) ==
  IF NA \in {table.x[i], table.y[j]} THEN NaScore
  ELSE Score(table.scorer, Corpus(table.x, i), Corpus(table.y, j), table.cutoff)

Rows == Len(table.x)
Columns == Len(table.y)

(* fast_fuzz_cdist_impl(): rows of one triangle when both are the same     *)
(* vector, else ranges of cells as the dispatch cuts them.                 *)
StartMatrix ==
  /\ table.fn = "cdist" /\ todo = {} /\ cells = <<>>
  /\ cells' = [cell \in 1 .. Rows * Columns |-> Unset]
  /\ IF table.same
       THEN todo' = {[row |-> r] : r \in 1 .. Rows}
       ELSE \E cuts \in SUBSET (1 .. Rows * Columns - 1) :
              todo' = {[from |-> b, upto |-> Min({c \in cuts \cup {Rows * Columns} : c > b})] :
                         b \in cuts \cup {0}}
  /\ UNCHANGED <<table, tasks, extract>>

(* A row from the diagonal rightwards. *)
HalfRow(r) == [c \in r .. Rows |-> PairScore(r, c)]

TriangleRow(task) ==
  /\ table.fn = "cdist" /\ task \in todo /\ table.same
  /\ LET value == HalfRow(task.row)
     IN  cells' = [cell \in DOMAIN cells |->
           LET i == ((cell - 1) % Rows) + 1
               j == (cell - 1) \div Rows + 1
           IN  IF Min({i, j}) = task.row THEN value[Max({i, j})] ELSE cells[cell]]
  /\ todo' = todo \ {task}
  /\ UNCHANGED <<table, tasks, extract>>

MatrixRange(task) ==
  /\ table.fn = "cdist" /\ task \in todo /\ ~table.same
  /\ cells' = [cell \in DOMAIN cells |->
       IF cell \in task.from + 1 .. task.upto
         THEN PairScore(((cell - 1) % Rows) + 1, (cell - 1) \div Rows + 1) ELSE cells[cell]]
  /\ todo' = todo \ {task}
  /\ UNCHANGED <<table, tasks, extract>>

(* fast_fuzz_extract_impl(): the choices are cut into chunks, so that few  *)
(* queries still make many tasks.                                          *)
ChunksPerQuery ==
  Max({1, Min({IF Rows = 0 THEN 1 ELSE CeilDiv(TasksWanted, Rows), CeilDiv(Columns, ChunkMin)})})
ChunkSize == IF Columns = 0 THEN 1 ELSE CeilDiv(Columns, ChunksPerQuery)

StartExtract ==
  /\ table.fn = "extract" /\ todo = {} /\ tasks = <<>>
  /\ todo' = 0 .. Rows * ChunksPerQuery - 1
  /\ tasks' = [t \in 0 .. Rows * ChunksPerQuery - 1 |->
                 LET first == (t % ChunksPerQuery) * ChunkSize
                 IN  [query |-> t \div ChunksPerQuery + 1, choice |-> first + 1,
                      last |-> Min({Columns, first + ChunkSize}), best |-> <<>>]]
  /\ UNCHANGED <<table, cells, extract>>

(* Variant: in front of the entries that are as good. *)
InsertedBefore(best, candidate) ==
  LET place == {k \in DOMAIN best : best[k].score <= candidate.score} \cup {Len(best) + 1}
  IN  InsertAt(best, Min(place), candidate)

(* A list kept in order: behind the entries that are as good. *)
Inserted(best, candidate) ==
  LET place == {k \in DOMAIN best : best[k].score < candidate.score} \cup {Len(best) + 1}
  IN  InsertAt(best, Min(place), candidate)

(* One choice. A full list's last score is the cutoff, which a newcomer    *)
(* must beat; a perfect score ends the search for one choice.              *)
IsFull(best) == table.limit # 0 /\ Len(best) = table.limit
Required(best) == IF IsFull(best) THEN Max({table.cutoff, Last(best).score}) ELSE table.cutoff

ChoiceScore(task) ==
  Score(table.scorer, Corpus(table.x, task.query), Corpus(table.y, task.choice), Required(task.best))

WithFound(best, found) ==
  IF table.limit = 0 THEN Append(best, found)
  ELSE Inserted(IF IsFull(best) THEN Front(best) ELSE best, found)

Taken(task, score) ==
  IF score < table.cutoff \/ (IsFull(task.best) /\ score <= Last(task.best).score)
    THEN [task EXCEPT !.choice = @ + 1]
    ELSE [task EXCEPT !.best = WithFound(@, [score |-> score, choice |-> task.choice]),
                      !.choice = IF table.limit = 1 /\ score = Full THEN task.last + 1 ELSE @ + 1]

Choose(t) ==
  /\ table.fn = "extract" /\ t \in todo
  /\ LET task == tasks[t]
         skip == NA \in {table.x[task.query], table.y[task.choice]}
     IN  /\ task.choice <= task.last
         /\ tasks' = [tasks EXCEPT ![t] =
                        IF skip THEN [@ EXCEPT !.choice = @ + 1] ELSE Taken(@, ChoiceScore(@))]
  /\ UNCHANGED <<table, todo, cells, extract>>

StableByScore(list) ==
  LET place(k) == Cardinality({q \in DOMAIN list :
                     list[q].score > list[k].score \/ (list[q].score = list[k].score /\ q <= k)})
  IN  [n \in DOMAIN list |-> list[CHOOSE k \in DOMAIN list : place(k) = n]]

EndTask(t) ==
  /\ table.fn = "extract" /\ t \in todo
  /\ tasks[t].choice > tasks[t].last
  /\ tasks' = IF table.limit = 0 THEN [tasks EXCEPT ![t].best = StableByScore(@)] ELSE tasks
  /\ todo' = todo \ {t}
  /\ UNCHANGED <<table, cells, extract>>

(* Each query's chunks are put together in order. *)
Merged(query) ==
  LET parts == FlattenSeq([k \in 1 .. ChunksPerQuery |-> tasks[(query - 1) * ChunksPerQuery + k - 1].best])
      all   == IF ChunksPerQuery > 1 THEN StableByScore(parts) ELSE parts
      keep  == IF table.limit = 0 THEN Len(all) ELSE Min({Len(all), table.limit})
  IN  [k \in 1 .. keep |-> [query |-> query, choice |-> all[k].choice, score |-> all[k].score, rank |-> k]]

Finish ==
  /\ table.fn = "extract" /\ todo = {} /\ tasks # <<>> /\ extract = NoAnswer
  /\ extract' = FlattenSeq([q \in 1 .. Rows |-> Merged(q)])
  /\ UNCHANGED <<table, todo, cells, tasks>>

TablesInit ==
  /\ table \in Tables /\ todo = {} /\ cells = <<>> /\ tasks = <<>> /\ extract = NoAnswer

TablesNext ==
  \/ StartMatrix \/ StartExtract \/ Finish
  \/ \E t \in todo : TriangleRow(t) \/ MatrixRange(t) \/ Choose(t) \/ EndTask(t)
-----------------------------------------------------------------------------
Alone(i, j) == Cut(Score(table.scorer, Corpus(table.x, i), Corpus(table.y, j), 0), table.cutoff)

Ranked(listed) ==
  {[query |-> r.query, choice |-> r.choice, score |-> r.score,
    rank |-> 1 + Cardinality({b \in listed : /\ b.query = r.query
                                             /\ \/ b.score > r.score
                                                \/ b.score = r.score /\ b.choice < r.choice})] :
     r \in {r \in listed : r.score >= table.cutoff}}

(* Cells and choices have the score of their pair alone: the mirrored half *)
(* of a matrix holds what the scorer gives the strings the other way round *)
(* ("every scorer is symmetric"); a choice keeps its score, or loses its   *)
(* place, when the scorer is given the worst score listed as its cutoff;   *)
(* ties keep the order of the choices, however these were cut into chunks. *)
CellsExact ==
  /\ \A cell \in DOMAIN cells :
       LET i == ((cell - 1) % Rows) + 1
           j == (cell - 1) \div Rows + 1
       IN  cells[cell] # Unset =>
             cells[cell] = IF NA \in {table.x[i], table.y[j]} THEN NaScore ELSE Alone(i, j)
  /\ extract # NoAnswer =>
       LET known == {p \in (1 .. Rows) \X (1 .. Columns) : NA \notin {table.x[p[1]], table.y[p[2]]}}
           best  == {r \in Ranked({[query |-> p[1], choice |-> p[2], score |-> Alone(p[1], p[2])] : p \in known}) :
                       table.limit = 0 \/ r.rank <= table.limit}
       IN  /\ Range(extract) = best
           /\ \A k \in 2 .. Len(extract) :
                \/ extract[k - 1].query < extract[k].query
                \/ extract[k - 1].query = extract[k].query /\ extract[k - 1].rank < extract[k].rank

(* What R/fuzz.R says of the scorers, for the strings of a matrix: a       *)
(* cutoff hides scores and changes none, however it travels between the    *)
(* scorers; each is symmetric; the combined ones are the best of those     *)
(* they combine; the set scorers see words once, and give 100 to a subset  *)
(* or, the partial ones, to a common word.                                 *)
Combined(S, s, t, f) ==
  CASE table.scorer = "token_ratio" -> Max({S["token_sort_ratio"], S["token_set_ratio"]})
    [] table.scorer = "partial_token_ratio" ->
         Max({S["partial_token_sort_ratio"], S["partial_token_set_ratio"]})
    [] table.scorer = "wratio" /\ <<>> \notin {s, t} ->
         IF OfOneLength(s, t) THEN Max({S["ratio"], Scaled(S["token_ratio"], Unbase)})
         ELSE Max({S["ratio"], Scaled(S["partial_ratio"], f),
                   Scaled(Scaled(S["partial_token_ratio"], Unbase), f)})
    [] OTHER -> S[table.scorer]

Agree(S, score, s, t, A, B, f) ==
  /\ score = Combined(S, s, t, f)
  /\ score = Score(table.scorer, t, s, 0)
  /\ Score(table.scorer, s, t, table.cutoff) = Cut(score, table.cutoff)
  /\ {} \notin {A, B} /\ (A \subseteq B \/ B \subseteq A) => S["token_set_ratio"] = Full
  /\ A \cap B # {} => S["partial_token_set_ratio"] = Full

ScorersAgree ==
  todo = {} /\ cells # <<>> => \A i \in 1 .. Rows, j \in 1 .. Columns :
    NA \notin {table.x[i], table.y[j]} =>
      LET s == Corpus(table.x, i)
          t == Corpus(table.y, j)
      IN  Agree([f \in Scorers |-> Score(f, s, t, 0)], Score(table.scorer, s, t, 0), s, t,
                Range(Tokens(s)), Range(Tokens(t)), PartialScale(s, t))

(* The scores of a matrix or an extraction are those of the pairs, and     *)
(* those of the pairs are what is documented of the scorers.               *)
TablesExact == CellsExact /\ ScorersAgree
=============================================================================
