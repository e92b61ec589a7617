------------------------------ MODULE MCKernels ------------------------------
(***************************************************************************)
(* The kernels that compare two strings, and what is scored with them: the *)
(* edit distances (EditKernels), the kernels of the fuzz_ scores           *)
(* (FuzzKernels), the scorers and the searches of tables (FuzzScores), the *)
(* edit scripts (EditScripts), the metrics with tables of their own        *)
(* (Alignments) and the Jaro-Winkler scores (JaroScores). A behaviour is   *)
(* one of them; the others rest.                                           *)
(***************************************************************************)
EXTENDS FuzzKernels, FuzzScores

CONSTANTS
  Letters, MaxLength, EditW, Absent, Jobs,
  ScriptLetters, ScriptLength, ScoreHint, MatrixBytes, SplitColumns, SplitRows, MaxCells,
  ScriptCalls, Least, AlignCalls,
  Na, WordBits, PairCap, MaskCap, RotationCap, JaroCalls

VARIABLES job, kernel, x, y, i, word, score, row, older, fr, last, answer
VARIABLES scripts, pair, parts, ops, listed
VARIABLES acall, buffer, ranges, total, found
VARIABLES asked, spans, grid, similarity

Edit == INSTANCE EditKernels WITH W <- EditW
Dist == INSTANCE EditDistance
Scripts == INSTANCE EditScripts WITH Letters <- ScriptLetters, MaxLength <- ScriptLength
Align == INSTANCE Alignments
Jaros == INSTANCE JaroScores

ASSUME EditKernelAssumption == Edit!JobsAdmitted
ASSUME ScriptAssumption == Scripts!LimitsAdmitted
ASSUME AlignAssumption == Align!CallsAdmitted
ASSUME JaroAssumption == Jaros!CapsAdmitted

editVars == <<job, kernel, x, y, i, word, score, row, older, fr, last, answer>>
scriptVars == <<scripts, pair, parts, ops, listed>>
alignVars == <<acall, buffer, ranges, total, found>>
jaroVars == <<asked, spans, grid, similarity>>

RowsRest ==
  /\ call = <<>> /\ rowNo = 1 /\ pm = NoPattern /\ search = Idle /\ answers = <<>>
TablesRest ==
  /\ table = [fn |-> "none"]
  /\ todo = {} /\ cells = <<>> /\ tasks = <<>> /\ extract = NoAnswer
EditRests ==
  /\ job = "none" /\ kernel = "resting"
  /\ x = <<>> /\ y = <<>> /\ i = 0 /\ word = {} /\ score = 0
  /\ row = <<>> /\ older = <<>> /\ fr = <<>> /\ last = <<>> /\ answer = 0
ScriptsRest ==
  /\ scripts = [a |-> <<>>, b |-> <<>>]
  /\ pair = 0 /\ parts = <<>> /\ ops = <<>> /\ listed = <<>>
AlignRests ==
  /\ acall = [metric |-> "none", a |-> <<>>, b |-> <<>>]
  /\ buffer = <<>> /\ ranges = <<>> /\ total = 0 /\ found = <<>>
JaroRests ==
  /\ asked = [fn |-> "none", a |-> <<>>, b |-> <<>>]
  /\ spans = {} /\ grid = <<>> /\ similarity = <<>>

KernelsInit ==
  \/ Edit!Init /\ RowsRest /\ TablesRest /\ ScriptsRest /\ AlignRests /\ JaroRests
  \/ EditRests /\ Init /\ TablesRest /\ ScriptsRest /\ AlignRests /\ JaroRests
  \/ EditRests /\ RowsRest /\ TablesInit /\ ScriptsRest /\ AlignRests /\ JaroRests
  \/ EditRests /\ RowsRest /\ TablesRest /\ Scripts!ScriptsInit /\ AlignRests /\ JaroRests
  \/ EditRests /\ RowsRest /\ TablesRest /\ ScriptsRest /\ Align!AlignInit /\ JaroRests
  \/ EditRests /\ RowsRest /\ TablesRest /\ ScriptsRest /\ AlignRests /\ Jaros!JaroInit
KernelsNext ==
  \/ kernel # "resting" /\ Edit!Next /\ UNCHANGED <<vars, tableVars, scriptVars, alignVars, jaroVars>>
  \/ Next /\ UNCHANGED <<editVars, tableVars, scriptVars, alignVars, jaroVars>>
  \/ TablesNext /\ UNCHANGED <<editVars, vars, scriptVars, alignVars, jaroVars>>
  \/ Scripts!ScriptsNext /\ UNCHANGED <<editVars, vars, tableVars, alignVars, jaroVars>>
  \/ Align!AlignNext /\ UNCHANGED <<editVars, vars, tableVars, scriptVars, jaroVars>>
  \/ asked.fn # "none" /\ Jaros!JaroNext /\ UNCHANGED <<editVars, vars, tableVars, scriptVars, alignVars>>
KernelsSpec ==
  KernelsInit /\ [][KernelsNext]_<<editVars, vars, tableVars, scriptVars, alignVars, jaroVars>>

(* Of the edit distances see EditKernels: after every turn of a kernel's   *)
(* loop what it holds are the cells of the distance's table, and the       *)
(* distance returned is that of the definition, whichever kernel ran.      *)
DistancesExact == Edit!DistancesExact

(* Of the edit scripts see EditScripts: the fewest edits, in order, however  *)
(* often the pair was split and wherever its parts were cut.               *)
ScriptsExact == Scripts!ScriptsExact

(* Of the other metrics see Alignments: every answer is the best over all  *)
(* alignments of the pair, whatever the buffer held before.                *)
MetricsExact == Align!MetricsExact

(* Of the Jaro-Winkler scores see JaroScores: each is its own pair's,      *)
(* whatever the range compared before it.                                  *)
JaroExact == Jaros!JaroExact
-----------------------------------------------------------------------------
(* Edit distances: strings of up to four letters and words of three bits:  *)
(* both sides of the word's limit occur, with and without common ends. A   *)
(* pair is listed once for all the ways to name its letters; the longest   *)
(* pairs have two.                                                         *)
Canonical(u) ==
  \A p \in DOMAIN u : u[p] = 1 \/ \E r \in 1 .. p - 1 : u[r] + 1 = u[p] \/ u[r] = u[p]

Pairs ==
  {p \in Dist!Strings \X Dist!Strings :
     /\ Canonical(p[1] \o p[2])
     /\ Len(p[1]) + Len(p[2]) = 8 => 3 \notin Range(p[1] \o p[2])}

Methods ==
  ({"levenshtein", "osa", "damerau"} \X {"bytes", "points"} \X {0})
  \cup ({"within"} \X {"points"} \X (0 .. 3)) \cup ({"agrep"} \X {"bytes"} \X (0 .. 2))

MCJobs ==
  {j \in {[method |-> m[1], form |-> m[2], s |-> p[1], t |-> p[2], k |-> m[3]] :
            m \in Methods, p \in Pairs} :
     j.method = "agrep" => j.t # <<>>}
-----------------------------------------------------------------------------
Words(letters, n) == UNION {[1 .. k -> letters] : k \in 0 .. n}
Cutoffs == {0, (2 * Full) \div 3}

MCRow(k, s, t, c) == [kernel |-> k, s |-> s, t |-> t, cutoff |-> c]

(* Every needle of up to 3 characters in every text of up to 6; rows behind *)
(* others whose patterns fill more words of the table.                      *)
Before ==
  {<<<<1, 9, 1, 9>>, <<9, 1, 1>>>>, <<<<1>>, <<9, 1, 9>>>>,
   <<<<9, 1, 1, 1, 9>>, <<1, 1, 9, 9, 1>>>>}
Searches ==
  {<<MCRow("partial", s, t, c)>> : s \in Words({1, 2}, 3), t \in Words({1, 2}, 6), c \in Cutoffs}
Ranges ==
  {<<MCRow(k1, f[1], f[2], 0), MCRow(k2, s, t, (2 * Full) \div 3)>> :
     k1 \in {"lcs", "partial"}, k2 \in {"lcs", "partial"}, f \in Before,
     s \in Words({1, 9}, 3), t \in Words({1, 9}, 3)}
MCCalls == Searches \cup Ranges
-----------------------------------------------------------------------------
MCTable(fn, scorer, xs, ys, same, process, cutoff, limit) ==
  [fn |-> fn, scorer |-> scorer, x |-> xs, y |-> ys, same |-> same, process |-> process,
   cutoff |-> cutoff, limit |-> limit]

(* Words in any order, repeated, and with the spaces that only wide strings *)
(* split at.                                                                *)
Partners ==
  {<<>>, <<98, 32, 97>>, <<97, 32, 97>>, <<97, 160, 300>>, <<97, 98, 32, 98, 32, 97, 98>>,
   <<97, 32, 97, 32, 98, 32, 97, 32, 98>>}
StringPairs ==
  {MCTable("cdist", f, <<s>>, <<t>>, FALSE, FALSE, c, 0) :
     f \in Scorers, s \in Words({97, 98, 32}, 3) \cup Partners, t \in Partners, c \in Cutoffs}

Names == <<<<97>>, <<65, 33>>, <<98, 97>>, NA, <<97>>, <<32>>>>
Matrices ==
  {MCTable("cdist", f, xs, xs, TRUE, p, (2 * Full) \div 3, 0) :
     f \in {"ratio", "partial_ratio", "token_set_ratio", "wratio"}, p \in BOOLEAN,
     xs \in {SubSeq(Names, 1, 4), SubSeq(Names, 3, 6)}}
  \cup {MCTable("cdist", f, SubSeq(Names, 1, 2), SubSeq(Names, 2, 4), FALSE, TRUE, 0, 0) :
          f \in {"ratio", "wratio"}}
Extractions ==
  {MCTable("extract", f, xs, Names, FALSE, p, c, limit) :
     f \in {"ratio", "wratio"}, p \in BOOLEAN, c \in Cutoffs, limit \in 0 .. 2,
     xs \in {<<>>, <<<<97>>>>, <<<<97, 98>>, NA>>, <<<<97, 98, 97>>, <<98>>>>}}
MCTables == StringPairs \cup Matrices \cup Extractions
-----------------------------------------------------------------------------
(* Edit scripts: strings of up to five letters out of two, split from two  *)
(* by two on when they are not alike; a table of four by three is too big. *)
MCScriptCalls ==
  {[a |-> <<s>>, b |-> <<t>>, opcodes |-> o] :
     s \in Words({1, 2}, 5), t \in Words({1, 2}, 5), o \in BOOLEAN}
  \cup {[a |-> <<<<1, 2>>, NA, <<2, 1, 1>>>>, b |-> <<<<2, 1>>, <<1>>, <<1, 2>>>>, opcodes |-> o] :
          o \in BOOLEAN}
-----------------------------------------------------------------------------
(* Alignments: a pair behind another whose row is left in the buffer, or   *)
(* behind NA. Strings of up to three out of two letters; for Editex of up  *)
(* to two out of A, B, H and p. Weights that differ and gaps that cost     *)
(* more to open.                                                           *)
MCLeast == -1000
Behind(m, s, t) ==
  {[kind |-> m, a |-> <<<<65, 66, 65>>, s>>, b |-> <<<<66, 65, 65>>, t>>],
   [kind |-> m, a |-> <<NA, s>>, b |-> <<<<65>>, t>>]}
Inputs ==
  LET names == Words({65, 66, 72, 112}, 2)
      tokens == {<<65, 32, 66>>, <<32>>, <<66, 65, 32, 32, 65>>, <<66, 160, 65, 32, 65, 65>>}
      others == {<<66, 65>>, <<>>, <<65, 32, 66, 66, 32>>}
  IN  UNION {Behind("any", s, t) : s \in Words({65, 66}, 3), t \in Words({65, 66}, 3)}
        \cup UNION {Behind("editex", s, t) : s \in names, t \in names}
        \cup UNION {Behind("monge_elkan", s, t) : s \in tokens, t \in others}

Weighings ==
  ({"lcs", "indel", "prefix", "postfix", "bag", "gestalt", "lcs_str", "editex"}
     \X {[weights |-> "none"]})
  \cup ({"weighted"} \X {[insert |-> 1, remove |-> 2, replace |-> 2],
                         [insert |-> 3, remove |-> 1, replace |-> 5]})
  \cup ({"needleman"} \X {[match |-> 1, mismatch |-> -1, gap |-> -1],
                          [match |-> 4, mismatch |-> -3, gap |-> -1]})
  \cup ({"smith_waterman"} \X {[match |-> 2, mismatch |-> -4, open |-> -1, extend |-> -1],
                               [match |-> 3, mismatch |-> -1, open |-> -2, extend |-> -1]})
  \cup ({"monge_elkan"} \X {[symmetric |-> TRUE], [symmetric |-> FALSE]})

MCAlignCalls ==
  {[metric |-> q[1][1], w |-> q[1][2], a |-> q[2].a, b |-> q[2].b, similarity |-> q[3]] :
     q \in {q \in Weighings \X Inputs \X BOOLEAN :
             q[2].kind = IF q[1][1] \in {"editex", "monge_elkan"} THEN q[1][1] ELSE "any"}}
-----------------------------------------------------------------------------
(* Jaro-Winkler: strings up to one longer than a word has bits, alone and   *)
(* behind another pair; triangles and rectangles with Na; tokens up to one  *)
(* more than are joined or masked; no penalty, and a tenth of a score.      *)
MCJaro(fn, s, t, bytes) == [fn |-> fn, a |-> s, b |-> t, same |-> FALSE, useBytes |-> bytes, p |-> 2]
MCTokens(s, t, penalty, joined) ==
  [penalty |-> penalty, contractions |-> joined] @@ MCJaro("tokens", s, t, TRUE)

JaroPairs ==
  {MCJaro("pairs", <<<<97, 98, 99>>, s>>, <<<<98, 97, 97>>, t>>, TRUE) :
     s \in Words({97, 98}, 4), t \in Words({97, 98}, 4)}
  \cup {MCJaro("pairs", <<<<98, 97>>, s>>, <<<<97, 98>>, t>>, b) :
          b \in BOOLEAN, s \in Words({97, 233}, 3),
          t \in {<<233>>, <<97, 97>>, <<233, 97, 232>>, <<97, 98, 233, 97>>}}
Six == {<<97, 98, 99, 97, 98, 99>>, <<98, 97, 99, 97, 97, 98>>}
JaroMatrices ==
  {[MCJaro("matrix", q, q, TRUE) EXCEPT !.same = TRUE] :
     q \in {<<s, Na, t>> : s \in Words({97, 98}, 3), t \in Six}
             \cup {<<<<>>, <<98, 97, 97>>, <<97, 98, 97, 98>>, <<97>>>>}}
  \cup {MCJaro("matrix", <<s, <<97, 99>>>>, <<t, Na, <<98, 97>>>>, FALSE) :
          s \in Words({97, 98}, 2), t \in Six}
JaroTokens ==
  {MCTokens(<<<<98, 97>>, s>>, <<<<97, 99>>, t>>, p, c) :
     s \in Words({97, 98, 32}, 4), p \in {-1, 604800}, c \in BOOLEAN,
     t \in {<<97>>, <<98, 97, 32, 97>>, <<97, 32, 98, 9, 97, 97>>, <<32, 98, 97, 32, 97, 32, 97, 98>>,
           <<97, 32, 98, 32, 97, 32, 98, 32, 97>>}}
  \cup {MCTokens(<<Na, <<97>>>>, <<<<97>>, Na>>, -1, TRUE)}
MCJaroCalls == JaroPairs \cup JaroMatrices \cup JaroTokens
-----------------------------------------------------------------------------
(* For EditexSilent: pairs of names of up to three out of A, H, T and W.      *)
MCSilentNames == UNION {[1 .. n -> {65, 72, 84, 87}] : n \in 0 .. 3}
MCSilentCalls == [metric : {"editex"}, similarity : {FALSE}, w : {[weights |-> "none"]},
                  a : {<<s>> : s \in MCSilentNames}, b : {<<t>> : t \in MCSilentNames}]
MCNoCalls == {}

(* Of Editex's silent letters see Alignments: one that follows a letter is    *)
(* said to cost 1.                                                            *)
EditexSilent == Align!EditexSilent
=============================================================================
