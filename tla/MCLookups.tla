------------------------------- MODULE MCLookups -------------------------------
(* What compares the strings of two vectors: fuzzy_match() and               *)
(* fuzzy_top_n() scan a table, fuzzy_within(), tfidf_top_n() and             *)
(* minhash_pairs() index it, and the q-gram metrics fill a matrix. A         *)
(* behaviour is one call of one of them; the others rest.                    *)
(*                                                                           *)
(* Scans: tables of three out of seven strings or NA; queries that are       *)
(* repeated, missing, in the table or near it; one or two answers wanted.    *)
(* Index: pairs of strings of up to seven letters, not too different in      *)
(* length to be found, with prefixes shorter than, equal to and longer than  *)
(* k; and calls with several rows, duplicates and NA over chunks of two, of  *)
(* which those with more than eleven pairs are refused.                      *)
EXTENDS FuzzyLookup

CONSTANTS ChunkSize, HighBits(_), MaxRows, WithinCalls
CONSTANTS PackedBytes, PackedPoints, PointValues, PreparedCells, PreparedBytes, Grain, QCalls
CONSTANTS CharValues, PackedChars, Idf(_, _), TfCalls
CONSTANTS HashOf(_), Permuted(_, _), BandKey(_, _), MostPairs, MinCalls

VARIABLES within, phase, parts, index, toSearch, chunk, q, looked, stamp, current,
          candidates, hits, result
VARIABLES qcall, arena, tasks, scores
VARIABLES tcall, postings, tfQuery, terms, norm, sums, touched, ranked
VARIABLES mcall, stage, unhashed, sets, keys, pairs, similarity, listed

Index == INSTANCE DeletionIndex WITH Calls <- WithinCalls, call <- within

Grams == INSTANCE QGrams
Joins == INSTANCE NGramJoins WITH query <- tfQuery, waiting <- unhashed

ASSUME WithinAssumption == Index!CallsAdmitted
ASSUME GramAssumption == Grams!LimitsAdmitted
ASSUME TfIdfAssumption == Joins!WeightsAdmitted

scanVars == <<call, waiting, query, choice, best, cells, copied>>
indexVars == <<within, phase, parts, index, toSearch, chunk, q, looked, stamp, current,
               candidates, hits, result>>
gramVars == <<qcall, arena, tasks, scores>>
tfVars == <<tcall, postings, tfQuery, terms, norm, sums, touched, ranked>>
minVars == <<mcall, stage, unhashed, sets, keys, pairs, similarity, listed>>

ScanRests ==
  /\ call = [x |-> <<>>, table |-> <<>>]
  /\ waiting = {} /\ query = 0 /\ choice = 0 /\ best = <<>> /\ cells = <<>> /\ copied = 0

IndexRests ==
  /\ within = [x |-> <<>>, table |-> <<>>]
  /\ phase = "resting"
  /\ parts = <<>> /\ index = <<>> /\ toSearch = {} /\ chunk = 0 /\ q = 0 /\ looked = FALSE
  /\ stamp = <<>> /\ current = 0 /\ candidates = <<>> /\ hits = <<>> /\ result = <<>>

GramsRest ==
  /\ qcall = [a |-> <<>>, matrix |-> FALSE]
  /\ arena = [keys |-> <<>>] /\ tasks = {} /\ scores = <<0>>
TfIdfRests ==
  /\ tcall = [x |-> <<>>, table |-> <<>>]
  /\ postings = <<>> /\ tfQuery = 1 /\ terms = <<>> /\ norm = 0
  /\ sums = <<>> /\ touched = <<>> /\ ranked = <<>>
ShinglesRest ==
  /\ mcall = [x |-> <<>>] /\ stage = "resting" /\ unhashed = {}
  /\ sets = <<>> /\ keys = <<>> /\ pairs = <<>> /\ similarity = <<>> /\ listed = <<>>

LookupInit ==
  \/ Init /\ IndexRests /\ GramsRest /\ TfIdfRests /\ ShinglesRest
  \/ ScanRests /\ Index!Init /\ GramsRest /\ TfIdfRests /\ ShinglesRest
  \/ ScanRests /\ IndexRests /\ Grams!QgramsInit /\ TfIdfRests /\ ShinglesRest
  \/ ScanRests /\ IndexRests /\ GramsRest /\ Joins!TfInit /\ ShinglesRest
  \/ ScanRests /\ IndexRests /\ GramsRest /\ TfIdfRests /\ Joins!MinInit
LookupNext ==
  \/ Next /\ UNCHANGED <<indexVars, gramVars, tfVars, minVars>>
  \/ Index!Next /\ UNCHANGED <<scanVars, gramVars, tfVars, minVars>>
  \/ Grams!QgramsNext /\ UNCHANGED <<scanVars, indexVars, tfVars, minVars>>
  \/ Joins!TfNext /\ UNCHANGED <<scanVars, indexVars, gramVars, minVars>>
  \/ Joins!MinNext /\ UNCHANGED <<scanVars, indexVars, gramVars, tfVars>>
LookupSpec == LookupInit /\ [][LookupNext]_<<scanVars, indexVars, gramVars, tfVars, minVars>>

(* Of the index's hits see DeletionIndex: the result is exactly the pairs    *)
(* within k edits, once each and in order.                                   *)
WithinExact == Index!ResultExact

(* Of the q-gram metrics see QGrams: every score is that of the definition,  *)
(* prepared, mirrored, packed or not, whatever the order of the tasks.       *)
QgramsExact == Grams!QgramsExact

(* Of the tf-idf search see NGramJoins: each query is given the rows nearest *)
(* to it, whatever queries came before.                                      *)
TopExact == Joins!TopExact

(* Of the MinHash pairs see NGramJoins: every pair that agrees in a band,    *)
(* once and in order, with the similarity of its sets.                       *)
BandsExact == Joins!BandsExact
-----------------------------------------------------------------------------
Pool == {<<>>, <<1>>, <<1, 2>>, <<2, 1>>, <<1, 2, 2>>, <<1, 2, 1, 2>>, NA}
MCTables == [1 .. 3 -> Pool]
MCQueries == {<<<<1, 2>>, <<2, 1, 2>>, <<1, 2>>>>, <<NA, <<1, 1, 2>>, NA>>, <<<<>>>>}

MCCalls ==
  {c \in [x : MCQueries, table : MCTables, top_n : {1, 2}, p : {2}, min_score : {0, 3600, 6000},
          method : {"jaro_winkler", "levenshtein", "osa", "damerau"}, max_distance : {-1, 1},
          match_na : BOOLEAN] :
     IF c.method = "jaro_winkler"
       THEN c.min_score # 3600 /\ c.max_distance = -1 /\ ~c.match_na
       ELSE c.min_score = 3600 /\ c.match_na}

(* Lengths and first letters share keys. *)
MCHighBits(v) == IF v = <<>> THEN 0 ELSE 2 * (Len(v) % 2) + (v[1] % 2)

Canonical(u) ==
  \A p \in DOMAIN u : u[p] = 1 \/ \E r \in 1 .. p - 1 : u[r] + 1 = u[p] \/ u[r] = u[p]

NearPairs ==
  {p \in Strings \X Strings :
     /\ Len(p[1]) + Len(p[2]) <= 7
     /\ Len(p[1]) - Len(p[2]) \in -2 .. 2
     /\ Canonical(p[1] \o p[2])}

PairCalls ==
  {[x |-> <<p[1]>>, table |-> <<p[2]>>, k |-> n, method |-> m, prefix |-> f] :
     p \in NearPairs, n \in {1, 2}, m \in {"levenshtein", "osa", "damerau"}, f \in {1, 3}}

Some == {<<1, 2>>, <<2, 1>>, <<1, 2, 2>>, NA}

RowCalls ==
  [x : {<<<<1, 2>>, <<>>, <<2, 1>>, <<1, 2>>, <<2, 2>>>>}, table : [1 .. 4 -> Some],
   k : {0, 1, 2}, method : {"osa"}, prefix : {2}]

MCWithinCalls == PairCalls \cup RowCalls
-----------------------------------------------------------------------------
(* q-grams: pairs of every string of up to three letters out of two, and    *)
(* accented ones; words of two bytes, so that q = 3 is not packed. Matrices  *)
(* of at most five by five with repeated, missing and short strings, from    *)
(* four cells on prepared unless 900 bytes do not hold the keys.             *)
(* Equal bytes are marked with one encoding: strings shorter than q whose    *)
(* bytes agree and whose encodings differ score 1 in a pair and 0 in a        *)
(* prepared matrix, and R does not call them identical.                      *)
MCWords(letters, n) == UNION {[1 .. k -> letters] : k \in 0 .. n}
AsciiString(s) == [enc |-> "native", bytes |-> s]
WideString(s) == [enc |-> "utf8", bytes |-> s]

MCGramStrings ==
  {AsciiString(s) : s \in MCWords({97, 98}, 3) \cup {<<97, 98, 97, 98>>}}
    \cup {WideString(s) : s \in {<<195, 169>>, <<195, 168>>, <<97, 195, 169>>,
                                 <<195, 169, 97, 195, 169>>}}
MCVectors ==
  {<<AsciiString(<<97>>), NA, AsciiString(<<98>>)>>,
   <<AsciiString(<<97, 98, 97>>), AsciiString(<<97, 97, 98, 97>>), AsciiString(<<97>>),
     AsciiString(<<97>>)>>,
   <<WideString(<<195, 169>>), AsciiString(<<97, 98>>), WideString(<<195, 169>>)>>,
   <<AsciiString(<<97, 98, 97, 97, 98, 98, 97, 98>>), AsciiString(<<98, 98, 97>>)>>,
   <<AsciiString(<<>>), NA>>,
   <<AsciiString(<<97, 98, 98>>), AsciiString(<<98, 97, 98, 97, 98>>),
     AsciiString(<<97, 98, 97, 98, 97, 98, 97, 98>>),
     AsciiString(<<97, 98, 97, 98, 97, 98, 97, 98, 98>>), AsciiString(<<97>>)>>}

MCMetrics == {"jaccard", "dice", "tversky", "overlap", "cosine"}
MCQCall(metric, a, b, same, matrix, useBytes, width) ==
  [metric |-> metric, a |-> a, b |-> b, same |-> same, matrix |-> matrix, useBytes |-> useBytes,
   q |-> width, alpha |-> 1, beta |-> 3]
MCQCalls ==
  {MCQCall(m, <<s>>, <<t>>, FALSE, FALSE, u, n) :
     m \in MCMetrics, s \in MCGramStrings, t \in MCGramStrings, u \in BOOLEAN, n \in 1 .. 3}
  \cup {MCQCall(m, a, b, FALSE, TRUE, TRUE, n) :
          m \in MCMetrics, a \in MCVectors, b \in MCVectors, n \in 1 .. 3}
  \cup {MCQCall(m, a, a, TRUE, TRUE, TRUE, n) : m \in MCMetrics, a \in MCVectors, n \in 1 .. 2}
  \cup {MCQCall(m, a, a, TRUE, TRUE, FALSE, 2) : m \in MCMetrics, a \in MCVectors}
-----------------------------------------------------------------------------
(* tf-idf: three rows of up to four letters, NA among them; queries that     *)
(* repeat n-grams, lack them, are missing or empty, one behind another.      *)
MCIdf(n, d) == IF d = 0 THEN 3 ELSE IF 2 * d <= n THEN 2 ELSE 1
MCTfTables ==
  {<<s, t, u>> : s \in {NA, <<1, 2>>, <<2, 1, 2>>}, t \in {<<>>, <<1>>, <<1, 2>>, <<2, 1>>},
                 u \in {<<1, 1, 2>>, <<2>>, <<1, 2, 2, 1>>}}
MCTfQueries ==
  {<<<<1, 2, 1>>, <<2, 2, 1>>, NA, <<1, 1>>>>, <<<<1, 3, 1, 2>>, <<>>, <<1>>, <<1, 2, 2>>>>}
MCTfCalls ==
  [x : MCTfQueries, table : MCTfTables, q : 1 .. 3, top_n : {1, 2}, min_score : {<<0, 1>>, <<1, 4>>}]
-----------------------------------------------------------------------------
(* MinHash: three strings with one another, or up to two of x with two of y; *)
(* two bands of one or two rows, whose keys coincide now and then; more than *)
(* five pairs are refused.                                                   *)
MCHash(g) == FoldLeft(LAMBDA n, c : 3 * n + c, Len(g), g)
MCPermuted(p, v) == (v * (2 * p + 3) + p) % 17
MCBandKey(b, stretch) == FoldLeft(LAMBDA n, v : 5 * n + v, b, stretch) % 11

MCShort == {NA, <<>>, <<1>>, <<1, 2>>, <<1, 2, 1>>, <<1, 2, 2, 1>>}
MCMin(xs, ys, inX) ==
  [x : xs, y : ys, within : {inX}, q : {2}, bands : {2}, rows : {1, 2}, threshold : {<<1, 2>>},
   verify : BOOLEAN]
MCMinCalls ==
  MCMin([1 .. 3 -> MCShort], {<<>>}, TRUE)
    \cup MCMin({<<<<1, 2>>, <<2, 1, 2, 2>>>>, <<<<1, 2, 1>>>>}, [1 .. 2 -> MCShort], FALSE)
-----------------------------------------------------------------------------
(* For ExactHitIsScanned: the largest prefix scale that the R functions       *)
(* allow, 0.25, and strings with more than four characters in common at their *)
(* start.                                                                     *)
MCPrefixPool == {<<1, 1, 1, 1, 1>>, <<1, 1, 1, 1, 2>>, <<1, 1, 2>>, <<2, 1, 1, 1, 1>>, NA}
MCPrefixCalls ==
  [x : [1 .. 2 -> MCPrefixPool], table : [1 .. 2 -> MCPrefixPool], method : {"jaro_winkler"},
   top_n : {1, 2}, p : {5}, min_score : {0}, max_distance : {-1}, match_na : {TRUE}]
MCNoCalls == {}
=============================================================================
