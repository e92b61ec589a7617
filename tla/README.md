# A TLA+ model of fast.string

fast.string is an R package: vectorised string functions (matching, substitution,
extraction, splitting, distances, phonetic codes) and a record-linkage toolkit, written in
C++ behind Rcpp and run on several threads through RcppParallel. This directory holds TLA+
modules for the parts whose correctness depends on an order of events, on state carried
from one step to the next, or on an algorithm that takes a short cut; TLC configurations
that check them on small instances; and proofs of their main invariants that TLAPS checks.

Paths below are relative to the repository. Run `tlc -config MCX.cfg MCX` for a run and
`tlapm XProofs.tla` for a proof.

## 1. Inventory

How a call works: an R function checks its arguments, recycles them and calls an Rcpp
function on R's main thread. That function takes a *snapshot* of the strings (pointers and
lengths; translated to UTF-8 where needed), prepares what is shared and read-only (compiled
pattern, automaton, index), and hands a range of rows or chunks to `dispatch_for()`.
Worker threads may not use R's API: they write to places of their own rows, or to a private
array per chunk. When all have finished the main thread turns what they left into R objects.

| component | state | operations | hard behaviour | what makes it correct |
|---|---|---|---|---|
| parallel dispatch (`parallel_dispatch.h`) | the pieces of a range: waiting, held by a thread, run | `dispatch_for` | all schedules, two backends, thread cap | every index run once, none left at return, cap respected |
| text result pipeline (`text_results.h`, `regex_engine.h`, `fgrepl.cpp`) | work plan; results, arenas, errors | plan, rewrite a chunk, report, assemble | chunks concurrent, failed allocation, soft and hard errors | chunks tile the rows; a row gets its own text; the right error is reported |
| regex match loops (`fgrepl.cpp`, `fextract.cpp`) | offset, last match, output, its room, spans | count, extract all, split, field, sub, gsub | empty and adjacent matches, character boundaries, errors midway, a substitution tried again in a larger buffer | base R's rules; legal offsets only; the loop ends |
| literal multi-replacement (`fgrepl.cpp`) | running text, source map, cached occurrences | sequential and one-scan replacement | chains of replacements, stale caches | text as defined; the map reads back |
| Aho-Corasick (`aho_corasick.h`, `multi_fixed.cpp`) | trie, failure links, outputs, table | build, contains, min_pattern, find | early stop, hidden shorter patterns | leftmost-first matches |
| fixed search (`fixed_search.h`) | shift table | find | shifts near the end | the first occurrence |
| record clustering (`linkage_pairs.cpp`) | parent, size, labels | find, union, label | forest rewritten while read | connected components, in order of appearance |
| candidate pairs (`linkage_pairs.cpp`) | counting sort, size bound, per-chunk lists | sort, bound, scan, gather | several passes, windows, deduplication, threads | every pair once, under its first pass, in order |
| string snapshot (`string_snapshot.h`, `codepoint_snapshot.h`, `utf8_text.h`) | views, flags, byte count, the shared array of code points | raw and UTF-8 pass, decoding | translations undone by a late "bytes" string; threads that decode | one encoding for all views; each row its own points |
| pairwise workers (`pairwise_worker.h`) | output cells | element-wise, matrix, recycled | as the dispatch | one write per cell |
| edit distances (`levenshtein*`, `distance_extra.cpp`, `alignment_metrics.cpp`, `linkage_metrics.cpp`, `unicode_metric_core.h`) | rows or bit vectors, kept from row to row in a thread | bounded, bit-parallel, full and linear-space forms, alignments, edit scripts | word width, bands, traces through joined halves, shortest paths of an assignment | equal to the recursive definition; a script turns one string into the other |
| fuzz ratios (`rapidfuzz_core.h`, `fuzz.cpp`) | a pattern table kept from row to row, the search for a window, lists of choices | kernels, scorers, matrix, extraction | stale bits, windows left out, cutoffs that travel | the score of the definition, whatever was left out |
| Jaro-Winkler (`jaro_winkler_core.h`, `fgrepl_jaro*.cpp`) | a table of masks that a range of rows carries along; cells | pairs, matrices, tokens | bits left by the comparison before, words that just hold a string, triangles mirrored by other tasks | each cell the score of its own pair |
| q-gram metrics (`qgram_core.h`) | an arena of sorted keys, cells of the answer | pairs and matrices, prepared or not | keys packed or hashed by their number, mirrored halves, what is prepared for the budget | every cell the score of its pair |
| tf-idf (`tfidf.cpp`) | postings, an accumulator kept from query to query | index, query, select | what a query leaves in the accumulator | the best rows of each query, ties in order |
| fuzzy lookup, approximate search (`fuzzy_lookup.cpp`, `approx_search.cpp`) | top-n list, rising bound | lookup | ties at the bound | the n best in table order |
| SymSpell join (`symspell.cpp`) | sorted index, stamps | index, query, verify | completeness of a filter | no pair within k edits is lost |
| MinHash (`minhash.cpp`) | signatures, buckets, the list of pairs | sets, bands, buckets, verify | keys that coincide, a list refused midway | each pair that shares a band once, with its own score |
| linkage model (`linkage_model.cpp`, R) | patterns, parameters, allowances | collapse, EM, score, greedy selection, overlap | hash collisions, bookkeeping of the last iteration, ties, missing values | each row its pattern; weights of the parameters returned; n-to-m constraint, stable order |
| record-linkage session (`rLink.r`) | caches of terms and of pair vectors | comparators in turn | dropped after last use | no value used after it is dropped |
| reminders (`reminders.R`) | search path | attach, detach | repeated calls | attached at most once |
| text tools (`text_tools.cpp`) | none between rows, except the tables of token counts | case, titles, tokens, shapes, padding, URLs, HTML | boundaries of characters and words, encodings mixed in one call, tables that grow and are joined | what the documentation of each promises |
| folding (`fold_text.cpp`) | none between rows | folds, fingerprints, n-gram fingerprints | one character that becomes several, order and repetition | as documented |
| dates (`fgrepl_date.cpp`) | slots of one array, lengths beside | write, read, count from an epoch | limits of calendar and width, two numbers at a time in aligned memory | the calendar's; text read back gives the day |
| phonetic codes (`fgrepl_phonetic.cpp`, `caverphone_core.h`, `double_metaphone_core.h`, `dm_soundex.cpp`) | codes as strings, in fixed columns, or several behind one another | sixteen encoders, one comparison | rules that look ahead and behind, codes of several lengths in one array | the code of the published rules, whatever names are beside it |
| hashing, validation | none | row-wise | - | tests against fixtures |
| generated tables, bindings, benchmarks | - | - | - | - |

`PROJECT.json` lists the same components with their sources and says of each what is
modelled or why it is not, and the hazards with their lines.

Interactions: every kernel calls the dispatch; text kernels call the plan and the assembly
around it; the match loops, the multi-replacement and the text tools are what a worker does
with one row or chunk, on the views of the snapshot; candidate pairs feed the linkage model, whose selected pairs feed the clustering.

## 2. Modules

| module | models | composed of |
|---|---|---|
| `ParallelDispatch` | `dispatch_for()`: set-up, cutting, claiming, running, joining | - |
| `DispatchCall` | one call of it with any size, thread count and grain | `ParallelDispatch` |
| `DispatchLemmas`, `DispatchProofs` | facts about every use of the dispatch; theorems about a call | `ParallelDispatch`; `DispatchCall` |
| `ClusterPairs` | `fast_cluster_pairs_impl()` | refines `PartitionMerge` |
| `PartitionMerge` | abstract: blocks of a partition merged by pairs, then numbered | - |
| `ClusterPairsProofs` | theorems about it | `ClusterPairs` |
| `CandidatePairs` | `fast_candidate_pairs_impl()` and its worker | `ParallelDispatch` |
| `CandidatePairsProofs` | theorems about it | `CandidatePairs`, `DispatchLemmas` |
| `TextPipeline` | `fast_regex_sub_impl()`: plan, workers, report, assembly | `ParallelDispatch`; refines `RowMap` |
| `RowMap` | abstract: each row is mapped on its own; the call answers once | - |
| `TextPipelineProofs` | theorems about it | `TextPipeline`, `DispatchLemmas` |
| `MatchLoops` | the row loops around PCRE2 | - |
| `MatchLoopsProofs` | theorems about it | `MatchLoops`, `NaturalLemmas` |
| `MultiReplace` | `gsub_all(fixed = TRUE)` on one string, with the search for a literal needle | - |
| `AhoCorasick` | building the automaton and scanning with it | - |
| `EditDistance` | tables of the edit distances by their recursive definitions | - |
| `EditKernels` | the kernels that compute them, and the search within k edits | `EditDistance` |
| `EditScripts` | `edit_ops()`: traces by halves joined in the middle | `EditDistance` |
| `Alignments` | `alignment_metrics.cpp`, `distance_extra.cpp`, the gestalt, bag and Needleman-Wunsch metrics, Monge-Elkan's assignment | `Utf8` |
| `FuzzKernels` | what the two basic `fuzz_` scores are, and the kernels that compute them, row after row | - |
| `FuzzScores` | the ten scorers, `fuzz_cdist()` and `fuzz_extract()` | `FuzzKernels` |
| `JaroScores` | `jaro_winkler()`, its matrices and its tokens | `Utf8` |
| `FuzzyLookup` | `fast_fuzzy_top_n_impl()` and its worker | `EditDistance` |
| `DeletionIndex` | `fast_fuzzy_within_impl()` and its workers | `EditDistance` |
| `QGrams` | the five q-gram scores of pairs and matrices | `Utf8` |
| `NGramJoins` | `tfidf.cpp`: index, queries, selection; `minhash.cpp`: sets, signatures, bands, verification | - |
| `LinkageModel` | `linkage_model.cpp`: patterns, EM, weights, selection, overlap | - |
| `RecordLinkage` | `rLink()`: keys, pairs, comparators and their caches; then the model: from data to links | `LinkageModel` |
| `RecordLinkageProofs` | theorems about the session and the model behind it | `RecordLinkage`, `NaturalLemmas` |
| `Utf8` | decoder, encoder and white-space test that several kernels share | - |
| `StringViews` | `StringSnapshot`, `CodepointSnapshot` | `Utf8` |
| `TextFunctions` | what each text tool, and folding, makes of one string | `Utf8` |
| `TextTools` | one call of a text tool, from strings to marked results; token counts | `StringViews`, `TextFunctions` |
| `Phonetics` | the codes of one name | - |
| `NameCodes` | one call of an encoder, Double Metaphone and Daitch-Mokotoff included | `Phonetics` |
| `Calendar` | `fgrepl_date.cpp`: calendar, reading and writing, day counts | - |
| `NaturalLemmas` | least and greatest naturals, induction, recursive functions, sums | - |

`MCX.tla` and `MCX.cfg` instantiate `X`. Seven of them put components side by side, of which
a behaviour runs one: `MCCalls` (`DispatchCall`, `ClusterPairs`), `MCRows` (`TextPipeline`, `NameCodes`, `Calendar`), `MCTextSearch`
(`MatchLoops`, `MultiReplace`, `AhoCorasick`), `MCLookups` (`FuzzyLookup`, `DeletionIndex`,
`QGrams`, `NGramJoins`), `MCKernels` (`EditKernels`, `FuzzKernels`, `FuzzScores`,
`EditScripts`, `Alignments`, `JaroScores`), `MCLinkage` (`CandidatePairs`, `RecordLinkage`) and
`MCTextTools` (the kinds of call of `TextTools`). The violation runs (`MCFuzzyPrefix.cfg`,
`MCEditex.cfg`, `MCFinalSigma.cfg`, `MCResultEncoding.cfg`, `MCFailedRow.cfg`) give those modules
other calls or ask them another question.

Correspondence. Variables carry the source's names where TLA+ allows it (`parent`,
`offsets`, `members`, `arenas`, `errors`, `source_map` is `map`, the
`size` of a tree is `sizes`). An action is one turn of a
loop or one branch of a handler with everything it changes; where several threads run, an
action is what one thread does between two accesses to shared memory that another could
tell apart. `PROJECT.json` "map" names the lines of each definition. Operators called
`Faulty...`, or introduced by the word "Variant", are not part of any specification: each is
a plausible bug of the operator it stands before, and "mutants" names the property that
notices it.

**ParallelDispatch.** `size`, `cap`, `grain` are the range, the thread limit given to the
backend and the final grain size. `Enter` makes the decisions of `dispatch_for()`: empty
range, serial, the TBB backend or TinyThread (`tbb`). With TinyThread `Cut` hands out static
pieces, one thread each; with TBB any waiting range longer than the grain may be `Split`, and
any idle thread may `Claim` one while fewer than `cap` are busy. Both backends are external
and modelled by what they guarantee. `Run` runs one index. `Join` returns.

**ClusterPairs.** `TakePair`, `HalveStep`, `FoundA`, `FoundB`, `Link`, then `TakeRow`,
`NumberRow` for the labels. `find()` is not atomic: each halving is a step, so the invariants
hold in the middle of it as well.

**CandidatePairs.** Phases `count`, `prefix`, `place` (counting sort of each pass), `blocks`
(size bound, blocks above the maximum skipped), `check`, then the dispatch of chunks of x
records. A thread scans one pass of one record per step. `ExactRow` is the shortcut for one
exact pass. `Gather` joins the chunks' lists. What `std::sort` leaves is named by ranks
(`InOrder`: the k-th element is the one with k - 1 before it). The bound is kept doubled, since the code
halves it in floating point when a table is deduplicated against itself.

**TextPipeline.** The planning loop, one row a step; `Dispatch`; threads that allocate match
data (or fail, when memory is `scarce`), rewrite a row into their buffer, and store it as
unchanged, as a slice of the input, or in the chunk's arena; `Report` and `Finalize`. Sizes
saturate at `SizeMax`. What PCRE2 makes of a row is data, given with the row.

**MatchLoops.** A row says where its pattern matches and how long each match is; `Search` is
`pcre2_match()`, which finds the first match at or behind an offset or fails. The actions
named for the loops use the result. A chunk has several rows, because extraction and
splitting share the chunk's array of spans. `SubBuiltIn` and `SubRetry` are substitution by
`pcre2_substitute()`, which starts with `room` bytes and is called again, from the start,
with the length it asked for; the rows before it decide what `room` is. The reference
(`AnswersExact`) never searches: of the places where the pattern matches those are taken that no
place taken before bars (`Taken`), with one relation `Bars` for each kind of loop; the spans, the fields and the
text then follow from the places in order.

**MultiReplace.** `current` is the running text, `map` where its bytes come from, `pieces`
what one replacement kept and constructed. `Compose...` are the steps of
`compose_source_ranges()`. The one-scan mode caches each needle's next occurrence in `next`.
Needles of one to three bytes are tried at every place, longer ones are shifted by the table
of their bytes (`FindHorspool`).

**AhoCorasick.** `Insert` puts one pattern one level down; `LinkState` makes one failure link
with its outputs; `DenseRow` one row of the compiled table; `FindByte`/`EndFind` are
`find()` and the loops of its callers; `WhichByte`/`EndWhich` are `contains()` and
`min_pattern()`. Edges are read from the states: `GotoEdge` stands for the binary search,
whose precondition (children in class order) is part of `ScanExact`.

**EditKernels.** A step is one turn of a kernel's outer loop: one character of the string
`x`, one row of the table over the other string `y`. `kernel` is the loop that the lengths,
the form (bytes or code points) and the bound lead to. Machine words are sets of bit
positions below `W`; `word` holds Myers' and Hyyro's vectors, `row` and `older` the kept
rows (the banded form's two buffers, with what lies in them beside the band), `fr` and
`last` what Zhao and Sahni's form remembers of swaps. `EditDistance` says what the distances
are; the searches below take them from there.

**EditScripts.** `NextPair` begins a pair, `AlignPart` aligns the next stretch of it or splits it
where the two halves' last rows add up to the least. The table is two bits a cell in the code
(does the distance rise along the row?); `AlignDirect` walks back by these alone.

**Alignments.** One thread's pairs in turn over the `buffer` that the code keeps in the thread:
`SkipPair` (NA), `ScorePair` (metrics without a kept row), `SubstringPair`, `AlignPair`;
`StartPair` and `MatchRange` are the stack of ranges of the gestalt metric. `Assigned` is the
`assign()` that makes the buffer fit for the next pair.

**FuzzyLookup.** `MissingQuery` and `ExactHit` answer a query without a scan; `StartScan`,
`SkipMissing`, `SkipHopeless`, `Consider`, `EndScan` are the scan of one query, one table
entry a step; `Copy` hands the cells to repeated queries. Threads share nothing but what
they read, so distinct queries are taken whole in any order. Scores are integers, fractions
of `Full`: rounding, which the code meets with a margin of 1e-12, is left out.

**DeletionIndex.** `IndexChunk` and `SortIndex` make the index; `StartRange`, `GoOn` and
`EndRange` are a thread's range of chunks with its stamps; `LookUp` finds a query's
candidates and `Verify` its hits; `Expand` makes rows of distinct strings, unless they are more than
`MaxRows` (`TooManyRows`). `HighBits` is the
half of a hash that the index keeps: the instance makes different strings share it.

**QGrams.** `Start` decides whether a matrix is prepared (`IsPrepared`) and whether one half is
mirrored; `DoTask` is one task of the dispatch, in any order. Keys are numbers when a q-gram
fits into a word and sequences when not, as in the code. Scores are fractions, of the cosine
the square.

**NGramJoins.** Of tf-idf: `BuildIndex`, then for each query `StartQuery`, `AddTerm` (one n-gram's
postings), `Select`, which clears what the query touched. Of MinHash: `HashItem`, `SignItem`,
`VerifyPair` are the threads' items in any order, `StartSigning`, `Bucket` and `List` the serial
parts between them. Hash functions are given with the instance.

**JaroScores.** `StartScoring` shares out rows, cells or rows of a triangle; `ScoreRow`, `ScoreCell` and
`ScoreTriangle` are one comparison of a range with the mask table the range carries (`Compared`:
set, matched, cleared); `FinishScoring` returns. Ranges go on in any order. Tokens are joined and
turned round as in the code (`TokenAlignment`).

**NameCodes, Phonetics.** `StartCodes` shares out the rows; `StringRow`, `FixedRow` and `DaitchRow` are a
thread's next row in each of the three ways results are kept; `BuildCodes` makes R strings of
them. `Phonetics` has one operator per encoder, with the rules in the source's order. A name is a
sequence of characters, folded by `latin_fold.h`'s table.

**Calendar.** `StartDates` shares out the rows; `WriteText` writes one text into its slot, `WriteNumber`
reads one; `EpochCopy`, `EpochPair` and `EpochSingle` are the turns of the day-count kernels (relabelled
as they are, two at a time, one at a time at unaligned ends); `FinishDates` returns. Day counts
are exact quarters of a day, instants exact seconds and nanoseconds.

**FuzzKernels.** One worker takes its rows in turn. `pm` is the pattern table, a set of bits
addressed as the code addresses them (character, then word), so that bits left behind by a
pattern of another length would be found. `RatioRow` is one row of `fuzz_ratio()`; for
`fuzz_partial_ratio()` the steps are `StartPartial`, `Bisect` (a range of windows), `NextRound`,
`EndBisection`, `LeftEnd`, `RightEnd` (one shorter window), `EndSearch`. Additions are made word
by word with their carry. Scores are fractions of `Full`.

**FuzzScores.** Tokens, their sets and the ten scorers are operators that hand cutoffs on
as the code does. `TriangleRow` and `MatrixRange` fill the matrix by rows of one half or by
the dispatch's ranges; `Choose` is one choice of an extraction task, `EndTask`, `Finish` its
sort and the merge of chunks.

**RecordLinkage.** `CachedTerm` reads or evaluates one term of a pass's key, `PassKey` joins them,
`FindPairs` makes the pairs that share a key; `RecordTerm` evaluates a term for the records of a
side, `Compare` spreads two of them to the pairs and drops what no later comparator reads.
Evaluating an expression may give any of its `Outcomes`, each time anew, since R's expressions
need not be pure. `KeysFailed` and `CompareFailed` are the stops for terms that failed, `KeyRefused` and
`ScoreRefused` those for control characters in a key's values and for scores of a wrong type or
number; which values and comparators meet these two is left open. `Link` hands the scores, or
levels that the caller has already, to the model.

**LinkageModel.** `CollapseRow` looks one row up in the hash map whose keys are row numbers;
`Iterate` and `FitDone` are the EM loop, `Score` the weights of a fitted model, `Offer` one pair
of the greedy selection, `Evaluate` the comparison with a truth. `Offered` is the stable sort, stated by rank:
heavier pairs first, of as heavy ones the earlier row (`Heavier`). The probabilities are one
abstract `point`: EM is any function between points, given with the instance.

**StringViews.** `RawRow`, `Utf8Row`, `UndoRow` are the passes over the rows; `SourceRow`,
`DecodeRow`, `Publish` are the code points, decoded by threads in any order. `Stop` is an
error. Strings are byte sequences with R's four encodings.

**TextTools.** `RewriteRow` is one row by one thread with the function of the call,
`AffixRow` one of `fstrip_affix()`, `Finalize` makes and marks the results, `Remarked` is the
check of decoded URLs. Of token counts, a body counts its rows into its table (`CountRow`: an
open-addressing table that grows); `SplitBody` and `JoinBodies` are what the external reduction may
do at any time; `Rank` sorts the answer. `TextFunctions` has one operator per function; those of
`fold_text.cpp` (folds, fingerprints, n-gram fingerprints) are rows of `RewriteRow` like the others.

## 3. Runs

| run | instance | what it shows |
|---|---|---|
| `calls` | dispatch: up to 5 indices, 5 threads, limits -1..3, grains 0..2, both backends; clustering: 5 records, up to 4 of 6 pairs | `CallTypeOK`, `EachIndexOnce`, `ReturnsComplete`, `ThreadCap`, `CallReturns` under every schedule; `TypeOK`; `ForestIsPartition`: the forest stands for the pairs consumed, after every halving; `ResultIsComponents`; `Terminates`; `Refines`: it is a run of `PartitionMerge` |
| `rows` | ten vectors of up to 4 rows of every outcome, 3 threads; two names of every combination of 3 beginnings, 11 middles and 4 ends, and odd ones, by each encoder; days at the ends of months, years and of the calendar in every layout, texts broken at each place, instants and offsets, counts of every epoch two at a time or not | `ChunksTile`; `MapsRows`: the pipeline maps rows one by one (a refinement) whatever the schedule and wherever allocation fails; it `Answers`; `CodesExact`: each name its own code; `DatesExact`: what is written or read is the calendar's |
| `text_search` | every way to match a string of 4 bytes and 3 characters, shorter rows and NA behind it, failures anywhere, buffers of 3 bytes; every pair of 5 needles and 5 replacements in 8 texts, long needles in texts of 7 and 8 bytes; 54 lists of patterns, 9 texts, 4 kinds of scan | `SearchesLegal`, `AnswersExact` (match loops; of a row that failed, that no part of what was found in it shows), `ReplacedExactly` (multi-replacement and fixed search), `ScanExact` (the automaton and its scans); `SearchesAdvance`: no loop searches a place twice; `SearchesEnd`: every call ends |
| `kernels` | every pair of strings of up to 4 letters out of 3 up to renaming (of 2 for the longest pairs), words of 3 bits, bounds 0..3; every needle of up to 3 in every text of up to 6 letters, rows behind rows with patterns of other lengths, words of 2 bits; 43 strings against 6 by every scorer, matrices with NA and repeats, extractions of 0, 1 or 2 choices; edit scripts of strings of up to 5 letters out of 2, split from two letters by two, a table of 4 by 3 refused; pairs behind another pair or NA by each alignment metric, strings of up to 3 letters out of 2 (Editex: up to 2 of A, B, H, p); Jaro-Winkler of strings of up to 4 letters behind another pair, words of 4 bits, triangles and rectangles with NA, strings of up to 4 letters and spaces as tokens against five others | `DistancesExact`: the kernels hold cells of the distance's table, and answer from it; `RowsScored`: every row has its score, though the table is kept and windows are left out; `TablesExact`: matrices and extractions hold the scores of the pairs alone, ties in order, and the scorers agree among each other and with any cutoff; `ScriptsExact`: a script turns one string into the other and is shortest; `MetricsExact`: alignments are the best of all; `JaroExact`: each cell the score of its pair, whatever the range compared before |
| `lookups` | every table of 3 out of 7 entries, repeated, missing and exact queries, one or two answers, four metrics, limits on score and distance; every pair of strings of up to 7 letters together, k of 1 and 2, prefixes of 1 and 3, three distances; tables of 4 rows with duplicates and NA in chunks of 2, more than 11 pairs refused; q-gram scores of every pair of strings of up to 3 letters out of 2 and of accented ones, words of 2 bytes, matrices up to 5 by 5 prepared from 4 cells on unless 900 bytes do not hold the keys; tf-idf of 3 rows of up to 4 letters and 4 queries; MinHash of 3 strings or 2 by 2, two bands of 1 or 2 rows, keys that coincide, more than 5 pairs refused | `ResultExact`: scanned, looked-up and copied answers are the best, ties in table order; `WithinExact`: all pairs within k edits once, in order, or a refusal when they are too many; `QgramsExact`: every cell is the score of its pair; `TopExact`: the best rows of each query, whatever was asked before; `BandsExact`: the pairs that share a band, once, with their own similarity |
| `fuzzy_prefix` | prefix scale 0.25, strings of five characters that differ in the last | violates `ExactHitIsScanned`, see below |
| `linkage` | 4 records against themselves or 3 against 2, one or two passes, windows 0 and 1, 2 threads; 3 records a side, two columns, an impure and a failing expression, up to 3 comparators over shared terms; 4 pairs with every mixture of 4 patterns, ties, NA, allowances of 1 and 2, EM that converges at once, later or not | `ResultExact`: the candidate pairs, passes and order of the definition; `BoundCovers`; `PairsReturned`; `SessionExact`: a column is made of its own two terms, a value is evaluated and spread once, read while kept and dropped at its last use; `LinksExact`: each row has its pattern, weights are those of the parameters returned, and the links are those of the greedy order |
| `text_tools` | three strings of nine in every encoding, three kinds of view; bytes at every boundary of UTF-8; token counts of three rows by one or two threads; each tool on the strings its rules are about, alone and behind a string of "bytes" | `ViewsOneEncoding`; `PointsExact`: each row its code points, and the decoders agree; `TextExact`: each row its result, and token counts are those of the rows |
| `failed_row` | the calls of `text_search` | violates `FailedUnmatched`, see below |
| `editex` | names of up to 3 letters out of A, H, T, W | violates `EditexSilent`, see below |
| `final_sigma` | strings of up to three out of sigma, two letters, a mark, an apostrophe, a space | violates `FinalSigmaRule`, see below |
| `result_encoding` | pairs of strings in every pair of encodings, case and HTML references | violates `ResultIsUtf8`, see below |

The findings. (1) `fuzzy_match()` answers a query that the table has by the first place where it
has it, because "an identical string is the only way to score 1" (`fuzzy_lookup.cpp` line
89). With the largest prefix scale the documentation allows, `p = 0.25`, any two strings
that begin with the same four characters score 1 as well, and the full scan that
`fuzzy_top_n()` makes ranks an earlier one of those first: the two functions name different
entries for the same query. For every smaller `p` the premise holds and `lookups`
checks the look-up against the scan.

(2) `flower()` is documented to follow Unicode's `Final_Sigma` (`R/case_text.R` line 16). The
rule looks for a cased letter through case-ignorable characters on both sides. `final_sigma()`
does so behind the sigma; before it, the code asks only whether the character right in front
is cased. A sigma at the end of a word behind a combining accent or an apostrophe becomes
the medial form.

(3) "The result is UTF-8", says `R/case_text.R` of `fupper()` and `flower()`. `run_text()` calls
the assembly without the flag for byte mode, so that every changed row is marked as UTF-8. When
one string of a call is marked "bytes", the others are viewed in their own bytes: a Latin-1
string is then changed byte by byte and marked as what it is not.

(4) "An `H` or `W` that follows another letter can be inserted or deleted for 1", says
`R/alignment_metrics.R` (line 6) of `editex()`, and a comment in `alignment_metrics.cpp` (line 89)
says the same. `editex_d()` asks whether the letter *before* is an H or W: `editex("A", "AH")`
is 2, and in "HA" it is the A that costs 1.

(5) `regex_engine.h` says of an element whose matching runs into a limit of PCRE2 that it "counts
as not matching" (line 216) and keeps its "unmatched result" (line 225), and the warning tells the
caller the same (lines 252, 256). An element that does not match is one field, the whole string.
After such an error `fstrsplit()` gives no field at all (`fextract.cpp` lines 369-372) and
`fsplit_field()` NA, the first field included (lines 542-546). Counting, extraction and substitution
do what is said. `AnswersExact`, which the code keeps, therefore asks only that such a row shows
nothing of what was found before the error; `FailedUnmatched` asks for the documented answer.

Why the bounds are enough. Clustering: two trees of depth one can be linked into one of depth
two whose bottom record is halved while others hang below it. Dispatch: five indices give
every remainder of the ceiling divisions for two and three threads, and pieces that can and
cannot be split. Pipeline: a chunk is closed by its rows and by its bytes, more chunks than
threads and fewer, an error before and behind another one. Candidate pairs: blocks of one,
several and too many records, two chunks, a limit just passed and just missed through the
halving. Multi-replacement: replacements that create, undo or delete the other needle's
matches. Automaton: patterns that contain, begin, end or repeat one another; the limit on
the table lies so that both forms of the automaton are built. Fixed search: shifts that end before, at
and behind the last place, in both cases. Match loops: consuming, empty
and adjacent matches at the start, inside and at the end, and steps over a two-byte
character.

Kernels: both sides of the word's limit and of every bound on k, pairs that share both
ends, one or nothing, and swaps with edits inside them. Fuzz kernels: patterns of one, two and three
words in turn, characters in and beyond the indexed part of the table (`Latin` = 5), texts long
enough for three rounds of bisection. `Full` = 72072000 is divisible by every length that occurs, so
that no score is rounded, and by the denominators of the weights. Scorers: words in another order,
repeated, with the spaces that only wide strings split at; tasks of one and of several chunks
(`ChunkMin` = 2, `TasksWanted` = 4). Lookup: full lists and lists that
never fill, ties on both sides of the bound. Deletion index: prefixes shorter than, equal to
and longer than k; one range that runs two chunks and two ranges that run one each. Linkage:
a term used on both sides, twice in one comparator, and again after others; a pass that fails
beside one that does not; more records than allowances. Views: the "bytes" string first, in the
middle, last and absent; counts that saturate (`MaxBytes` = 6). Edit scripts: pairs split once, twice and not at all. q-grams: strings shorter
than q, as long, and longer; rows of tasks above, on and below the diagonal. Equal bytes in two encodings
are left out there: shorter than q, they score 1 in a pair and 0 in a prepared matrix, and R does
not call them identical. Token counts: more tokens than slots,
so that a table grows while bodies are split, and tokens that meet in one slot. Jaro-Winkler:
strings up to one longer than a word has bits, tokens up to one more than are joined, masked or
turned round; a range whose next comparison shares letters with the one before. Names: every
piece that a rule names, at the start, within and at the end, and pairs in which a neighbour's code
is longer or shorter. Dates: the first and last day of months, of leap years and of the years that
can be written; arrays that begin at an aligned place or beside one, below and above
`StreamThreshold` = 4.

Every property of a passing run is violated by a mutant of the code ("mutants"). Deadlock is not checked:
each specification is of one call, which really ends.

Fairness. `ClusterPairs`, `MultiReplace`, `AhoCorasick` and `MatchLoops` are loops of one
thread that nothing interrupts: weak fairness of the next-state relation. `EditKernels`,
`FuzzKernels`, `FuzzScores`, `EditScripts`, `Alignments`, `JaroScores`, `FuzzyLookup`,
`DeletionIndex`, `QGrams`, `NGramJoins`, `RecordLinkage`, `TextTools`, `NameCodes` and `Calendar` state
safety only and need none. In the others (`DispatchCall`, `TextPipeline`, `CandidatePairs`) every thread's steps are weakly fair: the operating
system runs a ready thread, and both backends let every worker take part until the range is
used up. Nothing assumes that a split happens or that a given thread gets work.

## 4. Proofs

TLAPS proves the following for every value of the constants, under the assumptions named.
Each component's invariant was first checked by TLC on the instance of its run. The module names the lemmas;
here is the argument of each.

| module | theorems | assumptions |
|---|---|---|
| `DispatchProofs` | `Invariance`, `TypeCorrect` (`CallTypeOK`), `OnceEach` (`EachIndexOnce`), `CompleteOnReturn` (`ReturnsComplete`), `ThreadsCapped` (`ThreadCap`) | the caller's thread is a thread (`DispatchAssumption`); thread counts are integers, grains natural (`CallAssumption`) |
| `ClusterPairsProofs` | `Invariance`, `TypeCorrect` (`TypeOK`), `PartitionKept` (`ForestIsPartition`), `ComponentsReturned` (`ResultIsComponents`), `Implements` (`Refines`) | the number of records is natural, pairs name records (`ClusterAssumption`) |
| `TextPipelineProofs` | `Invariance`, `RowsTiled` (`ChunksTile`), `Maps` (`MapsRows`) | the code's limits are positive, vectors are finite, rows of the kinds that PCRE2 makes (`PipelineAssumption`) |
| `CandidatePairsProofs` | `Invariance`, `BoundCovered` (`BoundCovers`), `WorkSound`, `PairsExact` (`ResultExact`) | what the R side hands over: per pass a code for each record, 0 or one of `1 .. K` that all occur, the same for both sides of a deduplication (`PairsAssumption`) |
| `MatchLoopsProofs` | `Invariance`, `OffsetsLegal` (`SearchesLegal`), `OffsetsAdvance` (`SearchesAdvance`), `RowsAnswered`, `AnswersFound` (`AnswersExact`) | matches begin and end on characters; patterns of `fstrsplit()` and `fsplit_field()` match no empty string, and a pattern that does is known to (`MatchAssumption`) |
| `RecordLinkageProofs` | `Invariance`, `SessionsExact` (`SessionExact`), `LinksFound` (`LinksExact`) | passes, comparators and given pairs come as sequences, data have finitely many records (`SessionAssumption`); a comparison has a level, weights of the model's levels are numbers, allowances are positive, EM leads from points to points, and a fit is asked of levels it counts (`ModelAssumption`) |

*The dispatch.* `DispatchLemmas` speaks of any specification that uses `ParallelDispatch` with
a state of its own (`CallStep`), so that both a call and the text pipeline rest on it. The inductive
invariant (`Sound`) is stated by intervals: what each stage has set up (`Shape`), waiting and held
pieces do not overlap (`Separate`), none has an index that ran (`Fresh`), and every index is
somewhere (`Covered`). `ThreadCap` needs arithmetic besides (`Limited`): a TinyThread piece handed
out begins a whole number of grains into the range, and the grain is so long that there are at most
`cap` of these, however the ceiling divisions round.

*Clustering.* Connectivity is stated without recursion: a set is closed when no pair (no parent edge)
leaves it. `ForestIsPartition` says that the closed sets of both are the same, which is inductive
only with more: sizes strictly climb along parent edges (`SizesClimb`), some function names each
tree's root (`RootsNamed`; left existential, so that nothing is defined along paths), what `find()`
has established about the pair in hand (`CursorInv`), and that labels belong to distinct roots
(`LabelInv`). The refinement maps a forest to its trees, each the class of the records that the same
closed sets hold: a halving stutters, `Link` is the abstract `Merge`, and `NumberRow` is `Number`
since `next - 1` is the number of trees with a record among the rows labelled (`NumberInv`), by
cardinality.

*The text pipeline.* `IInv` has the plan (`PlanInv`: chunks tile the rows reached, each of at most
`MaxRows`), the place of each thread (`Places`: it is in the worker exactly while it holds chunks,
at a row of the first of them, with the text made of that row in its buffer), the rows (`RowsInv`:
those of chunks that ran, or that a thread has passed, are settled) and what the report has let through
(`Passed`). A stored text stays because arenas only grow. `MapsRows` follows: `Report` is the abstract
stop, or no step; `Finalize` is its answer; every other step is none.

*Candidate pairs.* While records are counted, `offsets[c + 1]` counts those of code `c` so far; in
the prefix sum, `offsets[c]` counts those below `c`, for the codes summed (`CountedTo`, `AddedTo`,
`Summed`). So a block's size is right when it is weighed. `bound` is the code's bound doubled; it is
never less than the pairs within reach of the codes weighed (`Reach`): twice their number, or once
when a table is paired with itself, where each pair is counted from both of its ends. What is
wanted is within reach once all codes of all passes are weighed, a block above the maximum
having no pairs in either count.

`PairsExact` takes that invariant on to the answer, in four parts (`FullInv`). `TableInv`: a record
is placed behind those of its code, so that each block fills up from its offset and none reaches into the
next, since the counts were exact; a filled table lists each record of a code once, in order, and a
code is skipped exactly when its block is over the maximum. `Sound` is the invariant of the dispatch,
which these threads' steps keep as well (`PairsCallStep`). `WorkInv` joins the two: a thread is at a row of
the first chunk it holds; what it has found there is what the passes scanned so far find, each
partner with its pass, and in order as long as one exact pass alone has given any; and a chunk's list is
what its rows before the thread's row give, all of them once it has run, none before anyone holds it.
That no two threads write one list is `Separate` and `Fresh` of the dispatch. `CallInv` says when
the call may answer; all chunks have run by then, and lists of adjoining rows that are exact and
ordered join to one that is (`ListedJoins`, `Gathered`). A record's partners sorted, with the
first of each kept, have every partner once under its first pass (`FirstsMerge`); a list of one exact pass
needs neither the sort nor the selection (`OrderedMerged`), which is the code's shortcut.

*Match loops.* `WalkInv`: the offset and the match in hand lie on characters, the match not before
the offset; an offset that an empty match must not be found at again (`barred`) is the offset itself and
before the string's end. A loop then goes on from a later character (`Onward`) after every match, of
whatever length: `SearchesAdvance` is the safety half of `SearchesEnd`.

`AnswersFound` needs `AnswerInv` besides. `RowsInv`: the rows behind are answered, and what they have of
the chunk's spans lies before what the row in hand adds or a failed search takes back. `HandInv`: n of the
places that the reference takes are passed (`Passed`: those end at or before the offset, the others begin
there or later), and the spans, or the text, are what n of them give. Places are taken in a
way that only earlier ones decide, so they exist (`TakenIs`) and are determined (`TakenOnce`); the match a search finds
is then the next one taken (`NextTaken`, `CountsNext`, `ReplacesNext`), unless it is an empty one where
a consuming match ended, and then it is none (`ReplaceSkips`); this is what `barred` must remember
and when it may be forgotten (`Barring`). A loop stops only where the reference has no place left (`CountEnds`, `ReplaceEnds`). The text
made after n places exists as a sequence given step by step (`BuiltSo`), and the provenance, while it is
contiguous, is the slice of the row that the text equals (`TraceAppends`). `pcre2_substitute()` and the code's own
loop agree where no match is empty (`SolidChain`), the only patterns for which `gsub()` leaves the text to it.

*The session.* `SessionInv` has what is left to do (`WorkInv`: of the comparator at hand, `Ahead(e)`,
e steps are taken), what was evaluated (`DrawnInv`: once, or again only by a comparator where it
failed; kept; failures told, each once), what the caches hold (`CacheInv`: a record's vector is one
that was drawn, a spread copy is a record's vector at the pairs' records and is kept exactly as long as a comparator
to come reads it, each column is made of its own two terms) and what was spread (`SpreadInv`: in
order, no term twice).

*The linkage model.* `ModelInv` is inductive with the session's invariant. `CollapseInv`: the patterns are
pairwise different, each row done has the pattern of its levels, each count is the number of
those rows; the row in the scratch slot is past the patterns, so that the table agrees with the last one on
them (`Agree`), and a new row is a pattern more (`NewPattern`) or is counted with the one it equals
(`KnownPattern`). `Fitted`: the parameters are a point, and if EM has converged its last move was short.
`RowsWeighed`: each row has the weight of its own levels. It is a number when the model knows them
(`PatternWeighs`, the sum given step by step), so that heavier-or-earlier is a total order
(`KnownOrdered`) and the ranks list the pairs (`RanksOrder`). `Sifted` is the selection halfway: the
rows still queued come after all those answered; a record's count is the number of its links, and within the
allowance; a row turned down has earlier links that use one of its allowances up. An offer keeps the last
(`RowOffered`): whatever is linked so far comes before the row at hand, so its counts are those of
earlier links (`TurnedDown`), and a later link is not earlier than a row turned down before
(`StaysDown`). The comparison counts each pair at its first row, which is a bijection with the pairs
(`PairsCounted`).

`NaturalLemmas` has what these keep needing: every inhabited set of naturals has a least member, a bounded one
a greatest, a set that has 0 and with each number the next has all (`SetInduction`), and a function
given step by step exists (`RecursionExists`), and the elements of
a finite set listed by rank are all of them, each once, in order (`RanksOrder`, `AscendingPlaces`). They are proved from the library's facts about finite
sets, since its induction theorems take an operator.

Only model-checked: liveness (`Terminates`, `CallReturns`, `Answers`, `SearchesEnd`, `PairsReturned`): the
prover has no fairness or ENABLED. And everything of the other modules, whose properties compare an algorithm with a recursive reference
definition; what such a definition computes for every input needs induction over data, and several
of these modules declare RECURSIVE operators, which the provers cannot read.

## 5. Not modelled

PCRE2, TBB and R themselves, the parallel reduction included: modelled by how the code uses
them. In the match loops: `\K` and capture groups (`group` is 0). In the multi-replacement: the
regex mode, whose rows compose the same source maps. In the snapshots: the materializing of
ALTREP vectors. Floating point: scores are exact fractions, EM's parameters abstract points, so
that nothing is said of rounding. The generated tables (case, shapes, HTML entities,
`default_process`) enter by extracts that have a member of each kind. Dates are exact numbers, so
that nothing is said of a double that a day count or a second falls between. In the alignments:
the accented folding of Editex, weighted matrices, Monge-Elkan over other similarities than the plain one,
Hamming. In `rLink()`: an expression that gives NULL, which leaves no message, so that its term drops out of a key
or reaches the comparator as NULL. Of errors raised before any work is done: vectors of 2^32
strings (`fuzzy_within()`), replaced tokens that are empty or hold white space, affixes that are missing
or empty. Not modelled at all: the string functions of `fgrepl_str.cpp`, Eudex, great-circle distances,
hashing, validators, most checking of arguments in R. They are conversions or sums that keep no
state between rows, and for most of them a definition to check them against would be the code
once more. `PROJECT.json` gives the reason for every
component.

## 6. Plan

Done: the dispatch and what runs on it (text pipeline, candidate pairs), clustering,
multi-replacement, automaton, match loops, edit-distance, fuzz and Jaro-Winkler kernels, scorers, edit
scripts and alignments, fuzzy lookup, deletion index, q-grams, tf-idf, MinHash, `rLink()` and the linkage model,
string views, text tools with folding, phonetic codes, dates; proofs for the dispatch, clustering, the text
pipeline, candidate pairs, match loops, the session and the linkage model.

Next models: the regex mode of the multi-replacement; capture groups and `\K` in the match loops;
`fold_text.cpp`'s memory, grown while views point into it; reminders.

Next proofs: `ViewsOneEncoding` of the snapshot; the stamps of `DeletionIndex`.
