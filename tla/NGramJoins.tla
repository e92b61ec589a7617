------------------------------ MODULE NGramJoins ------------------------------
(***************************************************************************)
(* Rows that are alike by the n-grams they share: the nearest rows of a    *)
(* table (tfidf_top_n()), and all pairs that are alike (minhash_pairs()).  *)
(*                                                                         *)
(* tfidf_top_n(): one call of fast_tfidf_top_n_impl() (tfidf.cpp). The     *)
(* table is indexed by n-gram; a query adds up, n-gram by n-gram, what it  *)
(* has in common with each row that shares one, and keeps the best rows.   *)
(* A worker takes its queries one after the other over one accumulator per *)
(* table row, which it clears for the rows it touched; other workers have  *)
(* accumulators of their own.                                              *)
(*                                                                         *)
(* The weights before normalisation are integers here, Idf() standing for  *)
(* the logarithm; a score is the square of the cosine, an exact fraction.  *)
(***************************************************************************)
EXTENDS Integers, SequencesExt, FiniteSetsExt

CONSTANTS
  NA,
  CharValues,    \* 2^21: more than any character; the last one pads a short n-gram
  PackedChars,   \* 3: n-grams of so many characters are packed into a word
  Idf(_, _),     \* of the number of documents and of those that have the n-gram
  TfCalls        \* [x, table, q, top_n, min_score], min_score squared, a fraction

WeightsAdmitted ==
  /\ CharValues \in Nat \ {0} /\ PackedChars \in Nat
  /\ \A n \in 1 .. 4 : \A d \in 0 .. n : Idf(n, d) \in Nat \ {0}

VARIABLES
  tcall,
  postings,  \* per n-gram of the table: [row, weight, norm], by row
  query,     \* the query at hand, 0 before the first
  terms,     \* of the query: [id, weight], those not added yet
  norm,      \* the square of the length of the query's vector
  sums,      \* the worker's accumulator
  touched,   \* rows it added to, in order
  ranked     \* per query answered: [row, score]

tfVars == <<tcall, postings, query, terms, norm, sums, touched, ranked>>

Rows == DOMAIN tcall.table
Documents == {i \in Rows : tcall.table[i] # NA}

(* GramKeys.each(): a string shorter than q is one n-gram. *)
NGrams(s) ==
  IF s = <<>> THEN <<>>
  ELSE IF Len(s) < tcall.q THEN <<s>>
  ELSE [i \in 1 .. Len(s) - tcall.q + 1 |-> SubSeq(s, i, i + tcall.q - 1)]

Place(i) == LET p[k \in 0 .. i] == IF k = 0 THEN 1 ELSE CharValues * p[k - 1] IN p[i]
Pack(g) ==
  MapThenSumSet(LAMBDA i : Place(i - 1) * (IF i <= Len(g) THEN g[i] ELSE CharValues - 1),
                1 .. PackedChars)
GramKeys(s) ==
  [i \in DOMAIN NGrams(s) |-> IF tcall.q <= PackedChars THEN Pack(NGrams(s)[i]) ELSE NGrams(s)[i]]
-----------------------------------------------------------------------------
(* The index *)

(* Vocabulary.intern(): ids in the order the n-grams are met. *)
Vocabulary ==
  FoldLeft(LAMBDA v, g : IF Contains(v, g) THEN v ELSE Append(v, g), <<>>,
    FlattenSeq([i \in Rows |-> IF i \in Documents THEN GramKeys(tcall.table[i]) ELSE <<>>]))

Times(keys, g) == Cardinality({i \in DOMAIN keys : keys[i] = g})
RowsWith(g) == {i \in Documents : Times(GramKeys(tcall.table[i]), g) > 0}
Weight(keys, g) == Times(keys, g) * Idf(Cardinality(Documents), Cardinality(RowsWith(g)))
Norm(keys) == MapThenSumSet(LAMBDA g : Weight(keys, g) * Weight(keys, g), Range(keys))

Index ==
  [id \in DOMAIN Vocabulary |->
     LET rows == SetToSortSeq(RowsWith(Vocabulary[id]), <)
     IN  [p \in DOMAIN rows |->
            LET keys == GramKeys(tcall.table[rows[p]])
            IN  [row |-> rows[p], weight |-> Weight(keys, Vocabulary[id]), norm |-> Norm(keys)]]]
-----------------------------------------------------------------------------
TfInit ==
  /\ tcall \in TfCalls
  /\ postings = <<>> /\ query = 0 /\ terms = <<>> /\ norm = 0
  /\ sums = <<>> /\ touched = <<>> /\ ranked = <<>>

Cleared == [i \in Rows |-> 0]

BuildIndex ==
  /\ query = 0 /\ sums = <<>>
  /\ postings' = Index
  /\ sums' = Cleared
  /\ query' = 1
  /\ UNCHANGED <<tcall, terms, norm, touched, ranked>>

Idle == query \in DOMAIN tcall.x /\ Len(ranked) = query - 1 /\ norm = 0

(* A missing query has no rows. *)
SkipQuery ==
  /\ Idle /\ tcall.x[query] = NA
  /\ ranked' = Append(ranked, <<>>)
  /\ query' = query + 1
  /\ UNCHANGED <<tcall, postings, terms, norm, sums, touched>>

(* tfidf_vector(): n-grams the table lacks count for the norm alone. An    *)
(* empty query has none and is answered at once.                           *)
StartQuery ==
  /\ Idle /\ tcall.x[query] # NA
  /\ LET keys  == GramKeys(tcall.x[query])
         known == SelectSeq([id \in DOMAIN Vocabulary |->
                               [id |-> id, weight |-> Weight(keys, Vocabulary[id])]],
                            LAMBDA t : t.weight > 0)
     IN  /\ terms' = known
         /\ norm' = Norm(keys)
         /\ IF keys = <<>> THEN ranked' = Append(ranked, <<>>) /\ query' = query + 1
            ELSE UNCHANGED <<ranked, query>>
  /\ touched' = <<>>
  /\ UNCHANGED <<tcall, postings, sums>>

(* One n-gram: its products are added to the rows that have it. *)
AddTerm ==
  /\ terms # <<>>
  /\ LET t    == Head(terms)
         list == postings[t.id]
         add(i) == MapThenSumSet(LAMBDA p : IF list[p].row = i THEN t.weight * list[p].weight ELSE 0,
                                 DOMAIN list)
         new  == SelectSeq([p \in DOMAIN list |-> list[p].row], LAMBDA i : sums[i] = 0)
     IN  /\ sums' = [i \in Rows |-> sums[i] + add(i)]
         /\ touched' = touched \o new
  /\ terms' = Tail(terms)
  /\ UNCHANGED <<tcall, postings, query, norm, ranked>>

RowNorm(i) ==
  (CHOOSE p \in UNION {Range(postings[id]) : id \in DOMAIN postings} : p.row = i).norm

AtLeast(x, y) == x[1] * y[2] >= y[1] * x[2]
Better(c, d) ==
  \/ ~AtLeast(d.score, c.score)
  \/ AtLeast(d.score, c.score) /\ AtLeast(c.score, d.score) /\ c.row < d.row

(* Variant: only the rows that are kept are cleared. *)
AccumulatorKept(best) == [i \in Rows |-> IF \E k \in DOMAIN best : best[k].row = i THEN 0 ELSE sums[i]]

(* The accumulator is cleared where it was added to. *)
AccumulatorLeft(best) == [i \in Rows |-> IF Contains(touched, i) THEN 0 ELSE sums[i]]

(* The best rows, equal scores by row; no score below min_score. *)
Select ==
  /\ terms = <<>> /\ norm > 0
  /\ LET scored == [k \in DOMAIN touched |->
                      [row |-> touched[k],
                       score |-> <<sums[touched[k]] * sums[touched[k]], norm * RowNorm(touched[k])>>]]
         good   == SelectSeq(scored, LAMBDA c : c.score[1] > 0 /\ AtLeast(c.score, tcall.min_score))
         sorted == SortSeq(good, Better)
         best   == SubSeq(sorted, 1, Min({Len(sorted), tcall.top_n}))
     IN  /\ ranked' = Append(ranked, best)
         /\ sums' = AccumulatorLeft(best)
  /\ query' = query + 1
  /\ norm' = 0
  /\ UNCHANGED <<tcall, postings, terms, touched>>

TfNext == BuildIndex \/ SkipQuery \/ StartQuery \/ AddTerm \/ Select
-----------------------------------------------------------------------------
(* The cosine of two strings by the definition, squared. *)
Occurs(s, g) == Cardinality({i \in DOMAIN NGrams(s) : NGrams(s)[i] = g})
Having(g) == {i \in Documents : Occurs(tcall.table[i], g) > 0}
Value(s, g) == Occurs(s, g) * Idf(Cardinality(Documents), Cardinality(Having(g)))
Dot(s, t) == MapThenSumSet(LAMBDA g : Value(s, g) * Value(t, g),
                           Range(NGrams(s)) \cup Range(NGrams(t)))
CosineOf(s, t) == <<Dot(s, t) * Dot(s, t), Dot(s, s) * Dot(t, t)>>

(* Every query is given the top_n rows of the table nearest to it, the     *)
(* first of equal ones, whatever queries the worker answered before; rows  *)
(* that share nothing or too little are left out.                          *)
TopRows(q) ==
  LET s == tcall.x[q]
      candidates ==
        {i \in Documents : Dot(s, tcall.table[i]) > 0
                             /\ AtLeast(CosineOf(s, tcall.table[i]), tcall.min_score)}
      nearer(i, j) ==
        LET x == CosineOf(s, tcall.table[i])
            y == CosineOf(s, tcall.table[j])
        IN  ~AtLeast(y, x) \/ (AtLeast(x, y) /\ AtLeast(y, x) /\ i < j)
      all == SetToSortSeq(candidates, nearer)
  IN  IF s = NA THEN <<>> ELSE SubSeq(all, 1, Min({Len(all), tcall.top_n}))

TopExact ==
  \A q \in DOMAIN ranked :
    LET rows == TopRows(q)
    IN  /\ Len(ranked[q]) = Len(rows)
        /\ \A k \in DOMAIN rows :
             /\ ranked[q][k].row = rows[k]
             /\ LET x == ranked[q][k].score
                    y == CosineOf(tcall.x[q], tcall.table[rows[k]])
                IN  x[1] * y[2] = y[1] * x[2]
-----------------------------------------------------------------------------
(***************************************************************************)
(* minhash_pairs(): one call of fast_minhash_pairs_impl() (minhash.cpp).   *)
(* Threads take the strings' n-gram sets, then their signatures, which     *)
(* give a key per band; strings that share a key of a band are candidates, *)
(* whose similarity threads then compute from the sets.                    *)
(*                                                                         *)
(* Hash values are small numbers here, given by constants. Different       *)
(* n-grams have different ones, as nearly all have in the code; keys of a  *)
(* band may coincide.                                                      *)
(***************************************************************************)
CONSTANTS
  HashOf(_),       \* of an n-gram
  Permuted(_, _),  \* of the number of a hash function, and a hash value
  BandKey(_, _),   \* of a band, and its stretch of a signature
  MostPairs,       \* 2^31: more candidates are refused
  MinCalls         \* [x, y, within, q, bands, rows, threshold, verify], threshold a fraction

VARIABLES
  mcall,
  stage,       \* "hash", "sign", "verify", "listed", "refused"
  waiting,     \* strings, or candidates, that no thread has taken yet
  sets,        \* per string, those of y behind those of x: sorted hash values
  keys,        \* per string and band
  pairs,       \* candidates, <<i, j>> in order
  similarity,  \* per candidate: shared n-grams and all, or Unset
  listed       \* what is returned: [x, y, jaccard]

minVars == <<mcall, stage, waiting, sets, keys, pairs, similarity, listed>>

Unset == <<>>

All == mcall.x \o (IF mcall.within THEN <<>> ELSE mcall.y)
Items == DOMAIN All
OfX(i) == i <= Len(mcall.x)

(* Strings shorter than q are one n-gram; the empty one has none. *)
Shingles(s) ==
  LET width == Min({Len(s), mcall.q})
  IN  IF s = <<>> THEN {} ELSE {SubSeq(s, i, i + width - 1) : i \in 1 .. Len(s) - width + 1}
-----------------------------------------------------------------------------
MinInit ==
  /\ mcall \in MinCalls
  /\ stage = "hash" /\ waiting = Items
  /\ sets = [i \in Items |-> <<>>]
  /\ keys = [i \in Items |-> [b \in 1 .. mcall.bands |-> 0]]
  /\ pairs = <<>> /\ similarity = <<>> /\ listed = <<>>

(* ShingleWorker: a missing string's set stays empty. *)
HashItem(i) ==
  /\ stage = "hash" /\ i \in waiting
  /\ sets' = [sets EXCEPT ![i] =
       IF All[i] = NA THEN <<>> ELSE SetToSortSeq({HashOf(g) : g \in Shingles(All[i])}, <)]
  /\ waiting' = waiting \ {i}
  /\ UNCHANGED <<mcall, stage, keys, pairs, similarity, listed>>

StartSigning ==
  /\ stage = "hash" /\ waiting = {}
  /\ stage' = "sign" /\ waiting' = Items
  /\ UNCHANGED <<mcall, sets, keys, pairs, similarity, listed>>

(* SignatureWorker: for each hash function the least value of the set. *)
Signature(set) ==
  [p \in 1 .. mcall.bands * mcall.rows |-> Min({Permuted(p, v) : v \in Range(set)})]

SignItem(i) ==
  /\ stage = "sign" /\ i \in waiting
  /\ LET signature == Signature(sets[i])
     IN  keys' = IF sets[i] = <<>> THEN keys
                 ELSE [keys EXCEPT ![i] = [b \in 1 .. mcall.bands |->
                         BandKey(b, SubSeq(signature, (b - 1) * mcall.rows + 1, b * mcall.rows))]]
  /\ waiting' = waiting \ {i}
  /\ UNCHANGED <<mcall, stage, sets, pairs, similarity, listed>>
-----------------------------------------------------------------------------
EntryBefore(e, f) ==
  \/ e.band < f.band
  \/ e.band = f.band /\ e.key < f.key
  \/ e.band = f.band /\ e.key = f.key /\ e.item < f.item

EntriesOf(items) ==
  SortSeq(FlattenSeq([n \in DOMAIN items |->
            [b \in 1 .. mcall.bands |-> [band |-> b, key |-> keys[items[n]][b], item |-> items[n]]]]),
          EntryBefore)

(* Variant: strings without n-grams, whose keys are all 0, are entered too. *)
EntriesAll == EntriesOf([i \in Items |-> i])

(* A key of each band for every string that has n-grams, like keys together. *)
Entries == EntriesOf(SelectSeq([i \in Items |-> i], LAMBDA i : sets[i] # <<>>))

(* The pairs of a bucket, entries u and v of the sorted list with one band *)
(* and key: of the items of x only, or one of x and one of y.              *)
InBucket(list, u, v) ==
  /\ u < v
  /\ list[u].band = list[v].band /\ list[u].key = list[v].key
  /\ ~mcall.within => OfX(list[u].item) /\ ~OfX(list[v].item)

(* Found bucket by bucket, a pair once for every band it shares; sorted    *)
(* and made distinct then. They are counted before.                        *)
Bucket ==
  /\ stage = "sign" /\ waiting = {}
  /\ LET list   == Entries
         found  == {p \in (DOMAIN list) \X (DOMAIN list) : InBucket(list, p[1], p[2])}
         offset == IF mcall.within THEN 0 ELSE Len(mcall.x)
         all    == {<<list[p[1]].item, list[p[2]].item - offset>> : p \in found}
         n      == Len(All)
         sorted == SelectSeq([k \in 1 .. n * n |-> <<(k - 1) \div n + 1, ((k - 1) % n) + 1>>],
                             LAMBDA p : p \in all)
     IN  IF Cardinality(found) > MostPairs
           THEN stage' = "refused" /\ UNCHANGED <<waiting, pairs, similarity>>
           ELSE /\ stage' = "verify"
                /\ pairs' = sorted
                /\ waiting' = DOMAIN sorted
                /\ similarity' = [k \in DOMAIN sorted |-> Unset]
  /\ UNCHANGED <<mcall, sets, keys, listed>>

SetOf(k) == sets[pairs[k][1]]
OtherSet(k) == sets[pairs[k][2] + (IF mcall.within THEN 0 ELSE Len(mcall.x))]

(* jaccard_sets(): the two sorted lists are merged. *)
Shared(p, r) ==
  LET from[i \in 1 .. Len(p) + 1, j \in 1 .. Len(r) + 1] ==
        IF i > Len(p) \/ j > Len(r) THEN 0
        ELSE IF p[i] < r[j] THEN from[i + 1, j]
        ELSE IF r[j] < p[i] THEN from[i, j + 1]
        ELSE 1 + from[i + 1, j + 1]
  IN  from[1, 1]

VerifyPair(k) ==
  /\ stage = "verify" /\ k \in waiting
  /\ LET inter == Shared(SetOf(k), OtherSet(k))
     IN  similarity' = [similarity EXCEPT ![k] =
           <<inter, Len(SetOf(k)) + Len(OtherSet(k)) - inter>>]
  /\ waiting' = waiting \ {k}
  /\ UNCHANGED <<mcall, stage, sets, keys, pairs, listed>>

List ==
  /\ stage = "verify" /\ waiting = {}
  /\ LET rows == [k \in DOMAIN pairs |->
                    [x |-> pairs[k][1], y |-> pairs[k][2], jaccard |-> similarity[k]]]
     IN  listed' = SelectSeq(rows, LAMBDA r : mcall.verify => AtLeast(r.jaccard, mcall.threshold))
  /\ stage' = "listed"
  /\ UNCHANGED <<mcall, waiting, sets, keys, pairs, similarity>>

MinNext ==
  \/ \E i \in waiting : HashItem(i) \/ SignItem(i) \/ VerifyPair(i)
  \/ StartSigning \/ Bucket \/ List
-----------------------------------------------------------------------------
Second(j) == IF mcall.within THEN mcall.x[j] ELSE mcall.y[j]

(* The share of the n-grams of the two that both have. *)
Jaccard(s, t) == <<Cardinality(Shingles(s) \cap Shingles(t)), Cardinality(Shingles(s) \cup Shingles(t))>>

(* Equal in every row of a band, by the definition of the signature. *)
Least(p, s) == Min({Permuted(p, HashOf(g)) : g \in Shingles(s)})
Agree(s, t) ==
  \E b \in 1 .. mcall.bands : \A r \in 1 .. mcall.rows :
    Least((b - 1) * mcall.rows + r, s) = Least((b - 1) * mcall.rows + r, t)

(* The pairs returned are strings of the vectors that have n-grams, each   *)
(* pair once and in order, with the similarity of their sets; none is      *)
(* missing that agrees in a band, and none is below the threshold if they  *)
(* are verified. Whatever order the threads worked in.                     *)
BandsExact ==
  stage = "listed" =>
    LET admitted(s, t) == ~mcall.verify \/ AtLeast(Jaccard(s, t), mcall.threshold)
        has(i, j) == \E k \in DOMAIN listed : listed[k].x = i /\ listed[k].y = j
        seconds == DOMAIN (IF mcall.within THEN mcall.x ELSE mcall.y)
    IN  /\ \A k \in DOMAIN listed :
             LET r == listed[k]
                 s == mcall.x[r.x]
                 t == Second(r.y)
             IN  /\ {NA, <<>>} \cap {s, t} = {}
                 /\ mcall.within => r.x < r.y
                 /\ r.jaccard = Jaccard(s, t) /\ admitted(s, t)
        /\ \A k \in 2 .. Len(listed) :
             \/ listed[k - 1].x < listed[k].x
             \/ listed[k - 1].x = listed[k].x /\ listed[k - 1].y < listed[k].y
        /\ \A i \in DOMAIN mcall.x, j \in seconds :
             /\ {NA, <<>>} \cap {mcall.x[i], Second(j)} = {}
             /\ mcall.within => i < j
             /\ Agree(mcall.x[i], Second(j)) /\ admitted(mcall.x[i], Second(j))
             => has(i, j)
=============================================================================
