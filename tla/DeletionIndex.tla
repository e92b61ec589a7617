----------------------------- MODULE DeletionIndex -----------------------------
(***************************************************************************)
(* fuzzy_within(): one call of fast_fuzzy_within_impl() (symspell.cpp).    *)
(* Every distinct table string is indexed by what deleting up to k         *)
(* characters makes of its prefix; a query looks up what deleting makes of *)
(* its own; what it finds there is verified with the exact distance.       *)
(*                                                                         *)
(* Of a 64-bit hash the index keeps the upper half, HighBits here, which   *)
(* may be the same for different strings; that whole hashes differ is      *)
(* taken for granted, as in the code. Threads run ranges of chunks, with   *)
(* stamps of their own for each range and a list of hits for each chunk;   *)
(* they share nothing else, so the ranges are run whole, in any order.     *)
(***************************************************************************)
EXTENDS EditDistance

CONSTANTS
  NA,             \* the missing string
  ChunkSize,      \* distinct strings in a chunk (512)
  HighBits(_),    \* what the index keeps of the hash of a string
  MaxRows,        \* rows that a result can have (2^31 - 1)
  Calls           \* [x, table, k, method, prefix]

(* What the code is called with. Vectors of 2^32 strings or more are       *)
(* refused before anything else happens: there are none here.              *)
CallsAdmitted ==
  /\ ChunkSize \in Nat \ {0}
  /\ MaxRows \in Nat
  /\ Calls \subseteq
       [x : Seq(Strings \cup {NA}), table : Seq(Strings \cup {NA}), k : 0 .. 8,
        method : {"levenshtein", "osa", "damerau"}, prefix : 1 .. 64]

VARIABLES
  call,
  phase,       \* "index", "search", "done", "stopped"
  parts,       \* for each table chunk its entries [key, id], <<>> before it ran
  index,       \* all entries, sorted
  toSearch,    \* query chunks that no thread has taken
  chunk,       \* the chunk at hand, 0 between two ranges
  q,           \* the distinct query at hand
  looked,      \* whether its candidates are found, not yet verified
  stamp,       \* the last query of the range that met a distinct table string
  current,     \* queries looked up in the range
  candidates,  \* distinct table strings met by the query
  hits,        \* for each query chunk [query, target, distance], distinct ids
  result       \* the same for rows

vars == <<call, phase, parts, index, toSearch, chunk, q, looked,
          stamp, current, candidates, hits, result>>
-----------------------------------------------------------------------------
X == call.x
Table == call.table
k == call.k

(* distinct_rows(): the first rows of each string, in order; the rows of   *)
(* each.                                                                   *)
DistinctRows(strings) ==
  SelectSeq([i \in DOMAIN strings |-> i],
            LAMBDA i : strings[i] # NA /\ \A j \in 1 .. i - 1 : strings[j] # strings[i])
Members(strings, row) == SelectSeq([i \in DOMAIN strings |-> i],
                                   LAMBDA i : strings[i] = strings[row])

QueryRows == DistinctRows(X)
TableRows == DistinctRows(Table)

ChunksOf(rows) == 1 .. (Len(rows) + ChunkSize - 1) \div ChunkSize
InChunk(rows, c) == (c - 1) * ChunkSize + 1 .. Min({Len(rows), c * ChunkSize})

(* deletion_variants(): level by level, one deletion more. *)
VariantsUpTo(s, depth) ==
  LET level[d \in 0 .. depth] ==
        IF d = 0 THEN {s}
        ELSE UNION {{RemoveAt(w, p) : p \in DOMAIN w} : w \in level[d - 1]}
  IN  UNION {level[d] : d \in 0 .. depth}

Variants(s) == VariantsUpTo(Prefix(s, Min({Len(s), call.prefix})), k)

Init ==
  /\ call \in Calls
  /\ phase = "index"
  /\ parts = [c \in ChunksOf(TableRows) |-> <<>>]
  /\ index = <<>>
  /\ toSearch = ChunksOf(QueryRows)
  /\ chunk = 0
  /\ q = 0
  /\ looked = FALSE
  /\ stamp = <<>>
  /\ current = 0
  /\ candidates = <<>>
  /\ hits = [c \in ChunksOf(QueryRows) |-> <<>>]
  /\ result = <<>>

(* The elements of a set in some order. *)
Listed(S) == FoldSet(LAMBDA e, list : Append(list, e), <<>>, S)

Search == <<toSearch, chunk, q, looked, stamp, current, candidates, hits>>
-----------------------------------------------------------------------------
(* IndexWorker: one chunk of distinct table strings. *)
IndexChunk ==
  /\ phase = "index"
  /\ \E c \in ChunksOf(TableRows) :
       /\ parts[c] = <<>>
       /\ parts' = [parts EXCEPT ![c] =
            FlattenSeq([n \in 1 .. Cardinality(InChunk(TableRows, c)) |->
              LET id == (c - 1) * ChunkSize + n
                  own == Listed(Variants(Table[TableRows[id]]))
              IN  [v \in DOMAIN own |-> [key |-> HighBits(own[v]), id |-> id]]])]
  /\ UNCHANGED <<call, phase, index, Search, result>>

SortIndex ==
  /\ phase = "index"
  /\ \A c \in ChunksOf(TableRows) : parts[c] # <<>>
  /\ index' = SortSeq(FlattenSeq(parts),
                      LAMBDA e, f : e.key < f.key \/ (e.key = f.key /\ e.id < f.id))
  /\ parts' = [c \in ChunksOf(TableRows) |-> <<>>]
  /\ phase' = "search"
  /\ UNCHANGED <<call, Search, result>>
-----------------------------------------------------------------------------
(* QueryWorker: a range begins with fresh stamps. *)
StartRange ==
  /\ phase = "search"
  /\ chunk = 0
  /\ \E c \in toSearch :
       /\ chunk' = c
       /\ toSearch' = toSearch \ {c}
       /\ q' = Min(InChunk(QueryRows, c))
  /\ stamp' = [id \in DOMAIN TableRows |-> 0]
  /\ current' = 0
  /\ UNCHANGED <<call, phase, parts, index, looked, candidates, hits, result>>

(* The ids that the index has for a variant: from where lower_bound() puts *)
(* the key, as long as it is the same.                                     *)
IdsOf(v) ==
  LET key  == HighBits(v)
      from == 1 + Cardinality({n \in DOMAIN index : index[n].key < key})
      run  == {n \in from .. Len(index) : \A m \in from .. n : index[m].key = key}
  IN  [n \in 1 .. Cardinality(run) |-> index[from + n - 1].id]

FaultyMeet(met, id) ==   \* no stamps
  [met EXCEPT !.candidates = Append(@, id)]

(* A table string is a candidate once for a query. *)
Meet(met, id) ==
  IF met.stamp[id] = met.current THEN met
  ELSE [met EXCEPT !.stamp[id] = met.current, !.candidates = Append(@, id)]

LookUp ==
  /\ chunk # 0
  /\ q \in InChunk(QueryRows, chunk)
  /\ ~looked
  /\ LET met == FoldSet(LAMBDA v, m : FoldLeft(Meet, m, IdsOf(v)),
                        [stamp |-> stamp, current |-> current + 1, candidates |-> <<>>],
                        Variants(X[QueryRows[q]]))
     IN  /\ stamp' = met.stamp
         /\ current' = met.current
         /\ candidates' = met.candidates
  /\ looked' = TRUE
  /\ UNCHANGED <<call, phase, parts, index, toSearch, chunk, q, hits, result>>

Distance(s, t) ==
  CASE call.method = "levenshtein" -> Levenshtein(s, t)
    [] call.method = "osa" -> Osa(s, t)
    [] call.method = "damerau" -> Damerau(s, t)

Verified(id) ==
  LET s == X[QueryRows[q]]
      t == Table[TableRows[id]]
  IN  Len(s) - Len(t) \in -k .. k /\ Distance(s, t) <= k

Verify ==
  /\ looked
  /\ hits' = [hits EXCEPT ![chunk] = @ \o
       [n \in DOMAIN SelectSeq(candidates, Verified) |->
          LET id == SelectSeq(candidates, Verified)[n]
          IN  [query |-> q, target |-> id,
               distance |-> Distance(X[QueryRows[q]], Table[TableRows[id]])]]]
  /\ looked' = FALSE
  /\ q' = q + 1
  /\ UNCHANGED <<call, phase, parts, index, toSearch, chunk, stamp, current, candidates, result>>

ChunkEnds ==
  /\ chunk # 0
  /\ q \notin InChunk(QueryRows, chunk)

(* The range goes on with the next chunk, stamps and all, or ends here. *)
GoOn ==
  /\ ChunkEnds
  /\ chunk + 1 \in toSearch
  /\ chunk' = chunk + 1
  /\ toSearch' = toSearch \ {chunk + 1}
  /\ UNCHANGED <<call, phase, parts, index, q, looked, stamp, current, candidates, hits, result>>

EndRange ==
  /\ ChunkEnds
  /\ chunk' = 0
  /\ UNCHANGED <<call, phase, parts, index, toSearch, q, looked, stamp, current, candidates, hits, result>>

(* Query, distance, table order. *)
Before(a, b) ==
  \/ a.query < b.query
  \/ a.query = b.query /\ a.distance < b.distance
  \/ a.query = b.query /\ a.distance = b.distance /\ a.target < b.target

(* The rows of distinct strings, counted before they are listed. *)
RowsOfHits ==
  FoldLeft(LAMBDA rows, h : rows + Len(Members(X, QueryRows[h.query]))
                                     * Len(Members(Table, TableRows[h.target])),
           0, FlattenSeq(hits))

Searched == phase = "search" /\ chunk = 0 /\ toSearch = {}

TooManyRows ==
  /\ Searched
  /\ RowsOfHits > MaxRows
  /\ phase' = "stopped"
  /\ UNCHANGED <<call, parts, index, Search, result>>

Expand ==
  /\ Searched
  /\ RowsOfHits <= MaxRows
  /\ result' =
       LET rowsOf(h) ==
             LET queries == Members(X, QueryRows[h.query])
                 targets == Members(Table, TableRows[h.target])
             IN  FlattenSeq([i \in DOMAIN queries |-> [j \in DOMAIN targets |->
                   [query |-> queries[i], target |-> targets[j], distance |-> h.distance]]])
           all == FlattenSeq(hits)
       IN  SortSeq(FlattenSeq([n \in DOMAIN all |-> rowsOf(all[n])]), Before)
  /\ phase' = "done"
  /\ UNCHANGED <<call, parts, index, Search>>

Next ==
  \/ IndexChunk \/ SortIndex
  \/ StartRange \/ LookUp \/ Verify \/ GoOn \/ EndRange
  \/ TooManyRows \/ Expand

Spec == Init /\ [][Next]_vars
-----------------------------------------------------------------------------
(* The result is the pairs of rows within k edits, each once, with its     *)
(* distance, in order: no hash that two strings share, no stamp of another *)
(* query and no chunk's end adds, drops or doubles one. A call is refused  *)
(* only when it has more of them than a result can have.                    *)
PairsWithin ==
  {[query |-> i, target |-> j, distance |-> Distance(X[i], Table[j])] :
     <<i, j>> \in {p \in (DOMAIN X) \X (DOMAIN Table) :
                   /\ X[p[1]] # NA
                   /\ Table[p[2]] # NA
                   /\ Distance(X[p[1]], Table[p[2]]) <= k}}

ResultExact ==
  /\ phase = "done" =>
       /\ Range(result) = PairsWithin
       /\ \A n \in 1 .. Len(result) - 1 : Before(result[n], result[n + 1])
  /\ phase = "stopped" => Cardinality(PairsWithin) > MaxRows
=============================================================================
