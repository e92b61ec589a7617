------------------------------ MODULE TextTools ------------------------------
(* One call of a text tool (text_tools.cpp): the strings are prepared         *)
(* (StringViews), each row is rewritten (TextFunctions) into the memory of    *)
(* its chunk by the thread that has it, and the calling thread makes R        *)
(* strings of the results and marks their encoding (text_results.h). Token    *)
(* counts are reduced instead; snapshots of other callers end when they are   *)
(* ready. Folding and fingerprints take the same way.                         *)
EXTENDS StringViews, TextFunctions

CONSTANTS
  HashOf(_),   \* of a folded token
  Slots        \* of an empty table

VARIABLES
  bodies,      \* [from, upto, next, table]: the rows from .. upto - 1, next to be counted
  counts,      \* the answer: [token, n, docs] in order
  waiting,     \* rows not yet rewritten
  records,     \* per row: [kind, text], kind "na", "original" or "changed"
  result       \* per row: NA or [enc, bytes]

toolVars == <<bodies, counts, waiting, records, result>>
vars == <<viewVars, toolVars>>
-----------------------------------------------------------------------------
(* fast_token_counts_impl(): how often each token occurs and in how many      *)
(* strings. A parallel reduction: each body counts the tokens of its rows in  *)
(* a hash table of its own; a body that waits may be given rows of another,   *)
(* and finished neighbours are joined, the right one's totals added to the    *)
(* left one's. The reduction itself is external.                              *)
Counting == phase = "ready" /\ call.fn = "token_counts"

EmptyTable == [entries |-> <<>>, slots |-> [k \in 0 .. Slots - 1 |-> 0]]

(* The slot where one of the entries `wanted` is, or the free one where such  *)
(* an entry would be put.                                                     *)
SlotFor(slots, hash, wanted) ==
  LET size == Cardinality(DOMAIN slots)
      probe[k \in 0 .. size - 1] ==
        LET slot == (hash + k) % size
        IN  IF slots[slot] \in {0} \cup wanted THEN slot ELSE probe[k + 1]
  IN  probe[0]

(* grow() *)
Grown(table) ==
  LET size == Cardinality(DOMAIN table.slots)
      put(slots, k) ==
        [slots EXCEPT ![SlotFor(slots, table.entries[k].hash, {})] = k]
  IN  [table EXCEPT !.slots =
         FoldLeft(put, [k \in 0 .. 2 * size - 1 |-> 0], [k \in DOMAIN table.entries |-> k])]

(* find_or_insert(): the table with the token, and its entry. *)
FindOrInsert(table, token) ==
  LET same == {e \in DOMAIN table.entries :
                 table.entries[e].hash = HashOf(token) /\ table.entries[e].token = token}
      slot == SlotFor(table.slots, HashOf(token), same)
      new  == [token |-> token, hash |-> HashOf(token), n |-> 0, docs |-> 0, last |-> 0]
      more == [entries |-> Append(table.entries, new),
               slots   |-> [table.slots EXCEPT ![slot] = Len(table.entries) + 1]]
  IN  IF table.slots[slot] # 0 THEN [table |-> table, entry |-> table.slots[slot]]
      ELSE [table |-> IF 2 * Len(more.entries) > Cardinality(DOMAIN more.slots) THEN Grown(more) ELSE more,
            entry |-> Len(more.entries)]

(* add(): a string's first occurrence counts it. *)
Add(table, token, row_) ==
  LET found == FindOrInsert(table, Folded(token, call.ignoreCase))
  IN  [found.table EXCEPT !.entries[found.entry] =
         [@ EXCEPT !.n = @ + 1, !.docs = IF found.table.entries[found.entry].last # row_ THEN @ + 1 ELSE @,
                   !.last = row_]]

(* merge() *)
Merged(table, other) ==
  LET take(t, o) ==
        LET found == FindOrInsert(t, o.token)
        IN  [found.table EXCEPT !.entries[found.entry].n = @ + o.n, !.entries[found.entry].docs = @ + o.docs]
  IN  FoldLeft(take, table, other.entries)

StartCounting ==
  /\ Counting /\ bodies = {}
  /\ bodies' = {[from |-> 1, upto |-> Len(call.strings) + 1, next |-> 1, table |-> EmptyTable]}
  /\ UNCHANGED counts

(* A body counts the next of its rows.                                        *)
CountRow(b) ==
  /\ Counting /\ b.next < b.upto
  /\ LET view   == views[b.next]
         tokens == IF view = NA THEN <<>> ELSE Tokens(view.text, ~anyBytes)
         table  == FoldLeft(LAMBDA t, token : Add(t, token, b.next), b.table, tokens)
     IN  bodies' = (bodies \ {b}) \cup {[b EXCEPT !.next = @ + 1, !.table = table]}
  /\ UNCHANGED counts

(* Rows not begun are given to a new body. *)
SplitBody(b, at) ==
  /\ Counting /\ call.threads > 1
  /\ at \in b.next + 1 .. b.upto - 1
  /\ bodies' = (bodies \ {b}) \cup
       {[b EXCEPT !.upto = at], [from |-> at, upto |-> b.upto, next |-> at, table |-> EmptyTable]}
  /\ UNCHANGED counts

JoinBodies(b, c) ==
  /\ Counting
  /\ b.next = b.upto /\ c.next = c.upto /\ c.from = b.upto
  /\ b # c
  /\ bodies' = (bodies \ {b, c}) \cup
       {[b EXCEPT !.upto = c.upto, !.next = c.upto, !.table = Merged(@, c.table)]}
  /\ UNCHANGED counts

(* All joined: the most frequent first, ties by their bytes.                  *)
Rank(entries) ==
  LET before(a, b) == \/ entries[a].n > entries[b].n
                      \/ entries[a].n = entries[b].n
                         /\ BytesLess(entries[a].token, entries[b].token)
      order == SetToSortSeq(DOMAIN entries, before)
  IN  [k \in DOMAIN order |-> [token |-> entries[order[k]].token, n |-> entries[order[k]].n,
                               docs |-> entries[order[k]].docs]]

Answer(b) ==
  /\ Counting /\ bodies = {b} /\ b.next = b.upto
  /\ counts' = Rank(b.table.entries)
  /\ bodies' = bodies

(* Every token counted once for each time it occurs, and once for each string *)
(* it occurs in, in the order of the answer - whatever rows the bodies were   *)
(* given, however their tables filled, and in which order they were joined.   *)
CountsRight ==
  LET tokensOf(i) == Tokens(views[i].text, ~anyBytes)
      folded(i) == [k \in DOMAIN tokensOf(i) |-> Folded(tokensOf(i)[k], call.ignoreCase)]
      all == UNION {Range(folded(i)) : i \in Present}
      times(token, i) == Cardinality({k \in DOMAIN folded(i) : folded(i)[k] = token})
  IN  /\ Len(counts) = Cardinality(all)
      /\ {counts[k].token : k \in DOMAIN counts} = all
      /\ \A k \in DOMAIN counts :
           LET token == counts[k].token
           IN  /\ counts[k].n = MapThenSumSet(LAMBDA i : times(token, i), Present)
               /\ counts[k].docs = Cardinality({i \in Present : times(token, i) > 0})
               /\ k > 1 => \/ counts[k - 1].n > counts[k].n
                           \/ counts[k - 1].n = counts[k].n
                              /\ BytesLess(counts[k - 1].token, token)
-----------------------------------------------------------------------------
Foldings == {"ascii_fold", "fingerprint", "ngram_fingerprint"}   \* run_text_transform()
Rewrites == Foldings \cup
  {"replace_tokens", "pad", "shape", "url_encode", "url_decode", "html_escape", "html_unescape",
   "token_sort", "initials", "reverse", "upper", "lower", "title", "affix"}
Utf8Text == ~anyBytes

AsciiFoldRow(s, hasSub, sub) == IF Ascii(s) THEN s ELSE AsciiFold(s, hasSub, sub)

(* The body of each function. *)
Rewritten(s) ==
  LET a == call.args
  IN  CASE call.fn = "replace_tokens" -> ReplaceTokens(s, Utf8Text, a.from, a.to, a.ignoreCase)
        [] call.fn = "pad"            -> Pad(s, Utf8Text, a.width, a.side, a.pad)
        [] call.fn = "shape"          -> Shape(s, Utf8Text, a.collapse, a.ignoreCase)
        [] call.fn = "url_encode"     -> UrlEncode(s, a.reserved, a.repeated)
        [] call.fn = "url_decode"     -> UrlDecode(s, a.plus)
        [] call.fn = "html_escape"    -> HtmlEscape(s, a.attribute)
        [] call.fn = "html_unescape"  -> HtmlUnescape(s)
        [] call.fn = "token_sort"     -> TokenSort(s, Utf8Text, a.unique, a.decreasing)
        [] call.fn = "initials"       -> Initials(s, Utf8Text, a.sep)
        [] call.fn = "reverse"        -> Reversed(s, Utf8Text)
        [] call.fn \in {"upper", "lower"} ->
             IF AlreadyCased(s, call.fn = "upper") THEN s ELSE CaseString(s, call.fn = "upper")
        [] call.fn = "title"          -> TitleCase(s, a.particles, a.nameRules)
        [] call.fn = "ascii_fold"     -> AsciiFoldRow(s, a.hasSub, a.sub)
        [] call.fn = "fingerprint"    -> Fingerprint(s)
        [] call.fn = "ngram_fingerprint" -> NgramFingerprint(s, a.n)

Init ==
  /\ \E c \in Calls : Open(c)
  /\ bodies = {} /\ counts = <<>>
  /\ waiting = DOMAIN call.strings
  /\ records = [i \in DOMAIN call.strings |-> [kind |-> "na", text |-> <<>>]]
  /\ result = <<>>

(* TextWorker, and store_text_output(): a text that is the view's is dropped. *)
RewriteRow(i) ==
  /\ phase = "ready" /\ call.fn \in Rewrites \ {"affix"} /\ i \in waiting
  /\ waiting' = waiting \ {i}
  /\ IF views[i] = NA THEN UNCHANGED records
     ELSE LET new == Rewritten(views[i].text)
          IN  records' = [records EXCEPT ![i] =
                IF new = views[i].text THEN [kind |-> "original", text |-> <<>>]
                ELSE [kind |-> "changed", text |-> new]]
  /\ UNCHANGED <<viewVars, bodies, counts, result>>

(* AffixWorker: whole numbers, 0 standing for NA. *)
AffixRow(i) ==
  /\ phase = "ready" /\ call.fn = "affix" /\ i \in waiting
  /\ waiting' = waiting \ {i}
  /\ records' = [records EXCEPT ![i] =
       [kind |-> "index",
        text |-> IF views[i] = NA THEN 0
                 ELSE LongestAffix(views[i].text, call.args.affixes, call.args.suffix,
                                   call.args.ignoreCase)]]
  /\ UNCHANGED <<viewVars, bodies, counts, result>>

(* finalize_text_results(), without byte_mode: no ASCII string has a mark.    *)
Marked(i) ==
  CASE records[i].kind = "na" -> NA
    [] records[i].kind = "original" -> call.strings[i]
    [] OTHER -> [enc |-> IF Ascii(records[i].text) THEN "native" ELSE "utf8",
                 bytes |-> records[i].text]

(* fast_url_decode_impl(): what is no UTF-8 becomes native.                   *)
ValidUtf8(text) == \A k \in DOMAIN Chars(text, TRUE) : Chars(text, TRUE)[k].point # NoPoint
Remarked(s) ==
  IF s # NA /\ s.enc = "utf8" /\ ~ValidUtf8(s.bytes) THEN [s EXCEPT !.enc = "native"] ELSE s

Finalize ==
  /\ phase = "ready" /\ call.fn \in Rewrites /\ waiting = {} /\ result = <<>>
  /\ result' = CASE call.fn = "affix" -> [i \in Rows |-> records[i].text]
                 [] call.fn = "url_decode" -> [i \in Rows |-> Remarked(Marked(i))]
                 [] OTHER -> [i \in Rows |-> Marked(i)]
  /\ phase' = "done"
  /\ UNCHANGED <<call, row, views, total, flagVars, pointVars, problem, bodies, counts, waiting,
                 records>>

(* The token table's answer. *)
Reduce ==
  \/ StartCounting /\ UNCHANGED <<viewVars, waiting, records, result>>
  \/ /\ \/ \E b \in bodies : CountRow(b) \/ \E at \in Rows : SplitBody(b, at)
        \/ \E b, c \in bodies : JoinBodies(b, c)
     /\ UNCHANGED <<viewVars, waiting, records, result>>
  \/ /\ \E b \in bodies : Answer(b)
     /\ phase' = "done"
     /\ UNCHANGED <<call, row, views, total, flagVars, pointVars, problem, waiting, records, result>>

Views == ViewsNext /\ UNCHANGED toolVars
Rewrite == \E i \in waiting : RewriteRow(i) \/ AffixRow(i)
Next == Views \/ Rewrite \/ Finalize \/ Reduce
Spec == Init /\ [][Next]_vars
-----------------------------------------------------------------------------
(* Totals and order of the tokens, see CountsRight. *)
TokensCounted == phase = "done" /\ call.fn = "token_counts" => CountsRight

(* The tokens by characters, white space as Unicode has it.                   *)
TokensIn(cs) ==
  LET gap(k) == IF Utf8Text THEN WhiteSpacePoint(cs[k].point) ELSE cs[k].point \in (9 .. 13) \cup {32}
      starts == {k \in DOMAIN cs : ~gap(k) /\ (k > 1 => gap(k - 1))}
      end(k) == Max({q \in k .. Len(cs) : \A r \in k .. q : ~gap(r)})
      sorted == SetToSortSeq(starts, <)
  IN  [k \in DOMAIN sorted |-> SubSeq(cs, sorted[k], end(sorted[k]))]
TokensOf(s) == TokensIn(Chars(s, Utf8Text))
BytesOf(cs) == FlattenSeq([k \in DOMAIN cs |-> cs[k].bytes])
BytesOfAll(tokens) == [k \in DOMAIN tokens |-> BytesOf(tokens[k])]
TokenBytes(s) == BytesOfAll(TokensOf(s))
Occurs(sequence, x) == Cardinality({k \in DOMAIN sequence : sequence[k] = x})

TokensKept(old, new, o) ==
  LET a == call.args
  IN  CASE call.fn = "token_sort" ->
             /\ Range(new) = Range(old)
             /\ \A x \in Range(old) : Occurs(new, x) = IF a.unique THEN 1 ELSE Occurs(old, x)
             /\ \A k \in 2 .. Len(new) :
                  ~(IF a.decreasing THEN BytesLess(new[k - 1], new[k]) ELSE BytesLess(new[k], new[k - 1]))
        [] call.fn = "replace_tokens" ->
             LET same(k, x) == Folded(a.from[k], a.ignoreCase) = Folded(x, a.ignoreCase)
                 first(x) == {k \in DOMAIN a.from : same(k, x) /\ \A q \in 1 .. k - 1 : ~same(q, x)}
                 becomes(x) == IF first(x) = {} THEN <<x>> ELSE TokenBytes(a.to[Min(first(x))])
             IN  new = FlattenSeq([k \in DOMAIN old |-> becomes(old[k])])
        [] call.fn = "initials" ->
             o = Joined([k \in DOMAIN old |-> Chars(old[k], Utf8Text)[1].bytes], a.sep)

(* Marks stay behind the characters that they belong to.                      *)
MarkPairsIn(cs) ==
  LET marks == {k \in 2 .. Len(cs) : ShapeClass(cs[k].point) = 5}
  IN  {<<cs[k - 1], cs[k], Cardinality({q \in marks : cs[q - 1] = cs[k - 1] /\ cs[q] = cs[k]})>> :
         k \in marks}
MarkPairs(s) == MarkPairsIn(Chars(s, Utf8Text))

CapitalsBegin(o) ==   \* every word with a capital, and nothing else
  LET cs == Chars(o, TRUE)
      starts == {k \in DOMAIN cs : InWord(cs, k) /\ (k > 1 => ~InWord(cs, k - 1))}
  IN  /\ \A k \in starts : CharClass(cs[k].point) # 2
      /\ \A k \in DOMAIN cs \ starts : CharClass(cs[k].point) # 1

(* What a tool makes of a string s is, by an independent description, what    *)
(* its documentation promises: encoders are undone by their decoders, cases,  *)
(* shapes and titles are their own image, tokens are kept, replaced or sorted *)
(* as a whole, padding fills the width, marks stay with their letters, and an *)
(* affix is the longest; decoded bytes are marked as UTF-8 only if they are   *)
(* (text_tools.R, tokens.R, case_text.R). Folding, keys: see TextFunctions.   *)
Promised(s, o) ==
  LET a == call.args
      chars(x) == Len(Chars(x, Utf8Text))
  IN  CASE call.fn \in {"token_sort", "replace_tokens", "initials"} -> TokensKept(TokenBytes(s), TokenBytes(o), o)
        [] call.fn = "url_encode" ->
             /\ UrlEncode(o, a.reserved, FALSE) = o
             /\ (a.repeated \/ \A k \in DOMAIN s : ~EscapeAt(s, k)) => Ascii(o) /\ UrlDecode(o, FALSE) = s
        [] call.fn = "url_decode" -> Len(o) <= Len(s) /\ UrlDecode(UrlEncode(o, TRUE, TRUE), a.plus) = o
        [] call.fn = "html_escape" -> HtmlUnescape(o) = s /\ \A k \in DOMAIN o : o[k] \notin {60, 62}
        [] call.fn = "html_unescape" ->
             Len(o) <= Len(s) /\ HtmlUnescape(HtmlEscape(o, TRUE)) = o
        [] call.fn = "reverse" ->
             /\ chars(o) = chars(s)
             /\ (s # <<>> => ShapeClass(Chars(s, Utf8Text)[1].point) # 5) =>
                  MarkPairs(o) = MarkPairs(s) /\ Reversed(o, Utf8Text) = s
        [] call.fn = "shape" -> Shape(o, Utf8Text, a.collapse, a.ignoreCase) = o
        [] call.fn = "pad" ->
             /\ ValidUtf8(s) \/ anyBytes =>
                  Len(o) - Len(s) = Len(a.pad) * Max({0, a.width - chars(s)})
             /\ \E from \in 0 .. Len(o) - Len(s) : SubSeq(o, from + 1, from + Len(s)) = s
        [] call.fn \in {"upper", "lower"} ->
             CaseString(o, call.fn = "upper") = o /\ (AlreadyCased(s, call.fn = "upper") => o = s)
        [] call.fn = "title" ->
             TitleCase(o, a.particles, a.nameRules) = o /\ (~a.nameRules => CapitalsBegin(o))
        [] call.fn = "ascii_fold" -> FoldPromised(s, o, a.hasSub, a.sub)
        [] call.fn = "fingerprint" -> FingerprintPromised(s, o)
        [] call.fn = "ngram_fingerprint" -> NgramPromised(s, o, a.n, ValidUtf8(s))
        [] call.fn = "affix" ->
             LET fits(k) == LET n == Len(a.affixes[k])
                                at == IF a.suffix THEN Len(s) - n ELSE 0
                            IN  /\ n <= Len(s)
                                /\ Folded(a.affixes[k], a.ignoreCase)
                                     = Folded(SubSeq(s, at + 1, at + n), a.ignoreCase)
             IN  IF \A k \in DOMAIN a.affixes : ~fits(k) THEN o = 0
                 ELSE /\ o # 0 /\ fits(o)
                      /\ \A k \in DOMAIN a.affixes : fits(k) =>
                           \/ Len(a.affixes[k]) < Len(a.affixes[o])
                           \/ Len(a.affixes[k]) = Len(a.affixes[o]) /\ o <= k

TextsKept ==
  phase = "done" /\ call.fn \in Rewrites =>
    \A i \in Rows :
      IF call.strings[i] = NA THEN result[i] = IF call.fn = "affix" THEN 0 ELSE NA
      ELSE /\ Promised(views[i].text,
                       IF records[i].kind = "original" THEN views[i].text ELSE records[i].text)
           /\ call.fn = "url_decode" /\ result[i].enc = "utf8" => WellFormed(result[i].bytes)

(* Texts that are counted and texts that are rewritten.                       *)
TextExact == TokensCounted /\ TextsKept

(* "The result is UTF-8" (case_text.R, text_tools.R): whatever text is marked *)
(* so is so, also beside a string of "bytes".                                 *)
ResultIsUtf8 ==
  phase = "done" /\ call.fn \in {"upper", "lower", "title", "html_unescape"} =>
    \A i \in Present :
      call.strings[i].enc # "bytes" /\ result[i].enc = "utf8" => WellFormed(result[i].bytes)

(* Unicode's Final_Sigma: a capital sigma becomes the final form if, looking  *)
(* through what case conversion looks through, a character with case comes    *)
(* before it and none behind it.                                              *)
FinalSigmaRule ==
  phase = "done" /\ call.fn = "lower" =>
    \A i \in Present :
      LET cs == Chars(views[i].text, TRUE)
          kept(S) == {q \in S : ~IsCaseIgnorable(cs[q].point)}
          ends(k) == LET before == kept(1 .. k - 1)
                         behind == kept(k + 1 .. Len(cs))
                     IN  /\ before # {} /\ IsCased(cs[Max(before)].point)
                         /\ behind # {} => ~IsCased(cs[Min(behind)].point)
      IN  records[i].kind = "changed" =>
            records[i].text = FlattenSeq([k \in DOMAIN cs |->
              IF cs[k].point = 931 THEN Utf8Bytes(IF ends(k) THEN 962 ELSE 963)
              ELSE Cased(cs[k], "lower")])
=============================================================================
