------------------------------ MODULE MatchLoops ------------------------------
(***************************************************************************)
(* The loops that walk a string from match to match of one regular         *)
(* expression: fcount(), fextract_all(), fstrsplit() and fsplit_field(),   *)
(* fsub() and fgsub(). One worker handles the rows of one chunk.           *)
(*                                                                         *)
(* PCRE2 is external: a search from an offset answers with the first match *)
(* at or behind it, or with an error. A row says which places the pattern  *)
(* matches at and how long each match is; \K is left out, so a match       *)
(* begins where it was tried. Offsets count bytes from 0. Where PCRE2 also *)
(* writes the new text, into a buffer whose first size is the call's room, *)
(* a text that does not fit is asked for again in a larger one.            *)
(***************************************************************************)
EXTENDS Integers, SequencesExt

CONSTANTS
  Calls   \* [op, repl, field, canEmpty, extended, room, rows]

None  == -1
Start(row) == {p \in 0 .. row.size : row.hit[p] # None}

(* A row is [na, size, chars, hit]: chars holds the places where characters*)
(* begin, and the end; hit gives the length of the match at each place.    *)
(* fstrsplit() and fsplit_field() reject patterns that can match "".       *)
ASSUME MatchAssumption ==
  \A q \in Calls :
    /\ q.op \in {"count", "extract", "split", "field", "sub", "gsub"}
    /\ q.repl \in {"none", "literal", "expand"}
    /\ q.field \in Int \ {0}
    /\ q.op \in {"split", "field"} => ~ q.canEmpty
    /\ q.canEmpty \in BOOLEAN
    /\ q.room \in Nat
    /\ q.rows \in Seq(Range(q.rows))
    /\ \A i \in DOMAIN q.rows :
         LET row == q.rows[i]
         IN  /\ row.size \in Nat
             /\ row.chars \subseteq 0 .. row.size
             /\ row.hit \in [0 .. row.size -> None .. row.size]
             /\ {0, row.size} \subseteq row.chars
             /\ \A p \in Start(row) : {p, p + row.hit[p]} \subseteq row.chars
             /\ (\E p \in Start(row) : row.hit[p] = 0) => q.canEmpty

VARIABLES
  call,
  pc,      \* "row", "search", "match", "retry", "store", "done"
  i,       \* the row, from 1
  offset,  \* where the next search begins
  got,     \* what the last search found: [kind, start, end]
  barred,  \* gsub: an empty match here would not count
  copied,  \* split: where the field begins; gsub: copy_offset
  spans,   \* the chunk's spans, all rows together: [offset, length]
  output,  \* gsub: the text built: bytes by their place, from 1, and Mark
  slice,   \* gsub and sub: provenance [contiguous, has, offset, length]
  room,    \* sub: what PCRE2 reports that its text needs
  first,   \* by row: where its spans begin
  number,  \* of the row's matches so far
  errors,  \* by row: whether its matching failed
  answer   \* by row: what it is given

row_vars == <<offset, got, barred, copied, output, slice, room>>
vars == <<call, pc, i, row_vars, spans, first, number, errors, answer>>

row  == call.rows[i]
op   == call.op
Mark == 0                                  \* the replacement
Nothing == [kind |-> "none", start |-> None, end |-> None]
Failed  == [Nothing EXCEPT !.kind = "error"]
Original == [kind |-> "original"]
Missing  == [kind |-> "na"]
Slice(from, length) ==                     \* store_slice()
  IF from = 0 /\ length = row.size THEN Original
  ELSE [kind |-> "slice", offset |-> from, length |-> length]
Bytes(from, to) == [k \in 1 .. to - from |-> from + k]

FaultyStepPast(from) == from + 1           \* one byte, whatever the encoding

(* step_past_empty(): one character on.                                    *)
StepPast(from) ==
  CHOOSE p \in 1 .. row.size + 1 :
    /\ p > from
    /\ p \in row.chars \/ p = row.size + 1
    /\ \A q \in row.chars : q > from => p <= q

NoSlice == [contiguous |-> TRUE, has |-> FALSE, offset |-> 0, length |-> 0]
SliceAppend(s, from, to) ==
  IF from = to \/ ~ s.contiguous THEN s
  ELSE IF ~ s.has THEN [contiguous |-> TRUE, has |-> TRUE, offset |-> from, length |-> to - from]
  ELSE IF s.offset + s.length = from THEN [s EXCEPT !.length = @ + to - from]
  ELSE [s EXCEPT !.contiguous = FALSE]

Init ==
  /\ call \in Calls
  /\ pc = "row"
  /\ i = 1
  /\ offset = 0
  /\ got = Nothing
  /\ barred = None
  /\ copied = 0
  /\ spans = <<>>
  /\ output = <<>>
  /\ slice = NoSlice
  /\ room = 0
  /\ first = [k \in DOMAIN call.rows |-> 0]
  /\ number = 0
  /\ errors = [k \in DOMAIN call.rows |-> FALSE]
  /\ answer = [k \in DOMAIN call.rows |-> Original]
-----------------------------------------------------------------------------
(* A row that is NA is passed over; TRE's gregexpr() finds nothing in "".  *)
Skipped == row.na \/ (op \in {"count", "extract"} /\ call.extended /\ row.size = 0)

BeginRow ==
  /\ pc = "row"
  /\ i <= Len(call.rows)
  /\ first' = [first EXCEPT ![i] = Len(spans)]
  /\ IF Skipped
       THEN /\ answer' = [answer EXCEPT ![i] =
                            IF row.na THEN Missing ELSE [kind |-> "matches", count |-> 0]]
            /\ i' = i + 1
            /\ UNCHANGED pc
       ELSE /\ pc' = "search"
            /\ UNCHANGED <<i, answer>>
  /\ offset' = 0
  /\ got' = Nothing
  /\ barred' = None
  /\ copied' = 0
  /\ output' = <<>>
  /\ slice' = NoSlice
  /\ room' = 0
  /\ number' = 0
  /\ UNCHANGED <<call, spans, errors>>

(* pcre2_match() *)
Search ==
  /\ pc = "search"
  /\ LET ahead == {p \in Start(row) : p >= offset}
         p     == CHOOSE p \in ahead : \A q \in ahead : p <= q
     IN  \/ got' = IF ahead = {} THEN Nothing
                   ELSE [kind |-> "match", start |-> p, end |-> p + row.hit[p]]
         \/ got' = Failed
  /\ pc' = "match"
  /\ UNCHANGED <<call, i, offset, barred, copied, spans, output, slice, room, first, number, errors, answer>>

(* The row is finished with an answer. *)
Finish(value) ==
  /\ answer' = [answer EXCEPT ![i] = value]
  /\ i' = i + 1
  /\ pc' = "row"

(* Its matching failed. Counts, extractions and substitutions then answer   *)
(* as for a row without a match; a split has no fields and a field is NA.   *)
Fail(value) ==
  /\ errors' = [errors EXCEPT ![i] = TRUE]
  /\ Finish(value)

Empty == got.start = got.end
FaultyOnward == got.end                    \* an empty match is not stepped past
Onward == IF Empty THEN StepPast(got.end) ELSE got.end
-----------------------------------------------------------------------------
(* gregexpr() does not start a search at the end of the string.            *)
AtEnd == got.end = row.size \/ Onward >= row.size

(* count_pcre2_matches() and RegexExtractAllWorker: every match.           *)
CountMatch ==
  /\ pc = "match"
  /\ op \in {"count", "extract"}
  /\ got.kind = "match"
  /\ number' = number + 1
  /\ spans' = IF op = "count" THEN spans
              ELSE Append(spans, [offset |-> got.start, length |-> got.end - got.start])
  /\ IF AtEnd
       THEN Finish([kind |-> "matches", count |-> number']) /\ UNCHANGED offset
       ELSE offset' = Onward /\ pc' = "search" /\ UNCHANGED <<i, answer>>
  /\ UNCHANGED <<call, got, barred, copied, output, slice, room, first, errors>>

CountEnd ==
  /\ pc = "match"
  /\ op \in {"count", "extract"}
  /\ got.kind = "none"
  /\ Finish([kind |-> "matches", count |-> number])
  /\ UNCHANGED <<call, row_vars, spans, first, number, errors>>

(* split_separators(): the fields between the matches, the last one only if*)
(* it is not empty.                                                        *)
SplitMatch ==
  /\ pc = "match"
  /\ op = "split"
  /\ got.kind = "match"
  /\ spans' = Append(spans, [offset |-> copied, length |-> got.start - copied])
  /\ copied' = got.end
  /\ offset' = got.end
  /\ pc' = "search"
  /\ UNCHANGED <<call, i, got, barred, output, slice, room, first, number, errors, answer>>

SplitEnd ==
  /\ pc = "match"
  /\ op = "split"
  /\ got.kind = "none"
  /\ spans' = IF copied < row.size
                THEN Append(spans, [offset |-> copied, length |-> row.size - copied])
                ELSE spans
  /\ Finish([kind |-> "matches", count |-> Len(spans') - first[i]])
  /\ UNCHANGED <<call, row_vars, first, number, errors>>

(* A search that fails takes back the row's matches, not those of the rows *)
(* before it in the chunk's array. A split is left without a field, where  *)
(* the row whose pattern does not match has one, the whole string.         *)
ForgetRow ==
  /\ pc = "match"
  /\ op \in {"count", "extract", "split"}
  /\ got = Failed
  /\ spans' = SubSeq(spans, 1, first[i])
  /\ Fail([kind |-> "matches", count |-> 0])
  /\ UNCHANGED <<call, row_vars, first, number>>
-----------------------------------------------------------------------------
(* SplitFieldWorker: the separators, as many as the field asked for needs, *)
(* in an array that each row clears.                                       *)
Needed == call.field > 0 /\ Len(spans) + 1 >= call.field

FieldMatch ==
  /\ pc = "match"
  /\ op = "field"
  /\ got.kind = "match"
  /\ spans' = Append(spans, [offset |-> got.start, length |-> got.end - got.start])
  /\ offset' = got.end
  /\ pc' = IF Needed THEN "store" ELSE "search"
  /\ UNCHANGED <<call, i, got, barred, copied, output, slice, room, first, number, errors, answer>>

FieldEnd ==
  /\ pc = "match"
  /\ op = "field"
  /\ got.kind = "none"
  /\ pc' = "store"
  /\ UNCHANGED <<call, i, row_vars, spans, first, number, errors, answer>>

FieldStore ==
  /\ pc = "store"
  /\ op = "field"
  /\ LET pieces == Len(spans) + 1
         index  == IF call.field > 0 THEN call.field ELSE pieces + call.field + 1
         from   == IF index = 1 THEN 0 ELSE spans[index - 1].offset + spans[index - 1].length
         to     == IF index < pieces THEN spans[index].offset ELSE row.size
     IN  Finish(IF index \in 1 .. pieces THEN Slice(from, to - from) ELSE Missing)
  /\ spans' = <<>>
  /\ UNCHANGED <<call, row_vars, first, number, errors>>

(* NA, whichever field is asked for and however many were already found. *)
FieldFailed ==
  /\ pc = "match"
  /\ op = "field"
  /\ got = Failed
  /\ spans' = <<>>
  /\ Fail(Missing)
  /\ UNCHANGED <<call, row_vars, first, number>>
-----------------------------------------------------------------------------
(* What is appended for one match. Without a replacement the source slices *)
(* are followed too.                                                       *)
Replacement == IF call.repl = "none" THEN <<>> ELSE <<Mark>>

(* Group references are left to pcre2_substitute(), except in gsub() by a  *)
(* pattern that may match "".                                              *)
BuiltIn == call.repl = "expand" /\ (op = "gsub" => ~ call.canEmpty)

(* base_global_substitute(): an empty match where a consuming one ended is *)
(* not replaced; the search goes on one character behind.                  *)
Suppressed == barred # None /\ got.start = barred /\ got.end = barred

SubMatch ==
  /\ pc = "match"
  /\ op = "gsub" /\ ~ BuiltIn
  /\ got.kind = "match"
  /\ ~ Suppressed
  /\ output' = output \o Bytes(copied, got.start) \o Replacement
  /\ slice' = SliceAppend(slice, copied, got.start)
  /\ copied' = got.end
  /\ IF got.end = row.size \/ Onward > row.size
       THEN /\ pc' = "store"
            /\ UNCHANGED <<offset, barred>>
       ELSE /\ pc' = "search"
            /\ offset' = Onward
            /\ barred' = IF call.canEmpty /\ ~ Empty THEN got.end ELSE None
  /\ UNCHANGED <<call, i, got, room, spans, first, number, errors, answer>>

SubSuppressed ==
  /\ pc = "match"
  /\ op = "gsub"
  /\ got.kind = "match"
  /\ Suppressed
  /\ offset' = StepPast(barred)
  /\ barred' = None
  /\ pc' = "search"
  /\ UNCHANGED <<call, i, got, copied, spans, output, slice, room, first, number, errors, answer>>

SubEnd ==
  /\ pc = "match"
  /\ op \in {"sub", "gsub"}
  /\ got.kind = "none"
  /\ IF offset = 0
       THEN Finish(Original)
       ELSE pc' = "store" /\ UNCHANGED <<i, answer>>
  /\ UNCHANGED <<call, row_vars, spans, first, number, errors>>

(* A search fails, or the expansion of a replacement with group references.*)
SubFailed ==
  /\ pc = "match"
  /\ op \in {"sub", "gsub"}
  /\ \/ got = Failed
     \/ op = "gsub" /\ ~ BuiltIn /\ got.kind = "match" /\ ~ Suppressed /\ call.repl = "expand"
  /\ Fail(Original)
  /\ UNCHANGED <<call, row_vars, spans, first, number>>

(* fsub(): the first match only. *)
SubFirst ==
  /\ pc = "match"
  /\ op = "sub" /\ ~ BuiltIn
  /\ got.kind = "match"
  /\ output' = Bytes(0, got.start) \o Replacement
  /\ slice' = SliceAppend(slice, 0, got.start)
  /\ copied' = got.end
  /\ pc' = "store"
  /\ UNCHANGED <<call, i, offset, got, barred, room, spans, first, number, errors, answer>>

Least(S) == CHOOSE p \in S : \A q \in S : p <= q

(* Of some places those that are taken as matches, one after the other: no *)
(* place that an earlier one of them bars.                                 *)
Taken(places, Bars) ==
  CHOOSE T \in SUBSET places : \A p \in places : p \in T <=> \A q \in T : <<q, p>> \notin Bars

Earlier(r) == {e \in Start(r) \X Start(r) : e[1] < e[2]}
Inside(r)  == {e \in Earlier(r) : e[1] + r.hit[e[1]] > e[2]}

InOrder(S) ==
  LET before == {e \in S \X S : e[1] < e[2]}
  IN  [k \in 1 .. Cardinality(S) |->
        CHOOSE p \in S : Cardinality({q \in S : <<q, p>> \in before}) = k - 1]

(* The text with the matches at some places replaced: what is before each  *)
(* of them and the replacement, and what is behind the last one.           *)
EndOf(r, at, k) == IF k = 0 THEN 0 ELSE at[k] + r.hit[at[k]]
Substituted(r, places, by) ==
  LET at == InOrder(places)
      upto[k \in 0 .. Cardinality(places)] ==
        IF k = 0 THEN <<>> ELSE upto[k - 1] \o Bytes(EndOf(r, at, k - 1), at[k]) \o by
  IN  upto[Cardinality(places)] \o Bytes(EndOf(r, at, Cardinality(places)), r.size)

(* pcre2_substitute(): the matches from one on, in gsub() each of them.    *)
Substitute(from) ==
  LET chain == IF op = "sub" THEN {from}
               ELSE Taken({p \in Start(row) : p >= from}, Inside(row))
  IN  [text |-> Substituted(row, chain, Replacement),
       last |-> CHOOSE p \in chain : \A q \in chain : q <= p]

Stored(text) == IF text = Bytes(0, row.size) THEN Original ELSE [kind |-> "changed", text |-> text]

(* The first call goes on from the match found. If the text with the byte  *)
(* that ends it does not fit, the whole length is reported, and the match  *)
(* data stand at the last match.                                           *)
SubBuiltIn ==
  /\ pc = "match"
  /\ op \in {"sub", "gsub"} /\ BuiltIn
  /\ got.kind = "match"
  /\ LET done == Substitute(got.start)
     IN  \/ Fail(Original) /\ UNCHANGED <<got, room>>
         \/ /\ Len(done.text) + 1 <= call.room
            /\ Finish(Stored(done.text))
            /\ UNCHANGED <<got, room, errors>>
         \/ /\ Len(done.text) + 1 > call.room
            /\ room' = Len(done.text) + 1
            /\ got' = [got EXCEPT !.start = done.last, !.end = done.last + row.hit[done.last]]
            /\ pc' = "retry"
            /\ UNCHANGED <<i, errors, answer>>
  /\ UNCHANGED <<call, offset, barred, copied, output, slice, spans, first, number>>

FaultySubRetry ==   \* goes on from the match data, as the first call did
  /\ pc = "retry"
  /\ LET done == Substitute(got.start)
     IN  \/ Fail(Original)
         \/ /\ Len(done.text) + 1 <= room + 1
            /\ Finish(Stored(done.text))
            /\ UNCHANGED errors
  /\ UNCHANGED <<call, row_vars, spans, first, number>>

(* The second call searches from the start again.                          *)
SubRetry ==
  /\ pc = "retry"
  /\ LET done == Substitute(Least(Start(row)))
     IN  \/ Fail(Original)
         \/ /\ Len(done.text) + 1 <= room + 1
            /\ Finish(Stored(done.text))
            /\ UNCHANGED errors
  /\ UNCHANGED <<call, row_vars, spans, first, number>>

(* The rest of the string, and store_provenanced_text().                   *)
SubStore ==
  /\ pc = "store"
  /\ op \in {"sub", "gsub"}
  /\ LET text  == output \o Bytes(copied, row.size)
         whole == SliceAppend(slice, copied, row.size)
     IN  /\ output' = text
         /\ slice' = whole
         /\ Finish(IF text = Bytes(0, row.size) THEN Original
                   ELSE IF call.repl = "none" /\ whole.contiguous /\ whole.length = Len(text)
                     THEN [kind |-> "slice", offset |-> whole.offset, length |-> whole.length]
                   ELSE [kind |-> "changed", text |-> text])
  /\ UNCHANGED <<call, offset, got, barred, copied, room, spans, first, number, errors>>

EndChunk ==
  /\ pc = "row"
  /\ i > Len(call.rows)
  /\ pc' = "done"
  /\ UNCHANGED <<call, i, row_vars, spans, first, number, errors, answer>>

Next ==
  \/ BeginRow \/ Search \/ EndChunk
  \/ CountMatch \/ CountEnd \/ SplitMatch \/ SplitEnd \/ ForgetRow
  \/ FieldMatch \/ FieldEnd \/ FieldStore \/ FieldFailed
  \/ SubMatch \/ SubSuppressed \/ SubEnd \/ SubFailed \/ SubFirst \/ SubStore
  \/ SubBuiltIn \/ SubRetry

Spec == Init /\ [][Next]_vars

(* The rows of a chunk are one thread's loop. *)
FairSpec == Spec /\ WF_vars(Next)
-----------------------------------------------------------------------------
(* pcre2_match() is given offsets within the string, and on a character:   *)
(* any other is a hard error that stops the call.                          *)
SearchesLegal == pc = "search" => offset \in row.chars

(* Each search of a row begins behind the one before it, so that a row of  *)
(* n bytes is searched at most n + 1 times.                                *)
SearchesAdvance == [][pc = "match" /\ pc' = "search" => offset' > offset]_vars

(* The reference: the places of r that are taken as matches. One inside an *)
(* earlier match is not, and each kind of loop has a rule of its own:      *)
(* gregexpr() does not take the end where it would begin a search there,   *)
(* and gsub() no empty match where one that is not empty ends.             *)
After(r, q) ==   \* where gregexpr() goes on after the match at q
  IF r.hit[q] > 0 THEN q + r.hit[q]
  ELSE CHOOSE p \in r.chars : p > q /\ \A s \in r.chars : s > q => p <= s

Counted(r) ==
  Taken(Start(r), Inside(r) \cup {e \in Earlier(r) : e[2] = r.size /\ After(r, e[1]) >= r.size})
Replaced(r) ==
  Taken(Start(r), Inside(r) \cup
    {e \in Earlier(r) : r.hit[e[1]] > 0 /\ r.hit[e[2]] = 0 /\ e[1] + r.hit[e[1]] = e[2]})

SpansOf(k) == SubSeq(spans, first[k] + 1, first[k] + answer[k].count)
MatchSpans(r) ==
  LET at == InOrder(Counted(r))
  IN  [k \in DOMAIN at |-> [offset |-> at[k], length |-> r.hit[at[k]]]]
Fields(r) ==   \* between the separators, and one more behind the last
  LET n  == Cardinality(Counted(r))
      at == InOrder(Counted(r))
      to(k) == IF k > n THEN r.size ELSE at[k]
  IN  [k \in 1 .. n + 1 |-> [offset |-> EndOf(r, at, k - 1),
                              length |-> to(k) - EndOf(r, at, k - 1)]]
Dropped(fields) == IF Last(fields).length = 0 THEN Front(fields) ELSE fields

TextOf(r, value) ==
  CASE value.kind = "original" -> Bytes(0, r.size)
    [] value.kind = "slice"    -> Bytes(value.offset, value.offset + value.length)
    [] value.kind = "changed"  -> value.text

(* The answer of row k is the one that base R's rules give for the row r. *)
Answered(k, r) ==
  LET a      == answer[k]
      silent == call.extended /\ r.size = 0
  IN  CASE r.na -> a = Missing
        [] ~ r.na /\ op = "count" ->
             a.count = IF silent THEN 0 ELSE Cardinality(Counted(r))
        [] ~ r.na /\ op = "extract" -> SpansOf(k) = IF silent THEN <<>> ELSE MatchSpans(r)
        [] ~ r.na /\ op = "split" -> SpansOf(k) = Dropped(Fields(r))
        [] ~ r.na /\ op = "field" ->
             LET n == Len(Fields(r))
                 f == IF call.field > 0 THEN call.field ELSE n + call.field + 1
             IN  IF f \notin 1 .. n THEN a = Missing
                 ELSE /\ a # Missing
                      /\ TextOf(r, a) = Bytes(Fields(r)[f].offset,
                                              Fields(r)[f].offset + Fields(r)[f].length)
        [] ~ r.na /\ op \in {"sub", "gsub"} ->
             IF Start(r) = {} THEN a = Original
             ELSE TextOf(r, a) = Substituted(r, IF op = "sub" THEN {Least(Start(r))}
                                                ELSE Replaced(r), Replacement)

(* The row r when its pattern matches nowhere in it. *)
Unmatched(r) ==
  [na |-> r.na, size |-> r.size, chars |-> r.chars, hit |-> [p \in 0 .. r.size |-> None]]

(* Or there is no answer at all. *)
Withheld(k) ==
  /\ ~ call.rows[k].na
  /\ \/ op = "split" /\ SpansOf(k) = <<>>
     \/ op = "field" /\ answer[k] = Missing

RowExact(k) ==
  IF errors[k] THEN Answered(k, Unmatched(call.rows[k])) \/ Withheld(k)
  ELSE Answered(k, call.rows[k])

(* When the chunk is done every row has the answer base R's rules for      *)
(* empty and adjacent matches give, whole and its own whatever failed in   *)
(* the rows before it. A row whose matching failed shows no part of what   *)
(* was found in it: it is answered as a row that does not match, or, split *)
(* into fields, not at all (which of the two, see FailedUnmatched).        *)
AnswersExact == pc = "done" => \A k \in DOMAIN answer : RowExact(k)

(* regex_engine.h:216-217, 225 and the warnings at 252 and 256: a row that *)
(* a soft error stops (a limit of PCRE2, a hard one ends the call) "counts *)
(* as not matching" and keeps its "unmatched result".                      *)
FailedUnmatched ==
  pc = "done" => \A k \in DOMAIN answer : errors[k] => Answered(k, Unmatched(call.rows[k]))
=============================================================================
