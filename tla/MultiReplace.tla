------------------------------ MODULE MultiReplace ------------------------------
(***************************************************************************)
(* gsub_all(fixed = TRUE) on one string: several literal needles, replaced *)
(* one after another over the running text (sequential), or all in one     *)
(* leftmost-first scan of the string.                                      *)
(*                                                                         *)
(* Beside the new text the code keeps where its bytes came from, so that a *)
(* text which is one unbroken slice of the input is returned as a slice of *)
(* the input's own memory and never copied. In sequential mode every       *)
(* replacement describes its output by pieces of its input, and            *)
(* compose_source_ranges() chains that description to the string given.    *)
(* The places of a needle are found by PreparedFixedSearch                 *)
(* (fixed_search.h), whose length chooses how; they count from 0. Bytes    *)
(* are small numbers here: the letters 1, 2 and 3 are lower case, and 11,  *)
(* 12 and 13 the same in upper case.                                       *)
(*                                                                         *)
(* src/src/fgrepl.cpp:189-345, 1056-1138, 1211-1304.                       *)
(***************************************************************************)
EXTENDS Integers, Sequences

CONSTANTS
  Calls     \* the calls considered: [hay, needles, repls, sequential, ignoreCase]

None == -1
NA == <<None>>   \* no text: bytes are natural numbers

(* What the code is called with; gsub_all() rejects zero-length patterns.  *)
CallsAdmitted ==
  \A q \in Calls :
    /\ q.sequential \in BOOLEAN /\ q.ignoreCase \in BOOLEAN
    /\ Len(q.repls) = Len(q.needles)
    /\ \A j \in DOMAIN q.needles : Len(q.needles[j]) > 0

VARIABLES
  call,
  pc,       \* "start", "needle", "replace", "compose", "scan", "store", "done"
  j,        \* the needle being applied, from 1
  current,  \* the running text
  scratch,  \* the text being built
  pos,      \* how far the text being replaced has been copied
  found,    \* where the next match starts, None for nowhere
  pieces,   \* transform_pieces: the text being built, by ranges of the current one
  map,      \* source_map: the current text, by ranges of the string given
  piece,    \* compose: the piece being mapped, from 1
  position, \* compose: where it goes on, None before it is begun
  at,       \* compose: map_index, from 1
  before,   \* compose: map_begin
  output,   \* compose: the map being built
  next,     \* scan: each needle's cached occurrence
  slice,    \* provenance: [contiguous, has, offset, length]
  result    \* TextResult: [kind, ...]

loop_vars    == <<j, current, scratch, pos, found, pieces, map>>
compose_vars == <<piece, position, at, before, output>>
vars == <<call, pc, loop_vars, compose_vars, next, slice, result>>

hay     == call.hay
needles == call.needles
repls   == call.repls

-----------------------------------------------------------------------------
(* The search for one needle.                                              *)
Nowhere == -1

UpperCase == 11 .. 13
Fold(byte, ignoreCase) == IF ignoreCase /\ byte \in UpperCase THEN byte - 10 ELSE byte

(* The constructor folds the needle once. *)
Needle(needle, ignoreCase) == [q \in DOMAIN needle |-> Fold(needle[q], ignoreCase)]

(* skip_: from a byte under the needle's end, how far to the next place.      *)
Skip(folded, byte) ==
  LET places == {q \in 1 .. Len(folded) - 1 : folded[q] = byte}
  IN  IF places = {} THEN Len(folded)
      ELSE Len(folded) - CHOOSE q \in places : \A r \in places : r <= q

Matches(s, folded, p, ignoreCase, from, to) ==
  \A q \in from .. to : Fold(s[p + q], ignoreCase) = folded[q]

(* find_one(), find_short(): every place in turn. *)
FindPlain(s, folded, start, ignoreCase) ==
  LET m == Len(folded)
      from[p \in start .. Len(s) - m + 1] ==
        IF p > Len(s) - m THEN Nowhere
        ELSE IF Matches(s, folded, p, ignoreCase, 1, m) THEN p
        ELSE from[p + 1]
  IN  from[start]

(* Variant: a shift that just fits is not made. *)
FindHorspoolShort(s, folded, start, ignoreCase) ==
  LET m == Len(folded)
      last == Len(s) - m
      from[p \in start .. last] ==
        LET tail  == Fold(s[p + m], ignoreCase)
            shift == Skip(folded, tail)
        IN  IF tail = folded[m] /\ Matches(s, folded, p, ignoreCase, 1, m - 1) THEN p
            ELSE IF shift >= last - p THEN Nowhere
            ELSE from[p + shift]
  IN  from[start]

(* find_bmh() *)
FindHorspool(s, folded, start, ignoreCase) ==
  LET m == Len(folded)
      last == Len(s) - m
      from[p \in start .. last] ==
        LET tail  == Fold(s[p + m], ignoreCase)
            shift == Skip(folded, tail)
        IN  IF tail = folded[m] /\ Matches(s, folded, p, ignoreCase, 1, m - 1) THEN p
            ELSE IF shift > last - p THEN Nowhere
            ELSE from[p + shift]
  IN  from[start]

(* find() *)
FindFrom(s, needle, ignoreCase, start) ==
  LET folded == Needle(needle, ignoreCase)
      m      == Len(needle)
  IN  CASE start > Len(s)     -> Nowhere
        [] m = 0 /\ start <= Len(s) -> start
        [] m > 0 /\ start <= Len(s) /\ m > Len(s) - start -> Nowhere
        [] m \in 1 .. 3 /\ m <= Len(s) - start -> FindPlain(s, folded, start, ignoreCase)
        [] OTHER              -> FindHorspool(s, folded, start, ignoreCase)

(* The reference: the needle is there.                                       *)
OccursAt(s, needle, ignoreCase, p) ==
  /\ p + Len(needle) <= Len(s)
  /\ \A q \in DOMAIN needle : Fold(s[p + q], ignoreCase) = Fold(needle[q], ignoreCase)

(* PreparedFixedSearch, one prepared for each needle.                      *)
Find(s, q, from) == FindFrom(s, needles[q], call.ignoreCase, from)

Part(s, from, to) == SubSeq(s, from + 1, to)
-----------------------------------------------------------------------------
(* append_source_range(): an empty range adds nothing, one that goes on    *)
(* where the last one ends is joined to it.                                *)
AppendRange(ranges, source, offset, length) ==
  LET last == ranges[Len(ranges)]
      joins == /\ ranges # <<>>
               /\ last.source = source
               /\ source => last.offset + last.length = offset
  IN  IF length = 0 THEN ranges
      ELSE IF joins THEN [ranges EXCEPT ![Len(ranges)].length = @ + length]
      ELSE Append(ranges, [source |-> source, offset |-> offset, length |-> length])

(* SourceSliceProvenance::append() and constructed(), without the pieces.  *)
NoSlice == [contiguous |-> TRUE, has |-> FALSE, offset |-> 0, length |-> 0]
SliceAppend(s, from, to) ==
  IF from = to \/ ~ s.contiguous THEN s
  ELSE IF ~ s.has THEN [s EXCEPT !.has = TRUE, !.offset = from, !.length = to - from]
  ELSE IF s.offset + s.length = from THEN [s EXCEPT !.length = @ + to - from]
  ELSE [s EXCEPT !.contiguous = FALSE]
SliceConstructed(s, length) == IF length = 0 THEN s ELSE [s EXCEPT !.contiguous = FALSE]

Init ==
  /\ call \in Calls
  /\ pc = "start"
  /\ j = 1
  /\ current = <<>> /\ scratch = <<>>
  /\ pos = 0
  /\ found = None
  /\ pieces = <<>> /\ map = <<>>
  /\ piece = 1
  /\ position = None
  /\ at = 1
  /\ before = 0
  /\ output = <<>>
  /\ next = <<>>
  /\ slice = NoSlice
  /\ result = [kind |-> "original"]
-----------------------------------------------------------------------------
(* Sequential mode leaves the string alone unless some needle occurs in it *)
(* as given: only then can a chain of replacements start.                  *)
StartSequential ==
  /\ pc = "start"
  /\ call.sequential
  /\ IF \A q \in DOMAIN needles : Find(hay, q, 0) = None
       THEN /\ pc' = "done"
            /\ UNCHANGED <<current, map>>
       ELSE /\ pc' = "needle"
            /\ current' = hay
            /\ map' = AppendRange(<<>>, TRUE, 0, Len(hay))
  /\ UNCHANGED <<call, j, scratch, pos, found, pieces, compose_vars, next, slice, result>>

(* The next needle: not there, there but replaced by NA, or to be replaced.*)
PassNeedle ==
  /\ pc = "needle"
  /\ j <= Len(needles)
  /\ Find(current, j, 0) = None
  /\ j' = j + 1
  /\ UNCHANGED <<call, pc, current, scratch, pos, found, pieces, map, compose_vars, next,
                 slice, result>>

MissingReplacement ==
  /\ pc = "needle"
  /\ j <= Len(needles)
  /\ repls[j] = NA
  /\ Find(current, j, 0) # None
  /\ result' = [kind |-> "na"]
  /\ pc' = "done"
  /\ UNCHANGED <<call, loop_vars, compose_vars, next, slice>>

(* fixed_replace_str() *)
StartNeedle ==
  /\ pc = "needle"
  /\ j <= Len(needles)
  /\ repls[j] # NA
  /\ found' = Find(current, j, 0)
  /\ found' # None
  /\ pieces' = <<>>
  /\ scratch' = <<>>
  /\ pos' = 0
  /\ pc' = "replace"
  /\ UNCHANGED <<call, j, current, map, compose_vars, next, slice, result>>

ReplaceMatch ==
  /\ pc = "replace"
  /\ found # None
  /\ pieces' = AppendRange(AppendRange(pieces, TRUE, pos, found - pos),
                           FALSE, 0, Len(repls[j]))
  /\ scratch' = scratch \o Part(current, pos, found) \o repls[j]
  /\ pos' = found + Len(needles[j])
  /\ found' = Find(current, j, pos')
  /\ UNCHANGED <<call, pc, j, current, map, compose_vars, next, slice, result>>

EndReplace ==
  /\ pc = "replace"
  /\ found = None
  /\ pieces' = AppendRange(pieces, TRUE, pos, Len(current) - pos)
  /\ current' = scratch \o Part(current, pos, Len(current))
  /\ scratch' = current
  /\ pc' = "compose"
  /\ UNCHANGED <<call, j, pos, found, map, compose_vars, next, slice, result>>
-----------------------------------------------------------------------------
(* compose_source_ranges(): each piece of the new text is looked up in the *)
(* map of the old one. The place in the map only moves forward, over all   *)
(* the pieces.                                                             *)
Composing == pc = "compose" /\ piece <= Len(pieces)
PieceEnd == pieces[piece].offset + pieces[piece].length

ComposeConstructed ==
  /\ Composing
  /\ ~ pieces[piece].source
  /\ output' = AppendRange(output, FALSE, 0, pieces[piece].length)
  /\ piece' = piece + 1
  /\ UNCHANGED <<call, pc, loop_vars, position, at, before, next, slice, result>>

(* The entries of the map that end before the piece are left behind.       *)
ComposeSeek ==
  /\ Composing
  /\ pieces[piece].source
  /\ position = None
  /\ IF at <= Len(map) /\ before + map[at].length <= pieces[piece].offset
       THEN /\ before' = before + map[at].length
            /\ at' = at + 1
            /\ UNCHANGED position
       ELSE /\ position' = pieces[piece].offset
            /\ UNCHANGED <<at, before>>
  /\ UNCHANGED <<call, pc, loop_vars, piece, output, next, slice, result>>

FaultyComposeTake ==   \* stays at an entry of the map that is used up
  /\ Composing
  /\ position # None
  /\ position < PieceEnd
  /\ at <= Len(map)
  /\ LET local == position - before
         left  == PieceEnd - position
         take  == IF left < map[at].length - local THEN left ELSE map[at].length - local
     IN  /\ output' = AppendRange(output, map[at].source,
                                  IF map[at].source THEN map[at].offset + local ELSE 0, take)
         /\ position' = position + take
  /\ UNCHANGED <<call, pc, loop_vars, piece, at, before, next, slice, result>>

ComposeTake ==
  /\ Composing
  /\ position # None
  /\ position < PieceEnd
  /\ at <= Len(map)
  /\ LET local == position - before
         left  == PieceEnd - position
         take  == IF left < map[at].length - local THEN left ELSE map[at].length - local
     IN  /\ output' = AppendRange(output, map[at].source,
                                  IF map[at].source THEN map[at].offset + local ELSE 0, take)
         /\ position' = position + take
         /\ IF position' = before + map[at].length
              THEN before' = before + map[at].length /\ at' = at + 1
              ELSE UNCHANGED <<before, at>>
  /\ UNCHANGED <<call, pc, loop_vars, piece, next, slice, result>>

ComposeNext ==
  /\ Composing
  /\ position # None
  /\ position >= PieceEnd \/ at > Len(map)
  /\ piece' = piece + 1
  /\ position' = None
  /\ UNCHANGED <<call, pc, loop_vars, at, before, output, next, slice, result>>

EndCompose ==
  /\ pc = "compose"
  /\ piece > Len(pieces)
  /\ map' = output
  /\ output' = <<>>
  /\ piece' = 1
  /\ at' = 1
  /\ before' = 0
  /\ j' = j + 1
  /\ pc' = "needle"
  /\ UNCHANGED <<call, current, scratch, pos, found, pieces, position, next, slice, result>>

(* All needles applied: what the map says of the whole text.               *)
EndSequential ==
  /\ pc = "needle"
  /\ j > Len(needles)
  /\ slice' = [contiguous |-> \/ current = <<>>
                              \/ /\ Len(map) = 1
                                 /\ map[1].source
                                 /\ map[1].length = Len(current),
               has    |-> current # <<>>,
               offset |-> IF current = <<>> \/ map = <<>> THEN 0 ELSE map[1].offset,
               length |-> Len(current)]
  /\ pc' = "store"
  /\ UNCHANGED <<call, loop_vars, compose_vars, next, result>>
-----------------------------------------------------------------------------
(* fixed_scan_replace(): every needle's first occurrence is cached.        *)
StartScan ==
  /\ pc = "start"
  /\ ~ call.sequential
  /\ next' = [q \in DOMAIN needles |-> Find(hay, q, 0)]
  /\ pos' = 0
  /\ current' = <<>>
  /\ slice' = NoSlice
  /\ pc' = "scan"
  /\ UNCHANGED <<call, j, scratch, found, pieces, map, compose_vars, result>>

(* A needle is searched for again once the scan has passed its occurrence. *)
Refreshed ==
  [q \in DOMAIN needles |->
     IF next[q] # None /\ next[q] < pos THEN Find(hay, q, pos) ELSE next[q]]

(* The earliest occurrence; among needles that share it, the first.        *)
Best(cached) ==
  LET there == {q \in DOMAIN needles : cached[q] # None}
  IN  IF there = {} THEN None
      ELSE CHOOSE q \in there :
             \A r \in there : cached[q] < cached[r] \/ (cached[q] = cached[r] /\ q <= r)

ScanMatch ==
  /\ pc = "scan"
  /\ pos < Len(hay)
  /\ next' = Refreshed
  /\ LET best == Best(next')
     IN  /\ best # None
         /\ IF repls[best] = NA
              THEN /\ result' = [kind |-> "na"]
                   /\ pc' = "done"
                   /\ UNCHANGED <<current, pos, slice>>
              ELSE /\ current' = current \o Part(hay, pos, next'[best]) \o repls[best]
                   /\ slice' = SliceConstructed(SliceAppend(slice, pos, next'[best]),
                                                Len(repls[best]))
                   /\ pos' = next'[best] + Len(needles[best])
                   /\ UNCHANGED <<pc, result>>
  /\ UNCHANGED <<call, j, scratch, found, pieces, map, compose_vars>>

EndScan ==
  /\ pc = "scan"
  /\ IF pos < Len(hay)
       THEN /\ next' = Refreshed
            /\ Best(next') = None
       ELSE UNCHANGED next
  /\ IF pos = 0
       THEN /\ pc' = "done"
            /\ UNCHANGED <<current, slice>>
       ELSE /\ current' = current \o Part(hay, pos, Len(hay))
            /\ slice' = SliceAppend(slice, pos, Len(hay))
            /\ pc' = "store"
  /\ UNCHANGED <<call, j, scratch, pos, found, pieces, map, compose_vars, result>>

(* store_provenanced_text() *)
Store ==
  /\ pc = "store"
  /\ result' =
       IF current = hay THEN [kind |-> "original"]
       ELSE IF slice.contiguous /\ slice.length = Len(current)
         THEN [kind |-> "slice", offset |-> slice.offset, length |-> slice.length]
       ELSE [kind |-> "changed", text |-> current]
  /\ pc' = "done"
  /\ UNCHANGED <<call, loop_vars, compose_vars, next, slice>>

Sequential ==
  \/ StartSequential \/ PassNeedle \/ MissingReplacement \/ StartNeedle
  \/ ReplaceMatch \/ EndReplace \/ EndSequential
Compose == ComposeConstructed \/ ComposeSeek \/ ComposeTake \/ ComposeNext \/ EndCompose
Scan    == StartScan \/ ScanMatch \/ EndScan

Next == Sequential \/ Compose \/ Scan \/ Store

Spec == Init /\ [][Next]_vars

(* One row is rewritten by one thread, which nothing interrupts.           *)
FairSpec == Spec /\ WF_vars(Next)
-----------------------------------------------------------------------------
(* The reference: read left to right, where a needle starts the first of   *)
(* them is replaced and skipped, anything else is copied; NA as soon as a  *)
(* needle with NA for replacement is met.                                  *)
Replaced(s, which) ==
  LET at_(p) == {q \in which : OccursAt(s, needles[q], call.ignoreCase, p)}
      first(S) == CHOOSE q \in S : \A r \in S : q <= r
      from[p \in 0 .. Len(s)] ==
        IF p = Len(s) THEN <<>>
        ELSE IF at_(p) = {}
          THEN IF from[p + 1] = NA THEN NA ELSE <<s[p + 1]>> \o from[p + 1]
        ELSE LET q == first(at_(p))
             IN  IF repls[q] = NA \/ from[p + Len(needles[q])] = NA THEN NA
                 ELSE repls[q] \o from[p + Len(needles[q])]
  IN  from[0]

Chained ==
  LET after[q \in 0 .. Len(needles)] ==
        IF q = 0 THEN hay
        ELSE IF after[q - 1] = NA THEN NA ELSE Replaced(after[q - 1], {q})
  IN  after[Len(needles)]

Expected == IF call.sequential THEN Chained ELSE Replaced(hay, DOMAIN needles)

Returned ==
  CASE result.kind = "na"       -> NA
    [] result.kind = "original" -> hay
    [] result.kind = "slice"    -> Part(hay, result.offset, result.offset + result.length)
    [] result.kind = "changed"  -> result.text

(* The text returned, copied or as a slice of the input's memory, is the   *)
(* one the needles and replacements define, in both modes.                 *)
ReplacedExactly == pc = "done" => Returned = Expected
=============================================================================
