------------------------------ MODULE StringViews ------------------------------
(* What the workers of a call see of its strings. R's strings carry their    *)
(* encoding; workers must not call R, so that the calling thread prepares    *)
(* plain views for them (string_snapshot.h, codepoint_snapshot.h):           *)
(*                                                                           *)
(*   raw     the bytes as they are                                           *)
(*   utf8    UTF-8, whatever the encoding, unless a string of "bytes" turns  *)
(*           up: then the bytes as they are, the translations undone         *)
(*   points  code points, which threads decode into one shared array         *)
(*                                                                           *)
(* A missing string is NA. R marks no ASCII string with an encoding.         *)
EXTENDS Utf8, SequencesExt, FiniteSetsExt

CONSTANTS
  NA,
  Calls,       \* [mode, strings, nativeUtf8] and what a caller adds
  MaxBytes     \* the largest 64-bit count

Ascii(text) == \A k \in DOMAIN text : text[k] < 128

(* A string is [enc, bytes]; calls are admitted when their strings are R's.  *)
Encodings == {"native", "utf8", "latin1", "bytes"}
IsString(s) == s.enc \in Encodings /\ (Ascii(s.bytes) => s.enc = "native")
CallAdmitted(c) ==
  /\ c.mode \in {"raw", "utf8", "points"} /\ c.nativeUtf8 \in BOOLEAN
  /\ \A i \in DOMAIN c.strings : c.strings[i] = NA \/ IsString(c.strings[i])

VARIABLES
  call,
  phase,        \* "rows", "undo", "decode", "publish", "ready", "stopped"
  row,          \* the row at hand
  views,        \* per row: NA or [text, own], own the string's own memory
  total,        \* bytes, as far as they can be counted
  anyNonAscii, anyBytes,
  sources,      \* points: per row [text, offset, ascii], text NA if missing
  points,       \* points: the shared array, None where nothing was written
  lengths,      \* points: code points per row
  invalid,      \* points: rows found malformed
  undecoded,    \* points: rows no thread has decoded yet
  problem       \* the row an error names, 0 for none

viewVars == <<call, phase, row, views, total, anyNonAscii, anyBytes,
              sources, points, lengths, invalid, undecoded, problem>>
flagVars == <<anyNonAscii, anyBytes>>
pointVars == <<sources, points, lengths, invalid, undecoded>>

Rows == DOMAIN call.strings
String == call.strings[row]

Open(c) ==
  /\ call = c
  /\ phase = "rows" /\ row = 1
  /\ views = <<>> /\ total = 0
  /\ anyNonAscii = FALSE /\ anyBytes = FALSE
  /\ sources = <<>> /\ points = <<>> /\ lengths = <<>> /\ invalid = {} /\ undecoded = {}
  /\ problem = 0
-----------------------------------------------------------------------------
(* Rf_translateCharUTF8(): one character per byte, as in Latin-1. *)
Latin1ToUtf8(text) == FlattenSeq([k \in DOMAIN text |-> Utf8Bytes(text[k])])

(* charsxp_utf8(): whether the bytes are UTF-8 as they are. *)
IsUtf8(s) == s.enc = "utf8" \/ (s.enc = "native" /\ call.nativeUtf8)

Counted(sum, size) == IF MaxBytes - sum < size THEN MaxBytes ELSE sum + size

AddView(view) ==
  /\ views' = Append(views, view)
  /\ total' = IF view = NA THEN total ELSE Counted(total, Len(view.text))
  /\ row' = row + 1

RawRow ==
  /\ phase = "rows" /\ call.mode = "raw" /\ row \in Rows
  /\ AddView(IF String = NA THEN NA ELSE [text |-> String.bytes, own |-> TRUE])
  /\ UNCHANGED <<call, phase, flagVars, pointVars, problem>>

(* resolve_utf8(), one string. *)
Utf8Row ==
  /\ phase = "rows" /\ call.mode = "utf8" /\ row \in Rows
  /\ IF String = NA THEN AddView(NA) /\ UNCHANGED flagVars
     ELSE LET nonAscii == ~Ascii(String.bytes)
              isBytes  == nonAscii /\ String.enc = "bytes"
              foreign  == nonAscii /\ ~isBytes /\ ~IsUtf8(String)
          IN  /\ AddView(IF foreign THEN [text |-> Latin1ToUtf8(String.bytes), own |-> FALSE]
                         ELSE [text |-> String.bytes, own |-> TRUE])
              /\ anyNonAscii' = (anyNonAscii \/ nonAscii)
              /\ anyBytes' = (anyBytes \/ isBytes)
  /\ UNCHANGED <<call, phase, pointVars, problem>>

Translated == \E i \in DOMAIN views : views[i] # NA /\ ~views[i].own

(* Variant: the translated bytes stay counted. *)
EndRowsCountedOn ==
  /\ phase = "rows" /\ call.mode # "points" /\ row \notin Rows
  /\ IF anyBytes /\ Translated
       THEN phase' = "undo" /\ row' = 1
       ELSE phase' = "ready" /\ UNCHANGED row
  /\ UNCHANGED <<call, views, total, flagVars, pointVars, problem>>

EndRows ==
  /\ phase = "rows" /\ call.mode # "points" /\ row \notin Rows
  /\ IF anyBytes /\ Translated
       THEN phase' = "undo" /\ row' = 1 /\ total' = 0
       ELSE phase' = "ready" /\ UNCHANGED <<row, total>>
  /\ UNCHANGED <<call, views, flagVars, pointVars, problem>>

UndoRow ==
  /\ phase = "undo" /\ row \in Rows
  /\ IF views[row] = NA THEN UNCHANGED <<views, total>>
     ELSE /\ views' = [views EXCEPT ![row] = [text |-> String.bytes, own |-> TRUE]]
          /\ total' = Counted(total, Len(String.bytes))
  /\ row' = row + 1
  /\ UNCHANGED <<call, phase, flagVars, pointVars, problem>>

EndUndo ==
  /\ phase = "undo" /\ row \notin Rows
  /\ phase' = "ready"
  /\ UNCHANGED <<call, row, views, total, flagVars, pointVars, problem>>
-----------------------------------------------------------------------------
(* CodepointSnapshot: the serial pass, which stops at "bytes" and gives      *)
(* every string its place in the array.                                      *)
SourceText == IF Ascii(String.bytes) \/ IsUtf8(String) THEN String.bytes
              ELSE Latin1ToUtf8(String.bytes)

SourceRow ==
  /\ phase = "rows" /\ call.mode = "points" /\ row \in Rows
  /\ String # NA => String.enc # "bytes"
  /\ sources' = Append(sources,
       IF String = NA THEN [text |-> NA, offset |-> total, ascii |-> TRUE]
       ELSE [text |-> SourceText, offset |-> total, ascii |-> Ascii(String.bytes)])
  /\ total' = IF String = NA THEN total ELSE total + Len(SourceText)
  /\ row' = row + 1
  /\ UNCHANGED <<call, phase, views, flagVars, points, lengths, invalid, undecoded, problem>>

Stop(i) == phase' = "stopped" /\ problem' = i

SourceStop ==
  /\ phase = "rows" /\ call.mode = "points" /\ row \in Rows
  /\ String # NA
  /\ String.enc = "bytes"
  /\ Stop(row)
  /\ UNCHANGED <<call, row, views, total, flagVars, pointVars>>

StartDecode ==
  /\ phase = "rows" /\ call.mode = "points" /\ row \notin Rows
  /\ points' = [k \in 1 .. total |-> None]
  /\ lengths' = [i \in Rows |-> 0]
  /\ undecoded' = Rows
  /\ phase' = "decode"
  /\ UNCHANGED <<call, row, views, total, flagVars, sources, invalid, problem>>

(* The characters from the start up to the first that is malformed. *)
Decoded(text) ==
  LET from[i \in 1 .. Len(text) + 1] ==
        IF i > Len(text) THEN [chars |-> <<>>, ok |-> TRUE]
        ELSE LET c == Utf8Decode(text, i)
             IN  IF c = None THEN [chars |-> <<>>, ok |-> FALSE]
                 ELSE LET rest == from[i + c.width]
                      IN  [rest EXCEPT !.chars = <<c.point>> \o @]
  IN  from[1]

(* Variant: one place for all threads, where the last to come stays.         *)
NotedLast(i) == {i}

(* Each row has a flag of its own. *)
Noted(i) == invalid \cup {i}

(* A thread decodes one string; rows come in any order. *)
DecodeRow(i) ==
  /\ phase = "decode" /\ i \in undecoded
  /\ undecoded' = undecoded \ {i}
  /\ LET s == sources[i]
     IN  IF s.text = NA THEN UNCHANGED <<points, lengths, invalid>>
         ELSE LET d == IF s.ascii THEN [chars |-> s.text, ok |-> TRUE] ELSE Decoded(s.text)
                  written == s.offset + 1 .. s.offset + Len(d.chars)
              IN  /\ points' = [k \in DOMAIN points \cup written |->
                                  IF k \in written THEN d.chars[k - s.offset] ELSE points[k]]
                  /\ lengths' = [lengths EXCEPT ![i] = Len(d.chars)]
                  /\ invalid' = IF d.ok THEN invalid ELSE Noted(i)
  /\ UNCHANGED <<call, phase, row, views, total, flagVars, sources, problem>>

(* The first malformed row is reported, else every row gets its points. *)
Publish ==
  /\ phase = "decode" /\ undecoded = {}
  /\ IF invalid # {}
       THEN Stop(Min(invalid)) /\ UNCHANGED views
       ELSE /\ views' = [i \in Rows |->
                 IF sources[i].text = NA THEN NA
                 ELSE [text |-> SubSeq(points, sources[i].offset + 1, sources[i].offset + lengths[i]),
                       own |-> FALSE]]
            /\ phase' = "ready"
            /\ UNCHANGED problem
  /\ UNCHANGED <<call, row, total, flagVars, pointVars>>

ViewsNext ==
  \/ RawRow \/ Utf8Row \/ EndRows \/ UndoRow \/ EndUndo
  \/ SourceRow \/ SourceStop \/ StartDecode \/ Publish
  \/ \E i \in undecoded : DecodeRow(i)
-----------------------------------------------------------------------------
Present == {i \in Rows : call.strings[i] # NA}
Bytes(i) == call.strings[i].bytes
HasBytes == \E i \in Present : call.strings[i].enc = "bytes"

(* A string's text in UTF-8. *)
TextOf(i) ==
  IF call.strings[i].enc = "latin1" \/ (call.strings[i].enc = "native" /\ ~call.nativeUtf8)
    THEN Latin1ToUtf8(Bytes(i)) ELSE Bytes(i)

(* All strings of a call are seen in one encoding, wherever a string of      *)
(* "bytes" comes up and whatever was translated before it: their own bytes,  *)
(* or UTF-8; the flags say which, and the bytes counted are those seen       *)
(* (StringSnapshot, resolve_utf8()).                                         *)
ViewsOneEncoding ==
  phase = "ready" /\ call.mode # "points" =>
    LET seen(i) == IF call.mode = "raw" \/ HasBytes THEN Bytes(i) ELSE TextOf(i)
    IN  /\ DOMAIN views = Rows
        /\ \A i \in Rows \ Present : views[i] = NA
        /\ \A i \in Present : views[i].text = seen(i) /\ (views[i].own => seen(i) = Bytes(i))
        /\ total = Min({MaxBytes, MapThenSumSet(LAMBDA i : Len(seen(i)), Present)})
        /\ call.mode = "utf8" =>
             /\ anyBytes = HasBytes
             /\ anyNonAscii = \E i \in Present : ~Ascii(Bytes(i))

(* The code points of every string come out whole, though threads write them *)
(* into one array in any order; the error names the first string that cannot *)
(* be taken for text, "bytes" before malformed ones (CodepointSnapshot).     *)
WellFormed(text) ==
  LET from[i \in 1 .. Len(text) + 1] ==
        i > Len(text) \/ (WellFormedAt(text, i) /\ from[i + Len(Ranges(text[i])) + 1])
  IN  from[1]

ArenaExact ==
  call.mode = "points" =>
    LET firstBytes == {i \in Present : call.strings[i].enc = "bytes"}
        malformed  == {i \in Present : ~WellFormed(TextOf(i))}
    IN  /\ phase = "stopped" =>
             problem = IF firstBytes # {} THEN Min(firstBytes) ELSE Min(malformed)
        /\ phase = "ready" =>
             /\ firstBytes = {} /\ malformed = {}
             /\ \A i \in Rows \ Present : views[i] = NA
             /\ \A i \in Present :
                  FlattenSeq([k \in DOMAIN views[i].text |-> Utf8Bytes(views[i].text[k])]) = TextOf(i)

(* The decoder takes exactly the well-formed characters and gives the point  *)
(* that encodes to the bytes read, and the test for white space from bytes   *)
(* says what Unicode says of that point (utf8_text.h).                       *)
DecodersAgree ==
  phase = "ready" /\ call.mode # "points" =>
    \A i \in Present : \A p \in DOMAIN views[i].text :
      LET text == views[i].text
          c    == Utf8Decode(text, p)
      IN  /\ (c # None) = WellFormedAt(text, p)
          /\ c # None => Utf8Bytes(c.point) = SubSeq(text, p, p + c.width - 1)
          /\ WhitespaceWidth(text, p, TRUE)
               = IF c # None /\ WhiteSpacePoint(c.point) THEN c.width ELSE 0

(* What is made of the strings of a call is their text, read by one rule: as *)
(* code points from one array, or character by character from the bytes.     *)
PointsExact == ArenaExact /\ DecodersAgree
=============================================================================
