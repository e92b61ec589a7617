----------------------------- MODULE MCTextSearch -----------------------------
(* The three ways to search texts: one regular expression row by row, several *)
(* needles replaced in one text, and the automaton of many patterns. A        *)
(* behaviour is one call of one of them; the others rest.                     *)
EXTENDS MatchLoops

CONSTANTS EditCalls, Jobs, Texts, LowerOf, DenseLimit

VARIABLES
  edit, edit_pc, j, current, scratch, pos, edit_found, pieces, map, piece, position, at, before,
  edit_output, next, edit_slice, result,
  job, auto_pc, depth, alive, still, node, last, states, links, table, text, mode, byte,
  state, best, lowest, auto_found

Edit == INSTANCE MultiReplace WITH
          Calls <- EditCalls, call <- edit, pc <- edit_pc, found <- edit_found,
          output <- edit_output, slice <- edit_slice
Auto == INSTANCE AhoCorasick WITH pc <- auto_pc, i <- byte, found <- auto_found

ASSUME EditAssumption == Edit!CallsAdmitted
ASSUME AutoAssumption == Auto!CallsAdmitted

loopVars == <<call, pc, i, offset, got, barred, copied, output, slice, room, spans, first,
              number, errors, answer>>
editVars == <<edit, edit_pc, j, current, scratch, pos, edit_found, pieces, map, piece, position,
              at, before, edit_output, next, edit_slice, result>>
autoVars == <<job, auto_pc, depth, alive, still, node, last, states, links, table, text, mode,
              byte, state, best, lowest, auto_found>>

LoopsRest ==
  /\ call = [rows |-> <<>>] /\ pc = "resting"
  /\ i = 0 /\ offset = 0 /\ got = Nothing /\ barred = None /\ copied = 0 /\ output = <<>>
  /\ slice = NoSlice /\ room = 0 /\ spans = <<>> /\ first = <<>> /\ number = 0
  /\ errors = <<>> /\ answer = <<>>
EditRests ==
  /\ edit = <<>> /\ edit_pc = "resting"
  /\ j = 0 /\ current = <<>> /\ scratch = <<>> /\ pos = 0 /\ edit_found = 0
  /\ pieces = <<>> /\ map = <<>> /\ piece = 0 /\ position = 0 /\ at = 0 /\ before = 0
  /\ edit_output = <<>> /\ next = <<>> /\ edit_slice = <<>> /\ result = <<>>
AutoRests ==
  /\ job = <<>> /\ auto_pc = "resting"
  /\ depth = 0 /\ alive = <<>> /\ still = <<>> /\ node = <<>> /\ last = <<>> /\ states = <<>>
  /\ links = <<>> /\ table = <<>> /\ text = <<>> /\ mode = "all" /\ byte = 0 /\ state = 0
  /\ best = <<>> /\ lowest = 0 /\ auto_found = <<>>

SearchInit ==
  \/ Init /\ EditRests /\ AutoRests
  \/ LoopsRest /\ Edit!Init /\ AutoRests
  \/ LoopsRest /\ EditRests /\ Auto!Init
SearchNext ==
  \/ Next /\ UNCHANGED <<editVars, autoVars>>
  \/ Edit!Next /\ UNCHANGED <<loopVars, autoVars>>
  \/ Auto!Next /\ UNCHANGED <<loopVars, editVars>>

searchVars == <<loopVars, editVars, autoVars>>
SearchSpec == SearchInit /\ [][SearchNext]_searchVars /\ WF_searchVars(SearchNext)

(* Of texts with several needles replaced see MultiReplace: the text is the   *)
(* one the needles define, taken from the places the map says.                *)
ReplacedExactly == Edit!ReplacedExactly

(* Of the automaton see AhoCorasick: it is the one Aho and Corasick define,   *)
(* and scans find what every pattern tried at every place would.              *)
ScanExact == Auto!ScanExact

(* Every call ends: rows whose pattern matches everywhere and nothing, needles*)
(* and maps whose ranges are passed, scans that go on behind their matches.   *)
SearchesEnd == <>("done" \in {pc, edit_pc, auto_pc})
-----------------------------------------------------------------------------
(* Match loops. Strings of one two-byte character between two of one byte,    *)
(* matched in every way a pattern may match them; shorter ones, "" and NA     *)
(* behind them in the chunk. Patterns that match "" do so at any of the four  *)
(* places. The first buffer is too small for most rows.                       *)
MCRow(size, chars, hits) ==
  {[na |-> FALSE, size |-> size, chars |-> chars, hit |-> h] : h \in hits}
MCHits(size, chars) ==
  {h \in [0 .. size -> -1 .. size] :
     /\ \A p \in (0 .. size) \ chars : h[p] = None
     /\ \A p \in chars : h[p] = None \/ p + h[p] \in chars}

MCLong  == MCRow(4, {0, 1, 3, 4}, MCHits(4, {0, 1, 3, 4}))
MCShort == MCRow(2, {0, 1, 2}, {(0 :> 1) @@ (1 :> -1) @@ (2 :> -1), (0 :> -1) @@ (1 :> 1) @@ (2 :> -1)})
MCEmpty == MCRow(0, {0}, {(0 :> -1), (0 :> 0)})
MCNA    == [na |-> TRUE, size |-> 0, chars |-> {0}, hit |-> (0 :> -1)]

MCRows == {<<a, b>> : a \in MCLong, b \in MCShort}
            \cup {<<a, MCNA, b>> : a \in MCEmpty, b \in MCShort}
            \cup {<<b, a, b>> : a \in MCEmpty, b \in MCShort}
MCCanEmpty(rows) == \E k \in DOMAIN rows : \E p \in Start(rows[k]) : rows[k].hit[p] = 0

MCCall(o, repl, field, extended, rows) ==
  [op |-> o, repl |-> repl, field |-> field, extended |-> extended, room |-> 3,
   canEmpty |-> MCCanEmpty(rows), rows |-> rows]

MCCalls ==
  LET solid == {rows \in MCRows : ~ MCCanEmpty(rows)}
  IN  {MCCall(o, "none", 1, e, rows) : o \in {"count", "extract"}, e \in BOOLEAN, rows \in MCRows}
        \cup {MCCall(o, p, 1, FALSE, rows) :
                o \in {"sub", "gsub"}, p \in {"none", "literal", "expand"}, rows \in MCRows}
        \cup {MCCall("split", "none", 1, FALSE, rows) : rows \in solid}
        \cup {MCCall("field", "none", f, FALSE, rows) : f \in {-3, -1, 1, 2, 3}, rows \in solid}
-----------------------------------------------------------------------------
(* Multi-replacement. Texts of two bytes, every pair of the needles and of the*)
(* replacements below, in both modes. The replacements make matches of the    *)
(* other needle (sequential mode must find them, the scan must not) and undo  *)
(* each other. Then long needles, whose shifts end before, at and behind the  *)
(* last place, in texts of two letters and with upper case.                   *)
MCHays == {<<>>, <<1, 2>>, <<1, 1, 1>>, <<1, 2, 1, 2>>, <<1, 2, 2, 1>>, <<2, 1, 1, 2>>,
           <<1, 1, 2, 1, 2>>, <<2, 1, 2, 1, 1>>}
MCNeedles == {<<1>>, <<2>>, <<1, 2>>, <<1, 1>>, <<2, 1>>}
NoText    == <<None>>   \* MultiReplace's NA
MCRepls   == {<<>>, <<2>>, <<1, 2>>, <<3>>, NoText}

MCEditCalls ==
  [hay        : MCHays,
   needles    : {<<a, b>> : a \in MCNeedles, b \in MCNeedles},
   repls      : {<<a, b>> : a \in MCRepls, b \in MCRepls},
   sequential : BOOLEAN,
   ignoreCase : {FALSE}]
  \cup
  [hay        : [1 .. 7 -> {1, 2}] \cup {h \o <<1, 12, 11, 2, 11>> : h \in [1 .. 3 -> {1, 2, 12}]},
   needles    : {<<n>> : n \in {<<1, 2, 1, 2>>, <<2, 1, 1, 2>>, <<1, 12, 1, 2, 1>>, <<12, 11, 1>>}},
   repls      : {<<<<3>>>>},
   sequential : {FALSE},
   ignoreCase : BOOLEAN]
-----------------------------------------------------------------------------
(* Automaton. Bytes 1 and 2 are lower-case letters, 3 is the upper case of 1, *)
(* and 4 is in no pattern. Patterns that contain, begin or end one another,   *)
(* also twice the same; DenseLimit lets the smaller automata be compiled only.*)
MCLowerOf == (3 :> 1)

MCPatterns == {<<1>>, <<2>>, <<1, 2>>, <<2, 1>>, <<1, 2, 1>>, <<2, 2, 1>>, <<3, 2>>}

MCJobs ==
  [patterns   : {<<a, b>> : a \in MCPatterns, b \in MCPatterns}
                  \cup {<<<<1, 2, 1, 1>>, <<2, 1>>, <<1>>>>, <<<<1, 1, 2>>, <<1, 2, 2>>, <<2, 2>>>>,
                        <<<<2>>, <<1, 1, 2, 1>>, <<1, 1, 2>>>>, <<<<1, 2, 2>>, <<1>>, <<1, 2>>>>,
                        <<<<2, 1, 2, 1, 1>>, <<1, 2, 1, 2>>, <<2, 1, 2>>>>},
   ignoreCase : BOOLEAN]

MCTexts == {<<>>, <<1>>, <<1, 2, 1, 1>>, <<2, 2, 1, 2>>, <<1, 4, 2, 1, 3>>, <<3, 2, 2, 1>>,
            <<1, 1, 1, 2, 1, 2>>, <<2, 1, 2, 1, 1, 2>>, <<1, 2, 2, 4, 1, 2, 2>>}
=============================================================================
