-------------------------------- MODULE MCRows --------------------------------
(* Three kinds of call over the rows of a vector: strings rewritten by the    *)
(* text pipeline, names coded by their sound, dates written and read. A       *)
(* behaviour is one call of one of them; the others rest.                     *)
EXTENDS TextPipeline, NameCodes, Calendar

CONSTANT w1, w2

PipelineRests ==
  /\ DispatchInit /\ tbb = TRUE
  /\ rows = <<>> /\ nthreads = 1 /\ scarce = FALSE /\ step = "done"
  /\ planned = 0 /\ begin = 0 /\ chunks = <<>> /\ results = <<>> /\ arenas = <<>> /\ errors = <<>>
  /\ bytes = 0 /\ doing = [t \in Threads |-> "nothing"] /\ at = [t \in Threads |-> 0]
  /\ buf = [t \in Threads |-> <<>>] /\ warned = <<>> /\ answer = Pending
CodesRest ==
  /\ coding = [fn |-> "resting", names |-> <<>>]
  /\ spans = {} /\ store = <<>> /\ sizes = <<0>> /\ codes = <<"">>
DatesRest ==
  /\ calling = [fn |-> "resting", entries |-> <<>>]
  /\ portions = {[at |-> 1, from |-> 1, to |-> 0]}
  /\ slots = <<>> /\ lengths = <<>> /\ numbers = <<>> /\ dated = <<"">>

RowsInit ==
  \/ Init /\ CodesRest /\ DatesRest
  \/ PipelineRests /\ CodesInit /\ DatesRest
  \/ PipelineRests /\ CodesRest /\ DatesInit
RowsNext ==
  \/ Next /\ UNCHANGED <<codeVars, dateVars>>
  \/ CodesNext /\ UNCHANGED <<vars, dateVars>>
  \/ DatesNext /\ UNCHANGED <<vars, codeVars>>
RowsSpec ==
  /\ RowsInit /\ [][RowsNext]_<<vars, codeVars, dateVars>>
  /\ WF_vars(Caller)
  /\ \A t \in Threads : WF_vars(ThreadStep(t))
-----------------------------------------------------------------------------
(* Rows of every outcome, four at most, in chunks of at most two: a chunk  *)
(* is closed by its rows or by its bytes, and two or three threads take    *)
(* one, two or three chunks. Sizes are in bytes of the small instance.     *)
MCThreads == {Main, w1, w2}

Row(outcome, length, new) == [outcome |-> outcome, size |-> length, new |-> new]

na     == Row("na", 0, <<>>)
none   == Row("nomatch", 1, <<>>)
empty  == Row("matched", 0, <<-1>>)
same   == Row("matched", 2, <<1, 2>>)
slice  == Row("matched", 3, <<2, 3>>)
nil    == Row("matched", 1, <<>>)
pieces == Row("matched", 3, <<1, 3>>)
text   == Row("matched", 2, <<1, -1, -2>>)
soft   == Row("soft", 1, <<>>)
hard   == Row("hard", 1, <<>>)

MCVector(s) == [i \in 0 .. Len(s) - 1 |-> s[i + 1]]

MCInputs == {MCVector(s) : s \in
  { <<>>, <<na>>, <<text>>,
    <<text, pieces, empty, text>>,
    <<pieces, text, na, slice>>,
    <<nil, same, text, pieces>>,
    <<none, hard, soft, hard>>,
    <<soft, text, pieces, soft>>,
    <<slice, soft, empty, hard>>,
    <<pieces, pieces, pieces>> }}
-----------------------------------------------------------------------------
(* Names of pieces that the encoders have rules for, at the start, within and *)
(* at the end, in pairs of which a neighbour's code must not depend; NA, what *)
(* has no letters, letters with accents, and those that Daitch codes only.    *)
MCParts == {"", "H", "S"} \X
           {"SCH", "TSCH", "PH", "KN", "C", "CH", "GH", "DG", "X", "MB", "W"} \X {"", "A", "IE", "NT"}
MCPairs == {<<Letters(p[1] \o p[2] \o p[3]), Letters(p[2] \o p[3] \o p[1] \o p[2])>> : p \in MCParts}
MCOdd == {<<NoCode, <<"U+00C7", "e", "'">>, Letters("KNOX")>>,
          <<Letters("H"), Letters(""), Letters("-'"), NoCode>>,
          <<<<"U+0105", "r", "z">>, <<"S", "U+021B", "U+0119", "b">>, NoCode, <<"U+00DF", "U+03A9", "a">>>>}
MCFns == {<<"soundex", 0>>, <<"nysiis", 0>>, <<"caverphone", 0>>, <<"refined_soundex", 0>>,
          <<"cologne", 0>>, <<"metaphone", 4>>, <<"metaphone", 2>>, <<"mra", 0>>, <<"statcan", 3>>,
          <<"lein", 4>>, <<"phonex", 4>>, <<"roger_root", 3>>, <<"onca", 3>>, <<"double_metaphone", 0>>}
MCCodeCalls ==
  {[fn |-> f[1], max |-> f[2], names |-> list] : f \in MCFns, list \in MCPairs \cup MCOdd}
    \cup {[fn |-> "daitch_mokotoff", max |-> 0, names |-> list, simplify |-> b] :
            list \in MCPairs \cup MCOdd, b \in BOOLEAN}
    \cup {[fn |-> "mra_compare", max |-> 0, names |-> list, others |-> <<list[2], list[2]>>] : list \in MCPairs}
    \cup {[fn |-> "mra_compare", max |-> 0, names |-> list, others |-> Reverse(list)] : list \in MCOdd}
-----------------------------------------------------------------------------
(* Days at the ends of months, years and of what can be written, on the day,  *)
(* a quarter before the next and a quarter before; fields in and out of their *)
(* width; texts of days that there are and are not, and with one character    *)
(* missing, wrong or too many.                                                *)
MCYears == {0, 99, 1900, 1969, 1970, 2000, 2024, 9999}
MCFormats == DOMAIN Layouts
DateCall(fn, format, list) == [fn |-> fn, format |-> format, entries |-> list]

MCEdges == {DayOf(y, m, d) : y \in MCYears, m \in {1, 2, 3, 12}, d \in {1, 28, 31}}
             \cup {DayOf(0, 1, 1) - 1, DayOf(9999, 12, 31) + 1}
MCDays == {<<4 * e, 4 * e + 3, 4 * e - 1>> : e \in MCEdges}
            \cup {<<NoDate, 0, 4 * DayOf(2024, 2, 29)>>}
MCDayCalls ==
  {DateCall("format_date", f, d) : f \in MCFormats, d \in MCDays}
    \cup {DateCall("date_parts", "iso", d) : d \in MCDays}
    \cup {DateCall("format_date_parts", f, <<<<y, m, d>>, <<d, y, m>>>>) :
            f \in MCFormats, y \in {-1, 24, 9999, 10000, NoDate}, m \in {0, 99, NoDate}, d \in {31, 100}}

MCDay(f, y, m, d) == FormatYmd(f, <<y, m, d>>)
MCBroken(t) ==
  {SubSeq(t, 1, k - 1) \o c \o SubSeq(t, k + 1, Len(t)) :
     c \in {"", "x", "-", "/", "01"}, k \in 1 .. Len(t)}
MCParseCalls ==
  {DateCall("parse_date", f, <<MCDay(f, y, m, d[1]), MCDay(f, y, m, d[2])>>) :
     f \in MCFormats, y \in MCYears, m \in {0, 1, 2, 4, 12, 13},
     d \in {<<0, 28>>, <<29, 1>>, <<30, 31>>, <<32, 12>>}}
    \cup UNION {{DateCall("parse_date", f, <<t, NoDate>>) : t \in MCBroken(MCDay(f, 2024, 2, 29))} :
                  f \in MCFormats}

(* Instants to the second and nearly the next, and with the day changed by the*)
(* offset; times of day and what may stand behind them.                       *)
MCTimes == {"00:00:00", "23:59:59", "24:00:00", "12:60:00", "12:00:60", "1:00:000", "12-00:00"}
MCTails == {"", ".", ".25", ".999999999", ".0000000019", "Z", ".5Z", "z", "+00:00", "-00:30",
            "+23:59", "+24:00", "+12:60", "-1:000", "ZZ", ".5.5", ".5+10:00", "+1000", " Z"}
MCTimeFormats == {"iso", "rfc3339", "compact", "iso_offset"}
MCTimeTexts ==
  {d \o s \o t \o z : d \in {"2024-02-29", "0000-01-01", "9999-12-31"}, s \in {"T", " "},
                      t \in {"00:00:00", "23:59:59"}, z \in MCTails}
    \cup {"2024-02-29" \o s \o t \o z : s \in {"T", "t", " ", "_", ""}, t \in MCTimes, z \in {"", "Z"}}
    \cup {"2023-02-29 00:00:00", "2024/02-29 00:00:00", "", "2024-02-29", "20240229120000",
          "20240229240000", "2024022912000", "202402291200000", "2024022912000x"}
MCInstants == {<<[day |-> d, sec |-> s, nano |-> b], NoDate>> :
               d \in {-719529, -719528, -1, 0, DayOf(2024, 2, 29), 2932896, 2932897},
               s \in {-86400, -1, 0, 3661, 86399, 86400}, b \in {0, 999999999}}
MCTimeCalls ==
  {DateCall("parse_datetime", f, <<NoDate, t>>) : f \in MCTimeFormats, t \in MCTimeTexts}
    \cup {[offset |-> o] @@ DateCall("format_datetime", "iso_offset", t) :
            o \in {0, 1439, -1439, -30, 600}, t \in MCInstants}
    \cup {[offset |-> 0] @@ DateCall("format_datetime", f, t) : f \in MCTimeFormats, t \in MCInstants}

(* Counts around 60, about day 0 and of Julian days, one to five at a time, in*)
(* arrays that are aligned or not.                                            *)
MCEpochCalls ==
  {[type |-> t, avx |-> a, odd |-> o] @@ DateCall("epoch", g, c) :
     t \in {"int", "double"}, a \in BOOLEAN, o \in {0, 1}, g \in DOMAIN Epochs \cup {"2000-02-29"},
     c \in {<<NoDate, 236, 241>>, <<60, 61, 59, 240, 243>>, <<2, -2, 3, NoDate>>,
            <<2440588, 2440590, 86400 * 4>>, <<-86401, 1>>, <<345599, -345601, 0, 244>>}}

MCDateCalls == MCDayCalls \cup MCParseCalls \cup MCTimeCalls \cup MCEpochCalls
=============================================================================
