------------------------------- MODULE Calendar -------------------------------
(* Calls that read and write dates (fgrepl_date.cpp, R/fast_date.R). The rows *)
(* are shared out in ranges; dates become texts in slots of one array, with   *)
(* their lengths beside, and texts become numbers, row by row; counts from an *)
(* epoch become days two at a time where the processor can. A number of days  *)
(* is a number of quarters of a day; of seconds, [day, sec, nano] with any    *)
(* `sec`: they are exact here, and NoDate is NA, NaN and infinity.            *)
EXTENDS Integers, SequencesExt, FiniteSetsExt

CONSTANTS
  NoDate,
  Unset,            \* what a new array holds
  DateCalls,        \* [fn, format, entries], with more for times and epochs
  Years,            \* the years of the texts that are read
  StreamThreshold   \* EPOCH_STREAM_THRESHOLD, 65536

VARIABLES calling, portions, slots, lengths, numbers, dated
dateVars == <<calling, portions, slots, lengths, numbers, dated>>

(* Division as in C, towards zero. *)
Quot(a, b) == IF a >= 0 THEN a \div b ELSE -((-a) \div b)

JdnToYmd(jdn) ==
  LET l0 == jdn + 68569
      n  == Quot(4 * l0, 146097)
      l1 == l0 - Quot(146097 * n + 3, 4)
      i  == Quot(4000 * (l1 + 1), 1461001)
      l2 == l1 - Quot(1461 * i, 4) + 31
      j  == Quot(80 * l2, 2447)
      l3 == Quot(j, 11)
  IN  <<100 * (n - 49) + i + l3, j + 2 - 12 * l3, l2 - Quot(2447 * j, 80)>>
YmdToJdn(year, month, day) ==
  LET a == Quot(month - 14, 12)
  IN  Quot(1461 * (year + 4800 + a), 4) + Quot(367 * (month - 2 - 12 * a), 12)
        - Quot(3 * Quot(year + 4900 + a, 100), 4) + day - 32075
UnixEpoch == 2440588
Days(year, month, day) == YmdToJdn(year, month, day) - UnixEpoch
FirstDay == Days(0, 1, 1)
LastDay  == Days(9999, 12, 31)

IsLeapYear(year) == year % 4 = 0 /\ (year % 100 # 0 \/ year % 400 = 0)
DaysInMonth(year, month) ==
  IF month \notin 1 .. 12 THEN 0
  ELSE IF month = 2 /\ IsLeapYear(year) THEN 29
  ELSE <<31, 28, 31, 30, 31, 30, 31, 31, 30, 31, 30, 31>>[month]

(* numeric_date_to_ymd() of a number of quarters *)
DateParts(quarters) ==
  LET whole == quarters \div 4
  IN  IF quarters = NoDate \/ whole \notin FirstDay .. LastDay THEN NoDate
      ELSE JdnToYmd(whole + UnixEpoch)
-----------------------------------------------------------------------------
Digit(d) == SubSeq("0123456789", d + 1, d + 1)
Write2(v) == Digit(v \div 10) \o Digit(v % 10)
Write4(v) == Write2(v \div 100) \o Write2(v % 100)

(* format_ymd(): the fields in their order, and what stands between them.     *)
Layouts ==
  [iso |-> <<"y", "-", "m", "-", "d">>, compact |-> <<"y", "m", "d">>,
   dmy |-> <<"d", "/", "m", "/", "y">>, ymd_slash |-> <<"y", "/", "m", "/", "d">>,
   y |-> <<"y">>, m |-> <<"m">>, d |-> <<"d">>, ym |-> <<"y", "-", "m">>, md |-> <<"m", "-", "d">>]
Field(f) == CASE f = "y" -> 1 [] f = "m" -> 2 [] f = "d" -> 3 [] OTHER -> 0
Concat(texts) == FoldLeft(LAMBDA s, t : s \o t, "", texts)
FormatYmd(format, ymd) ==
  LET layout == Layouts[format]
  IN  Concat([k \in DOMAIN layout |->
        CASE Field(layout[k]) = 0 -> layout[k]
          [] Field(layout[k]) = 1 -> Write4(ymd[1])
          [] OTHER -> Write2(ymd[Field(layout[k])])])

(* parts_in_width(): only fields that the layout has are looked at.           *)
PartsInWidth(format, ymd) ==
  \A f \in {Field(Layouts[format][k]) : k \in DOMAIN Layouts[format]} \ {0} :
    ymd[f] # NoDate /\ ymd[f] \in 0 .. IF f = 1 THEN 9999 ELSE 99

(* parse2(), parse4(): digits from place i, or NoDate.                        *)
Char(s, i) == IF i \in 1 .. Len(s) THEN SubSeq(s, i, i) ELSE ""
Value(c) == IF \E d \in 0 .. 9 : Digit(d) = c THEN CHOOSE d \in 0 .. 9 : Digit(d) = c ELSE NoDate
DateJoined(high, unit, low) == IF NoDate \in {high, low} THEN NoDate ELSE unit * high + low
Parse2(s, i) == DateJoined(Value(Char(s, i)), 10, Value(Char(s, i + 1)))
Parse4(s, i) == DateJoined(Parse2(s, i), 100, Parse2(s, i + 2))

(* The place at which a piece of a layout begins; its length in all.          *)
Width(piece) == CASE Field(piece) = 0 -> 1 [] Field(piece) = 1 -> 4 [] OTHER -> 2
Place(layout, k) == 1 + FoldLeft(LAMBDA n, p : n + Width(p), 0, SubSeq(layout, 1, k - 1))

(* parse_date(): fields that the layout leaves out are those of 1970-01-01.   *)
ParsedFields(s, layout) ==
  [f \in 1 .. 3 |->
     LET k == {k \in DOMAIN layout : Field(layout[k]) = f}
     IN  IF k = {} THEN <<1970, 1, 1>>[f]
         ELSE IF f = 1 THEN Parse4(s, Place(layout, Max(k))) ELSE Parse2(s, Place(layout, Max(k)))]
ParseDate(s, format) ==
  LET layout == Layouts[format]
      ymd == ParsedFields(s, layout)
      shaped == /\ Len(s) = Place(layout, Len(layout) + 1) - 1
                /\ \A k \in DOMAIN layout : Field(layout[k]) = 0 => Char(s, Place(layout, k)) = layout[k]
  IN  IF ~shaped \/ NoDate \in {ymd[f] : f \in 1 .. 3} THEN NoDate
      ELSE IF ymd[3] \notin 1 .. DaysInMonth(ymd[1], ymd[2]) THEN NoDate
      ELSE Days(ymd[1], ymd[2], ymd[3])
-----------------------------------------------------------------------------
(* parse_date_time_prefix(), and the compact form: year to second, or NoDate. *)
Prefix(s, separators) ==
  IF /\ Len(s) >= 19 /\ Char(s, 5) = "-" /\ Char(s, 8) = "-" /\ Char(s, 11) \in separators
     /\ Char(s, 14) = ":" /\ Char(s, 17) = ":"
  THEN <<Parse4(s, 1), Parse2(s, 6), Parse2(s, 9), Parse2(s, 12), Parse2(s, 15), Parse2(s, 18)>>
  ELSE <<NoDate>>
CompactFields(s) ==
  IF Len(s) # 14 THEN <<NoDate>>
  ELSE <<Parse4(s, 1), Parse2(s, 5), Parse2(s, 7), Parse2(s, 9), Parse2(s, 11), Parse2(s, 13)>>

(* valid_datetime_parts() *)
ValidParts(p) ==
  /\ p[1] \in 0 .. 9999 /\ p[3] \in 1 .. DaysInMonth(p[1], p[2])
  /\ p[4] \in 0 .. 23 /\ p[5] \in 0 .. 59 /\ p[6] \in 0 .. 59

(* parse_fraction() from place i: its nanoseconds and the place behind it.    *)
Fraction(s, i) ==
  LET stops  == {k \in i + 1 .. Len(s) + 1 : Value(Char(s, k)) = NoDate}
      digits == [k \in 1 .. Min(stops) - i - 1 |-> Value(Char(s, i + k))]
  IN  IF Char(s, i) # "." THEN <<0, i>>
      ELSE IF digits = <<>> THEN <<NoDate, i>>
      ELSE <<FoldLeft(LAMBDA sum, k : sum + digits[k] * 10 ^ (9 - k), 0,
                      [k \in 1 .. Min({9, Len(digits)}) |-> k]), Min(stops)>>

(* parse_zone() from place i: minutes. *)
Zone(s, i) ==
  LET hour   == Parse2(s, i + 1)
      minute == Parse2(s, i + 4)
  IN  CASE Len(s) = i -> IF Char(s, i) \in {"Z", "z"} THEN 0 ELSE NoDate
        [] Len(s) = i + 5 ->
             IF /\ Char(s, i) \in {"+", "-"} /\ Char(s, i + 3) = ":" /\ NoDate \notin {hour, minute}
                /\ hour \in 0 .. 23 /\ minute \in 0 .. 59
             THEN (IF Char(s, i) = "-" THEN -1 ELSE 1) * (60 * hour + minute) ELSE NoDate
        [] OTHER -> NoDate

ParseDatetime(s, format) ==
  LET p == CASE format = "iso" -> Prefix(s, {" "})
             [] format = "compact" -> CompactFields(s)
             [] OTHER -> Prefix(s, {"T", "t", " "})
      fraction == IF format = "compact" THEN <<0, 15>> ELSE Fraction(s, 20)
      zone == IF format \in {"iso", "compact"}
              THEN IF fraction[2] = Len(s) + 1 THEN 0 ELSE NoDate
              ELSE Zone(s, fraction[2])
  IN  IF NoDate \in Range(p) THEN NoDate
      ELSE IF NoDate \in {fraction[1], zone} \/ ~ValidParts(p) THEN NoDate
      ELSE [day |-> Days(p[1], p[2], p[3]), nano |-> fraction[1],
            sec |-> 3600 * p[4] + 60 * p[5] + p[6] - 60 * zone]

(* datetime_to_parts() *)
DatetimeParts(v, offset) ==
  LET adjusted == v.sec + 60 * offset
      day == v.day + (adjusted \div 86400)
      sec == adjusted % 86400
      ymd == JdnToYmd(day + UnixEpoch)
  IN  IF v = NoDate THEN NoDate
      ELSE IF day \notin FirstDay .. LastDay THEN NoDate
      ELSE ymd \o <<sec \div 3600, (sec \div 60) % 60, sec % 60>>

(* format_datetime_value() *)
FormatDatetime(p, format, offset) ==
  LET distance == IF offset < 0 THEN -offset ELSE offset
      clock(c) == Write2(p[4]) \o c \o Write2(p[5]) \o c \o Write2(p[6])
      day == FormatYmd("iso", p)
  IN  CASE format = "compact" -> FormatYmd("compact", p) \o clock("")
        [] format = "iso" -> day \o " " \o clock(":")
        [] format = "rfc3339" -> day \o "T" \o clock(":") \o "Z"
        [] format = "iso_offset" ->
             day \o "T" \o clock(":") \o (IF offset < 0 THEN "-" ELSE "+")
               \o Write2(distance \div 60) \o ":" \o Write2(distance % 60)
-----------------------------------------------------------------------------
(* .date_epochs: divisor, fraction (in quarters), shift, and does it count the*)
(* 29th of February 1900? Another origin is the text of its day.              *)
Epochs ==
  [unix       |-> <<1, 0, 0, FALSE>>,          excel    |-> <<1, 0, -25569, TRUE>>,
   excel1904  |-> <<1, 0, -24107, FALSE>>,     sas      |-> <<1, 0, -3653, FALSE>>,
   stata      |-> <<1, 0, -3653, FALSE>>,      spss     |-> <<86400, 0, -141428, FALSE>>,
   matlab     |-> <<1, 0, -719529, FALSE>>,    mjd      |-> <<1, 0, -40587, FALSE>>,
   julian_day |-> <<1, 2, -2440588, FALSE>>,   rata_die |-> <<1, 0, -719163, FALSE>>]
EpochSpec ==
  LET spec == IF calling.format \in DOMAIN Epochs THEN Epochs[calling.format]
              ELSE <<1, 0, ParseDate(calling.format, "iso"), FALSE>>
  IN  [divisor |-> spec[1], frac |-> spec[2], shift |-> spec[3], excel |-> spec[4]]

(* Variant: the serial of 29 February 1900 is taken for the day before it.    *)
EpochDayEarly(whole, epoch) ==
  IF epoch.excel /\ whole < 60 THEN whole + epoch.shift + 1 ELSE whole + epoch.shift

EpochDay(whole, epoch) ==
  IF ~epoch.excel THEN whole + epoch.shift
  ELSE IF whole = 60 THEN NoDate
  ELSE whole + epoch.shift + (IF whole < 61 THEN 1 ELSE 0)
EpochDayFromDouble(quarters, epoch) ==
  IF quarters = NoDate THEN NoDate
  ELSE EpochDay((quarters + epoch.frac * epoch.divisor) \div (4 * epoch.divisor), epoch)
EpochDayFromInt(value, epoch) ==
  IF value = NoDate THEN NoDate
  ELSE IF epoch.divisor = 1 THEN EpochDay(value, epoch)
  ELSE EpochDayFromDouble(4 * value, epoch)
EpochScalar(value) ==
  IF calling.type = "int" THEN EpochDayFromInt(value, calling.epoch)
  ELSE EpochDayFromDouble(value, calling.epoch)

(* A lane of the vector kernels: the sum is made in any case, and chosen last.*)
EpochLane(value) ==
  LET epoch  == calling.epoch
      scaled == epoch.divisor # 1 \/ epoch.frac # 0
      whole  == IF calling.type = "int" THEN value
                ELSE IF scaled /\ ~epoch.excel
                THEN (value + epoch.frac * epoch.divisor) \div (4 * epoch.divisor)
                ELSE value \div 4
      day    == whole + epoch.shift + (IF epoch.excel /\ whole < 61 THEN 1 ELSE 0)
  IN  IF value = NoDate \/ (epoch.excel /\ whole = 60) THEN NoDate ELSE day
-----------------------------------------------------------------------------
DateRows == DOMAIN calling.entries
Epoch == calling.fn = "epoch"
Writes == calling.fn \in {"format_date", "format_date_parts", "format_datetime"}
SlotWidth == IF calling.fn = "format_datetime" THEN 25 ELSE 10
NaLength == 255

(* What a worker makes of one row: DateFormatWorker, PartsFormatWorker,       *)
(* DateTimeFormatWorker; DatePartsWorker, DateParseWorker, DateTimeParseWorker.*)
DateText(row) == IF DateParts(row) = NoDate THEN NoDate ELSE FormatYmd(calling.format, DateParts(row))
PartsText(row) == IF PartsInWidth(calling.format, row) THEN FormatYmd(calling.format, row) ELSE NoDate
TimeText(row) ==
  LET parts == DatetimeParts(row, calling.offset)
  IN  IF parts = NoDate THEN NoDate ELSE FormatDatetime(parts, calling.format, calling.offset)
RowText(row) ==
  CASE calling.fn = "format_date" -> DateText(row)
    [] calling.fn = "format_date_parts" -> PartsText(row)
    [] calling.fn = "format_datetime" -> TimeText(row)
DateOf(row) == IF row = NoDate THEN NoDate ELSE ParseDate(row, calling.format)
TimeOf(row) == IF row = NoDate THEN NoDate ELSE ParseDatetime(row, calling.format)
RowNumber(row) ==
  CASE calling.fn = "date_parts" -> DateParts(row)
    [] calling.fn = "parse_date" -> DateOf(row)
    [] calling.fn = "parse_datetime" -> TimeOf(row)

DatesInit ==
  /\ calling \in DateCalls
  /\ portions = {} /\ slots = <<>> /\ lengths = <<>> /\ numbers = <<>> /\ dated = <<>>

(* The origin is looked up; then dispatch_for(): ranges of rows.              *)
StartDates ==
  /\ portions = {}
  /\ \E cuts \in SUBSET (1 .. Len(calling.entries) - 1) :
       portions' = {[at |-> b, from |-> b, to |-> Min({c \in cuts \cup {Len(calling.entries)} : c >= b})] :
                      b \in {1} \cup {c + 1 : c \in cuts}}
  /\ slots' = IF Writes THEN [k \in 1 .. Len(calling.entries) * SlotWidth |-> "."] ELSE <<>>
  /\ lengths' = IF Writes THEN [i \in DateRows |-> NaLength] ELSE <<>>
  /\ numbers' = IF Writes THEN <<>> ELSE [i \in DateRows |-> Unset]
  /\ calling' = IF Epoch THEN [epoch |-> EpochSpec] @@ calling ELSE calling
  /\ UNCHANGED dated

MovedTo(portion, i) == portions' = (portions \ {portion}) \cup {[portion EXCEPT !.at = i]}

(* The text goes into the row's slot, which it may leave open.                *)
WriteText(portion) ==
  LET i == portion.at
      text == RowText(calling.entries[i])
      slot == (i - 1) * SlotWidth
  IN  /\ Writes
      /\ slots' = IF text = NoDate THEN slots
                  ELSE [k \in DOMAIN slots |-> IF k - slot \in 1 .. Len(text) THEN Char(text, k - slot) ELSE slots[k]]
      /\ lengths' = [lengths EXCEPT ![i] = IF text = NoDate THEN NaLength ELSE Len(text)]
      /\ MovedTo(portion, i + 1)
      /\ UNCHANGED numbers

WriteNumber(portion) ==
  /\ ~Writes /\ ~Epoch
  /\ numbers' = [numbers EXCEPT ![portion.at] = RowNumber(calling.entries[portion.at])]
  /\ MovedTo(portion, portion.at + 1)
  /\ UNCHANGED <<slots, lengths>>

(* EpochDateWorker: a copy of counts that are days already; or the kernel that*)
(* was picked. The one that streams begins with a single row if the range does*)
(* at an address that is not aligned; pairs follow, and a single row may end. *)
Relabel ==
  calling.type = "int" /\ ~calling.epoch.excel /\ calling.epoch.divisor = 1 /\ calling.epoch.shift = 0
Stream == Len(calling.entries) >= StreamThreshold
Vector == calling.avx /\ (calling.type = "double" \/ calling.epoch.divisor = 1)
Aligned(i) == (i + calling.odd) % 2 = 0
StartsAlone(portion) == Stream /\ portion.at = portion.from /\ ~Aligned(portion.at)

EpochCopy(portion) ==
  /\ Epoch /\ Relabel
  /\ numbers' = [i \in DateRows |-> IF i \in portion.from .. portion.to THEN calling.entries[i] ELSE numbers[i]]
  /\ MovedTo(portion, portion.to + 1)
EpochPair(portion) ==
  LET i == portion.at
  IN  /\ Epoch /\ ~Relabel /\ Vector /\ ~StartsAlone(portion) /\ i + 1 <= portion.to
      /\ numbers' = [numbers EXCEPT ![i] = EpochLane(calling.entries[i]), ![i + 1] = EpochLane(calling.entries[i + 1])]
      /\ MovedTo(portion, i + 2)
EpochSingle(portion) ==
  /\ Epoch /\ ~Relabel
  /\ Vector => StartsAlone(portion) \/ portion.at = portion.to
  /\ numbers' = [numbers EXCEPT ![portion.at] = EpochScalar(calling.entries[portion.at])]
  /\ MovedTo(portion, portion.at + 1)

DateRow ==
  /\ dated = <<>>
  /\ \E portion \in portions :
       /\ portion.at <= portion.to
       /\ \/ WriteText(portion)
          \/ WriteNumber(portion)
          \/ (EpochCopy(portion) \/ EpochPair(portion) \/ EpochSingle(portion)) /\ UNCHANGED <<slots, lengths>>
  /\ UNCHANGED <<calling, dated>>

(* The strings of the slots; other results are the arrays themselves.         *)
FinishDates ==
  /\ portions # {} /\ dated = <<>> /\ \A portion \in portions : portion.at > portion.to
  /\ dated' = [i \in DateRows |->
        IF ~Writes THEN numbers[i]
        ELSE IF lengths[i] = NaLength THEN NoDate
        ELSE Concat(SubSeq(slots, (i - 1) * SlotWidth + 1, (i - 1) * SlotWidth + lengths[i]))]
  /\ UNCHANGED <<calling, portions, slots, lengths, numbers>>

DatesNext == StartDates \/ DateRow \/ FinishDates
-----------------------------------------------------------------------------
(* The calendar by its rule: days before a year, and before a month of it.    *)
LeapsBefore(y) == (y + 3) \div 4 - (y + 99) \div 100 + (y + 399) \div 400
DayOf(y, m, d) ==
  365 * y + LeapsBefore(y) + <<0, 31, 59, 90, 120, 151, 181, 212, 243, 273, 304, 334>>[m]
    + (IF m > 2 THEN LeapsBefore(y + 1) - LeapsBefore(y) ELSE 0) + d - 1 - 719528
MonthEnd(y, m) ==
  IF m = 12 THEN 31 ELSE DayOf(y, m + 1, 1) - DayOf(y, m, 1)
FieldsOf(day) ==
  LET n == day + 719528
      y == Max({y \in n \div 366 .. n \div 365 : DayOf(y, 1, 1) <= day})
      m == Max({m \in 1 .. 12 : DayOf(y, m, 1) <= day})
  IN  <<y, m, day - DayOf(y, m, 1) + 1>>
Expressible(day) == DayOf(0, 1, 1) <= day /\ day <= DayOf(9999, 12, 31)

(* The day that a text names in a layout, by looking for one that is written  *)
(* so; fields left out are those of 1970-01-01.                               *)
Shows(text, part) == \E k \in 1 .. Len(text) - Len(part) + 1 : SubSeq(text, k, k + Len(part) - 1) = part
DayRead(text, format) ==
  LET has(f) == f \in Range(Layouts[format])
      years  == IF has("y") THEN {y \in Years : Shows(text, Write4(y))} ELSE {1970}
      months == IF has("m") THEN {m \in 1 .. 12 : Shows(text, Write2(m))} ELSE {1}
      days   == IF has("d") THEN {d \in 1 .. 31 : Shows(text, Write2(d))} ELSE {1}
      fits   == {p \in years \X months \X days : p[3] <= MonthEnd(p[1], p[2]) /\ FormatYmd(format, p) = text}
  IN  IF fits = {} THEN NoDate ELSE LET p == CHOOSE p \in fits : TRUE IN DayOf(p[1], p[2], p[3])

(* A time of day, a fraction of a second, and a zone.                         *)
Twos(n) == {Write2(k) : k \in 0 .. n}
Clock(s, c) ==
  LET p == IF c = "" THEN <<1, 3, 5>> ELSE <<1, 4, 7>>
      two(k) == Char(s, p[k]) \o Char(s, p[k] + 1)
  IN  IF /\ two(1) \in Twos(23) /\ two(2) \in Twos(59) /\ two(3) \in Twos(59)
         /\ s = two(1) \o c \o two(2) \o c \o two(3)
      THEN 3600 * Parse2(two(1), 1) + 60 * Parse2(two(2), 1) + Parse2(two(3), 1) ELSE NoDate
Billionths(s) == Parse4(s, 1) * 100000 + Parse4(s, 5) * 10 + Value(Char(s, 9))
Decimals(s) == \A k \in 1 .. Len(s) : Value(Char(s, k)) # NoDate
Seconds(s) ==
  IF s = "" THEN 0
  ELSE IF Char(s, 1) = "." /\ Len(s) > 1 /\ Decimals(SubSeq(s, 2, Len(s)))
  THEN Billionths(SubSeq(SubSeq(s, 2, Len(s)) \o "000000000", 1, 9)) ELSE NoDate
Zones ==
  {"Z", "z"} \cup {sign \o Write2(h) \o ":" \o Write2(m) : sign \in {"+", "-"}, h \in 0 .. 23, m \in 0 .. 59}
Minutes(zone) ==
  IF zone \in {"", "Z", "z"} THEN 0
  ELSE (60 * Parse2(zone, 2) + Parse2(zone, 5)) * (IF Char(zone, 1) = "+" THEN 1 ELSE -1)
DatetimeRead(text, format) ==
  LET compact == format = "compact"
      split == IF compact THEN 8 ELSE 10
      day == DayRead(SubSeq(text, 1, split), IF compact THEN "compact" ELSE "iso")
      sec == IF compact THEN Clock(SubSeq(text, 9, Len(text)), "") ELSE Clock(SubSeq(text, 12, 19), ":")
      rest == SubSeq(text, 20, Len(text))
      zoned == format \notin {"iso", "compact"}
      fits == {k \in 0 .. Len(rest) :
                 /\ Seconds(SubSeq(rest, 1, k)) # NoDate
                 /\ SubSeq(rest, k + 1, Len(rest)) \in (IF zoned THEN Zones ELSE {""})}
      fit == CHOOSE k \in fits : TRUE
  IN  IF Len(text) < (IF compact THEN 14 ELSE 19) \/ NoDate \in {day, sec} \/ fits = {} THEN NoDate
      ELSE IF ~compact /\ Char(text, 11) \notin (IF format = "iso" THEN {" "} ELSE {" ", "T", "t"}) THEN NoDate
      ELSE [day |-> day, nano |-> Seconds(SubSeq(rest, 1, fit)),
            sec |-> sec - 60 * Minutes(SubSeq(rest, fit + 1, Len(rest)))]

(* A day that the documentation names for a count of each epoch; after it days*)
(* are counted one by one, except that Excel counts one that was none.        *)
Landmarks ==
  [unix |-> <<0, 1970, 1, 1>>, excel |-> <<1, 1900, 1, 1>>, excel1904 |-> <<0, 1904, 1, 1>>,
   sas |-> <<0, 1960, 1, 1>>, stata |-> <<0, 1960, 1, 1>>, spss |-> <<0, 1582, 10, 14>>,
   matlab |-> <<1, 0, 1, 1>>, julian_day |-> <<2440588, 1970, 1, 1>>, mjd |-> <<0, 1858, 11, 17>>,
   rata_die |-> <<1, 1, 1, 1>>]
Counted(row) ==
  LET whole == CASE calling.type = "int" /\ calling.format # "spss" -> row
                 [] calling.type = "int" -> row \div 86400
                 [] calling.format = "spss" -> row \div (4 * 86400)
                 [] calling.format = "julian_day" -> (row + 2) \div 4
                 [] OTHER -> row \div 4
      mark == IF calling.format \in DOMAIN Landmarks THEN Landmarks[calling.format]
              ELSE <<0>> \o FieldsOf(DayRead(calling.format, "iso"))
      skipped == IF calling.format = "excel" /\ whole > 60 THEN 1 ELSE 0
  IN  IF row = NoDate \/ (calling.format = "excel" /\ whole = 60) THEN NoDate
      ELSE DayOf(mark[2], mark[3], mark[4]) + whole - mark[1] - skipped

(* The instant of a text written with a zone, or in UTC, to the second.       *)
Normal(v) == [day |-> v.day + (v.sec \div 86400), sec |-> v.sec % 86400]
TimeRight(row, text) ==
  IF row = NoDate THEN text = NoDate
  ELSE IF ~Expressible((Normal([row EXCEPT !.sec = @ + 60 * calling.offset])).day) THEN text = NoDate
  ELSE /\ Len(text) = [iso |-> 19, rfc3339 |-> 20, compact |-> 14, iso_offset |-> 25][calling.format]
       /\ DatetimeRead(text, calling.format) # NoDate
       /\ Normal(DatetimeRead(text, calling.format)) = Normal(row)

Right(row, answer) ==
  CASE calling.fn = "date_parts" ->
         answer = IF row = NoDate THEN NoDate
                  ELSE IF Expressible(row \div 4) THEN FieldsOf(row \div 4) ELSE NoDate
    [] calling.fn = "format_date" ->
         IF row = NoDate THEN answer = NoDate
         ELSE IF ~Expressible(row \div 4) THEN answer = NoDate
         ELSE LET ymd == FieldsOf(row \div 4)
                  left == [f \in 1 .. 3 |-> IF <<"y", "m", "d">>[f] \in Range(Layouts[calling.format])
                                            THEN ymd[f] ELSE <<1970, 1, 1>>[f]]
              IN  /\ answer = FormatYmd(calling.format, ymd)
                  /\ left[3] <= MonthEnd(left[1], left[2]) =>
                       ParseDate(answer, calling.format) = DayOf(left[1], left[2], left[3])
    [] calling.fn = "format_date_parts" ->
         answer = IF PartsInWidth(calling.format, row) THEN FormatYmd(calling.format, row) ELSE NoDate
    [] calling.fn = "parse_date" -> answer = IF row = NoDate THEN NoDate ELSE DayRead(row, calling.format)
    [] calling.fn = "parse_datetime" ->
         answer = IF row = NoDate THEN NoDate ELSE DatetimeRead(row, calling.format)
    [] calling.fn = "format_datetime" -> TimeRight(row, answer)
    [] calling.fn = "epoch" -> answer = Counted(row)

(* Every row has the answer that the calendar defines, whatever ranges it is  *)
(* in and whichever kernel makes it; and pairs are streamed to addresses that *)
(* are aligned.                                                               *)
DatesExact ==
  /\ dated # <<>> => \A i \in DateRows : Right(calling.entries[i], dated[i])
  /\ \A portion \in portions :
       portion.at < portion.to /\ Epoch =>
         Relabel \/ ~Stream \/ ~Vector \/ StartsAlone(portion) \/ Aligned(portion.at)
=============================================================================
