------------------------------ MODULE TextFunctions ------------------------------
(* What the text tools make of one string (text_tools.cpp). A string is a     *)
(* sequence of bytes; `utf8` says whether it is taken for UTF-8, or for bytes *)
(* of which only ASCII means anything. The tables (case_table.h,              *)
(* shape_table.h, html_entities.h) are external; here they hold an extract.   *)
EXTENDS Utf8, SequencesExt, FiniteSetsExt

Upper == 65 .. 90
Lower == 97 .. 122
Digits == 48 .. 57
AsciiLower(c) == IF c \in Upper THEN c + 32 ELSE c
AsciiUpper(c) == IF c \in Lower THEN c - 32 ELSE c
Folded(text, ignoreCase) == IF ignoreCase THEN [k \in DOMAIN text |-> AsciiLower(text[k])] ELSE text

(* shape_class(): 1 upper and title case, 2 lower case, 3 other letters,      *)
(* 4 digits, 5 combining marks, 0 none of these.                              *)
ShapeTable == (201 :> 1) @@ (304 :> 1) @@ (453 :> 1) @@ (931 :> 1) @@ (927 :> 1)
           @@ (223 :> 2) @@ (233 :> 2) @@ (454 :> 2) @@ (959 :> 2) @@ (962 :> 2) @@ (963 :> 2)
           @@ (170 :> 3) @@ (1632 :> 4) @@ (769 :> 5) @@ (775 :> 5)
ShapeClass(point) == IF point \in DOMAIN ShapeTable THEN ShapeTable[point] ELSE 0

(* char_class() *)
CharClass(point) ==
  CASE point \in Upper -> 1 [] point \in Lower -> 2 [] point \in Digits -> 4
    [] OTHER -> ShapeClass(point)

IsCased(point) == CharClass(point) \in {1, 2}
IsWordChar(point) == CharClass(point) \in 1 .. 5
IsApostrophe(point) == point \in {39, 8217}
IsCaseIgnorable(point) == CharClass(point) = 5 \/ IsApostrophe(point) \/ point = 173

(* CASE_ENTRIES: upper, lower and title mappings, of one or more points.      *)
CaseTable ==
  [form \in {"upper", "lower", "title"} |->
    LET u == form # "lower"
        t == form = "title"
    IN  IF u THEN (233 :> <<201>>) @@ (201 :> <<201>>) @@ (963 :> <<931>>) @@ (931 :> <<931>>)
                  @@ (962 :> <<931>>) @@ (959 :> <<927>>) @@ (927 :> <<927>>) @@ (304 :> <<304>>)
                  @@ (223 :> IF t THEN <<83, 115>> ELSE <<83, 83>>)
                  @@ (453 :> IF t THEN <<453>> ELSE <<452>>)
                  @@ (454 :> IF t THEN <<453>> ELSE <<452>>)
        ELSE (233 :> <<233>>) @@ (201 :> <<233>>) @@ (963 :> <<963>>) @@ (931 :> <<963>>)
             @@ (962 :> <<962>>) @@ (959 :> <<959>>) @@ (927 :> <<959>>)
             @@ (304 :> <<105, 775>>) @@ (223 :> <<223>>) @@ (453 :> <<454>>) @@ (454 :> <<454>>)]

(* The characters of a string: [bytes, point], the point None of a byte that  *)
(* begins none.                                                               *)
NoPoint == -1
CharWidth(s, i, utf8) ==
  IF ~utf8 \/ s[i] < 128 \/ Utf8Decode(s, i) = None THEN 1 ELSE Utf8Decode(s, i).width
Chars(s, utf8) ==
  LET from[i \in 1 .. Len(s) + 1] ==
        IF i > Len(s) THEN <<>>
        ELSE LET w == CharWidth(s, i, utf8)
             IN  <<[bytes |-> SubSeq(s, i, i + w - 1),
                    point |-> IF s[i] < 128 THEN s[i]
                              ELSE IF utf8 /\ Utf8Decode(s, i) # None THEN Utf8Decode(s, i).point
                              ELSE NoPoint]>> \o from[i + w]
  IN  from[1]
Joined(parts, sep) ==
  FoldLeft(LAMBDA out, part : IF out = <<>> THEN part ELSE out \o sep \o part, <<>>, parts)
Text(points) == FlattenSeq([k \in DOMAIN points |-> Utf8Bytes(points[k])])
-----------------------------------------------------------------------------
(* append_cased() *)
Cased(c, form) ==
  CASE c.point \in 0 .. 127 ->
         <<IF form = "lower" THEN AsciiLower(c.point) ELSE AsciiUpper(c.point)>>
    [] c.point \in DOMAIN CaseTable[form] -> Text(CaseTable[form][c.point])
    [] OTHER -> c.bytes

(* final_sigma(), of the k-th character: one with case comes right before it, *)
(* and none behind it but for those looked through.                           *)
FinalSigma(cs, k) ==
  /\ k > 1 /\ IsCased(cs[k - 1].point)
  /\ LET behind == {q \in k + 1 .. Len(cs) : ~IsCaseIgnorable(cs[q].point)}
     IN  behind # {} => ~IsCased(cs[Min(behind)].point)

(* One character of a string or word, lower-cased in its place.               *)
LowerAt(cs, k) ==
  IF cs[k].point = 931 /\ FinalSigma(cs, k) THEN Utf8Bytes(962) ELSE Cased(cs[k], "lower")

(* case_string(), and already_cased_ascii() before it. *)
CaseString(s, upper) ==
  LET cs == Chars(s, TRUE)
  IN  FlattenSeq([k \in DOMAIN cs |-> IF upper THEN Cased(cs[k], "upper") ELSE LowerAt(cs, k)])
AlreadyCased(s, upper) ==
  \A k \in DOMAIN s : s[k] < 128 /\ s[k] \notin (IF upper THEN Lower ELSE Upper)

(* split_words(): letters, digits and marks, and an apostrophe between two of *)
(* them; a word is the set of its characters' places.                         *)
InWord(cs, k) ==
  \/ IsWordChar(cs[k].point)
  \/ /\ IsApostrophe(cs[k].point)
     /\ k > 1 /\ IsWordChar(cs[k - 1].point)
     /\ k < Len(cs) /\ IsWordChar(cs[k + 1].point)
WordAt(cs, k) ==
  LET joined(p) == \A q \in Min({p, k}) .. Max({p, k}) : InWord(cs, q)
  IN  IF InWord(cs, k) THEN {p \in DOMAIN cs : joined(p)} ELSE {}
Words(cs) == {WordAt(cs, k) : k \in DOMAIN cs} \ {{}}

(* title_word() *)
TitleWord(word, nameRules) ==
  LET size   == Len(FlattenSeq([k \in DOMAIN word |-> word[k].bytes]))
      second == IF Len(word) > 1 THEN word[2].point ELSE NoPoint
      forced == /\ nameRules /\ size >= 3 /\ word[1].point \in 0 .. 127
                /\ \/ IsApostrophe(second)
                   \/ AsciiLower(word[1].point) = 109 /\ AsciiLower(second) = 99
  IN  FlattenSeq([k \in DOMAIN word |->
        IF (k = 1 /\ IsCased(word[k].point)) \/ (forced /\ k = 3) THEN Cased(word[k], "title")
        ELSE LowerAt(word, k)])

RomanSuffixes == {<<105, 105>>, <<105, 105, 105>>, <<105, 118>>}   \* "ii", "iii", "iv", ...

(* title_case_string() *)
TitleCharacters(cs, words, particles, nameRules) ==
  LET first == Min(UNION words)
      final == Max(UNION words)
      chars(w) == SubSeq(cs, Min(w), Max(w))
      all(w, form) == FlattenSeq([k \in DOMAIN chars(w) |->
                        IF form = "upper" THEN Cased(chars(w)[k], form) ELSE LowerAt(chars(w), k)])
      plain(w) == \A k \in w : cs[k].point \in 0 .. 127
      low(w)   == [k \in DOMAIN chars(w) |-> AsciiLower(chars(w)[k].point)]
      made(w)  == CASE nameRules /\ plain(w) /\ first \notin w /\ low(w) \in RomanSuffixes
                         -> all(w, "upper")
                    [] nameRules /\ plain(w) /\ first \notin w /\ final \notin w
                         /\ low(w) \in particles -> all(w, "lower")
                    [] OTHER -> TitleWord(chars(w), nameRules)
  IN  FlattenSeq([k \in DOMAIN cs |->
        IF WordAt(cs, k) = {} THEN cs[k].bytes
        ELSE IF k = Min(WordAt(cs, k)) THEN made(WordAt(cs, k)) ELSE <<>>])

TitleIn(cs, particles, nameRules) == TitleCharacters(cs, Words(cs), particles, nameRules)
TitleCase(s, particles, nameRules) == TitleIn(Chars(s, TRUE), particles, nameRules)
-----------------------------------------------------------------------------
(* split_tokens(): runs without white space, found byte by byte.              *)
Tokens(s, utf8) ==
  LET white(i) == WhitespaceWidth(s, i, utf8)
      end(i)   == Min({j \in i .. Len(s) : j = Len(s) \/ white(j + 1) # 0})
      from[i \in 1 .. Len(s) + 1] ==
        IF i > Len(s) THEN <<>>
        ELSE IF white(i) # 0 THEN from[i + white(i)]
        ELSE <<SubSeq(s, i, end(i))>> \o from[end(i) + 1]
  IN  from[1]

(* memcmp(), the shorter string first. *)
BytesLess(a, b) ==
  \/ \E k \in DOMAIN b : (\A q \in 1 .. k - 1 : q \in DOMAIN a /\ a[q] = b[q])
                         /\ (k \in DOMAIN a => a[k] < b[k])
SortedTokens(bag, unique) ==
  LET less(p, q) == BytesLess(bag[p], bag[q]) \/ (bag[p] = bag[q] /\ p < q)
      places == IF unique THEN {p \in DOMAIN bag : \A q \in 1 .. p - 1 : bag[q] # bag[p]}
                ELSE DOMAIN bag
      order == SetToSortSeq(places, less)
  IN  [k \in DOMAIN order |-> bag[order[k]]]

(* fast_token_sort_impl() *)
TokenSort(s, utf8, unique, decreasing) ==
  LET sorted == SortedTokens(Tokens(s, utf8), unique)
  IN  Joined(IF decreasing THEN Reverse(sorted) ELSE sorted, <<32>>)

(* TokenTable, fast_replace_tokens_impl(): the first entry of a key counts.   *)
(* A call with an entry that is empty or has white space in it stops before    *)
(* any string is read, and is not among the calls.                            *)
ReplaceTokens(s, utf8, from, to, ignoreCase) ==
  LET entry(token) == {k \in DOMAIN from : Folded(from[k], ignoreCase) = Folded(token, ignoreCase)}
      new(token)   == IF entry(token) = {} THEN token ELSE to[Min(entry(token))]
      tokens       == Tokens(s, utf8)
      replaced     == [k \in DOMAIN tokens |-> new(tokens[k])]
  IN  Joined(SelectSeq(replaced, LAMBDA part : part # <<>>), <<32>>)

(* fast_token_initials_impl() *)
Initials(s, utf8, sep) ==
  LET tokens == Tokens(s, utf8)
      first(t) == SubSeq(t, 1, CharWidth(t, 1, utf8))
  IN  Joined([k \in DOMAIN tokens |-> first(tokens[k])], sep)

(* AffixTable: of affixes that are equal the first is kept, and longest()     *)
(* looks every length up that some affix has, going on from what it found. A  *)
(* call with an affix that is missing or empty stops before any string is      *)
(* read, and is not among the calls.                                          *)
LongestAffix(s, affixes, suffix, ignoreCase) ==
  LET part(n) == IF suffix THEN SubSeq(s, Len(s) - n + 1, Len(s)) ELSE SubSeq(s, 1, n)
      sized(n) == {k \in DOMAIN affixes : Len(affixes[k]) = n}
      entry(n) == {k \in sized(n) : Folded(affixes[k], ignoreCase) = Folded(part(n), ignoreCase)}
      upto[n \in 0 .. Len(s)] ==
        IF n = 0 THEN 0 ELSE IF entry(n) = {} THEN upto[n - 1] ELSE Min(entry(n))
  IN  upto[Len(s)]
-----------------------------------------------------------------------------
(* fast_pad_impl() *)
Pad(s, utf8, width, side, pad) ==
  LET chars == IF utf8 THEN Cardinality({k \in DOMAIN s : ~Continuation(s[k])}) ELSE Len(s)
      extra == width - chars
      left  == CASE side = "left" -> extra [] side = "right" -> 0 [] OTHER -> extra \div 2
      some(n) == FlattenSeq([k \in 1 .. n |-> pad])
  IN  IF extra <= 0 THEN s ELSE some(left) \o s \o some(extra - left)

(* fast_string_shape_impl() *)
Shape(s, utf8, collapse, ignoreCase) ==
  LET cs == Chars(s, utf8)
      code(c) == LET class == CharClass(c.point)
                 IN  CASE class = 1 -> <<IF ignoreCase THEN 97 ELSE 65>>
                       [] class \in {2, 3} -> <<97>>
                       [] class = 4 -> <<57>>
                       [] class = 5 -> <<>>
                       [] OTHER -> c.bytes
      add(out, c) == IF collapse /\ out # <<>> /\ CharClass(c.point) \in 1 .. 4
                        /\ code(c) = <<Last(out)>> THEN out ELSE out \o code(c)
  IN  FoldLeft(add, <<>>, cs)

(* fast_reverse_impl(): by characters with their marks. Variant: without.     *)
ReversedChars(cs) == FlattenSeq([k \in DOMAIN cs |-> cs[Len(cs) + 1 - k].bytes])

ReversedIn(cs) ==
  LET mark(k) == k > 1 /\ cs[k].bytes[1] >= 128 /\ ShapeClass(cs[k].point) = 5
      cluster(k) == SubSeq(cs, k, Max({q \in k .. Len(cs) : \A r \in k + 1 .. q : mark(r)}))
      bytes(part) == FlattenSeq([k \in DOMAIN part |-> part[k].bytes])
  IN  FlattenSeq([k \in DOMAIN cs |->
        LET p == Len(cs) + 1 - k IN IF mark(p) THEN <<>> ELSE bytes(cluster(p))])
Reversed(s, utf8) == ReversedIn(Chars(s, utf8))
-----------------------------------------------------------------------------
HexDigits == Digits \cup (65 .. 70) \cup (97 .. 102)
HexValue(c) == CASE c \in Digits -> c - 48 [] c \in 65 .. 70 -> c - 55 [] OTHER -> c - 87
HexDigit(v) == IF v < 10 THEN 48 + v ELSE 55 + v
Percent == 37
EscapeAt(s, i) ==
  s[i] = Percent /\ i + 2 <= Len(s) /\ s[i + 1] \in HexDigits /\ s[i + 2] \in HexDigits

(* fast_url_encode_impl() *)
Unreserved == Upper \cup Lower \cup Digits \cup {46, 95, 126, 45}
Reserved == {91, 93, 33, 36, 38, 39, 40, 41, 42, 43, 44, 59, 61, 58, 47, 63, 64, 35}
UrlEncode(s, reserved, repeated) ==
  LET keep == IF reserved THEN Unreserved ELSE Unreserved \cup Reserved
  IN  IF ~repeated /\ \E i \in DOMAIN s : EscapeAt(s, i) THEN s
      ELSE FlattenSeq([i \in DOMAIN s |->
             IF s[i] \in keep THEN <<s[i]>>
             ELSE <<Percent, HexDigit(s[i] \div 16), HexDigit(s[i] % 16)>>])

(* fast_url_decode_impl() *)
UrlDecode(s, plus) ==
  LET from[i \in 1 .. Len(s) + 1] ==
        CASE i > Len(s) -> <<>>
          [] i <= Len(s) /\ EscapeAt(s, i) ->
               <<HexValue(s[i + 1]) * 16 + HexValue(s[i + 2])>> \o from[i + 3]
          [] OTHER -> <<IF plus /\ s[i] = 43 THEN 32 ELSE s[i]>> \o from[i + 1]
  IN  from[1]

(* fast_html_escape_impl(): "&amp;", "&lt;", "&gt;", "&quot;", "&#39;", ...   *)
EscapeTable(attribute) ==
  (38 :> <<38, 97, 109, 112, 59>>) @@ (60 :> <<38, 108, 116, 59>>) @@ (62 :> <<38, 103, 116, 59>>)
  @@ IF attribute
       THEN (34 :> <<38, 113, 117, 111, 116, 59>>) @@ (39 :> <<38, 35, 51, 57, 59>>)
            @@ (13 :> <<38, 35, 49, 51, 59>>) @@ (10 :> <<38, 35, 49, 48, 59>>)
       ELSE <<>>
HtmlEscape(s, attribute) ==
  LET table == EscapeTable(attribute)
  IN  FlattenSeq([i \in DOMAIN s |-> IF s[i] \in DOMAIN table THEN table[s[i]] ELSE <<s[i]>>])

(* find_entity(): "amp;", "amp", "lt;", "lt", "gt;", "gt", "quot;", "quot",   *)
(* "not", "notin;".                                                           *)
Entities ==
  (<<97, 109, 112, 59>> :> <<38>>) @@ (<<97, 109, 112>> :> <<38>>)
  @@ (<<108, 116, 59>> :> <<60>>) @@ (<<108, 116>> :> <<60>>)
  @@ (<<103, 116, 59>> :> <<62>>) @@ (<<103, 116>> :> <<62>>)
  @@ (<<113, 117, 111, 116, 59>> :> <<34>>) @@ (<<113, 117, 111, 116>> :> <<34>>)
  @@ (<<110, 111, 116>> :> <<172>>) @@ (<<110, 111, 116, 105, 110, 59>> :> <<8713>>)

(* append_numeric_charref() *)
TooBig == 1114112
Charref(number) ==
  CASE number = 0 -> Utf8Bytes(65533)
    [] number = 13 -> <<13>>
    [] number = 128 -> Utf8Bytes(8364)
    [] number \in 55296 .. 57343 \/ number >= TooBig -> Utf8Bytes(65533)
    [] number \in (1 .. 8) \cup {11} \cup (14 .. 31) \cup {127} -> <<>>
    [] OTHER -> Utf8Bytes(number)

(* The longest run of bytes in a set, from a place. *)
RunEnd(s, i, set) == Min({j \in i .. Len(s) + 1 : j = Len(s) + 1 \/ s[j] \notin set}) - 1
Numeral(s, i, j, base) ==   \* capped before it grows too large to hold
  LET value[k \in i - 1 .. j] ==
        IF k < i THEN 0
        ELSE IF value[k - 1] < TooBig THEN value[k - 1] * base + HexValue(s[k]) ELSE value[k - 1]
  IN  Min({value[j], TooBig})

NameBytes == (1 .. 255) \ {9, 10, 12, 32, 60, 38, 35, 59}
MaxName == 32

(* html_unescape_string(): at a "&", what is put out and where it goes on.    *)
NumberAt(s, i) ==
  LET hex   == i + 3 <= Len(s) /\ s[i + 2] \in {120, 88} /\ s[i + 3] \in HexDigits
      start == IF hex THEN i + 3 ELSE i + 2
      end   == IF start > Len(s) THEN start - 1 ELSE RunEnd(s, start, IF hex THEN HexDigits ELSE Digits)
      semi  == end < Len(s) /\ s[end + 1] = 59
  IN  IF end < start THEN [out |-> <<38>>, next |-> i + 1]
      ELSE [out |-> Charref(Numeral(s, start, end, IF hex THEN 16 ELSE 10)),
            next |-> end + 1 + IF semi THEN 1 ELSE 0]

NameChars(cs) ==
  Max({n \in 0 .. Min({Len(cs), MaxName}) : \A k \in 1 .. n : cs[k].bytes[1] \in NameBytes})
PlainChars(cs, n) == Max({p \in 0 .. n : \A k \in 1 .. p : cs[k].bytes[1] < 128})

(* A name of n characters, the first `plain` of them ASCII.                   *)
Named(name, n, plain) ==
  LET known == {x \in 2 .. Min({n - 1, plain}) : SubSeq(name, 1, x) \in DOMAIN Entities}
  IN  IF plain >= n /\ name \in DOMAIN Entities THEN Text(Entities[name])
      ELSE IF known # {}
        THEN Text(Entities[SubSeq(name, 1, Max(known))]) \o SubSeq(name, Max(known) + 1, Len(name))
      ELSE <<38>> \o name
NameOf(s, i, size, chars, plain) ==
  LET semi == IF i + size < Len(s) /\ s[i + size + 1] = 59 THEN 1 ELSE 0
  IN  IF chars = 0 THEN [out |-> <<38>>, next |-> i + 1]
      ELSE [out  |-> Named(SubSeq(s, i + 1, i + size + semi), chars + semi,
                           IF plain = chars THEN plain + semi ELSE plain),
            next |-> i + size + semi + 1]
NameRun(s, i, cs, chars) ==
  NameOf(s, i, Len(FlattenSeq([k \in 1 .. chars |-> cs[k].bytes])), chars, PlainChars(cs, chars))
NameIn(s, i, cs) == NameRun(s, i, cs, NameChars(cs))
NameAt(s, i) == NameIn(s, i, Chars(SubSeq(s, i + 1, Len(s)), TRUE))

HtmlUnescape(s) ==
  LET from[i \in 1 .. Len(s) + 1] ==
        IF i > Len(s) THEN <<>>
        ELSE IF s[i] # 38 THEN <<s[i]>> \o from[i + 1]
        ELSE LET r == IF i < Len(s) /\ s[i + 1] = 35 THEN NumberAt(s, i) ELSE NameAt(s, i)
             IN  r.out \o from[r.next]
  IN  from[1]
-----------------------------------------------------------------------------
(* ascii_fold(), fingerprint() and ngram_fingerprint() on one string          *)
(* (fold_text.cpp). The tables (ascii_fold_table.h, fingerprint_table.h) are  *)
(* external; here they hold an extract, by code point.                        *)
AsciiFoldTable ==
  (160 :> <<32>>) @@ (189 :> <<32, 49, 47, 50>>) @@ (198 :> <<65, 69>>) @@ (201 :> <<69>>)
  @@ (223 :> <<115, 115>>) @@ (233 :> <<101>>) @@ (304 :> <<73>>) @@ (494 :> <<439>>)
  @@ (836 :> <<776, 769>>) @@ (8217 :> <<39>>) @@ (64257 :> <<102, 105>>)
FoldMark(point) == point \in {769, 775, 776}
FoldLatin(point) == point \in {170, 198, 201, 223, 233, 304, 439, 494, 64257}
Alnum == Upper \cup Lower \cup Digits

(* append_folded(): what is left of other scripts is replaced if there is     *)
(* something to replace it with.                                              *)
Appended(bytes, hasSub, sub) ==
  LET cs == Chars(bytes, TRUE)
  IN  IF ~hasSub THEN bytes
      ELSE FlattenSeq([k \in DOMAIN cs |-> IF cs[k].point \in 0 .. 127 THEN cs[k].bytes ELSE sub])

(* ascii_fold_string(): marks behind a Latin character or a digit go.         *)
FoldedOf(c) == IF c.point \in DOMAIN AsciiFoldTable THEN Text(AsciiFoldTable[c.point]) ELSE c.bytes
AsciiFold(s, hasSub, sub) ==
  LET add(u, c) ==
        IF u.afterLatin /\ FoldMark(c.point) THEN u
        ELSE [out |-> u.out \o Appended(FoldedOf(c), hasSub, sub),
              afterLatin |-> c.point \in Alnum \/ FoldLatin(c.point)]
  IN  FoldLeft(add, [out |-> <<>>, afterLatin |-> FALSE], Chars(s, TRUE)).out
-----------------------------------------------------------------------------
FingerprintAscii(c) ==
  CASE c \in Upper -> <<c + 32>>
    [] c \in Lower \cup Digits \cup (9 .. 13) \cup {32, 36, 43, 60, 61, 62, 124, 126} -> <<c>>
    [] OTHER -> <<>>
FingerprintTable ==
  (160 :> <<32>>) @@ (168 :> <<32>>) @@ (189 :> <<49, 8260, 50>>) @@ (198 :> <<97, 101>>)
  @@ (201 :> <<101>>) @@ (223 :> <<115, 115>>) @@ (233 :> <<101>>) @@ (304 :> <<105>>)
  @@ (769 :> <<>>) @@ (775 :> <<>>) @@ (776 :> <<>>) @@ (902 :> <<945>>) @@ (927 :> <<959>>)
  @@ (931 :> <<963>>) @@ (8217 :> <<>>) @@ (12288 :> <<32>>) @@ (64257 :> <<102, 105>>)

(* The jamo of a Hangul syllable. *)
HangulSyllables == 44032 .. 55203
Jamo(index) ==
  <<4352 + (index \div 588), 4449 + ((index % 588) \div 28)>>
    \o IF index % 28 = 0 THEN <<>> ELSE <<4519 + (index % 28)>>

(* fingerprint_normalize() *)
Normalized(c) ==
  CASE c.point \in 0 .. 127 -> FingerprintAscii(c.point)
    [] c.point \in HangulSyllables -> Text(Jamo(c.point - 44032))
    [] c.point \in DOMAIN FingerprintTable -> Text(FingerprintTable[c.point])
    [] OTHER -> c.bytes
FingerprintNormalize(s) ==
  LET cs == Chars(s, TRUE) IN FlattenSeq([k \in DOMAIN cs |-> Normalized(cs[k])])

(* FingerprintWorker: the words, in order and once. *)
Fingerprint(s) == Joined(SortedTokens(Tokens(FingerprintNormalize(s), TRUE), TRUE), <<32>>)

(* NgramFingerprintWorker: without white space and controls, a byte that is   *)
(* no character as a point above all others.                                  *)
AboveUnicode == 1114112
GramPoint(c) == IF c.point = NoPoint THEN AboveUnicode + c.bytes[1] ELSE c.point
Put(point) == IF point >= AboveUnicode THEN <<point - AboveUnicode>> ELSE Utf8Bytes(point)
GramPoints(cs) ==
  SelectSeq([k \in DOMAIN cs |-> GramPoint(cs[k])],
            LAMBDA p : ~(p < 32 \/ p \in 127 .. 159 \/ WhiteSpacePoint(p)))
Grams(points, n) ==
  IF Len(points) < n THEN points
  ELSE FlattenSeq(SortedTokens([k \in 1 .. Len(points) - n + 1 |-> SubSeq(points, k, k + n - 1)], TRUE))
NgramsOf(points, n) == LET ps == Grams(points, n) IN FlattenSeq([k \in DOMAIN ps |-> Put(ps[k])])
NgramFingerprint(s, n) == NgramsOf(GramPoints(Chars(FingerprintNormalize(s), TRUE)), n)
-----------------------------------------------------------------------------
(* What is promised of folding (fold_text.R): decomposed text folds as        *)
(* composed text does; with an ASCII substitute nothing but ASCII is left.    *)
Decomposition == (201 :> <<69, 769>>) @@ (233 :> <<101, 769>>)
Decomposed(c) == IF c.point \in DOMAIN Decomposition THEN Text(Decomposition[c.point]) ELSE c.bytes
DecomposedText(cs) == FlattenSeq([k \in DOMAIN cs |-> Decomposed(cs[k])])
FoldPromised(s, o, hasSub, sub) ==
  /\ hasSub /\ (\A k \in DOMAIN sub : sub[k] < 128) => \A k \in DOMAIN o : o[k] < 128
  /\ AsciiFold(DecomposedText(Chars(s, TRUE)), hasSub, sub) = o

(* Of the keys: values that differ in the order and the number of their words *)
(* or in case, or for the n-grams in their spaces, have the same.             *)
Shouted(s) == [k \in DOMAIN s |-> AsciiUpper(s[k])]
Rotated(tokens) == Joined(Reverse(tokens) \o tokens, <<9, 32>>)
FingerprintPromised(s, o) ==
  /\ Fingerprint(Shouted(s)) = o
  /\ Fingerprint(Rotated(Tokens(s, TRUE))) = o
  /\ LET words == Tokens(o, TRUE)
     IN  Joined(words, <<32>>) = o /\ \A k \in 2 .. Len(words) : BytesLess(words[k - 1], words[k])

(* And the n-grams of a key, in the order of their characters, are all those  *)
(* of the value.                                                              *)
GramsPromised(points, key, n) ==
  IF Len(points) < n THEN key = points
  ELSE LET gram(k) == SubSeq(key, n * (k - 1) + 1, n * k)
           count == Len(key) \div n
       IN  /\ Len(key) % n = 0
           /\ {gram(k) : k \in 1 .. count} = {SubSeq(points, k, k + n - 1) : k \in 1 .. Len(points) - n + 1}
           /\ \A k \in 2 .. count : BytesLess(gram(k - 1), gram(k))
PointsOf(s) == GramPoints(Chars(s, TRUE))
NgramPromised(s, o, n, valid) ==
  /\ NgramFingerprint(Joined(Tokens(s, TRUE), <<>>), n) = o
  /\ NgramFingerprint(Shouted(s), n) = o
  /\ valid => GramsPromised(PointsOf(FingerprintNormalize(s)), PointsOf(o), n)
=============================================================================
