------------------------------ MODULE Phonetics ------------------------------
(* The phonetic codes of a name (fgrepl_phonetic.cpp, caverphone_core.h,      *)
(* latin_fold.h). A name is a sequence of characters: ASCII characters are    *)
(* one-letter strings, others are named by their code points. Folding makes a *)
(* string of it, in which "~" is a byte that is not ASCII. Codes are strings; *)
(* a name without a code has NoCode.                                          *)
EXTENDS Integers, SequencesExt, FiniteSetsExt

CONSTANT NoCode

At(s, i) == IF i \in 1 .. Len(s) THEN SubSeq(s, i, i) ELSE ""
Part(s, i, j) == SubSeq(s, IF i < 1 THEN 1 ELSE i, IF j > Len(s) THEN Len(s) ELSE j)
Letters(s) == [k \in 1 .. Len(s) |-> SubSeq(s, k, k)]
Spelled(letters) == FoldLeft(LAMBDA s, c : s \o c, "", letters)
In(c, set) == \E k \in 1 .. Len(set) : SubSeq(set, k, k) = c
Starts(s, p) == Len(p) <= Len(s) /\ SubSeq(s, 1, Len(p)) = p
Ends(s, p) == Len(p) <= Len(s) /\ SubSeq(s, Len(s) - Len(p) + 1, Len(s)) = p
Has(s, i, p) == i >= 1 /\ i + Len(p) - 1 <= Len(s) /\ SubSeq(s, i, i + Len(p) - 1) = p
Capped(s, n) == SubSeq(s, 1, IF n < Len(s) THEN n ELSE Len(s))
(* The value of the first rule whose condition holds. *)
FirstRule(rules) == rules[Min({k \in DOMAIN rules : rules[k][1]})][2]
Lower == "abcdefghijklmnopqrstuvwxyz"
Upper == "ABCDEFGHIJKLMNOPQRSTUVWXYZ"
CaseOf == [c \in {At(Lower, k) : k \in 1 .. 26} |-> At(Upper, CHOOSE k \in 1 .. 26 : At(Lower, k) = c)]
ToUpper(c) == IF c \in DOMAIN CaseOf THEN CaseOf[c] ELSE c
ToLower(c) == IF c \in Range(CaseOf) THEN AntiFunction(CaseOf)[c] ELSE c
IsAlpha(c) == In(ToUpper(c), Upper)
IsVowel(c) == In(c, "AEIOU")

(* fold_latin_letters(): a letter of each kind that the table has, the two    *)
(* signs in its block, and what it does not have.                             *)
LatinFold(point, cedilla) ==
  CASE point \in {"U+00C9", "U+00E9"} -> "E"
    [] point = "U+00FC" -> "U"
    [] point \in {"U+00C7", "U+00E7"} -> cedilla
    [] point = "U+00DF" -> "SS"
    [] point = "U+00C6" -> "AE"
    [] point = "U+00FE" -> "TH"
    [] point = "U+00D7" -> ""
    [] point = "U+0219" -> "S"
    [] point = "U+1E9E" -> "SS"
    [] point = "U+03A9" -> "~~"
    [] point = "U+20AC" -> "~~~"
    [] OTHER -> point
FoldedName(name, cedilla) == Spelled([k \in DOMAIN name |-> LatinFold(name[k], cedilla)])

(* clean_ascii_letters(), and the loops that skip what is no letter.          *)
CleanLetters(s) == Spelled([k \in 1 .. Len(s) |-> IF IsAlpha(At(s, k)) THEN ToUpper(At(s, k)) ELSE ""])

(* collapse_runs(), pad_zeros() *)
CollapseRuns(s) ==
  Spelled([k \in 1 .. Len(s) |-> IF k > 1 /\ At(s, k) = At(s, k - 1) THEN "" ELSE At(s, k)])
PadZeros(s, n) == Capped(s \o Spelled([k \in 1 .. n |-> "0"]), n)
-----------------------------------------------------------------------------
SoundexDigit(c) ==
  CASE In(c, "BFPV") -> "1"
    [] In(c, "CGJKQSXZ") -> "2"
    [] In(c, "DT") -> "3"
    [] c = "L" -> "4"
    [] In(c, "MN") -> "5"
    [] c = "R" -> "6"
    [] OTHER -> "0"

(* soundex_code(), and the second half of OncaEncoder: H and W leave the      *)
(* digit to compare with as it is, other letters without a digit do not.      *)
SoundexLetter(st, c) ==
  LET d == SoundexDigit(c)
  IN  [code |-> IF d # "0" /\ d # st.previous THEN st.code \o d ELSE st.code, previous |-> d]
SoundexOf(word, n) ==
  LET step(st, c) == IF Len(st.code) >= n \/ In(c, "HW") THEN st ELSE SoundexLetter(st, c)
  IN  PadZeros(FoldLeft(step, [code |-> At(word, 1), previous |-> SoundexDigit(At(word, 1))],
                        Tail(Letters(word))).code, n)
Soundex(s) == IF CleanLetters(s) = "" THEN NoCode ELSE SoundexOf(CleanLetters(s), 4)

(* refined_soundex_code() *)
RefinedDigits == "01360240043788015936020505"
RefinedDigit(c) == At(RefinedDigits, CHOOSE k \in 1 .. 26 : At(Upper, k) = c)
RefinedSoundex(s) ==
  LET word == CleanLetters(s)
      step(st, c) == [code |-> IF RefinedDigit(c) # st.previous THEN st.code \o RefinedDigit(c) ELSE st.code,
                      previous |-> RefinedDigit(c)]
  IN  IF word = "" THEN NoCode
      ELSE FoldLeft(step, [code |-> At(word, 1), previous |-> "*"], Letters(word)).code
-----------------------------------------------------------------------------
(* The first rule whose pattern is where the string starts or ends is used.   *)
FirstFit(rules, fits(_)) ==
  LET found == {k \in DOMAIN rules : fits(rules[k][1])}
  IN  IF found = {} THEN <<"", "">> ELSE rules[Min(found)]
PrefixBy(s, rules) ==
  LET r == FirstFit(rules, LAMBDA p : Starts(s, p)) IN r[2] \o SubSeq(s, Len(r[1]) + 1, Len(s))
SuffixBy(s, rules) ==
  LET r == FirstFit(rules, LAMBDA p : Ends(s, p)) IN SubSeq(s, 1, Len(s) - Len(r[1])) \o r[2]

(* nysiis_transcode(): what stands in the place of the letters it replaces.   *)
NysiisTranscode(previous, current, next, afterNext) ==
  FirstRule(<<
    <<current = "E" /\ next = "V", "AF">>,
    <<IsVowel(current), "A">>,
    <<current = "Q", "G">>,
    <<current = "Z", "S">>,
    <<current = "M", "N">>,
    <<current = "K", IF next = "N" THEN "NN" ELSE "C">>,
    <<current = "S" /\ next = "C" /\ afterNext = "H", "SSS">>,
    <<current = "P" /\ next = "H", "FF">>,
    <<current = "H" /\ (~IsVowel(previous) \/ ~IsVowel(next)), previous>>,
    <<current = "W" /\ IsVowel(previous), previous>>,
    <<TRUE, current>>>>)

(* nysiis_code(); `n` = 0 leaves the key as long as it is. *)
NysiisWord(word) ==
  SuffixBy(SuffixBy(PrefixBy(PrefixBy(word, <<<<"MAC", "MCC">>, <<"KN", "NN">>, <<"K", "C">>>>),
                             <<<<"PH", "FF">>, <<"PF", "FF">>, <<"SCH", "SSS">>>>),
                    <<<<"EE", "Y">>, <<"IE", "Y">>>>),
           [k \in 1 .. 5 |-> <<<<"DT", "RT", "RD", "NT", "ND">>[k], "D">>])
NysiisLetter(st, i) ==
  LET w == st.word
      t == NysiisTranscode(At(w, i - 1), At(w, i), At(w, i + 1), At(w, i + 2))
      new == SubSeq(w, 1, i - 1) \o t \o SubSeq(w, i + Len(t), Len(w))
  IN  [word |-> new, key |-> IF At(new, i) # At(new, i - 1) THEN st.key \o At(new, i) ELSE st.key]
NysiisTail(key) ==
  LET short == IF Ends(key, "S") THEN Part(key, 1, Len(key) - 1) ELSE key
  IN  IF Len(key) <= 1 THEN key
      ELSE IF Len(short) > 2 THEN SuffixBy(short, <<<<"AY", "Y">>, <<"A", "">>>>)
      ELSE SuffixBy(short, <<<<"A", "">>>>)
NysiisKey(word) ==
  NysiisTail(FoldLeft(NysiisLetter, [word |-> word, key |-> At(word, 1)],
                      [k \in 1 .. Len(word) - 1 |-> k + 1]).key)
CutTo(key, n) == IF n = 0 THEN key ELSE Capped(key, n)
Nysiis(s, n) ==
  IF CleanLetters(s) = "" THEN NoCode ELSE CutTo(NysiisKey(NysiisWord(CleanLetters(s))), n)

(* OncaEncoder: a name of which NYSIIS leaves nothing has the empty code.     *)
OncaOf(key, n) == IF key \in {NoCode, ""} THEN key ELSE SoundexOf(key, n)
Onca(s, n) == OncaOf(Nysiis(s, 0), n)
-----------------------------------------------------------------------------
(* cologne_code(): the codes of a letter between its neighbours, of which "0" *)
(* stays only at the start, and "-" never; a C is judged as the first one     *)
(* while nothing has been put.                                                *)
ColognePut(st, code) ==
  [out |-> IF code # "-" /\ code # st.previous /\ (code # "0" \/ st.out = "") THEN st.out \o code
           ELSE st.out,
   previous |-> code]
CologneCodes(c, before, next, first) ==
  FirstRule(<<
    <<In(c, "AEIJOUY"), "0">>,
    <<c = "B" \/ (c = "P" /\ next # "H"), "1">>,
    <<In(c, "DT") /\ ~In(next, "CSZ"), "2">>,
    <<In(c, "FPVW"), "3">>,
    <<In(c, "GKQ"), "4">>,
    <<c = "C" /\ first, IF In(next, "AHKLOQRUX") THEN "4" ELSE "8">>,
    <<c = "C", IF In(before, "SZ") \/ ~In(next, "AHKOQUX") THEN "8" ELSE "4">>,
    <<c = "X" /\ ~In(before, "CKQ"), "48">>,
    <<c = "L", "5">>,
    <<In(c, "MN"), "6">>,
    <<c = "R", "7">>,
    <<c = "H", "-">>,
    <<TRUE, "8">>>>)
Cologne(s) ==
  LET word == CleanLetters(s)
      step(st, i) ==
        FoldLeft(ColognePut, st,
                 Letters(CologneCodes(At(word, i), At(word, i - 1), At(word, i + 1), st.out = "")))
  IN  IF word = "" THEN NoCode
      ELSE FoldLeft(step, [out |-> "", previous |-> "/"], [k \in 1 .. Len(word) |-> k]).out
-----------------------------------------------------------------------------
(* MetaphoneEncoder: the word keeps what is no letter. *)
MetaphoneWord(s) ==
  LET w == Spelled([k \in 1 .. Len(s) |-> ToUpper(At(s, k))])
      second == At(w, 2)
      rest == SubSeq(w, 2, Len(w))
  IN  FirstRule(<<
        <<In(At(w, 1), "KGP") /\ second = "N", rest>>,
        <<At(w, 1) = "A" /\ second = "E", rest>>,
        <<At(w, 1) = "W" /\ second = "R", rest>>,
        <<At(w, 1) = "W" /\ second = "H", "W" \o Part(w, 3, Len(w))>>,
        <<At(w, 1) = "X", "S" \o rest>>,
        <<TRUE, w>>>>)

FrontVowel(c) == In(c, "EIY")

(* What the symbol at place i adds to the code. *)
MetaphoneC(w, i) ==
  LET next == At(w, i + 1)
      behindS == At(w, i - 1) = "S"
  IN  FirstRule(<<
        <<behindS /\ FrontVowel(next), "">>,
        <<Has(w, i, "CIA"), "X">>,
        <<FrontVowel(next), "S">>,
        <<behindS /\ next = "H", "K">>,
        <<next # "H" \/ (i = 1 /\ Len(w) >= 3 /\ IsVowel(At(w, 3))), "K">>,
        <<TRUE, "X">>>>)
IsDge(w, i) == At(w, i + 1) = "G" /\ FrontVowel(At(w, i + 2))
(* The letter before is never another G: the second of two is not read.       *)
MetaphoneG(w, i) ==
  LET next == At(w, i + 1)
  IN  FirstRule(<<
        <<next = "H" /\ i + 1 = Len(w), "">>,
        <<next = "H" /\ ~IsVowel(At(w, i + 2)), "">>,
        <<i > 1 /\ next = "N", "">>,
        <<FrontVowel(next), "J">>,
        <<TRUE, "K">>>>)
MetaphonePut(w, i) ==
  LET c == At(w, i)
      before == At(w, i - 1)
      next == At(w, i + 1)
  IN  CASE In(c, "AEIOU") -> IF i = 1 THEN c ELSE ""
        [] c = "B" -> IF before = "M" /\ i = Len(w) THEN "" ELSE "B"
        [] c = "C" -> MetaphoneC(w, i)
        [] c = "D" -> IF IsDge(w, i) THEN "J" ELSE "T"
        [] c = "G" -> MetaphoneG(w, i)
        [] c = "H" -> IF ~In(before, "CSPTG") /\ IsVowel(next) THEN "H" ELSE ""
        [] In(c, "FJLMNR") -> c
        [] c = "K" -> IF before = "C" THEN "" ELSE "K"
        [] c = "P" -> IF next = "H" THEN "F" ELSE "P"
        [] c = "Q" -> "K"
        [] c = "S" -> IF next = "H" \/ Has(w, i, "SIO") \/ Has(w, i, "SIA") THEN "X" ELSE "S"
        [] c = "T" -> FirstRule(<<<<Has(w, i, "TIA") \/ Has(w, i, "TIO"), "X">>,
                                  <<Has(w, i, "TCH"), "">>,
                                  <<next = "H", "0">>,
                                  <<TRUE, "T">>>>)
        [] c = "V" -> "F"
        [] In(c, "WY") -> IF IsVowel(next) THEN c ELSE ""
        [] c = "X" -> "KS"
        [] c = "Z" -> "S"
        [] OTHER -> ""

(* A letter like the one before is not read, unless it is a C; DGE, DGI and   *)
(* DGY are read at once.                                                      *)
MetaphoneOf(w, n) ==
  LET step(st, i) ==
        IF Len(st.code) >= n \/ i < st.next \/ (At(w, i) # "C" /\ At(w, i - 1) = At(w, i)) THEN st
        ELSE [code |-> Capped(st.code \o MetaphonePut(w, i), n),
              next |-> IF At(w, i) = "D" /\ IsDge(w, i) THEN i + 3 ELSE i + 1]
  IN  FoldLeft(step, [code |-> "", next |-> 1], [k \in 1 .. Len(w) |-> k]).code
Metaphone(s, n) ==
  IF CleanLetters(s) = "" THEN NoCode
  ELSE IF Len(s) = 1 THEN ToUpper(s) ELSE MetaphoneOf(MetaphoneWord(s), n)
-----------------------------------------------------------------------------
Chosen(s, keeps(_)) == Spelled([k \in 1 .. Len(s) |-> IF keeps(k) THEN At(s, k) ELSE ""])
Replaced(s, by(_)) == Spelled([k \in 1 .. Len(s) |-> by(k)])

Without(s, set) == Chosen(s, LAMBDA k : ~In(At(s, k), set))

(* mra_codex(), mra_compare_codes() *)
MraCodex(s) ==
  LET w == CleanLetters(s)
      code == Chosen(w, LAMBDA k : k = 1 \/ (~IsVowel(At(w, k)) /\ At(w, k) # At(w, k - 1)))
  IN  IF w = "" THEN NoCode
      ELSE IF Len(code) > 6 THEN SubSeq(code, 1, 3) \o SubSeq(code, Len(code) - 2, Len(code))
      ELSE code
Unequal(a, b) == Chosen(a, LAMBDA k : At(a, k) # At(b, k))
Backwards(s) == Spelled([k \in 1 .. Len(s) |-> At(s, Len(s) + 1 - k)])
MraLeft(a, b) == Len(Unequal(Backwards(Unequal(a, b)), Backwards(Unequal(b, a))))
MraMinimum(sum) == FirstRule(<<<<sum <= 4, 5>>, <<sum <= 7, 4>>, <<sum <= 11, 3>>, <<TRUE, 2>>>>)
MraAlike(a, b) ==
  /\ Len(a) - Len(b) \in -2 .. 2
  /\ 6 - Max({MraLeft(a, b), MraLeft(b, a)}) >= MraMinimum(Len(a) + Len(b))
MraCompared(a, b) == IF NoCode \in {a, b} THEN NoCode ELSE MraAlike(a, b)
MraCompare(s, t) == MraCompared(MraCodex(s), MraCodex(t))

(* StatcanEncoder, LeinEncoder *)
Statcan(s, n) ==
  LET w == CleanLetters(s)
  IN  IF w = "" THEN NoCode
      ELSE Capped(CollapseRuns(Chosen(w, LAMBDA k : k = 1 \/ ~In(At(w, k), "AEIOUY"))), n)
LeinDigit(c) ==
  FirstRule(<<<<In(c, "DT"), "1">>, <<In(c, "MN"), "2">>, <<In(c, "LR"), "3">>,
              <<In(c, "BFPV"), "4">>, <<TRUE, "5">>>>)
Lein(s, n) ==
  LET w == CleanLetters(s)
      rest == CollapseRuns(Chosen(w, LAMBDA k : k > 1 /\ ~In(At(w, k), "AEIOUYWH")))
  IN  IF w = "" THEN NoCode
      ELSE PadZeros(At(w, 1) \o Replaced(rest, LAMBDA k : LeinDigit(At(rest, k))), n)
-----------------------------------------------------------------------------
(* PhonexEncoder *)
Swap(c, set, by) == IF In(c, set) THEN by ELSE c
PhonexStart(word) ==
  LET open  == Chosen(word, LAMBDA k : \E m \in k .. Len(word) : At(word, m) # "S")
      start == FoldLeft(PrefixBy, open,
                 <<<<<<"KN", "N">>>>, <<<<"WR", "R">>>>, <<<<"PH", "F">>>>, <<<<"H", "">>>>>>)
      first == FoldLeft(LAMBDA c, r : Swap(c, r[1], r[2]), At(start, 1),
                 <<<<"EIOUY", "A">>, <<"P", "B">>, <<"V", "F">>, <<"KQ", "C">>, <<"J", "G">>,
                   <<"Z", "S">>>>)
  IN  IF start = "" THEN "" ELSE first \o SubSeq(start, 2, Len(start))

(* An R (L) that ends the name or stands before a weak letter, which goes     *)
(* with it, is a digit; the others go.                                        *)
Weak == "AEHIOUWY"
Liquid(s, letter, digit) ==
  Replaced(s, LAMBDA k :
    IF At(s, k) = letter THEN IF k = Len(s) \/ In(At(s, k + 1), Weak) THEN digit ELSE ""
    ELSE IF At(s, k - 1) = letter /\ In(At(s, k), Weak) THEN "" ELSE At(s, k))
PhonexNasal(strong) ==
  LET behindNasal(k) ==
        \E m \in 1 .. k - 1 : /\ In(At(strong, m), "MN")
                              /\ \A l \in m + 1 .. k : In(At(strong, l), "DG")
  IN  Replaced(strong, LAMBDA k :
        IF behindNasal(k) THEN "" ELSE Swap(Swap(At(strong, k), "MN", "5"), "BFPV", "1"))
PhonexDigits(s) == Replaced(s, LAMBDA k : Swap(Swap(At(s, k), "DT", "3"), "CGJKQSXZ", "2"))
PhonexBefore(s) == Chosen(s, LAMBDA k : ~(In(At(s, k), "DT") /\ At(s, k + 1) = "C"))
PhonexRest(rest) ==
  CollapseRuns(PhonexDigits(PhonexBefore(PhonexNasal(
    Without(Liquid(Liquid(rest, "R", "6"), "L", "4"), Weak)))))
PhonexOf(w, n) == IF w = "" THEN "" ELSE PadZeros(At(w, 1) \o PhonexRest(SubSeq(w, 2, Len(w))), n)
Phonex(s, n) ==
  IF CleanLetters(s) = "" THEN NoCode ELSE PhonexOf(PhonexStart(CleanLetters(s)), n)
-----------------------------------------------------------------------------
(* RogerRootEncoder: groups of patterns with the digits they stand for; the   *)
(* longest pattern that fits is taken.                                        *)
RootFirst ==
  {<<{"TSCH", "TSH", "SCH", "SH", "CH"}, "06">>, <<{"TS", "S", "CE", "CI", "CY", "Z"}, "00">>,
   <<{"T", "D"}, "01">>, <<{"C", "DC", "G", "K", "Q", "X"}, "07">>,
   <<{"GF", "PF", "PH", "F", "V"}, "08">>, <<{"GM", "M"}, "03">>, <<{"GN", "KN", "PN", "N"}, "02">>,
   <<{"P", "B"}, "09">>, <<{"WR", "R"}, "04">>, <<{"W"}, "4">>, <<{"A", "E", "I", "O", "U"}, "1">>,
   <<{"H"}, "2">>, <<{"J"}, "3">>, <<{"L"}, "05">>, <<{"Y"}, "5">>}
RootRest ==
  {<<{"TSCH", "TSH", "SCH", "SH", "CH", "J"}, "6">>, <<{"TS", "S", "CE", "CI", "CY", "Z"}, "0">>,
   <<{"T", "D"}, "1">>, <<{"C", "DC", "G", "K", "Q", "X"}, "7">>, <<{"P", "PH", "F", "V"}, "8">>,
   <<{"B"}, "9">>, <<{"L"}, "5">>, <<{"M"}, "3">>, <<{"N"}, "2">>, <<{"R"}, "4">>}
NoRule == <<"", "">>
RootRule(rules, s, i) ==
  LET fits == UNION {{<<p, r[2]>> : p \in {p \in r[1] : Has(s, i, p)}} : r \in rules}
  IN  IF fits = {} THEN NoRule
      ELSE CHOOSE f \in fits : \A g \in fits : Len(g[1]) <= Len(f[1])
RogerRoot(s, n) ==
  LET w == CleanLetters(s)
      first == RootRule(RootFirst, w, 1)
      step(st, i) ==
        LET r == RootRule(RootRest, w, i)
        IN  IF i < st.next \/ Len(st.code) >= n THEN st
            ELSE IF r = NoRule THEN [st EXCEPT !.last = "", !.next = i + 1]
            ELSE [code |-> IF r[2] # st.last THEN st.code \o r[2] ELSE st.code,
                  last |-> r[2], next |-> i + Len(r[1])]
  IN  IF w = "" THEN NoCode
      ELSE PadZeros(FoldLeft(step, [code |-> first[2], last |-> At(first[2], Len(first[2])),
                                    next |-> 1 + Len(first[1])],
                             [k \in 1 .. Len(w) |-> k]).code, n)
-----------------------------------------------------------------------------
(* caverphone2_code(): a chain of rules, each applied to what the one before  *)
(* left.                                                                      *)
AllReplaced(s, from, to) ==
  LET rest[i \in 1 .. Len(s) + 1] ==
        IF i > Len(s) THEN ""
        ELSE IF Has(s, i, from) THEN to \o rest[i + Len(from)]
        ELSE At(s, i) \o rest[i + 1]
  IN  rest[1]
RunsTo(s, c, upper) ==
  Replaced(s, LAMBDA k : IF At(s, k) # c THEN At(s, k) ELSE IF At(s, k - 1) = c THEN "" ELSE upper)
ApplyRule(s, r) ==
  IF s = "" THEN ""
  ELSE CASE r[1] = "all" -> AllReplaced(s, r[2], r[3])
    [] r[1] = "prefix" -> PrefixBy(s, <<<<r[2], r[3]>>>>)
    [] r[1] = "suffix" -> SuffixBy(s, <<<<r[2], r[3]>>>>)
    [] r[1] = "runs"   -> RunsTo(s, r[2], r[3])
    [] r[1] = "first"  -> Swap(At(s, 1), r[2], r[3]) \o Part(s, 2, Len(s))
    [] r[1] = "each"   -> Replaced(s, LAMBDA k : Swap(At(s, k), r[2], r[3]))

Rules(kind, pairs) == [k \in DOMAIN pairs |-> <<kind, pairs[k][1], pairs[k][2]>>]
Vowels == "aeiou"
CaverphoneRules ==
  Rules("suffix", <<<<"e", "">>>>)
    \o Rules("prefix", <<<<"cough", "cou2f">>, <<"rough", "rou2f">>, <<"tough", "tou2f">>,
                         <<"enough", "enou2f">>, <<"trough", "trou2f">>, <<"gn", "2n">>>>)
    \o Rules("suffix", <<<<"mb", "m2">>>>)
    \o Rules("all", <<<<"cq", "2q">>, <<"ci", "si">>, <<"ce", "se">>, <<"cy", "sy">>,
         <<"tch", "2ch">>, <<"c", "k">>, <<"q", "k">>, <<"x", "k">>, <<"v", "f">>, <<"dg", "2g">>,
         <<"tio", "sio">>, <<"tia", "sia">>, <<"d", "t">>, <<"ph", "fh">>, <<"b", "p">>,
         <<"sh", "s2">>, <<"z", "s">>>>)
    \o <<<<"first", Vowels, "A">>, <<"each", Vowels, "3">>, <<"all", "j", "y">>>>
    \o Rules("prefix", <<<<"y3", "Y3">>, <<"y", "A">>>>)
    \o Rules("all", <<<<"y", "3">>, <<"3gh3", "3kh3">>, <<"gh", "22">>, <<"g", "k">>>>)
    \o Rules("runs", <<<<"s", "S">>, <<"t", "T">>, <<"p", "P">>, <<"k", "K">>, <<"f", "F">>,
                       <<"m", "M">>, <<"n", "N">>>>)
    \o <<<<"all", "w3", "W3">>, <<"all", "wh3", "Wh3">>, <<"suffix", "w", "3">>, <<"all", "w", "2">>,
         <<"prefix", "h", "A">>, <<"all", "h", "2">>,
         <<"all", "r3", "R3">>, <<"suffix", "r", "3">>, <<"all", "r", "2">>,
         <<"all", "l3", "L3">>, <<"suffix", "l", "3">>, <<"all", "l", "2">>,
         <<"all", "2", "">>, <<"suffix", "3", "A">>, <<"all", "3", "">>>>
Caverphone(s) ==
  LET letters == CleanLetters(s)
      low == Replaced(letters, LAMBDA k : ToLower(At(letters, k)))
      after[k \in 0 .. Len(CaverphoneRules)] ==
        IF k = 0 THEN low ELSE ApplyRule(after[k - 1], CaverphoneRules[k])
  IN  SubSeq(after[Len(CaverphoneRules)] \o "1111111111", 1, 10)
=============================================================================
