------------------------------ MODULE NameCodes ------------------------------
(* One call of a phonetic encoder (fgrepl_phonetic.cpp, dm_soundex.cpp): the  *)
(* rows are shared out in ranges, a thread folds and codes the rows of its    *)
(* range with buffers of its own, and the calling thread makes R strings of   *)
(* what they left. Most codes are kept as strings; those of a fixed width in  *)
(* one array, with their lengths beside; the codes of Daitch and Mokotoff,    *)
(* several for a name, in an array of the range, one behind the other.        *)
(* Their letters besides "a" to "z" are "1" to "4" (a and e with ogonek, t    *)
(* with cedilla, and with comma).                                             *)
EXTENDS Phonetics

CONSTANT
  CodeCalls    \* [fn, max, names], of a comparison also [others], of Daitch's
               \* codes also [simplify]

VARIABLES coding, spans, store, sizes, codes
codeVars == <<coding, spans, store, sizes, codes>>
-----------------------------------------------------------------------------
(* Double Metaphone (double_metaphone_core.h). Each letter gives what it adds *)
(* to the two codes of the name, and how many letters it has read.            *)
CodeMax == 4
HasAny(v, i, patterns) == \E p \in patterns : Has(v, i, p)
DmVowel(c) == IsVowel(c) \/ c = "Y"
Both(code, move) == <<code, code, move>>
OneMore(v, i, set) == IF In(At(v, i + 1), set) THEN 2 ELSE 1

IsSlavoGermanic(v) == \E i \in 1 .. Len(v) : HasAny(v, i, {"W", "K", "CZ", "WITZ"})
IsSilentStart(v) == HasAny(v, 1, {"GN", "KN", "PN", "WR", "PS"})
VanOrSch(v) == HasAny(v, 1, {"VAN ", "VON ", "SCH"})

ConditionC0(v, i) ==
  \/ Has(v, i, "CHIA")
  \/ /\ i > 2 /\ ~DmVowel(At(v, i - 2)) /\ Has(v, i - 1, "ACH")
     /\ ~In(At(v, i + 2), "IE") \/ HasAny(v, i - 2, {"BACHER", "MACHER"})
ConditionCh0(v, i) ==
  i = 1 /\ HasAny(v, 2, {"HARAC", "HARIS", "HOR", "HYM", "HIA", "HEM"}) /\ ~Has(v, 1, "CHORE")
ConditionCh1(v, i) ==
  \/ VanOrSch(v)
  \/ HasAny(v, i - 2, {"ORCHES", "ARCHIT", "ORCHID"})
  \/ In(At(v, i + 2), "TS")
  \/ (i = 1 \/ In(At(v, i - 1), "AOUE")) /\ (In(At(v, i + 2), "LRNMBHFVW ") \/ i + 1 = Len(v))
ConditionL0(v, i) ==
  \/ i = Len(v) - 2 /\ HasAny(v, i - 1, {"ILLO", "ILLA", "ALLE"})
  \/ (\E p \in {"AS", "OS", "A", "O"} : Ends(v, p)) /\ Has(v, i - 1, "ALLE")
ConditionM0(v, i) ==
  At(v, i + 1) = "M" \/ (Has(v, i - 1, "UMB") /\ (i + 1 = Len(v) \/ Has(v, i + 2, "ER")))

HandleCC(v, i) ==
  FirstRule(<<
    <<~In(At(v, i + 2), "IEH") \/ Has(v, i + 2, "HU"), Both("K", 2)>>,
    <<(i = 2 /\ At(v, 1) = "A") \/ HasAny(v, i - 1, {"UCCEE", "UCCES"}), Both("KS", 3)>>,
    <<TRUE, Both("X", 3)>>>>)
HandleCH(v, i) ==
  FirstRule(<<
    <<i > 1 /\ Has(v, i, "CHAE"), <<"K", "X", 2>>>>,
    <<ConditionCh0(v, i) \/ ConditionCh1(v, i), Both("K", 2)>>,
    <<i = 1, Both("X", 2)>>,
    <<Has(v, 1, "MC"), Both("K", 2)>>,
    <<TRUE, <<"X", "K", 2>>>>>>)
HandleC(v, i) ==
  FirstRule(<<
    <<ConditionC0(v, i), Both("K", 2)>>,
    <<i = 1 /\ Has(v, i, "CAESAR"), Both("S", 2)>>,
    <<Has(v, i, "CH"), HandleCH(v, i)>>,
    <<Has(v, i, "CZ") /\ ~Has(v, i - 2, "WICZ"), <<"S", "X", 2>>>>,
    <<Has(v, i + 1, "CIA"), Both("X", 3)>>,
    <<Has(v, i, "CC") /\ ~(i = 2 /\ At(v, 1) = "M"), HandleCC(v, i)>>,
    <<HasAny(v, i, {"CK", "CG", "CQ"}), Both("K", 2)>>,
    <<HasAny(v, i, {"CIO", "CIE", "CIA"}), <<"S", "X", 2>>>>,
    <<HasAny(v, i, {"CI", "CE", "CY"}), Both("S", 2)>>,
    <<HasAny(v, i + 1, {" C", " Q", " G"}), Both("K", 3)>>,
    <<HasAny(v, i + 1, {"CE", "CI"}), Both("K", 1)>>,
    <<TRUE, Both("K", OneMore(v, i, "CKQ"))>>>>)
HandleD(v, i) ==
  FirstRule(<<
    <<Has(v, i, "DG") /\ In(At(v, i + 2), "IEY"), Both("J", 3)>>,
    <<Has(v, i, "DG"), Both("TK", 2)>>,
    <<TRUE, Both("T", OneMore(v, i, "TD"))>>>>)
HandleGH(v, i) ==
  FirstRule(<<
    <<i > 1 /\ ~DmVowel(At(v, i - 1)), Both("K", 2)>>,
    <<i = 1, Both(IF At(v, i + 2) = "I" THEN "J" ELSE "K", 2)>>,
    <<In(At(v, i - 2), "BHD") \/ In(At(v, i - 3), "BHD") \/ In(At(v, i - 4), "BH"), Both("", 2)>>,
    <<At(v, i - 1) = "U" /\ In(At(v, i - 3), "CGLRT"), Both("F", 2)>>,
    <<TRUE, Both(IF At(v, i - 1) # "I" THEN "K" ELSE "", 2)>>>>)
HandleG(v, i, slavo) ==
  FirstRule(<<
    <<At(v, i + 1) = "H", HandleGH(v, i)>>,
    <<At(v, i + 1) = "N" /\ i = 2 /\ DmVowel(At(v, 1)) /\ ~slavo, <<"KN", "N", 2>>>>,
    <<At(v, i + 1) = "N" /\ ~Has(v, i + 2, "EY") /\ ~slavo, <<"N", "KN", 2>>>>,
    <<At(v, i + 1) = "N", Both("KN", 2)>>,
    <<Has(v, i + 1, "LI") /\ ~slavo, <<"KL", "L", 2>>>>,
    <<i = 1 /\ HasAny(v, 2, {"Y", "ES", "EP", "EB", "EL", "EY", "IB", "IL", "IN", "IE", "EI", "ER"}),
      <<"K", "J", 2>>>>,
    <<HasAny(v, i + 1, {"ER", "Y"}) /\ ~HasAny(v, 1, {"DANGER", "RANGER", "MANGER"})
        /\ ~In(At(v, i - 1), "EI") /\ ~HasAny(v, i - 1, {"RGY", "OGY"}),
      <<"K", "J", 2>>>>,
    <<In(At(v, i + 1), "EIY") \/ HasAny(v, i - 1, {"AGGI", "OGGI"}),
      FirstRule(<<<<VanOrSch(v) \/ Has(v, i + 1, "ET"), Both("K", 2)>>,
                  <<Has(v, i + 1, "IER"), Both("J", 2)>>,
                  <<TRUE, <<"J", "K", 2>>>>>>)>>,
    <<TRUE, Both("K", OneMore(v, i, "G"))>>>>)
HandleH(v, i) ==
  IF (i = 1 \/ DmVowel(At(v, i - 1))) /\ DmVowel(At(v, i + 1)) THEN Both("H", 2) ELSE Both("", 1)
HandleJ(v, i, slavo) ==
  LET move == OneMore(v, i, "J")
  IN  FirstRule(<<
        <<Has(v, 1, "SAN ") \/ (Has(v, i, "JOSE") /\ ((i = 1 /\ At(v, 5) = " ") \/ Len(v) = 4)),
          Both("H", move)>>,
        <<Has(v, i, "JOSE"), <<"J", "H", move>>>>,
        <<i = 1, <<"J", "A", move>>>>,
        <<DmVowel(At(v, i - 1)) /\ ~slavo /\ In(At(v, i + 1), "AO"), <<"J", "H", move>>>>,
        <<i = Len(v), <<"J", " ", move>>>>,
        <<~In(At(v, i + 1), "LTKSNMBZ") /\ ~In(At(v, i - 1), "SKL"), Both("J", move)>>,
        <<TRUE, Both("", move)>>>>)
HandleL(v, i) ==
  IF At(v, i + 1) = "L" /\ ConditionL0(v, i) THEN <<"L", "", 2>> ELSE Both("L", OneMore(v, i, "L"))
HandleP(v, i) == IF At(v, i + 1) = "H" THEN Both("F", 2) ELSE Both("P", OneMore(v, i, "PB"))
HandleR(v, i, slavo) ==
  IF i = Len(v) /\ ~slavo /\ Has(v, i - 2, "IE") /\ ~HasAny(v, i - 4, {"ME", "MA"})
  THEN <<"", "R", 1>> ELSE Both("R", OneMore(v, i, "R"))
HandleSC(v, i) ==
  FirstRule(<<
    <<Has(v, i + 2, "HER") \/ Has(v, i + 2, "HEN"), <<"X", "SK", 3>>>>,
    <<HasAny(v, i + 2, {"HOO", "HUY", "HED", "HEM"}), Both("SK", 3)>>,
    <<At(v, i + 2) = "H" /\ i = 1 /\ ~DmVowel(At(v, 4)) /\ At(v, 4) # "W", <<"X", "S", 3>>>>,
    <<At(v, i + 2) = "H", Both("X", 3)>>,
    <<TRUE, Both(IF In(At(v, i + 2), "IEY") THEN "S" ELSE "SK", 3)>>>>)
HandleS(v, i, slavo) ==
  FirstRule(<<
    <<HasAny(v, i - 1, {"ISL", "YSL"}), Both("", 1)>>,
    <<i = 1 /\ Has(v, i, "SUGAR"), <<"X", "S", 1>>>>,
    <<HasAny(v, i, {"SHEIM", "SHOEK", "SHOLM", "SHOLZ"}), Both("S", 2)>>,
    <<Has(v, i, "SH"), Both("X", 2)>>,
    <<HasAny(v, i, {"SIO", "SIA"}), <<"S", IF slavo THEN "S" ELSE "X", 3>>>>,
    <<(i = 1 /\ In(At(v, 2), "MNLW")) \/ At(v, i + 1) = "Z", <<"S", "X", OneMore(v, i, "Z")>>>>,
    <<Has(v, i, "SC"), HandleSC(v, i)>>,
    <<i = Len(v) /\ HasAny(v, i - 2, {"AI", "OI"}), <<"", "S", 1>>>>,
    <<TRUE, Both("S", OneMore(v, i, "SZ"))>>>>)
HandleT(v, i) ==
  FirstRule(<<
    <<HasAny(v, i, {"TION", "TIA", "TCH"}), Both("X", 3)>>,
    <<HasAny(v, i, {"TH", "TTH"}),
      IF HasAny(v, i + 2, {"OM", "AM"}) \/ VanOrSch(v) THEN Both("T", 2) ELSE <<"0", "T", 2>>>>,
    <<TRUE, Both("T", OneMore(v, i, "TD"))>>>>)
HandleW(v, i) ==
  FirstRule(<<
    <<Has(v, i, "WR"), Both("R", 2)>>,
    <<i = 1 /\ DmVowel(At(v, 2)), <<"A", "F", 1>>>>,
    <<i = 1 /\ Has(v, i, "WH"), Both("A", 1)>>,
    <<(i = Len(v) /\ DmVowel(At(v, i - 1)))
        \/ HasAny(v, i - 1, {"EWSKI", "EWSKY", "OWSKI", "OWSKY"}) \/ Has(v, 1, "SCH"),
      <<"", "F", 1>>>>,
    <<HasAny(v, i, {"WICZ", "WITZ"}), <<"TS", "FX", 4>>>>,
    <<TRUE, Both("", 1)>>>>)
HandleX(v, i) ==
  LET move == OneMore(v, i, "CX")
  IN  FirstRule(<<
        <<i = 1, Both("S", 1)>>,
        <<i = Len(v) /\ (HasAny(v, i - 3, {"IAU", "EAU"}) \/ HasAny(v, i - 2, {"AU", "OU"})),
          Both("", move)>>,
        <<TRUE, Both("KS", move)>>>>)
HandleZ(v, i, slavo) ==
  FirstRule(<<
    <<At(v, i + 1) = "H", Both("J", 2)>>,
    <<HasAny(v, i + 1, {"ZO", "ZI", "ZA"}) \/ (slavo /\ i > 1 /\ At(v, i - 1) # "T"),
      <<"S", "TS", OneMore(v, i, "Z")>>>>,
    <<TRUE, Both("S", OneMore(v, i, "Z"))>>>>)

(* double_metaphone_code(): the letters from left to right, until both codes  *)
(* are full.                                                                  *)
HandleLetter(v, i, slavo) ==
  LET c == At(v, i)
  IN  CASE DmVowel(c) -> Both(IF i = 1 THEN "A" ELSE "", 1)
        [] c = "B" -> Both("P", OneMore(v, i, "B"))
        [] c = "C" -> HandleC(v, i)
        [] c = "D" -> HandleD(v, i)
        [] In(c, "FV") -> Both("F", OneMore(v, i, c))
        [] c = "G" -> HandleG(v, i, slavo)
        [] c = "H" -> HandleH(v, i)
        [] c = "J" -> HandleJ(v, i, slavo)
        [] In(c, "KQ") -> Both("K", OneMore(v, i, c))
        [] c = "L" -> HandleL(v, i)
        [] c = "M" -> Both("M", IF ConditionM0(v, i) THEN 2 ELSE 1)
        [] c = "N" -> Both("N", OneMore(v, i, "N"))
        [] c = "P" -> HandleP(v, i)
        [] c = "R" -> HandleR(v, i, slavo)
        [] c = "S" -> HandleS(v, i, slavo)
        [] c = "T" -> HandleT(v, i)
        [] c = "W" -> HandleW(v, i)
        [] c = "X" -> HandleX(v, i)
        [] c = "Z" -> HandleZ(v, i, slavo)
        [] OTHER -> Both("", 1)

WhiteSpace == " \t\n\f\r"
Trimmed(s) ==
  LET solid == {k \in 1 .. Len(s) : ~In(At(s, k), WhiteSpace)}
  IN  IF solid = {} THEN "" ELSE SubSeq(s, Min(solid), Max(solid))
DoubleMetaphone(s) ==
  LET v == Replaced(Trimmed(s), LAMBDA k : ToUpper(At(Trimmed(s), k)))
      slavo == IsSlavoGermanic(v)
      step(st, i) ==
        IF i < st.next \/ (Len(st.primary) >= CodeMax /\ Len(st.alternate) >= CodeMax) THEN st
        ELSE LET h == HandleLetter(v, i, slavo)
             IN  [primary |-> Capped(st.primary \o h[1], CodeMax),
                  alternate |-> Capped(st.alternate \o h[2], CodeMax), next |-> i + h[3]]
      all == FoldLeft(step, [primary |-> "", alternate |-> "",
                             next |-> IF IsSilentStart(v) THEN 2 ELSE 1],
                      [k \in 1 .. Len(v) |-> k])
  IN  <<all.primary, all.alternate>>
-----------------------------------------------------------------------------
(* The codes of Daitch and Mokotoff (dm_soundex.cpp).                         *)
DmCodeLength == 6

(* Patterns with what they stand for at the start, before a vowel, elsewhere: *)
(* one replacement or two.                                                    *)
DmRules ==
  {<<{"ai", "aj", "ay", "ei", "ej", "ey", "oi", "oj", "oy", "ue", "ui", "uj", "uy"},
     <<"0">>, <<"1">>, <<"">>>>,
   <<{"au"}, <<"0">>, <<"7">>, <<"">>>>,
   <<{"a", "e", "i", "o", "u"}, <<"0">>, <<"">>, <<"">>>>,
   <<{"b", "fb", "f", "pf", "ph", "p", "v", "w"}, <<"7">>, <<"7">>, <<"7">>>>,
   <<{"chs", "ks", "x"}, <<"5">>, <<"54">>, <<"54">>>>,
   <<{"csz", "czs", "cs", "cz", "drs", "drz", "dsh", "dsz", "dzh", "dzs", "ds", "dz", "sch", "sh",
      "sz", "s", "ttsch", "tsch", "ttch", "ttsz", "tch", "trs", "trz", "tsh", "tsz", "tts", "ttz",
      "tzs", "tc", "ts", "tz", "zsch", "zsh", "zh", "zs", "z"}, <<"4">>, <<"4">>, <<"4">>>>,
   <<{"ch", "c"}, <<"4", "5">>, <<"4", "5">>, <<"4", "5">>>>,
   <<{"ck"}, <<"5", "45">>, <<"5", "45">>, <<"5", "45">>>>,
   <<{"dt", "d", "th", "t"}, <<"3">>, <<"3">>, <<"3">>>>,
   <<{"eu"}, <<"1">>, <<"1">>, <<"">>>>,
   <<{"g", "kh", "k", "q"}, <<"5">>, <<"5">>, <<"5">>>>,
   <<{"h"}, <<"5">>, <<"5">>, <<"">>>>,
   <<{"ia", "ie", "io", "iu", "y"}, <<"1">>, <<"">>, <<"">>>>,
   <<{"j"}, <<"1", "4">>, <<"", "4">>, <<"", "4">>>>,
   <<{"l"}, <<"8">>, <<"8">>, <<"8">>>>,
   <<{"mn", "nm"}, <<"66">>, <<"66">>, <<"66">>>>,
   <<{"m", "n"}, <<"6">>, <<"6">>, <<"6">>>>,
   <<{"rs", "rz"}, <<"4", "94">>, <<"4", "94">>, <<"4", "94">>>>,
   <<{"r"}, <<"9">>, <<"9">>, <<"9">>>>,
   <<{"schtsch", "schtch", "schtsh", "shtch", "shtsh", "stsch", "shch", "stch", "strs", "strz",
      "stsh", "szcs", "szcz", "sc", "zhdzh", "zdzh", "zdz"}, <<"2">>, <<"4">>, <<"4">>>>,
   <<{"schd", "scht", "shd", "sht", "szd", "szt", "sd", "st", "zhd", "zd"},
     <<"2">>, <<"43">>, <<"43">>>>,
   <<{"1", "2"}, <<"">>, <<"">>, <<"", "6">>>>,
   <<{"3", "4"}, <<"3", "4">>, <<"3", "4">>, <<"3", "4">>>>}

(* dm_cleanup(): a letter of each kind that the table of folds has.           *)
DmFold(c) ==
  FirstRule(<<
    <<IsAlpha(c), ToLower(c)>>,
    <<c \in {"U+00C9", "U+00E9"}, "e">>,
    <<c = "U+00FC", "u">>,
    <<c \in {"U+00C7", "U+00E7"}, "c">>,
    <<c \in {"U+00DF", "U+1E9E"}, "s">>,
    <<c = "U+00C6", "a">>,
    <<c = "U+00FE", "b">>,
    <<c = "U+0105", "1">>,
    <<c = "U+0119", "2">>,
    <<c = "U+0163", "3">>,
    <<c = "U+021B", "4">>,
    <<TRUE, "">>>>)
DmCleanup(name) == Spelled([k \in DOMAIN name |-> DmFold(name[k])])

(* dm_code(): the longest pattern at i, and its replacements there. Of a name *)
(* in upper-case letters every letter has a pattern.                          *)
DmRule(s, i) ==
  LET fits == UNION {{<<p, r>> : p \in {p \in r[1] : Has(s, i, p)}} : r \in DmRules}
  IN  CHOOSE f \in fits : \A g \in fits : Len(g[1]) <= Len(f[1])
DmReplacements(s, i) ==
  LET f == DmRule(s, i)
  IN  IF i = 1 THEN f[2][2] ELSE IF In(At(s, i + Len(f[1])), "aeiou") THEN f[2][3] ELSE f[2][4]

(* Variant: the replacement of a branch is remembered only when it is put.    *)
DmAppendHeard(branch, replacement, force) ==
  IF branch.last # <<>> /\ Ends(branch.last[1], replacement) /\ ~force THEN branch
  ELSE [code |-> Capped(branch.code \o replacement, DmCodeLength), last |-> <<replacement>>]

(* DmBranch::append() *)
DmAppend(branch, replacement, force) ==
  [code |-> IF branch.last # <<>> /\ Ends(branch.last[1], replacement) /\ ~force THEN branch.code
            ELSE Capped(branch.code \o replacement, DmCodeLength),
   last |-> <<replacement>>]

(* Branches that have reached the same code are one. *)
DmDistinct(branches) ==
  SelectSeq([k \in DOMAIN branches |-> <<k, branches[k]>>],
            LAMBDA b : \A j \in 1 .. b[1] - 1 : branches[j].code # b[2].code)
DmStep(s, st, i) ==
  LET replacements == DmReplacements(s, i)
      force == st.letter \o At(s, i) \in {"mn", "nm"}
      grown == FlattenSeq([b \in DOMAIN st.branches |->
                 [a \in DOMAIN replacements |-> DmAppend(st.branches[b], replacements[a], force)]])
      left == DmDistinct(grown)
  IN  IF i < st.next THEN st
      ELSE [branches |-> [k \in DOMAIN left |-> left[k][2]], letter |-> At(s, i),
            next |-> i + Len(DmRule(s, i)[1])]
DmCodes(s) ==
  LET all == FoldLeft(LAMBDA st, i : DmStep(s, st, i),
                      [branches |-> <<[code |-> "", last |-> <<>>]>>, letter |-> "", next |-> 1],
                      [k \in 1 .. Len(s) |-> k]).branches
  IN  IF s = "" THEN <<>> ELSE [k \in DOMAIN all |-> PadZeros(all[k].code, DmCodeLength)]
-----------------------------------------------------------------------------
(* A call. Missing stands for NA, and for no string made yet.                 *)
Missing == 255
Names == coding.names
NameRows == DOMAIN Names
Widths == [soundex |-> <<4>>, nysiis |-> <<6>>, caverphone |-> <<10>>, double_metaphone |-> <<4, 4>>]
IsFixed == coding.fn \in DOMAIN Widths
IsDaitch == coding.fn = "daitch_mokotoff"

(* The encoders that are used through a worker of their own, run_phonetic()   *)
(* and run_dynamic_phonetic().                                                *)
Encoded(fn, s, n) ==
  CASE fn = "soundex" -> Soundex(s)
    [] fn = "nysiis" -> Nysiis(s, 6)
    [] fn = "caverphone" -> Caverphone(s)
    [] fn = "refined_soundex" -> RefinedSoundex(s)
    [] fn = "cologne" -> Cologne(s)
    [] fn = "metaphone" -> Metaphone(s, n)
    [] fn = "mra" -> MraCodex(s)
    [] fn = "statcan" -> Statcan(s, n)
    [] fn = "lein" -> Lein(s, n)
    [] fn = "phonex" -> Phonex(s, n)
    [] fn = "roger_root" -> RogerRoot(s, n)
    [] fn = "onca" -> Onca(s, n)

CodesInit ==
  /\ coding \in CodeCalls
  /\ spans = {} /\ store = <<>> /\ sizes = <<>> /\ codes = <<>>

(* dispatch_for(), or make_text_work_plan(): ranges of rows.                  *)
Ranges(cuts) ==
  {[at |-> b, from |-> b, to |-> Min({c \in cuts \cup {Len(Names)} : c >= b}), out |-> <<>>] :
     b \in {1} \cup {c + 1 : c \in cuts}}
StartCodes ==
  /\ sizes = <<>>
  /\ \E cuts \in SUBSET (1 .. Len(Names) - 1) : spans' = Ranges(cuts)
  /\ store' = IF IsFixed
              THEN [w \in DOMAIN Widths[coding.fn] |->
                      [k \in 1 .. Len(Names) * Widths[coding.fn][w] |-> "."]]
              ELSE [i \in NameRows |-> IF coding.fn = "mra_compare" THEN FALSE ELSE ""]
  /\ sizes' = IF IsFixed THEN [w \in DOMAIN Widths[coding.fn] |-> [i \in NameRows |-> Missing]]
              ELSE [i \in NameRows |-> IF IsDaitch THEN [first |-> 0, count |-> 0] ELSE 0]
  /\ UNCHANGED <<coding, codes>>

(* The bytes of row i's slot with the code, which may end before the slot.    *)
Stored(bytes, i, width, code) ==
  [k \in DOMAIN bytes |->
     LET q == k - (i - 1) * width IN IF q \in 1 .. Len(code) THEN At(code, q) ELSE bytes[k]]

(* What the encoders of a fixed width write: a code for each array, or none.  *)
Unless(none, made) == IF made[1] = none THEN <<>> ELSE made
FixedCodes(name) ==
  IF name = NoCode THEN <<>>
  ELSE IF coding.fn = "double_metaphone" THEN Unless("", DoubleMetaphone(FoldedName(name, "S")))
  ELSE Unless(NoCode, <<Encoded(coding.fn, FoldedName(name, "C"), 0)>>)
FixedRow(span) ==
  LET i == span.at
  IN  /\ IsFixed
      /\ \E written \in {FixedCodes(Names[i])} :
           /\ store' = [w \in DOMAIN store |->
                 IF written = <<>> THEN store[w] ELSE Stored(store[w], i, Widths[coding.fn][w], written[w])]
           /\ sizes' = [w \in DOMAIN sizes |->
                 [sizes[w] EXCEPT ![i] = IF written = <<>> THEN Missing ELSE Len(written[w])]]
      /\ spans' = (spans \ {span}) \cup {[span EXCEPT !.at = i + 1]}

(* DynamicPhoneticWorker, PhoneticWorker; MraCompareWorker *)
StringCode(name) ==
  IF name = NoCode THEN NoCode ELSE Encoded(coding.fn, FoldedName(name, "C"), coding.max)
Compared(i) ==
  IF NoCode \in {Names[i], coding.others[i]} THEN NoCode
  ELSE MraCompare(FoldedName(Names[i], "C"), FoldedName(coding.others[i], "C"))
StringRow(span) ==
  LET i == span.at
  IN  /\ ~IsFixed /\ ~IsDaitch
      /\ \E code \in {IF coding.fn = "mra_compare" THEN Compared(i) ELSE StringCode(Names[i])} :
           /\ store' = [store EXCEPT ![i] = IF code = NoCode THEN @ ELSE code]
           /\ sizes' = [sizes EXCEPT ![i] = IF code = NoCode THEN 1 ELSE 0]
      /\ spans' = (spans \ {span}) \cup {[span EXCEPT !.at = i + 1]}

(* DmWorker *)
DaitchRow(span) ==
  LET i == span.at
  IN  /\ IsDaitch
      /\ \E new \in {IF Names[i] = NoCode THEN <<>> ELSE DmCodes(DmCleanup(Names[i]))} :
           /\ sizes' = [sizes EXCEPT ![i] = [first |-> Len(span.out), count |-> Len(new)]]
           /\ spans' = (spans \ {span}) \cup {[span EXCEPT !.at = i + 1, !.out = @ \o new]}
      /\ UNCHANGED store

CodeRow ==
  /\ codes = <<>>
  /\ \E span \in spans : span.at <= span.to /\ (FixedRow(span) \/ StringRow(span) \/ DaitchRow(span))
  /\ UNCHANGED <<coding, codes>>

(* The strings of the result: one for every row, two of Double Metaphone.     *)
SlotOf(w, i) ==
  LET width == Widths[coding.fn][w]
  IN  Spelled(SubSeq(store[w], (i - 1) * width + 1, (i - 1) * width + sizes[w][i]))
FixedResult(i) ==
  [w \in DOMAIN store |-> IF sizes[1][i] = Missing THEN NoCode ELSE SlotOf(w, i)]

(* dm_to_list(), dm_to_matrix(): codes are found in the array of the row's    *)
(* range.                                                                     *)
DaitchCode(i, k) == (CHOOSE span \in spans : i \in span.from .. span.to).out[sizes[i].first + k]
DaitchList ==
  [i \in NameRows |-> IF sizes[i].count = 0 THEN <<NoCode>>
                      ELSE [k \in 1 .. sizes[i].count |-> DaitchCode(i, k)]]
DaitchMatrix ==
  LET columns == Max({1} \cup {sizes[i].count : i \in NameRows})
  IN  [cell \in NameRows \X (1 .. columns) |->
         IF cell[2] <= sizes[cell[1]].count THEN DaitchCode(cell[1], cell[2]) ELSE NoCode]

BuildCodes ==
  /\ sizes # <<>> /\ codes = <<>> /\ \A span \in spans : span.at > span.to
  /\ codes' = CASE IsDaitch -> IF coding.simplify THEN DaitchMatrix ELSE DaitchList
               [] IsFixed  -> [i \in NameRows |-> FixedResult(i)]
               [] OTHER    -> [i \in NameRows |-> <<IF sizes[i] = 1 THEN NoCode ELSE store[i]>>]
  /\ UNCHANGED <<coding, spans, store, sizes>>

CodesNext == StartCodes \/ CodeRow \/ BuildCodes
-----------------------------------------------------------------------------
(* The letters of a name, accents folded. *)
LettersOf(name) == CleanLetters(FoldedName(name, "C"))
Again(name, n) == Encoded(coding.fn, FoldedName(name, "C"), n)
Only(code, from, set) == \A k \in from .. Len(code) : In(At(code, k), set)
Pieces(s, places) == Spelled([k \in DOMAIN places |-> At(s, places[k])])
Kept(s, keeps(_)) == SelectSeq([k \in 1 .. Len(s) |-> k], keeps)

(* The digits that differ from the one before, H and W left out of the name.  *)
SoundexDescribed(w, code) ==
  LET places == Kept(w, LAMBDA k : k = 1 \/ ~In(At(w, k), "HW"))
      digit(k) == SoundexDigit(At(w, places[k]))
      coded == Kept(Pieces(w, places), LAMBDA k : k > 1 /\ digit(k) \notin {"0", digit(k - 1)})
      digits == Spelled([k \in DOMAIN coded |-> digit(coded[k])])
  IN  code = At(w, 1) \o SubSeq(digits \o "000", 1, 3)

(* The codes of all letters, of which neither those like the one before nor   *)
(* "-" is put, and "0" at the start only. Of a C nothing is put before if all *)
(* letters are H.                                                             *)
CologneDescribed(w, code) ==
  LET all == Spelled([k \in 1 .. Len(w) |->
               CologneCodes(At(w, k), At(w, k - 1), At(w, k + 1), \A m \in 1 .. k - 1 : At(w, m) = "H")])
      put(k) == At(all, k) \notin {"-", At(all, k - 1)}
  IN  code = Pieces(all, Kept(all, LAMBDA k :
               put(k) /\ (At(all, k) = "0" => \A m \in 1 .. k - 1 : ~put(m))))

(* Of Daitch's codes: every one is that of a way to read the name, with one   *)
(* of the alternatives for each of its pieces; the first alternatives give the*)
(* first; and no way is missing where two pieces at most have alternatives    *)
(* and all are heard. Else, as in "cjca", branches of one code are one,       *)
(* whatever each of them heard last.                                          *)
DaitchStarts(s) ==
  FoldLeft(LAMBDA st, i : IF i < st[2] THEN st ELSE <<st[1] \o <<i>>, i + Len(DmRule(s, i)[1])>>,
           <<<<>>, 1>>, [k \in 1 .. Len(s) |-> k])[1]
DaitchRead(s, starts, choice) ==
  LET pieces == [k \in DOMAIN starts |-> DmReplacements(s, starts[k])[choice[k]]]
      heard(k) == \/ k = 1 \/ ~Ends(pieces[k - 1], pieces[k])
                  \/ At(s, starts[k - 1]) \o At(s, starts[k]) \in {"mn", "nm"}
  IN  PadZeros(Spelled([k \in DOMAIN starts |-> IF heard(k) THEN pieces[k] ELSE ""]), DmCodeLength)
DaitchDescribed(s, list) ==
  LET starts  == DaitchStarts(s)
      twofold == {k \in DOMAIN starts : Len(DmReplacements(s, starts[k])) = 2}
      choice(S) == [k \in DOMAIN starts |-> IF k \in S THEN 2 ELSE 1]
      reads   == {DaitchRead(s, starts, choice(S)) : S \in SUBSET twofold}
      plain   == \A k \in twofold : "" \notin Range(DmReplacements(s, starts[k]))
  IN  IF s = "" THEN list = <<NoCode>>
      ELSE /\ Range(list) \subseteq reads
           /\ list[1] = DaitchRead(s, starts, choice({}))
           /\ \A j, k \in DOMAIN list : list[j] = list[k] => j = k
           /\ plain /\ Cardinality(twofold) <= 2 => reads \subseteq Range(list)

Sounds == "AFHJKLMNPRSTX0 "
Described(i, row) ==
  LET name == Names[i]
      fn == coding.fn
      w == LettersOf(name)
      code == row[1]
  IN  CASE fn = "double_metaphone" ->
             /\ code # NoCode => Only(code, 1, Sounds) /\ Only(row[2], 1, Sounds)
             /\ IF row[1] = NoCode THEN row[2] = NoCode /\ DoubleMetaphone(" " \o FoldedName(name, "S"))[1] = ""
                ELSE row = DoubleMetaphone(" " \o FoldedName(name, "S"))
        [] fn = "caverphone" ->
             Len(code) = 10 /\ Only(code, 1, "AFKLMNPRSTWY1") /\ code = Caverphone(w)
        [] fn = "daitch_mokotoff" -> DaitchDescribed(DmCleanup(name), row)
        [] fn = "mra_compare" ->
             LET v == LettersOf(coding.others[i])
             IN  IF "" \in {w, v} THEN code = NoCode
                 ELSE code = MraAlike(MraCodex(v), MraCodex(w)) /\ (v = w => code)
        [] OTHER ->
             IF w = "" THEN code = NoCode
             ELSE CASE fn = "soundex" -> SoundexDescribed(w, code)
                    [] fn = "nysiis" ->
                         /\ Only(code, 2, "ABCDFGHJLNPRSTVWXY")
                         /\ code = Nysiis(w, 6) /\ code = Capped(Nysiis(w, 0), 6)
                    [] fn = "cologne" -> CologneDescribed(w, code)
                    [] fn = "refined_soundex" ->
                         code = At(w, 1) \o CollapseRuns(Replaced(w, LAMBDA k : RefinedDigit(At(w, k))))
                    [] fn = "mra" -> Len(code) <= 6 /\ ~(\E k \in 2 .. Len(code) : IsVowel(At(code, k)))
                    [] fn = "metaphone" -> Only(code, 2, "FHJKLMNPRSTWXY0B")
                    [] OTHER -> code = Again(Letters(w), coding.max)

(* A name's code is its own, whatever rows are beside it, and what its        *)
(* definition says it is; a shorter code is the beginning of a longer one.    *)
RowCodes(i) ==
  IF IsDaitch /\ coding.simplify
  THEN LET row == SelectSeq([k \in {c[2] : c \in DOMAIN codes} |-> codes[i, k]], LAMBDA c : c # NoCode)
       IN  IF row = <<>> THEN <<NoCode>> ELSE row
  ELSE codes[i]
CodesExact ==
  codes # <<>> =>
    \A i \in NameRows :
      IF NoCode \in {Names[i]} \cup (IF coding.fn = "mra_compare" THEN {coding.others[i]} ELSE {})
      THEN Range(RowCodes(i)) = {NoCode}
      ELSE /\ Described(i, RowCodes(i))
           /\ coding.max > 0 /\ codes[i] # <<NoCode>> =>
                codes[i][1] = Capped(Again(Names[i], coding.max + 1), coding.max)
=============================================================================
