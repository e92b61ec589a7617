------------------------------ MODULE MCTextTools ------------------------------
(* The calls of TextTools: strings in every encoding and mode, bytes at every *)
(* boundary of UTF-8, token counts, and each function on the strings that its *)
(* rules are about.                                                           *)
EXTENDS TextTools

ASSUME CallsAdmitted == \A c \in Calls : CallAdmitted(c)

MCEnc(enc, bytes) == [enc |-> IF Ascii(bytes) THEN "native" ELSE enc, bytes |-> bytes]
MCText(p) == MCEnc("utf8", Text(p))
MCCall(mode, native, fn, args, strings) ==
  [mode |-> mode, nativeUtf8 |-> native, fn |-> fn, args |-> args, strings |-> strings]
MCNoArgs == [width |-> 0]

(* Views. "a", and "é", "€" and malformed bytes in the encodings that R knows;*)
(* MaxBytes = 6 lets the counts of the longer calls reach their limit.        *)
MCPool == {NA, MCEnc("native", <<97>>), MCEnc("latin1", <<233>>), MCEnc("utf8", <<195, 169>>),
           MCEnc("native", <<195, 169>>), MCEnc("native", <<97, 233>>), MCEnc("utf8", <<195>>),
           MCEnc("bytes", <<97, 233, 97>>), MCEnc("utf8", <<226, 130, 172>>)}
MCViewCalls ==
  {MCCall(m, n, "none", MCNoArgs, <<a, b, c>>) :
     m \in {"raw", "utf8", "points"}, n \in BOOLEAN, a \in MCPool, b \in MCPool, c \in MCPool}

(* Decoding. Leading bytes of each class, the second bytes around each limit, *)
(* cut off or followed by bytes that continue them or do not, and the bytes of*)
(* the white space with their neighbours.                                     *)
MCBytes ==
  LET leads   == {127, 128, 193, 194, 223, 224, 225, 237, 239, 240, 241, 244, 245, 255}
      seconds == {127, 128, 143, 144, 159, 160, 191, 192}
      ends    == {127, 128, 191, 192}
      spaces  == {194, 225, 226, 227} \X {128, 129, 133, 154, 160} \X
                   {127, 128, 138, 139, 159, 167, 168, 169, 170, 175, 176}
  IN  {<<a>> : a \in leads} \cup (leads \X seconds) \cup (leads \X seconds \X ends)
        \cup (leads \X seconds \X ends \X ends) \cup spaces
        \cup {<<c>> : c \in {8, 9, 13, 14, 31, 32, 33}}
MCByteCalls == {MCCall("raw", TRUE, "none", MCNoArgs, <<MCEnc("bytes", b)>>) : b \in MCBytes}

(* Token counts. The slot of a token is that of its first byte, so that "a",  *)
(* "A" and "e" meet in a table of four; two slots to begin with, and up to    *)
(* five different tokens.                                                     *)
MCHashOf(token) == token[1] % 8
MCTokenRows == {NA, MCEnc("native", <<>>), MCEnc("native", <<97, 32, 98, 32, 97>>),
                MCEnc("native", <<65, 9, 99, 32, 32>>), MCText(<<100, 160, 101, 160, 98>>),
                MCEnc("bytes", <<97, 194, 160, 99, 32, 101>>)}
MCCountCalls ==
  {[ignoreCase |-> f, threads |-> t] @@ MCCall("utf8", TRUE, "token_counts", MCNoArgs, s) :
     f \in BOOLEAN, t \in {1, 2}, s \in {<<a, b, c>> : a, b, c \in MCTokenRows}}

(* One row, or one behind a string of "bytes".                                *)
MCOn(fn, argSet, strings) ==
  {MCCall("utf8", TRUE, fn, a, s) :
     a \in argSet, s \in {<<t>> : t \in strings} \cup {<<MCEnc("bytes", <<97, 233>>), t>> : t \in strings}}

(* e with an acute accent, in Latin-1, of two points, and malformed.          *)
MCAccents == {NA, MCEnc("native", <<>>), MCEnc("latin1", <<98, 233>>), MCText(<<97, 233>>),
              MCText(<<101, 769, 98>>), MCText(<<769, 97>>), MCText(<<97, 769, 775, 769, 98, 775>>),
              MCEnc("utf8", <<97, 195, 98>>)}
(* Sigmas at the end, before a letter, marks and apostrophes; letters that    *)
(* become longer; and digraphs that have a title case.                        *)
MCCases == MCAccents \cup {MCText(t) : t \in
  {<<927, 931>>, <<931>>, <<97, 931, 98>>, <<927, 931, 39>>, <<927, 931, 39, 65>>, <<927, 931, 769>>,
   <<65, 931, 32, 931, 65>>, <<304, 97>>, <<97, 223>>, <<454, 97>>, <<453>>, <<65, 66>>, <<97, 98>>,
   <<65, 98, 51, 1632>>}} \cup {MCEnc("utf8", Text(<<65, 931>>) \o <<206>>)}
(* "o'brien", "d'", "mcdo", "mc", "m'a", "a ii", "ii", "a de b", "de b", "a   *)
(* de", "3rd", "a-b", "'a'", "O'Σ".                                            *)
MCNames == MCCases \cup {MCText(t) : t \in
  {<<111, 39, 98, 82>>, <<100, 39>>, <<109, 67, 100, 79>>, <<109, 99>>, <<109, 8217, 97>>,
   <<97, 32, 105, 105>>, <<105, 105>>, <<97, 32, 68, 101, 32, 98>>, <<100, 101, 32, 98>>,
   <<97, 32, 100, 101>>, <<51, 82, 100>>, <<97, 45, 98>>, <<39, 97, 39>>, <<79, 39, 931, 97>>,
   <<97, 39, 39, 98>>}}
(* Tokens between every kind of white space.                                  *)
MCTokens == {NA} \cup {MCText(t) : t \in
  {<<>>, <<98, 32, 97>>, <<32, 98, 9, 97, 160, 98, 12288>>, <<65, 32, 97>>, <<97, 98, 32, 97>>,
   <<233, 8195, 98, 32, 233>>, <<98, 160>>, <<97, 32, 98, 32, 97, 98>>}}
MCLinks == {NA} \cup {MCEnc("utf8", b) : b \in
  {<<>>, <<97, 37>>, <<97, 37, 52>>, <<97, 37, 52, 49>>, <<37, 67, 51, 37, 97, 57>>, <<37, 67, 51>>,
   <<97, 43, 98>>, <<37, 50, 66, 43>>, <<195, 169, 47>>, <<37, 37, 52, 49>>, <<37, 50, 53, 52, 49>>,
   <<195, 37, 65, 57>>, <<37, 71, 49>>}}
(* "&amp;", "&amp", "&ampx", "&lt;&gt", "&notin;", "&notit;", "&#65;",        *)
(* "&#x41b", "&#xD800;", "&#0;", "&#128", "&#1114112;", "&#99999999", "&#1;", *)
(* "&#x;", "&#", "&", "&&lt;", "&amp;lt;", "&é;", "&ltéé", "&q;", "&#13;".     *)
MCMarkup == {NA} \cup {MCEnc("utf8", b) : b \in
  {<<>>, <<38, 97, 109, 112, 59>>, <<38, 97, 109, 112>>, <<38, 97, 109, 112, 120>>,
   <<38, 108, 116, 59, 38, 103, 116>>, <<38, 110, 111, 116, 105, 110, 59>>,
   <<38, 110, 111, 116, 105, 116, 59>>, <<38, 35, 54, 53, 59>>, <<38, 35, 120, 52, 49, 98>>,
   <<38, 35, 120, 68, 56, 48, 48, 59>>, <<38, 35, 48, 59>>, <<38, 35, 49, 50, 56>>,
   <<38, 35, 49, 49, 49, 52, 49, 49, 50, 59>>, <<38, 35, 57, 57, 57, 57, 57, 57, 57, 57>>,
   <<38, 35, 49, 59>>, <<38, 35, 120, 59>>, <<38, 35>>, <<38>>, <<38, 38, 108, 116, 59>>,
   <<38, 97, 109, 112, 59, 108, 116, 59>>, <<38, 195, 169, 59>>, <<38, 108, 116, 195, 169, 195>>,
   <<38, 113, 59>>, <<38, 35, 49, 51, 59>>, <<60, 34, 62>>, <<34, 39, 13, 10, 233>>}}

(* Accents composed and not, on letters, digits and what becomes a digit;     *)
(* "b, A  a.", Greek, Hangul, a ligature, punctuation and spaces that are     *)
(* dropped or become others; bytes that would make a character if they met.   *)
MCFolds == MCAccents \cup {MCText(t) : t \in
  {<<101, 769, 769, 233, 775>>, <<189, 769>>, <<50, 776, 913, 769>>, <<201, 32, 69, 769>>, <<494, 836>>,
   <<98, 44, 32, 65, 32, 32, 97, 46>>, <<98, 160, 97, 12288, 66>>, <<902, 931, 32, 927>>, <<44033, 304>>,
   <<44032>>, <<64257, 32, 102, 105>>, <<97, 8217, 98>>, <<8217>>, <<65, 98, 97, 98, 32, 65>>,
   <<98, 32, 97, 133, 97>>, <<233, 32, 101, 32, 198>>}}
  \cup {MCEnc("utf8", <<169, 97, 195>>), MCEnc("utf8", <<233>> \o Text(<<769, 101, 769>>))}

MCTokenArgs == [from : {<<<<97>>, <<98>>>>, <<<<97>>, <<65>>>>, <<<<66>>, <<195, 169>>>>},
                to : {<<<<>>, <<99>>>>, <<<<98>>, <<97>>>>, <<<<97, 32, 98>>, <<>>>>}, ignoreCase : BOOLEAN]
MCAffixArgs == [affixes : {<<<<97>>, <<97, 98>>>>, <<<<65, 66>>, <<97, 98>>, <<98>>>>, <<<<98>>, <<98>>>>,
                           <<<<97>>, <<32, 97>>, <<98, 32, 97>>>>}, suffix : BOOLEAN, ignoreCase : BOOLEAN]

MCToolCalls ==
  UNION {MCOn("upper", {MCNoArgs}, MCCases), MCOn("lower", {MCNoArgs}, MCCases),
         MCOn("title", [particles : {{<<100, 101>>}}, nameRules : BOOLEAN], MCNames),
         MCOn("shape", [collapse : BOOLEAN, ignoreCase : BOOLEAN], MCCases),
         MCOn("reverse", {MCNoArgs}, MCAccents),
         MCOn("pad", [width : {0, 2, 3, 5}, side : {"left", "right", "both"}, pad : {<<46>>, <<195, 169>>}],
              MCAccents),
         MCOn("replace_tokens", MCTokenArgs, MCTokens),
         MCOn("token_sort", [unique : BOOLEAN, decreasing : BOOLEAN], MCTokens),
         MCOn("initials", [sep : {<<>>, <<46>>}], MCTokens),
         MCOn("affix", MCAffixArgs, MCTokens),
         MCOn("url_encode", [reserved : BOOLEAN, repeated : BOOLEAN], MCLinks),
         MCOn("url_decode", [plus : BOOLEAN], MCLinks),
         MCOn("html_escape", [attribute : BOOLEAN], MCMarkup),
         MCOn("html_unescape", {MCNoArgs}, MCMarkup),
         MCOn("ascii_fold", [hasSub : {FALSE}, sub : {<<>>}]
                              \cup [hasSub : {TRUE}, sub : {<<>>, <<63>>, <<195, 169>>}], MCFolds),
         MCOn("fingerprint", {MCNoArgs}, MCFolds),
         MCOn("ngram_fingerprint", [n : 1 .. 3], MCFolds)}

MCCalls == UNION {MCViewCalls, MCByteCalls, MCCountCalls, MCToolCalls}
-----------------------------------------------------------------------------
(* For FinalSigmaRule: strings of up to three of a capital sigma, a Latin and *)
(* a Greek letter, a combining mark, an apostrophe, and a space, lower-cased. *)
MCSigmaCalls ==
  {MCCall("utf8", TRUE, "lower", MCNoArgs, <<MCText(p)>>) :
     p \in UNION {[1 .. n -> {931, 97, 927, 769, 39, 32}] : n \in 1 .. 3}}

(* For ResultIsUtf8: cases and references of two strings in every pair of     *)
(* encodings.                                                                 *)
MCMixed == {NA, MCEnc("native", <<97, 66>>), MCEnc("latin1", <<98, 233, 65>>),
            MCEnc("utf8", <<97, 195, 169, 65>>), MCEnc("bytes", <<97, 195>>),
            MCEnc("native", <<38, 108, 116>>)}
MCEncodingCalls ==
  {MCCall("utf8", n, fn, [particles |-> {}, nameRules |-> FALSE], <<a, b>>) :
     n \in BOOLEAN, fn \in {"upper", "lower", "title", "html_unescape"}, a, b \in MCMixed}
=============================================================================
