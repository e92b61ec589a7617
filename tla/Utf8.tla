--------------------------------- MODULE Utf8 ---------------------------------
(* The UTF-8 routines that several kernels carry a copy of: a decoder of one *)
(* character, its inverse, and the test for white space at a byte, which     *)
(* reads the bytes without decoding them (utf8_text.h). Strings are          *)
(* sequences of bytes, and positions count from 1.                           *)
EXTENDS Integers, Sequences

None == [width |-> 0, point |-> 0]

(* A byte's payload bits: `c & 0x1F` and the like. *)
Low(c, n) == c % n

Width(c) ==
  CASE c < 128 -> 1
    [] c \in 194 .. 223 -> 2
    [] c \in 224 .. 239 -> 3
    [] c \in 240 .. 244 -> 4
    [] OTHER -> 0

Lead(c) == Low(c, CASE Width(c) = 1 -> 128 [] Width(c) = 2 -> 32 [] Width(c) = 3 -> 16 [] OTHER -> 8)

Continuation(c) == c \in 128 .. 191

Scalar(point, width) ==
  /\ width = 3 => point >= 2048
  /\ width = 4 => point >= 65536
  /\ point \notin 55296 .. 57343 /\ point <= 1114111

(* utf8_decode(): the character that starts at i, or None. *)
Utf8Decode(s, i) ==
  LET width == Width(s[i])
      value[k \in 0 .. 3] == IF k = 0 THEN Lead(s[i]) ELSE value[k - 1] * 64 + Low(s[i + k], 64)
  IN  IF /\ width > 0 /\ i + width - 1 <= Len(s)
         /\ \A k \in 1 .. width - 1 : Continuation(s[i + k])
         /\ Scalar(value[width - 1], width)
      THEN [width |-> width, point |-> value[width - 1]]
      ELSE None

(* utf8_append(): the bytes of a point. *)
Tail6(point, shift) == 128 + Low(point \div shift, 64)
Utf8Bytes(point) ==
  CASE point < 128 -> <<point>>
    [] point \in 128 .. 2047 -> <<192 + point \div 64, Tail6(point, 1)>>
    [] point \in 2048 .. 65535 -> <<224 + point \div 4096, Tail6(point, 64), Tail6(point, 1)>>
    [] OTHER -> <<240 + point \div 262144, Tail6(point, 4096), Tail6(point, 64), Tail6(point, 1)>>

(* is_white_space(): Unicode's White_Space property. *)
WhiteSpacePoint(point) ==
  point \in (9 .. 13) \cup {32, 133, 160, 5760} \cup (8192 .. 8202) \cup {8232, 8233, 8239, 8287, 12288}

(* whitespace_width(): the same, from the bytes. *)
WhitespaceWidth(s, i, utf8) ==
  LET c == s[i]
      Next(k) == IF i + k <= Len(s) THEN s[i + k] ELSE 0
  IN  CASE c = 32 \/ c \in 9 .. 13 -> 1
        [] ~utf8 -> 0
        [] c = 194 /\ Next(1) \in {133, 160} -> 2
        [] c = 225 /\ Next(1) = 154 /\ Next(2) = 128 -> 3
        [] c = 226 /\ Next(1) = 128 /\ Next(2) \in (128 .. 138) \cup {168, 169, 175} -> 3
        [] c = 226 /\ Next(1) = 129 /\ Next(2) = 159 -> 3
        [] c = 227 /\ Next(1) = 128 /\ Next(2) = 128 -> 3
        [] OTHER -> 0

----------------------------------------------------------------------------
(* Well-formed UTF-8 as the Unicode standard tabulates it (table 3-7): the   *)
(* range of each byte, by the first.                                         *)
Ranges(c) ==
  CASE c \in 0 .. 127   -> <<>>
    [] c \in 194 .. 223 -> <<128 .. 191>>
    [] c = 224          -> <<160 .. 191, 128 .. 191>>
    [] c = 237          -> <<128 .. 159, 128 .. 191>>
    [] c \in 225 .. 239 -> <<128 .. 191, 128 .. 191>>
    [] c = 240          -> <<144 .. 191, 128 .. 191, 128 .. 191>>
    [] c \in 241 .. 243 -> <<128 .. 191, 128 .. 191, 128 .. 191>>
    [] c = 244          -> <<128 .. 143, 128 .. 191, 128 .. 191>>
    [] OTHER            -> <<{}>>

WellFormedAt(s, i) ==
  LET r == Ranges(s[i])
  IN  /\ i + Len(r) <= Len(s)
      /\ \A k \in DOMAIN r : s[i + k] \in r[k]
=============================================================================
