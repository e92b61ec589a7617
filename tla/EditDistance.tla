----------------------------- MODULE EditDistance -----------------------------
(***************************************************************************)
(* What the edit distances are, whatever computes them: tables over all    *)
(* pairs of short strings. The kernels (EditKernels) are checked against   *)
(* these, and the searches built on the kernels take their distances from  *)
(* here.                                                                   *)
(***************************************************************************)
EXTENDS Integers, SequencesExt, FiniteSetsExt

CONSTANTS
  Letters,      \* the characters strings are made of
  MaxLength     \* bound on the length of a string

ASSUME EditAssumption == MaxLength \in Nat

Strings == UNION {[1 .. n -> Letters] : n \in 0 .. MaxLength}

(* The first n characters. *)
Prefix(s, n) == SubSeq(s, 1, n)

(* The fewest insertions, deletions and substitutions, after the last      *)
(* characters of the two strings.                                          *)
Indels(d, s, t) ==
  {d[Front(s), t] + 1, d[s, Front(t)] + 1,
   d[Front(s), Front(t)] + (IF Last(s) = Last(t) THEN 0 ELSE 1)}

(* Levenshtein: insertions, deletions and substitutions only.              *)
LevenshteinTable ==
  LET lev[s \in Strings, t \in Strings] ==
        IF <<>> \in {s, t} THEN Len(s) + Len(t) ELSE Min(Indels(lev, s, t))
  IN  [s \in Strings |-> [t \in Strings |-> lev[s, t]]]
Levenshtein(s, t) == LevenshteinTable[s][t]

(* Damerau-Levenshtein: two neighbours may change places too, whatever is  *)
(* edited between or around them: everything between the two characters is *)
(* deleted on one side, inserted on the other.                             *)
DamerauTable ==
  LET dam[s \in Strings, t \in Strings] ==
        LET m == Len(s)
            n == Len(t)
        IN  IF <<>> \in {s, t} THEN m + n
            ELSE Min(Indels(dam, s, t) \cup
                     {dam[Prefix(s, e[1] - 1), Prefix(t, e[2] - 1)]
                        + (m - e[1] - 1) + 1 + (n - e[2] - 1) :
                      e \in {e \in (1 .. m - 1) \X (1 .. n - 1) :
                               s[e[1]] = t[n] /\ s[m] = t[e[2]]}})
  IN  [s \in Strings |-> [t \in Strings |-> dam[s, t]]]
Damerau(s, t) == DamerauTable[s][t]

(* OSA: swaps too, but nothing is edited twice, so that an alignment ends  *)
(* in an indel, in two characters set against each other or in a swap.     *)
OsaTable ==
  LET osa[s \in Strings, t \in Strings] ==
        LET m == Len(s)
            n == Len(t)
        IN  IF <<>> \in {s, t} THEN m + n
            ELSE Min(Indels(osa, s, t)
                     \cup (IF m > 1 /\ n > 1 /\ s[m] = t[n - 1] /\ s[m - 1] = t[n]
                             THEN {osa[Prefix(s, m - 2), Prefix(t, n - 2)] + 1}
                             ELSE {}))
  IN  [s \in Strings |-> [t \in Strings |-> osa[s, t]]]
Osa(s, t) == OsaTable[s][t]
=============================================================================
