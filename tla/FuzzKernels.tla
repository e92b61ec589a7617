------------------------------ MODULE FuzzKernels ------------------------------
(***************************************************************************)
(* The kernels of the fuzz_ functions (rapidfuzz_core.h), as one worker    *)
(* runs them over the rows of its range with one scratch:                  *)
(*                                                                         *)
(*   lcs      the longest common subsequence with bit vectors of as many   *)
(*            words as the pattern needs;                                  *)
(*   partial  the best window for the shorter string: windows of its       *)
(*            length by bisection, leaving out what cannot be better, then *)
(*            the shorter windows at either end.                           *)
(*                                                                         *)
(* The pattern's bit vectors lie in a table that is kept from row to row   *)
(* and must be all-zero between uses. A step is one pair, or one turn of a *)
(* loop of the search for the best window.                                 *)
(***************************************************************************)
EXTENDS Integers, SequencesExt, FiniteSetsExt

CONSTANTS
  W,        \* bits of a machine word (64)
  Latin,    \* characters below it index the table (256)
  Full,     \* the score of equal strings, which stands for 100
  Calls     \* sequences of rows [kernel, s, t, cutoff]

ASSUME KernelAssumption == W \in Nat \ {0} /\ Latin \in Nat /\ Full \in Nat \ {0}

NoScore == -1

VARIABLES
  call,
  rowNo,
  pm,       \* RfPattern: [s, words, latin, seen, wide]
  search,   \* the search for a window, or Idle
  answers   \* of the rows done: [score, srcFrom, srcUpto, destFrom, destUpto]

vars == <<call, rowNo, pm, search, answers>>

Idle == [phase |-> "idle"]
NoWindow == [score |-> NoScore, from |-> 0, upto |-> 0]
-----------------------------------------------------------------------------
(***************************************************************************)
(* What the two basic scores of the fuzz_ functions are, whatever computes *)
(* them (R/fuzz.R). The kernels below are checked against these, the       *)
(* scorers built on them (FuzzScores) take them from here.                 *)
(*                                                                         *)
(* Scores are integers, fractions of Full, which stands for 100. Full is   *)
(* divisible by every length that occurs, so that no score is rounded; the *)
(* slack of 0.00001 that the code allows for rounding is less than any     *)
(* difference between two scores.                                          *)
(***************************************************************************)
Subsequences(s) ==
  LET upto[n \in 0 .. Len(s)] ==
        IF n = 0 THEN {<<>>}
        ELSE LET before == upto[n - 1] IN before \cup {Append(u, s[n]) : u \in before}
  IN  upto[Len(s)]

(* The length of the longest common subsequence. *)
Lcs(s, t) == Max({Len(u) : u \in Subsequences(s) \cap Subsequences(t)})

(* The score of a distance among strings of `total` characters. *)
Similarity(dist, total) ==
  IF total = 0 THEN Full ELSE (Full * (total - dist)) \div total

(* A score below the cutoff is returned as 0. *)
Cut(score, cutoff) == IF score >= cutoff THEN score ELSE 0

(* fuzz_ratio(): insertions and deletions only. *)
Indel(s, t) == Len(s) + Len(t) - 2 * Lcs(s, t)
Ratio(s, t) == Similarity(Indel(s, t), Len(s) + Len(t))

(* The windows of t that a needle of n characters is set against: those of *)
(* its length, and the shorter ones at either end.                         *)
Windows(n, t) ==
  {w \in (0 .. Len(t)) \X (0 .. Len(t)) :
     /\ w[1] < w[2]
     /\ \/ w[2] - w[1] = n
        \/ w[2] - w[1] < n /\ (w[1] = 0 \/ w[2] = Len(t))}
Window(t, w) == SubSeq(t, w[1] + 1, w[2])

(* fuzz_partial_ratio(): the shorter string against the best window of the *)
(* longer one; strings of one length are each tried as the needle.         *)
Partial(s, t) ==
  LET ways == {p \in {<<s, t>>, <<t, s>>} : Len(p[1]) <= Len(p[2])}
  IN  IF <<>> \in {s, t} THEN (IF s = t THEN Full ELSE 0)
      ELSE Max({0} \cup UNION {{Ratio(p[1], Window(p[2], w)) : w \in Windows(Len(p[1]), p[2])} :
                                 p \in ways})
-----------------------------------------------------------------------------
Bits == 0 .. W - 1
BitsOf(n) == {b \in Bits : (n \div 2 ^ b) % 2 = 1}
Value(u) == CHOOSE n \in 0 .. 2 ^ W - 1 : BitsOf(n) = u

(* A bit of the table: the character, then the word of its row. *)
Place(c, k, words) == <<c * words + k \div W, k % W>>

NoPattern == [s |-> <<>>, words |-> 0, latin |-> {}, seen |-> {}, wide |-> <<>>]

Places(s, words) == {Place(s[k], k - 1, words) : k \in {k \in DOMAIN s : s[k] < Latin}}

(* build() *)
Build(old, s) ==
  LET words == (Len(s) + W - 1) \div W
      keys  == {c \in Range(s) : c >= Latin}
  IN  [s     |-> s,
       words |-> words,
       latin |-> old.latin \cup Places(s, words),
       seen  |-> old.seen \cup {c \in Range(s) : c < Latin},
       wide  |-> [c \in keys |-> {k \in 0 .. Len(s) - 1 : s[k + 1] = c}]]

(* Variant: only the first word of each row is emptied. *)
ClearedFirst(old) ==
  [old EXCEPT !.latin = {e \in @ : e[1] \notin {c * old.words : c \in old.seen}},
              !.seen = @ \ Range(old.s), !.wide = <<>>, !.s = <<>>]

(* clear(): the words that the pattern has bits in. *)
Cleared(old) ==
  LET used == {e[1] : e \in Places(old.s, old.words)}
  IN  [old EXCEPT !.latin = {e \in @ : e[1] \notin used}, !.seen = @ \ Range(old.s),
                  !.wide = <<>>, !.s = <<>>]

(* row(c): where the pattern has the character. *)
Positions(pat) == 0 .. pat.words * W - 1
Row(pat, c) ==
  IF c < Latin THEN {k \in Positions(pat) : Place(c, k, pat.words) \in pat.latin}
  ELSE IF c \in DOMAIN pat.wide THEN pat.wide[c] ELSE {}

Holds(pat, c) == c \in (IF c < Latin THEN pat.seen ELSE DOMAIN pat.wide)

(* One character of the other string: S + (S & M) | S - (S & M), word by   *)
(* word with the carry.                                                    *)
WordOf(S, w) == Value({b \in Bits : w * W + b \in S})

LcsStep(pat, S, u) ==
  LET sums[w \in 0 .. pat.words - 1] ==
        LET old == WordOf(S, w)
            x   == (old + WordOf(u, w)) % 2 ^ W
            sum == (x + IF w = 0 THEN 0 ELSE sums[w - 1].carry) % 2 ^ W
        IN  [carry |-> IF x < old \/ sum < x THEN 1 ELSE 0, bits |-> BitsOf(sum)]
  IN  UNION {{w * W + b : b \in sums[w].bits} : w \in 0 .. pat.words - 1} \cup (S \ u)

(* rf_lcs_with(): the zeros below n. *)
LcsWith(pat, n, t) ==
  LET S[q \in 0 .. Len(t)] ==
        IF q = 0 THEN Positions(pat)
        ELSE LET before == S[q - 1] IN LcsStep(pat, before, before \cap Row(pat, t[q]))
  IN  IF n = 0 \/ t = <<>> THEN 0 ELSE Cardinality((0 .. n - 1) \ S[Len(t)])
-----------------------------------------------------------------------------
(* rf_lcs_pair(): common ends are stripped, the shorter rest is the        *)
(* pattern.                                                                *)
CommonEnds(s, t) ==
  LET shorter == Min({Len(s), Len(t)})
      prefix  == Max({n \in 0 .. shorter : SubSeq(s, 1, n) = SubSeq(t, 1, n)})
      suffix  == Max({n \in 0 .. shorter - prefix :
                        \A k \in 0 .. n - 1 : s[Len(s) - k] = t[Len(t) - k]})
  IN  <<prefix, suffix>>

LcsPair(old, s, t) ==
  LET ends == CommonEnds(s, t)
      rest(u) == SubSeq(u, ends[1] + 1, Len(u) - ends[2])
      few  == IF Len(rest(s)) > Len(rest(t)) THEN rest(t) ELSE rest(s)
      many == IF Len(rest(s)) > Len(rest(t)) THEN rest(s) ELSE rest(t)
      pat  == Build(old, few)
  IN  IF few = <<>> THEN [lcs |-> ends[1] + ends[2], pm |-> old]
      ELSE [lcs |-> ends[1] + ends[2] + LcsWith(pat, Len(few), many), pm |-> Cleared(pat)]

Job == call[rowNo]
Free == rowNo <= Len(call) /\ search = Idle

Answer(score, from, upto, destFrom, destUpto) ==
  /\ answers' = Append(answers, [score |-> score, srcFrom |-> from, srcUpto |-> upto,
                                 destFrom |-> destFrom, destUpto |-> destUpto])
  /\ rowNo' = rowNo + 1
  /\ search' = Idle

(* rf_ratio(): the lengths alone may put the score below the cutoff.       *)
RatioRow ==
  /\ Free /\ Job.kernel = "lcs"
  /\ LET total == Len(Job.s) + Len(Job.t)
         gap   == Max({Len(Job.s) - Len(Job.t), Len(Job.t) - Len(Job.s)})
         pair  == LcsPair(pm, Job.s, Job.t)
     IN  IF Job.cutoff > 0 /\ total > 0 /\ Similarity(gap, total) < Job.cutoff
           THEN Answer(0, 0, 0, 0, 0) /\ pm' = pm
           ELSE /\ Answer(Cut(Similarity(total - 2 * pair.lcs, total), Job.cutoff), 0, 0, 0, 0)
                /\ pm' = pair.pm
  /\ call' = call
-----------------------------------------------------------------------------
(* rf_partial_ratio_impl() for a needle in the table. The distances of     *)
(* windows are even.                                                       *)
CutoffDistance(total, cutoff) ==
  IF cutoff = 0 THEN total ELSE (total * (Full - cutoff)) \div Full + 1

Started(needle, text, cutoff, swapped, first) ==
  LET between == Len(text) - Len(needle)
  IN  [phase |-> IF between > 0 THEN "bisect" ELSE "left",
       needle |-> needle, text |-> text, cutoff |-> cutoff, swapped |-> swapped, first |-> first,
       windows |-> <<<<0, between - 1>>>>, halves |-> <<>>,
       scores |-> [start \in 0 .. between - 1 |-> NoScore],
       limit |-> CutoffDistance(2 * Len(needle), cutoff), best |-> NoScore,
       at |-> 1, score |-> 0, from |-> 0, upto |-> Len(needle)]

StartPartial ==
  /\ Free /\ Job.kernel = "partial"
  /\ LET swapped == Len(Job.s) > Len(Job.t)
         needle  == IF swapped THEN Job.t ELSE Job.s
         text    == IF swapped THEN Job.s ELSE Job.t
     IN  IF needle = <<>>
           THEN /\ LET score == IF text = <<>> THEN Full ELSE 0
                   IN  IF score < Job.cutoff THEN Answer(0, 0, 0, 0, 0) ELSE Answer(score, 1, 0, 1, 0)
                /\ pm' = pm
           ELSE /\ search' = Started(needle, text, Job.cutoff, swapped, NoWindow)
                /\ pm' = Build(pm, needle)
                /\ UNCHANGED <<rowNo, answers>>
  /\ call' = call

(* One end of a range of windows; a distance of 0 ends the search.         *)
ScoreEnd(r, start) ==
  LET n    == Len(r.needle)
      dist == 2 * n - 2 * LcsWith(pm, n, Window(r.text, <<start, start + n>>))
  IN  IF r.phase = "found" \/ r.scores[start] # NoScore THEN r
      ELSE IF dist >= r.limit THEN [r EXCEPT !.scores[start] = dist]
      ELSE [r EXCEPT !.scores[start] = dist, !.limit = dist, !.best = dist,
                     !.from = start, !.upto = start + n,
                     !.phase = IF dist = 0 THEN "found" ELSE @,
                     !.score = IF dist = 0 THEN Full ELSE @]

(* How much a window between the two ends may be better than both: a slide *)
(* by one place changes the distance by 2 at most.                         *)
EndsDiffer(r, w) == Max({r.scores[w[1]] - r.scores[w[2]], r.scores[w[2]] - r.scores[w[1]]})

Improvement(r, w) == ((w[2] - w[1] - EndsDiffer(r, w) \div 2) \div 2) * 2

Worthwhile(r, w) ==
  /\ w[2] - w[1] # 1
  /\ Min({r.scores[w[1]], r.scores[w[2]]}) - Improvement(r, w) < r.limit

Bisect ==
  /\ search.phase = "bisect" /\ search.windows # <<>>
  /\ LET w      == Head(search.windows)
         r      == ScoreEnd(ScoreEnd(search, w[1]), w[2])
         center == w[1] + (w[2] - w[1]) \div 2
     IN  search' = [r EXCEPT !.windows = Tail(@),
                             !.halves = IF r.phase # "found" /\ Worthwhile(r, w)
                                          THEN @ \o <<<<w[1], center>>, <<center, w[2]>>>> ELSE @]
  /\ UNCHANGED <<call, rowNo, pm, answers>>

NextRound ==
  /\ search.phase = "bisect" /\ search.windows = <<>> /\ search.halves # <<>>
  /\ search' = [search EXCEPT !.windows = search.halves, !.halves = <<>>]
  /\ UNCHANGED <<call, rowNo, pm, answers>>

EndBisection ==
  /\ search.phase = "bisect" /\ search.windows = <<>> /\ search.halves = <<>>
  /\ LET score == Similarity(search.best, 2 * Len(search.needle))
     IN  search' = IF search.best # NoScore /\ score >= search.cutoff
                     THEN [search EXCEPT !.phase = "left", !.score = score, !.cutoff = score]
                     ELSE [search EXCEPT !.phase = "left"]
  /\ UNCHANGED <<call, rowNo, pm, answers>>

(* A window at an end counts when its inner character is in the needle.    *)
Tried(r, c, w) ==
  LET n     == Len(r.needle)
      total == n + w[2] - w[1]
      score == Cut(Similarity(total - 2 * LcsWith(pm, n, Window(r.text, w)), total), r.cutoff)
  IN  IF Holds(pm, c) /\ score > r.score
        THEN [r EXCEPT !.cutoff = score, !.score = score, !.from = w[1], !.upto = w[2],
                       !.phase = IF score = Full THEN "found" ELSE @]
        ELSE r

LeftEnd ==
  /\ search.phase = "left"
  /\ LET i == search.at
         r == Tried(search, search.text[i], <<0, i>>)
     IN  search' = IF i < Len(search.needle) THEN [r EXCEPT !.at = i + 1]
                   ELSE [search EXCEPT !.phase = "right", !.at = Len(search.text) - Len(search.needle)]
  /\ UNCHANGED <<call, rowNo, pm, answers>>

RightEnd ==
  /\ search.phase = "right" /\ search.at < Len(search.text)
  /\ LET i == search.at
         r == Tried(search, search.text[i + 1], <<i, Len(search.text)>>)
     IN  search' = [r EXCEPT !.at = i + 1]
  /\ UNCHANGED <<call, rowNo, pm, answers>>

(* The pattern is cleared. Strings of one length are then searched the     *)
(* other way round, and the first way wins a tie.                          *)
EndSearch ==
  /\ \/ search.phase = "found"
     \/ search.phase = "right" /\ search.at = Len(search.text)
  /\ LET r     == [score |-> search.score, from |-> search.from, upto |-> search.upto]
         again == /\ search.first = NoWindow
                  /\ search.score # Full
                  /\ Len(search.needle) = Len(search.text)
         other == search.first # NoWindow /\ r.score <= search.first.score
         best  == IF other THEN search.first ELSE r
         flip  == search.swapped # (search.first # NoWindow /\ ~other)
         n     == Len(search.needle)
     IN  IF again
           THEN /\ search' = Started(search.text, search.needle, Max({Job.cutoff, r.score}),
                                     search.swapped, r)
                /\ pm' = Build(Cleared(pm), search.text)
                /\ UNCHANGED <<rowNo, answers>>
           ELSE /\ pm' = Cleared(pm)
                /\ IF best.score < Job.cutoff THEN Answer(0, 0, 0, 0, 0)
                   ELSE IF flip THEN Answer(best.score, best.from + 1, best.upto, 1, n)
                   ELSE Answer(best.score, 1, n, best.from + 1, best.upto)
  /\ call' = call

Init ==
  /\ call \in Calls /\ rowNo = 1
  /\ pm = NoPattern /\ search = Idle /\ answers = <<>>

Next ==
  \/ RatioRow \/ StartPartial \/ Bisect \/ NextRound \/ EndBisection
  \/ LeftEnd \/ RightEnd \/ EndSearch

Spec == Init /\ [][Next]_vars
-----------------------------------------------------------------------------
(* Every row of a worker's range has its own score, whatever the patterns  *)
(* of the rows before it were: that of the definition where it reaches the *)
(* cutoff, else 0, though most windows are left out; and the two stretches *)
(* that are reported with the best window's score have that score.         *)
RowsScored ==
  rowNo > Len(call) => \A k \in DOMAIN answers :
    LET job == call[k]
        a   == answers[k]
        part(u, from, upto) == SubSeq(u, from, upto)
    IN  /\ a.score = Cut((IF job.kernel = "lcs" THEN Ratio(job.s, job.t) ELSE Partial(job.s, job.t)),
                         job.cutoff)
        /\ a.destFrom > 0 =>
             a.score \in {0, Ratio(part(job.s, a.srcFrom, a.srcUpto), part(job.t, a.destFrom, a.destUpto))}
=============================================================================
