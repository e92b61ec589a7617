------------------------------- MODULE MCLinkage -------------------------------
(* Linking records: the candidate pairs of some keys, over threads           *)
(* (CandidatePairs), or a session of rLink() and the model behind it         *)
(* (RecordLinkage). A behaviour is one of them; the other rests.             *)
EXTENDS CandidatePairs, RecordLinkage

CONSTANT w1

PairsRest ==
  /\ DispatchInit /\ phase = "done"
  /\ job = [x |-> <<>>, nx |-> 0, ny |-> 0]
  /\ pass = 1 /\ cursor = 0 /\ offsets = <<>> /\ members = <<>> /\ fill = <<>> /\ skipped = <<>>
  /\ bound = 0 /\ lists = <<>>
  /\ row = [t \in Threads |-> NoRow] /\ scan = [t \in Threads |-> 1]
  /\ found = [t \in Threads |-> <<>>] /\ ordered = [t \in Threads |-> TRUE]
  /\ givers = [t \in Threads |-> 0] /\ answer = [kind |-> "none"]
LinkRests ==
  /\ call = <<>> /\ session = "resting" /\ work = <<>> /\ termCache = <<>> /\ keys = <<>>
  /\ problems = <<>> /\ recCache = <<>> /\ pairCache = <<>> /\ xi = <<>> /\ yi = <<>>
  /\ columns = <<>> /\ drawn = <<>> /\ spread = <<>>
  /\ input = <<>> /\ modelStep = "resting" /\ codes = <<>> /\ distinct = 0 /\ seen = <<>>
  /\ counts = <<>> /\ index = <<>> /\ point = 0 /\ iteration = 0 /\ converged = FALSE
  /\ loglikAt = 0 /\ weight = <<>> /\ todo = <<>> /\ usedI = <<>> /\ usedJ = <<>> /\ out = <<>>
  /\ overlap = <<>>

MCInit ==
  \/ Init /\ LinkRests
  \/ PairsRest /\ LinkageInit
MCNext ==
  \/ Next /\ UNCHANGED recordVars
  \/ LinkageNext /\ UNCHANGED vars

(* The calling thread runs on, TBB hands out the chunks, threads run theirs; *)
(* nothing is asked of a session.                                            *)
MCSpec ==
  /\ MCInit /\ [][MCNext]_<<vars, recordVars>>
  /\ WF_vars(Caller)
  /\ \A t \in Threads : WF_vars(ThreadStep(t))
-----------------------------------------------------------------------------
(* Pairs. Four records against themselves, or three against two: one pass or *)
(* two, exact or with a window of one code, with and without a block         *)
(* maximum. Two x records make a chunk, so there are two chunks to hand out, *)
(* and the largest int is four: a deduplication can give six pairs, more     *)
(* than that, and one just below is let through or not by a rounded half.    *)
MCThreads == {Main, w1}

Keys(s) == [i \in 0 .. Len(s) - 1 |-> s[i + 1]]

(* What match(all, unique(all)) can give: 1 .. K all used, numbered by     *)
(* rank for a window and in order of appearance for an exact key.          *)
Dense(s) == LET used == {s[q] : q \in DOMAIN s} \ {Missing}
            IN  used = 1 .. Cardinality(used)
Appearing(s) == \A q \in DOMAIN s : s[q] > 1 => \E r \in 1 .. q - 1 : s[r] = s[q] - 1 \/ s[r] = s[q]
Codings(m, half) ==
  {s \in [1 .. m -> 0 .. 3] : Dense(s) /\ (half = 0 => Appearing(s))}

Deduplications(half, max) ==
  LET problem(k) == [x |-> k, y |-> k, nx |-> 4, ny |-> 4, half |-> half, dedupe |-> TRUE,
                     maxBlock |-> max, nthreads |-> 2]
      firsts == {Keys(s) : s \in Codings(4, half)}
  IN  {problem(<<k>>) : k \in firsts}
        \cup {problem(<<k, Keys(<<1, 1, 0, 2>>)>>) : k \in firsts}

Links(half, max) ==
  LET problem(k, l, t) ==
        [x |-> k, y |-> l, nx |-> 3, ny |-> 2, half |-> half, dedupe |-> FALSE,
         maxBlock |-> max, nthreads |-> t]
      xs(s) == Keys(SubSeq(s, 1, 3))
      ys(s) == Keys(SubSeq(s, 4, 5))
      some == {s \in Codings(5, half) : s[1] = 1 /\ s[5] # 0}
  IN  {problem(<<xs(s)>>, <<ys(s)>>, 1) : s \in some}
        \cup {problem(<<xs(s), Keys(<<1, 0, 1>>)>>, <<ys(s), Keys(<<1, 1>>)>>, -1) : s \in some}

(* sorted_neighbourhood() sets no block maximum. *)
MCProblems ==
  UNION {Deduplications(p[1], p[2]) \cup Links(p[1], p[2]) : p \in {<<0, 2>>, <<0, 100>>, <<1, 100>>}}
-----------------------------------------------------------------------------
(* Sessions. Three records a side, two columns, an expression that is not    *)
(* pure and one that fails; comparators that share terms across and within   *)
(* sides; up to four pairs for the model, with ties, missing values, levels  *)
(* the model does not know, and allowances of one and two.                   *)
MCRecords == [side \in Sides |-> 3]

MCOutcomes(side, e) ==
  CASE e = "a" -> {IF side = 1 THEN <<1, 2, 1>> ELSE <<1, NA, 2>>}
    [] e = "b" -> {IF side = 1 THEN <<3, NA, 4>> ELSE <<4, 3, NA>>}
    [] e = "sample" -> {<<1, 2, 2>>, <<2, 1, NA>>}
    [] e = "typo" -> {Bad}

Terms == {"a", "b", "sample", "typo"}
MCComparators == {<<"a", "a">>, <<"a", "b">>, <<"b", "a">>, <<"sample", "sample">>, <<"a", "typo">>,
                <<"typo", "typo">>}
MCPasses ==
  {<<>>, <<<<<<"a">>, <<"a">>>>>>, <<<<<<"a", "b">>, <<"a", "b">>>>, <<<<"b">>, <<"b">>>>>>,
   <<<<<<"typo">>, <<"typo">>>>, <<<<"a", "typo">>, <<"b", "typo">>>>>>,
   <<<<<<"sample">>, <<"sample">>>>, <<<<"sample", "b">>, <<"sample", "b">>>>>>}

MCSessions ==
  {[dedupe |-> d, matchMissing |-> mm, passes |-> ps, cmp |-> c,
    given |-> IF ps = <<>> THEN <<<<1, 2>>, <<1, 3>>, <<2, 3>>>> ELSE <<>>] :
     d \in BOOLEAN, mm \in BOOLEAN, ps \in MCPasses,
     c \in [1 .. 2 -> MCComparators] \cup [1 .. 3 -> {<<"a", "a">>, <<"a", "b">>, <<"b", "a">>}]}

MCLevels == <<2, 3>>
MCPoints == 0 .. 3
MCLevelWeight(p, k, l) == IF l = 0 THEN 0 - k - p ELSE (p + 1) * l

(* From 0 EM converges at once, after two iterations, or not in two. *)
Maps == {[p \in MCPoints |-> p], [p \in MCPoints |-> IF p = 0 THEN 2 ELSE 3],
         [p \in MCPoints |-> 3 - p]}
MCOptions ==
  {[use |-> "fit", n |-> nm[1], m |-> nm[2], point |-> 0, em |-> f, maxIter |-> 2] :
     nm \in {<<1, 1>>, <<2, 1>>}, f \in Maps}
  \cup {[use |-> "score", n |-> 1, m |-> 2, point |-> p, em |-> <<>>, maxIter |-> 0] : p \in {1, 2}}

Known == [1 .. 4 -> {<<1, 1>>, <<0, 1>>, <<NA, 2>>, <<1, NA>>}]
Beyond == [1 .. 4 -> {<<0, 0>>, <<2, 0>>, <<NA, NA>>}]   \* 2 is past comparison 1's levels
Sides4 ==
  {[i |-> <<1, 1, 2, 2>>, j |-> <<1, 2, 1, 2>>], [i |-> <<1, 1, 1, 2>>, j |-> <<1, 1, 2, 2>>],
   [i |-> <<1, NA, 2, 1>>, j |-> <<2, 2, 2, NA>>]}

MCGiven ==
  {[levels |-> rs, i |-> s.i, j |-> s.j,
    truth |-> <<<<1, 1>>, <<2, NA>>, <<1, 1>>>>] @@ o :
     rs \in Known, s \in Sides4, o \in MCOptions}
  \cup
  {[levels |-> rs, i |-> s.i, j |-> s.j, truth |-> <<>>] @@ o :
     rs \in Beyond, s \in Sides4, o \in {p \in MCOptions : p.use = "score"}}
==============================================================================
