------------------------------ MODULE EditScripts ------------------------------
(***************************************************************************)
(* edit_ops(): one call of fast_edit_ops_impl() (distance_extra.cpp), with *)
(* type "editops" or "opcodes". The edits of a pair come from the table of *)
(* the distances of prefixes, walked back from its end. When the table is  *)
(* large the pair is split where the two parts are nearest together        *)
(* (Hirschberg), and each part is aligned by itself; parts wait on a stack.*)
(*                                                                         *)
(* The table is kept as the differences of neighbours in a row, and the    *)
(* walk looks at these only. Positions are 0-based until they are          *)
(* returned.                                                               *)
(***************************************************************************)
EXTENDS EditDistance

CONSTANTS
  NA,           \* the missing string
  ScoreHint,    \* 31: distances are computed first beyond twice as many characters
  MatrixBytes,  \* 1 MiB: a table whose bits take as much is split
  SplitColumns, \* 65: the least length of the first string that is split
  SplitRows,    \* 10: of the second
  MaxCells,     \* 2^28: a larger table is refused
  ScriptCalls   \* [a, b, opcodes]

LimitsAdmitted ==
  /\ {ScoreHint, MatrixBytes, SplitColumns, SplitRows, MaxCells} \subseteq Nat
  /\ SplitColumns > 0 /\ SplitRows > 1

VARIABLES
  scripts,   \* the call
  pair,      \* the pair at hand
  parts,     \* stretches still to align: [s, t, src, dest, max], the next one first
  ops,       \* edits found for the pair: [kind, src, dest]
  listed     \* what is returned, for all the pairs done

scriptVars == <<scripts, pair, parts, ops, listed>>

TooLong == <<[pair |-> 0]>>   \* the error, which leaves nothing else
-----------------------------------------------------------------------------
Reach(s, t) == Max({Len(s), Len(t)})

(* unit_levenshtein(), levenshtein_last_row(): the distances of the first  *)
(* c characters of s from the first r of t.                                *)
Distances(s, t) ==
  LET d[r \in 0 .. Len(t), c \in 0 .. Len(s)] ==
        IF r = 0 \/ c = 0 THEN r + c
        ELSE Min({d[r - 1, c] + 1, d[r, c - 1] + 1,
                  d[r - 1, c - 1] + (IF s[c] = t[r] THEN 0 ELSE 1)})
  IN  d

LastRow(s, t) == LET d == Distances(s, t) IN [c \in 0 .. Len(s) |-> d[Len(t), c]]

Edit(kind, src, dest) == [kind |-> kind, src |-> src, dest |-> dest]

(* align_direct(): back from the end of the table. A step along a row that *)
(* raises the distance deletes; a step along the row before that lowers it *)
(* means that the row's character was inserted; else the two characters    *)
(* belong together.                                                        *)
AlignDirect(s, t) ==
  LET d == Distances(s, t)
      rise(r, c) == d[r, c] - d[r, c - 1]
      back[r \in 0 .. Len(t), c \in 0 .. Len(s)] ==
        IF r = 0 /\ c = 0 THEN <<>>
        ELSE IF r = 0 \/ (c > 0 /\ rise(r, c) = 1)
          THEN Append(back[r, c - 1], Edit("delete", c - 1, r))
        ELSE IF c = 0 \/ (r > 1 /\ rise(r - 1, c) = -1)
          THEN Append(back[r - 1, c], Edit("insert", c, r - 1))
        ELSE IF s[c] = t[r] THEN back[r - 1, c - 1]
        ELSE Append(back[r - 1, c - 1], Edit("replace", c - 1, r - 1))
  IN  back[Len(t), Len(s)]

(* The common ends go first. *)
Stripped(p) ==
  LET shorter == Min({Len(p.s), Len(p.t)})
      prefix  == Max({n \in 0 .. shorter : Prefix(p.s, n) = Prefix(p.t, n)})
      suffix  == Max({n \in 0 .. shorter - prefix :
                        \A k \in 0 .. n - 1 : p.s[Len(p.s) - k] = p.t[Len(p.t) - k]})
      rest(u) == SubSeq(u, prefix + 1, Len(u) - suffix)
  IN  [s |-> rest(p.s), t |-> rest(p.t), src |-> p.src + prefix, dest |-> p.dest + prefix,
       max |-> Min({p.max, Reach(rest(p.s), rest(p.t))})]

(* The part of the table within `max` of the diagonal, two bits a cell.    *)
IsSplit(p) ==
  LET band == Min({Len(p.s), 2 * p.max + 1})
  IN  /\ (2 * band * Len(p.t)) \div 8 >= MatrixBytes
      /\ Len(p.s) >= SplitColumns /\ Len(p.t) >= SplitRows

(* Variant: the distances of the ends are read from the front.             *)
HalvesUnturned(p) ==
  LET half  == Len(p.t) \div 2
      left  == LastRow(p.s, Prefix(p.t, half))
      right == LastRow(Reverse(p.s), Reverse(SubSeq(p.t, half + 1, Len(p.t))))
      total == [c \in 0 .. Len(p.s) |-> left[c] + right[c]]
      mid   == Min({c \in DOMAIN total : \A e \in DOMAIN total : total[c] <= total[e]})
  IN  <<[s |-> Prefix(p.s, mid), t |-> Prefix(p.t, half), src |-> p.src, dest |-> p.dest,
         max |-> left[mid]],
        [s |-> SubSeq(p.s, mid + 1, Len(p.s)), t |-> SubSeq(p.t, half + 1, Len(p.t)),
         src |-> p.src + mid, dest |-> p.dest + half, max |-> right[mid]]>>

(* The second string is halved, the first cut where the distances of the   *)
(* two parts add up to the least.                                          *)
Halves(p) ==
  LET half  == Len(p.t) \div 2
      left  == LastRow(p.s, Prefix(p.t, half))
      right == LastRow(Reverse(p.s), Reverse(SubSeq(p.t, half + 1, Len(p.t))))
      total == [c \in 0 .. Len(p.s) |-> left[c] + right[Len(p.s) - c]]
      mid   == Min({c \in DOMAIN total : \A e \in DOMAIN total : total[c] <= total[e]})
  IN  <<[s |-> Prefix(p.s, mid), t |-> Prefix(p.t, half), src |-> p.src, dest |-> p.dest,
         max |-> left[mid]],
        [s |-> SubSeq(p.s, mid + 1, Len(p.s)), t |-> SubSeq(p.t, half + 1, Len(p.t)),
         src |-> p.src + mid, dest |-> p.dest + half, max |-> right[Len(p.s) - mid]]>>
-----------------------------------------------------------------------------
Block(kind, s1, s2, d1, d2) ==
  [kind |-> kind, src |-> s1, srcEnd |-> s2, dest |-> d1, destEnd |-> d2]

(* editops_to_opcodes(): neighbouring edits of one kind are one block, and *)
(* what lies between two blocks is equal.                                  *)
Opcodes(edits, m, n) ==
  LET src(e)  == IF e.kind = "insert" THEN e.src ELSE e.src + 1
      dest(e) == IF e.kind = "delete" THEN e.dest ELSE e.dest + 1
      upto[k \in 0 .. Len(edits)] ==
        IF k = 0 THEN [blocks |-> <<>>, src |-> 0, dest |-> 0]
        ELSE LET b    == upto[k - 1]
                 e    == edits[k]
                 gap  == b.src < e.src \/ b.dest < e.dest
                 more == ~gap /\ b.blocks # <<>> /\ Last(b.blocks).kind = e.kind
                 kept == IF gap THEN Append(b.blocks, Block("equal", b.src, e.src, b.dest, e.dest))
                         ELSE IF more THEN Front(b.blocks) ELSE b.blocks
                 from == IF more THEN <<Last(b.blocks).src, Last(b.blocks).dest>> ELSE <<e.src, e.dest>>
             IN  [blocks |-> Append(kept, Block(e.kind, from[1], src(e), from[2], dest(e))),
                  src |-> src(e), dest |-> dest(e)]
      all == upto[Len(edits)]
  IN  IF all.src < m \/ all.dest < n
        THEN Append(all.blocks, Block("equal", all.src, m, all.dest, n)) ELSE all.blocks

(* The rows returned: 1-based, ends included. *)
Listed(edits) ==
  IF scripts.opcodes
    THEN LET blocks == Opcodes(edits, Len(scripts.a[pair]), Len(scripts.b[pair]))
         IN  [k \in DOMAIN blocks |->
                [pair |-> pair, kind |-> blocks[k].kind,
                 a_start |-> blocks[k].src + 1, a_end |-> blocks[k].srcEnd,
                 b_start |-> blocks[k].dest + 1, b_end |-> blocks[k].destEnd]]
    ELSE [k \in DOMAIN edits |->
            [pair |-> pair, kind |-> edits[k].kind,
             a_pos |-> edits[k].src + 1, b_pos |-> edits[k].dest + 1]]
-----------------------------------------------------------------------------
ScriptsInit ==
  /\ scripts \in ScriptCalls
  /\ pair = 0 /\ parts = <<>> /\ ops = <<>> /\ listed = <<>>

(* levenshtein_editops() of the next pair; one with NA gives no rows.      *)
NextPair ==
  /\ parts = <<>> /\ pair < Len(scripts.a) /\ listed # TooLong
  /\ LET s == scripts.a[pair + 1]
         t == scripts.b[pair + 1]
     IN  parts' = IF NA \in {s, t} THEN <<>>
                  ELSE <<[s |-> s, t |-> t, src |-> 0, dest |-> 0,
                          max |-> IF 2 * ScoreHint < Reach(s, t) THEN LastRow(s, t)[Len(s)]
                                  ELSE Reach(s, t)]>>
  /\ pair' = pair + 1
  /\ ops' = <<>>
  /\ UNCHANGED <<scripts, listed>>

(* The pair's rows are written behind its last part. *)
Ended(rest, edits) == IF rest = <<>> THEN listed \o Listed(edits) ELSE listed

(* align_hirschberg() *)
AlignPart ==
  /\ parts # <<>>
  /\ LET p == Stripped(Head(parts))
         moved(e) == [e EXCEPT !.src = @ + p.src, !.dest = @ + p.dest]
         here == AlignDirect(p.s, p.t)
     IN  CASE IsSplit(p) -> parts' = Halves(p) \o Tail(parts) /\ UNCHANGED <<ops, listed>>
           [] ~IsSplit(p) /\ Len(p.s) * Len(p.t) > MaxCells ->
                parts' = <<>> /\ listed' = TooLong /\ UNCHANGED ops
           [] OTHER ->
                /\ parts' = Tail(parts)
                /\ ops' = ops \o [k \in DOMAIN here |-> moved(here[k])]
                /\ listed' = Ended(Tail(parts), ops')
  /\ UNCHANGED <<scripts, pair>>

ScriptsNext == NextPair \/ AlignPart
-----------------------------------------------------------------------------
(* Edits applied from the last to the first, so that positions stay valid. *)
Applied(edits, s, t) ==
  LET from[k \in 1 .. Len(edits) + 1] ==
        IF k > Len(edits) THEN s
        ELSE LET e == edits[k]
                 u == from[k + 1]
             IN  CASE e.kind = "replace" -> [u EXCEPT ![e.a_pos] = t[e.b_pos]]
                   [] e.kind = "delete"  -> RemoveAt(u, e.a_pos)
                   [] e.kind = "insert"  -> InsertAt(u, e.a_pos, t[e.b_pos])
  IN  from[1]

Within(edits, s, t) ==
  \A k \in DOMAIN edits :
    /\ edits[k].a_pos \in 1 .. Len(s) + 1 /\ edits[k].b_pos \in 1 .. Len(t) + 1
    /\ edits[k].kind # "insert" => edits[k].a_pos <= Len(s)
    /\ edits[k].kind # "delete" => edits[k].b_pos <= Len(t)

(* Blocks lie end to end over both strings and none can be joined to the   *)
(* next; what is equal is, and what is replaced differs at every place.    *)
Tiles(blocks, s, t) ==
  LET last == Len(blocks)
      size(b) == <<b.a_end - b.a_start + 1, b.b_end - b.b_start + 1>>
  IN  /\ IF last = 0 THEN s = <<>> /\ t = <<>>
         ELSE /\ blocks[1].a_start = 1 /\ blocks[1].b_start = 1
              /\ blocks[last].a_end = Len(s) /\ blocks[last].b_end = Len(t)
      /\ \A k \in 2 .. last :
           /\ blocks[k].a_start = blocks[k - 1].a_end + 1
           /\ blocks[k].b_start = blocks[k - 1].b_end + 1
           /\ blocks[k].kind # blocks[k - 1].kind
      /\ \A k \in DOMAIN blocks :
           LET b == blocks[k]
           IN  CASE b.kind = "delete" -> size(b)[1] > 0 /\ size(b)[2] = 0
                 [] b.kind = "insert" -> size(b)[1] = 0 /\ size(b)[2] > 0
                 [] OTHER ->
                      /\ size(b)[1] > 0 /\ size(b)[1] = size(b)[2]
                      /\ \A q \in 0 .. size(b)[1] - 1 :
                           (s[b.a_start + q] = t[b.b_start + q]) <=> b.kind = "equal"

Cost(blocks) ==
  FoldLeft(LAMBDA n, b : n + (IF b.kind = "equal" THEN 0
                              ELSE Max({b.a_end - b.a_start, b.b_end - b.b_start}) + 1), 0, blocks)

(* edit_ops() gives the fewest edits, in order, that turn a into b, and as *)
(* opcodes the blocks of a shortest script, however often the pair was     *)
(* split and wherever its parts were cut. Only a pair whose whole table is *)
(* too large is refused.                                                   *)
ScriptsExact ==
  IF listed = TooLong THEN Len(scripts.a[pair]) * Len(scripts.b[pair]) > MaxCells
  ELSE \A n \in 1 .. (IF parts = <<>> THEN pair ELSE pair - 1) :
    LET s == scripts.a[n]
        t == scripts.b[n]
        mine == SelectSeq(listed, LAMBDA row : row.pair = n)
    IN  IF NA \in {s, t} THEN mine = <<>>
        ELSE IF scripts.opcodes THEN Tiles(mine, s, t) /\ Cost(mine) = Levenshtein(s, t)
        ELSE /\ Within(mine, s, t) /\ Applied(mine, s, t) = t
             /\ Len(mine) = Levenshtein(s, t)
             /\ \A k \in 2 .. Len(mine) :
                  /\ mine[k - 1].a_pos <= mine[k].a_pos /\ mine[k - 1].b_pos <= mine[k].b_pos
                  /\ <<mine[k - 1].a_pos, mine[k - 1].b_pos>> # <<mine[k].a_pos, mine[k].b_pos>>
=============================================================================
