------------------------------ MODULE AhoCorasick ------------------------------
(***************************************************************************)
(* The automaton behind fgrepl_any(), fcount_any(), fwhich_any(),          *)
(* fextract_any() and gsub_all(fixed = TRUE, sequential = FALSE) with many *)
(* patterns (src/src/aho_corasick.h): how it is built, level by level, and *)
(* how a string is then scanned with it for its non-overlapping matches,   *)
(* or for the lowest pattern in it.                                        *)
(*                                                                         *)
(* Only the longest pattern ending at a state is kept, and a scan stops    *)
(* early: that both are enough is what the properties are about.           *)
(***************************************************************************)
EXTENDS Integers, SequencesExt

CONSTANTS
  Jobs,        \* the automata considered: [patterns, ignoreCase]
  Texts,       \* the strings scanned
  LowerOf,     \* ASCII folding: a function on the upper-case bytes
  DenseLimit   \* DENSE_LIMIT: how many table cells a full automaton may have

(* What the code is called with; build_automaton() rejects empty patterns. *)
CallsAdmitted ==
  /\ DenseLimit \in Nat
  /\ \A q \in Jobs :
       /\ q.ignoreCase \in BOOLEAN
       /\ Len(q.patterns) > 0
       /\ \A p \in DOMAIN q.patterns : Len(q.patterns[p]) > 0

VARIABLES
  job,
  pc,       \* "trie", "links", "dense", "ready", "find", "which", "done"
  depth,    \* d, the level of the trie being built
  alive,    \* the level's patterns not yet put in, in sorted order
  still,    \* those that go on below it
  node,     \* at: by pattern, its state so far
  last,     \* [parent, class, state] the level's last pattern went through
  states,   \* state s is states[s + 1]: [own, depth, parent, via]
  links,    \* by state, as far as built: [fail, length, pattern, lowest]
  table,    \* dense_: by state, as far as built: the next state by class
  text,
  mode,     \* "detect", "which", "first", "all"
  i,        \* the next byte of the text
  state,    \* of the automaton
  best,     \* find(): the best match yet
  lowest,   \* min_pattern(): the lowest pattern yet
  found     \* the matches so far

build_vars == <<depth, alive, still, node, last, states, links, table>>
scan_vars  == <<text, mode, i, state, best, lowest, found>>
vars == <<job, pc, build_vars, scan_vars>>

(* Patterns are numbered from 1, and NONE is above them all. *)
Patterns  == DOMAIN job.patterns
NoPattern == Len(job.patterns) + 1
NoMatch   == [start |-> -1, length |-> 0, pattern |-> NoPattern]
NoState   == [parent |-> -1, class |-> 0, state |-> -1]

Lower(a, b) == IF a < b THEN a ELSE b
MaxLength == CHOOSE n \in {Len(job.patterns[p]) : p \in Patterns} :
               \A p \in Patterns : Len(job.patterns[p]) <= n

(* A byte's class: its rank among the bytes the patterns use, 0 if none    *)
(* uses it. Upper-case letters share their lower-case letter's if ignored. *)
Folded(byte) ==
  IF job.ignoreCase /\ byte \in DOMAIN LowerOf THEN LowerOf[byte] ELSE byte
Used == {Folded(byte) : byte \in UNION {Range(job.patterns[p]) : p \in Patterns}}
ClassOf(byte) ==
  IF Folded(byte) \in Used THEN Cardinality({b \in Used : b <= Folded(byte)}) ELSE 0
Classes == 0 .. Cardinality(Used)
Key(p) == [q \in DOMAIN job.patterns[p] |-> ClassOf(job.patterns[p][q])]

(* The order std::stable_sort puts the patterns in. *)
Sooner(a, b) ==
  \/ \E q \in DOMAIN Key(b) :
       /\ \A r \in 1 .. q - 1 : r \in DOMAIN Key(a) /\ Key(a)[r] = Key(b)[r]
       /\ q \in DOMAIN Key(a) => Key(a)[q] < Key(b)[q]
  \/ Key(a) = Key(b) /\ a < b
Sorted == SetToSortSeq(Patterns, Sooner)

Init ==
  /\ job \in Jobs
  /\ pc = "trie"
  /\ depth = 0
  /\ alive = Sorted
  /\ still = <<>>
  /\ node = [p \in Patterns |-> 0]
  /\ last = NoState
  /\ states = <<[own |-> NoPattern, depth |-> 0, parent |-> -1, via |-> 0]>>
  /\ links = <<[fail |-> 0, length |-> 0, pattern |-> NoPattern, lowest |-> NoPattern]>>
  /\ table = <<>>
  /\ text = <<>>
  /\ mode = "all"
  /\ i = 0
  /\ state = 0
  /\ best = NoMatch
  /\ lowest = NoPattern
  /\ found = <<>>
-----------------------------------------------------------------------------
(* One pattern goes one level down: through the state of the pattern before*)
(* it if that came from the same parent by the same class, else a new one. *)
Insert ==
  /\ pc = "trie"
  /\ alive # <<>>
  /\ LET p     == Head(alive)
         cls   == Key(p)[depth + 1]
         fresh == node[p] # last.parent \/ cls # last.class
         s     == IF fresh THEN Len(states) ELSE last.state
         grown == IF fresh THEN Append(states, [own |-> NoPattern, depth |-> depth + 1,
                                                parent |-> node[p], via |-> cls])
                  ELSE states
         ends  == Len(Key(p)) = depth + 1
     IN  /\ states' = IF ends THEN [grown EXCEPT ![s + 1].own = Lower(@, p)] ELSE grown
         /\ last' = [parent |-> node[p], class |-> cls, state |-> s]
         /\ node' = [node EXCEPT ![p] = s]
         /\ still' = IF ends THEN still ELSE Append(still, p)
  /\ alive' = Tail(alive)
  /\ UNCHANGED <<job, pc, depth, links, table, scan_vars>>

EndLevel ==
  /\ pc = "trie"
  /\ alive = <<>>
  /\ alive' = still
  /\ still' = <<>>
  /\ last' = NoState
  /\ depth' = depth + 1
  /\ pc' = IF still = <<>> THEN "links" ELSE "trie"
  /\ UNCHANGED <<job, node, states, links, table, scan_vars>>

(* goto_edge(): the root goes back to itself by the classes it has no edge *)
(* for; -1 anywhere else.                                                  *)
Children(s, cls) ==
  {t \in 1 .. Len(states) - 1 : states[t + 1].parent = s /\ states[t + 1].via = cls}
GotoEdge(s, cls) ==
  IF Children(s, cls) # {} THEN CHOOSE t \in Children(s, cls) : TRUE
  ELSE IF s = 0 THEN 0 ELSE -1

(* Along the failure links to the first state that has an edge.            *)
Follow(from, cls) ==
  LET go[s \in 0 .. Len(links) - 1] ==
        IF GotoEdge(s, cls) >= 0 THEN GotoEdge(s, cls) ELSE go[links[s + 1].fail]
  IN  go[from]

(* A state's failure link, and the outputs that hang on it.                *)
LinkState ==
  /\ pc = "links"
  /\ Len(links) < Len(states)
  /\ LET s == states[Len(links) + 1]
         f == IF s.parent = 0 THEN 0 ELSE Follow(links[s.parent + 1].fail, s.via)
         l == links[f + 1]
     IN  links' = Append(links,
           [fail    |-> f,
            length  |-> IF s.own # NoPattern THEN s.depth ELSE l.length,
            pattern |-> IF s.own # NoPattern THEN s.own ELSE l.pattern,
            lowest  |-> Lower(s.own, l.lowest)])
  /\ UNCHANGED <<job, pc, depth, alive, still, node, last, states, table, scan_vars>>

(* The links are compiled into a full automaton if that is small enough.   *)
EndLinks ==
  /\ pc = "links"
  /\ Len(links) = Len(states)
  /\ IF Len(states) <= DenseLimit \div Cardinality(Classes)
       THEN /\ table' = <<[cls \in Classes |-> GotoEdge(0, cls)]>>
            /\ pc' = "dense"
       ELSE /\ pc' = "ready"
            /\ UNCHANGED table
  /\ UNCHANGED <<job, depth, alive, still, node, last, states, links, scan_vars>>

DenseRow ==
  /\ pc = "dense"
  /\ Len(table) < Len(states)
  /\ LET s == Len(table)
     IN  table' = Append(table,
           [cls \in Classes |-> IF GotoEdge(s, cls) >= 0 THEN GotoEdge(s, cls)
                                ELSE table[links[s + 1].fail + 1][cls]])
  /\ pc' = IF Len(table') = Len(states) THEN "ready" ELSE "dense"
  /\ UNCHANGED <<job, depth, alive, still, node, last, states, links, scan_vars>>

-----------------------------------------------------------------------------
(* The automaton is built once and then only read, by every string. *)
StartScan ==
  /\ pc = "ready"
  /\ text' \in Texts
  /\ mode' \in {"detect", "which", "first", "all"}
  /\ pc' = IF mode' \in {"detect", "which"} THEN "which" ELSE "find"
  /\ UNCHANGED <<job, build_vars, i, state, best, lowest, found>>

(* step() *)
Step(s, byte) ==
  IF table # <<>> THEN table[s + 1][ClassOf(byte)] ELSE Follow(s, ClassOf(byte))

FaultyStops == best # NoMatch /\ i >= best.start + best.length   \* takes no longer match

(* Matches ending here or later start after the best one. *)
Stops == best # NoMatch /\ i >= best.start + MaxLength

(* find(), one byte of the string. *)
FindByte ==
  /\ pc = "find"
  /\ i < Len(text)
  /\ ~ Stops
  /\ state' = Step(state, text[i + 1])
  /\ LET l     == links[state' + 1]
         match == [start |-> i + 1 - l.length, length |-> l.length, pattern |-> l.pattern]
         takes == /\ l.length > 0
                  /\ \/ best = NoMatch
                     \/ match.start < best.start
                     \/ match.start = best.start /\ match.pattern < best.pattern
     IN  best' = IF takes THEN match ELSE best
  /\ i' = i + 1
  /\ UNCHANGED <<job, pc, build_vars, text, mode, lowest, found>>

(* A match ends the search, and the next one starts behind it.             *)
EndFind ==
  /\ pc = "find"
  /\ i >= Len(text) \/ Stops
  /\ IF best = NoMatch
       THEN /\ pc' = "done"
            /\ UNCHANGED <<i, found>>
       ELSE /\ found' = Append(found, best)
            /\ pc' = IF mode = "first" THEN "done" ELSE "find"
            /\ i' = best.start + best.length
  /\ state' = 0
  /\ best' = NoMatch
  /\ UNCHANGED <<job, build_vars, text, mode, lowest>>

(* contains() and min_pattern(), one byte: the first stops at any pattern, *)
(* the second at the first one.                                            *)
WhichByte ==
  /\ pc = "which"
  /\ i < Len(text)
  /\ state' = Step(state, text[i + 1])
  /\ lowest' = Lower(lowest, links[state' + 1].lowest)
  /\ i' = i + 1
  /\ pc' = IF lowest' = 1 \/ (mode = "detect" /\ lowest' # NoPattern) THEN "done" ELSE "which"
  /\ UNCHANGED <<job, build_vars, text, mode, best, found>>

EndWhich ==
  /\ pc = "which"
  /\ i >= Len(text)
  /\ pc' = "done"
  /\ UNCHANGED <<job, build_vars, scan_vars>>

Build == Insert \/ EndLevel \/ LinkState \/ EndLinks \/ DenseRow
Scan  == StartScan \/ FindByte \/ EndFind \/ WhichByte \/ EndWhich

Next == Build \/ Scan

Spec == Init /\ [][Next]_vars

(* Building and scanning are plain loops on one thread. *)
FairSpec == Spec /\ WF_vars(Next)
-----------------------------------------------------------------------------
States == 0 .. Len(states) - 1

(* What the states stand for, and the reference for all the rest.          *)
Words == LET word[s \in States] == IF s = 0 THEN <<>>
                                   ELSE Append(word[states[s + 1].parent], states[s + 1].via)
         IN  word
LongestIn(word, S) ==   \* the longest suffix of word in S
  CHOOSE u \in S : /\ IsSuffix(u, word)
                   /\ \A v \in S : IsSuffix(v, word) => Len(v) <= Len(u)

(* One state for every prefix of a pattern, children in class order: what  *)
(* the binary search of goto_edge() needs.                                 *)
TrieRight ==
  /\ Range(Words) = UNION {Prefixes(Key(p)) : p \in Patterns}
  /\ \A s, t \in States : Words[s] = Words[t] => s = t
  /\ \A s, t \in States \ {0} :
       s < t /\ states[s + 1].parent = states[t + 1].parent
         => states[s + 1].via < states[t + 1].via

(* The link leads to the longest proper suffix that is a prefix of some    *)
(* pattern, and the outputs are the longest and the lowest pattern ending. *)
LinksRight ==
  \A s \in States \ {0} :
    LET l    == links[s + 1]
        ends == {p \in Patterns : IsSuffix(Key(p), Words[s])}
    IN  /\ Words[l.fail] = LongestIn(Tail(Words[s]), Range(Words))
        /\ IF ends = {} THEN l.length = 0 /\ l.lowest = NoPattern
           ELSE /\ l.lowest \in ends /\ l.pattern \in ends
                /\ l.length = Len(Key(l.pattern))
                /\ \A p \in ends : /\ l.lowest <= p
                                   /\ Len(Key(p)) <= l.length
                                   /\ Len(Key(p)) = l.length => l.pattern <= p

TableRight ==
  table # <<>> =>
    \A s \in States, cls \in Classes :
      Words[table[s + 1][cls]] = LongestIn(Append(Words[s], cls), Range(Words))

(* The automaton the build leaves is the one Aho and Corasick define.      *)
AutomatonRight == pc = "ready" => TrieRight /\ LinksRight /\ TableRight

(* The reference: the pattern is in the text at a place, letters folded.   *)
OccursAt(p, at) ==
  /\ at + Len(job.patterns[p]) <= Len(text)
  /\ \A q \in DOMAIN job.patterns[p] : Folded(text[at + q]) = Folded(job.patterns[p][q])
Somewhere == {p \in Patterns : \E at \in 0 .. Len(text) : OccursAt(p, at)}

LeftmostFirst ==
  LET here(at) == {p \in Patterns : OccursAt(p, at)}
      first(S) == CHOOSE p \in S : \A q \in S : p <= q
      from[at \in 0 .. Len(text)] ==
        IF at = Len(text) THEN <<>>
        ELSE IF here(at) = {} THEN from[at + 1]
        ELSE LET p == first(here(at))
                 n == Len(job.patterns[p])
             IN  <<[start |-> at, length |-> n, pattern |-> p]>> \o from[at + n]
  IN  from[0]

(* fgrepl_any, fwhich_any, fextract_any and fcount_any answer what a scan  *)
(* for every pattern at every place would: whether any pattern occurs, the *)
(* lowest that does, and the non-overlapping matches, the leftmost first   *)
(* and among those of one place the pattern given first.                   *)
AnswersExact ==
  pc = "done" =>
    CASE mode = "detect" -> lowest # NoPattern <=> Somewhere # {}
      [] mode = "which"  -> IF Somewhere = {} THEN lowest = NoPattern
                            ELSE lowest \in Somewhere /\ \A p \in Somewhere : lowest <= p
      [] mode = "first"  -> found = SubSeq(LeftmostFirst, 1, Lower(1, Len(LeftmostFirst)))
      [] mode = "all"    -> found = LeftmostFirst

(* The automaton is the one defined, and a scan with it misses nothing.    *)
ScanExact == AutomatonRight /\ AnswersExact
=============================================================================
