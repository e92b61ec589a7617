-------------------------------- MODULE MCCalls --------------------------------
(* Two components for which a call may come with anything: dispatch_for()    *)
(* from any kernel, on any schedule, and cluster_pairs() with any pairs.     *)
(* Neither uses the other, so a behaviour is one of them; the other rests.   *)
EXTENDS DispatchCall, ClusterPairs

CONSTANTS t1, t2, t3, t4

VARIABLE called   \* the one of the two that is called

MCInit ==
  \/ called = "dispatch_for"  /\ CallInit /\ Init /\ input = <<>>
  \/ called = "cluster_pairs" /\ Init /\ CallInit /\ tbb /\ requested = 1
MCNext ==
  /\ \/ called = "dispatch_for"  /\ CallNext /\ UNCHANGED vars
     \/ called = "cluster_pairs" /\ Next /\ UNCHANGED callVars
  /\ UNCHANGED called

(* cluster_pairs() runs on R's main thread to its end: nothing interrupts it. *)
MCSpec ==
  /\ MCInit /\ [][MCNext]_<<called, vars, callVars>>
  /\ CallFairness
  /\ WF_vars(called = "cluster_pairs" /\ Next)
-----------------------------------------------------------------------------
(* Five indices cut into up to five pieces, two or three threads asked for:  *)
(* every remainder of the ceiling divisions occurs. TinyThread needs a       *)
(* thread per piece, so there are as many threads as indices.                *)
MCThreads == {Main, t1, t2, t3, t4}
MCThreadCounts == {-1, 1, 2, 3}
MCGrains == {0, 1, 2}

(* Five records and four pairs: enough for two trees of depth one to be      *)
(* linked into one of depth two, whose bottom record path halving must lift  *)
(* while others hang below it. One pair names a record twice.                *)
MCPairs == {<<0, 1>>, <<2, 3>>, <<1, 3>>, <<3, 0>>, <<4, 2>>, <<2, 2>>}
================================================================================
