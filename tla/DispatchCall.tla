----------------------------- MODULE DispatchCall -----------------------------
(***************************************************************************)
(* dispatch_for() by itself: any call a kernel may make, any worker.       *)
(***************************************************************************)
EXTENDS ParallelDispatch

CONSTANTS
  MaxSize,       \* bound on the number of indices
  ThreadCounts,  \* the values of nthreads: -1 when the user leaves it NULL
  Grains         \* the grains the kernels ask for

ASSUME CallAssumption ==
  /\ MaxSize \in Nat
  /\ ThreadCounts \subseteq Int
  /\ Grains \subseteq Nat

VARIABLE
  requested      \* the caller's nthreads

callVars == <<dispatch_vars, requested>>

CallInit ==
  /\ DispatchInit
  /\ requested \in ThreadCounts

Call ==
  /\ \E n \in 0 .. MaxSize, small \in BOOLEAN, g \in Grains : Enter(n, small, requested, g)
  /\ UNCHANGED requested

ThreadStep(t) ==
  /\ \/ \E r \in ranges : Claim(t, r)
     \/ Run(t)
  /\ UNCHANGED requested

Scheduler ==
  /\ \/ \E piece \in 1 .. MaxSize : Cut(piece)
     \/ \E r \in ranges : Split(r)
     \/ Join
  /\ UNCHANGED requested

CallNext ==
  \/ Call
  \/ \E t \in Threads : ThreadStep(t)
  \/ Scheduler

CallSpec == CallInit /\ [][CallNext]_callVars

(* Threads that hold work run it, pieces are cut and taken, and the caller *)
(* wakes up when they are done; nothing makes the caller call.             *)
CallFairness ==
  /\ \A t \in Threads : WF_callVars(ThreadStep(t))
  /\ WF_callVars(Scheduler)
-----------------------------------------------------------------------------
CallTypeOK == DispatchTypeOK /\ requested \in ThreadCounts

(* `nthreads` is a per-call cap and 1 forces serial execution in R's own   *)
(* thread -- with TinyThread too, which ignores the argument and starts a  *)
(* thread per piece, so the cap rests on the grain dispatch_for() computes.*)
ThreadCap ==
  /\ requested > 0 => Cardinality(Busy) <= requested
  /\ requested = 1 => Busy \subseteq {Main}

(* A call that was made returns. *)
CallReturns == stage # "idle" ~> stage = "returned"
=============================================================================
