---------------------------- MODULE MCScheduler ----------------------------
(***************************************************************************)
(* TLC instances of the scheduler.                                         *)
(***************************************************************************)
EXTENDS Scheduler, TLC

\* Calls and models are interchangeable.
Symmetry == Permutations(Requests) \cup Permutations(Models)
=============================================================================
