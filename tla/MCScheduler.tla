---------------------------- MODULE MCScheduler ----------------------------
(***************************************************************************)
(* Instances of Scheduler for TLC.  OneDelay is a program that sleeps for  *)
(* the same time everywhere; MixedDelays one that does not, and has a      *)
(* negative one.                                                           *)
(***************************************************************************)
EXTENDS Scheduler

CONSTANTS f1, f2, f3

MCFuncs == {f1, f2, f3}
OneDelay == [f \in MCFuncs |-> 2]
MixedDelays ==
  [f \in MCFuncs |-> CASE f = f1 -> 2 [] f = f2 -> 1 [] OTHER -> -1]

MCDelays == {OneDelay, MixedDelays}
=============================================================================
