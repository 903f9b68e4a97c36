---------------------------- MODULE MCScheduler ----------------------------
(***************************************************************************)
(* Bounded instances of Scheduler for TLC.  The bounds of the constants are *)
(* in the .cfg files; a run that explores more posts than one uses the     *)
(* symmetry below, which is sound because nothing orders posts.            *)
(***************************************************************************)
EXTENDS SchedulerProperties, TLC

PostSymmetry == Permutations(Posts)
=============================================================================
