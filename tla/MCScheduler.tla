---------------------------- MODULE MCScheduler -----------------------------
(* Small instances of Scheduler for TLC.                                    *)
EXTENDS Scheduler, TLC

Symmetry == Permutations(Workers) \cup Permutations(Fibers)
=============================================================================
