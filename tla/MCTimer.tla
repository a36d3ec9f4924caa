------------------------------ MODULE MCTimer -------------------------------
(* Small instances of TimerManager for TLC.                                 *)
EXTENDS TimerManager, TLC

Symmetry == Permutations(Timers) \cup Permutations(Threads)
=============================================================================
