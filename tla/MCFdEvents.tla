----------------------------- MODULE MCFdEvents -----------------------------
(* Small instances of FdEvents for TLC.                                     *)
EXTENDS FdEvents, TLC

Reader == {<<4, "READ">>}
ReadersAndWriter == {<<4, "READ">>, <<6, "READ">>, <<6, "WRITE">>}

Symmetry == Permutations(Threads) \cup Permutations(Waiters)
=============================================================================
