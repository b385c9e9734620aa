------------------------------- MODULE MCShelf -------------------------------
(* Shelf for TLC: two handler threads are alike, and so are the suites of   *)
(* the workspace's own.                                                     *)
EXTENDS Shelf, TLC

ShelfSymmetry == Permutations(Threads) \cup Permutations(Suites \ BuiltIn)
=============================================================================
