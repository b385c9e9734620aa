---------------------------- MODULE MCRuntimeJobs ----------------------------
(* RuntimeJobs for TLC.  Handler threads are interchangeable, and so are the *)
(* units where every plan treats them alike, so the safety runs use symmetry; *)
(* the liveness run does not.                                                *)
EXTENDS RuntimeJobs, TLC

ThreadSymmetry == Permutations(Workers)
UnitSymmetry   == Permutations(Workers) \cup Permutations(Units)
=============================================================================
