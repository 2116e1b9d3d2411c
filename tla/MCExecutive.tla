---------------------------- MODULE MCExecutive ----------------------------
(* Small instances of the executive for TLC.                               *)
EXTENDS Executive, TLC

CONSTANTS t1, t2, t3

Symmetry == Permutations(Threads)
=============================================================================
