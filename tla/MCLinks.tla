------------------------------ MODULE MCLinks ------------------------------
(* A small instance of one link for TLC.                                   *)
EXTENDS Links

CONSTANTS s1, w1, w2, m
=============================================================================
