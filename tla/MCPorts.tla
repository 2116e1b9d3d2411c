------------------------------ MODULE MCPorts ------------------------------
(* Small instances of the message ports for TLC.                           *)
EXTENDS Ports, TLC

CONSTANTS t1, t2, t3, p1, p2

PortSymmetry == Permutations(Threads) \cup Permutations(PortIndex)
=============================================================================
