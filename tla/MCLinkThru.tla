----------------------------- MODULE MCLinkThru -----------------------------
(* Two links that forward into a third, for TLC.                           *)
EXTENDS LinkThru

CONSTANTS g1, g2
=============================================================================
