-------------------------- MODULE MCSessionMonitor --------------------------
(* Two databases to go to and fro between.                                 *)
EXTENDS SessionMonitor, TLC
CONSTANTS dA, dB, s1
=============================================================================
