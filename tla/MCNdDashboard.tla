--------------------------- MODULE MCNdDashboard ---------------------------
(* Two databases and holders h1 (and h2), which exist in both.             *)
EXTENDS NdChecks, TLC
CONSTANTS dA, dB, h1, h2
=============================================================================
