----------------------------- MODULE MCAiPages ------------------------------
(* Two texts, one with more bind variables than are shown at once.         *)
EXTENDS AiPages, TLC
CONSTANTS dA, dB, q1, q2, b1, b2, o1, o2, t1, t2
MCBindsOf == (q1 :> {b1}) @@ (q2 :> {b1, b2}) @@ (None :> {})
=============================================================================
