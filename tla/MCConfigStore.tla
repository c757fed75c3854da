---------------------------- MODULE MCConfigStore ----------------------------
(* Small instances of ConfigStore for TLC.                                 *)
EXTENDS ConfigStore, TLC

CONSTANTS d1, d2, k1, k2, m1, m2, m3, s1, s2

\* Two instances: the account of the first is damaged in the file, the second
\* has an account in clear.
MixedFile ==
  (d1 :> [password |-> Legacy(s1), account |-> Damaged]) @@
  (d2 :> [password |-> Legacy(s1), account |-> Legacy(s1)])

KeySymmetry == Permutations({m1, m2, m3})
=============================================================================
