---------------------------- MODULE MCAuthSessions ----------------------------
(* Small instances of AuthSessions for TLC.                                *)
EXTENDS AuthSessions, TLC

CONSTANTS r1, r2, r3, r4, r5, admin, u1, p1, p2

RequestSymmetry == Permutations(Request)
=============================================================================
