--------------------------- MODULE MCLockRealtime ---------------------------
(* Small instances of LockRealtime for TLC.                                *)
EXTENDS LockRealtime, TLC

CONSTANTS c1, c2, o1, s1, b1

\* One user session.
OneSid == (s1 :> 1)

\* s1 is a user session, b1 a background session; they use one SID in turn.
SharedSid == (s1 :> 1) @@ (b1 :> 1)
=============================================================================
