---------------------------- MODULE MCLockMinute ----------------------------
(* Small instances of LockMinute for TLC: three minutes of two ticks.      *)
EXTENDS LockMinute

MCCounts == 0..2
=============================================================================
