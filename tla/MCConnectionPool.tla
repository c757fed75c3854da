-------------------------- MODULE MCConnectionPool --------------------------
(* A small instance of ConnectionPool for TLC: two threads, and one update  *)
(* that changes the address or only the password.                          *)
EXTENDS ConnectionPool

CONSTANTS t1, t2, p1, p2, p3, l1, l2, l3, a1, a2, d1
=============================================================================
