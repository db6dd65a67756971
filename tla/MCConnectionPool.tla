-------------------------- MODULE MCConnectionPool --------------------------
(* Three requests, two connections, two threads. *)
EXTENDS ConnectionPool

CONSTANTS r1, r2, r3
=============================================================================
