---------------------------- MODULE MCThreadPool ----------------------------
(* ThreadPool on small pools. *)
EXTENDS ThreadPool, TLC

CONSTANTS c1, j1, j2, j3

\* j1's body posts j3.
SpawnOne == [j \in Jobs |-> IF j = j1 THEN j3 ELSE NoJob]
=============================================================================
