------------------------------- MODULE MCPool -------------------------------
(* Pool with blocks of four units that hold two small requests or one of two. *)
EXTENDS Pool, TLC
Symmetric == Permutations(Handles) \cup Permutations(Blocks)
=============================================================================
