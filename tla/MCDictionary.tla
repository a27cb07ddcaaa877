----------------------------- MODULE MCDictionary -----------------------------
(* Four items: two of one key, two of keys whose hashes collide, one of hash 0. *)
EXTENDS Dictionary, TLC

CONSTANTS i1, i2, i3, i4

FourKeys == (i1 :> 1) @@ (i2 :> 1) @@ (i3 :> 2) @@ (i4 :> 3)
Hashes == <<5, 5, 0>>
================================================================================
