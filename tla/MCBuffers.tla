------------------------------- MODULE MCBuffers -------------------------------
EXTENDS Buffers, TLC

Symmetric == Permutations(Blocks) \cup Permutations(Buffers)
================================================================================
