----------------------------- MODULE MCChunkStore -----------------------------
(* Instances of ChunkStore for TLC. *)
EXTENDS GitConfig, ChunkStore

CONSTANTS p1, p2, c1, c2, x1, x2

Symmetry == Permutations(Proc) \cup Permutations(Chunk) \cup Permutations(Push)
=============================================================================
