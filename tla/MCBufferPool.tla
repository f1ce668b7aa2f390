---------------------------- MODULE MCBufferPool ----------------------------
(* Symmetry for model checking BufferPool: frames, handles.                *)
EXTENDS BufferPool, TLC

Symmetry == Permutations(Frames) \cup Permutations(Handles)
=============================================================================
