-------------------------- MODULE MCBufferManager --------------------------
(* The buffer pool with fewer frames than pages.                            *)
EXTENDS BufferManager, TLC

Symmetric == Permutations(Client)
=============================================================================
