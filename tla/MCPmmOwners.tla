---------------------------- MODULE MCPmmOwners ----------------------------
(* Three clients in memories of 4 to 6 frames: enough for a hole between   *)
(* two blocks, for a call that runs out half way, and for an exact fit.    *)
EXTENDS PmmOwners, TLC

MCBootArgs ==
  {[total_mem_bytes |-> m, bitmap_mem_size |-> s, endKernelAligned |-> 6] :
     m \in {4, 5, 6}, s \in {0, 1}}

Symmetry == Permutations(Clients)
=============================================================================
