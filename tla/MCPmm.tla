------------------------------- MODULE MCPmm -------------------------------
(* Small instances of Pmm: pages of 2 bytes, so that a pointer may lie     *)
(* inside a frame, and memories around the 8-frame boundary of a bitmap    *)
(* byte, one of them too large for its buffer.                             *)
EXTENDS Pmm

MCBootArgs ==
  {[total_mem_bytes |-> m, bitmap_mem_size |-> s, endKernelAligned |-> 6] :
     m \in {0, 7, 16, 18}, s \in {1, 2}}

MCPointers == 0 .. 19
=============================================================================
