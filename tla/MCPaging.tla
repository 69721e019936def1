------------------------------ MODULE MCPaging ------------------------------
(* Four pages: the first two share all their tables, the third shares the  *)
(* first of them, the fourth none.  Their eight tables do not fit in the   *)
(* six frames, so that memory runs out at every level.                     *)
EXTENDS Paging

MCBootArgs ==
  {[total_mem_bytes |-> 6, bitmap_mem_size |-> 1, endKernelAligned |-> 2]}

MCPages  == {<<0, 0, 0, 0>>, <<0, 0, 0, 1>>, <<0, 1, 0, 0>>, <<1, 0, 0, 0>>}
MCMemory == 0 .. 6

(* No property speaks of what follows the first failed allocation.         *)
UntilExhausted == ~exhausted
=============================================================================
