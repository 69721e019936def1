-------------------------------- MODULE Pmm --------------------------------
(***************************************************************************)
(* The bitmap page-frame allocator of kernel/src/PMM/pmm.c.                *)
(*                                                                         *)
(* The allocator is the static structure `pmm` and seven functions.  A     *)
(* frame is a bit of the bitmap; an address is what the caller sees.  The  *)
(* bitmap is represented by the set of the bits that are 1.  No interrupt  *)
(* handler calls the allocator and the kernel runs on one CPU, so a call   *)
(* is one step.                                                            *)
(*                                                                         *)
(* This module lets the callers pass any pointer and any count: what it    *)
(* promises holds however the allocator is used.  PmmOwners adds callers   *)
(* that keep to the protocol.                                              *)
(***************************************************************************)
EXTENDS Integers, FiniteSets

CONSTANTS
  PageSize,    \* bytes of a frame: the literal 0x1000 of pmm.c
  BootArgs,    \* arguments KiStartupInit may pass to KiPmmInit
  Pointers,    \* addresses callers pass to KiPmmFree and KiPmmNFree
  Counts       \* counts callers pass to KiPmmNAlloc and KiPmmNFree

BootArg == [total_mem_bytes : Nat, bitmap_mem_size : Nat, endKernelAligned : Nat]

ASSUME PageSizeAssumption == PageSize \in Nat \ {0}
ASSUME BootArgsAssumption == BootArgs \subseteq BootArg
ASSUME PointersAssumption == Pointers \subseteq Nat
ASSUME CountsAssumption   == Counts \subseteq Nat

NULL == 0     \* (void*)0
Void == -1    \* ret after a call that returns no pointer

VARIABLES
  status,             \* "static" before KiPmmInit, then "ready" or "failed"
  bitmap,             \* the bits that are 1
  bitmap_size_bytes,
  total_pages,
  free_pages,
  endKernelAligned_,  \* the field; not the parameter of KiPmmInit
  given,              \* history: the arguments of KiPmmInit
  ret                 \* value returned by the last call

fields == <<bitmap_size_bytes, total_pages, endKernelAligned_, given>>
vars   == <<status, bitmap, bitmap_size_bytes, total_pages, free_pages,
            endKernelAligned_, given, ret>>

-----------------------------------------------------------------------------
(* Frames and addresses.  A definition named after another and defined     *)
(* just before it is a mutant: the same code with a bug in it.             *)

Frames     == 0 .. (total_pages - 1)
FreeFramesOneMore == (0 .. total_pages) \ bitmap            \* i <= total_pages
FreeFrames == Frames \ bitmap

FrameAddrNarrow(i) == (endKernelAligned_ + i * PageSize) % 8  \* a narrow type
FrameAddr(i) == endKernelAligned_ + i * PageSize

(* The frames KiPmmFree may touch for an address: none when the address is *)
(* below the base or beyond the last page, else the one that contains it.  *)
FrameNamed(addr) ==
  {i \in Frames : /\ endKernelAligned_ <= addr
                  /\ i = (addr - endKernelAligned_) \div PageSize}

IsFirstFree(i) == i \in FreeFrames /\ \A j \in FreeFrames : i <= j

(* The n lowest free frames: what n calls of the first-fit search mark.    *)
LowestFree(n) ==
  {i \in FreeFrames : Cardinality({j \in FreeFrames : j < i}) < n}

(* PmmSetBit on every frame of S, with free_pages-- for each.              *)
Mark(S) ==
  /\ bitmap'     = bitmap \cup S
  /\ free_pages' = free_pages - Cardinality(S)

(* Mutant of Unmark: free_pages++ without the PmmTestBit.                  *)
UnmarkUntested(S) ==
  /\ bitmap'     = bitmap \ S
  /\ free_pages' = free_pages + Cardinality(S)

(* For every frame of S: PmmTestBit, then PmmClearBit and free_pages++.    *)
Unmark(S) ==
  /\ bitmap'     = bitmap \ S
  /\ free_pages' = free_pages + Cardinality(S \cap bitmap)

-----------------------------------------------------------------------------
(* The static structure before the first call is all zeros.                *)
Init ==
  /\ status = "static"
  /\ bitmap = {}
  /\ bitmap_size_bytes = 0
  /\ total_pages = 0
  /\ free_pages = 0
  /\ endKernelAligned_ = 0
  /\ given = [total_mem_bytes |-> 0, bitmap_mem_size |-> 0, endKernelAligned |-> 0]
  /\ ret = Void

BytesForRoundedDown(pages) == pages \div 8   \* mutant of BytesFor
BytesFor(pages) == (pages + 7) \div 8

(* The counters are written before the size of the buffer is checked.  The *)
(* parameter endKernelAligned_ is not used: the field keeps its static 0.  *)
KiPmmInit(a) ==
  /\ status = "static"
  /\ total_pages' = a.total_mem_bytes \div PageSize
  /\ free_pages'  = total_pages'
  /\ bitmap_size_bytes' = BytesFor(total_pages')
  /\ status' = IF a.bitmap_mem_size < bitmap_size_bytes' THEN "failed" ELSE "ready"
  /\ bitmap' = {}
  /\ given'  = a
  /\ ret'    = Void
  /\ UNCHANGED endKernelAligned_

(* First fit: the lowest clear bit, or NULL when there is none.            *)
KiPmmAlloc ==
  /\ status = "ready"
  /\ \/ /\ FreeFrames = {}
        /\ ret' = NULL
        /\ UNCHANGED <<bitmap, free_pages>>
     \/ \E i \in FreeFrames :
          /\ IsFirstFree(i)
          /\ Mark({i})
          /\ ret' = FrameAddr(i)
  /\ UNCHANGED <<status, fields>>

(* The frames a count asks for: the first call is made even for count 0.   *)
Wanted(count) == IF count = 0 THEN 1 ELSE count

(* KiPmmNAlloc calls KiPmmAlloc until it has the frames or meets a NULL;   *)
(* what it marked before the NULL stays marked.  A first frame at address  *)
(* NULL reads as a failure of the first call.                              *)
KiPmmNAlloc(count) ==
  /\ status = "ready"
  /\ \/ /\ FreeFrames = {}
        /\ ret' = NULL
        /\ UNCHANGED <<bitmap, free_pages>>
     \/ \E i \in FreeFrames :
          /\ IsFirstFree(i)
          /\ FrameAddr(i) = NULL
          /\ Mark({i})
          /\ ret' = NULL
     \/ \E i \in FreeFrames :
          /\ IsFirstFree(i)
          /\ FrameAddr(i) # NULL
          /\ Mark(LowestFree(Wanted(count)))
          /\ ret' = IF Cardinality(FreeFrames) >= Wanted(count)
                      THEN FrameAddr(i) ELSE NULL
  /\ UNCHANGED <<status, fields>>

KiPmmFree(addr) ==
  /\ status = "ready"
  /\ Unmark(FrameNamed(addr))
  /\ ret' = Void
  /\ UNCHANGED <<status, fields>>

(* Mutants of KiPmmNFree: one frame too many, and one too few.             *)
KiPmmNFreeOneMore(addr, count) ==
  /\ status = "ready"
  /\ Unmark(UNION {FrameNamed(addr + k * PageSize) : k \in 0 .. count})
  /\ ret' = Void
  /\ UNCHANGED <<status, fields>>

KiPmmNFreeFromOne(addr, count) ==
  /\ status = "ready"
  /\ Unmark(UNION {FrameNamed(addr + k * PageSize) : k \in 1 .. (count - 1)})
  /\ ret' = Void
  /\ UNCHANGED <<status, fields>>

KiPmmNFree(addr, count) ==
  /\ status = "ready"
  /\ Unmark(UNION {FrameNamed(addr + k * PageSize) : k \in 0 .. (count - 1)})
  /\ ret' = Void
  /\ UNCHANGED <<status, fields>>

(* A failed KiPmmInit sends KiStartupInit into hcf(): nobody calls again.  *)
Hcf == status = "failed" /\ UNCHANGED vars

Next ==
  \/ \E a \in BootArgs : KiPmmInit(a)
  \/ KiPmmAlloc
  \/ \E n \in Counts : KiPmmNAlloc(n)
  \/ \E p \in Pointers : KiPmmFree(p)
  \/ \E p \in Pointers, n \in Counts : KiPmmNFree(p, n)
  \/ Hcf

Spec == Init /\ [][Next]_vars

-----------------------------------------------------------------------------
TypeOK ==
  /\ status \in {"static", "ready", "failed"}
  /\ bitmap \in SUBSET Frames
  /\ bitmap_size_bytes \in Nat
  /\ total_pages \in Nat
  /\ free_pages \in Int
  /\ endKernelAligned_ \in Nat
  /\ given \in BootArg
  /\ ret \in Nat \cup {Void}

(* free_pages, which KiPmmGetFreePages reports, is at every moment the     *)
(* number of clear bits: double frees, foreign pointers and multi-frame    *)
(* calls that fail half way never make the counter drift or wrap.          *)
FreePagesExact ==
  status = "ready" => free_pages = total_pages - Cardinality(bitmap)

(* Every bit the search and the frees index lies in a byte that KiPmmInit  *)
(* cleared, and that byte lies in the buffer the caller gave.              *)
BitmapCoversFrames ==
  status = "ready" =>
    /\ \A i \in Frames : i \div 8 < bitmap_size_bytes
    /\ bitmap_size_bytes <= given.bitmap_mem_size

(* A call that marks frames and still returns NULL - frames its caller can *)
(* never give back - either took frame 0, whose address is NULL, or ran    *)
(* out of memory half way and took everything that was left.               *)
LossesExplained ==
  [][ (bitmap' # bitmap /\ ret' = NULL)
        => \/ bitmap' = bitmap \cup {0} /\ 0 \notin bitmap
           \/ bitmap' = Frames ]_vars

(* What pmm.c:78 takes for granted of every frame the allocator hands out: *)
(* its address is not below the end of the kernel given at initialisation. *)
(* The field compared there is never set, and frame 0 is address 0.        *)
FramesAboveKernel ==
  (ret \notin {NULL, Void}) => ret >= given.endKernelAligned
=============================================================================
