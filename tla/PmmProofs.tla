----------------------------- MODULE PmmProofs -----------------------------
(***************************************************************************)
(* Proofs about the allocator of Pmm, for every memory size, page size,    *)
(* pointer and count.                                                      *)
(*                                                                         *)
(* FreePagesExact is not inductive: it speaks of a ready allocator only,   *)
(* and KiPmmInit starts from the static one.  AllocInv adds that the       *)
(* counter is exact whatever the status, and that a ready bitmap has the   *)
(* size KiPmmInit computed for the number of frames.                       *)
(***************************************************************************)
EXTENDS Pmm, FiniteSetTheorems, TLAPS

CounterExact == free_pages = total_pages - Cardinality(bitmap)

BitmapSized ==
  status = "ready" =>
    /\ bitmap_size_bytes = BytesFor(total_pages)
    /\ bitmap_size_bytes <= given.bitmap_mem_size

AllocInv == TypeOK /\ CounterExact /\ BitmapSized

-----------------------------------------------------------------------------
(* Arithmetic and cardinality facts.                                       *)

(* Division of addresses and sizes by the page size stays in Nat.          *)
LEMMA DivNat ==
  ASSUME NEW m \in Nat, NEW d \in Nat \ {0}
  PROVE  m \div d \in Nat
  OBVIOUS

(* The bytes computed for a number of pages hold the bit of every page.    *)
LEMMA BytesForCovers ==
  ASSUME NEW pages \in Nat
  PROVE  /\ BytesFor(pages) \in Nat
         /\ \A i \in 0 .. (pages - 1) : i \div 8 < BytesFor(pages)
  BY DEF BytesFor

(* The frames form a finite set, and so does every set of marked frames.   *)
LEMMA MarkedFinite ==
  ASSUME TypeOK
  PROVE  /\ IsFiniteSet(Frames)
         /\ IsFiniteSet(bitmap)
         /\ bitmap \subseteq Frames
<1>1. total_pages - 1 \in Int BY DEF TypeOK
<1>2. IsFiniteSet(Frames) BY <1>1, FS_Interval DEF Frames
<1>3. bitmap \in SUBSET Frames BY DEF TypeOK
<1> QED BY <1>2, <1>3, FS_Subset

(* Marking free frames keeps the counter exact: it drops by their number.  *)
LEMMA MarkExact ==
  ASSUME TypeOK, CounterExact, NEW S \in SUBSET FreeFrames, Mark(S)
  PROVE  /\ free_pages' = total_pages - Cardinality(bitmap')
         /\ bitmap' \in SUBSET Frames
         /\ free_pages' \in Int
<1>1. /\ IsFiniteSet(Frames) /\ IsFiniteSet(bitmap) /\ bitmap \subseteq Frames
  BY MarkedFinite
<1>2. S \in SUBSET Frames /\ bitmap \cap S = {} BY DEF FreeFrames
<1>3. IsFiniteSet(S) BY <1>1, <1>2, FS_Subset
<1>4. Cardinality(bitmap \cap S) = 0 BY <1>2, FS_EmptySet
<1>5. Cardinality(bitmap \cup S)
        = Cardinality(bitmap) + Cardinality(S) - Cardinality(bitmap \cap S)
  BY <1>1, <1>3, FS_Union
<1>6. Cardinality(bitmap) \in Nat /\ Cardinality(S) \in Nat
  BY <1>1, <1>3, FS_CardinalityType
<1>7. total_pages \in Nat BY DEF TypeOK
<1>8. bitmap' = bitmap \cup S /\ free_pages' = free_pages - Cardinality(S)
  BY DEF Mark
<1>9. free_pages = total_pages - Cardinality(bitmap) BY DEF CounterExact
<1> QED BY <1>1, <1>2, <1>4, <1>5, <1>6, <1>7, <1>8, <1>9

(* Clearing frames keeps the counter exact whichever frames are named:     *)
(* only those that were marked are counted.                                *)
LEMMA UnmarkExact ==
  ASSUME TypeOK, CounterExact, NEW S, Unmark(S)
  PROVE  /\ free_pages' = total_pages - Cardinality(bitmap')
         /\ bitmap' \in SUBSET Frames
         /\ free_pages' \in Int
<1> DEFINE cleared == S \cap bitmap
<1>1. IsFiniteSet(bitmap) /\ bitmap \subseteq Frames BY MarkedFinite
<1>2. bitmap' = bitmap \ cleared /\ bitmap \cap cleared = cleared BY DEF Unmark
<1>3. IsFiniteSet(cleared) BY <1>1, FS_Intersection
<1>4. free_pages' = free_pages + Cardinality(cleared) BY DEF Unmark
<1> HIDE DEF cleared
<1>5. Cardinality(bitmap') = Cardinality(bitmap) - Cardinality(cleared)
  <2>1. Cardinality(bitmap \ cleared) = Cardinality(bitmap) - Cardinality(bitmap \cap cleared)
    BY <1>1, FS_Difference
  <2> QED BY <1>2, <2>1
<1>6. Cardinality(bitmap) \in Nat /\ Cardinality(cleared) \in Nat
  BY <1>1, <1>3, FS_CardinalityType
<1>7. total_pages \in Nat BY DEF TypeOK
<1>8. free_pages = total_pages - Cardinality(bitmap) BY DEF CounterExact
<1>9. bitmap' \in SUBSET Frames BY <1>1, <1>2
<1> QED BY <1>4, <1>5, <1>6, <1>7, <1>8, <1>9

(* A frame address is a natural number, hence never the value Void.        *)
LEMMA FrameAddrNat ==
  ASSUME TypeOK, NEW i \in Frames
  PROVE  FrameAddr(i) \in Nat
<1>1. i \in Nat BY DEF Frames, TypeOK
<1>2. i * PageSize \in Nat BY <1>1, PageSizeAssumption
<1> QED BY <1>2 DEF FrameAddr, TypeOK

(* What a step that leaves the fields alone has to show of the rest.       *)
LEMMA SameFieldsInv ==
  ASSUME AllocInv, status = "ready", UNCHANGED <<status, fields>>,
         bitmap' \in SUBSET Frames, free_pages' \in Int,
         free_pages' = total_pages - Cardinality(bitmap'),
         ret' \in Nat \cup {Void}
  PROVE  AllocInv'
<1>1. Frames' = Frames BY DEF Frames, fields
<1>2. TypeOK' BY <1>1 DEF AllocInv, TypeOK, fields
<1>3. CounterExact' BY DEF CounterExact, fields
<1>4. BitmapSized' BY DEF AllocInv, BitmapSized, fields, BytesFor
<1> QED BY <1>2, <1>3, <1>4 DEF AllocInv

-----------------------------------------------------------------------------
(* The initial state and the actions.                                      *)

LEMMA InitInv == Init => AllocInv
<1> SUFFICES ASSUME Init PROVE AllocInv OBVIOUS
<1>1. TypeOK BY DEF Init, TypeOK, BootArg, NULL, Void
<1>2. CounterExact BY FS_EmptySet DEF Init, CounterExact
<1>3. BitmapSized BY DEF Init, BitmapSized
<1> QED BY <1>1, <1>2, <1>3 DEF AllocInv

LEMMA KiPmmInitInv ==
  ASSUME AllocInv, NEW a \in BootArgs, KiPmmInit(a)
  PROVE  AllocInv'
<1>1. a \in BootArg BY BootArgsAssumption
<1>2. /\ a.total_mem_bytes \in Nat /\ a.bitmap_mem_size \in Nat
  BY <1>1 DEF BootArg
<1>3. total_pages' \in Nat BY <1>2, DivNat, PageSizeAssumption DEF KiPmmInit
<1>4. bitmap_size_bytes' \in Nat BY <1>3, BytesForCovers DEF KiPmmInit
<1>5. TypeOK' BY <1>1, <1>3, <1>4 DEF KiPmmInit, TypeOK, AllocInv
<1>6. CounterExact' BY <1>3, FS_EmptySet DEF KiPmmInit, CounterExact
<1>7. BitmapSized'
  <2> SUFFICES ASSUME status' = "ready"
               PROVE  /\ bitmap_size_bytes' = BytesFor(total_pages')
                      /\ bitmap_size_bytes' <= a.bitmap_mem_size
    BY DEF BitmapSized, BytesFor, KiPmmInit
  <2>1. ~(a.bitmap_mem_size < bitmap_size_bytes') BY DEF KiPmmInit
  <2> QED BY <2>1, <1>2, <1>4 DEF KiPmmInit
<1> QED BY <1>5, <1>6, <1>7 DEF AllocInv

LEMMA KiPmmAllocInv ==
  ASSUME AllocInv, KiPmmAlloc
  PROVE  AllocInv'
<1>1. status = "ready" /\ UNCHANGED <<status, fields>> BY DEF KiPmmAlloc
<1>2. TypeOK /\ CounterExact BY DEF AllocInv
<1>3. CASE ret' = NULL /\ UNCHANGED <<bitmap, free_pages>>
  BY <1>1, <1>2, <1>3, SameFieldsInv DEF TypeOK, CounterExact, NULL, fields
<1>4. ASSUME NEW i \in FreeFrames, Mark({i}), ret' = FrameAddr(i)
      PROVE  AllocInv'
  <2>1. i \in Frames BY DEF FreeFrames
  <2>2. ret' \in Nat BY <1>2, <1>4, <2>1, FrameAddrNat
  <2>3. {i} \in SUBSET FreeFrames OBVIOUS
  <2> QED BY <1>1, <1>2, <1>4, <2>2, <2>3, MarkExact, SameFieldsInv
<1> QED BY <1>3, <1>4 DEF KiPmmAlloc

LEMMA KiPmmNAllocInv ==
  ASSUME AllocInv, NEW n \in Counts, KiPmmNAlloc(n)
  PROVE  AllocInv'
<1>1. status = "ready" /\ UNCHANGED <<status, fields>> BY DEF KiPmmNAlloc
<1>2. TypeOK /\ CounterExact BY DEF AllocInv
<1>3. CASE ret' = NULL /\ UNCHANGED <<bitmap, free_pages>>
  BY <1>1, <1>2, <1>3, SameFieldsInv DEF TypeOK, CounterExact, NULL, fields
<1>4. ASSUME NEW i \in FreeFrames, Mark({i}), ret' = NULL
      PROVE  AllocInv'
  <2>1. {i} \in SUBSET FreeFrames OBVIOUS
  <2>2. ret' \in Nat BY <1>4 DEF NULL
  <2> QED BY <1>1, <1>2, <1>4, <2>1, <2>2, MarkExact, SameFieldsInv
<1>5. ASSUME NEW i \in FreeFrames, Mark(LowestFree(Wanted(n))),
             ret' \in {FrameAddr(i), NULL}
      PROVE  AllocInv'
  <2>1. i \in Frames BY DEF FreeFrames
  <2>2. ret' \in Nat BY <1>2, <1>5, <2>1, FrameAddrNat DEF NULL
  <2>3. LowestFree(Wanted(n)) \in SUBSET FreeFrames BY DEF LowestFree
  <2> QED BY <1>1, <1>2, <1>5, <2>2, <2>3, MarkExact, SameFieldsInv
<1> QED BY <1>3, <1>4, <1>5 DEF KiPmmNAlloc

LEMMA KiPmmFreeInv ==
  ASSUME AllocInv, NEW p, KiPmmFree(p)
  PROVE  AllocInv'
<1>1. status = "ready" /\ UNCHANGED <<status, fields>> /\ ret' = Void
  BY DEF KiPmmFree
<1>2. TypeOK /\ CounterExact BY DEF AllocInv
<1>3. Unmark(FrameNamed(p)) BY DEF KiPmmFree
<1> QED BY <1>1, <1>2, <1>3, UnmarkExact, SameFieldsInv

LEMMA KiPmmNFreeInv ==
  ASSUME AllocInv, NEW p, NEW n, KiPmmNFree(p, n)
  PROVE  AllocInv'
<1> DEFINE S == UNION {FrameNamed(p + k * PageSize) : k \in 0 .. (n - 1)}
<1>1. status = "ready" /\ UNCHANGED <<status, fields>> /\ ret' = Void
  BY DEF KiPmmNFree
<1>2. TypeOK /\ CounterExact BY DEF AllocInv
<1>3. Unmark(S) BY DEF KiPmmNFree
<1> HIDE DEF S
<1> QED BY <1>1, <1>2, <1>3, UnmarkExact, SameFieldsInv

LEMMA StutterInv ==
  ASSUME AllocInv, UNCHANGED vars
  PROVE  AllocInv'
BY DEF AllocInv, TypeOK, CounterExact, BitmapSized, BytesFor, Frames, vars

(* AllocInv is an inductive invariant of the allocator.                    *)
THEOREM AllocatorInvariant == Spec => []AllocInv
<1>1. AllocInv /\ [Next]_vars => AllocInv'
  <2> SUFFICES ASSUME AllocInv, [Next]_vars PROVE AllocInv' OBVIOUS
  <2>1. ASSUME NEW a \in BootArgs, KiPmmInit(a) PROVE AllocInv'
    BY <2>1, KiPmmInitInv
  <2>2. CASE KiPmmAlloc BY <2>2, KiPmmAllocInv
  <2>3. ASSUME NEW n \in Counts, KiPmmNAlloc(n) PROVE AllocInv'
    BY <2>3, KiPmmNAllocInv
  <2>4. ASSUME NEW p \in Pointers, KiPmmFree(p) PROVE AllocInv'
    BY <2>4, KiPmmFreeInv
  <2>5. ASSUME NEW p \in Pointers, NEW n \in Counts, KiPmmNFree(p, n)
        PROVE  AllocInv'
    BY <2>5, KiPmmNFreeInv
  <2>6. CASE Hcf BY <2>6, StutterInv DEF Hcf
  <2>7. CASE UNCHANGED vars BY <2>7, StutterInv
  <2> QED BY <2>1, <2>2, <2>3, <2>4, <2>5, <2>6, <2>7 DEF Next
<1> QED BY InitInv, <1>1, PTL DEF Spec

-----------------------------------------------------------------------------
(* Type correctness of pmm.c's state, whatever the callers pass.           *)
THEOREM TypeCorrect == Spec => []TypeOK
<1>1. AllocInv => TypeOK BY DEF AllocInv
<1> QED BY <1>1, AllocatorInvariant, PTL

(* The count KiPmmGetFreePages reports never drifts from the bitmap: not   *)
(* by double frees, foreign pointers or calls that fail half way.          *)
THEOREM FreeCountCorrect == Spec => []FreePagesExact
<1>1. AllocInv => FreePagesExact BY DEF AllocInv, CounterExact, FreePagesExact
<1> QED BY <1>1, AllocatorInvariant, PTL

(* No bit the allocator touches lies outside the buffer it was given.      *)
THEOREM BitmapLargeEnough == Spec => []BitmapCoversFrames
<1>1. AllocInv => BitmapCoversFrames
  <2> SUFFICES ASSUME AllocInv, status = "ready"
               PROVE  /\ \A i \in Frames : i \div 8 < bitmap_size_bytes
                      /\ bitmap_size_bytes <= given.bitmap_mem_size
    BY DEF BitmapCoversFrames
  <2>1. total_pages \in Nat BY DEF AllocInv, TypeOK
  <2> QED BY <2>1, BytesForCovers DEF AllocInv, BitmapSized, Frames
<1> QED BY <1>1, AllocatorInvariant, PTL

-----------------------------------------------------------------------------
(* Only frame 0 of a base that is 0 has the address NULL.                  *)
LEMMA NullIsFrame0 ==
  ASSUME TypeOK, NEW i \in Frames, FrameAddr(i) = NULL
  PROVE  i = 0
<1>1. i \in Nat /\ endKernelAligned_ \in Nat BY DEF Frames, TypeOK
<1>2. i * PageSize \in Nat BY <1>1, PageSizeAssumption
<1>3. endKernelAligned_ + i * PageSize = 0 BY DEF FrameAddr, NULL
<1>4. i * PageSize = 0 BY <1>1, <1>2, <1>3
<1>5. i # 0 => i * PageSize > 0 BY <1>1, PageSizeAssumption
<1> QED BY <1>4, <1>5

(* Asking for more than there is takes everything there is.                *)
LEMMA LowestFreeAll ==
  ASSUME TypeOK, NEW n \in Nat, ~(Cardinality(FreeFrames) >= n)
  PROVE  LowestFree(n) = FreeFrames
<1>1. IsFiniteSet(FreeFrames) BY MarkedFinite, FS_Difference DEF FreeFrames
<1>2. Cardinality(FreeFrames) \in Nat BY <1>1, FS_CardinalityType
<1>3. ASSUME NEW i \in FreeFrames
      PROVE  Cardinality({j \in FreeFrames : j < i}) < n
  <2> DEFINE below == {j \in FreeFrames : j < i}
  <2>1. below \in SUBSET FreeFrames OBVIOUS
  <2> HIDE DEF below
  <2>2. IsFiniteSet(below) /\ Cardinality(below) <= Cardinality(FreeFrames)
    BY <1>1, <2>1, FS_Subset
  <2>3. Cardinality(below) \in Nat BY <2>2, FS_CardinalityType
  <2>4. Cardinality(below) < n BY <1>2, <2>2, <2>3
  <2> QED BY <2>4 DEF below
<1> QED BY <1>3 DEF LowestFree

(* A call that marks frames and returns NULL took frame 0 or everything:   *)
(* pmm.c loses memory in no third way.                                     *)
THEOREM LossesCorrect == Spec => LossesExplained
<1> DEFINE Explained == \/ bitmap' = bitmap \cup {0} /\ 0 \notin bitmap
                        \/ bitmap' = Frames
<1>1. ASSUME AllocInv, [Next]_vars, bitmap' # bitmap, ret' = NULL
      PROVE  Explained
  <2>1. TypeOK BY <1>1 DEF AllocInv
  <2>2. ASSUME NEW i \in FreeFrames, FrameAddr(i) = NULL, Mark({i})
        PROVE  Explained
    <3>1. i = 0 BY <2>1, <2>2, NullIsFrame0 DEF FreeFrames
    <3> QED BY <2>2, <3>1 DEF Mark, FreeFrames
  <2>3. CASE KiPmmAlloc BY <1>1, <2>2, <2>3 DEF KiPmmAlloc
  <2>4. ASSUME NEW n \in Counts, KiPmmNAlloc(n) PROVE Explained
    <3>1. Wanted(n) \in Nat BY CountsAssumption DEF Wanted
    <3>2. CASE Mark(LowestFree(Wanted(n))) /\ ~(Cardinality(FreeFrames) >= Wanted(n))
      <4>1. bitmap' = bitmap \cup FreeFrames
        BY <2>1, <3>1, <3>2, LowestFreeAll DEF Mark
      <4> QED BY <2>1, <4>1 DEF FreeFrames, TypeOK
    <3> QED BY <1>1, <2>2, <2>4, <3>2 DEF KiPmmNAlloc
  <2>5. \/ \E a \in BootArgs : KiPmmInit(a)
        \/ \E q \in Pointers : KiPmmFree(q)
        \/ \E q \in Pointers, n \in Counts : KiPmmNFree(q, n)
        \/ Hcf \/ UNCHANGED vars
        => FALSE
    BY <1>1 DEF KiPmmInit, KiPmmFree, KiPmmNFree, Hcf, vars, NULL, Void
  <2> QED BY <1>1, <2>3, <2>4, <2>5 DEF Next
<1>2. AllocInv /\ [Next]_vars
        => [(bitmap' # bitmap /\ ret' = NULL) => Explained]_vars
  BY <1>1
<1> QED BY <1>2, AllocatorInvariant, PTL DEF Spec, LossesExplained
=============================================================================
