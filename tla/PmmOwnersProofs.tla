-------------------------- MODULE PmmOwnersProofs --------------------------
(***************************************************************************)
(* Proof that clients which keep to the protocol of pmm.c never share a    *)
(* frame, for any number of clients, as long as no block with a hole has   *)
(* been returned.                                                          *)
(*                                                                         *)
(* ExclusiveUnlessFragmented needs three facts around it: nobody holds a   *)
(* frame before KiPmmInit; the base of the frames is 0, because no code    *)
(* ever sets it; and so no client's block starts at frame 0, whose address *)
(* a client takes for a failure - which is what makes the KiPmmFree(NULL)  *)
(* of main.c:143 harmless to the clients.                                  *)
(***************************************************************************)
EXTENDS PmmOwners, PmmProofs

BaseZero  == endKernelAligned_ = 0
NoneEarly == status = "static" => Owned = {}
NotNull   == \A c \in Clients : held[c].n > 0 => held[c].base > 0

OwnersInv ==
  /\ AllocInv /\ OwnersTypeOK
  /\ BaseZero /\ NoneEarly /\ NotNull
  /\ ExclusiveUnlessFragmented

-----------------------------------------------------------------------------
(* Addresses and blocks.                                                   *)

(* The address of a frame names that frame and no other.                   *)
LEMMA DivMult ==
  ASSUME NEW i \in Nat, NEW d \in Nat \ {0}
  PROVE  (i * d) \div d = i
  OBVIOUS

LEMMA FrameOfAddr ==
  ASSUME BaseZero, NEW i \in Nat
  PROVE  /\ FrameAddr(i) = i * PageSize
         /\ FrameAt(FrameAddr(i)) = i
         /\ FrameNamed(FrameAddr(i)) = {i} \cap Frames
         /\ FrameAddr(i) = NULL <=> i = 0
<1>1. i * PageSize \in Nat BY PageSizeAssumption
<1>2. FrameAddr(i) = i * PageSize BY <1>1 DEF FrameAddr, BaseZero
<1>3. (i * PageSize) \div PageSize = i BY DivMult, PageSizeAssumption
<1>4. FrameAt(FrameAddr(i)) = i BY <1>1, <1>2, <1>3 DEF FrameAt, BaseZero
<1>5. FrameNamed(FrameAddr(i)) = {i} \cap Frames
  BY <1>1, <1>2, <1>3 DEF FrameNamed, BaseZero
<1>6. i * PageSize = 0 <=> i = 0 BY PageSizeAssumption
<1> QED BY <1>2, <1>4, <1>5, <1>6 DEF NULL

(* KiPmmNFree of a block names the frames of that block.                   *)
LEMMA FramesOfBlock ==
  ASSUME BaseZero, NEW b \in Nat, NEW n \in Nat
  PROVE  UNION {FrameNamed(FrameAddr(b) + k * PageSize) : k \in 0 .. (n - 1)}
           = (b .. (b + n - 1)) \cap Frames
<1>1. ASSUME NEW k \in 0 .. (n - 1)
      PROVE  FrameNamed(FrameAddr(b) + k * PageSize) = {b + k} \cap Frames
  <2>1. k \in Nat /\ b + k \in Nat OBVIOUS
  <2>2. FrameAddr(b) + k * PageSize = FrameAddr(b + k)
    <3>1. b * PageSize + k * PageSize = (b + k) * PageSize
      BY <2>1, PageSizeAssumption
    <3> QED BY <2>1, <3>1, FrameOfAddr
  <2> QED BY <2>1, <2>2, FrameOfAddr
<1>2. UNION {FrameNamed(FrameAddr(b) + k * PageSize) : k \in 0 .. (n - 1)}
        = UNION {{b + k} \cap Frames : k \in 0 .. (n - 1)}
  BY <1>1
<1>3. UNION {{b + k} \cap Frames : k \in 0 .. (n - 1)}
        = (b .. (b + n - 1)) \cap Frames
  <2>1. ASSUME NEW f \in b .. (b + n - 1)
        PROVE  f - b \in 0 .. (n - 1) /\ f = b + (f - b)
    OBVIOUS
  <2> QED BY <2>1
<1> QED BY <1>2, <1>3

(* What a client makes of a pointer it received.                           *)
LEMMA ReceivedBlock ==
  ASSUME BaseZero, TypeOK, NEW n \in Nat \ {0},
         \/ ret' = NULL
         \/ \E i \in FreeFrames : ret' = FrameAddr(i)
  PROVE  /\ Received(n) \in [base : Nat, n : Nat]
         /\ Received(n).n > 0 => Received(n).base > 0
         /\ \/ ret' = NULL /\ Received(n) = Nothing
            \/ \E i \in FreeFrames :
                 /\ ret' = FrameAddr(i)
                 /\ Received(n) = [base |-> i, n |-> n]
<1>1. CASE ret' = NULL BY <1>1 DEF Received, Nothing
<1>2. ASSUME NEW i \in FreeFrames, ret' = FrameAddr(i), ret' # NULL
      PROVE  /\ i \in Nat /\ i > 0
             /\ Received(n) = [base |-> i, n |-> n]
  <2>1. i \in Nat BY DEF FreeFrames, Frames, TypeOK
  <2> QED BY <1>2, <2>1, FrameOfAddr DEF Received
<1> QED BY <1>1, <1>2

-----------------------------------------------------------------------------
(* The steps of the clients.                                               *)

(* A client that held nothing and now holds newly marked frames only.      *)
LEMMA NewBlockInv ==
  ASSUME OwnersInv, NEW c \in Clients, NEW b \in [base : Nat, n : Nat],
         held[c].n = 0, held' = [held EXCEPT ![c] = b],
         b.n > 0 => b.base > 0,
         bitmap \subseteq bitmap',
         ~fragmented' => ~fragmented /\ Block(b) \subseteq bitmap' \ bitmap
  PROVE  NotNull' /\ ExclusiveUnlessFragmented'
<1> USE DEF OwnersInv, OwnersTypeOK
<1>1. held[c] \in [base : Nat, n : Nat] /\ held \in [Clients -> [base : Nat, n : Nat]]
  OBVIOUS
<1>2. \A d \in Clients : held'[d] = IF d = c THEN b ELSE held[d] BY <1>1
<1>3. NotNull' BY <1>1, <1>2 DEF NotNull
<1>4. ASSUME ~fragmented' PROVE NoTwoOwners' /\ OwnedAreMarked'
  <2>1. NoTwoOwners /\ OwnedAreMarked /\ Block(b) \subseteq bitmap' \ bitmap
    BY <1>4 DEF ExclusiveUnlessFragmented
  <2>2. \A d \in Clients : Block(held[d]) \subseteq bitmap
    BY <2>1 DEF OwnedAreMarked, Owned
  <2>3. NoTwoOwners' BY <1>2, <2>1, <2>2 DEF NoTwoOwners, Block
  <2>4. \A d \in Clients : Block(held'[d]) \subseteq bitmap'
    BY <1>2, <2>1, <2>2 DEF Block
  <2>5. OwnedAreMarked' BY <2>4 DEF OwnedAreMarked, Owned, Block
  <2> QED BY <2>3, <2>5
<1> QED BY <1>3, <1>4 DEF ExclusiveUnlessFragmented

(* A client gives back: only frames of its own block are cleared.          *)
LEMMA GivenBackInv ==
  ASSUME OwnersInv, NEW c \in Clients,
         held' = [held EXCEPT ![c] = Nothing],
         NEW S, S \subseteq Block(held[c]), bitmap' = bitmap \ S,
         UNCHANGED fragmented
  PROVE  NotNull' /\ ExclusiveUnlessFragmented'
<1> USE DEF OwnersInv, OwnersTypeOK
<1>1. \A d \in Clients : held'[d] = IF d = c THEN Nothing ELSE held[d] OBVIOUS
<1>2. NotNull' BY <1>1 DEF NotNull, Nothing
<1>3. Block(Nothing) = {} BY DEF Block, Nothing
<1>4. ASSUME ~fragmented' PROVE NoTwoOwners' /\ OwnedAreMarked'
  <2>1. NoTwoOwners /\ OwnedAreMarked BY <1>4 DEF ExclusiveUnlessFragmented
  <2>2. NoTwoOwners' BY <1>1, <1>3, <2>1 DEF NoTwoOwners, Block
  <2>3. \A d \in Clients : d # c => Block(held[d]) \cap S = {}
    BY <2>1 DEF NoTwoOwners
  <2>4. \A d \in Clients : Block(held[d]) \subseteq bitmap
    BY <2>1 DEF OwnedAreMarked, Owned
  <2>5. \A d \in Clients : Block(held'[d]) \subseteq bitmap'
    BY <1>1, <1>3, <2>3, <2>4
  <2>6. OwnedAreMarked' BY <2>5 DEF OwnedAreMarked, Owned, Block
  <2> QED BY <2>2, <2>6
<1> QED BY <1>2, <1>4 DEF ExclusiveUnlessFragmented

LEMMA BootInv ==
  ASSUME OwnersInv, NEW a \in BootArgs, Boot(a)
  PROVE  OwnersInv'
<1>1. KiPmmInit(a) /\ status = "static" /\ UNCHANGED <<held, fragmented, endKernelAligned_>>
  BY DEF Boot, KiPmmInit
<1>2. AllocInv' BY <1>1, KiPmmInitInv DEF OwnersInv
<1>3. OwnersTypeOK' BY <1>1, <1>2 DEF OwnersInv, OwnersTypeOK, AllocInv
<1>4. BaseZero' BY <1>1 DEF OwnersInv, BaseZero
<1>5. Owned = {} /\ Owned' = Owned BY <1>1 DEF OwnersInv, NoneEarly, Owned, Block
<1>6. NotNull' BY <1>1 DEF OwnersInv, NotNull
<1>7. NoneEarly' BY <1>5 DEF NoneEarly
<1>8. NoTwoOwners' /\ OwnedAreMarked'
  <2>1. \A d \in Clients : Block(held[d]) = {} BY <1>5 DEF Owned
  <2> QED BY <1>1, <1>5, <2>1 DEF NoTwoOwners, OwnedAreMarked, Block
<1> QED BY <1>2, <1>3, <1>4, <1>6, <1>7, <1>8 DEF OwnersInv, ExclusiveUnlessFragmented

(* The part of the invariant that every call of a client keeps alike.      *)
LEMMA CallInv ==
  ASSUME OwnersInv, AllocInv', status' = "ready", UNCHANGED endKernelAligned_,
         held' \in [Clients -> [base : Nat, n : Nat]], fragmented' \in BOOLEAN,
         NotNull', ExclusiveUnlessFragmented'
  PROVE  OwnersInv'
BY DEF OwnersInv, OwnersTypeOK, AllocInv, BaseZero, NoneEarly

LEMMA TakeInv ==
  ASSUME OwnersInv, NEW c \in Clients, Take(c)
  PROVE  OwnersInv'
<1>1. /\ held[c].n = 0 /\ KiPmmAlloc /\ UNCHANGED fragmented
      /\ held' = [held EXCEPT ![c] = Received(1)]
      /\ status' = "ready" /\ UNCHANGED endKernelAligned_
  BY DEF Take, KiPmmAlloc, fields
<1>2. AllocInv' BY <1>1, KiPmmAllocInv DEF OwnersInv
<1>3. /\ AllocInv /\ TypeOK /\ BaseZero
      /\ held \in [Clients -> [base : Nat, n : Nat]] /\ fragmented \in BOOLEAN
  BY DEF OwnersInv, OwnersTypeOK
<1>4. \/ ret' = NULL /\ bitmap' = bitmap
      \/ \E i \in FreeFrames : ret' = FrameAddr(i) /\ bitmap' = bitmap \cup {i}
  BY <1>1 DEF KiPmmAlloc, Mark
<1>5. /\ Received(1) \in [base : Nat, n : Nat]
      /\ Received(1).n > 0 => Received(1).base > 0
  BY <1>3, <1>4, ReceivedBlock
<1>6. bitmap \subseteq bitmap' BY <1>4
<1>7. Block(Received(1)) \subseteq bitmap' \ bitmap
  <2>1. CASE ret' = NULL BY <2>1 DEF Received, Nothing, Block
  <2>2. ASSUME NEW i \in FreeFrames, ret' = FrameAddr(i), bitmap' = bitmap \cup {i},
               ret' # NULL
        PROVE  Block(Received(1)) \subseteq bitmap' \ bitmap
    <3>1. i \in Nat BY <1>3 DEF FreeFrames, Frames, TypeOK
    <3>2. Received(1) = [base |-> i, n |-> 1]
      BY <1>3, <2>2, <3>1, FrameOfAddr DEF Received
    <3>3. Block(Received(1)) = {i} BY <3>1, <3>2 DEF Block
    <3> QED BY <2>2, <3>3 DEF FreeFrames
  <2> QED BY <1>4, <2>1, <2>2
<1>8. NotNull' /\ ExclusiveUnlessFragmented'
  BY <1>1, <1>5, <1>6, <1>7, NewBlockInv
<1>9. held' \in [Clients -> [base : Nat, n : Nat]] BY <1>1, <1>3, <1>5
<1> QED BY <1>1, <1>2, <1>3, <1>8, <1>9, CallInv

LEMMA TakeBlockInv ==
  ASSUME OwnersInv, NEW c \in Clients, NEW n \in Counts, TakeBlock(c, n)
  PROVE  OwnersInv'
<1>1. /\ held[c].n = 0 /\ KiPmmNAlloc(n)
      /\ held' = [held EXCEPT ![c] = Received(n)]
      /\ fragmented' = (fragmented \/ ~(Block(Received(n)) \subseteq bitmap' \ bitmap))
      /\ status' = "ready" /\ UNCHANGED endKernelAligned_
  BY DEF TakeBlock, KiPmmNAlloc, fields
<1>2. AllocInv' BY <1>1, KiPmmNAllocInv DEF OwnersInv
<1>3. /\ AllocInv /\ TypeOK /\ BaseZero
      /\ held \in [Clients -> [base : Nat, n : Nat]] /\ fragmented \in BOOLEAN
  BY DEF OwnersInv, OwnersTypeOK
<1>4. \/ ret' = NULL
      \/ \E i \in FreeFrames : ret' = FrameAddr(i)
  BY <1>1 DEF KiPmmNAlloc
<1>5. n \in Nat \ {0} BY CountsAssumption, CountsPositive
<1>6. /\ Received(n) \in [base : Nat, n : Nat]
      /\ Received(n).n > 0 => Received(n).base > 0
  BY <1>3, <1>4, <1>5, ReceivedBlock
<1>7. bitmap \subseteq bitmap' BY <1>1 DEF KiPmmNAlloc, Mark
<1>8. NotNull' /\ ExclusiveUnlessFragmented'
  BY <1>1, <1>6, <1>7, NewBlockInv
<1>9. held' \in [Clients -> [base : Nat, n : Nat]] BY <1>1, <1>3, <1>6
<1>10. fragmented' \in BOOLEAN BY <1>1, <1>3
<1> QED BY <1>1, <1>2, <1>8, <1>9, <1>10, CallInv

LEMMA GiveInv ==
  ASSUME OwnersInv, NEW c \in Clients, Give(c) \/ GiveBlock(c)
  PROVE  OwnersInv'
<1> DEFINE b == held[c].base
           n == held[c].n
<1>1. /\ AllocInv /\ TypeOK /\ BaseZero
      /\ held \in [Clients -> [base : Nat, n : Nat]] /\ fragmented \in BOOLEAN
  BY DEF OwnersInv, OwnersTypeOK
<1>2. b \in Nat /\ n \in Nat BY <1>1
<1>3. /\ status' = "ready" /\ UNCHANGED <<endKernelAligned_, fragmented>>
      /\ held' = [held EXCEPT ![c] = Nothing]
  BY DEF Give, GiveBlock, KiPmmFree, KiPmmNFree, fields
<1>4. AllocInv' BY <1>1, KiPmmFreeInv, KiPmmNFreeInv DEF Give, GiveBlock
<1>5. PICK S : S \subseteq Block(held[c]) /\ bitmap' = bitmap \ S
  <2>1. CASE Give(c)
    <3>1. bitmap' = bitmap \ FrameNamed(FrameAddr(b)) /\ n = 1
      BY <2>1 DEF Give, KiPmmFree, Unmark
    <3>2. FrameNamed(FrameAddr(b)) = {b} \cap Frames BY <1>1, <1>2, FrameOfAddr
    <3>3. {b} \subseteq Block(held[c]) BY <1>2, <3>1 DEF Block
    <3> QED BY <3>1, <3>2, <3>3
  <2>2. CASE GiveBlock(c)
    <3>1. bitmap' = bitmap \ UNION {FrameNamed(FrameAddr(b) + k * PageSize) :
                                      k \in 0 .. (n - 1)}
      BY <2>2 DEF GiveBlock, KiPmmNFree, Unmark
    <3>2. bitmap' = bitmap \ ((b .. (b + n - 1)) \cap Frames)
      BY <1>1, <1>2, <3>1, FramesOfBlock
    <3> QED BY <3>2 DEF Block
  <2> QED BY <2>1, <2>2
<1>6. NotNull' /\ ExclusiveUnlessFragmented' BY <1>3, <1>5, GivenBackInv
<1>7. held' \in [Clients -> [base : Nat, n : Nat]] BY <1>1, <1>3 DEF Nothing
<1> QED BY <1>1, <1>3, <1>4, <1>6, <1>7, CallInv

LEMMA GiveNullInv ==
  ASSUME OwnersInv, GiveNull
  PROVE  OwnersInv'
<1>1. /\ AllocInv /\ TypeOK /\ BaseZero
      /\ held \in [Clients -> [base : Nat, n : Nat]] /\ fragmented \in BOOLEAN
  BY DEF OwnersInv, OwnersTypeOK
<1>2. /\ KiPmmFree(NULL) /\ status' = "ready"
      /\ UNCHANGED <<held, fragmented, endKernelAligned_>>
  BY DEF GiveNull, KiPmmFree, fields
<1>3. AllocInv' BY <1>1, <1>2, KiPmmFreeInv
<1>4. FrameNamed(NULL) \subseteq {0}
  <2>1. FrameAddr(0) = NULL /\ FrameNamed(FrameAddr(0)) = {0} \cap Frames
    BY <1>1, FrameOfAddr
  <2> QED BY <2>1
<1>5. \A d \in Clients : 0 \notin Block(held[d])
  <2> SUFFICES ASSUME NEW d \in Clients PROVE 0 \notin Block(held[d]) OBVIOUS
  <2>1. held[d].base \in Nat /\ held[d].n \in Nat BY <1>1
  <2>2. held[d].n > 0 => held[d].base > 0 BY DEF OwnersInv, NotNull
  <2> QED BY <2>1, <2>2 DEF Block
<1>6. bitmap \ {0} \subseteq bitmap' BY <1>2, <1>4 DEF KiPmmFree, Unmark
<1>7. Owned' = Owned /\ 0 \notin Owned BY <1>2, <1>5 DEF Owned, Block
<1>8. ExclusiveUnlessFragmented'
  <2>1. NoTwoOwners' = NoTwoOwners BY <1>2 DEF NoTwoOwners, Block
  <2>2. OwnedAreMarked => OwnedAreMarked' BY <1>6, <1>7 DEF OwnedAreMarked
  <2> QED BY <1>2, <2>1, <2>2 DEF OwnersInv, ExclusiveUnlessFragmented
<1>9. NotNull' BY <1>2 DEF OwnersInv, NotNull
<1> QED BY <1>1, <1>2, <1>3, <1>8, <1>9, CallInv

LEMMA OwnersStutterInv ==
  ASSUME OwnersInv, UNCHANGED ownerVars
  PROVE  OwnersInv'
<1>1. UNCHANGED <<vars, held, fragmented>> BY DEF ownerVars
<1>2. AllocInv' BY <1>1, StutterInv DEF OwnersInv
<1>3. OwnersTypeOK' BY <1>1, <1>2 DEF OwnersInv, OwnersTypeOK, AllocInv
<1>4. BaseZero' /\ NoneEarly' /\ NotNull'
  BY <1>1 DEF OwnersInv, BaseZero, NoneEarly, NotNull, Owned, Block, vars
<1>5. ExclusiveUnlessFragmented'
  BY <1>1 DEF OwnersInv, ExclusiveUnlessFragmented, NoTwoOwners, OwnedAreMarked,
              Owned, Block, vars
<1> QED BY <1>2, <1>3, <1>4, <1>5 DEF OwnersInv

LEMMA OwnersInitInv == OwnersInit => OwnersInv
<1> SUFFICES ASSUME OwnersInit PROVE OwnersInv OBVIOUS
<1>1. AllocInv BY InitInv DEF OwnersInit
<1>2. OwnersTypeOK BY <1>1 DEF OwnersInit, OwnersTypeOK, AllocInv, Nothing
<1>3. \A c \in Clients : held[c] = Nothing /\ Block(held[c]) = {}
  BY DEF OwnersInit, Block, Nothing
<1>4. Owned = {} BY <1>3 DEF Owned
<1>5. BaseZero BY DEF OwnersInit, Init, BaseZero
<1>6. NotNull BY <1>3 DEF NotNull, Nothing
<1>7. NoTwoOwners /\ OwnedAreMarked BY <1>3, <1>4 DEF NoTwoOwners, OwnedAreMarked
<1> QED BY <1>1, <1>2, <1>4, <1>5, <1>6, <1>7
        DEF OwnersInv, NoneEarly, ExclusiveUnlessFragmented

(* OwnersInv is an inductive invariant of the allocator with its clients.  *)
THEOREM OwnersInvariant == OwnersSpec => []OwnersInv
<1>1. OwnersInv /\ [OwnersNext]_ownerVars => OwnersInv'
  <2> SUFFICES ASSUME OwnersInv, [OwnersNext]_ownerVars PROVE OwnersInv' OBVIOUS
  <2>1. ASSUME NEW a \in BootArgs, Boot(a) PROVE OwnersInv' BY <2>1, BootInv
  <2>2. ASSUME NEW c \in Clients, Take(c) PROVE OwnersInv' BY <2>2, TakeInv
  <2>3. ASSUME NEW c \in Clients, NEW n \in Counts, TakeBlock(c, n)
        PROVE  OwnersInv'
    BY <2>3, TakeBlockInv
  <2>4. ASSUME NEW c \in Clients, Give(c) \/ GiveBlock(c) PROVE OwnersInv'
    BY <2>4, GiveInv
  <2>5. CASE GiveNull BY <2>5, GiveNullInv
  <2>6. CASE OwnersHcf BY <2>6, OwnersStutterInv DEF OwnersHcf, Hcf, ownerVars
  <2>7. CASE UNCHANGED ownerVars BY <2>7, OwnersStutterInv
  <2> QED BY <2>1, <2>2, <2>3, <2>4, <2>5, <2>6, <2>7 DEF OwnersNext
<1> QED BY OwnersInitInv, <1>1, PTL DEF OwnersSpec

(* No two clients ever hold the same frame, and no held frame can be       *)
(* handed out again, until KiPmmNAlloc returns its first block with a hole.*)
THEOREM ExclusiveOwnership == OwnersSpec => []ExclusiveUnlessFragmented
<1>1. OwnersInv => ExclusiveUnlessFragmented BY DEF OwnersInv
<1> QED BY <1>1, OwnersInvariant, PTL
-----------------------------------------------------------------------------
(* What becomes ownerless.                                                 *)

(* A client that held nothing adds its new block to what is owned.         *)
LEMMA OwnedAfterTake ==
  ASSUME OwnersTypeOK, NEW c \in Clients, held[c].n = 0,
         NEW b, held' = [held EXCEPT ![c] = b]
  PROVE  Owned' = Owned \cup Block(b)
<1>1. Block(held[c]) = {}
  <2>1. held[c].base \in Nat BY DEF OwnersTypeOK
  <2> QED BY <2>1 DEF Block
<1>2. \A d \in Clients : held'[d] = IF d = c THEN b ELSE held[d] BY DEF OwnersTypeOK
<1>3. \A d \in Clients : Block(held'[d]) = IF d = c THEN Block(b) ELSE Block(held[d])
  BY <1>2
<1>4. Owned' = UNION {Block(held'[d]) : d \in Clients} BY DEF Owned, Block
<1> QED BY <1>1, <1>3, <1>4 DEF Owned

(* A block without a hole is all of what n calls of the search mark: a     *)
(* frame behind it has the n frames of the block before it.                *)
LEMMA WholeBlock ==
  ASSUME TypeOK, NEW n \in Nat, NEW i \in FreeFrames, IsFirstFree(i),
         i .. (i + n - 1) \subseteq FreeFrames
  PROVE  LowestFree(n) \subseteq i .. (i + n - 1)
<1> SUFFICES ASSUME NEW f \in LowestFree(n), f \notin i .. (i + n - 1) PROVE FALSE OBVIOUS
<1> DEFINE before == {j \in FreeFrames : j < f}
<1>1. f \in FreeFrames /\ Cardinality(before) < n BY DEF LowestFree
<1>2. i \in Nat /\ f \in Nat /\ i <= f BY <1>1 DEF FreeFrames, Frames, TypeOK, IsFirstFree
<1>3. i + n - 1 < f BY <1>2
<1>4. i .. (i + n - 1) \subseteq before BY <1>2, <1>3
<1>5. IsFiniteSet(before)
  BY MarkedFinite, FS_Subset DEF FreeFrames
<1>6. Cardinality(i .. (i + n - 1)) <= Cardinality(before)
  BY <1>4, <1>5, FS_Subset
<1>7. Cardinality(i .. (i + n - 1)) = n BY <1>2, FS_Interval
<1>8. Cardinality(before) \in Nat BY <1>5, FS_CardinalityType
<1> QED BY <1>1, <1>6, <1>7, <1>8

LEMMA TakeLoses ==
  ASSUME OwnersInv, NEW c \in Clients, Take(c), ret' # NULL
  PROVE  Ownerless' \subseteq Ownerless
<1>1. TypeOK /\ BaseZero /\ OwnersTypeOK BY DEF OwnersInv, OwnersTypeOK
<1>2. PICK i \in FreeFrames : bitmap' = bitmap \cup {i} /\ ret' = FrameAddr(i)
  BY DEF Take, KiPmmAlloc, Mark
<1>3. i \in Nat BY <1>1 DEF FreeFrames, Frames, TypeOK
<1>4. Received(1) = [base |-> i, n |-> 1] BY <1>1, <1>2, <1>3, FrameOfAddr DEF Received
<1>5. Block(Received(1)) = {i} BY <1>3, <1>4 DEF Block
<1>6. Owned' = Owned \cup {i}
  <2>1. held[c].n = 0 /\ held' = [held EXCEPT ![c] = Received(1)] BY DEF Take
  <2> QED BY <1>1, <1>5, <2>1, OwnedAfterTake
<1> QED BY <1>2, <1>6 DEF Ownerless

LEMMA TakeBlockLoses ==
  ASSUME OwnersInv, NEW c \in Clients, NEW n \in Counts, TakeBlock(c, n), ret' # NULL,
         ~fragmented'
  PROVE  Ownerless' \subseteq Ownerless
<1>1. TypeOK /\ BaseZero /\ OwnersTypeOK BY DEF OwnersInv, OwnersTypeOK
<1>2. n \in Nat \ {0} /\ Wanted(n) = n BY CountsAssumption, CountsPositive DEF Wanted
<1>3. PICK i \in FreeFrames :
        IsFirstFree(i) /\ bitmap' = bitmap \cup LowestFree(n) /\ ret' = FrameAddr(i)
  BY <1>2 DEF TakeBlock, KiPmmNAlloc, Mark
<1>4. i \in Nat BY <1>1 DEF FreeFrames, Frames, TypeOK
<1>5. Received(n) = [base |-> i, n |-> n] BY <1>1, <1>3, <1>4, FrameOfAddr DEF Received
<1>6. Block(Received(n)) = i .. (i + n - 1) BY <1>5 DEF Block
<1>7. i .. (i + n - 1) \subseteq FreeFrames
  <2>1. Block(Received(n)) \subseteq bitmap' \ bitmap BY DEF TakeBlock
  <2>2. LowestFree(n) \subseteq FreeFrames BY DEF LowestFree
  <2> QED BY <1>3, <1>6, <2>1, <2>2
<1>8. LowestFree(n) \subseteq i .. (i + n - 1) BY <1>1, <1>2, <1>3, <1>7, WholeBlock
<1>9. Owned' = Owned \cup i .. (i + n - 1)
  <2>1. held[c].n = 0 /\ held' = [held EXCEPT ![c] = Received(n)] BY DEF TakeBlock
  <2> QED BY <1>1, <1>6, <2>1, OwnedAfterTake
<1> QED BY <1>3, <1>8, <1>9 DEF Ownerless

(* A client that gives back clears its whole block.                        *)
LEMMA GiveLoses ==
  ASSUME OwnersInv, NEW c \in Clients, Give(c) \/ GiveBlock(c)
  PROVE  Ownerless' \subseteq Ownerless
<1> DEFINE b == held[c].base
           n == held[c].n
<1>1. TypeOK /\ BaseZero /\ OwnersTypeOK BY DEF OwnersInv, OwnersTypeOK
<1>2. b \in Nat /\ n \in Nat BY <1>1 DEF OwnersTypeOK
<1>3. bitmap' = bitmap \ (Block(held[c]) \cap Frames)
  <2>1. CASE Give(c)
    <3>1. bitmap' = bitmap \ FrameNamed(FrameAddr(b)) /\ n = 1
      BY <2>1 DEF Give, KiPmmFree, Unmark
    <3>2. FrameNamed(FrameAddr(b)) = {b} \cap Frames BY <1>1, <1>2, FrameOfAddr
    <3>3. Block(held[c]) = {b} BY <1>2, <3>1 DEF Block
    <3> QED BY <3>1, <3>2, <3>3
  <2>2. CASE GiveBlock(c)
    <3>1. bitmap' = bitmap \ UNION {FrameNamed(FrameAddr(b) + k * PageSize) :
                                      k \in 0 .. (n - 1)}
      BY <2>2 DEF GiveBlock, KiPmmNFree, Unmark
    <3> QED BY <1>1, <1>2, <3>1, FramesOfBlock DEF Block
  <2> QED BY <2>1, <2>2
<1>4. held' = [held EXCEPT ![c] = Nothing] BY DEF Give, GiveBlock
<1>5. \A d \in Clients \ {c} : Block(held'[d]) = Block(held[d])
  BY <1>1, <1>4 DEF OwnersTypeOK
<1>6. Owned \subseteq Owned' \cup Block(held[c])
  <2>1. Owned' = UNION {Block(held'[d]) : d \in Clients} BY DEF Owned, Block
  <2> QED BY <1>5, <2>1 DEF Owned
<1>7. bitmap \subseteq Frames BY <1>1 DEF TypeOK
<1> QED BY <1>3, <1>6, <1>7 DEF Ownerless

(* Frames are lost in calls that returned NULL only, for any clients, as   *)
(* long as no block came back with a hole; a give-back gives all back.     *)
THEOREM LossOnlyBehindNull == OwnersSpec => LostOnlyBehindNull
<1>1. ASSUME OwnersInv, [OwnersNext]_ownerVars, ~fragmented', ret' # NULL
      PROVE  Ownerless' \subseteq Ownerless
  <2>1. ASSUME NEW a \in BootArgs, Boot(a) PROVE Ownerless' = {}
    BY <2>1 DEF Boot, KiPmmInit, Ownerless
  <2>2. ASSUME NEW c \in Clients, Take(c) PROVE Ownerless' \subseteq Ownerless
    BY <1>1, <2>2, TakeLoses
  <2>3. ASSUME NEW c \in Clients, NEW n \in Counts, TakeBlock(c, n)
        PROVE  Ownerless' \subseteq Ownerless
    BY <1>1, <2>3, TakeBlockLoses
  <2>4. ASSUME NEW c \in Clients, Give(c) \/ GiveBlock(c)
        PROVE  Ownerless' \subseteq Ownerless
    BY <1>1, <2>4, GiveLoses
  <2>5. CASE GiveNull
    <3>1. bitmap' \subseteq bitmap /\ held' = held
      BY <2>5 DEF GiveNull, KiPmmFree, Unmark
    <3> QED BY <3>1 DEF Ownerless, Owned, Block
  <2>6. CASE OwnersHcf \/ UNCHANGED ownerVars
    <3>1. bitmap' = bitmap /\ held' = held BY <2>6 DEF OwnersHcf, Hcf, ownerVars, vars
    <3> QED BY <3>1 DEF Ownerless, Owned, Block
  <2> QED BY <1>1, <2>1, <2>2, <2>3, <2>4, <2>5, <2>6 DEF OwnersNext
<1>2. OwnersInv /\ [OwnersNext]_ownerVars
        => [(~fragmented' /\ ret' # NULL) => Ownerless' \subseteq Ownerless]_ownerVars
  BY <1>1
<1> QED BY <1>2, OwnersInvariant, PTL DEF OwnersSpec, LostOnlyBehindNull
=============================================================================
