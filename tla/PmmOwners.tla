----------------------------- MODULE PmmOwners -----------------------------
(***************************************************************************)
(* The frame allocator with callers that keep to its protocol: a client    *)
(* takes one block, treats NULL as a failure (as KiPmmNAlloc itself does   *)
(* at pmm.c:66), and gives its block back once, by the call that matches,  *)
(* with the pointer and the count it was given.  A caller that received    *)
(* NULL may still pass it to KiPmmFree, as main.c:143 does.                *)
(*                                                                         *)
(* The only thing a client knows of its block is the pointer and the       *)
(* count: it uses the frames Block(base, n), whatever bits were marked.    *)
(***************************************************************************)
EXTENDS Pmm

CONSTANT Clients

ASSUME CountsPositive == 0 \notin Counts

VARIABLES
  held,        \* held[c]: first frame and number of frames of c's block
  fragmented   \* history: KiPmmNAlloc returned a block with a hole in it

ownerVars == <<vars, held, fragmented>>

Nothing == [base |-> 0, n |-> 0]

Block(b) == b.base .. (b.base + b.n - 1)
Owned    == UNION {Block(held[c]) : c \in Clients}

(* Frames that are marked although no client has them in its block.        *)
Ownerless == bitmap \ Owned

(* The client's view of the pointer it received.                           *)
FrameAt(addr) == (addr - endKernelAligned_) \div PageSize
Received(n)   == IF ret' = NULL THEN Nothing ELSE [base |-> FrameAt(ret'), n |-> n]

-----------------------------------------------------------------------------
OwnersInit ==
  /\ Init
  /\ held = [c \in Clients |-> Nothing]
  /\ fragmented = FALSE

Boot(a) == KiPmmInit(a) /\ UNCHANGED <<held, fragmented>>

Take(c) ==
  /\ held[c].n = 0
  /\ KiPmmAlloc
  /\ held' = [held EXCEPT ![c] = Received(1)]
  /\ UNCHANGED fragmented

TakeBlock(c, n) ==
  /\ held[c].n = 0
  /\ KiPmmNAlloc(n)
  /\ held' = [held EXCEPT ![c] = Received(n)]
  /\ fragmented' = (fragmented \/ ~(Block(Received(n)) \subseteq bitmap' \ bitmap))

Give(c) ==
  /\ held[c].n = 1
  /\ KiPmmFree(FrameAddr(held[c].base))
  /\ held' = [held EXCEPT ![c] = Nothing]
  /\ UNCHANGED fragmented

GiveBlock(c) ==
  /\ held[c].n > 0
  /\ KiPmmNFree(FrameAddr(held[c].base), held[c].n)
  /\ held' = [held EXCEPT ![c] = Nothing]
  /\ UNCHANGED fragmented

GiveNull == KiPmmFree(NULL) /\ UNCHANGED <<held, fragmented>>

OwnersHcf == Hcf /\ UNCHANGED <<held, fragmented>>

OwnersNext ==
  \/ \E a \in BootArgs : Boot(a)
  \/ \E c \in Clients : \/ Take(c)
                        \/ \E n \in Counts : TakeBlock(c, n)
                        \/ Give(c)
                        \/ GiveBlock(c)
  \/ GiveNull
  \/ OwnersHcf

OwnersSpec == OwnersInit /\ [][OwnersNext]_ownerVars

-----------------------------------------------------------------------------
OwnersTypeOK ==
  /\ TypeOK
  /\ held \in [Clients -> [base : Nat, n : Nat]]
  /\ fragmented \in BOOLEAN

(* What an allocator is for: no frame is in the blocks of two clients.     *)
NoTwoOwners ==
  \A c, d \in Clients : c # d => Block(held[c]) \cap Block(held[d]) = {}

(* A frame in a client's block is marked, so no later call hands it out.   *)
OwnedAreMarked == Owned \subseteq bitmap

(* pmm.c keeps both promises for as long as every block KiPmmNAlloc has    *)
(* returned was without a hole, although it never tests for one.           *)
ExclusiveUnlessFragmented ==
  ~fragmented => NoTwoOwners /\ OwnedAreMarked

(* Until then a frame becomes ownerless - marked, in nobody's block - only *)
(* in a call that returned NULL; every give-back really gives back.        *)
LostOnlyBehindNull ==
  [][ (~fragmented' /\ ret' # NULL) => Ownerless' \subseteq Ownerless ]_ownerVars
=============================================================================
