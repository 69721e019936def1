-------------------------------- MODULE Gdt --------------------------------
(***************************************************************************)
(* The segment descriptors of kernel/src/GDT: the table gdt.c initialises, *)
(* the structure gdt.h declares for it, and what KiGdtLoad (gdt.asm) makes *)
(* the processor load.                                                     *)
(*                                                                         *)
(* Base and limit are 0 in every descriptor and mean nothing in 64-bit     *)
(* mode.  External: when the processor accepts a descriptor.               *)
(***************************************************************************)
EXTENDS Integers, Sequences

Entry(access, flags) == [AccessByte |-> access, Limit1_Flags |-> flags]

(* 0x9A, 0x92, 0xFA and 0xF2, each with 0xA0: five initialisers for the    *)
(* six entries of struct GDT.                                              *)
Initialisers ==
  <<Entry(0, 0), Entry(154, 160), Entry(146, 160), Entry(250, 160), Entry(242, 160)>>

(* sizeof(GDT) - 1; the structure is aligned(0x1000), hence padded.        *)
Limit == 4095

DefaultGDT(index) ==
  IF index < Len(Initialisers) THEN Initialisers[index + 1] ELSE Entry(0, 0)

-----------------------------------------------------------------------------
(* The access byte and the flags, bit by bit.                              *)
BitOf(byte, n) == (byte \div 2 ^ n) % 2 = 1

Present(e)  == BitOf(e.AccessByte, 7) /\ BitOf(e.AccessByte, 4)
Privilege(e) == (e.AccessByte \div 32) % 4
IsCode(e)   == Present(e) /\ BitOf(e.AccessByte, 3)
IsData(e)   == Present(e) /\ ~BitOf(e.AccessByte, 3) /\ BitOf(e.AccessByte, 1)
LongMode(e) == BitOf(e.Limit1_Flags, 5) /\ ~BitOf(e.Limit1_Flags, 6)

Index(selector) == selector \div 8
InTable(selector) == selector >= 8 /\ selector + 7 <= Limit

(* Selectors that the kernel may load into cs, and into the others.        *)
CodeSelector(selector) ==
  InTable(selector) /\ LET e == DefaultGDT(Index(selector))
                       IN  IsCode(e) /\ LongMode(e) /\ Privilege(e) = 0
DataSelector(selector) ==
  InTable(selector) /\ LET e == DefaultGDT(Index(selector))
                       IN  IsData(e) /\ Privilege(e) = 0

-----------------------------------------------------------------------------
(* KiGdtLoad: ax = 0x10 for the data segments, then a far return through   *)
(* the return address of the call and the new code selector.               *)
KernelData == 16
KernelCode == 8

(* Mutant of FarFrame: the two pushes in the other order.                  *)
FarFrameSwapped(address) == <<KernelCode, address>>

(* pop rdi; push 0x08; push rdi: the top of the stack first.               *)
FarFrame(address) == <<address, KernelCode>>

(* retfq pops the instruction pointer, then cs.                            *)
ReturnsFar(address) ==
  /\ FarFrame(address)[1] = address
  /\ CodeSelector(FarFrame(address)[2])

GdtLoads(address) == DataSelector(KernelData) /\ ReturnsFar(address)
=============================================================================
