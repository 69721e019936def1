-------------------------------- MODULE Boot --------------------------------
(***************************************************************************)
(* KiStartupInit of kernel/src/main.c: the whole boot, from the answers of *)
(* the bootloader to hcf(), with the keyboard alive underneath it as soon  *)
(* as KiIdtInit has enabled interrupts.                                    *)
(*                                                                         *)
(* Composes KbdIrq (interrupt path, driver, keyboard), Gdt and Pmm.  The   *)
(* handler, too, prints on the terminal, between any two characters of the *)
(* boot code's messages.  It matters inside an escape sequence only: of a  *)
(* message the model keeps where its escape sequences open and close.      *)
(*                                                                         *)
(* External: the bootloader's answers and the terminal behind printk.      *)
(***************************************************************************)
EXTENDS KbdIrq, Gdt

CONSTANTS PageSize, MemBytes   \* 0x1000 and 0x16636F60 in main.c

ASSUME MemAssumption == PageSize \in Nat \ {0} /\ MemBytes \in Nat

VARIABLES
  start,       \* next step of KiStartupInit
  gdt,         \* KiGdtLoad has executed lgdt
  reset,       \* a selector that no descriptor is fit for was used
  printing,    \* what printk has still to write of the boot's message
  escape,      \* the terminal is inside an escape sequence
  garbled,     \* the handler has written into an escape sequence
  status, bitmap, bitmap_size_bytes, total_pages, free_pages,
  endKernelAligned_, given, ret    \* of Pmm

pmm      == <<status, bitmap, bitmap_size_bytes, total_pages, free_pages,
              endKernelAligned_, given, ret>>
output   == <<printing, escape, garbled>>
bootVars == <<kbdVars, start, gdt, reset, output, pmm>>

EndKernelAligned == 3 * PageSize    \* external: the linker's a_endKernelA

(* Mutant of BitmapMem: sizeof(bitmap_mem) without rounding up.            *)
BitmapMemRoundedDown == (MemBytes \div PageSize) \div 8

(* sizeof(bitmap_mem) in main.c.                                           *)
BitmapMem == (MemBytes \div PageSize + 7) \div 8

Arguments == [total_mem_bytes |-> MemBytes, bitmap_mem_size |-> BitmapMem,
              endKernelAligned |-> EndKernelAligned]

P == INSTANCE Pmm WITH BootArgs <- {Arguments}, Pointers <- {}, Counts <- {}

Requests == {"base revision", "framebuffer", "hhdm", "memmap"}

(* An address in the kernel's text: beyond any table of descriptors.       *)
KernelText == 2 ^ 30

GDT_OFFSET_KERNEL_CODE == 8

-----------------------------------------------------------------------------
(* Messages.                                                               *)
Plain    == <<>>
Coloured == <<"open", "close", "open", "close">>

(* What the steps of KiIdtInit print once they have been taken; the 32     *)
(* messages of KiInitExceptions, with interrupts disabled, are one.        *)
Said(step) ==
  CASE step = "exceptions" -> Coloured
    [] step = "gate"       -> Coloured
    [] OTHER               -> Plain

(* Mutant of LogPmm: the log of the memory manager in colour.              *)
LogPmmColoured == Coloured
LogPmm == Plain

BootInit ==
  /\ Init /\ KeyboardInit /\ P!Init
  /\ start = "requests"
  /\ gdt = FALSE /\ reset = FALSE
  /\ printing = <<>> /\ escape = FALSE /\ garbled = FALSE

(* The boot code takes a step: it is not interrupted, has not died and is  *)
(* not inside printk.                                                      *)
At(from) ==
  /\ start = from
  /\ handler = "none" /\ ~panic
  /\ printing = <<>>

Only(step, message) ==
  /\ start' = step
  /\ printing' = message
  /\ UNCHANGED <<kbdVars, escape, garbled>>

(* Any answer missing, or a revision that is not supported: hcf.           *)
CheckResponses ==
  /\ At("requests")
  /\ \E answered \in SUBSET Requests :
       Only(IF answered = Requests THEN "gdt" ELSE "early hcf", Plain)
  /\ UNCHANGED <<gdt, reset, pmm>>

(* lgdt, the data segments, the far return.                                *)
KiGdtInit ==
  /\ At("gdt")
  /\ gdt' = TRUE
  /\ reset' = ~GdtLoads(KernelText)
  /\ Only("idt", Plain)
  /\ UNCHANGED pmm

IdtStep ==
  /\ At("idt")
  /\ KiIdtInit
  /\ start' = IF boot' = "done" THEN "pmm" ELSE "idt"
  /\ printing' = Said(boot)
  /\ UNCHANGED <<driver, keyboard, gdt, reset, escape, garbled, pmm>>

KiPmmInit ==
  /\ At("pmm")
  /\ P!KiPmmInit(Arguments)
  /\ Only(IF status' = "failed" THEN "hcf" ELSE "alloc", LogPmm)
  /\ UNCHANGED <<gdt, reset>>

(* frame == -1 is the test for a failure.                                  *)
TestAlloc ==
  /\ At("alloc")
  /\ P!KiPmmAlloc
  /\ Only(IF ret' = -1 THEN "hcf" ELSE "free", LogPmm)
  /\ UNCHANGED <<gdt, reset>>

TestFree ==
  /\ At("free")
  /\ P!KiPmmFree(ret)
  /\ Only("succeeded", LogPmm)
  /\ UNCHANGED <<gdt, reset>>

TestSucceeded ==
  /\ At("succeeded")
  /\ Only("hcf", LogPmm)
  /\ UNCHANGED <<gdt, reset, pmm>>

(* printk writes on, up to where the next sequence opens or closes.        *)
Write ==
  /\ printing # <<>>
  /\ handler = "none" /\ ~panic
  /\ printing' = Tail(printing)
  /\ escape' = (Head(printing) = "open")
  /\ UNCHANGED <<kbdVars, start, gdt, reset, garbled, pmm>>

KiStartupInit ==
  \/ CheckResponses \/ KiGdtInit \/ IdtStep
  \/ KiPmmInit \/ TestAlloc \/ TestFree \/ TestSucceeded
  \/ Write

-----------------------------------------------------------------------------
(* The handler under the boot code.  Its echo goes to the terminal whole.  *)
Echoes ==
  /\ HandlerReads
  /\ garbled' = (garbled \/ (escape /\ echo' # <<>>))
  /\ UNCHANGED <<start, gdt, reset, printing, escape, pmm>>

(* A gate needs a descriptor for its code selector.                        *)
Enters == handler = "none" /\ handler' # "none"

Path ==
  /\ InterruptPath
  /\ reset' = (Enters /\ ~(gdt /\ CodeSelector(GDT_OFFSET_KERNEL_CODE)))
  /\ UNCHANGED <<start, gdt, output, pmm>>

Outside == Devices /\ UNCHANGED <<start, gdt, reset, output, pmm>>

Halted == panic \/ reset \/ start = "early hcf"

(* hcf() halts for ever, and wakes for an interrupt.                       *)
Hcf ==
  /\ Halted \/ (start = "hcf" /\ printing = <<>>)
  /\ UNCHANGED bootVars

BootNext ==
  \/ ~reset /\ (KiStartupInit \/ Echoes \/ Path \/ Outside)
  \/ Hcf

(* The processor executes the code it is in and takes an interrupt that    *)
(* stays requested.  Nobody has to press a key.                            *)
BootSpec ==
  BootInit /\ [][BootNext]_bootVars
    /\ WF_bootVars(~reset /\ KiStartupInit)
    /\ WF_bootVars(~reset /\ (Echoes \/ (Path /\ (Handler \/ Interrupt
                                                 \/ SpuriousInterrupt))))

-----------------------------------------------------------------------------
BootTypeOK ==
  /\ TypeOK
  /\ P!TypeOK
  /\ start \in {"requests", "early hcf", "gdt", "idt", "pmm", "alloc", "free",
                "succeeded", "hcf"}
  /\ gdt \in BOOLEAN /\ reset \in BOOLEAN /\ escape \in BOOLEAN /\ garbled \in BOOLEAN
  /\ printing \in Seq({"open", "close"})
  /\ data \in 0 .. 255 /\ line \in Seq(0 .. 255) /\ held \subseteq Keys

(* Every selector that KiGdtLoad and the gates load has a descriptor fit   *)
(* for it, whenever the first key is pressed.                              *)
NeverResets == ~reset

(* Both the boot code and the handler's echo print; no message with an     *)
(* escape sequence is under way when a key is echoed.                      *)
EscapeSequencesWhole == ~garbled

(* The boot's own test of the allocator gives back what it took, although  *)
(* it takes frame 0 for a null pointer and never notices a failure; and    *)
(* the buffer main.c declares is large enough for KiPmmInit.               *)
PmmTestRestores ==
  start \in {"succeeded", "hcf"} =>
    status = "ready" /\ bitmap = {} /\ free_pages = total_pages

(* The keyboard never goes dumb in a kernel that runs: a byte in the       *)
(* controller is read, even one whose edge the initialisation of the PIC   *)
(* made it forget, and also after the boot has ended in hcf().             *)
KeyboardServed == full ~> (~full \/ Halted)

(* However the keyboard interrupts it, the boot ends.  With a keyboard     *)
(* that never stopped sending, KeyboardFlushBuffer need not; this one      *)
(* sends MaxSent bytes.                                                    *)
BootEnds == <>(start = "hcf" \/ Halted)
=============================================================================
