-------------------------------- MODULE Irq --------------------------------
(***************************************************************************)
(* The way of a keyboard byte into the kernel, and the boot code that      *)
(* opens it: KiIdtInit, KiPicRemap, the mask functions, KiKeyboardHandler  *)
(* and KeyboardFlushBuffer of kernel/src/IDT/idt.c.                        *)
(*                                                                         *)
(* KiIdtInit ends with interrupts enabled and then empties the keyboard    *)
(* controller by polling, so the polling loop races with the handler it    *)
(* has just enabled.                                                       *)
(*                                                                         *)
(* External, modelled from how this code drives them: the keyboard         *)
(* controller (one output byte, IRQ 1 raised while it is full, a read of   *)
(* an empty buffer repeats the last byte), the two PICs as one (edge       *)
(* triggered by ICW1; initialisation forgets the edges seen so far), the   *)
(* timer on IRQ 0 and the processor.  The bootloader enters the kernel     *)
(* with interrupts disabled.  Bytes are numbered in the order sent.        *)
(***************************************************************************)
EXTENDS Integers, Sequences

CONSTANTS
  Lines,    \* interrupt lines of the PICs that something is wired to
  MaxSent   \* bound: bytes the keyboard sends

ASSUME LinesAssumption   == Lines \subseteq 0 .. 15 /\ {0, 1} \subseteq Lines
ASSUME MaxSentAssumption == MaxSent \in Nat

VARIABLES
  sent,         \* bytes the keyboard has sent; the last one is in the buffer
  full,         \* output-buffer-full bit of port 0x64; the level of IRQ 1
  irr, isr,     \* requested and in-service lines
  spurious,     \* IRQ 7 is raised, because a request went away unserved
  imr,          \* masked lines
  offset,       \* vector of line 0; 8 before KiPicRemap
  idt,          \* vectors KiIdtSetDesc has filled
  loaded,       \* lidt has been executed
  IFlag,        \* the interrupt flag
  boot,         \* next step of KiIdtInit
  handler,      \* next step of KiKeyboardHandler, "none" when it does not run
  handled,      \* bytes passed to KeyboardDriverMain
  discarded,    \* bytes KeyboardFlushBuffer read
  panic,        \* an interrupt found no gate: a fault, then "cli; hlt"
  raced         \* history: KeyboardFlushBuffer read the byte of a pending
                \* interrupt, or read again the byte the handler had read

kbdc    == <<sent, full>>
pic     == <<irr, isr, spurious, imr, offset>>
tables  == <<idt, loaded>>
history == <<handled, discarded, raced>>
vars    == <<kbdc, pic, tables, IFlag, boot, handler, history, panic>>

Exceptions     == 0 .. 31
KeyboardVector == 33    \* 0x21

-----------------------------------------------------------------------------
Init ==
  /\ sent = 0 /\ full = FALSE
  /\ irr = {} /\ isr = {} /\ spurious = FALSE /\ imr = 0 .. 15 /\ offset = 8
  /\ idt = {} /\ loaded = FALSE
  /\ IFlag = FALSE
  /\ boot = "exceptions" /\ handler = "none"
  /\ handled = <<>> /\ discarded = <<>>
  /\ panic = FALSE /\ raced = FALSE

(* The devices.  A rising line is a request; the keyboard's rises when a   *)
(* byte enters the empty buffer.                                           *)
KeyboardSends ==
  /\ ~full /\ sent < MaxSent
  /\ sent' = sent + 1
  /\ full' = TRUE
  /\ irr' = irr \cup {1}
  /\ UNCHANGED <<isr, spurious, imr, offset, tables, IFlag, boot, handler, history, panic>>

OtherDevice(n) ==
  /\ n # 1
  /\ irr' = irr \cup {n}
  /\ UNCHANGED <<kbdc, isr, spurious, imr, offset, tables, IFlag, boot, handler, history,
                 panic>>

-----------------------------------------------------------------------------
(* The processor takes interrupts.                                         *)

(* The line the PICs present: the first one requested and not masked,      *)
(* unless it, or one before it, is in service; the second PIC is line 2.   *)
Presents(n) ==
  /\ n \in irr \ imr
  /\ n >= 8 => 2 \notin imr
  /\ \A m \in irr \ imr : n <= m
  /\ \A m \in isr : n < m

(* A gate set up with 0x8E clears the interrupt flag.  Without a gate the  *)
(* processor faults, and KiExceptionHandler halts; it also halts when the  *)
(* vector is that of an exception.                                         *)
Served(v) == loaded /\ v \in idt \ Exceptions

Vector(v) ==
  /\ IFlag' = FALSE
  /\ \/ Served(v)  /\ handler' = "read" /\ UNCHANGED panic
     \/ ~Served(v) /\ panic' = TRUE /\ UNCHANGED handler

Interrupt ==
  /\ IFlag /\ ~panic
  /\ \E n \in Lines :
       /\ Presents(n)
       /\ irr' = irr \ {n}
       /\ isr' = isr \cup {n}
       /\ Vector(offset + n)
  /\ UNCHANGED <<kbdc, spurious, imr, offset, tables, boot, history>>

(* A spurious interrupt is not masked and not in service.                  *)
SpuriousInterrupt ==
  /\ IFlag /\ ~panic /\ spurious
  /\ spurious' = FALSE
  /\ Vector(offset + 7)
  /\ UNCHANGED <<kbdc, irr, isr, imr, offset, tables, boot, history>>

(* inb(0x60) lowers IRQ 1.  If that request had not been taken, it stays   *)
(* latched, goes away, or comes back as the spurious IRQ 7: PICs differ.   *)
ReadData ==
  /\ full' = FALSE
  /\ UNCHANGED sent
  /\ \/ UNCHANGED <<irr, spurious>>
     \/ /\ full /\ 1 \in irr
        /\ irr' = irr \ {1}
        /\ spurious' \in {spurious, TRUE}

-----------------------------------------------------------------------------
(* KiKeyboardHandler: no other step of the kernel comes in between, but    *)
(* the devices go on.                                                      *)

(* Mutant of HandlerRead: the byte is passed on before and after the read. *)
HandlerReadTwice ==
  /\ handler = "read"
  /\ ReadData
  /\ handled' = handled \o <<sent, sent>>
  /\ handler' = "eoi"
  /\ UNCHANGED <<isr, imr, offset, tables, IFlag, boot, discarded, raced, panic>>

HandlerRead ==
  /\ handler = "read"
  /\ ReadData
  /\ handled' = Append(handled, sent)   \* KeyboardDriverMain(sc)
  /\ handler' = "eoi"
  /\ UNCHANGED <<isr, imr, offset, tables, IFlag, boot, discarded, raced, panic>>

(* An end of interrupt takes the first line out of service, if there is    *)
(* one; lines below 8 need none from the second PIC.                       *)
Eoi == isr' = {n \in isr : \E m \in isr : m < n}

KiPicSendEoi ==
  /\ handler = "eoi"
  /\ Eoi
  /\ handler' = "eoi again"
  /\ UNCHANGED <<kbdc, irr, spurious, imr, offset, tables, IFlag, boot, history, panic>>

(* outb(0x20, 0x20) sends a second one before the return.                  *)
HandlerReturn ==
  /\ handler = "eoi again"
  /\ Eoi
  /\ handler' = "none"
  /\ IFlag' = TRUE
  /\ UNCHANGED <<kbdc, irr, spurious, imr, offset, tables, boot, history, panic>>

Handler == HandlerRead \/ KiPicSendEoi \/ HandlerReturn

-----------------------------------------------------------------------------
(* KiIdtInit, in order.                                                    *)

BootStep(from, to) ==
  /\ boot = from /\ handler = "none" /\ ~panic
  /\ boot' = to
  /\ UNCHANGED <<handler, panic>>

(* Mutant of KiInitExceptions: vector <= 32.                               *)
KiInitExceptionsOneMore ==
  /\ BootStep("exceptions", "remap")
  /\ idt' = idt \cup 0 .. 32
  /\ UNCHANGED <<kbdc, pic, loaded, IFlag, history>>

KiInitExceptions ==
  /\ BootStep("exceptions", "remap")
  /\ idt' = idt \cup Exceptions
  /\ UNCHANGED <<kbdc, pic, loaded, IFlag, history>>

(* The words of the initialisation, then both masks cleared.               *)
KiPicRemap ==
  /\ BootStep("remap", "gate")
  /\ irr' = {} /\ isr' = {} /\ spurious' = FALSE
  /\ offset' = 32
  /\ imr' = {}
  /\ UNCHANGED <<kbdc, tables, IFlag, history>>

KiIdtSetDesc ==
  /\ BootStep("gate", "mask")
  /\ idt' = idt \cup {KeyboardVector}
  /\ UNCHANGED <<kbdc, pic, loaded, IFlag, history>>

(* Mutant of MaskFirst: 0b11111100, the timer not masked.                  *)
MaskFirstNotTimer ==
  /\ BootStep("mask", "mask second")
  /\ imr' = (imr \ (0 .. 7)) \cup (0 .. 7 \ {0, 1})
  /\ UNCHANGED <<kbdc, irr, isr, spurious, offset, tables, IFlag, history>>

(* 0b11111101 to the first PIC, then 0b11111111 to the second.             *)
MaskFirst ==
  /\ BootStep("mask", "mask second")
  /\ imr' = (imr \ (0 .. 7)) \cup (0 .. 7 \ {1})
  /\ UNCHANGED <<kbdc, irr, isr, spurious, offset, tables, IFlag, history>>

MaskSecond ==
  /\ BootStep("mask second", "clear mask")
  /\ imr' = imr \cup 8 .. 15
  /\ UNCHANGED <<kbdc, irr, isr, spurious, offset, tables, IFlag, history>>

KiIrqClearMask ==
  /\ BootStep("clear mask", "cli")
  /\ imr' = imr \ {1}
  /\ UNCHANGED <<kbdc, irr, isr, spurious, offset, tables, IFlag, history>>

Cli ==
  /\ BootStep("cli", "lidt")
  /\ IFlag' = FALSE
  /\ UNCHANGED <<kbdc, pic, tables, history>>

Lidt ==
  /\ BootStep("lidt", "sti")
  /\ loaded' = TRUE
  /\ UNCHANGED <<kbdc, pic, idt, IFlag, history>>

Sti ==
  /\ BootStep("sti", "poll")
  /\ IFlag' = TRUE
  /\ UNCHANGED <<kbdc, pic, tables, history>>

(* Mutant of FlushPoll: the loop is not entered.                           *)
FlushPollNever ==
  /\ BootStep("poll", "done")
  /\ UNCHANGED <<kbdc, pic, tables, IFlag, history>>

(* KeyboardFlushBuffer: the test of the status port, then the read.        *)
FlushPoll ==
  /\ \/ full  /\ BootStep("poll", "drain")
     \/ ~full /\ BootStep("poll", "done")
  /\ UNCHANGED <<kbdc, pic, tables, IFlag, history>>

(* Mutant of FlushDrain: it reads the status port once more, not the data. *)
FlushDrainStatus ==
  /\ BootStep("drain", "poll")
  /\ UNCHANGED <<kbdc, pic, tables, IFlag, history>>

FlushDrain ==
  /\ BootStep("drain", "poll")
  /\ ReadData
  /\ discarded' = Append(discarded, sent)
  /\ raced' = (raced \/ 1 \in irr \/ ~full)
  /\ UNCHANGED <<isr, imr, offset, tables, IFlag, handled>>

KiIdtInit ==
  \/ KiInitExceptions \/ KiPicRemap \/ KiIdtSetDesc
  \/ MaskFirst \/ MaskSecond \/ KiIrqClearMask
  \/ Cli \/ Lidt \/ Sti
  \/ FlushPoll \/ FlushDrain

(* After KiIdtInit the kernel runs, and a panic halts.                     *)
Idle ==
  /\ boot = "done" \/ panic
  /\ UNCHANGED vars

Next ==
  \/ KeyboardSends
  \/ \E n \in Lines : OtherDevice(n)
  \/ Interrupt \/ SpuriousInterrupt
  \/ Handler
  \/ KiIdtInit
  \/ Idle

(* The processor executes the code it is in and takes an interrupt that    *)
(* stays requested; nobody has to press a key.                             *)
Spec ==
  Init /\ [][Next]_vars
    /\ WF_vars(Interrupt) /\ WF_vars(SpuriousInterrupt)
    /\ WF_vars(Handler) /\ WF_vars(KiIdtInit)

-----------------------------------------------------------------------------
TypeOK ==
  /\ sent \in 0 .. MaxSent /\ full \in BOOLEAN
  /\ irr \subseteq Lines /\ isr \subseteq Lines /\ spurious \in BOOLEAN
  /\ imr \subseteq 0 .. 15 /\ offset \in {8, 32}
  /\ idt \subseteq Exceptions \cup {KeyboardVector} /\ loaded \in BOOLEAN
  /\ IFlag \in BOOLEAN /\ panic \in BOOLEAN /\ raced \in BOOLEAN
  /\ boot \in {"exceptions", "remap", "gate", "mask", "mask second", "clear mask",
               "cli", "lidt", "sti", "poll", "drain", "done"}
  /\ handler \in {"none", "read", "eoi", "eoi again"}
  /\ handled \in Seq(Nat) /\ discarded \in Seq(Nat)

(* From the first enabled interrupt on, every one delivered has a gate in  *)
(* the table - the order of KiIdtInit's steps and its masks see to that -  *)
(* unless KeyboardFlushBuffer took the byte of a pending request.          *)
NoUngatedInterrupt == ~raced => ~panic

BytesOf(s)    == {s[k] : k \in 1 .. Len(s)}
Increasing(s) == \A j, k \in 1 .. Len(s) : j < k => s[j] < s[k]

(* Every byte that has left the controller was handled once, in order, or  *)
(* discarded once by the flush, unless the two raced for it.               *)
EachByteOnce ==
  ~raced =>
    /\ Increasing(handled) /\ Increasing(discarded)
    /\ BytesOf(handled) \cap BytesOf(discarded) = {}
    /\ BytesOf(handled) \cup BytesOf(discarded) = 1 .. (IF full THEN sent - 1 ELSE sent)
=============================================================================
