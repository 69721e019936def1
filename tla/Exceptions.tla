----------------------------- MODULE Exceptions -----------------------------
(***************************************************************************)
(* Processor exceptions once KiIdtInit has loaded the table: the stubs of  *)
(* kernel/src/IDT/idt.asm and KiExceptionHandler of kernel/src/IDT/idt.c.  *)
(*                                                                         *)
(* The handler is declared noreturn and has a return, for exception 0.     *)
(* What the compiler makes of it is undefined: a return, or nothing, and   *)
(* then the processor runs into whatever code comes next.  From there on   *)
(* anything may happen, and no property says that it does not.             *)
(*                                                                         *)
(* External: the processor pushes a frame and, for some vectors, an error  *)
(* code; every gate clears the interrupt flag; a non-maskable interrupt    *)
(* wakes a halted processor, the next one waits for an iretq.  The printk  *)
(* of the handler may itself raise an exception.                           *)
(***************************************************************************)
EXTENDS Integers, Sequences

CONSTANTS
  Vectors,   \* exceptions that happen
  MaxDepth   \* bound: exceptions inside each other

ASSUME VectorsAssumption  == Vectors \subseteq 0 .. 31
ASSUME MaxDepthAssumption == MaxDepth \in Nat

NMI == 2

(* Where the processor is: in the interrupted program, in a stub before    *)
(* and after its call, in the printk of the handler, at its return, in hlt *)
(* or the loop behind it, in code nobody called.                           *)
Places == {"program", "push", "print", "return", "pop", "iretq", "halted", "astray"}

(* Contents of rdi: a vector, or what the program has there.               *)
Program == 32
Values  == 0 .. 32

VARIABLES
  pc,
  rdi,
  stack,     \* the words pushed, top first
  nested,    \* history: the exceptions begun and not yet returned from;
             \* once astray, those whose frames unknown code has left alone
  IFlag,
  nmiWaits   \* no NMI before the next iretq

vars == <<pc, rdi, stack, nested, IFlag, nmiWaits>>

Word ==
  [word : {"frame"}, pc : Places, IFlag : BOOLEAN, rdi : Values]
  \cup [word : {"error", "call"}]
  \cup [word : {"rdi"}, value : Values]

Init ==
  /\ pc = "program" /\ rdi = Program
  /\ stack = <<>> /\ nested = <<>>
  /\ IFlag \in BOOLEAN
  /\ nmiWaits = FALSE

(* The vectors for which the processor pushes an error code.               *)
PushesError == {8, 10, 11, 12, 13, 14, 17, 21, 29, 30}

Frame == [word |-> "frame", pc |-> pc, IFlag |-> IFlag, rdi |-> rdi]

(* The program, or the printk of a handler, raises an exception; an NMI    *)
(* comes there and in hlt.                                                 *)
Raise(v) ==
  /\ Len(nested) < MaxDepth
  /\ \/ pc \in {"program", "print"}
     \/ pc = "halted" /\ v = NMI
  /\ v = NMI => ~nmiWaits
  /\ stack'  = (IF v \in PushesError THEN <<[word |-> "error"]>> ELSE <<>>)
                 \o <<Frame>> \o stack
  /\ nested' = <<v>> \o nested
  /\ pc' = "push" /\ IFlag' = FALSE
  /\ nmiWaits' = (nmiWaits \/ v = NMI)
  /\ UNCHANGED rdi

-----------------------------------------------------------------------------
(* Mutant of StubOf: the table starts with the stub of 1.                  *)
StubOfNext(v) == v + 1

(* isr_stub_table: the stub of a vector, named by its number.              *)
StubOf(v) == v

(* isr_stub: push rdi; mov rdi, vector; call KiExceptionHandler.           *)
StubCall ==
  /\ pc = "push"
  /\ stack' = <<[word |-> "call"], [word |-> "rdi", value |-> rdi]>> \o stack
  /\ rdi' = StubOf(Head(nested))
  /\ pc' = "print"
  /\ UNCHANGED <<nested, IFlag, nmiWaits>>

(* Mutant of Returns: no exception below 9.                                *)
ReturnsBelow9(exception) == exception < 9
Returns(exception)       == exception = 0

(* printk, then return or cli; hlt; while (1).  Its argument is rdi, which *)
(* an exception inside printk gives back.                                  *)
KiExceptionHandler ==
  /\ pc = "print"
  /\ pc' = IF Returns(rdi) THEN "return" ELSE "halted"
  /\ IFlag' = (IFlag /\ Returns(rdi))
  /\ UNCHANGED <<rdi, stack, nested, nmiWaits>>

(* The return of a noreturn function.                                      *)
Return ==
  /\ pc = "return"
  /\ pc' = "pop" /\ stack' = Tail(stack)
  /\ UNCHANGED <<rdi, nested, IFlag, nmiWaits>>

RunOff ==
  /\ pc = "return"
  /\ pc' = "astray"
  /\ UNCHANGED <<rdi, stack, nested, IFlag, nmiWaits>>

(* Mutant of StubPop: the word is dropped.                                 *)
StubPopDropped ==
  /\ pc = "pop"
  /\ stack' = Tail(stack)
  /\ pc' = "iretq"
  /\ UNCHANGED <<rdi, nested, IFlag, nmiWaits>>

(* pop rdi.                                                                *)
StubPop ==
  /\ pc = "pop"
  /\ rdi' = Head(stack).value /\ stack' = Tail(stack)
  /\ pc' = "iretq"
  /\ UNCHANGED <<nested, IFlag, nmiWaits>>

(* The instruction that raised the exception is executed again.            *)
Iretq ==
  /\ pc = "iretq" /\ Head(stack).word = "frame"
  /\ pc' = Head(stack).pc /\ IFlag' = Head(stack).IFlag
  /\ stack' = Tail(stack) /\ nested' = Tail(nested)
  /\ nmiWaits' = FALSE
  /\ UNCHANGED rdi

(* Code nobody called does whatever it likes: it enables interrupts, pops  *)
(* frames and words of others off the stack, leaves anything in rdi.  Its  *)
(* pc stays "astray" wherever it goes, back into a stub or the program too.*)
Astray ==
  /\ pc = "astray"
  /\ rdi' \in Vectors \cup {Program}
  /\ stack' \in {stack, SubSeq(stack, 2, Len(stack))}
  /\ nested' \in {nested, SubSeq(nested, 2, Len(nested))}
  /\ IFlag' \in BOOLEAN /\ nmiWaits' \in BOOLEAN
  /\ UNCHANGED pc

(* The processor halts in hlt; only an NMI wakes it.                       *)
Stays == pc = "halted" /\ UNCHANGED vars

Next ==
  \/ \E v \in Vectors : Raise(v)
  \/ StubCall \/ KiExceptionHandler \/ Return \/ RunOff \/ StubPop \/ Iretq
  \/ Astray \/ Stays

Spec == Init /\ [][Next]_vars

-----------------------------------------------------------------------------
TypeOK ==
  /\ pc \in Places
  /\ rdi \in Vectors \cup {Program}
  /\ stack \in Seq(Word)
  /\ nested \in Seq(0 .. 31)
  /\ IFlag \in BOOLEAN /\ nmiWaits \in BOOLEAN

(* No stub drops an error code before iretq, and those of 21 and 29 do not  *)
(* expect one: the iretq of a stub that a handler has returned to still     *)
(* never takes anything but a frame, and the interrupted code then has its  *)
(* rdi back.                                                                *)
ReturnsToFrame ==
  pc = "iretq" => Head(stack).word = "frame" /\ rdi = Head(stack).rdi

(* A panic is final: an exception other than 0 is never returned from and  *)
(* interrupts stay off, whatever comes in its printk or in hlt - a return  *)
(* for exception 0 inside them included - until a handler has run off its  *)
(* end into code nobody called.                                            *)
PanicIsFinal ==
  [][pc # "astray" =>
       \A k \in 0 .. Len(nested) - 1 :
         nested[Len(nested) - k] # 0 =>
           /\ k < Len(nested') /\ nested'[Len(nested') - k] = nested[Len(nested) - k]
           /\ ~IFlag']_vars

(* KiExceptionHandler does not return (idt.h:19).  For exception 0 it      *)
(* returns, or leaves its own code.                                        *)
NeverReturns == pc \notin {"return", "pop", "iretq", "astray"}
=============================================================================
