---------------------------- MODULE BootProofs -----------------------------
(***************************************************************************)
(* Proofs about the interrupt path of Irq and the boot of Boot, for every  *)
(* keyboard, set of wired lines, number of bytes and size of memory.  What *)
(* is proved of Irq first holds under the whole boot because a step of     *)
(* Boot is a step of Irq, or none.                                         *)
(***************************************************************************)
EXTENDS Boot, FiniteSetTheorems, SequenceTheorems, TLAPS

(* First Irq by itself.                                                    *)

(* TypeOK in two parts: the devices, and what only the kernel changes.     *)
DeviceTypes ==
  /\ sent \in 0 .. MaxSent /\ full \in BOOLEAN
  /\ irr \subseteq Lines /\ isr \subseteq Lines /\ spurious \in BOOLEAN
  /\ handled \in Seq(Nat) /\ discarded \in Seq(Nat)

KernelTypes ==
  /\ imr \subseteq 0 .. 15 /\ offset \in {8, 32}
  /\ idt \subseteq Exceptions \cup {KeyboardVector} /\ loaded \in BOOLEAN
  /\ IFlag \in BOOLEAN /\ panic \in BOOLEAN /\ raced \in BOOLEAN
  /\ boot \in {"exceptions", "remap", "gate", "mask", "mask second", "clear mask",
               "cli", "lidt", "sti", "poll", "drain", "done"}
  /\ handler \in {"none", "read", "eoi", "eoi again"}

(* KiIdtInit has executed sti.                                             *)
Enabled == boot \in {"poll", "drain", "done"}

(* What KiIdtInit has set up by then: only the keyboard comes through, and *)
(* it has a gate.                                                          *)
SetUp ==
  /\ offset = 32
  /\ imr = 0 .. 15 \ {1}
  /\ idt = Exceptions \cup {KeyboardVector}

(* The masks while KiIdtInit sets them.                                    *)
MasksSoFar ==
  /\ boot \in {"gate", "mask", "mask second", "clear mask", "cli", "lidt", "sti"}
       => offset = 32
  /\ boot \in {"mask", "mask second", "clear mask", "cli", "lidt", "sti"}
       => idt = Exceptions \cup {KeyboardVector}
  /\ boot \in {"remap", "gate"} => idt = Exceptions
  /\ boot \in {"gate", "mask"} => imr = {}
  /\ boot = "mask second" => imr = 0 .. 7 \ {1}
  /\ boot \in {"clear mask", "cli", "lidt", "sti"} => imr = 0 .. 15 \ {1}

PathInv ==
  /\ DeviceTypes
  /\ KernelTypes
  /\ (IFlag \/ handler # "none") => Enabled
  /\ Enabled => SetUp /\ loaded
  /\ boot = "sti" => loaded
  /\ boot = "exceptions" => idt = {}
  /\ MasksSoFar

(* Unless the flush has raced with the handler: a request means that the   *)
(* byte is there, and while the handler is about to read, no other comes.  *)
RequestInv ==
  ~raced =>
    /\ ~spurious /\ ~panic
    /\ 1 \in irr => full
    /\ handler = "read" => full /\ 1 \notin irr

IrqInv == PathInv /\ RequestInv

-----------------------------------------------------------------------------
LEMMA InitKeeps == Init => IrqInv
<1>1. Init => DeviceTypes
  <2>1. 0 \in 0 .. MaxSent BY MaxSentAssumption
  <2>2. <<>> \in Seq(Nat) OBVIOUS
  <2> QED BY <2>1, <2>2 DEF Init, DeviceTypes
<1>2. Init => KernelTypes BY DEF Init, KernelTypes
<1> QED BY <1>1, <1>2 DEF Init, IrqInv, PathInv, RequestInv, Enabled, MasksSoFar

(* The keyboard sends into an empty buffer, so not while the handler is    *)
(* about to read.                                                          *)
LEMMA KeyboardKeeps == IrqInv /\ KeyboardSends => IrqInv'
<1> SUFFICES ASSUME IrqInv, KeyboardSends PROVE IrqInv' OBVIOUS
<1> USE DEF IrqInv, PathInv, KeyboardSends, tables, history
<1>1. sent' \in 0 .. MaxSent BY MaxSentAssumption DEF DeviceTypes
<1>2. 1 \in Lines BY LinesAssumption
<1>3. DeviceTypes' BY <1>1, <1>2 DEF DeviceTypes
<1>4. KernelTypes' BY DEF KernelTypes
<1>5. PathInv' BY <1>3, <1>4 DEF Enabled, SetUp, MasksSoFar
<1>6. RequestInv' BY DEF RequestInv, DeviceTypes
<1> QED BY <1>5, <1>6

LEMMA OtherDeviceKeeps ==
  ASSUME NEW n \in Lines, IrqInv, OtherDevice(n) PROVE IrqInv'
<1> USE DEF IrqInv, PathInv, OtherDevice, kbdc, tables, history
<1>1. DeviceTypes' BY DEF DeviceTypes
<1>2. KernelTypes' BY DEF KernelTypes
<1>3. PathInv' BY <1>1, <1>2 DEF Enabled, SetUp, MasksSoFar
<1>4. RequestInv' BY DEF RequestInv
<1> QED BY <1>3, <1>4

(* The only line that is not masked is the keyboard's, and its vector has  *)
(* a gate.                                                                 *)
LEMMA InterruptKeeps == IrqInv /\ Interrupt => IrqInv'
<1> SUFFICES ASSUME IrqInv, Interrupt PROVE IrqInv' OBVIOUS
<1>1. PICK n \in Lines :
        Presents(n) /\ irr' = irr \ {n} /\ isr' = isr \cup {n} /\ Vector(offset + n)
  BY DEF Interrupt
<1>2. SetUp /\ loaded /\ Enabled BY DEF Interrupt, IrqInv, PathInv
<1>3. n \in irr /\ n = 1
  <2>1. n \in irr /\ n \notin imr BY <1>1 DEF Presents
  <2>2. n \in 0 .. 15 BY LinesAssumption
  <2> QED BY <2>1, <2>2, <1>2 DEF SetUp
<1>4. Served(offset + n)
  <2>1. offset + n = KeyboardVector BY <1>2, <1>3 DEF SetUp, KeyboardVector
  <2> QED BY <1>2, <2>1 DEF Served, SetUp, Exceptions, KeyboardVector
<1>5. handler' = "read" /\ IFlag' = FALSE /\ panic' = panic BY <1>1, <1>4 DEF Vector
<1>6. /\ UNCHANGED <<sent, full, spurious, imr, offset, idt, loaded, boot>>
      /\ UNCHANGED <<handled, discarded, raced>>
  BY DEF Interrupt, kbdc, tables, history
<1>7. DeviceTypes' BY <1>1, <1>6 DEF DeviceTypes, IrqInv, PathInv
<1>8. KernelTypes' BY <1>5, <1>6 DEF KernelTypes, IrqInv, PathInv
<1>9. PathInv'
  BY <1>2, <1>5, <1>6, <1>7, <1>8 DEF PathInv, Enabled, SetUp, MasksSoFar
<1>10. RequestInv' BY <1>1, <1>3, <1>5, <1>6 DEF RequestInv, IrqInv
<1> QED BY <1>9, <1>10 DEF IrqInv

(* A spurious interrupt finds no gate; there is none before a race.        *)
LEMMA SpuriousKeeps == IrqInv /\ SpuriousInterrupt => IrqInv'
<1> SUFFICES ASSUME IrqInv, SpuriousInterrupt PROVE IrqInv' OBVIOUS
<1> USE DEF IrqInv, PathInv, SpuriousInterrupt, Vector, kbdc, tables, history
<1>1. DeviceTypes' BY DEF DeviceTypes
<1>2. KernelTypes' BY DEF KernelTypes
<1>3. PathInv' BY <1>1, <1>2 DEF Enabled, SetUp, MasksSoFar
<1>4. RequestInv' BY DEF RequestInv
<1> QED BY <1>3, <1>4

(* The byte that is read is the one whose interrupt is being served.       *)
LEMMA HandlerReadKeeps == IrqInv /\ HandlerRead => IrqInv'
<1> SUFFICES ASSUME IrqInv, HandlerRead PROVE IrqInv' OBVIOUS
<1> USE DEF IrqInv, PathInv, HandlerRead, ReadData, tables
<1>1. handled' \in Seq(Nat)
  <2>1. handled \in Seq(Nat) /\ sent \in Nat BY MaxSentAssumption DEF DeviceTypes
  <2>2. handled' = Append(handled, sent) OBVIOUS
  <2> QED BY <2>1, <2>2
<1>2. DeviceTypes' BY <1>1 DEF DeviceTypes
<1>3. KernelTypes' BY DEF KernelTypes
<1>4. PathInv' BY <1>2, <1>3 DEF Enabled, SetUp, MasksSoFar
<1>5. RequestInv' BY DEF RequestInv
<1> QED BY <1>4, <1>5

LEMMA EoiKeeps == IrqInv /\ (KiPicSendEoi \/ HandlerReturn) => IrqInv'
<1> SUFFICES ASSUME IrqInv, KiPicSendEoi \/ HandlerReturn PROVE IrqInv' OBVIOUS
<1> USE DEF IrqInv, PathInv, KiPicSendEoi, HandlerReturn, Eoi, kbdc, tables, history
<1>1. DeviceTypes' BY DEF DeviceTypes
<1>2. KernelTypes' BY DEF KernelTypes
<1>3. PathInv' BY <1>1, <1>2 DEF Enabled, SetUp, MasksSoFar
<1>4. RequestInv' BY DEF RequestInv
<1> QED BY <1>3, <1>4

LEMMA FirstMask ==
  /\ ({} \ (0 .. 7)) \cup (0 .. 7 \ {1}) = 0 .. 7 \ {1}
  /\ 0 .. 7 \ {1} \subseteq 0 .. 15
OBVIOUS

LEMMA SecondMask == (0 .. 7 \ {1}) \cup 8 .. 15 = 0 .. 15 \ {1}
OBVIOUS

(* Up to sti, KiIdtInit reads no byte and is not interrupted.              *)
LEMMA SetUpKeeps ==
  ASSUME IrqInv,
         \/ KiInitExceptions \/ KiPicRemap \/ KiIdtSetDesc
         \/ MaskFirst \/ MaskSecond \/ KiIrqClearMask
         \/ Cli \/ Lidt \/ Sti
  PROVE  IrqInv'
<1> USE DEF IrqInv, PathInv, BootStep, kbdc, pic, tables, history
<1>1. ~IFlag /\ handler = "none" /\ ~Enabled /\ handler' = "none"
  BY DEF Enabled, KiInitExceptions, KiPicRemap, KiIdtSetDesc, MaskFirst, MaskSecond,
         KiIrqClearMask, Cli, Lidt, Sti
<1>2. DeviceTypes'
  BY DEF DeviceTypes, KiInitExceptions, KiPicRemap, KiIdtSetDesc, MaskFirst, MaskSecond,
         KiIrqClearMask, Cli, Lidt, Sti
<1>3. RequestInv'
  BY DEF RequestInv, KiInitExceptions, KiPicRemap, KiIdtSetDesc, MaskFirst, MaskSecond,
         KiIrqClearMask, Cli, Lidt, Sti
<1> USE DEF KernelTypes, Enabled, MasksSoFar
<1>4. CASE KiInitExceptions
  <2>1. idt' = Exceptions BY <1>1, <1>4 DEF KiInitExceptions, Exceptions
  <2> QED BY <1>1, <1>2, <1>3, <1>4, <2>1 DEF KiInitExceptions
<1>5. CASE KiPicRemap BY <1>1, <1>2, <1>3, <1>5 DEF KiPicRemap
<1>6. CASE KiIdtSetDesc BY <1>1, <1>2, <1>3, <1>6 DEF KiIdtSetDesc
<1>7. CASE MaskFirst
  <2>1. imr = {} /\ boot = "mask" BY <1>7 DEF MaskFirst
  <2>2. imr' = (imr \ (0 .. 7)) \cup (0 .. 7 \ {1}) /\ boot' = "mask second"
        /\ UNCHANGED <<offset, idt, loaded, IFlag, raced, panic>>
    BY <1>7 DEF MaskFirst
  <2>3. imr' = 0 .. 7 \ {1} BY <2>1, <2>2, FirstMask, Zenon
  <2>4. imr' \subseteq 0 .. 15 BY <2>3, FirstMask, Zenon
  <2>5. KernelTypes' BY <1>1, <2>2, <2>4
  <2> HIDE DEF KernelTypes
  <2>6. MasksSoFar' BY <2>1, <2>2, <2>3
  <2> QED BY <1>1, <1>2, <1>3, <2>2, <2>5, <2>6
<1>8. CASE MaskSecond
  <2>1. imr = 0 .. 7 \ {1} /\ imr' = imr \cup 8 .. 15 BY <1>8 DEF MaskSecond
  <2>2. imr' = 0 .. 15 \ {1} BY <2>1, SecondMask
  <2> QED BY <1>1, <1>2, <1>3, <1>8, <2>2 DEF MaskSecond
<1>9. CASE KiIrqClearMask
  <2>1. imr' = 0 .. 15 \ {1} BY <1>9 DEF KiIrqClearMask
  <2> QED BY <1>1, <1>2, <1>3, <1>9, <2>1 DEF KiIrqClearMask
<1>10. CASE Cli BY <1>1, <1>2, <1>3, <1>10 DEF Cli
<1>11. CASE Lidt BY <1>1, <1>2, <1>3, <1>11 DEF Lidt
<1>12. CASE Sti BY <1>1, <1>2, <1>3, <1>12 DEF Sti, SetUp
<1> QED BY <1>4, <1>5, <1>6, <1>7, <1>8, <1>9, <1>10, <1>11, <1>12

(* The flush keeps the promises or counts as a race.                       *)
LEMMA FlushKeeps == IrqInv /\ (FlushPoll \/ FlushDrain) => IrqInv'
<1> SUFFICES ASSUME IrqInv, FlushPoll \/ FlushDrain PROVE IrqInv' OBVIOUS
<1> USE DEF IrqInv, PathInv, FlushPoll, FlushDrain, ReadData, BootStep, kbdc, pic, tables,
            history
<1>1. discarded' \in Seq(Nat)
  <2>1. discarded \in Seq(Nat) /\ sent \in Nat BY MaxSentAssumption DEF DeviceTypes
  <2>2. discarded' \in {discarded, Append(discarded, sent)} OBVIOUS
  <2> QED BY <2>1, <2>2
<1>2. DeviceTypes' BY <1>1 DEF DeviceTypes
<1>3. KernelTypes' BY DEF KernelTypes
<1>4. PathInv' BY <1>2, <1>3 DEF Enabled, SetUp, MasksSoFar
<1>5. RequestInv' BY DEF RequestInv
<1> QED BY <1>4, <1>5

LEMMA StepKeeps == IrqInv /\ [Next]_vars => IrqInv'
<1> SUFFICES ASSUME IrqInv, [Next]_vars PROVE IrqInv' OBVIOUS
<1>1. CASE KeyboardSends BY <1>1, KeyboardKeeps
<1>2. CASE \E n \in Lines : OtherDevice(n) BY <1>2, OtherDeviceKeeps
<1>3. CASE Interrupt BY <1>3, InterruptKeeps
<1>4. CASE SpuriousInterrupt BY <1>4, SpuriousKeeps
<1>5. CASE Handler BY <1>5, HandlerReadKeeps, EoiKeeps DEF Handler
<1>6. CASE KiIdtInit BY <1>6, SetUpKeeps, FlushKeeps DEF KiIdtInit
<1>7. CASE UNCHANGED vars
  <2> USE <1>7 DEF vars, kbdc, pic, tables, history
  <2>1. DeviceTypes' BY DEF DeviceTypes, IrqInv, PathInv
  <2>2. KernelTypes' BY DEF KernelTypes, IrqInv, PathInv
  <2>3. PathInv' BY <2>1, <2>2 DEF IrqInv, PathInv, Enabled, SetUp, MasksSoFar
  <2> QED BY <2>3 DEF IrqInv, RequestInv
<1> QED BY <1>1, <1>2, <1>3, <1>4, <1>5, <1>6, <1>7 DEF Next, Idle

(***************************************************************************)
(* The order of KiIdtInit and its masks, with any devices on the lines:    *)
(* only the keyboard's interrupt is taken, and it has a gate; a request    *)
(* means that its byte is there, and the handler reads that byte.          *)
(***************************************************************************)
THEOREM IrqInvariant == Init /\ [][Next]_vars => []IrqInv
<1> QED BY InitKeeps, StepKeeps, PTL

-----------------------------------------------------------------------------
(* Where every byte went, while the flush has not raced with the handler.  *)
Gone == IF full THEN sent - 1 ELSE sent

BytesInv == EachByteOnce /\ (full => sent > 0)

(* A byte sent after all of a sequence extends it in order.                *)
LEMMA AppendBytes ==
  ASSUME NEW s \in Seq(Nat), NEW n \in Nat, Increasing(s), BytesOf(s) \subseteq 1 .. n - 1
  PROVE  Increasing(Append(s, n)) /\ BytesOf(Append(s, n)) = BytesOf(s) \cup {n}
<1> DEFINE t == Append(s, n)
<1>1. /\ Len(t) = Len(s) + 1 /\ t[Len(t)] = n /\ Len(s) \in Nat
      /\ \A k \in 1 .. Len(s) : t[k] = s[k] /\ s[k] \in Nat /\ s[k] < n
  <2>1. /\ Len(t) = Len(s) + 1 /\ Len(s) \in Nat /\ t[Len(s) + 1] = n
        /\ \A k \in 1 .. Len(s) : t[k] = s[k] /\ s[k] \in Nat
    OBVIOUS
  <2> HIDE DEF t
  <2>2. \A k \in 1 .. Len(s) : s[k] \in 1 .. n - 1 BY DEF BytesOf
  <2> QED BY <2>1, <2>2
<1> HIDE DEF t
<1>2. Increasing(t)
  <2>1. ASSUME NEW j \in 1 .. Len(t), NEW k \in 1 .. Len(t), j < k PROVE t[j] < t[k]
    <3>1. PICK m : m = Len(s) OBVIOUS
    <3>2. m \in Nat /\ j \in 1 .. m /\ (k = m + 1 \/ k \in 1 .. m)
      <4>1. m \in Nat /\ Len(t) = m + 1 BY <1>1, <3>1
      <4>2. j \in 1 .. m + 1 /\ k \in 1 .. m + 1 BY <4>1
      <4> QED BY <2>1, <4>1, <4>2
    <3>3. CASE k = m + 1 BY <1>1, <3>1, <3>2, <3>3
    <3>4. CASE k \in 1 .. m
      <4>1. s[j] < s[k] BY <2>1, <3>1, <3>2, <3>4 DEF Increasing
      <4> QED BY <1>1, <3>1, <3>2, <3>4, <4>1
    <3> QED BY <3>2, <3>3, <3>4
  <2> QED BY <2>1 DEF Increasing
<1>3. BytesOf(t) = BytesOf(s) \cup {n}
  <2>1. PICK m : m = Len(s) OBVIOUS
  <2>2. m \in Nat /\ Len(t) = m + 1 /\ t[m + 1] = n BY <1>1, <2>1
  <2>3. 1 .. Len(t) = 1 .. m \cup {m + 1} BY <2>2
  <2>4. \A k \in 1 .. m : t[k] = s[k] BY <1>1, <2>1
  <2>5. BytesOf(t) = {t[k] : k \in 1 .. m} \cup {n} BY <2>2, <2>3 DEF BytesOf
  <2>6. BytesOf(s) = {t[k] : k \in 1 .. m} BY <2>1, <2>4 DEF BytesOf
  <2> QED BY <2>5, <2>6
<1> QED BY <1>2, <1>3 DEF t

LEMMA BytesInit == Init => BytesInv
<1> SUFFICES ASSUME Init PROVE BytesInv OBVIOUS
<1>1. handled = <<>> /\ discarded = <<>> /\ sent = 0 /\ ~full BY DEF Init
<1> QED BY <1>1 DEF BytesInv, EachByteOnce, Increasing, BytesOf

(* The handler and the flush each read the byte that is in the buffer.     *)
LEMMA ReadKeeps ==
  ASSUME IrqInv, BytesInv, ~raced, full, ~full', sent' = sent,
         \/ handled' = Append(handled, sent) /\ discarded' = discarded
         \/ discarded' = Append(discarded, sent) /\ handled' = handled
  PROVE  BytesInv'
<1>1. sent \in Nat /\ sent > 0 /\ handled \in Seq(Nat) /\ discarded \in Seq(Nat)
  BY MaxSentAssumption DEF IrqInv, PathInv, DeviceTypes, BytesInv
<1>2. /\ Increasing(handled) /\ Increasing(discarded)
      /\ BytesOf(handled) \cap BytesOf(discarded) = {}
      /\ BytesOf(handled) \cup BytesOf(discarded) = 1 .. sent - 1
  BY DEF BytesInv, EachByteOnce
<1>3. (1 .. sent - 1) \cup {sent} = 1 .. sent /\ sent \notin 1 .. sent - 1 BY <1>1
<1>4. CASE handled' = Append(handled, sent) /\ discarded' = discarded
  <2>1. Increasing(handled') /\ BytesOf(handled') = BytesOf(handled) \cup {sent}
    BY <1>1, <1>2, <1>4, AppendBytes
  <2> QED BY <1>1, <1>2, <1>3, <1>4, <2>1 DEF BytesInv, EachByteOnce
<1>5. CASE discarded' = Append(discarded, sent) /\ handled' = handled
  <2>1. Increasing(discarded') /\ BytesOf(discarded') = BytesOf(discarded) \cup {sent}
    BY <1>1, <1>2, <1>5, AppendBytes
  <2> QED BY <1>1, <1>2, <1>3, <1>5, <2>1 DEF BytesInv, EachByteOnce
<1> QED BY <1>4, <1>5

(* Everything but a read and a byte from the keyboard leaves them alone.   *)
LEMMA OthersLeaveBytes ==
  ASSUME BytesInv, UNCHANGED <<sent, full, handled, discarded, raced>>
  PROVE  BytesInv'
BY DEF BytesInv, EachByteOnce

LEMMA BytesKeep == IrqInv /\ IrqInv' /\ BytesInv /\ [Next]_vars => BytesInv'
<1> SUFFICES ASSUME IrqInv, IrqInv', BytesInv, [Next]_vars PROVE BytesInv' OBVIOUS
<1> USE DEF kbdc, pic, tables, history
<1>1. CASE KeyboardSends
  <2>1. sent \in Nat /\ sent' = sent + 1 /\ ~full /\ full'
        /\ UNCHANGED <<handled, discarded, raced>>
    BY <1>1, MaxSentAssumption DEF KeyboardSends, IrqInv, PathInv, DeviceTypes
  <2> QED BY <2>1 DEF BytesInv, EachByteOnce
<1>2. CASE HandlerRead
  <2>1. ~full' /\ UNCHANGED <<sent, discarded, raced>> /\ handled' = Append(handled, sent)
    BY <1>2 DEF HandlerRead, ReadData
  <2>2. CASE raced BY <2>1, <2>2 DEF BytesInv, EachByteOnce
  <2>3. CASE ~raced
    <3>1. full BY <1>2, <2>3 DEF HandlerRead, IrqInv, RequestInv
    <3> QED BY <2>1, <2>3, <3>1, ReadKeeps
  <2> QED BY <2>2, <2>3
<1>3. CASE FlushDrain
  <2>1. /\ ~full' /\ UNCHANGED <<sent, handled>>
        /\ discarded' = Append(discarded, sent)
        /\ raced' = (raced \/ 1 \in irr \/ ~full)
    BY <1>3 DEF FlushDrain, ReadData
  <2>2. CASE raced' BY <2>1, <2>2 DEF BytesInv, EachByteOnce
  <2>3. CASE ~raced' BY <2>1, <2>3, ReadKeeps
  <2> QED BY <2>2, <2>3
<1>4. CASE UNCHANGED <<sent, full, handled, discarded, raced>> BY <1>4, OthersLeaveBytes
<1>5. ASSUME NEW n \in Lines, OtherDevice(n)
      PROVE  UNCHANGED <<sent, full, handled, discarded, raced>>
  BY <1>5 DEF OtherDevice
<1>6. Interrupt \/ SpuriousInterrupt \/ KiPicSendEoi \/ HandlerReturn
        => UNCHANGED <<sent, full, handled, discarded, raced>>
  BY DEF Interrupt, SpuriousInterrupt, KiPicSendEoi, HandlerReturn
<1>7. KiIdtInit => FlushDrain \/ UNCHANGED <<sent, full, handled, discarded, raced>>
  BY DEF KiIdtInit, KiInitExceptions, KiPicRemap, KiIdtSetDesc, MaskFirst, MaskSecond,
         KiIrqClearMask, Cli, Lidt, Sti, FlushPoll
<1>8. UNCHANGED vars => UNCHANGED <<sent, full, handled, discarded, raced>> BY DEF vars
<1> QED BY <1>1, <1>2, <1>3, <1>4, <1>5, <1>6, <1>7, <1>8 DEF Next, Idle, Handler

(* No byte is lost, and none comes to KeyboardDriverMain twice or late,    *)
(* before the flush races with the handler for one.                        *)
THEOREM BytesInvariant == Init /\ [][Next]_vars => []BytesInv
<1> QED BY BytesInit, BytesKeep, IrqInvariant, PTL

-----------------------------------------------------------------------------
(* The boot over it.                                                       *)
LEMMA KeyboardIsDevice == Devices => KeyboardSends
BY DEF Devices, KeyEvent, SendsRest, Press, Release, Sends

LEMMA PathIsIrq == InterruptPath => Next
BY DEF InterruptPath, Next, Handler

(* The boot code changes the interrupt path in KiIdtInit only.             *)
LEMMA BootCodeIsIrq == KiStartupInit => [Next]_vars
<1>1. IdtStep => Next BY DEF IdtStep, Next
<1>2. CheckResponses \/ KiGdtInit \/ KiPmmInit \/ TestAlloc \/ TestFree \/ TestSucceeded
        \/ Write => UNCHANGED vars
  BY DEF CheckResponses, KiGdtInit, KiPmmInit, TestAlloc, TestFree, TestSucceeded, Write,
         Only, kbdVars
<1> QED BY <1>1, <1>2 DEF KiStartupInit

LEMMA StepIsIrq == [BootNext]_bootVars => [Next]_vars
<1>1. Echoes => Next BY DEF Echoes, HandlerReads, Next, Handler
<1>2. Path => Next BY PathIsIrq DEF Path
<1>3. Outside => Next BY KeyboardIsDevice DEF Outside, Next
<1>4. UNCHANGED bootVars => UNCHANGED vars BY DEF bootVars, kbdVars
<1> QED BY BootCodeIsIrq, <1>1, <1>2, <1>3, <1>4 DEF BootNext, Hcf

(* Every behaviour of the boot is, for the interrupt path, one of Irq.     *)
THEOREM BootImplementsIrq == BootSpec => Init /\ [][Next]_vars
<1>1. BootInit => Init BY DEF BootInit
<1> QED BY <1>1, StepIsIrq, PTL DEF BootSpec

(* Every interrupt taken during the boot, and in hcf() after it, has a     *)
(* gate, unless the flush has raced for a byte.                            *)
THEOREM InterruptsFindGates == BootSpec => []NoUngatedInterrupt
<1>1. IrqInv => NoUngatedInterrupt BY DEF IrqInv, RequestInv, NoUngatedInterrupt
<1> QED BY BootImplementsIrq, IrqInvariant, <1>1, PTL

(* Every byte comes to KeyboardDriverMain once and in order, or is         *)
(* discarded once, unless the flush has raced for one.                     *)
THEOREM BytesReadOnce == BootSpec => []EachByteOnce
<1>1. BytesInv => EachByteOnce BY DEF BytesInv
<1> QED BY BootImplementsIrq, BytesInvariant, <1>1, PTL

-----------------------------------------------------------------------------
(* The descriptors that KiGdtLoad and the gates name.                      *)
LEMMA CodeDescriptor == CodeSelector(8)
BY DEF CodeSelector, InTable, Limit, Index, DefaultGDT, Initialisers, Entry, IsCode, LongMode,
       Privilege, Present, BitOf

LEMMA DataDescriptor == DataSelector(16)
BY DEF DataSelector, InTable, Limit, Index, DefaultGDT, Initialisers, Entry, IsData,
       Privilege, Present, BitOf
-----------------------------------------------------------------------------
(* The boot code gets to KiIdtInit only with its own descriptors loaded.   *)
BeforeGdt == start \in {"requests", "early hcf", "gdt"}

TablesInv ==
  /\ BeforeGdt => boot = "exceptions"
  /\ ~BeforeGdt => gdt
  /\ ~reset

(* Messages with escape sequences are written before KiIdtInit is far      *)
(* enough to enable interrupts; the next step of the boot code waits for   *)
(* their end.                                                              *)
OutputInv ==
  /\ printing \in {<<>>, <<"close">>, <<"open", "close">>, <<"close", "open", "close">>,
                   Coloured}
  /\ escape => printing \in {<<"close">>, <<"close", "open", "close">>}
  /\ printing # <<>> => boot \in {"remap", "mask"}
  /\ ~garbled

PrintInv == IrqInv /\ TablesInv /\ OutputInv

LEMMA PrintInit == BootInit => PrintInv
<1>1. BootInit => IrqInv BY InitKeeps DEF BootInit
<1>2. BootInit => boot = "exceptions" BY DEF BootInit, Init
<1> QED BY <1>1, <1>2 DEF PrintInv, TablesInv, BeforeGdt, OutputInv, BootInit

(* A step that prints nothing.                                             *)
LEMMA SilentKeeps ==
  ASSUME PrintInv, IrqInv', TablesInv', printing' = <<>>, ~escape, UNCHANGED <<escape, garbled>>
  PROVE  PrintInv'
BY DEF PrintInv, OutputInv

LEMMA StartKeeps ==
  ASSUME PrintInv, IrqInv',
         CheckResponses \/ KiGdtInit \/ KiPmmInit \/ TestAlloc \/ TestFree \/ TestSucceeded
  PROVE  PrintInv'
<1>1. printing = <<>> /\ printing' = <<>> /\ UNCHANGED <<escape, garbled, boot>>
  BY DEF CheckResponses, KiGdtInit, KiPmmInit, TestAlloc, TestFree, TestSucceeded, At, Only,
         Plain, LogPmm, kbdVars, vars
<1>2. ~escape BY <1>1 DEF PrintInv, OutputInv
<1>3. TablesInv'
  <2> USE DEF PrintInv, TablesInv, BeforeGdt, At, Only
  <2>1. CASE CheckResponses BY <1>1, <2>1 DEF CheckResponses
  <2>2. CASE KiGdtInit
    <3>1. GdtLoads(KernelText)
      BY CodeDescriptor, DataDescriptor
         DEF GdtLoads, KernelData, ReturnsFar, FarFrame, KernelCode
    <3> QED BY <1>1, <2>2, <3>1 DEF KiGdtInit
  <2>3. CASE KiPmmInit BY <1>1, <2>3 DEF KiPmmInit
  <2>4. CASE TestAlloc BY <1>1, <2>4 DEF TestAlloc
  <2>5. CASE TestFree BY <1>1, <2>5 DEF TestFree
  <2>6. CASE TestSucceeded BY <1>1, <2>6 DEF TestSucceeded
  <2> QED BY <2>1, <2>2, <2>3, <2>4, <2>5, <2>6
<1> QED BY <1>1, <1>2, <1>3, SilentKeeps

LEMMA IdtStepKeeps == ASSUME PrintInv, IrqInv', IdtStep PROVE PrintInv'
<1>1. /\ start = "idt" /\ start' \in {"idt", "pmm"}
      /\ printing = <<>> /\ printing' = Said(boot)
      /\ UNCHANGED <<gdt, reset, escape, garbled>>
  BY DEF IdtStep, At
<1>2. TablesInv' BY <1>1 DEF PrintInv, TablesInv, BeforeGdt
<1>3. ~escape BY <1>1 DEF PrintInv, OutputInv
<1>4. /\ boot = "exceptions" => boot' = "remap"
      /\ boot = "gate" => boot' = "mask"
  BY DEF IdtStep, KiIdtInit, BootStep, KiInitExceptions, KiPicRemap, KiIdtSetDesc, MaskFirst,
         MaskSecond, KiIrqClearMask, Cli, Lidt, Sti, FlushPoll, FlushDrain
<1>5. CASE boot \in {"exceptions", "gate"}
  <2>1. printing' = Coloured /\ boot' \in {"remap", "mask"} BY <1>1, <1>4, <1>5 DEF Said
  <2> QED BY <1>1, <1>2, <1>3, <2>1 DEF PrintInv, OutputInv
<1>6. CASE boot \notin {"exceptions", "gate"}
  <2>1. printing' = <<>> BY <1>1, <1>6 DEF Said, Plain
  <2> QED BY <1>1, <1>2, <1>3, <2>1, SilentKeeps
<1> QED BY <1>5, <1>6

LEMMA Tails ==
  /\ Tail(<<"close">>) = <<>> /\ Head(<<"close">>) = "close"
  /\ <<"close">> # <<>> /\ <<"close", "open", "close">> # <<>>
<1>1. \A s \in {<<"close">>, <<"close", "open", "close">>} : Len(s) # 0 OBVIOUS
<1>2. Tail(<<"close">>) \in Seq(STRING) /\ Len(Tail(<<"close">>)) = 0 OBVIOUS
<1> QED BY <1>1, <1>2

LEMMA TailOfThree ==
  /\ Tail(<<"close", "open", "close">>) = <<"open", "close">>
  /\ Head(<<"close", "open", "close">>) = "close"
OBVIOUS

LEMMA WriteKeeps == ASSUME PrintInv, IrqInv', Write PROVE PrintInv'
<1>1. /\ printing # <<>> /\ printing' = Tail(printing)
      /\ escape' = (Head(printing) = "open")
      /\ UNCHANGED <<start, gdt, reset, garbled, boot>>
  BY DEF Write, kbdVars, vars
<1>2. TablesInv' BY <1>1 DEF PrintInv, TablesInv, BeforeGdt
<1>3. /\ printing' \in {<<>>, <<"close">>, <<"open", "close">>, <<"close", "open", "close">>}
      /\ escape' => printing' \in {<<"close">>, <<"close", "open", "close">>}
  <2>1. CASE printing = <<"close">> BY <1>1, <2>1, Tails
  <2>2. CASE printing = <<"open", "close">> BY <1>1, <2>2
  <2>3. CASE printing = <<"close", "open", "close">> BY <1>1, <2>3, TailOfThree, Zenon
  <2>4. CASE printing = Coloured BY <1>1, <2>4 DEF Coloured
  <2> QED BY <1>1, <2>1, <2>2, <2>3, <2>4 DEF PrintInv, OutputInv
<1> QED BY <1>1, <1>2, <1>3 DEF PrintInv, OutputInv

(* The handler runs, or is entered, only when nothing is being printed in  *)
(* an escape sequence and the descriptors are loaded.                      *)
LEMMA HandlerIsLate ==
  ASSUME PrintInv, handler # "none" \/ IFlag PROVE printing = <<>> /\ ~escape /\ gdt
<1>1. boot \in {"poll", "drain", "done"} BY DEF PrintInv, IrqInv, PathInv, Enabled
<1>2. printing = <<>> BY <1>1 DEF PrintInv, OutputInv
<1>3. gdt BY <1>1 DEF PrintInv, TablesInv
<1> QED BY <1>2, <1>3, Tails DEF PrintInv, OutputInv

LEMMA EchoesKeep == ASSUME PrintInv, IrqInv', Echoes PROVE PrintInv'
<1>1. handler = "read" /\ UNCHANGED <<boot, start, gdt, reset, printing, escape>>
      /\ garbled' = (garbled \/ (escape /\ echo' # <<>>))
  BY DEF Echoes, HandlerReads, HandlerRead
<1>2. printing = <<>> /\ ~escape BY <1>1, HandlerIsLate
<1>3. ~garbled' BY <1>1, <1>2 DEF PrintInv, OutputInv
<1> QED BY <1>1, <1>3 DEF PrintInv, TablesInv, BeforeGdt, OutputInv

LEMMA PathKeeps == ASSUME PrintInv, IrqInv', Path PROVE PrintInv'
<1>1. UNCHANGED <<start, gdt, printing, escape, garbled>> /\ InterruptPath
      /\ reset' = (Enters /\ ~(gdt /\ CodeSelector(GDT_OFFSET_KERNEL_CODE)))
  BY DEF Path, output
<1>2. boot' = boot
  BY <1>1 DEF InterruptPath, OtherDevice, Interrupt, SpuriousInterrupt, KiPicSendEoi,
              HandlerReturn
<1>3. Enters => IFlag
  BY <1>1 DEF Enters, InterruptPath, OtherDevice, Interrupt, SpuriousInterrupt,
              KiPicSendEoi, HandlerReturn
<1>4. ~reset'
  BY <1>1, <1>3, HandlerIsLate, CodeDescriptor DEF GDT_OFFSET_KERNEL_CODE
<1> QED BY <1>1, <1>2, <1>4 DEF PrintInv, TablesInv, BeforeGdt, OutputInv

LEMMA PrintKeeps == PrintInv /\ [BootNext]_bootVars => PrintInv'
<1> SUFFICES ASSUME PrintInv, [BootNext]_bootVars PROVE PrintInv' OBVIOUS
<1>1. IrqInv' BY StepIsIrq, StepKeeps DEF PrintInv
<1>2. CASE KiStartupInit
  BY <1>1, <1>2, StartKeeps, IdtStepKeeps, WriteKeeps DEF KiStartupInit
<1>3. CASE Echoes BY <1>1, <1>3, EchoesKeep
<1>4. CASE Path BY <1>1, <1>4, PathKeeps
<1>5. CASE Outside
  <2>1. UNCHANGED <<start, gdt, reset, printing, escape, garbled, boot>>
    BY <1>5, KeyboardIsDevice DEF Outside, output, KeyboardSends
  <2> QED BY <1>1, <2>1 DEF PrintInv, TablesInv, BeforeGdt, OutputInv
<1>6. CASE UNCHANGED bootVars
  <2>1. UNCHANGED <<start, gdt, reset, printing, escape, garbled, boot>>
    BY <1>6 DEF bootVars, output, kbdVars, vars
  <2> QED BY <1>1, <2>1 DEF PrintInv, TablesInv, BeforeGdt, OutputInv
<1> QED BY <1>2, <1>3, <1>4, <1>5, <1>6 DEF BootNext, Hcf

(* The boot with what it prints and the tables it has loaded.              *)
THEOREM BootInvariant == BootSpec => []PrintInv
<1> QED BY PrintInit, PrintKeeps, PTL DEF BootSpec

(* No echo of the handler falls into an escape sequence of the boot code.  *)
THEOREM EscapesAreWhole == BootSpec => []EscapeSequencesWhole
<1>1. PrintInv => EscapeSequencesWhole
  BY DEF PrintInv, OutputInv, EscapeSequencesWhole
<1> QED BY BootInvariant, <1>1, PTL

(* Every selector is loaded from a table that has a descriptor fit for it. *)
THEOREM SelectorsAreFit == BootSpec => []NeverResets
<1>1. PrintInv => NeverResets BY DEF PrintInv, TablesInv, NeverResets
<1> QED BY BootInvariant, <1>1, PTL

-----------------------------------------------------------------------------
(* The boot's test of the allocator.  It takes frame 0, if there is one,   *)
(* reads its address as no failure, and gives the same frame back.         *)
TestInv ==
  /\ endKernelAligned_ = 0
  /\ start \in {"requests", "early hcf", "gdt", "idt", "pmm"} => status = "static"
  /\ start \in {"alloc", "free", "succeeded", "hcf"} => status = "ready" /\ total_pages \in Nat
  /\ start \in {"alloc", "succeeded", "hcf"} => bitmap = {} /\ free_pages = total_pages
  /\ start = "free" =>
       /\ ret = 0
       /\ \/ total_pages = 0 /\ bitmap = {} /\ free_pages = total_pages
          \/ total_pages > 0 /\ bitmap = {0} /\ free_pages = total_pages - 1

(* The cardinality of the instance of Pmm is that of FiniteSets.           *)
LEMMA SameCardinality == ASSUME NEW S PROVE P!Cardinality(S) = Cardinality(S)
BY DEF P!Cardinality, Cardinality

LEMMA InitTestKeeps == ASSUME TestInv, KiPmmInit PROVE TestInv'
<1>1. /\ start = "pmm" /\ P!KiPmmInit(Arguments) /\ UNCHANGED endKernelAligned_
      /\ start' = IF status' = "failed" THEN "hcf" ELSE "alloc"
  BY DEF KiPmmInit, At, Only, P!KiPmmInit
<1>2. MemBytes \div PageSize \in Nat BY MemAssumption
<1>3. /\ total_pages' = MemBytes \div PageSize /\ free_pages' = total_pages' /\ bitmap' = {}
      /\ status' = IF BitmapMem < P!BytesFor(total_pages') THEN "failed" ELSE "ready"
  BY <1>1 DEF P!KiPmmInit, Arguments
<1>4. BitmapMem \in Int /\ BitmapMem = P!BytesFor(total_pages')
  BY <1>2, <1>3 DEF BitmapMem, P!BytesFor
<1>5. status' = "ready" BY <1>3, <1>4
<1> QED BY <1>1, <1>2, <1>3, <1>5 DEF TestInv

LEMMA TestAllocKeeps == ASSUME TestInv, TestAlloc PROVE TestInv'
<1>1. /\ start = "alloc" /\ P!KiPmmAlloc /\ start' = IF ret' = -1 THEN "hcf" ELSE "free"
      /\ UNCHANGED <<status, total_pages, endKernelAligned_>>
  BY DEF TestAlloc, At, Only, P!KiPmmAlloc, P!fields
<1>2. /\ status = "ready" /\ total_pages \in Nat /\ bitmap = {} /\ free_pages = total_pages
      /\ endKernelAligned_ = 0
  BY <1>1 DEF TestInv
<1>3. P!FreeFrames = 0 .. total_pages - 1 BY <1>2 DEF P!FreeFrames, P!Frames
<1>4. CASE P!FreeFrames = {}
  <2>1. total_pages = 0 BY <1>2, <1>3, <1>4
  <2>2. ret' = 0 /\ UNCHANGED <<bitmap, free_pages>>
    BY <1>1, <1>4 DEF P!KiPmmAlloc, P!NULL
  <2> QED BY <1>1, <1>2, <2>1, <2>2 DEF TestInv
<1>5. CASE P!FreeFrames # {}
  <2>1. PICK i \in P!FreeFrames :
          P!IsFirstFree(i) /\ P!Mark({i}) /\ ret' = P!FrameAddr(i)
    BY <1>1, <1>5 DEF P!KiPmmAlloc
  <2>2. total_pages > 0 /\ i = 0 BY <1>2, <1>3, <2>1 DEF P!IsFirstFree
  <2>3. Cardinality({0}) = 1 BY FS_Singleton
  <2>4. bitmap' = {0} /\ free_pages' = total_pages - 1
    <3>1. P!Mark({0}) BY <2>1, <2>2
    <3>2. bitmap' = bitmap \cup {0} /\ free_pages' = free_pages - Cardinality({0})
      BY <3>1, SameCardinality DEF P!Mark
    <3> QED BY <1>2, <2>3, <3>2
  <2>5. ret' = 0
    <3>1. 0 * PageSize = 0 BY MemAssumption
    <3> QED BY <1>2, <2>1, <2>2, <3>1 DEF P!FrameAddr
  <2> QED BY <1>1, <1>2, <2>2, <2>4, <2>5 DEF TestInv
<1> QED BY <1>4, <1>5

LEMMA TestFreeKeeps == ASSUME TestInv, TestFree PROVE TestInv'
<1>1. /\ start = "free" /\ P!KiPmmFree(ret) /\ start' = "succeeded"
      /\ UNCHANGED <<status, total_pages, endKernelAligned_>>
  BY DEF TestFree, At, Only, P!KiPmmFree, P!fields
<1>2. /\ status = "ready" /\ total_pages \in Nat /\ ret = 0 /\ endKernelAligned_ = 0
      /\ \/ total_pages = 0 /\ bitmap = {} /\ free_pages = total_pages
         \/ total_pages > 0 /\ bitmap = {0} /\ free_pages = total_pages - 1
  BY <1>1 DEF TestInv
<1>3. /\ bitmap' = bitmap \ P!FrameNamed(0)
      /\ free_pages' = free_pages + Cardinality(P!FrameNamed(0) \cap bitmap)
  <2>1. P!KiPmmFree(0) BY <1>1, <1>2
  <2>2. P!Unmark(P!FrameNamed(0)) BY <2>1 DEF P!KiPmmFree
  <2> QED BY <2>2, SameCardinality DEF P!Unmark
<1>4. CASE total_pages = 0
  <2>1. bitmap' = {} /\ P!FrameNamed(0) \cap bitmap = {} BY <1>2, <1>3, <1>4
  <2>2. Cardinality({}) = 0 BY FS_EmptySet
  <2>3. free_pages' = free_pages BY <1>2, <1>3, <1>4, <2>1, <2>2
  <2> QED BY <1>1, <1>2, <1>4, <2>1, <2>3 DEF TestInv
<1>5. CASE total_pages > 0
  <2>1. (0 - 0) \div PageSize = 0 BY MemAssumption
  <2>2. P!FrameNamed(0) = {0} BY <1>2, <1>5, <2>1 DEF P!FrameNamed, P!Frames
  <2>3. bitmap' = {} /\ P!FrameNamed(0) \cap bitmap = {0} BY <1>2, <1>3, <1>5, <2>2
  <2>4. Cardinality({0}) = 1 BY FS_Singleton
  <2>5. free_pages' = total_pages BY <1>2, <1>3, <1>5, <2>3, <2>4
  <2> QED BY <1>1, <1>2, <2>3, <2>5 DEF TestInv
<1> QED BY <1>2, <1>4, <1>5

LEMMA TestKeeps == TestInv /\ [BootNext]_bootVars => TestInv'
<1> SUFFICES ASSUME TestInv, [BootNext]_bootVars PROVE TestInv' OBVIOUS
<1>1. CASE CheckResponses \/ KiGdtInit \/ IdtStep \/ TestSucceeded
  <2>1. UNCHANGED pmm
    BY <1>1 DEF CheckResponses, KiGdtInit, IdtStep, TestSucceeded
  <2>2. \/ start \in {"requests", "gdt", "idt"} /\ start' \in {"early hcf", "gdt", "idt", "pmm"}
        \/ start = "succeeded" /\ start' = "hcf"
    BY <1>1 DEF CheckResponses, KiGdtInit, IdtStep, TestSucceeded, At, Only
  <2> QED BY <2>1, <2>2 DEF TestInv, pmm
<1>2. CASE Write \/ Echoes \/ Path \/ Outside \/ UNCHANGED bootVars
  <2>1. UNCHANGED <<start, pmm>>
    BY <1>2 DEF Write, Echoes, Path, Outside, bootVars
  <2> QED BY <2>1 DEF TestInv, pmm
<1> QED BY <1>1, <1>2, InitTestKeeps, TestAllocKeeps, TestFreeKeeps
        DEF BootNext, KiStartupInit, Hcf

(* The boot's test of the allocator leaves it as KiPmmInit made it, for    *)
(* every size of memory and of pages: main.c's bitmap is large enough.     *)
THEOREM TestGivesBack == BootSpec => []PmmTestRestores
<1>1. BootInit => TestInv BY DEF BootInit, P!Init, TestInv
<1>2. TestInv => PmmTestRestores BY DEF TestInv, PmmTestRestores
<1> QED BY <1>1, <1>2, TestKeeps, PTL DEF BootSpec

-----------------------------------------------------------------------------
(* The keyboard's key events and the driver's idea of them.                *)

ByteTypes ==
  /\ data \in 0 .. 255 /\ line \in Seq(0 .. 255) /\ held \subseteq Keys
  /\ shift \in BOOLEAN /\ extended \in BOOLEAN /\ overlapped \in BOOLEAN
  /\ settled \in BOOLEAN /\ events \in 0 .. 2

(* A key event does not end with a prefix, so the prefix is forgotten with *)
(* its last byte.                                                          *)
EventsInv ==
  /\ line # <<>> => line[Len(line)] # 224
  /\ line = <<>> => data # 224
  /\ events > 0 => boot = "done"
  /\ settled => events > 0
  /\ (events > 0 /\ ~full /\ line = <<>>) => ~extended

(* Every byte so far has come to the driver, once; or has since the last   *)
(* event of a shift key.                                                   *)
InStep == (discarded = <<>> /\ ~raced) \/ settled

(* Nothing of a shift key is under way: bytes with the codes of one come   *)
(* to a driver that remembers the prefix.                                  *)
NoShiftComing ==
  /\ ShiftFollows
  /\ full /\ data \in ShiftCodes => extended
  /\ line # <<>> /\ line[1] \in ShiftCodes => IF full THEN data = 224 ELSE extended
  /\ \A j \in 2 .. Len(line) : line[j] \in ShiftCodes => line[j - 1] = 224

(* The byte of a shift key waits in the controller.                        *)
ShiftComing ==
  /\ full /\ line = <<>> /\ ~extended
  /\ \/ data \in ShiftMakes /\ held \cap Shifts # {}
     \/ data \in ShiftBreaks /\ (held \cap Shifts # {} => overlapped)

FollowInv ==
  InStep => /\ (~full /\ line = <<>>) => ~extended
            /\ NoShiftComing \/ ShiftComing

KeysInv == ByteTypes /\ EventsInv /\ FollowInv

-----------------------------------------------------------------------------
LEMMA KeysInit == BootInit => KeysInv
<1> SUFFICES ASSUME BootInit PROVE KeysInv OBVIOUS
<1>1. /\ shift = FALSE /\ extended = FALSE /\ data = 0 /\ line = <<>> /\ held = {}
      /\ overlapped = FALSE /\ events = 0 /\ settled = FALSE /\ full = FALSE
  BY DEF BootInit, KeyboardInit, Init
<1>2. ByteTypes
  <2>1. line \in Seq(0 .. 255) BY <1>1
  <2>2. data \in 0 .. 255 /\ events \in 0 .. 2 BY <1>1
  <2> QED BY <1>1, <2>1, <2>2, Zenon DEF ByteTypes
<1>3. EventsInv BY <1>1 DEF EventsInv
<1>4. Len(line) = 0 BY <1>1
<1>5. FollowInv BY <1>1, <1>4 DEF FollowInv, NoShiftComing, ShiftFollows
<1> QED BY <1>2, <1>3, <1>5 DEF KeysInv

(* What a byte does to the prefix and to the shift flag.                   *)
LEMMA ByteRead ==
  ASSUME ByteTypes, K!KeyboardDriverMain(data)
  PROVE  /\ extended' \in BOOLEAN /\ shift' \in BOOLEAN
         /\ extended' <=> data = 224
         /\ extended \/ data \notin ShiftCodes => shift' = shift
         /\ ~extended /\ data \in ShiftMakes => shift'
         /\ ~extended /\ data \in ShiftBreaks => ~shift'
<1> USE DEF K!modifiers, ShiftCodes, ShiftMakes, ShiftBreaks
<1>1. data \in 0 .. 255 /\ shift \in BOOLEAN /\ extended \in BOOLEAN BY DEF ByteTypes
<1>2. CASE K!ExtendedPrefix(data)
  <2>1. data = 224 /\ extended' = TRUE /\ shift' = shift BY <1>2 DEF K!ExtendedPrefix
  <2>2. extended' \in BOOLEAN /\ shift' \in BOOLEAN /\ (extended' <=> data = 224)
    BY <1>1, <2>1
  <2>4. data \notin ShiftMakes /\ data \notin ShiftBreaks BY <2>1
  <2>5. extended \/ data \notin ShiftCodes => shift' = shift BY <2>1
  <2>6. ~extended /\ data \in ShiftMakes => shift' BY <2>4
  <2>7. ~extended /\ data \in ShiftBreaks => ~shift' BY <2>4
  <2> HIDE DEF K!modifiers, ShiftCodes, ShiftMakes, ShiftBreaks
  <2> QED BY <2>2, <2>5, <2>6, <2>7, Zenon
<1>3. CASE K!ExtendedBreak(data) \/ K!ExtendedWhileReading(data) \/ K!ExtendedKey(data)
  <2>1. extended /\ data # 224 /\ extended' = FALSE /\ shift' = shift
    BY <1>1, <1>3 DEF K!ExtendedBreak, K!ExtendedWhileReading, K!ExtendedKey
  <2> QED BY <1>1, <2>1
<1>4. CASE K!Break(data)
  <2>1. /\ ~extended /\ data # 224 /\ data >= 128 /\ extended' = extended
        /\ shift' = (shift /\ ~K!IsShift(data - 128))
    BY <1>4 DEF K!Break
  <2>2. K!IsShift(data - 128) <=> data \in ShiftBreaks BY <1>1 DEF K!IsShift
  <2>3. CASE data \in ShiftBreaks
    <3>1. shift' = FALSE BY <2>1, <2>2, <2>3
    <3> QED BY <1>1, <2>1, <2>3, <3>1
  <2>4. CASE data \notin ShiftBreaks
    <3>1. shift' = shift BY <1>1, <2>1, <2>2, <2>4
    <3> QED BY <1>1, <2>1, <2>4, <3>1
  <2> QED BY <2>3, <2>4
<1>5. CASE K!ShiftMake(data)
  <2>1. ~extended /\ data \in {42, 54} /\ shift' = TRUE /\ extended' = extended
    BY <1>5 DEF K!ShiftMake, K!IsShift
  <2>2. extended' \in BOOLEAN /\ shift' \in BOOLEAN /\ (extended' <=> data = 224)
    BY <1>1, <2>1
  <2>3. data \in ShiftMakes /\ data \in ShiftCodes /\ data \notin ShiftBreaks BY <2>1
  <2> HIDE DEF K!modifiers, ShiftCodes, ShiftMakes, ShiftBreaks
  <2> QED BY <2>1, <2>2, <2>3, Zenon
<1>6. CASE K!CapsLock(data) \/ K!PlainKey(data)
  <2>1. /\ ~extended /\ data < 128 /\ data \notin {42, 54}
        /\ shift' = shift /\ extended' = extended
    BY <1>6 DEF K!CapsLock, K!PlainKey, K!IsShift
  <2> QED BY <1>1, <2>1
<1> QED BY <1>2, <1>3, <1>4, <1>5, <1>6 DEF K!KeyboardDriverMain

LEMMA HandlerReadsKeeps ==
  ASSUME IrqInv, KeysInv, HandlerReads
  PROVE  KeysInv'
<1>1. /\ handler = "read" /\ full' = FALSE /\ UNCHANGED <<boot, discarded, raced>>
      /\ UNCHANGED <<data, line, held, overlapped, events>>
      /\ settled' \in BOOLEAN /\ (settled' <=> settled /\ full)
  BY DEF HandlerReads, HandlerRead, ReadData
<1>2. /\ extended' \in BOOLEAN /\ shift' \in BOOLEAN
      /\ extended' <=> data = 224
      /\ extended \/ data \notin ShiftCodes => shift' = shift
      /\ ~extended /\ data \in ShiftMakes => shift'
      /\ ~extended /\ data \in ShiftBreaks => ~shift'
  BY ByteRead DEF HandlerReads, KeysInv
<1>3. ByteTypes' BY <1>1, <1>2 DEF KeysInv, ByteTypes
<1>4. EventsInv' BY <1>1, <1>2 DEF KeysInv, EventsInv
<1>5. ASSUME InStep' PROVE (~full' /\ line' = <<>> => ~extended') /\ NoShiftComing'
  <2>1. InStep /\ full BY <1>1, <1>5 DEF InStep, IrqInv, RequestInv
  <2>2. line = <<>> => data # 224 BY DEF KeysInv, EventsInv
  <2>3. CASE NoShiftComing
    <3>1. shift' = shift BY <1>2, <2>1, <2>3 DEF NoShiftComing
    <3>2. ShiftFollows' BY <1>1, <2>3, <3>1 DEF NoShiftComing, ShiftFollows
    <3> QED BY <1>1, <1>2, <2>1, <2>2, <2>3, <3>2 DEF NoShiftComing
  <2>4. CASE ShiftComing
    <3>1. line = <<>> /\ Len(line) = 0 BY <2>4 DEF ShiftComing
    <3>2. ShiftFollows'
      BY <1>1, <1>2, <2>4
         DEF ShiftComing, ShiftFollows, ShiftCodes, ShiftMakes, ShiftBreaks
    <3> QED BY <1>1, <1>2, <2>2, <3>1, <3>2 DEF NoShiftComing
  <2> QED BY <2>1, <2>3, <2>4 DEF KeysInv, FollowInv
<1> QED BY <1>3, <1>4, <1>5 DEF KeysInv, FollowInv

(* The keyboard sends its next byte into the empty buffer.                 *)
LEMMA NextByte ==
  ASSUME NEW s \in Seq(0 .. 255), s # <<>>
  PROVE  /\ Head(s) = s[1] /\ s[1] \in 0 .. 255
         /\ Tail(s) \in Seq(0 .. 255) /\ Len(Tail(s)) = Len(s) - 1
         /\ Len(s) \in Nat /\ Len(s) > 0
         /\ Tail(s) = <<>> <=> Len(s) = 1
         /\ \A j \in 1 .. Len(s) - 1 : Tail(s)[j] = s[j + 1]
<1>1. Len(s) \in Nat /\ Len(s) # 0 BY EmptySeq, LenProperties
<1>2. /\ Tail(s) \in Seq(0 .. 255) /\ Len(Tail(s)) = Len(s) - 1
      /\ \A j \in 1 .. Len(Tail(s)) : Tail(s)[j] = s[j + 1]
  BY HeadTailProperties
<1>3. Head(s) = s[1] /\ s[1] \in 0 .. 255
  <2>1. Head(s) = s[1] OBVIOUS
  <2>2. \A j \in 1 .. Len(s) : s[j] \in 0 .. 255 BY ElementOfSeq
  <2> QED BY <1>1, <2>1, <2>2
<1>4. Tail(s) = <<>> <=> Len(Tail(s)) = 0 BY <1>2, EmptySeq
<1> QED BY <1>1, <1>2, <1>3, <1>4

LEMMA SendsRestKeeps ==
  ASSUME IrqInv, KeysInv, SendsRest
  PROVE  KeysInv'
<1>1. /\ line # <<>> /\ ~full /\ full' = TRUE /\ data' = Head(line) /\ line' = Tail(line)
      /\ UNCHANGED <<boot, discarded, raced, shift, extended, held, overlapped, events,
                     settled>>
  BY DEF SendsRest, Sends, KeyboardSends, driver, history
<1>2. line \in Seq(0 .. 255) BY DEF KeysInv, ByteTypes
<1>3. /\ data' = line[1] /\ data' \in 0 .. 255
      /\ line' \in Seq(0 .. 255) /\ Len(line') = Len(line) - 1
      /\ Len(line) \in Nat /\ Len(line) > 0
      /\ line' = <<>> <=> Len(line) = 1
      /\ \A j \in 1 .. Len(line) - 1 : line'[j] = line[j + 1]
  BY <1>1, <1>2, NextByte
<1>4. ByteTypes' BY <1>1, <1>3 DEF KeysInv, ByteTypes
<1>5. EventsInv'
  <2>1. line[Len(line)] # 224 BY <1>1 DEF KeysInv, EventsInv
  <2>2. line' # <<>> => line'[Len(line')] = line[Len(line)] BY <1>3
  <2> QED BY <1>1, <1>3, <2>1, <2>2 DEF KeysInv, EventsInv
<1>6. ASSUME InStep PROVE NoShiftComing'
  <2>1. NoShiftComing BY <1>1, <1>6 DEF KeysInv, FollowInv, ShiftComing
  <2>2. ShiftFollows' BY <1>1, <2>1 DEF NoShiftComing, ShiftFollows
  <2>3. data' \in ShiftCodes => extended' BY <1>1, <1>3, <2>1 DEF NoShiftComing
  <2>4. line' # <<>> /\ line'[1] \in ShiftCodes => data' = 224
    BY <1>1, <1>3, <2>1 DEF NoShiftComing
  <2>5. ASSUME NEW j \in 2 .. Len(line'), line'[j] \in ShiftCodes PROVE line'[j - 1] = 224
    <3>1. j \in 1 .. Len(line) - 1 /\ j - 1 \in 1 .. Len(line) - 1 /\ j + 1 \in 2 .. Len(line)
      BY <1>3
    <3>2. line'[j] = line[j + 1] /\ line'[j - 1] = line[j - 1 + 1] BY <1>3, <3>1
    <3>3. j - 1 + 1 = j /\ j + 1 - 1 = j OBVIOUS
    <3> QED BY <2>1, <2>5, <3>1, <3>2, <3>3 DEF NoShiftComing
  <2> QED BY <1>1, <2>2, <2>3, <2>4, <2>5 DEF NoShiftComing
<1>7. InStep' <=> InStep BY <1>1 DEF InStep
<1> QED BY <1>1, <1>4, <1>5, <1>6, <1>7 DEF KeysInv, FollowInv

-----------------------------------------------------------------------------
(* A key is pressed or released: its bytes are sent, the first at once.    *)
LEMMA KeyEventKeeps ==
  ASSUME IrqInv, KeysInv, KeyEvent
  PROVE  KeysInv'
<1>1. PICK k \in Keys :
        /\ Press(k) \/ Release(k)
        /\ settled' = IF k \in Shifts THEN boot = "done" /\ events > 0 ELSE settled
  BY DEF KeyEvent
<1>2. PICK s \in {k.make, k.break} : /\ Sends(s)
                                     /\ \/ Press(k) /\ s = k.make
                                        \/ Release(k) /\ s = k.break
  BY <1>1 DEF Press, Release
<1>3. s \in Seq(0 .. 255) /\ s # <<>> /\ Shifts \subseteq Keys BY KeysAssumption
<1>4. /\ line = <<>> /\ ~full /\ full' = TRUE /\ data' = Head(s) /\ line' = Tail(s)
      /\ UNCHANGED <<boot, discarded, raced, shift, extended>>
      /\ events' = IF boot = "done" /\ events < 2 THEN events + 1 ELSE events
  BY <1>2 DEF KeyEvent, Sends, KeyboardSends, driver, history
<1>5. /\ data' = s[1] /\ data' \in 0 .. 255
      /\ line' \in Seq(0 .. 255) /\ Len(line') = Len(s) - 1
      /\ Len(s) \in Nat /\ Len(s) > 0
      /\ line' = <<>> <=> Len(s) = 1
      /\ \A j \in 1 .. Len(s) - 1 : line'[j] = s[j + 1]
  <2>1. PICK h, t : h = Head(s) /\ t = Tail(s) OBVIOUS
  <2>2. /\ h = s[1] /\ h \in 0 .. 255
        /\ t \in Seq(0 .. 255) /\ Len(t) = Len(s) - 1
        /\ Len(s) \in Nat /\ Len(s) > 0
        /\ t = <<>> <=> Len(s) = 1
        /\ \A j \in 1 .. Len(s) - 1 : t[j] = s[j + 1]
    BY <1>3, <2>1, NextByte
  <2>3. data' = h /\ line' = t BY <1>4, <2>1
  <2> QED BY <2>2, <2>3
<1>6. held' \subseteq Keys /\ overlapped' \in BOOLEAN /\ settled' \in BOOLEAN
      /\ events' \in 0 .. 2
  <2>1. held' \subseteq Keys BY <1>2 DEF Press, Release, KeysInv, ByteTypes
  <2>2. overlapped' \in BOOLEAN BY <1>2 DEF Press, Release, KeysInv, ByteTypes
  <2>3. settled' \in BOOLEAN BY <1>1 DEF KeysInv, ByteTypes
  <2>4. events' \in 0 .. 2 BY <1>4 DEF KeysInv, ByteTypes
  <2> QED BY <2>1, <2>2, <2>3, <2>4
<1>7. ByteTypes' BY <1>4, <1>5, <1>6 DEF KeysInv, ByteTypes
<1>8. /\ k \in Shifts /\ s = k.make => \E b \in ShiftMakes : s = <<b>>
      /\ k \in Shifts /\ s = k.break => \E b \in ShiftBreaks : s = <<b>>
      /\ k \notin Shifts => /\ s[Len(s)] # 224
                            /\ \A j \in 1 .. Len(s) : s[j] \in ShiftCodes
                                                        => j > 1 /\ s[j - 1] = 224
  BY ShiftsAssumption
<1>9. s[Len(s)] # 224
  <2>1. ASSUME NEW b \in ShiftCodes, s = <<b>> PROVE s[Len(s)] # 224
    BY <2>1 DEF ShiftCodes, ShiftMakes, ShiftBreaks
  <2> QED BY <1>2, <1>8, <2>1 DEF ShiftCodes
<1>10. EventsInv'
  <2>1. line' # <<>> => line'[Len(line')] = s[Len(s)] BY <1>5
  <2>2. line' = <<>> => data' = s[Len(s)] BY <1>5
  <2>3. (events' > 0 => boot' = "done") /\ (settled' => events' > 0)
    BY <1>1, <1>4 DEF KeysInv, EventsInv, ByteTypes
  <2> QED BY <1>4, <1>9, <2>1, <2>2, <2>3 DEF EventsInv
<1>11. CASE k \in Shifts
  <2>1. ASSUME InStep' PROVE ShiftComing'
    <3>1. ~extended BY <1>1, <1>4, <1>11, <2>1 DEF InStep, KeysInv, EventsInv, FollowInv
    <3>2. CASE s = k.make /\ Press(k)
      <4>1. PICK b \in ShiftMakes : s = <<b>> BY <1>8, <1>11, <3>2
      <4>2. line' = <<>> /\ data' \in ShiftMakes BY <1>5, <4>1
      <4>3. k \in held' \cap Shifts BY <1>11, <3>2 DEF Press
      <4> QED BY <1>4, <3>1, <4>2, <4>3 DEF ShiftComing
    <3>3. CASE s = k.break /\ Release(k)
      <4>1. PICK b \in ShiftBreaks : s = <<b>> BY <1>8, <1>11, <3>3
      <4>2. line' = <<>> /\ data' \in ShiftBreaks BY <1>5, <4>1
      <4>3. held' \cap Shifts # {} => overlapped' BY <1>11, <3>3 DEF Release
      <4> QED BY <1>4, <3>1, <4>2, <4>3 DEF ShiftComing
    <3> QED BY <1>2, <3>2, <3>3
  <2> QED BY <1>4, <1>7, <1>10, <2>1 DEF KeysInv, FollowInv
<1>12. CASE k \notin Shifts
  <2>1. ASSUME InStep' PROVE NoShiftComing'
    <3>1. InStep BY <1>1, <1>4, <1>12, <2>1 DEF InStep
    <3>2. NoShiftComing BY <1>4, <3>1 DEF KeysInv, FollowInv, ShiftComing
    <3>3. held' \cap Shifts = held \cap Shifts /\ overlapped' = overlapped
      BY <1>2, <1>12 DEF Press, Release, KeysInv, ByteTypes
    <3>4. ShiftFollows' BY <1>4, <3>2, <3>3 DEF NoShiftComing, ShiftFollows
    <3>5. data' \notin ShiftCodes BY <1>5, <1>8, <1>12
    <3>6. line' # <<>> /\ line'[1] \in ShiftCodes => data' = 224
      <4>1. line' # <<>> => 2 \in 1 .. Len(s) /\ line'[1] = s[2] BY <1>5
      <4> QED BY <1>5, <1>8, <1>12, <4>1
    <3>7. ASSUME NEW j \in 2 .. Len(line'), line'[j] \in ShiftCodes
          PROVE  line'[j - 1] = 224
      <4>1. j \in 1 .. Len(s) - 1 /\ j - 1 \in 1 .. Len(s) - 1 /\ j + 1 \in 1 .. Len(s)
        BY <1>5
      <4>2. line'[j] = s[j + 1] /\ line'[j - 1] = s[j - 1 + 1] BY <1>5, <4>1
      <4>3. j - 1 + 1 = j /\ j + 1 - 1 = j OBVIOUS
      <4> QED BY <1>8, <1>12, <3>7, <4>1, <4>2, <4>3
    <3> QED BY <1>4, <3>4, <3>5, <3>6, <3>7 DEF NoShiftComing
  <2> QED BY <1>4, <1>7, <1>10, <2>1 DEF KeysInv, FollowInv
<1> QED BY <1>11, <1>12

-----------------------------------------------------------------------------
keysSeen == <<full, data, line, held, overlapped, events, settled, shift, extended,
              discarded, raced>>

(* KiIdtInit leaves the keyboard and the driver alone; what its flush      *)
(* reads, the driver has not seen.                                         *)
LEMMA IdtStepKeepsKeys ==
  ASSUME IrqInv, KeysInv, IdtStep
  PROVE  KeysInv'
<1>1. /\ KiIdtInit /\ boot # "done"
      /\ UNCHANGED <<data, line, held, overlapped, events, settled, shift, extended>>
  BY DEF IdtStep, driver, keyboard, KiIdtInit, BootStep, KiInitExceptions, KiPicRemap,
         KiIdtSetDesc, MaskFirst, MaskSecond, KiIrqClearMask, Cli, Lidt, Sti, FlushPoll,
         FlushDrain
<1>2. events = 0 /\ ~settled BY <1>1 DEF KeysInv, EventsInv, ByteTypes
<1>3. ByteTypes' BY <1>1 DEF KeysInv, ByteTypes
<1>4. EventsInv' BY <1>1, <1>2 DEF KeysInv, EventsInv
<1>5. CASE FlushDrain
  <2>1. discarded \in Seq(Nat) /\ sent \in Nat
    BY MaxSentAssumption DEF IrqInv, PathInv, DeviceTypes
  <2>2. Len(discarded') # 0 BY <1>5, <2>1 DEF FlushDrain
  <2>3. ~InStep' BY <1>1, <1>2, <2>2 DEF InStep
  <2> QED BY <1>3, <1>4, <2>3 DEF KeysInv, FollowInv
<1>6. CASE ~FlushDrain
  <2>1. UNCHANGED keysSeen
    BY <1>1, <1>6 DEF keysSeen, KiIdtInit, kbdc, history, KiInitExceptions, KiPicRemap,
         KiIdtSetDesc, MaskFirst, MaskSecond, KiIrqClearMask, Cli, Lidt, Sti, FlushPoll
  <2>2. FollowInv'
    BY <2>1 DEF keysSeen, KeysInv, FollowInv, InStep, NoShiftComing, ShiftComing, ShiftFollows
  <2> QED BY <1>3, <1>4, <2>2 DEF KeysInv
<1> QED BY <1>5, <1>6

LEMMA OthersKeepKeys ==
  ASSUME KeysInv, UNCHANGED keysSeen, UNCHANGED boot
  PROVE  KeysInv'
BY DEF keysSeen, KeysInv, ByteTypes, EventsInv, FollowInv, InStep, NoShiftComing,
       ShiftComing, ShiftFollows

LEMMA KeysKeep == IrqInv /\ KeysInv /\ [BootNext]_bootVars => KeysInv'
<1> SUFFICES ASSUME IrqInv, KeysInv, [BootNext]_bootVars PROVE KeysInv' OBVIOUS
<1>1. CASE IdtStep BY <1>1, IdtStepKeepsKeys
<1>2. CASE Echoes BY <1>2, HandlerReadsKeeps DEF Echoes
<1>3. CASE Outside BY <1>3, KeyEventKeeps, SendsRestKeeps DEF Outside, Devices
<1>4. CASE Path
  <2>1. InterruptPath /\ UNCHANGED <<driver, keyboard>> BY <1>4 DEF Path, InterruptPath
  <2>2. UNCHANGED <<full, discarded, raced, boot>>
    BY <2>1 DEF InterruptPath, OtherDevice, Interrupt, SpuriousInterrupt, KiPicSendEoi,
                HandlerReturn, kbdc, history
  <2> QED BY <2>1, <2>2, OthersKeepKeys DEF keysSeen, driver, keyboard
<1>5. CASE \/ CheckResponses \/ KiGdtInit \/ KiPmmInit \/ TestAlloc \/ TestFree
           \/ TestSucceeded \/ Write \/ UNCHANGED bootVars
  <2>1. UNCHANGED kbdVars
    BY <1>5 DEF CheckResponses, KiGdtInit, KiPmmInit, TestAlloc, TestFree, TestSucceeded,
                Write, Only, bootVars
  <2> QED BY <2>1, OthersKeepKeys
          DEF keysSeen, kbdVars, vars, kbdc, history, driver, keyboard
<1> QED BY <1>1, <1>2, <1>3, <1>4, <1>5 DEF BootNext, KiStartupInit, Hcf

(* The driver's state for every set of keys, sequence of key events and    *)
(* interleaving with the boot.                                             *)
THEOREM KeysInvariant == BootSpec => [](IrqInv /\ KeysInv)
<1>1. BootInit => IrqInv BY InitKeeps DEF BootInit
<1>2. IrqInv /\ [BootNext]_bootVars => IrqInv' BY StepIsIrq, StepKeeps
<1> QED BY <1>1, <1>2, KeysInit, KeysKeep, PTL DEF BootSpec

(* The driver's modifiers are those of the keyboard whenever all is quiet, *)
(* if the flush has discarded nothing and not raced, for all keys that     *)
(* send codes of set 1.                                                    *)
THEOREM ModifiersAreRight == BootSpec => []ModifiersFollowKeys
<1>1. KeysInv => ModifiersFollowKeys
  BY DEF KeysInv, FollowInv, InStep, NoShiftComing, ShiftComing, ModifiersFollowKeys, Quiet
<1> QED BY KeysInvariant, <1>1, PTL

(* Whatever the flush discards and however it races, the prefix is         *)
(* forgotten after a key event and the shift flag right after the next     *)
(* event of a shift key.                                                   *)
THEOREM DriverFindsBack == BootSpec => []DriverResynchronises
<1>1. KeysInv => DriverResynchronises
  BY DEF KeysInv, EventsInv, FollowInv, InStep, NoShiftComing, ShiftComing,
         DriverResynchronises, Quiet
<1> QED BY KeysInvariant, <1>1, PTL

-----------------------------------------------------------------------------
(* Types of what Boot adds to Irq and the keyboard.                        *)
StartTypes ==
  /\ start \in {"requests", "early hcf", "gdt", "idt", "pmm", "alloc", "free",
                "succeeded", "hcf"}
  /\ gdt \in BOOLEAN /\ reset \in BOOLEAN /\ escape \in BOOLEAN /\ garbled \in BOOLEAN

LEMMA StartTyped == StartTypes /\ [BootNext]_bootVars => StartTypes'
<1> SUFFICES ASSUME StartTypes, [BootNext]_bootVars PROVE StartTypes' OBVIOUS
<1> USE DEF StartTypes
<1>1. CASE CheckResponses \/ KiPmmInit \/ TestAlloc \/ TestFree \/ TestSucceeded
  <2>1. /\ UNCHANGED <<gdt, reset, escape, garbled>>
        /\ start' \in {"gdt", "early hcf", "hcf", "alloc", "free", "succeeded"}
    BY <1>1 DEF CheckResponses, KiPmmInit, TestAlloc, TestFree, TestSucceeded, Only
  <2> QED BY <2>1
<1>2. CASE KiGdtInit
  <2>1. start' = "idt" /\ gdt' = TRUE /\ UNCHANGED <<escape, garbled>>
    BY <1>2 DEF KiGdtInit, Only
  <2>2. reset' \in BOOLEAN BY <1>2 DEF KiGdtInit
  <2> QED BY <2>1, <2>2
<1>3. CASE IdtStep
  <2>1. start' \in {"idt", "pmm"} /\ UNCHANGED <<gdt, reset, escape, garbled>>
    BY <1>3 DEF IdtStep
  <2> QED BY <2>1
<1>4. CASE Write
  <2>1. UNCHANGED <<start, gdt, reset, garbled>> /\ escape' \in BOOLEAN
    BY <1>4 DEF Write
  <2> QED BY <2>1
<1>5. CASE Echoes
  <2>1. UNCHANGED <<start, gdt, reset, escape>> /\ garbled' \in BOOLEAN
    BY <1>5 DEF Echoes
  <2> QED BY <2>1
<1>6. CASE Path
  <2>1. UNCHANGED <<start, gdt, escape, garbled>> /\ reset' \in BOOLEAN
    BY <1>6 DEF Path, output
  <2> QED BY <2>1
<1>7. CASE Outside \/ UNCHANGED bootVars
  <2>1. UNCHANGED <<start, gdt, reset, escape, garbled>>
    BY <1>7 DEF Outside, bootVars, output
  <2> QED BY <2>1
<1> QED BY <1>1, <1>2, <1>3, <1>4, <1>5, <1>6, <1>7 DEF BootNext, KiStartupInit, Hcf

LEMMA ArgumentsTyped == Arguments \in P!BootArg
<1>1. MemBytes \div PageSize \in Nat BY MemAssumption
<1>2. BitmapMem \in Nat BY <1>1 DEF BitmapMem
<1>3. MemBytes \in Nat /\ EndKernelAligned \in Nat BY MemAssumption DEF EndKernelAligned
<1> QED BY <1>2, <1>3 DEF Arguments, P!BootArg

LEMMA PmmTyped == TestInv /\ P!TypeOK /\ [BootNext]_bootVars => P!TypeOK'
<1> SUFFICES ASSUME TestInv, P!TypeOK, [BootNext]_bootVars PROVE P!TypeOK' OBVIOUS
<1>1. CASE KiPmmInit
  <2>1. /\ status' \in {"ready", "failed"} /\ bitmap' = {}
        /\ total_pages' = MemBytes \div PageSize /\ free_pages' = total_pages'
        /\ bitmap_size_bytes' = P!BytesFor(total_pages') /\ given' = Arguments
        /\ ret' = P!Void /\ UNCHANGED endKernelAligned_
    BY <1>1 DEF KiPmmInit, P!KiPmmInit, Arguments
  <2>2. MemBytes \div PageSize \in Nat BY MemAssumption
  <2>3. P!BytesFor(total_pages') \in Nat BY <2>1, <2>2 DEF P!BytesFor
  <2> QED BY <2>1, <2>2, <2>3, ArgumentsTyped DEF P!TypeOK
<1>2. CASE TestAlloc \/ TestFree
  <2>1. /\ start \in {"alloc", "free"} /\ start' \in {"hcf", "free", "succeeded"}
        /\ UNCHANGED <<status, bitmap_size_bytes, total_pages, endKernelAligned_, given>>
    BY <1>2 DEF TestAlloc, TestFree, At, Only, P!KiPmmAlloc, P!KiPmmFree, P!fields
  <2>2. TestInv' BY <1>2, TestAllocKeeps, TestFreeKeeps
  <2>3. bitmap' \subseteq P!Frames' /\ free_pages' \in Int
    <3>1. total_pages' \in Nat
          /\ \/ bitmap' = {} /\ free_pages' = total_pages'
             \/ total_pages' > 0 /\ bitmap' = {0} /\ free_pages' = total_pages' - 1
      BY <2>1, <2>2 DEF TestInv
    <3> QED BY <3>1 DEF P!Frames
  <2>4. ret' \in Nat \cup {P!Void}
    <3>1. CASE TestAlloc
      <4>1. start' = "free" \/ ret' = -1 BY <3>1 DEF TestAlloc, Only
      <4>2. ret' = 0 \/ ret' = -1 BY <2>2, <4>1 DEF TestInv
      <4> QED BY <4>2 DEF P!Void
    <3>2. CASE TestFree BY <3>2 DEF TestFree, P!KiPmmFree
    <3> QED BY <1>2, <3>1, <3>2
  <2> QED BY <2>1, <2>3, <2>4 DEF P!TypeOK
<1>3. CASE UNCHANGED pmm BY <1>3 DEF pmm, P!TypeOK, P!Frames
<1> QED
  <2>1. ASSUME CheckResponses \/ KiGdtInit \/ IdtStep \/ TestSucceeded \/ Write
               \/ Echoes \/ Path \/ Outside \/ UNCHANGED bootVars
        PROVE  UNCHANGED pmm
    BY <2>1 DEF CheckResponses, KiGdtInit, IdtStep, TestSucceeded, Write, Echoes, Path,
                Outside, bootVars
  <2> QED BY <1>1, <1>2, <1>3, <2>1 DEF BootNext, KiStartupInit, Hcf

(* Every variable of the boot keeps to its values, for every keyboard and  *)
(* every size of memory.                                                   *)
THEOREM BootTyped == BootSpec => []BootTypeOK
<1>1. BootInit => StartTypes BY DEF BootInit, StartTypes
<1>2. BootInit => TestInv BY DEF BootInit, P!Init, TestInv
<1>3. BootInit => P!TypeOK
  <2> SUFFICES ASSUME BootInit PROVE P!TypeOK OBVIOUS
  <2>1. P!Init BY DEF BootInit
  <2>2. given \in P!BootArg BY <2>1 DEF P!Init, P!BootArg
  <2> QED BY <2>1, <2>2 DEF P!Init, P!TypeOK, P!Frames
<1>4. IrqInv => TypeOK
  BY DEF IrqInv, PathInv, DeviceTypes, KernelTypes, TypeOK
<1>5. OutputInv => printing \in Seq({"open", "close"})
  <2> DEFINE S == {"open", "close"}
  <2>1. <<>> \in Seq(S) /\ <<"close">> \in Seq(S) OBVIOUS
  <2>2. <<"open", "close">> \in Seq(S) /\ <<"close", "open", "close">> \in Seq(S) OBVIOUS
  <2>3. <<"open", "close", "open", "close">> \in Seq(S) OBVIOUS
  <2> HIDE DEF S
  <2>4. OutputInv => printing \in Seq(S) BY <2>1, <2>2, <2>3 DEF OutputInv, Coloured
  <2> QED BY <2>4 DEF S
<1>6. StartTypes /\ P!TypeOK /\ PrintInv /\ KeysInv => BootTypeOK
  BY <1>4, <1>5, Zenon DEF StartTypes, PrintInv, KeysInv, ByteTypes, BootTypeOK
<1>7. BootSpec => []StartTypes BY <1>1, StartTyped, PTL DEF BootSpec
<1>8. BootSpec => [](TestInv /\ P!TypeOK)
  BY <1>2, <1>3, TestKeeps, PmmTyped, PTL DEF BootSpec
<1> QED BY <1>6, <1>7, <1>8, BootInvariant, KeysInvariant, PTL
=============================================================================
