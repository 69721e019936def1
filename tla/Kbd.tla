-------------------------------- MODULE Kbd --------------------------------
(***************************************************************************)
(* The PS/2 keyboard driver of kernel/src/Drivers/PS2Keyboard/driver.c:    *)
(* the interrupt side (KeyboardDriverMain and the pushes it makes into the *)
(* ring) and the reading side (KiReadHidC, KiReadHidSN, KiReadHidS).       *)
(*                                                                         *)
(* KeyboardDriverMain runs behind an interrupt gate on the only CPU, so it *)
(* is one step; it may run between any two accesses the reader makes to    *)
(* the shared variables, so each of those is a step of its own.  The       *)
(* reader's accesses are the volatile loads and stores of the source; the  *)
(* load of the character is not volatile and may come before or after the  *)
(* second load of the tail; in the builds modelled, gcc -O0 and -O2, it    *)
(* comes before the store of the tail.                                     *)
(*                                                                         *)
(* Of the three layouts of 128 entries the model keeps one letter, one     *)
(* digit, Enter and Backspace; every other key below 0x80 is one of those  *)
(* whose entry is 0.                                                       *)
(***************************************************************************)
EXTENDS Integers, Sequences

CONSTANTS
  KBD_BUF_SIZE,
  Scancodes,   \* bytes the keyboard may send
  MaxLens,     \* values of maxlen KiReadHidSN is called with
  Builds,      \* of the builds: TRUE keeps the store `buffering_read = true`,
               \* dead for a compiler that knows no interrupts, FALSE, as
               \* gcc -O2 makes it, drops it
  NoChar

ASSUME SizeAssumption      == KBD_BUF_SIZE \in Nat /\ KBD_BUF_SIZE >= 2
ASSUME ScancodesAssumption == Scancodes \subseteq 0 .. 255
ASSUME MaxLensAssumption   == MaxLens \subseteq Nat \ {0}
ASSUME BuildsAssumption    == Builds \subseteq BOOLEAN

VARIABLES
  kbd_drvr_buf, kbd_buf_head, kbd_buf_tail,
  buffering_read,
  autoflush,                     \* __global_keyboard_autoflush
  shift, caps, extended,
  echo,                          \* what the last interrupt printed
  pc,                            \* the reader's next access
  rHead, rIndex, rChar, rTail,   \* the reader's registers; NoChar, NoIndex
                                 \* when not loaded or no longer used
  maxlen, read,                  \* of KiReadHidSN; maxlen = 0: KiReadHidC alone
  taken,                         \* history: the character read last
  storeKept,                     \* the build that runs, in Builds
  torn                           \* history: an overflow hit a reader between
                                 \* its first load of the tail and its store

ring      == <<kbd_drvr_buf, kbd_buf_head, kbd_buf_tail>>
modifiers == <<shift, caps>>
handler   == <<autoflush, shift, caps, extended, echo>>
registers == <<rHead, rIndex, rChar, rTail>>
reader    == <<pc, registers, maxlen, read, taken>>
vars      == <<ring, buffering_read, handler, reader, storeKept, torn>>

Indices == 0 .. (KBD_BUF_SIZE - 1)
NoIndex == -1

-----------------------------------------------------------------------------
(* The layouts.                                                            *)

Letter    == 30
Digit     == 2
Backspace == 14
Enter     == 28

Chars == {"NUL", "BS", "NL", "ESC", "[", "a", "1", "A", "!", "B", "C", "D"}

ASSUME NoCharAssumption == NoChar \notin Chars

Layout(letter, digit) ==
  [sc \in 0 .. 127 |-> CASE sc = Letter    -> letter
                         [] sc = Digit     -> digit
                         [] sc = Backspace -> "BS"
                         [] sc = Enter     -> "NL"
                         [] OTHER          -> "NUL"]

USLayoutNrml == Layout("a", "1")
USLayoutCaps == Layout("A", "1")
USLayoutShft == Layout("A", "!")

CharOf(sc) ==
  IF shift THEN USLayoutShft[sc]
  ELSE IF caps /\ sc = Letter THEN USLayoutCaps[sc]
  ELSE USLayoutNrml[sc]

(* The last byte of the escape sequence of the four arrow keys.            *)
Arrows == {72, 80, 75, 77}
ArrowSequence(sc) ==
  <<"ESC", "[", CASE sc = 72 -> "A" [] sc = 80 -> "B"
                  [] sc = 75 -> "D" [] sc = 77 -> "C">>

-----------------------------------------------------------------------------
(* Pushing into the ring.                                                  *)

WrappedLate(i) == i % (KBD_BUF_SIZE + 1)   \* mutant of Wrapped
Wrapped(i) == i % KBD_BUF_SIZE

Ring == [buf |-> kbd_drvr_buf, head |-> kbd_buf_head, tail |-> kbd_buf_tail,
         overflow |-> FALSE]

OverflowKbdBfr ==
  [buf |-> [i \in Indices |-> "NUL"], head |-> 0, tail |-> 0, overflow |-> TRUE]

Stored(r, c) ==
  [buf |-> [r.buf EXCEPT ![r.head] = c], head |-> Wrapped(r.head + 1),
   tail |-> r.tail, overflow |-> r.overflow]

(* Mutants of KbdPushback: the character that overflows is dropped, and no *)
(* test for a full ring.                                                   *)
KbdPushbackOnce(r, c) ==
  IF Wrapped(r.head + 1) # r.tail THEN Stored(r, c) ELSE OverflowKbdBfr

KbdPushbackUntested(r, c) == Stored(r, c)

(* KbdPushback and KbdNAFPushback: they call themselves after an overflow, *)
(* and then find room.                                                     *)
KbdPushback(r, c) ==
  IF Wrapped(r.head + 1) # r.tail THEN Stored(r, c) ELSE Stored(OverflowKbdBfr, c)

(* The ring after the pushes of one interrupt, which makes up to three.    *)
PushAll(r, cs) ==
  LET one == KbdPushback(r, cs[1])
      two == KbdPushback(one, cs[2])
  IN  CASE Len(cs) = 1 -> one
        [] Len(cs) = 2 -> two
        [] Len(cs) = 3 -> KbdPushback(two, cs[3])

(* Between these two points of KiReadHidC the tail is in its registers.    *)
HoldsTail == pc \in {"access", "store"}

(* The pushes of one interrupt, the echo left to the caller.               *)
Push(cs) ==
  LET r == PushAll(Ring, cs)
  IN  /\ kbd_drvr_buf' = r.buf
      /\ kbd_buf_head' = r.head
      /\ kbd_buf_tail' = r.tail
      /\ torn' = (torn \/ (r.overflow /\ HoldsTail))

(* The characters KbdFlushCheck pushes for a character.                    *)
Flushed(c) == IF c = "BS" THEN <<"NUL", c>> ELSE <<c>>

(* KbdFlushCheck: with autoflush enabled the pushes echo.                  *)
KbdFlushCheck(c) ==
  /\ Push(Flushed(c))
  /\ echo' = IF autoflush = 0 THEN Flushed(c) ELSE <<>>

-----------------------------------------------------------------------------
(* KeyboardDriverMain, one action per path through it.                     *)

NothingPushed == UNCHANGED <<ring, torn>> /\ echo' = <<>>

(* Mutants: the prefix is not remembered, and not forgotten at a release.  *)
ExtendedPrefixForgotten(sc) ==
  /\ sc = 224
  /\ NothingPushed
  /\ UNCHANGED <<autoflush, modifiers, extended>>

ExtendedBreakKept(sc) ==
  /\ extended /\ sc >= 128 /\ sc # 224
  /\ NothingPushed
  /\ UNCHANGED <<autoflush, modifiers, extended>>

ExtendedPrefix(sc) ==
  /\ sc = 224
  /\ extended' = TRUE
  /\ NothingPushed
  /\ UNCHANGED <<autoflush, modifiers>>

ExtendedBreak(sc) ==
  /\ extended /\ sc >= 128 /\ sc # 224
  /\ extended' = FALSE
  /\ NothingPushed
  /\ UNCHANGED <<autoflush, modifiers>>

(* autoflush is saved and set to 1, and restored on both ways out.         *)
ExtendedWhileReading(sc) ==
  /\ extended /\ sc < 128
  /\ buffering_read
  /\ autoflush' = autoflush
  /\ extended' = FALSE
  /\ NothingPushed
  /\ UNCHANGED modifiers

(* The pushes are KbdNAFPushback's, without echo; printk shows the arrow.  *)
ExtendedKey(sc) ==
  /\ extended /\ sc < 128
  /\ ~buffering_read
  /\ \/ sc \in Arrows /\ Push(ArrowSequence(sc)) /\ echo' = ArrowSequence(sc)
     \/ sc \notin Arrows /\ NothingPushed
  /\ autoflush' = autoflush
  /\ extended' = FALSE
  /\ UNCHANGED modifiers

IsShift(key) == key \in {42, 54}

Break(sc) ==
  /\ ~extended /\ sc >= 128 /\ sc # 224
  /\ shift' = (shift /\ ~IsShift(sc - 128))
  /\ NothingPushed
  /\ UNCHANGED <<autoflush, caps, extended>>

ShiftMake(sc) ==
  /\ ~extended /\ IsShift(sc)
  /\ shift' = TRUE
  /\ NothingPushed
  /\ UNCHANGED <<autoflush, caps, extended>>

CapsLock(sc) ==
  /\ ~extended /\ sc = 58
  /\ caps' = ~caps
  /\ NothingPushed
  /\ UNCHANGED <<autoflush, shift, extended>>

PlainKey(sc) ==
  /\ ~extended /\ sc < 128 /\ ~IsShift(sc) /\ sc # 58
  /\ \/ CharOf(sc) # "NUL" /\ KbdFlushCheck(CharOf(sc))
     \/ CharOf(sc) = "NUL" /\ NothingPushed
  /\ UNCHANGED <<autoflush, modifiers, extended>>

KeyboardDriverMain(sc) ==
  /\ \/ ExtendedPrefix(sc)
     \/ ExtendedBreak(sc)
     \/ ExtendedWhileReading(sc)
     \/ ExtendedKey(sc)
     \/ Break(sc)
     \/ ShiftMake(sc)
     \/ CapsLock(sc)
     \/ PlainKey(sc)
  /\ UNCHANGED <<buffering_read, storeKept, reader>>

-----------------------------------------------------------------------------
(* The reader.                                                             *)

byReader == <<kbd_drvr_buf, kbd_buf_head, handler, storeKept, torn>>  \* not written

MoreToRead == read < maxlen - 1

CallKiReadHidC ==
  /\ pc = "idle"
  /\ pc' = "begin"
  /\ UNCHANGED <<byReader, kbd_buf_tail, buffering_read, registers, maxlen, read, taken>>

(* With maxlen = 1 there is room for the final NUL only.                   *)
CallKiReadHidSN(m) ==
  /\ pc = "idle"
  /\ \/ m > 1 /\ maxlen' = m /\ pc' = "begin"
     \/ m = 1 /\ UNCHANGED <<maxlen, pc>>
  /\ UNCHANGED <<byReader, kbd_buf_tail, buffering_read, registers, read, taken>>

Begin ==
  /\ pc = "begin"
  /\ buffering_read' = (buffering_read \/ storeKept)
  /\ pc' = "wait"
  /\ UNCHANGED <<byReader, kbd_buf_tail, registers, maxlen, read, taken>>

(* Mutant of WaitLoadTail: while (kbd_buf_head <= kbd_buf_tail);           *)
WaitLoadTailOrdered ==
  /\ pc = "wait" /\ rHead # NoIndex
  /\ pc' = IF rHead <= kbd_buf_tail THEN "wait" ELSE "index"
  /\ rHead' = NoIndex
  /\ UNCHANGED <<byReader, kbd_buf_tail, buffering_read, rIndex, rChar, rTail,
                 maxlen, read, taken>>

(* while (kbd_buf_head == kbd_buf_tail); is two loads per turn.            *)
WaitLoadHead ==
  /\ pc = "wait" /\ rHead = NoIndex
  /\ rHead' = kbd_buf_head
  /\ UNCHANGED <<byReader, kbd_buf_tail, buffering_read, pc, rIndex, rChar, rTail,
                 maxlen, read, taken>>

WaitLoadTail ==
  /\ pc = "wait" /\ rHead # NoIndex
  /\ pc' = IF rHead = kbd_buf_tail THEN "wait" ELSE "index"
  /\ rHead' = NoIndex
  /\ UNCHANGED <<byReader, kbd_buf_tail, buffering_read, rIndex, rChar, rTail,
                 maxlen, read, taken>>

(* Mutant of LoadIndex: buffering_read = false moved before the accesses.  *)
LoadIndexReleased ==
  /\ pc = "index"
  /\ rIndex' = kbd_buf_tail
  /\ pc' = "access"
  /\ buffering_read' = FALSE
  /\ UNCHANGED <<byReader, kbd_buf_tail, rHead, rChar, rTail, maxlen, read, taken>>

LoadIndex ==
  /\ pc = "index"
  /\ rIndex' = kbd_buf_tail
  /\ pc' = "access"
  /\ UNCHANGED <<byReader, kbd_buf_tail, buffering_read, rHead, rChar, rTail,
                 maxlen, read, taken>>

LoadChar ==
  /\ pc = "access" /\ rChar = NoChar
  /\ rChar' = kbd_drvr_buf[rIndex]
  /\ rIndex' = NoIndex
  /\ pc' = IF rTail = NoIndex THEN "access" ELSE "store"
  /\ UNCHANGED <<byReader, kbd_buf_tail, buffering_read, rHead, rTail,
                 maxlen, read, taken>>

LoadTail ==
  /\ pc = "access" /\ rTail = NoIndex
  /\ rTail' = kbd_buf_tail
  /\ pc' = IF rChar = NoChar THEN "access" ELSE "store"
  /\ UNCHANGED <<byReader, kbd_buf_tail, buffering_read, rHead, rIndex, rChar,
                 maxlen, read, taken>>

StoreTail ==
  /\ pc = "store"
  /\ kbd_buf_tail' = Wrapped(rTail + 1)
  /\ rTail' = NoIndex
  /\ rChar' = NoChar
  /\ taken' = rChar
  /\ pc' = "end"
  /\ UNCHANGED <<byReader, buffering_read, rHead, rIndex, maxlen, read>>

(* Mutant of End: out[read] = c without the increment.                     *)
EndUncounted ==
  /\ pc = "end"
  /\ buffering_read' = FALSE
  /\ LET goesOn == /\ taken \notin {"NL", "NUL"}
                   /\ read + 1 < maxlen - 1
     IN  /\ pc'     = IF goesOn THEN "begin" ELSE "idle"
         /\ maxlen' = IF goesOn THEN maxlen ELSE 0
  /\ UNCHANGED <<byReader, kbd_buf_tail, registers, read, taken>>

(* KiReadHidC returns; KiReadHidSN stops at '\n' and NUL or goes on while  *)
(* there is room.  Its final NUL and its result are not state.             *)
End ==
  /\ pc = "end"
  /\ buffering_read' = FALSE
  /\ LET goesOn == /\ taken \notin {"NL", "NUL"}
                   /\ read + 1 < maxlen - 1
     IN  /\ pc'     = IF goesOn THEN "begin" ELSE "idle"
         /\ read'   = IF goesOn THEN read + 1 ELSE 0
         /\ maxlen' = IF goesOn THEN maxlen ELSE 0
  /\ UNCHANGED <<byReader, kbd_buf_tail, registers, taken>>

KiReadHidC ==
  Begin \/ WaitLoadHead \/ WaitLoadTail \/ LoadIndex \/ LoadChar \/ LoadTail
        \/ StoreTail \/ End

-----------------------------------------------------------------------------
(* The driver's variables are initialised statically; InitKeyboardDriver,  *)
(* which would set head and tail to 0 again, is called by nobody.          *)
Init ==
  /\ kbd_drvr_buf = [i \in Indices |-> "NUL"]
  /\ kbd_buf_head = 0 /\ kbd_buf_tail = 0
  /\ buffering_read = FALSE
  /\ autoflush = 0
  /\ shift = FALSE /\ caps = FALSE /\ extended = FALSE
  /\ echo = <<>>
  /\ pc = "idle"
  /\ rHead = NoIndex /\ rIndex = NoIndex /\ rChar = NoChar /\ rTail = NoIndex
  /\ maxlen = 0 /\ read = 0
  /\ taken = NoChar
  /\ storeKept \in Builds
  /\ torn = FALSE

Next ==
  \/ \E sc \in Scancodes : KeyboardDriverMain(sc)
  \/ CallKiReadHidC
  \/ \E m \in MaxLens : CallKiReadHidSN(m)
  \/ KiReadHidC

(* The CPU keeps executing the reader: interrupt handlers always return.   *)
(* Nothing makes the keyboard send or a caller call.                       *)
Spec == Init /\ [][Next]_vars /\ WF_vars(KiReadHidC)

-----------------------------------------------------------------------------
TypeOK ==
  /\ kbd_drvr_buf \in [Indices -> Chars]
  /\ kbd_buf_head \in Indices /\ kbd_buf_tail \in Indices
  /\ buffering_read \in BOOLEAN
  /\ autoflush \in {0, 1}
  /\ shift \in BOOLEAN /\ caps \in BOOLEAN /\ extended \in BOOLEAN
  /\ echo \in Seq(Chars)
  /\ pc \in {"idle", "begin", "wait", "index", "access", "store", "end"}
  /\ rHead \in Indices \cup {NoIndex} /\ rIndex \in Indices \cup {NoIndex}
  /\ rTail \in Indices \cup {NoIndex} /\ rChar \in Chars \cup {NoChar}
  /\ maxlen \in MaxLens \cup {0} /\ read \in Nat
  /\ taken \in Chars \cup {NoChar}
  /\ storeKept \in BOOLEAN
  /\ torn \in BOOLEAN

(* A reader past its wait finds a character in the ring whatever            *)
(* interrupts - overflows included - come before it has taken it.          *)
ReaderFindsChar ==
  pc \in {"index", "access", "store"} => kbd_buf_head # kbd_buf_tail

(* The characters between the tail and the head.                           *)
Unread ==
  [k \in 1 .. Wrapped(kbd_buf_head - kbd_buf_tail + KBD_BUF_SIZE)
     |-> kbd_drvr_buf[Wrapped(kbd_buf_tail + k - 1)]]

Produced ==
  {<<>>} \cup {<<c>> : c \in {"a", "1", "A", "!", "NL"}} \cup {Flushed("BS")}
    \cup {ArrowSequence(sc) : sc \in Arrows}

(* The interleaved ring is the atomic lossy queue: characters come out in  *)
(* order, once, echoed as they entered, as long as no overflow meets a     *)
(* reader between its loads and its store of the tail.                     *)
Queue == INSTANCE KbdQueue WITH
           Capacity <- KBD_BUF_SIZE - 1, Strokes <- Produced,
           queue <- Unread, shown <- echo

IsQueue == Queue!QueueSpec

(* In a build that keeps the store, the second byte of an extended key,    *)
(* arrows included, leaves the ring alone from KiReadHidC's store of       *)
(* buffering_read to its store of the tail.                                *)
ArrowsHeldOff ==
  [][ (storeKept /\ pc \in {"wait", "index", "access", "store"} /\ extended /\ ~extended')
        => UNCHANGED ring ]_vars

(* A reader that waits while the ring holds characters gets one, however   *)
(* many interrupts come between its loads.                                 *)
ReadReturns == (pc = "wait" /\ kbd_buf_head # kbd_buf_tail) ~> (pc = "end")

(* A line read ends if there is always something to read again.            *)
LineReturns ==
  []<>(kbd_buf_head # kbd_buf_tail) => (maxlen > 0 ~> maxlen = 0)
=============================================================================
