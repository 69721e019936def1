----------------------------- MODULE KbdProofs -----------------------------
(***************************************************************************)
(* Proofs about the keyboard driver for every buffer size, every set of    *)
(* scancodes and both builds.                                              *)
(*                                                                         *)
(* ReaderFindsChar is not inductive: the reader decides that the ring is   *)
(* not empty from a head it loaded earlier.  WaitInv carries the decision  *)
(* across the two loads: while the ring is empty, the loaded head is the   *)
(* head, because an interrupt that pushes leaves the ring non-empty even   *)
(* when it overflows.                                                      *)
(***************************************************************************)
EXTENDS Kbd, SequenceTheorems, TLAPS

WaitInv ==
  (pc = "wait" /\ rHead # NoIndex /\ kbd_buf_head = kbd_buf_tail)
     => rHead = kbd_buf_head

(* Which of the reader's registers are loaded at each of its points.       *)
RegistersInv ==
  /\ pc # "wait" => rHead = NoIndex
  /\ pc \notin {"access", "store"} => rChar = NoChar /\ rTail = NoIndex
  /\ pc = "access" => /\ rChar = NoChar \/ rTail = NoIndex
                      /\ rChar = NoChar => rIndex \in Indices
  /\ pc = "store" => rTail \in Indices

KbdInv == TypeOK /\ RegistersInv /\ WaitInv /\ ReaderFindsChar

RingType ==
  [buf : [Indices -> Chars], head : Indices, tail : Indices, overflow : BOOLEAN]

-----------------------------------------------------------------------------
(* One push keeps the ring a ring and leaves it non-empty, whether or not  *)
(* it overflows: this is what a buffer of at least two places is for.      *)
LEMMA PushNonEmpty ==
  ASSUME NEW r \in RingType, NEW c \in Chars
  PROVE  /\ KbdPushback(r, c) \in RingType
         /\ KbdPushback(r, c).head # KbdPushback(r, c).tail
<1> DEFINE next == Wrapped(r.head + 1)
           o    == OverflowKbdBfr
<1>1. 0 \in Indices /\ Wrapped(0 + 1) \in Indices /\ Wrapped(0 + 1) # 0
      /\ next \in Indices
  BY SizeAssumption DEF Indices, Wrapped, RingType
<1>2. ASSUME NEW s \in RingType, Wrapped(s.head + 1) \in Indices,
             Wrapped(s.head + 1) # s.tail
      PROVE  Stored(s, c) \in RingType /\ Stored(s, c).head # Stored(s, c).tail
  <2>1. [s.buf EXCEPT ![s.head] = c] \in [Indices -> Chars] BY DEF RingType
  <2> QED BY <1>2, <2>1 DEF Stored, RingType
<1>3. CASE next # r.tail BY <1>1, <1>2, <1>3 DEF KbdPushback
<1>4. CASE next = r.tail
  <2>1. "NUL" \in Chars BY DEF Chars
  <2>2. o \in RingType /\ o.head = 0 /\ o.tail = 0
    BY <1>1, <2>1 DEF OverflowKbdBfr, RingType
  <2>3. KbdPushback(r, c) = Stored(o, c) BY <1>4 DEF KbdPushback
  <2> HIDE DEF o
  <2> QED BY <1>1, <1>2, <2>2, <2>3
<1> QED BY <1>3, <1>4

(* So do the pushes of a whole interrupt.                                  *)
LEMMA PushAllNonEmpty ==
  ASSUME NEW r \in RingType, NEW cs \in Seq(Chars), Len(cs) \in 1 .. 3
  PROVE  /\ PushAll(r, cs) \in RingType
         /\ PushAll(r, cs).head # PushAll(r, cs).tail
<1> DEFINE one   == KbdPushback(r, cs[1])
           two   == KbdPushback(one, cs[2])
           three == KbdPushback(two, cs[3])
<1>1. one \in RingType /\ one.head # one.tail BY PushNonEmpty
<1>2. Len(cs) \in {2, 3} => two \in RingType /\ two.head # two.tail
  <2>1. Len(cs) \in {2, 3} => cs[2] \in Chars OBVIOUS
  <2> HIDE DEF one
  <2> QED BY <1>1, <2>1, PushNonEmpty
<1>3. Len(cs) = 3 => three \in RingType /\ three.head # three.tail
  <2>1. Len(cs) = 3 => cs[3] \in Chars OBVIOUS
  <2> HIDE DEF two
  <2> QED BY <1>2, <2>1, PushNonEmpty
<1>4. PushAll(r, cs) = CASE Len(cs) = 1 -> one
                         [] Len(cs) = 2 -> two
                         [] Len(cs) = 3 -> three
  BY DEF PushAll
<1> HIDE DEF one, two, three
<1> QED BY <1>1, <1>2, <1>3, <1>4

(* The driver's variables after the pushes of an interrupt.                *)
LEMMA PushInv ==
  ASSUME TypeOK, NEW cs \in Seq(Chars), Len(cs) \in 1 .. 3, Push(cs)
  PROVE  /\ kbd_drvr_buf' \in [Indices -> Chars]
         /\ kbd_buf_head' \in Indices /\ kbd_buf_tail' \in Indices
         /\ kbd_buf_head' # kbd_buf_tail'
         /\ torn' \in BOOLEAN
<1>1. Ring \in RingType BY DEF Ring, RingType, TypeOK
<1> DEFINE r == PushAll(Ring, cs)
<1>2. r \in RingType /\ r.head # r.tail BY <1>1, PushAllNonEmpty
<1>3. kbd_drvr_buf' = r.buf /\ kbd_buf_head' = r.head /\ kbd_buf_tail' = r.tail
  BY DEF Push
<1>4. torn' \in BOOLEAN
  <2>1. torn' = (torn \/ (r.overflow /\ HoldsTail)) BY DEF Push
  <2> QED BY <2>1 DEF TypeOK
<1> HIDE DEF r
<1> QED BY <1>2, <1>3, <1>4 DEF RingType

-----------------------------------------------------------------------------
(* An interrupt leaves the ring alone or leaves it non-empty.              *)
LEMMA InterruptInv ==
  ASSUME KbdInv, NEW sc \in Scancodes, KeyboardDriverMain(sc)
  PROVE  KbdInv'
<1>1. TypeOK /\ sc \in 0 .. 255 BY ScancodesAssumption DEF KbdInv
<1>2. UNCHANGED <<buffering_read, storeKept, pc, rHead, rIndex, rChar, rTail, maxlen, read,
                taken>>
  BY DEF KeyboardDriverMain, reader, registers
<1>3. autoflush' = autoflush BY DEF KeyboardDriverMain, ExtendedPrefix, ExtendedBreak,
    ExtendedWhileReading, ExtendedKey, Break, ShiftMake, CapsLock, PlainKey
<1>4. shift' \in BOOLEAN /\ caps' \in BOOLEAN /\ extended' \in BOOLEAN
  <2> USE <1>1 DEF TypeOK, KeyboardDriverMain, ExtendedPrefix, ExtendedBreak, modifiers,
      ExtendedWhileReading, ExtendedKey, Break, ShiftMake, CapsLock, PlainKey
  <2>1. shift' \in BOOLEAN OBVIOUS
  <2>2. caps' \in BOOLEAN OBVIOUS
  <2>3. extended' \in BOOLEAN OBVIOUS
  <2> QED BY <2>1, <2>2, <2>3
<1>5. \/ NothingPushed
      \/ \E cs \in Seq(Chars) :
           Len(cs) \in 1 .. 3 /\ Push(cs) /\ (echo' = cs \/ echo' = <<>>)
  <2>1. CASE ExtendedKey(sc) /\ sc \in Arrows
    <3>1. ArrowSequence(sc) \in Seq(Chars) /\ Len(ArrowSequence(sc)) = 3
      BY <2>1 DEF ArrowSequence, Chars, Arrows
    <3> QED BY <2>1, <3>1 DEF ExtendedKey
  <2>2. CASE PlainKey(sc) /\ CharOf(sc) # "NUL"
    <3>1. sc \in 0 .. 127 BY <1>1, <2>2 DEF PlainKey
    <3>2. CharOf(sc) \in Chars
      BY <3>1 DEF CharOf, USLayoutShft, USLayoutCaps, USLayoutNrml, Layout, Chars,
                  Letter, Digit, Backspace, Enter
    <3>3. Flushed(CharOf(sc)) \in Seq(Chars) /\ Len(Flushed(CharOf(sc))) \in 1 .. 3
      <4>1. "NUL" \in Chars BY DEF Chars
      <4>2. CASE CharOf(sc) = "BS" BY <3>2, <4>1, <4>2 DEF Flushed
      <4>3. CASE CharOf(sc) # "BS" BY <3>2, <4>3 DEF Flushed
      <4> QED BY <4>2, <4>3
    <3> QED BY <2>2, <3>3 DEF PlainKey, KbdFlushCheck
  <2> QED BY <2>1, <2>2 DEF KeyboardDriverMain, ExtendedPrefix, ExtendedBreak,
        ExtendedWhileReading, ExtendedKey, Break, ShiftMake, CapsLock, PlainKey
<1>6. RegistersInv' BY <1>2 DEF KbdInv, RegistersInv, Indices
<1>7. CASE NothingPushed
  <2>1. UNCHANGED <<kbd_drvr_buf, kbd_buf_head, kbd_buf_tail, torn>> /\ echo' = <<>>
    BY <1>7 DEF NothingPushed, ring
  <2>2. TypeOK' BY <1>1, <1>2, <1>3, <1>4, <2>1 DEF TypeOK
  <2>3. WaitInv' /\ ReaderFindsChar' BY <1>2, <2>1 DEF KbdInv, WaitInv, ReaderFindsChar
  <2> QED BY <1>6, <2>2, <2>3 DEF KbdInv
<1>8. ASSUME NEW cs \in Seq(Chars), Len(cs) \in 1 .. 3, Push(cs),
             echo' = cs \/ echo' = <<>>
      PROVE  KbdInv'
  <2>1. /\ kbd_drvr_buf' \in [Indices -> Chars]
        /\ kbd_buf_head' \in Indices /\ kbd_buf_tail' \in Indices
        /\ kbd_buf_head' # kbd_buf_tail'
        /\ torn' \in BOOLEAN
    BY <1>1, <1>8, PushInv
  <2>2. echo' \in Seq(Chars)
    <3>1. <<>> \in Seq(Chars) OBVIOUS
    <3> QED BY <1>8, <3>1
  <2>3. TypeOK' BY <1>1, <1>2, <1>3, <1>4, <2>1, <2>2 DEF TypeOK
  <2>4. WaitInv' /\ ReaderFindsChar' BY <2>1 DEF WaitInv, ReaderFindsChar
  <2> QED BY <1>6, <2>3, <2>4 DEF KbdInv
<1> QED BY <1>5, <1>7, <1>8

(* The reader's calls, loads and stores.                                   *)
LEMMA ReaderInv ==
  ASSUME KbdInv,
         \/ CallKiReadHidC
         \/ \E m \in MaxLens : CallKiReadHidSN(m)
         \/ KiReadHidC
  PROVE  KbdInv'
<1> USE DEF byReader, handler, registers
<1>1. TypeOK /\ RegistersInv /\ WaitInv /\ ReaderFindsChar BY DEF KbdInv
<1>2. CASE CallKiReadHidC
  <2>1. TypeOK' BY <1>1, <1>2 DEF CallKiReadHidC, TypeOK
  <2>2. RegistersInv' BY <1>1, <1>2 DEF CallKiReadHidC, RegistersInv, Indices
  <2>3. WaitInv' /\ ReaderFindsChar' BY <1>2 DEF CallKiReadHidC, WaitInv, ReaderFindsChar
  <2> QED BY <2>1, <2>2, <2>3 DEF KbdInv
<1>3. ASSUME NEW m \in MaxLens, CallKiReadHidSN(m) PROVE KbdInv'
  <2>1. TypeOK' BY <1>1, <1>3 DEF CallKiReadHidSN, TypeOK
  <2>2. RegistersInv' BY <1>1, <1>3 DEF CallKiReadHidSN, RegistersInv, Indices
  <2>3. WaitInv' /\ ReaderFindsChar'
    BY <1>3 DEF CallKiReadHidSN, WaitInv, ReaderFindsChar
  <2> QED BY <2>1, <2>2, <2>3 DEF KbdInv
<1>4. CASE Begin
  <2>1. TypeOK' BY <1>1, <1>4 DEF Begin, TypeOK
  <2>2. RegistersInv' BY <1>1, <1>4 DEF Begin, RegistersInv, Indices
  <2>3. WaitInv' /\ ReaderFindsChar'
    BY <1>1, <1>4 DEF Begin, RegistersInv, WaitInv, ReaderFindsChar
  <2> QED BY <2>1, <2>2, <2>3 DEF KbdInv
<1>5. CASE WaitLoadHead
  <2>1. TypeOK' BY <1>1, <1>5 DEF WaitLoadHead, TypeOK
  <2>2. RegistersInv' BY <1>1, <1>5 DEF WaitLoadHead, RegistersInv, Indices
  <2>3. WaitInv' /\ ReaderFindsChar' BY <1>5 DEF WaitLoadHead, WaitInv, ReaderFindsChar
  <2> QED BY <2>1, <2>2, <2>3 DEF KbdInv
<1>6. CASE WaitLoadTail
  <2>1. TypeOK' BY <1>1, <1>6 DEF WaitLoadTail, TypeOK
  <2>2. RegistersInv' BY <1>1, <1>6 DEF WaitLoadTail, RegistersInv, Indices
  <2>3. WaitInv' BY <1>6 DEF WaitLoadTail, WaitInv
  <2>4. ReaderFindsChar' BY <1>1, <1>6 DEF WaitLoadTail, WaitInv, ReaderFindsChar
  <2> QED BY <2>1, <2>2, <2>3, <2>4 DEF KbdInv
<1>7. CASE LoadIndex
  <2>1. TypeOK' BY <1>1, <1>7 DEF LoadIndex, TypeOK
  <2>2. RegistersInv' BY <1>1, <1>7 DEF LoadIndex, RegistersInv, TypeOK, Indices
  <2>3. WaitInv' /\ ReaderFindsChar'
    BY <1>1, <1>7 DEF LoadIndex, WaitInv, ReaderFindsChar
  <2> QED BY <2>1, <2>2, <2>3 DEF KbdInv
<1>8. CASE LoadChar
  <2>1. rIndex \in Indices /\ rChar' \in Chars
    BY <1>1, <1>8 DEF LoadChar, RegistersInv, TypeOK
  <2>2. TypeOK' BY <1>1, <1>8, <2>1 DEF LoadChar, TypeOK
  <2>3. rTail \in Indices \cup {NoIndex} /\ rHead = NoIndex
    BY <1>1, <1>8 DEF LoadChar, TypeOK, RegistersInv
  <2>4. RegistersInv'
    BY <1>1, <1>8, <2>1, <2>3, NoCharAssumption DEF LoadChar, RegistersInv, Indices
  <2>5. WaitInv' /\ ReaderFindsChar'
    BY <1>1, <1>8 DEF LoadChar, WaitInv, ReaderFindsChar
  <2> QED BY <2>2, <2>4, <2>5 DEF KbdInv
<1>9. CASE LoadTail
  <2>1. TypeOK' BY <1>1, <1>9 DEF LoadTail, TypeOK
  <2>2. kbd_buf_tail \in Indices BY <1>1 DEF TypeOK
  <2>3. RegistersInv' BY <1>1, <1>9, <2>2 DEF LoadTail, RegistersInv, Indices
  <2>4. WaitInv' /\ ReaderFindsChar'
    BY <1>1, <1>9 DEF LoadTail, WaitInv, ReaderFindsChar
  <2> QED BY <2>1, <2>3, <2>4 DEF KbdInv
<1>10. CASE StoreTail
  <2>1. rTail \in Indices BY <1>1, <1>10 DEF StoreTail, RegistersInv
  <2>2. Wrapped(rTail + 1) \in Indices BY <2>1, SizeAssumption DEF Indices, Wrapped
  <2>3. TypeOK' BY <1>1, <1>10, <2>2 DEF StoreTail, TypeOK
  <2>4. RegistersInv' BY <1>1, <1>10 DEF StoreTail, RegistersInv, Indices
  <2>5. WaitInv' /\ ReaderFindsChar' BY <1>10 DEF StoreTail, WaitInv, ReaderFindsChar
  <2> QED BY <2>3, <2>4, <2>5 DEF KbdInv
<1>11. CASE End
  <2>1. /\ pc = "end" /\ pc' \in {"begin", "idle"}
        /\ read' \in {read + 1, 0} /\ maxlen' \in {maxlen, 0}
        /\ buffering_read' = FALSE
        /\ UNCHANGED <<byReader, kbd_buf_tail, registers, taken>>
    BY <1>11 DEF End
  <2>2. TypeOK'
    <3>1. read + 1 \in Nat /\ 0 \in Nat BY <1>1 DEF TypeOK
    <3>2. read' \in Nat /\ maxlen' \in MaxLens \cup {0}
      BY <1>1, <2>1, <3>1 DEF TypeOK
    <3>3. UNCHANGED <<ring, handler, registers, taken, storeKept, torn>>
      BY <2>1 DEF byReader, ring
    <3>4. /\ pc' \in {"idle", "begin", "wait", "index", "access", "store", "end"}
          /\ buffering_read' \in BOOLEAN
      BY <2>1
    <3> QED BY <1>1, <3>2, <3>3, <3>4, SMTT(30) DEF TypeOK, ring, handler, registers
  <2>3. RegistersInv' BY <1>1, <2>1 DEF RegistersInv, Indices
  <2>4. WaitInv' /\ ReaderFindsChar' BY <2>1 DEF WaitInv, ReaderFindsChar
  <2> QED BY <2>2, <2>3, <2>4 DEF KbdInv
<1> QED BY <1>2, <1>3, <1>4, <1>5, <1>6, <1>7, <1>8, <1>9, <1>10, <1>11
        DEF KiReadHidC

LEMMA InitIsKbdInv == Init => KbdInv
<1> SUFFICES ASSUME Init PROVE KbdInv OBVIOUS
<1>1. 0 \in Indices BY SizeAssumption DEF Indices
<1>2. TypeOK BY <1>1, BuildsAssumption DEF Init, TypeOK, Chars
<1> QED BY <1>2 DEF Init, KbdInv, RegistersInv, WaitInv, ReaderFindsChar

LEMMA KbdStep == KbdInv /\ [Next]_vars => KbdInv'
<1>1. KbdInv /\ UNCHANGED vars => KbdInv'
  BY DEF KbdInv, TypeOK, RegistersInv, WaitInv, ReaderFindsChar, Indices, vars, ring,
         handler, reader, registers
<1> QED BY <1>1, InterruptInv, ReaderInv DEF Next

(* KbdInv is an inductive invariant of the driver.                         *)
THEOREM KbdInvariant == Spec => []KbdInv
<1> QED BY InitIsKbdInv, KbdStep, PTL DEF Spec

-----------------------------------------------------------------------------
(* Type correctness of the driver's variables: in particular head and tail *)
(* always index the buffer, after every wrap and overflow.                 *)
THEOREM KbdTypeCorrect == Spec => []TypeOK
<1>1. KbdInv => TypeOK BY DEF KbdInv
<1> QED BY <1>1, KbdInvariant, PTL

(* KiReadHidC never takes a character from an empty ring, whatever comes   *)
(* between its loads, for every size of the ring.                          *)
THEOREM ReaderAlwaysFindsChar == Spec => []ReaderFindsChar
<1>1. KbdInv => ReaderFindsChar BY DEF KbdInv
<1> QED BY <1>1, KbdInvariant, PTL

-----------------------------------------------------------------------------
(* Kbd implements KbdQueue.  The unread characters of a ring, as a         *)
(* sequence, and what the pushes and the reader make of it.                *)

N == KBD_BUF_SIZE

UnreadOf(r) ==
  [k \in 1 .. Wrapped(r.head - r.tail + N) |-> r.buf[Wrapped(r.tail + k - 1)]]

LEMMA WrappedOnce ==
  ASSUME NEW i \in 0 .. 2 * N - 1
  PROVE  Wrapped(i) = IF i < N THEN i ELSE i - N
BY SizeAssumption DEF Wrapped, N

(* The number of unread characters, and where they are.                    *)
LEMMA UnreadLength ==
  ASSUME NEW r \in RingType
  PROVE  LET n == IF r.head >= r.tail THEN r.head - r.tail ELSE r.head - r.tail + N
         IN  /\ Wrapped(r.head - r.tail + N) = n
             /\ n \in 0 .. N - 1
             /\ UnreadOf(r) \in Seq(Chars) /\ Len(UnreadOf(r)) = n
             /\ \A k \in 1 .. n :
                  UnreadOf(r)[k] = r.buf[IF r.tail + k - 1 < N THEN r.tail + k - 1
                                                               ELSE r.tail + k - 1 - N]
<1> DEFINE n == IF r.head >= r.tail THEN r.head - r.tail ELSE r.head - r.tail + N
<1>1. /\ r.head \in 0 .. N - 1 /\ r.tail \in 0 .. N - 1 /\ N \in Nat /\ N >= 2
      /\ r.buf \in [0 .. N - 1 -> Chars]
  BY SizeAssumption DEF RingType, Indices, N
<1>2. Wrapped(r.head - r.tail + N) = n
  <2>1. r.head - r.tail + N \in 0 .. 2 * N - 1 BY <1>1
  <2> QED BY <1>1, <2>1, WrappedOnce
<1>3. n \in 0 .. N - 1 BY <1>1
<1>4. ASSUME NEW k \in 1 .. n
      PROVE  /\ Wrapped(r.tail + k - 1)
                  = IF r.tail + k - 1 < N THEN r.tail + k - 1 ELSE r.tail + k - 1 - N
             /\ Wrapped(r.tail + k - 1) \in 0 .. N - 1
  <2>1. r.tail + k - 1 \in 0 .. 2 * N - 1 BY <1>1, <1>3
  <2>2. Wrapped(r.tail + k - 1)
          = IF r.tail + k - 1 < N THEN r.tail + k - 1 ELSE r.tail + k - 1 - N
    BY <1>1, <2>1, WrappedOnce
  <2> QED BY <1>1, <2>1, <2>2
<1> HIDE DEF n
<1>5. UnreadOf(r) = [k \in 1 .. n |-> r.buf[Wrapped(r.tail + k - 1)]]
  BY <1>2 DEF UnreadOf
<1>6. UnreadOf(r) \in [1 .. n -> Chars] BY <1>1, <1>4, <1>5
<1>7. UnreadOf(r) \in Seq(Chars) /\ Len(UnreadOf(r)) = n BY <1>3, <1>6
<1>8. \A k \in 1 .. n :
        UnreadOf(r)[k] = r.buf[IF r.tail + k - 1 < N THEN r.tail + k - 1
                                                     ELSE r.tail + k - 1 - N]
  BY <1>4, <1>5
<1> QED BY <1>2, <1>3, <1>7, <1>8 DEF n

(* Index arithmetic of a ring of m places, its head h moved on to g.       *)
LEMMA HeadMoves ==
  ASSUME NEW m \in Nat, NEW h \in 0 .. m - 1, NEW t \in 0 .. m - 1, NEW g \in 0 .. m - 1,
         g = IF h + 1 < m THEN h + 1 ELSE 0, g # t
  PROVE  (IF g >= t THEN g - t ELSE g - t + m) = (IF h >= t THEN h - t ELSE h - t + m) + 1
<1>1. CASE h + 1 < m BY <1>1
<1>2. CASE h + 1 = m BY <1>2
<1> QED BY <1>1, <1>2

LEMMA HeadIsNext ==
  ASSUME NEW m \in Nat, NEW h \in 0 .. m - 1, NEW t \in 0 .. m - 1, NEW n \in 0 .. m - 2,
         n = IF h >= t THEN h - t ELSE h - t + m,
         NEW k \in 1 .. n + 1
  PROVE  LET p == IF t + k - 1 < m THEN t + k - 1 ELSE t + k - 1 - m
         IN  p \in 0 .. m - 1 /\ (p = h <=> k = n + 1)
<1>1. CASE h >= t BY <1>1
<1>2. CASE h < t BY <1>2
<1> QED BY <1>1, <1>2

(* A push into a ring with room appends.                                   *)
LEMMA StoredAppends ==
  ASSUME NEW r \in RingType, NEW c \in Chars, Wrapped(r.head + 1) # r.tail
  PROVE  /\ Stored(r, c) \in RingType
         /\ Len(UnreadOf(r)) # N - 1
         /\ UnreadOf(Stored(r, c)) = Append(UnreadOf(r), c)
<1> DEFINE s == Stored(r, c)
           n == IF r.head >= r.tail THEN r.head - r.tail ELSE r.head - r.tail + N
<1>1. /\ r.head \in 0 .. N - 1 /\ r.tail \in 0 .. N - 1 /\ N \in Nat /\ N >= 2
      /\ r.buf \in [0 .. N - 1 -> Chars]
  BY SizeAssumption DEF RingType, Indices, N
<1>2. Wrapped(r.head + 1) = IF r.head + 1 < N THEN r.head + 1 ELSE 0
  <2>1. r.head + 1 \in 0 .. 2 * N - 1 BY <1>1
  <2> QED BY <1>1, <2>1, WrappedOnce
<1>3. /\ s.head = (IF r.head + 1 < N THEN r.head + 1 ELSE 0) /\ s.tail = r.tail
      /\ s.buf = [r.buf EXCEPT ![r.head] = c]
      /\ s \in RingType
  BY <1>1, <1>2 DEF Stored, RingType, Indices, N
<1> HIDE DEF s
<1>4. /\ UnreadOf(r) \in Seq(Chars) /\ Len(UnreadOf(r)) = n /\ n \in 0 .. N - 1
      /\ \A k \in 1 .. n :
           UnreadOf(r)[k] = r.buf[IF r.tail + k - 1 < N THEN r.tail + k - 1
                                                        ELSE r.tail + k - 1 - N]
  BY UnreadLength
<1>5. n # N - 1 BY <1>1, <1>2
<1>6. (IF s.head >= s.tail THEN s.head - s.tail ELSE s.head - s.tail + N) = n + 1
  <2>1. s.head \in 0 .. N - 1 /\ s.head # r.tail BY <1>1, <1>2, <1>3
  <2>2. PICK h, t, g : h = r.head /\ t = r.tail /\ g = s.head OBVIOUS
  <2>3. /\ h \in 0 .. N - 1 /\ t \in 0 .. N - 1 /\ g \in 0 .. N - 1 /\ N \in Nat
        /\ g = (IF h + 1 < N THEN h + 1 ELSE 0) /\ g # t
    BY <1>1, <1>3, <2>1, <2>2
  <2>4. (IF g >= t THEN g - t ELSE g - t + N) = (IF h >= t THEN h - t ELSE h - t + N) + 1
    BY <2>3, HeadMoves
  <2>5. s.tail = t BY <1>3, <2>2
  <2>6. n = IF h >= t THEN h - t ELSE h - t + N BY <2>2
  <2> QED BY <2>2, <2>4, <2>5, <2>6
<1>7. /\ UnreadOf(s) \in Seq(Chars) /\ Len(UnreadOf(s)) = n + 1
      /\ \A k \in 1 .. n + 1 :
           UnreadOf(s)[k] = s.buf[IF r.tail + k - 1 < N THEN r.tail + k - 1
                                                        ELSE r.tail + k - 1 - N]
  <2>1. s \in RingType /\ s.tail = r.tail BY <1>3
  <2> QED BY <1>6, <2>1, UnreadLength, SMTT(30)
<1>8. ASSUME NEW k \in 1 .. n + 1
      PROVE  UnreadOf(s)[k] = IF k <= n THEN UnreadOf(r)[k] ELSE c
  <2> DEFINE p == IF r.tail + k - 1 < N THEN r.tail + k - 1 ELSE r.tail + k - 1 - N
  <2>1. p \in 0 .. N - 1 /\ (p = r.head <=> k = n + 1)
    <3>1. n \in 0 .. N - 2 BY <1>1, <1>4, <1>5
    <3>2. n = IF r.head >= r.tail THEN r.head - r.tail ELSE r.head - r.tail + N OBVIOUS
    <3>3. k \in 1 .. n + 1 OBVIOUS
    <3>4. N \in Nat /\ r.head \in 0 .. N - 1 /\ r.tail \in 0 .. N - 1 BY <1>1
    <3> HIDE DEF n
    <3> QED BY <3>1, <3>2, <3>3, <3>4, HeadIsNext
  <2>2. UnreadOf(s)[k] = s.buf[p] BY <1>7
  <2>3. k <= n => UnreadOf(r)[k] = r.buf[p] BY <1>4
  <2>4. s.buf[p] = IF p = r.head THEN c ELSE r.buf[p] BY <1>1, <1>3, <2>1
  <2> HIDE DEF p, n
  <2> QED BY <1>4, <2>1, <2>2, <2>3, <2>4
<1> HIDE DEF n
<1>9. /\ Append(UnreadOf(r), c) \in Seq(Chars) /\ Len(Append(UnreadOf(r), c)) = n + 1
      /\ \A k \in 1 .. n + 1 :
           Append(UnreadOf(r), c)[k] = IF k <= n THEN UnreadOf(r)[k] ELSE c
  BY <1>4
<1>10. UnreadOf(s) = Append(UnreadOf(r), c) BY <1>4, <1>7, <1>8, <1>9, SeqEqual
<1> QED BY <1>3, <1>4, <1>5, <1>10 DEF s

(* A push into a full ring leaves the character alone in it.               *)
LEMMA OverflowForgets ==
  ASSUME NEW r \in RingType, NEW c \in Chars, Wrapped(r.head + 1) = r.tail
  PROVE  /\ Len(UnreadOf(r)) = N - 1
         /\ UnreadOf(Stored(OverflowKbdBfr, c)) = <<c>>
<1> DEFINE o == OverflowKbdBfr
<1>1. /\ r.head \in 0 .. N - 1 /\ r.tail \in 0 .. N - 1 /\ N \in Nat /\ N >= 2
  BY SizeAssumption DEF RingType, Indices, N
<1>2. Wrapped(r.head + 1) = IF r.head + 1 < N THEN r.head + 1 ELSE 0
  <2>1. r.head + 1 \in 0 .. 2 * N - 1 BY <1>1
  <2> QED BY <1>1, <2>1, WrappedOnce
<1>3. Len(UnreadOf(r)) = N - 1 BY <1>1, <1>2, UnreadLength
<1>4. o \in RingType /\ o.head = 0 /\ o.tail = 0
  BY <1>1 DEF OverflowKbdBfr, RingType, Indices, Chars, N
<1>5. Wrapped(0 + 1) = 1 BY <1>1, WrappedOnce
<1>6. UnreadOf(o) \in Seq(Chars) /\ Len(UnreadOf(o)) = 0 BY <1>1, <1>4, UnreadLength
<1>7. UnreadOf(o) = <<>> BY <1>6, EmptySeq
<1> HIDE DEF o
<1>8. UnreadOf(Stored(o, c)) = Append(UnreadOf(o), c) BY <1>4, <1>5, StoredAppends
<1> QED BY <1>3, <1>7, <1>8 DEF o

LEMMA PushEnqueues ==
  ASSUME NEW r \in RingType, NEW c \in Chars
  PROVE  UnreadOf(KbdPushback(r, c)) = Queue!Enqueue(UnreadOf(r), c)
<1>1. CASE Wrapped(r.head + 1) # r.tail
  BY <1>1, StoredAppends DEF KbdPushback, Queue!Enqueue, N
<1>2. CASE Wrapped(r.head + 1) = r.tail
  BY <1>2, OverflowForgets DEF KbdPushback, Queue!Enqueue, N
<1> QED BY <1>1, <1>2

LEMMA PushAllEnqueues ==
  ASSUME NEW r \in RingType, NEW cs \in Seq(Chars), Len(cs) \in 1 .. 3
  PROVE  UnreadOf(PushAll(r, cs)) = Queue!EnqueueAll(UnreadOf(r), cs)
<1> DEFINE one   == KbdPushback(r, cs[1])
           two   == KbdPushback(one, cs[2])
           three == KbdPushback(two, cs[3])
           qone   == Queue!Enqueue(UnreadOf(r), cs[1])
           qtwo   == Queue!Enqueue(qone, cs[2])
           qthree == Queue!Enqueue(qtwo, cs[3])
<1>1. one \in RingType /\ UnreadOf(one) = qone BY PushNonEmpty, PushEnqueues
<1>2. Len(cs) \in {2, 3} => two \in RingType /\ UnreadOf(two) = qtwo
  <2>1. Len(cs) \in {2, 3} => cs[2] \in Chars OBVIOUS
  <2> HIDE DEF one, qone
  <2> QED BY <1>1, <2>1, PushNonEmpty, PushEnqueues
<1>3. Len(cs) = 3 => UnreadOf(three) = qthree
  <2>1. Len(cs) = 3 => cs[3] \in Chars OBVIOUS
  <2> HIDE DEF two, qtwo
  <2> QED BY <1>2, <2>1, PushEnqueues
<1>4. PushAll(r, cs) = CASE Len(cs) = 1 -> one
                         [] Len(cs) = 2 -> two
                         [] Len(cs) = 3 -> three
  BY DEF PushAll
<1>5. Queue!EnqueueAll(UnreadOf(r), cs) = CASE Len(cs) = 0 -> UnreadOf(r)
                                            [] Len(cs) = 1 -> qone
                                            [] Len(cs) = 2 -> qtwo
                                            [] Len(cs) = 3 -> qthree
  BY DEF Queue!EnqueueAll
<1> HIDE DEF one, two, three, qone, qtwo, qthree
<1> QED BY <1>1, <1>2, <1>3, <1>4, <1>5

LEMMA NextPlace ==
  ASSUME NEW m \in Nat, NEW t \in 0 .. m - 1, NEW u \in 0 .. m - 1,
         u = IF t + 1 < m THEN t + 1 ELSE 0,
         NEW k \in 1 .. m - 2
  PROVE  (IF u + k - 1 < m THEN u + k - 1 ELSE u + k - 1 - m)
           = (IF t + (k + 1) - 1 < m THEN t + (k + 1) - 1 ELSE t + (k + 1) - 1 - m)
<1>1. CASE t + 1 < m BY <1>1
<1>2. CASE t + 1 = m BY <1>2
<1> QED BY <1>1, <1>2

(* The reader takes the first of the unread characters.                    *)
LEMMA TailTakes ==
  ASSUME NEW r \in RingType, r.head # r.tail,
         NEW s \in RingType, s.buf = r.buf, s.head = r.head, s.tail = Wrapped(r.tail + 1)
  PROVE  /\ UnreadOf(r) # <<>>
         /\ Head(UnreadOf(r)) = r.buf[r.tail]
         /\ UnreadOf(s) = Tail(UnreadOf(r))
<1> DEFINE n == IF r.head >= r.tail THEN r.head - r.tail ELSE r.head - r.tail + N
           at(k) == IF r.tail + k - 1 < N THEN r.tail + k - 1 ELSE r.tail + k - 1 - N
<1>1. /\ r.head \in 0 .. N - 1 /\ r.tail \in 0 .. N - 1 /\ N \in Nat /\ N >= 2
      /\ r.buf \in [0 .. N - 1 -> Chars]
  BY SizeAssumption DEF RingType, Indices, N
<1>2. s.tail = IF r.tail + 1 < N THEN r.tail + 1 ELSE 0
  <2>1. r.tail + 1 \in 0 .. 2 * N - 1 BY <1>1
  <2> QED BY <1>1, <2>1, WrappedOnce
<1>3. /\ UnreadOf(r) \in Seq(Chars) /\ Len(UnreadOf(r)) = n /\ n \in 1 .. N - 1
      /\ \A k \in 1 .. n : UnreadOf(r)[k] = r.buf[at(k)]
  <2>1. n # 0 BY <1>1
  <2> QED BY <2>1, UnreadLength
<1>4. (IF s.head >= s.tail THEN s.head - s.tail ELSE s.head - s.tail + N) = n - 1
  <2>1. PICK h, t, u : h = r.head /\ t = r.tail /\ u = s.tail OBVIOUS
  <2>2. /\ h \in 0 .. N - 1 /\ t \in 0 .. N - 1 /\ N \in Nat /\ h # t
        /\ u = IF t + 1 < N THEN t + 1 ELSE 0
    BY <1>1, <1>2, <2>1
  <2>3. n = IF h >= t THEN h - t ELSE h - t + N BY <2>1
  <2>4. (IF h >= u THEN h - u ELSE h - u + N) = (IF h >= t THEN h - t ELSE h - t + N) - 1
    <3>1. CASE t + 1 < N BY <2>2, <3>1
    <3>2. CASE t + 1 = N BY <2>2, <3>2
    <3> QED BY <2>2, <3>1, <3>2
  <2> QED BY <2>1, <2>3, <2>4
<1>5. /\ UnreadOf(s) \in Seq(Chars) /\ Len(UnreadOf(s)) = n - 1
      /\ \A k \in 1 .. n - 1 :
           UnreadOf(s)[k] = r.buf[IF s.tail + k - 1 < N THEN s.tail + k - 1
                                                        ELSE s.tail + k - 1 - N]
  BY <1>4, UnreadLength
<1> HIDE DEF n
<1>6. ASSUME NEW k \in 1 .. n - 1
      PROVE  (IF s.tail + k - 1 < N THEN s.tail + k - 1 ELSE s.tail + k - 1 - N) = at(k + 1)
  <2>1. s.tail \in 0 .. N - 1 BY <1>1, <1>2
  <2>2. k + 1 \in 2 .. N - 1 /\ k \in 1 .. N - 2 BY <1>1, <1>3
  <2> QED BY <1>1, <1>2, <2>1, <2>2, NextPlace
<1>7. at(1) = r.tail BY <1>1
<1> HIDE DEF at
<1>8. UnreadOf(r) # <<>> BY <1>3
<1>9. Head(UnreadOf(r)) = r.buf[r.tail] BY <1>3, <1>7
<1>10. /\ Tail(UnreadOf(r)) \in Seq(Chars) /\ Len(Tail(UnreadOf(r))) = n - 1
       /\ \A k \in 1 .. n - 1 : Tail(UnreadOf(r))[k] = UnreadOf(r)[k + 1]
  BY <1>3, <1>8, HeadTailProperties
<1>11. ASSUME NEW k \in 1 .. n - 1
       PROVE  UnreadOf(s)[k] = Tail(UnreadOf(r))[k]
  <2>1. UnreadOf(s)[k] = r.buf[at(k + 1)] BY <1>5, <1>6
  <2>2. Tail(UnreadOf(r))[k] = UnreadOf(r)[k + 1] BY <1>10
  <2>3. k + 1 \in 1 .. n /\ n \in Nat BY <1>3
  <2>4. UnreadOf(r)[k + 1] = r.buf[at(k + 1)] BY <1>3, <2>3
  <2> QED BY <2>1, <2>2, <2>4
<1> QED BY <1>5, <1>8, <1>9, <1>10, <1>11, SeqEqual

(* Without an overflow a push leaves the tail and its character alone.     *)
LEMMA PushKeepsTail ==
  ASSUME NEW r \in RingType, NEW c \in Chars, r.head # r.tail, ~KbdPushback(r, c).overflow
  PROVE  /\ ~r.overflow
         /\ KbdPushback(r, c).tail = r.tail
         /\ KbdPushback(r, c).buf[r.tail] = r.buf[r.tail]
<1>1. CASE Wrapped(r.head + 1) # r.tail
  <2>1. KbdPushback(r, c) = Stored(r, c) BY <1>1 DEF KbdPushback
  <2> QED BY <2>1 DEF Stored, RingType
<1>2. CASE Wrapped(r.head + 1) = r.tail
  <2>1. KbdPushback(r, c) = Stored(OverflowKbdBfr, c) BY <1>2 DEF KbdPushback
  <2> QED BY <2>1 DEF Stored, OverflowKbdBfr
<1> QED BY <1>1, <1>2

LEMMA PushAllKeepsTail ==
  ASSUME NEW r \in RingType, NEW cs \in Seq(Chars), Len(cs) \in 1 .. 3, r.head # r.tail,
         ~PushAll(r, cs).overflow
  PROVE  /\ PushAll(r, cs).tail = r.tail
         /\ PushAll(r, cs).buf[r.tail] = r.buf[r.tail]
<1> DEFINE one   == KbdPushback(r, cs[1])
           two   == KbdPushback(one, cs[2])
           three == KbdPushback(two, cs[3])
           Kept(s) == ~s.overflow => s.tail = r.tail /\ s.buf[r.tail] = r.buf[r.tail]
<1>1. one \in RingType /\ one.head # one.tail /\ Kept(one)
  BY PushNonEmpty, PushKeepsTail
<1>2. Len(cs) \in {2, 3} => two \in RingType /\ two.head # two.tail /\ Kept(two)
  <2>1. Len(cs) \in {2, 3} => cs[2] \in Chars OBVIOUS
  <2> HIDE DEF one
  <2>2. Len(cs) \in {2, 3} => two \in RingType /\ two.head # two.tail
    BY <1>1, <2>1, PushNonEmpty
  <2>3. ASSUME Len(cs) \in {2, 3}, ~two.overflow
        PROVE  two.tail = r.tail /\ two.buf[r.tail] = r.buf[r.tail]
    <3>1. /\ ~one.overflow /\ two.tail = one.tail
          /\ two.buf[one.tail] = one.buf[one.tail]
      BY <1>1, <2>1, <2>3, PushKeepsTail
    <3> QED BY <1>1, <3>1
  <2> QED BY <2>2, <2>3
<1>3. Len(cs) = 3 => Kept(three)
  <2>1. Len(cs) = 3 => cs[3] \in Chars BY ElementOfSeq
  <2> HIDE DEF two
  <2> QED BY <1>2, <2>1, PushKeepsTail
<1>4. PushAll(r, cs) = CASE Len(cs) = 1 -> one
                         [] Len(cs) = 2 -> two
                         [] Len(cs) = 3 -> three
  BY DEF PushAll
<1> HIDE DEF one, two, three
<1> QED BY <1>1, <1>2, <1>3, <1>4

-----------------------------------------------------------------------------
(* Until an overflow tears it, what the reader has loaded is what the ring *)
(* still has at its tail.                                                  *)
LoadedInv ==
  /\ pc = "store" => rChar # NoChar
  /\ ~torn =>
       /\ pc = "access" /\ rIndex # NoIndex => rIndex = kbd_buf_tail
       /\ HoldsTail /\ rTail # NoIndex => rTail = kbd_buf_tail
       /\ HoldsTail /\ rChar # NoChar => rChar = kbd_drvr_buf[kbd_buf_tail]

QueueInv == KbdInv /\ LoadedInv /\ autoflush = 0

LEMMA UnreadIsOfRing == Unread = UnreadOf(Ring)
BY DEF Unread, UnreadOf, Ring, N

(* An interrupt types the characters it pushes.                            *)
LEMMA InterruptTypes ==
  ASSUME QueueInv, NEW sc \in Scancodes, KeyboardDriverMain(sc)
  PROVE  /\ LoadedInv' /\ autoflush' = 0
         /\ ~torn' => ~torn /\ \E cs \in Produced : Queue!Type(cs)
<1>1. KbdInv /\ TypeOK /\ autoflush = 0 BY DEF QueueInv, KbdInv
<1>2. UNCHANGED <<pc, rHead, rIndex, rChar, rTail, taken>>
  BY DEF KeyboardDriverMain, reader, registers
<1>3. autoflush' = 0
  BY <1>1 DEF KeyboardDriverMain, ExtendedPrefix, ExtendedBreak, ExtendedWhileReading,
    ExtendedKey, Break, ShiftMake, CapsLock, PlainKey
<1>4. \/ NothingPushed
      \/ \E cs \in Produced \ {<<>>} : Push(cs) /\ echo' = cs
  <2>1. CASE ExtendedKey(sc) /\ sc \in Arrows
    <3>1. ArrowSequence(sc) \in Produced /\ Len(ArrowSequence(sc)) = 3
      BY <2>1 DEF ArrowSequence, Produced
    <3> QED BY <2>1, <3>1 DEF ExtendedKey
  <2>2. CASE PlainKey(sc) /\ CharOf(sc) # "NUL"
    <3>1. sc \in 0 .. 127 BY <2>2, ScancodesAssumption DEF PlainKey
    <3>2. CharOf(sc) \in {"a", "1", "A", "!", "NL", "BS"}
      BY <2>2, <3>1 DEF CharOf, USLayoutShft, USLayoutCaps, USLayoutNrml, Layout, Letter,
                        Digit, Backspace, Enter
    <3>3. Flushed(CharOf(sc)) \in Produced /\ Flushed(CharOf(sc)) # <<>>
      <4>1. CASE CharOf(sc) = "BS" BY <4>1 DEF Flushed, Produced
      <4>2. CASE CharOf(sc) # "BS" BY <3>2, <4>2 DEF Flushed, Produced
      <4> QED BY <4>1, <4>2
    <3> QED BY <1>1, <2>2, <3>3 DEF PlainKey, KbdFlushCheck
  <2> QED BY <2>1, <2>2 DEF KeyboardDriverMain, ExtendedPrefix, ExtendedBreak,
        ExtendedWhileReading, ExtendedKey, Break, ShiftMake, CapsLock, PlainKey
<1>5. CASE NothingPushed
  <2>1. UNCHANGED <<kbd_drvr_buf, kbd_buf_head, kbd_buf_tail, torn>> /\ echo' = <<>>
    BY <1>5 DEF NothingPushed, ring
  <2>2. LoadedInv' BY <1>2, <2>1 DEF QueueInv, LoadedInv, HoldsTail
  <2>3. Unread' = Unread BY <2>1 DEF Unread
  <2>4. Queue!Type(<<>>) BY <1>2, <2>1, <2>3 DEF Queue!Type, Queue!EnqueueAll
  <2>5. <<>> \in Produced BY DEF Produced
  <2> QED BY <1>3, <2>1, <2>2, <2>4, <2>5
<1>6. ASSUME NEW cs \in Produced \ {<<>>}, Push(cs), echo' = cs
      PROVE  LoadedInv' /\ (~torn' => ~torn /\ Queue!Type(cs))
  <2>1. cs \in Seq(Chars) /\ Len(cs) \in 1 .. 3
    <3>1. ASSUME NEW c \in Chars, cs = <<c>> PROVE cs \in Seq(Chars) /\ Len(cs) = 1
      BY <3>1
    <3>2. "NUL" \in Chars /\ "BS" \in Chars BY DEF Chars
    <3>3. ASSUME NEW k \in Arrows, cs = ArrowSequence(k) PROVE cs \in Seq(Chars) /\ Len(cs) = 3
      <4> DEFINE d == CASE k = 72 -> "A" [] k = 80 -> "B" [] k = 75 -> "D" [] k = 77 -> "C"
      <4>1. d \in Chars BY DEF Arrows, Chars
      <4>2. cs = <<"ESC", "[", d>> BY <3>3 DEF ArrowSequence
      <4> HIDE DEF d
      <4> QED BY <4>1, <4>2 DEF Chars
    <3>4. {"a", "1", "A", "!", "NL"} \subseteq Chars BY DEF Chars
    <3>5. \/ \E c \in Chars : cs = <<c>>
          \/ cs = <<"NUL", "BS">>
          \/ \E k \in Arrows : cs = ArrowSequence(k)
      BY <3>4 DEF Produced, Flushed
    <3>6. cs = <<"NUL", "BS">> => cs \in Seq(Chars) /\ Len(cs) = 2 BY <3>2
    <3> QED BY <3>1, <3>3, <3>5, <3>6
  <2>2. Ring \in RingType BY <1>1 DEF Ring, RingType, TypeOK
  <2> DEFINE r == PushAll(Ring, cs)
  <2>3. /\ kbd_drvr_buf' = r.buf /\ kbd_buf_head' = r.head /\ kbd_buf_tail' = r.tail
        /\ torn' = (torn \/ (r.overflow /\ HoldsTail))
    BY <1>6 DEF Push
  <2>4. Unread' = UnreadOf(r) BY <2>3 DEF Unread, UnreadOf, N
  <2>5. Unread' = Queue!EnqueueAll(Unread, cs)
    BY <2>1, <2>2, <2>4, PushAllEnqueues, UnreadIsOfRing
  <2>6. Queue!Type(cs) BY <1>2, <1>6, <2>5 DEF Queue!Type
  <2>7. LoadedInv'
    <3>1. CASE torn' \/ ~HoldsTail
      BY <1>2, <3>1 DEF QueueInv, LoadedInv, HoldsTail
    <3>2. CASE ~torn' /\ HoldsTail
      <4>1. ~r.overflow /\ ~torn BY <2>3, <3>2
      <4>2. kbd_buf_head # kbd_buf_tail
        BY <1>1, <3>2 DEF KbdInv, ReaderFindsChar, HoldsTail
      <4>3. r.tail = kbd_buf_tail /\ r.buf[kbd_buf_tail] = kbd_drvr_buf[kbd_buf_tail]
        BY <2>1, <2>2, <4>1, <4>2, PushAllKeepsTail DEF Ring
      <4> HIDE DEF r
      <4> QED BY <1>2, <2>3, <4>1, <4>3 DEF QueueInv, LoadedInv, HoldsTail
    <3> QED BY <3>1, <3>2
  <2> HIDE DEF r
  <2> QED BY <2>3, <2>6, <2>7
<1> QED BY <1>3, <1>4, <1>5, <1>6

(* The reader takes one character when it stores the tail; its other       *)
(* accesses are not seen.                                                  *)
LEMMA ReaderTakes ==
  ASSUME QueueInv,
         \/ CallKiReadHidC
         \/ \E m \in MaxLens : CallKiReadHidSN(m)
         \/ KiReadHidC
  PROVE  /\ LoadedInv' /\ autoflush' = 0 /\ torn' = torn
         /\ torn \/ Queue!Take \/ UNCHANGED Queue!queueVars
<1> USE DEF byReader, handler, registers, Queue!queueVars
<1>1. TypeOK /\ RegistersInv /\ ReaderFindsChar /\ LoadedInv /\ autoflush = 0
  BY DEF QueueInv, KbdInv
<1>2. CASE \/ CallKiReadHidC
           \/ \E m \in MaxLens : CallKiReadHidSN(m)
           \/ Begin \/ WaitLoadHead \/ WaitLoadTail \/ End
  <2>1. /\ UNCHANGED <<kbd_drvr_buf, kbd_buf_head, kbd_buf_tail, echo, taken, torn>>
        /\ autoflush' = autoflush /\ pc' \notin {"access", "store"}
    BY <1>1, <1>2 DEF CallKiReadHidC, CallKiReadHidSN, Begin, WaitLoadHead, WaitLoadTail, End
  <2>2. Unread' = Unread BY <2>1 DEF Unread
  <2> QED BY <1>1, <2>1, <2>2 DEF LoadedInv, HoldsTail
<1>3. CASE LoadIndex \/ LoadChar \/ LoadTail
  <2>1. /\ UNCHANGED <<kbd_drvr_buf, kbd_buf_head, kbd_buf_tail, echo, taken, torn>>
        /\ autoflush' = autoflush
    BY <1>3 DEF LoadIndex, LoadChar, LoadTail
  <2>2. Unread' = Unread BY <2>1 DEF Unread
  <2>3. kbd_drvr_buf[kbd_buf_tail] # NoChar BY <1>1, NoCharAssumption DEF TypeOK
  <2>4. NoIndex \notin Indices BY SizeAssumption DEF NoIndex, Indices
  <2>5. CASE LoadIndex
    <3>1. rChar' = NoChar /\ rTail' = NoIndex /\ pc' = "access" /\ rIndex' = kbd_buf_tail
      BY <1>1, <2>5 DEF LoadIndex, RegistersInv
    <3>2. LoadedInv' BY <2>1, <3>1 DEF LoadedInv, HoldsTail
    <3> QED BY <1>1, <2>1, <2>2, <3>2
  <2>6. CASE LoadChar
    <3>1. rIndex \in Indices BY <1>1, <2>6 DEF LoadChar, RegistersInv
    <3>2. kbd_drvr_buf[rIndex] # NoChar BY <1>1, <3>1, NoCharAssumption DEF TypeOK
    <3>3. ~torn => rChar' = kbd_drvr_buf[kbd_buf_tail]
      BY <1>1, <2>4, <2>6, <3>1 DEF LoadChar, LoadedInv
    <3>4. rChar' # NoChar BY <2>6, <3>2 DEF LoadChar
    <3>5. rIndex' = NoIndex /\ rTail' = rTail /\ pc' \in {"access", "store"} /\ pc = "access"
      BY <2>6 DEF LoadChar
    <3>6. LoadedInv' BY <1>1, <2>1, <3>3, <3>4, <3>5 DEF LoadedInv, HoldsTail
    <3> QED BY <1>1, <2>1, <2>2, <3>6
  <2>7. CASE LoadTail
    <3>1. LoadedInv' BY <1>1, <2>1, <2>7 DEF LoadTail, LoadedInv, HoldsTail
    <3> QED BY <1>1, <2>1, <2>2, <3>1
  <2> QED BY <1>1, <1>3, <2>1, <2>2, <2>5, <2>6, <2>7
<1>4. CASE StoreTail
  <2>1. /\ UNCHANGED <<kbd_drvr_buf, kbd_buf_head, echo, torn>> /\ autoflush' = autoflush
        /\ pc' = "end" /\ taken' = rChar /\ kbd_buf_tail' = Wrapped(rTail + 1)
    BY <1>4 DEF StoreTail
  <2>2. LoadedInv' BY <2>1 DEF LoadedInv, HoldsTail
  <2>3. ASSUME ~torn PROVE Queue!Take
    <3>1. rTail = kbd_buf_tail /\ rChar = kbd_drvr_buf[kbd_buf_tail]
      <4>1. rTail \in Indices /\ rChar # NoChar
        BY <1>1, <1>4 DEF StoreTail, RegistersInv, LoadedInv
      <4>2. NoIndex \notin Indices BY SizeAssumption DEF NoIndex, Indices
      <4> QED BY <1>1, <1>4, <2>3, <4>1, <4>2 DEF StoreTail, LoadedInv, HoldsTail
    <3>2. kbd_buf_head # kbd_buf_tail BY <1>1, <1>4 DEF StoreTail, ReaderFindsChar
    <3> DEFINE r == Ring
               s == [Ring EXCEPT !.tail = Wrapped(kbd_buf_tail + 1)]
    <3>3. r \in RingType BY <1>1 DEF Ring, RingType, TypeOK
    <3>4. Wrapped(kbd_buf_tail + 1) \in Indices
      BY <1>1, SizeAssumption DEF TypeOK, Indices, Wrapped
    <3>5. s \in RingType /\ s.buf = r.buf /\ s.head = r.head
          /\ s.tail = Wrapped(r.tail + 1)
      BY <3>3, <3>4 DEF RingType, Ring
    <3>6. r.head # r.tail /\ r.buf[r.tail] = kbd_drvr_buf[kbd_buf_tail]
      BY <3>2 DEF Ring
    <3>7. Unread = UnreadOf(r) /\ Unread' = UnreadOf(s)
      <4>1. s.buf = kbd_drvr_buf' /\ s.head = kbd_buf_head' /\ s.tail = kbd_buf_tail'
        BY <2>1, <3>1 DEF Ring
      <4> QED BY <4>1, UnreadIsOfRing DEF Unread, UnreadOf, N
    <3> HIDE DEF r, s
    <3> QED BY <2>1, <3>1, <3>3, <3>5, <3>6, <3>7, TailTakes DEF Queue!Take
  <2> QED BY <1>1, <2>1, <2>2, <2>3
<1> QED BY <1>2, <1>3, <1>4 DEF KiReadHidC

LEMMA QueueInit ==
  Init => QueueInv /\ Queue!QueueInit
<1> SUFFICES ASSUME Init PROVE QueueInv /\ Queue!QueueInit OBVIOUS
<1>1. KbdInv BY InitIsKbdInv
<1>2. LoadedInv /\ autoflush = 0 BY DEF Init, LoadedInv, HoldsTail
<1>3. Ring \in RingType BY <1>1 DEF Ring, RingType, KbdInv, TypeOK
<1>4. Unread \in Seq(Chars) /\ Len(Unread) = 0
  <2>1. Ring.head = 0 /\ Ring.tail = 0 BY DEF Ring, Init
  <2> QED BY <1>3, <2>1, UnreadLength, UnreadIsOfRing
<1>5. Unread = <<>> BY <1>4, EmptySeq
<1> QED BY <1>1, <1>2, <1>5 DEF QueueInv, Queue!QueueInit, Init

(* Every step of the ring with its interrupted readers is a step of the    *)
(* atomic queue, or none, for every size of the ring.                      *)
LEMMA QueueStep ==
  QueueInv /\ [Next]_vars => QueueInv' /\ [Queue!QueueNext]_(Queue!queueVars)
<1> SUFFICES ASSUME QueueInv, [Next]_vars
             PROVE  QueueInv' /\ [Queue!QueueNext]_(Queue!queueVars)
  OBVIOUS
<1>1. KbdInv' BY KbdStep DEF QueueInv
<1>2. ASSUME NEW sc \in Scancodes, KeyboardDriverMain(sc)
      PROVE  LoadedInv' /\ autoflush' = 0 /\ [Queue!QueueNext]_(Queue!queueVars)
  BY <1>2, InterruptTypes DEF Queue!QueueNext
<1>3. CASE CallKiReadHidC \/ (\E m \in MaxLens : CallKiReadHidSN(m)) \/ KiReadHidC
  BY <1>1, <1>3, ReaderTakes DEF QueueInv, Queue!QueueNext
<1>4. CASE UNCHANGED vars
  <2>1. UNCHANGED <<kbd_drvr_buf, kbd_buf_head, kbd_buf_tail, echo, taken, torn, autoflush,
                    pc, rIndex, rTail, rChar>>
    BY <1>4 DEF vars, ring, handler, reader, registers
  <2>2. Unread' = Unread BY <2>1 DEF Unread
  <2> QED BY <1>1, <2>1, <2>2 DEF QueueInv, LoadedInv, HoldsTail, Queue!queueVars
<1> QED BY <1>1, <1>2, <1>3, <1>4 DEF QueueInv, Next

(* The driver implements the bounded lossy queue, for every size of the    *)
(* ring, every set of scancodes and both builds.                           *)
THEOREM KbdImplementsQueue == Spec => IsQueue
<1> QED BY QueueInit, QueueStep, PTL DEF Spec, IsQueue, Queue!QueueSpec

-----------------------------------------------------------------------------
(* In a build that keeps the store of true, the flag is set while a reader *)
(* is between its wait and its store of the tail.                          *)
FlagInv ==
  storeKept /\ pc \in {"wait", "index", "access", "store", "end"} => buffering_read

LEMMA FlagStep == FlagInv /\ [Next]_vars => FlagInv'
<1> SUFFICES ASSUME FlagInv, [Next]_vars PROVE FlagInv' OBVIOUS
<1>1. CASE UNCHANGED vars BY <1>1 DEF FlagInv, vars, reader
<1>2. ASSUME NEW sc \in Scancodes, KeyboardDriverMain(sc) PROVE FlagInv'
  BY <1>2 DEF FlagInv, KeyboardDriverMain, reader
<1>3. CASE CallKiReadHidC \/ \E m \in MaxLens : CallKiReadHidSN(m)
  BY <1>3 DEF FlagInv, CallKiReadHidC, CallKiReadHidSN, byReader
<1>4. CASE Begin BY <1>4 DEF FlagInv, Begin, byReader
<1>5. CASE End BY <1>5 DEF FlagInv, End, byReader
<1>6. CASE WaitLoadHead \/ WaitLoadTail \/ LoadIndex \/ LoadChar \/ LoadTail \/ StoreTail
  <2>1. /\ UNCHANGED <<storeKept, buffering_read>>
        /\ pc \in {"wait", "index", "access", "store"}
    BY <1>6 DEF WaitLoadHead, WaitLoadTail, LoadIndex, LoadChar, LoadTail, StoreTail, byReader
  <2> QED BY <2>1 DEF FlagInv
<1> QED BY <1>1, <1>2, <1>3, <1>4, <1>5, <1>6 DEF Next, KiReadHidC

(* With the store kept, no arrow key gets into the ring while a reader     *)
(* waits for a character or takes one, for every size of the ring.         *)
THEOREM ArrowsStayOut == Spec => ArrowsHeldOff
<1>1. Init => FlagInv BY DEF Init, FlagInv
<1>2. ASSUME FlagInv, [Next]_vars, storeKept, pc \in {"wait", "index", "access", "store"},
             extended, ~extended'
      PROVE  UNCHANGED ring
  <2>1. CASE UNCHANGED vars BY <2>1 DEF vars
  <2>2. ASSUME NEW sc \in Scancodes, KeyboardDriverMain(sc) PROVE UNCHANGED ring
    <3>1. ~ExtendedKey(sc) BY <1>2 DEF ExtendedKey, FlagInv
    <3>2. ExtendedBreak(sc) \/ ExtendedWhileReading(sc)
      BY <1>2, <2>2, <3>1 DEF KeyboardDriverMain, ExtendedPrefix, Break, ShiftMake, CapsLock,
                              PlainKey
    <3> QED BY <3>2 DEF ExtendedBreak, ExtendedWhileReading, NothingPushed
  <2>3. CASE CallKiReadHidC \/ (\E m \in MaxLens : CallKiReadHidSN(m)) \/ KiReadHidC
    <3>1. extended' = extended
      BY <2>3 DEF CallKiReadHidC, CallKiReadHidSN, KiReadHidC, Begin, WaitLoadHead,
                  WaitLoadTail, LoadIndex, LoadChar, LoadTail, StoreTail, End, byReader, handler
    <3> QED BY <1>2, <3>1
  <2> QED BY <1>2, <2>1, <2>2, <2>3 DEF Next
<1> QED BY <1>1, <1>2, FlagStep, PTL DEF Spec, ArrowsHeldOff
=============================================================================
