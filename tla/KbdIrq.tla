------------------------------- MODULE KbdIrq -------------------------------
(***************************************************************************)
(* The keyboard from the key to the driver: a keyboard that sends the      *)
(* bytes of whole key events, the controller, PICs and handler of Irq, and *)
(* the KeyboardDriverMain of Kbd, which the handler calls with the byte it *)
(* has read (kernel/src/IDT/idt.c:91).                                     *)
(*                                                                         *)
(* What Kbd takes from any source comes here from the controller, and what *)
(* Irq only numbers has a meaning here: bytes that KeyboardFlushBuffer     *)
(* discards, or that it and the handler race for, are missing halves of    *)
(* key events.  Nobody reads the ring in this kernel: the reader of Kbd    *)
(* stays idle.                                                             *)
(***************************************************************************)
EXTENDS Irq

CONSTANTS
  KBD_BUF_SIZE,
  Keys,     \* keys: the bytes sent for press and release
  Shifts,   \* those of them that are shift keys
  NoChar

ASSUME KeysAssumption ==
  /\ \A k \in Keys : {k.make, k.break} \subseteq Seq(0 .. 255) \ {<<>>}
  /\ Shifts \subseteq Keys

(* The bytes of a shift key, set 1 of the scan codes.  Any other key sends *)
(* one of them behind the prefix 224 only, and no prefix last.             *)
ShiftMakes  == {42, 54}
ShiftBreaks == {170, 182}
ShiftCodes  == ShiftMakes \cup ShiftBreaks

ASSUME ShiftsAssumption ==
  /\ \A k \in Shifts : k.make \in {<<b>> : b \in ShiftMakes}
  /\ \A k \in Shifts : k.break \in {<<b>> : b \in ShiftBreaks}
  /\ \A k \in Keys \ Shifts : \A s \in {k.make, k.break} :
       /\ s[Len(s)] # 224
       /\ \A j \in 1 .. Len(s) : s[j] \in ShiftCodes => j > 1 /\ s[j - 1] = 224

VARIABLES
  kbd_drvr_buf, kbd_buf_head, kbd_buf_tail, autoflush, shift, caps, extended, echo,
  data,         \* the byte in the controller's buffer; once read, the last one
  line,         \* bytes the keyboard has still to send of its last key event
  held,         \* keys held down
  overlapped,   \* history: a shift was released while another stayed down
  events,       \* history: key events since KiIdtInit returned, up to 2
  settled       \* history: the last event of a shift key was not the first
                \* event since then, and no byte was read twice after it

driver   == <<kbd_drvr_buf, kbd_buf_head, kbd_buf_tail, autoflush, shift, caps, extended,
              echo>>
keyboard == <<data, line, held, overlapped, events, settled>>
kbdVars  == <<vars, driver, keyboard>>

(* The reader of Kbd, which nobody calls.                                  *)
Reader == [pc |-> "idle", flag |-> FALSE, index |-> -1, char |-> NoChar, count |-> 0]

K == INSTANCE Kbd WITH
       Scancodes <- 0 .. 255, MaxLens <- {1}, Builds <- {FALSE},
       buffering_read <- Reader.flag, storeKept <- Reader.flag, torn <- Reader.flag,
       pc <- Reader.pc, rHead <- Reader.index, rIndex <- Reader.index,
       rChar <- Reader.char, rTail <- Reader.index,
       maxlen <- Reader.count, read <- Reader.count, taken <- Reader.char

-----------------------------------------------------------------------------
KeyboardInit ==
  /\ kbd_drvr_buf = [i \in K!Indices |-> "NUL"]
  /\ kbd_buf_head = 0 /\ kbd_buf_tail = 0
  /\ autoflush = 0 /\ shift = FALSE /\ caps = FALSE /\ extended = FALSE
  /\ echo = <<>>
  /\ data = 0 /\ line = <<>> /\ held = {}
  /\ overlapped = FALSE /\ events = 0 /\ settled = FALSE

(* The keyboard sends a byte, the first of a press or release or the next  *)
(* one of it.                                                              *)
Sends(bytes) ==
  /\ KeyboardSends
  /\ data' = Head(bytes)
  /\ line' = Tail(bytes)

Release(k) ==
  /\ k \in held
  /\ Sends(k.break)
  /\ held' = held \ {k}
  /\ overlapped' = IF k \in Shifts THEN held' \cap Shifts # {} ELSE overlapped

Press(k) ==
  /\ k \notin held
  /\ Sends(k.make)
  /\ held' = held \cup {k}
  /\ overlapped' = (overlapped /\ k \notin Shifts)

(* Bound: the bytes of a key event that has begun are all sent.            *)
KeyEvent ==
  /\ line = <<>>
  /\ \E k \in Keys :
       /\ Press(k) \/ Release(k)
       /\ sent + 1 + Len(line') <= MaxSent
       /\ settled' = IF k \in Shifts THEN boot = "done" /\ events > 0 ELSE settled
  /\ events' = IF boot = "done" /\ events < 2 THEN events + 1 ELSE events
  /\ UNCHANGED driver

SendsRest ==
  /\ line # <<>>
  /\ Sends(line)
  /\ UNCHANGED <<driver, held, overlapped, events, settled>>

(* KiKeyboardHandler: inb(0x60), then KeyboardDriverMain with that byte -  *)
(* after a race with the flush maybe one that was read before.             *)
HandlerReads ==
  /\ HandlerRead
  /\ K!KeyboardDriverMain(data)
  /\ settled' = (settled /\ full)
  /\ UNCHANGED <<data, line, held, overlapped, events>>

(* The rest of the interrupt path leaves driver and keyboard alone.        *)
InterruptPath ==
  /\ \/ \E n \in Lines : OtherDevice(n)
     \/ Interrupt
     \/ SpuriousInterrupt
     \/ KiPicSendEoi
     \/ HandlerReturn
  /\ UNCHANGED <<driver, keyboard>>

Devices == KeyEvent \/ SendsRest

-----------------------------------------------------------------------------
(* Everything sent has been read, and the handler has returned.            *)
Quiet == line = <<>> /\ ~full /\ handler = "none"

(* A shift key is down whenever the driver believes so; and the driver     *)
(* believes so whenever one is down, unless the other one was released     *)
(* since: the driver has one flag for both.                                *)
ShiftFollows ==
  /\ shift => held \cap Shifts # {}
  /\ held \cap Shifts # {} /\ ~overlapped => shift

(* If the flush has discarded nothing, the driver's modifiers are those of *)
(* the keyboard whenever all is quiet: every byte comes to the driver,     *)
(* once, in order, and no byte of an extended key counts as another's.     *)
ModifiersFollowKeys ==
  (Quiet /\ discarded = <<>> /\ ~raced) => ShiftFollows /\ ~extended

(* Whatever the flush has discarded - the first byte of an extended key,   *)
(* its second, the release of a shift - and however it raced with the      *)
(* handler, the driver finds back: the prefix is forgotten after one key   *)
(* event, and the shift flag is right again after the next of a shift key, *)
(* until the handler, after a race, reads a byte twice: read again without *)
(* its prefix, that of an extended key may count as a shift key's.         *)
(* (A caps lock that is discarded stays missed; Keys has none.)            *)
DriverResynchronises ==
  (Quiet /\ boot = "done") =>
    /\ events > 0 => ~extended
    /\ settled => ShiftFollows
=============================================================================
