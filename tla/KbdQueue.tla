------------------------------ MODULE KbdQueue ------------------------------
(***************************************************************************)
(* What the keyboard driver of kernel/src/Drivers/PS2Keyboard/driver.c     *)
(* promises its reader: the characters typed, in the order typed, in a     *)
(* queue of bounded length that forgets everything unread when it          *)
(* overflows; and the user sees on the screen what entered the queue.      *)
(*                                                                         *)
(* The promise ends when the queue overflows while a character is being    *)
(* taken out: from then on the queue is torn and nothing is promised.      *)
(***************************************************************************)
EXTENDS Integers, Sequences

CONSTANTS
  Capacity,   \* characters the queue holds, at least one
  Strokes,    \* sequences of characters one byte of the keyboard may produce
  NoChar      \* before the first character is taken

VARIABLES
  queue,   \* characters typed and not yet read
  taken,   \* the character read last
  shown,   \* what the last interrupt printed on the screen
  torn     \* an overflow hit a reader taking a character

queueVars == <<queue, taken, shown, torn>>

-----------------------------------------------------------------------------
(* A full queue forgets what it has, the new character excepted.           *)
Enqueue(q, c) == IF Len(q) = Capacity THEN <<c>> ELSE Append(q, c)

(* The queue after all the characters of one byte: three at most.          *)
EnqueueAll(q, cs) ==
  LET one == Enqueue(q, cs[1])
      two == Enqueue(one, cs[2])
  IN  CASE Len(cs) = 0 -> q
        [] Len(cs) = 1 -> one
        [] Len(cs) = 2 -> two
        [] Len(cs) = 3 -> Enqueue(two, cs[3])

QueueInit ==
  /\ queue = <<>>
  /\ taken = NoChar
  /\ shown = <<>>
  /\ torn = FALSE

Type(cs) ==
  /\ queue' = EnqueueAll(queue, cs)
  /\ shown' = cs
  /\ UNCHANGED taken

Take ==
  /\ queue # <<>>
  /\ taken' = Head(queue)
  /\ queue' = Tail(queue)
  /\ UNCHANGED shown

QueueNext ==
  \/ ~torn' /\ ~torn /\ ((\E cs \in Strokes : Type(cs)) \/ Take)
  \/ torn'

QueueSpec == QueueInit /\ [][QueueNext]_queueVars
=============================================================================
