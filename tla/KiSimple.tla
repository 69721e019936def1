------------------------------ MODULE KiSimple ------------------------------
(***************************************************************************)
(* The memory functions of kernel/src/KiSimple.c, one turn of a loop per   *)
(* step.  The compiler calls them for its own copies as well, so that they *)
(* stand under everything else in the kernel.                              *)
(***************************************************************************)
EXTENDS Integers

CONSTANTS
  Size,     \* addresses of the memory: 0 .. Size - 1
  Values,   \* values a byte can have, 256 in the code
  Ints      \* arguments memset is called with for its int c

ASSUME SizeAssumption   == Size \in Nat
ASSUME ValuesAssumption == Values \in Nat \ {0}
ASSUME IntsAssumption   == Ints \subseteq Int

Addresses == 0 .. (Size - 1)
Bytes     == 0 .. (Values - 1)

VARIABLES
  memory,
  op,            \* the function called, "none" before the first call
  pc,            \* the loop it is in, "idle" when it has returned
  dest, src, n,  \* its arguments; s1 and s2 of memcmp, s of memset
  byte,          \* (uint8_t)c of memset
  i,             \* the loop's counter
  before,        \* history: the memory when the function was called
  ret            \* result of memcmp

args == <<op, dest, src, n, byte, before>>
vars == <<memory, args, pc, i, ret>>

-----------------------------------------------------------------------------
Init ==
  /\ memory \in [Addresses -> Bytes]
  /\ op = "none" /\ pc = "idle"
  /\ dest = 0 /\ src = 0 /\ n = 0 /\ byte = 0 /\ i = 0
  /\ before = memory
  /\ ret = 0

(* What every call starts with; the callers' ranges lie in the memory.     *)
Call(f, d, s, k) ==
  /\ pc = "idle"
  /\ d + k <= Size /\ s + k <= Size
  /\ op' = f /\ dest' = d /\ src' = s /\ n' = k
  /\ before' = memory
  /\ UNCHANGED <<memory, ret>>

Disjoint(d, s, k) == d + k <= s \/ s + k <= d

(* restrict: the caller's ranges do not overlap.                           *)
memcpy(d, s, k) ==
  /\ Disjoint(d, s, k)
  /\ Call("memcpy", d, s, k)
  /\ pc' = "forward" /\ i' = 0
  /\ UNCHANGED byte

(* Mutant of memmove: always from the front.                               *)
memmoveForward(d, s, k) ==
  /\ Call("memmove", d, s, k)
  /\ pc' = "forward" /\ i' = 0
  /\ UNCHANGED byte

memmove(d, s, k) ==
  /\ Call("memmove", d, s, k)
  /\ \/ s > d /\ pc' = "forward" /\ i' = 0
     \/ s < d /\ pc' = "backward" /\ i' = k
     \/ s = d /\ UNCHANGED pc /\ i' = 0
  /\ UNCHANGED byte

(* Mutant of memset: the int c is stored as it is.                         *)
memsetInt(d, c, k) ==
  /\ Call("memset", d, d, k)
  /\ pc' = "fill" /\ i' = 0
  /\ byte' = c

memset(d, c, k) ==
  /\ Call("memset", d, d, k)
  /\ pc' = "fill" /\ i' = 0
  /\ byte' = c % Values

memcmp(d, s, k) ==
  /\ Call("memcmp", d, s, k)
  /\ pc' = "compare" /\ i' = 0
  /\ UNCHANGED byte

(* One turn of a loop: its body, or its end.                               *)
Forward(loop, value) ==
  /\ pc = loop
  /\ \/ /\ i < n
        /\ memory' = [memory EXCEPT ![dest + i] = value]
        /\ i' = i + 1
        /\ UNCHANGED pc
     \/ /\ i = n
        /\ pc' = "idle"
        /\ UNCHANGED <<memory, i>>
  /\ UNCHANGED <<args, ret>>

CopyForward == Forward("forward", memory[src + i])

(* Mutants of Fill and CopyBackward: the last byte is left out; the test   *)
(* i >= 0, which an unsigned counter always meets.                         *)
FillShort ==
  /\ pc = "fill"
  /\ \/ /\ i + 1 < n
        /\ memory' = [memory EXCEPT ![dest + i] = byte]
        /\ i' = i + 1
        /\ UNCHANGED pc
     \/ /\ i + 1 >= n
        /\ pc' = "idle"
        /\ UNCHANGED <<memory, i>>
  /\ UNCHANGED <<args, ret>>

Fill == Forward("fill", byte)

CopyBackwardForever ==
  /\ pc = "backward"
  /\ \/ /\ i > 0
        /\ memory' = [memory EXCEPT ![dest + i - 1] = memory[src + i - 1]]
        /\ i' = i - 1
     \/ /\ i = 0
        /\ i' = n
        /\ UNCHANGED memory
  /\ UNCHANGED <<args, pc, ret>>

CopyBackward ==
  /\ pc = "backward"
  /\ \/ /\ i > 0
        /\ memory' = [memory EXCEPT ![dest + i - 1] = memory[src + i - 1]]
        /\ i' = i - 1
        /\ UNCHANGED pc
     \/ /\ i = 0
        /\ pc' = "idle"
        /\ UNCHANGED <<memory, i>>
  /\ UNCHANGED <<args, ret>>

(* Mutant of Sign: the bytes compared as signed characters.                *)
SignOfChars(a, b) ==
  IF (a + Values \div 2) % Values < (b + Values \div 2) % Values THEN -1 ELSE 1

Sign(a, b) == IF a < b THEN -1 ELSE 1

Compare ==
  /\ pc = "compare"
  /\ \/ /\ i < n
        /\ memory[dest + i] = memory[src + i]
        /\ i' = i + 1
        /\ UNCHANGED <<pc, ret>>
     \/ /\ i < n
        /\ memory[dest + i] # memory[src + i]
        /\ pc' = "idle"
        /\ ret' = Sign(memory[dest + i], memory[src + i])
        /\ UNCHANGED i
     \/ /\ i = n
        /\ pc' = "idle"
        /\ ret' = 0
        /\ UNCHANGED i
  /\ UNCHANGED <<memory, args>>

Loop == CopyForward \/ CopyBackward \/ Fill \/ Compare

Next ==
  \/ \E d, s, k \in 0 .. Size : \/ memcpy(d, s, k)
                                \/ memmove(d, s, k)
                                \/ memcmp(d, s, k)
  \/ \E d, k \in 0 .. Size, c \in Ints : memset(d, c, k)
  \/ Loop

(* The processor goes on with a loop it is in; nothing makes a caller call.*)
Spec == Init /\ [][Next]_vars /\ WF_vars(Loop)

-----------------------------------------------------------------------------
TypeOK ==
  /\ memory \in [Addresses -> Bytes] /\ before \in [Addresses -> Bytes]
  /\ op \in {"none", "memcpy", "memmove", "memset", "memcmp"}
  /\ pc \in {"idle", "forward", "backward", "fill", "compare"}
  /\ dest \in 0 .. Size /\ src \in 0 .. Size /\ n \in 0 .. Size
  /\ dest + n <= Size /\ src + n <= Size
  /\ byte \in Bytes
  /\ i \in 0 .. n
  /\ ret \in {-1, 0, 1}

Target == dest .. (dest + n - 1)

(* memmove and memcpy move the bytes the source range held at the call,    *)
(* even when the ranges overlap, and touch nothing else.                   *)
MoveCorrect ==
  (op \in {"memcpy", "memmove"} /\ pc = "idle") =>
    \A a \in Addresses :
      memory[a] = IF a \in Target THEN before[src + (a - dest)] ELSE before[a]

(* memset fills its range with the low byte of its argument, and only it.  *)
FillCorrect ==
  (op = "memset" /\ pc = "idle") =>
    \A a \in Addresses : memory[a] = IF a \in Target THEN byte ELSE before[a]

(* memcmp orders ranges by their first different byte, taken as unsigned,  *)
(* and changes nothing.                                                    *)
CompareCorrect ==
  (op = "memcmp" /\ pc = "idle") =>
    LET differ == {k \in 0 .. (n - 1) : memory[dest + k] # memory[src + k]}
    IN  /\ memory = before
        /\ ret = 0 <=> differ = {}
        /\ \A k \in differ : (\A j \in differ : k <= j) =>
             (ret = -1 <=> memory[dest + k] < memory[src + k])

(* Every call returns: the loops count towards their end.                  *)
CallsReturn == pc # "idle" ~> pc = "idle"
=============================================================================
