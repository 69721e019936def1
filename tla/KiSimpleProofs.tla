--------------------------- MODULE KiSimpleProofs ---------------------------
(***************************************************************************)
(* The memory functions are correct for every memory, every byte width,    *)
(* every range and every argument.  A loop's invariant says what it has    *)
(* done so far: i bytes from the front, or all but i from the back.        *)
(***************************************************************************)
EXTENDS KiSimple, TLAPS

(* The range of target indexes a loop has already written.                 *)
Written(from, to) == (dest + from) .. (dest + to - 1)

(* memory holds, on the indexes from .. to - 1 of the target, what the     *)
(* source held at the call, and elsewhere what it held itself.             *)
Moved(from, to) ==
  \A a \in Addresses :
    memory[a] = IF a \in Written(from, to) THEN before[src + (a - dest)]
                                           ELSE before[a]

Filled(to) ==
  \A a \in Addresses : memory[a] = IF a \in Written(0, to) THEN byte ELSE before[a]

Alike(to) == \A k \in 0 .. (to - 1) : memory[dest + k] = memory[src + k]

ForwardInv ==
  pc = "forward" =>
    /\ op \in {"memcpy", "memmove"}
    /\ src > dest \/ Disjoint(dest, src, n)
    /\ Moved(0, i)

BackwardInv ==
  pc = "backward" => op = "memmove" /\ src < dest /\ Moved(i, n)

FillInv    == pc = "fill" => op = "memset" /\ Filled(i)
CompareInv == pc = "compare" => op = "memcmp" /\ memory = before /\ Alike(i)

IInv ==
  /\ TypeOK
  /\ ForwardInv /\ BackwardInv /\ FillInv /\ CompareInv
  /\ MoveCorrect /\ FillCorrect /\ CompareCorrect

USE SizeAssumption, ValuesAssumption, IntsAssumption

-----------------------------------------------------------------------------
LEMMA InitInv == Init => IInv
BY DEF Init, IInv, TypeOK, ForwardInv, BackwardInv, FillInv, CompareInv,
       MoveCorrect, FillCorrect, CompareCorrect, Addresses, Bytes

(* A call of memcpy or memmove starts its loop with nothing moved, or is   *)
(* over at once because source and destination are the same.               *)
LEMMA MoveCalls ==
  ASSUME IInv, NEW d \in 0 .. Size, NEW s \in 0 .. Size, NEW k \in 0 .. Size,
         memcpy(d, s, k) \/ memmove(d, s, k)
  PROVE  IInv'
<1>1. /\ Size \in Nat /\ TypeOK
      /\ d + k <= Size /\ s + k <= Size
      /\ dest' = d /\ src' = s /\ n' = k /\ byte' = byte
      /\ before' = memory /\ memory' = memory /\ ret' = ret
      /\ op' \in {"memcpy", "memmove"}
  BY DEF IInv, memcpy, memmove, Call
<1>2. \/ pc' = "forward" /\ i' = 0 /\ (s > d \/ Disjoint(d, s, k))
      \/ pc' = "backward" /\ i' = k /\ op' = "memmove" /\ s < d
      \/ pc' = "idle" /\ i' = 0 /\ s = d
  BY DEF memcpy, memmove, Call
<1>3. TypeOK'
  BY <1>1, <1>2 DEF TypeOK
<1>4. ForwardInv'
  BY <1>1, <1>2 DEF ForwardInv, Moved, Written, Disjoint, Addresses
<1>5. BackwardInv'
  BY <1>1, <1>2 DEF BackwardInv, Moved, Written, Addresses
<1>6. MoveCorrect'
  BY <1>1, <1>2 DEF MoveCorrect, Target, Addresses
<1>7. FillInv' /\ CompareInv' /\ FillCorrect' /\ CompareCorrect'
  BY <1>1, <1>2 DEF FillInv, CompareInv, FillCorrect, CompareCorrect
<1> QED
  BY <1>3, <1>4, <1>5, <1>6, <1>7 DEF IInv

LEMMA OtherCalls ==
  ASSUME IInv, NEW d \in 0 .. Size, NEW s \in 0 .. Size, NEW k \in 0 .. Size,
         NEW c \in Int, memset(d, c, k) \/ memcmp(d, s, k)
  PROVE  IInv'
<1>1. c % Values \in Bytes
  BY DEF Bytes
<1>2. /\ TypeOK
      /\ d + k <= Size
      /\ dest' = d /\ n' = k /\ i' = 0
      /\ before' = memory /\ memory' = memory /\ ret' = ret
  BY DEF IInv, memset, memcmp, Call
<1>3. \/ op' = "memset" /\ pc' = "fill" /\ src' = d /\ byte' = c % Values
      \/ op' = "memcmp" /\ pc' = "compare" /\ src' = s /\ s + k <= Size /\ byte' = byte
  BY DEF memset, memcmp, Call
<1>4. TypeOK'
  BY <1>1, <1>2, <1>3 DEF TypeOK
<1>5. FillInv' /\ CompareInv'
  BY <1>2, <1>3 DEF FillInv, CompareInv, Filled, Alike, Written, Addresses
<1>6. ForwardInv' /\ BackwardInv' /\ MoveCorrect' /\ FillCorrect' /\ CompareCorrect'
  BY <1>3 DEF ForwardInv, BackwardInv, MoveCorrect, FillCorrect, CompareCorrect
<1> QED
  BY <1>4, <1>5, <1>6 DEF IInv

(* A turn of the forward loop reads a byte no earlier turn has written: it *)
(* lies before the target, or not in it at all.                            *)
LEMMA CopyForwardStep == IInv /\ CopyForward => IInv'
<1> SUFFICES ASSUME IInv, CopyForward PROVE IInv'
  OBVIOUS
<1>1. /\ TypeOK /\ pc = "forward" /\ op \in {"memcpy", "memmove"}
      /\ src > dest \/ Disjoint(dest, src, n)
      /\ Moved(0, i)
      /\ UNCHANGED <<args, ret>>
  BY DEF IInv, ForwardInv, CopyForward, Forward
<1>2. UNCHANGED <<op, dest, src, n, byte, before, ret>>
  BY <1>1 DEF args
<1>3. CASE i < n /\ memory' = [memory EXCEPT ![dest + i] = memory[src + i]]
           /\ i' = i + 1 /\ pc' = pc
  <2>1. /\ dest + i \in Addresses /\ src + i \in Addresses
        /\ src + i \notin Written(0, i)
    BY <1>1, <1>3 DEF TypeOK, Written, Disjoint, Addresses
  <2>2. memory[src + i] = before[src + i]
    BY <1>1, <2>1 DEF Moved
  <2>3. TypeOK'
    BY <1>1, <1>2, <1>3, <2>1 DEF TypeOK
  <2>4. Moved(0, i)'
    <3> SUFFICES ASSUME NEW a \in Addresses
                 PROVE  memory'[a] = IF a \in Written(0, i)'
                                       THEN before[src + (a - dest)] ELSE before[a]
      BY <1>2, <1>3 DEF Moved, Addresses
    <3>1. Written(0, i)' = Written(0, i + 1)
      BY <1>2, <1>3 DEF Written
    <3>2. CASE a = dest + i
      <4>1. memory'[a] = memory[src + i]
        BY <1>1, <1>3, <2>1, <3>2 DEF TypeOK
      <4>2. a \in Written(0, i + 1) /\ src + (a - dest) = src + i
        BY <1>1, <3>2 DEF TypeOK, Written
      <4> QED BY <3>1, <4>1, <4>2, <2>2
    <3>3. CASE a # dest + i
      <4>1. memory'[a] = memory[a]
        BY <1>1, <1>3, <3>3 DEF TypeOK
      <4>2. a \in Written(0, i + 1) <=> a \in Written(0, i)
        BY <1>1, <3>3 DEF TypeOK, Written, Addresses
      <4> QED BY <1>1, <3>1, <4>1, <4>2 DEF Moved
    <3> QED BY <3>2, <3>3
  <2>5. ForwardInv'
    BY <1>1, <1>2, <1>3, <2>4 DEF ForwardInv, Disjoint
  <2> QED
    BY <1>1, <1>2, <1>3, <2>3, <2>5
    DEF IInv, BackwardInv, FillInv, CompareInv, MoveCorrect, FillCorrect, CompareCorrect
<1>4. CASE i = n /\ pc' = "idle" /\ UNCHANGED <<memory, i>>
  <2>1. Target = Written(0, i)
    BY <1>1, <1>4 DEF TypeOK, Target, Written
  <2>2. MoveCorrect'
    BY <1>1, <1>2, <1>4, <2>1 DEF MoveCorrect, Moved, Target, Addresses
  <2> QED
    BY <1>1, <1>2, <1>4, <2>2
    DEF IInv, TypeOK, ForwardInv, BackwardInv, FillInv, CompareInv, FillCorrect,
        CompareCorrect
<1> QED
  BY <1>3, <1>4 DEF CopyForward, Forward

(* A turn of the backward loop reads a byte below all that was written.    *)
LEMMA CopyBackwardStep == IInv /\ CopyBackward => IInv'
<1> SUFFICES ASSUME IInv, CopyBackward PROVE IInv'
  OBVIOUS
<1>1. /\ TypeOK /\ pc = "backward" /\ op = "memmove" /\ src < dest /\ Moved(i, n)
      /\ UNCHANGED <<args, ret>>
  BY DEF IInv, BackwardInv, CopyBackward
<1>2. UNCHANGED <<op, dest, src, n, byte, before, ret>>
  BY <1>1 DEF args
<1>3. CASE i > 0 /\ memory' = [memory EXCEPT ![dest + i - 1] = memory[src + i - 1]]
           /\ i' = i - 1 /\ pc' = pc
  <2>1. /\ dest + i - 1 \in Addresses /\ src + i - 1 \in Addresses
        /\ src + i - 1 \notin Written(i, n)
    BY <1>1, <1>3 DEF TypeOK, Written, Addresses
  <2>2. memory[src + i - 1] = before[src + i - 1]
    BY <1>1, <2>1 DEF Moved
  <2>3. TypeOK'
    BY <1>1, <1>2, <1>3, <2>1 DEF TypeOK
  <2>4. Moved(i, n)'
    <3> SUFFICES ASSUME NEW a \in Addresses
                 PROVE  memory'[a] = IF a \in Written(i, n)'
                                       THEN before[src + (a - dest)] ELSE before[a]
      BY <1>2, <1>3 DEF Moved, Addresses
    <3>1. Written(i, n)' = Written(i - 1, n)
      BY <1>2, <1>3 DEF Written
    <3>2. CASE a = dest + i - 1
      <4>1. memory'[a] = memory[src + i - 1]
        BY <1>1, <1>3, <2>1, <3>2 DEF TypeOK
      <4>2. a \in Written(i - 1, n) /\ src + (a - dest) = src + i - 1
        BY <1>1, <1>3, <3>2 DEF TypeOK, Written
      <4> QED BY <3>1, <4>1, <4>2, <2>2
    <3>3. CASE a # dest + i - 1
      <4>1. memory'[a] = memory[a]
        BY <1>1, <1>3, <3>3 DEF TypeOK
      <4>2. a \in Written(i - 1, n) <=> a \in Written(i, n)
        BY <1>1, <1>3, <3>3 DEF TypeOK, Written, Addresses
      <4> QED BY <1>1, <3>1, <4>1, <4>2 DEF Moved
    <3> QED BY <3>2, <3>3
  <2>5. BackwardInv'
    BY <1>1, <1>2, <1>3, <2>4 DEF BackwardInv
  <2> QED
    BY <1>1, <1>2, <1>3, <2>3, <2>5
    DEF IInv, ForwardInv, FillInv, CompareInv, MoveCorrect, FillCorrect, CompareCorrect
<1>4. CASE i = 0 /\ pc' = "idle" /\ UNCHANGED <<memory, i>>
  <2>1. Target = Written(i, n)
    BY <1>1, <1>4 DEF TypeOK, Target, Written
  <2>2. MoveCorrect'
    BY <1>1, <1>2, <1>4, <2>1 DEF MoveCorrect, Moved, Target, Addresses
  <2> QED
    BY <1>1, <1>2, <1>4, <2>2
    DEF IInv, TypeOK, ForwardInv, BackwardInv, FillInv, CompareInv, FillCorrect,
        CompareCorrect
<1> QED
  BY <1>3, <1>4 DEF CopyBackward

LEMMA FillStep == IInv /\ Fill => IInv'
<1> SUFFICES ASSUME IInv, Fill PROVE IInv'
  OBVIOUS
<1>1. /\ TypeOK /\ pc = "fill" /\ op = "memset" /\ Filled(i)
      /\ UNCHANGED <<args, ret>>
  BY DEF IInv, FillInv, Fill, Forward
<1>2. UNCHANGED <<op, dest, src, n, byte, before, ret>>
  BY <1>1 DEF args
<1>3. CASE i < n /\ memory' = [memory EXCEPT ![dest + i] = byte]
           /\ i' = i + 1 /\ pc' = pc
  <2>1. dest + i \in Addresses
    BY <1>1, <1>3 DEF TypeOK, Addresses
  <2>2. TypeOK'
    BY <1>1, <1>2, <1>3, <2>1 DEF TypeOK
  <2>3. Filled(i)'
    <3> SUFFICES ASSUME NEW a \in Addresses
                 PROVE  memory'[a] = IF a \in Written(0, i + 1) THEN byte ELSE before[a]
      BY <1>2, <1>3 DEF Filled, Written, Addresses
    <3>1. CASE a = dest + i
      BY <1>1, <1>3, <2>1, <3>1 DEF TypeOK, Written
    <3>2. CASE a # dest + i
      <4>1. memory'[a] = memory[a]
        BY <1>1, <1>3, <3>2 DEF TypeOK
      <4>2. a \in Written(0, i + 1) <=> a \in Written(0, i)
        BY <1>1, <3>2 DEF TypeOK, Written, Addresses
      <4> QED BY <1>1, <4>1, <4>2 DEF Filled
    <3> QED BY <3>1, <3>2
  <2> QED
    BY <1>1, <1>2, <1>3, <2>2, <2>3
    DEF IInv, ForwardInv, BackwardInv, FillInv, CompareInv, MoveCorrect, FillCorrect,
        CompareCorrect
<1>4. CASE i = n /\ pc' = "idle" /\ UNCHANGED <<memory, i>>
  <2>1. Target = Written(0, i)
    BY <1>1, <1>4 DEF TypeOK, Target, Written
  <2>2. FillCorrect'
    BY <1>1, <1>2, <1>4, <2>1 DEF FillCorrect, Filled, Target, Addresses
  <2> QED
    BY <1>1, <1>2, <1>4, <2>2
    DEF IInv, TypeOK, ForwardInv, BackwardInv, FillInv, CompareInv, MoveCorrect,
        CompareCorrect
<1> QED
  BY <1>3, <1>4 DEF Fill, Forward

(* memcmp ends at the first difference: all before it is alike.            *)
LEMMA CompareStep == IInv /\ Compare => IInv'
<1> SUFFICES ASSUME IInv, Compare PROVE IInv'
  OBVIOUS
<1>1. /\ TypeOK /\ pc = "compare" /\ op = "memcmp" /\ memory = before /\ Alike(i)
      /\ UNCHANGED <<memory, op, dest, src, n, byte, before>>
  BY DEF IInv, CompareInv, Compare, args
<1>2. /\ \A k \in 0 .. (n - 1) : dest + k \in Addresses /\ src + k \in Addresses
      /\ \A a \in Addresses : memory[a] \in Bytes
  BY <1>1 DEF TypeOK, Addresses
<1>3. CASE i < n /\ memory[dest + i] = memory[src + i] /\ i' = i + 1
           /\ UNCHANGED <<pc, ret>>
  <2>1. Alike(i)'
    BY <1>1, <1>3 DEF Alike, TypeOK
  <2> QED
    BY <1>1, <1>3, <2>1
    DEF IInv, TypeOK, ForwardInv, BackwardInv, FillInv, CompareInv, MoveCorrect,
        FillCorrect, CompareCorrect
<1>4. CASE i < n /\ memory[dest + i] # memory[src + i] /\ pc' = "idle"
           /\ ret' = Sign(memory[dest + i], memory[src + i]) /\ i' = i
  <2>1. i \in 0 .. (n - 1) /\ \A k \in 0 .. (n - 1) :
           memory[dest + k] # memory[src + k] => i <= k
    BY <1>1, <1>4 DEF Alike, TypeOK
  <2>2. ret' \in {-1, 1}
    BY <1>4 DEF Sign
  <2>3. ret' = -1 <=> memory[dest + i] < memory[src + i]
    BY <1>4 DEF Sign
  <2>4. CompareCorrect'
    <3> DEFINE differ == {k \in 0 .. (n - 1) : memory[dest + k] # memory[src + k]}
    <3>1. i \in differ
      BY <1>4, <2>1
    <3>2. \A k \in differ : (\A j \in differ : k <= j) => k = i
      BY <2>1, <3>1
    <3>3. ret' # 0
      BY <2>2
    <3> QED
      BY <1>1, <2>3, <3>1, <3>2, <3>3 DEF CompareCorrect
  <2> QED
    BY <1>1, <1>4, <2>2, <2>4
    DEF IInv, TypeOK, ForwardInv, BackwardInv, FillInv, CompareInv, MoveCorrect,
        FillCorrect
<1>5. CASE i = n /\ pc' = "idle" /\ ret' = 0 /\ i' = i
  <2>1. CompareCorrect'
    BY <1>1, <1>5 DEF CompareCorrect, Alike
  <2> QED
    BY <1>1, <1>5, <2>1
    DEF IInv, TypeOK, ForwardInv, BackwardInv, FillInv, CompareInv, MoveCorrect,
        FillCorrect
<1> QED
  BY <1>3, <1>4, <1>5 DEF Compare

LEMMA StutterInv == IInv /\ UNCHANGED vars => IInv'
BY DEF IInv, vars, args, TypeOK, ForwardInv, BackwardInv, FillInv, CompareInv,
       MoveCorrect, FillCorrect, CompareCorrect, Moved, Filled, Alike, Written, Target

-----------------------------------------------------------------------------
(* The inductive invariant: the loops' own, with the results.              *)
THEOREM MemoryInvariant == Spec => []IInv
<1>1. IInv /\ [Next]_vars => IInv'
  <2> SUFFICES ASSUME IInv, [Next]_vars PROVE IInv'
    OBVIOUS
  <2>1. ASSUME NEW d \in 0 .. Size, NEW s \in 0 .. Size, NEW k \in 0 .. Size,
               memcpy(d, s, k) \/ memmove(d, s, k)
        PROVE  IInv'
    BY <2>1, MoveCalls
  <2>2. ASSUME NEW d \in 0 .. Size, NEW s \in 0 .. Size, NEW k \in 0 .. Size,
               memcmp(d, s, k)
        PROVE  IInv'
    BY <2>2, OtherCalls, 0 \in Int
  <2>3. ASSUME NEW d \in 0 .. Size, NEW k \in 0 .. Size, NEW c \in Ints, memset(d, c, k)
        PROVE  IInv'
    BY <2>3, OtherCalls, c \in Int
  <2>4. CASE Loop
    BY <2>4, CopyForwardStep, CopyBackwardStep, FillStep, CompareStep DEF Loop
  <2>5. CASE UNCHANGED vars
    BY <2>5, StutterInv
  <2> QED
    BY <2>1, <2>2, <2>3, <2>4, <2>5 DEF Next
<1> QED
  BY InitInv, <1>1, PTL DEF Spec

(* No loop of KiSimple.c leaves the ranges it was given.                   *)
THEOREM MemoryTypeCorrect == Spec => []TypeOK
BY MemoryInvariant, PTL DEF IInv

(* memcpy and memmove are right for every range, overlapping ones included.*)
THEOREM MovesAreCorrect == Spec => []MoveCorrect
BY MemoryInvariant, PTL DEF IInv

(* memset fills exactly its range with the low byte of its argument.       *)
THEOREM FillsAreCorrect == Spec => []FillCorrect
BY MemoryInvariant, PTL DEF IInv

(* memcmp finds the first difference and its sign.                         *)
THEOREM ComparesAreCorrect == Spec => []CompareCorrect
BY MemoryInvariant, PTL DEF IInv
=============================================================================
