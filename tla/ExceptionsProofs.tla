-------------------------- MODULE ExceptionsProofs --------------------------
(***************************************************************************)
(* Proofs about Exceptions, for every set of vectors and every depth.      *)
(*                                                                         *)
(* No stub drops the error code of a vector that has one, so iretq would   *)
(* take it for a frame if such a handler ever returned.  The argument: a   *)
(* handler that can return runs with 0 in rdi, which no error code goes    *)
(* with; and the frame of an exception inside its printk keeps that 0.     *)
(* So the invariant is about every frame on the stack: below one that was  *)
(* taken in a handler are that handler's return address, the saved rdi     *)
(* and, if the handler may return, its own frame with the same rdi.        *)
(***************************************************************************)
EXTENDS Exceptions, SequenceTheorems, TLAPS

Saved == Vectors \cup {Program}

StackWord ==
  [word : {"frame"}, pc : {"program", "print", "halted"}, IFlag : BOOLEAN, rdi : Saved]
  \cup [word : {"error", "call"}]
  \cup [word : {"rdi"}, value : Saved]

(* A stub's words below position k, of a handler that has r in rdi.        *)
StubAt(s, k, r) ==
  /\ k + 2 <= Len(s)
  /\ s[k + 1].word = "call"
  /\ s[k + 2].word = "rdi"
  /\ r = 0 => /\ k + 3 <= Len(s)
              /\ s[k + 3].word = "frame" /\ s[k + 3].rdi = s[k + 2].value

Sound(s) ==
  \A k \in 1 .. Len(s) :
    s[k].word = "frame" /\ s[k].pc = "print" => StubAt(s, k, s[k].rdi)

StackType ==
  /\ pc \in Places
  /\ rdi \in Saved
  /\ stack \in Seq(StackWord)
  /\ nested \in Seq(Vectors)
  /\ IFlag \in BOOLEAN /\ nmiWaits \in BOOLEAN

(* What is on top of the stack, by place.                                  *)
TopInv ==
  /\ pc = "push" =>
       /\ nested # <<>>
       /\ Head(nested) \notin PushesError =>
            1 <= Len(stack) /\ stack[1].word = "frame" /\ stack[1].rdi = rdi
  /\ pc \in {"print", "return"} => StubAt(stack, 0, rdi)
  /\ pc = "return" => rdi = 0
  /\ pc = "pop" => /\ 2 <= Len(stack)
                   /\ stack[1].word = "rdi" /\ stack[2].word = "frame"
                   /\ stack[2].rdi = stack[1].value
  /\ pc = "iretq" => 1 <= Len(stack) /\ stack[1].word = "frame" /\ rdi = stack[1].rdi

ExceptionsInv == StackType /\ Sound(stack) /\ TopInv

(* The frame of the i-th exception n[i], the latest first: taken in the    *)
(* program if it is the first of them all, else in the handler of n[i + 1] *)
(* or in its hlt, with interrupts off.                                     *)
FrameOf(w, n, i) ==
  /\ w.word = "frame"
  /\ w.pc = "program" <=> i = Len(n)
  /\ w.pc # "program" => ~w.IFlag
  /\ w.pc = "print" => w.rdi = n[i + 1]
  /\ w.pc = "halted" => n[i + 1] # 0

(* f tells where the frames of the exceptions n are in the stack s.        *)
Frames(s, n, f) ==
  /\ f \in [1 .. Len(n) -> 1 .. Len(s)]
  /\ \A i, j \in 1 .. Len(n) : i < j => f[i] < f[j]
  /\ \A k \in 1 .. Len(s) : s[k].word = "frame" => \E i \in 1 .. Len(n) : f[i] = k
  /\ \A i \in 1 .. Len(n) : FrameOf(s[f[i]], n, i)

(* Nothing of this is known once unknown code runs.                        *)
NestedInv ==
  pc # "astray" =>
    /\ \E f : Frames(stack, nested, f)
    /\ pc = "program" <=> nested = <<>>
    /\ pc # "program" => ~IFlag
    /\ pc = "print" => rdi = nested[1]
    /\ pc = "halted" => nested[1] # 0
    /\ pc \in {"return", "pop", "iretq"} => nested[1] = 0

-----------------------------------------------------------------------------
LEMMA StackWords ==
  ASSUME NEW w \in StackWord
  PROVE  /\ w.word \in {"frame", "error", "call", "rdi"}
         /\ w.word = "frame" => /\ w.pc \in {"program", "print", "halted"}
                                /\ w.IFlag \in BOOLEAN /\ w.rdi \in Saved
         /\ w.word = "rdi" => w.value \in Saved
BY DEF StackWord

(* A word pushed, and a word popped.                                       *)
LEMMA PushedWord ==
  ASSUME NEW s \in Seq(StackWord), NEW w \in StackWord
  PROVE  LET t == <<w>> \o s
         IN  /\ t \in Seq(StackWord) /\ Len(t) = Len(s) + 1 /\ Len(s) \in Nat
             /\ t[1] = w
             /\ \A k \in 1 .. Len(s) : t[k + 1] = s[k]
OBVIOUS

LEMMA TwoWords ==
  ASSUME NEW s \in Seq(StackWord), NEW v \in StackWord, NEW w \in StackWord
  PROVE  <<v, w>> \o s = <<v>> \o (<<w>> \o s)
<1> DEFINE both == <<v, w>>
           one  == <<v>> \o <<w>>
<1>1. both \in Seq(StackWord) /\ Len(both) = 2 /\ both[1] = v /\ both[2] = w OBVIOUS
<1>2. one \in Seq(StackWord) /\ Len(one) = 2 /\ one[1] = v /\ one[2] = w OBVIOUS
<1>3. \A k \in 1 .. 2 : k = 1 \/ k = 2 OBVIOUS
<1> HIDE DEF both, one
<1>4. both = one BY <1>1, <1>2, <1>3, SeqEqual
<1>5. <<v>> \in Seq(StackWord) /\ <<w>> \in Seq(StackWord) OBVIOUS
<1>6. one \o s = <<v>> \o (<<w>> \o s) BY <1>5, ConcatAssociative DEF one
<1> QED BY <1>4, <1>6 DEF both

LEMMA PoppedWord ==
  ASSUME NEW s \in Seq(StackWord), 1 <= Len(s)
  PROVE  /\ Tail(s) \in Seq(StackWord) /\ Len(Tail(s)) = Len(s) - 1 /\ Len(s) \in Nat
         /\ \A k \in 1 .. Len(s) - 1 : Tail(s)[k] = s[k + 1]
         /\ Head(s) = s[1] /\ Head(s) \in StackWord
<1>1. s # <<>> OBVIOUS
<1> QED BY <1>1, HeadTailProperties

LEMMA StubBelowPush ==
  ASSUME NEW s \in Seq(StackWord), NEW w \in StackWord, NEW k \in Nat, NEW r \in Saved,
         StubAt(s, k, r)
  PROVE  StubAt(<<w>> \o s, k + 1, r)
<1> DEFINE t == <<w>> \o s
<1>1. /\ Len(t) = Len(s) + 1 /\ Len(s) \in Nat
      /\ \A j \in 1 .. Len(s) : t[j + 1] = s[j]
  BY PushedWord
<1> HIDE DEF t
<1>2. t[(k + 1) + 1] = s[k + 1] /\ t[(k + 1) + 2] = s[k + 2]
  <2>1. /\ k + 1 \in 1 .. Len(s) /\ k + 2 \in 1 .. Len(s)
        /\ (k + 1) + 2 = (k + 2) + 1
    BY <1>1 DEF StubAt
  <2>2. t[(k + 1) + 1] = s[k + 1] /\ t[(k + 2) + 1] = s[k + 2] BY <1>1, <2>1
  <2> QED BY <2>1, <2>2
<1>3. r = 0 => t[(k + 1) + 3] = s[k + 3] BY <1>1 DEF StubAt
<1>4. (k + 1) + 2 <= Len(t) /\ (r = 0 => (k + 1) + 3 <= Len(t)) BY <1>1 DEF StubAt
<1>5. StubAt(t, k + 1, r) BY <1>2, <1>3, <1>4 DEF StubAt
<1> QED BY <1>5 DEF t

LEMMA StubBelowPop ==
  ASSUME NEW s \in Seq(StackWord), 1 <= Len(s), NEW k \in Nat, NEW r \in Saved,
         StubAt(s, k + 1, r)
  PROVE  StubAt(Tail(s), k, r)
<1> DEFINE t == Tail(s)
<1>1. /\ Len(t) = Len(s) - 1 /\ Len(s) \in Nat
      /\ \A j \in 1 .. Len(s) - 1 : t[j] = s[j + 1]
  BY PoppedWord
<1> HIDE DEF t
<1>2. t[k + 1] = s[(k + 1) + 1] /\ t[k + 2] = s[(k + 1) + 2]
  <2>1. /\ k + 1 \in 1 .. Len(s) - 1 /\ k + 2 \in 1 .. Len(s) - 1
        /\ (k + 1) + 2 = (k + 2) + 1
    BY <1>1 DEF StubAt
  <2>2. t[k + 1] = s[(k + 1) + 1] /\ t[k + 2] = s[(k + 2) + 1] BY <1>1, <2>1
  <2> QED BY <2>1, <2>2
<1>3. r = 0 => t[k + 3] = s[(k + 1) + 3] BY <1>1 DEF StubAt
<1>4. k + 2 <= Len(t) /\ (r = 0 => k + 3 <= Len(t)) BY <1>1 DEF StubAt
<1>5. StubAt(t, k, r) BY <1>2, <1>3, <1>4 DEF StubAt
<1> QED BY <1>5 DEF t

LEMMA SoundPushed ==
  ASSUME NEW s \in Seq(StackWord), Sound(s), NEW w \in StackWord,
         w.word = "frame" /\ w.pc = "print" => StubAt(s, 0, w.rdi)
  PROVE  Sound(<<w>> \o s)
<1> DEFINE t == <<w>> \o s
<1>1. /\ t \in Seq(StackWord) /\ Len(t) = Len(s) + 1 /\ Len(s) \in Nat
      /\ t[1] = w /\ \A k \in 1 .. Len(s) : t[k + 1] = s[k]
  BY PushedWord
<1> HIDE DEF t
<1> SUFFICES ASSUME NEW k \in 1 .. Len(t), t[k].word = "frame", t[k].pc = "print"
             PROVE  StubAt(t, k, t[k].rdi)
  BY DEF Sound, t
<1>2. t[k].rdi \in Saved BY <1>1, StackWords
<1>3. CASE k = 1
  <2>1. StubAt(t, 0 + 1, w.rdi) BY <1>1, <1>2, <1>3, StubBelowPush DEF t
  <2> QED BY <1>1, <1>3, <2>1
<1>4. CASE k # 1
  <2>1. k - 1 \in 1 .. Len(s) /\ k = (k - 1) + 1 BY <1>1, <1>4
  <2>2. t[k] = s[k - 1] BY <1>1, <2>1
  <2>3. StubAt(s, k - 1, s[k - 1].rdi) BY <2>1, <2>2 DEF Sound
  <2>4. StubAt(t, (k - 1) + 1, s[k - 1].rdi)
    BY <1>2, <2>1, <2>2, <2>3, StubBelowPush DEF t
  <2> QED BY <2>1, <2>2, <2>4
<1> QED BY <1>3, <1>4

LEMMA SoundPopped ==
  ASSUME NEW s \in Seq(StackWord), Sound(s), 1 <= Len(s)
  PROVE  Sound(Tail(s))
<1> DEFINE t == Tail(s)
<1>1. /\ t \in Seq(StackWord) /\ Len(t) = Len(s) - 1 /\ Len(s) \in Nat
      /\ \A k \in 1 .. Len(s) - 1 : t[k] = s[k + 1]
  BY PoppedWord
<1> HIDE DEF t
<1> SUFFICES ASSUME NEW k \in 1 .. Len(t), t[k].word = "frame", t[k].pc = "print"
             PROVE  StubAt(t, k, t[k].rdi)
  BY DEF Sound, t
<1>2. t[k].rdi \in Saved BY <1>1, StackWords
<1>3. k + 1 \in 1 .. Len(s) /\ t[k] = s[k + 1] /\ k \in Nat BY <1>1
<1>4. StubAt(s, k + 1, t[k].rdi) BY <1>3 DEF Sound
<1> QED BY <1>2, <1>3, <1>4, StubBelowPop DEF t

(* Unknown code that pops a word, of an empty stack none.                  *)
LEMMA ShorterStack ==
  ASSUME NEW s \in Seq(StackWord), Sound(s)
  PROVE  LET t == SubSeq(s, 2, Len(s)) IN t \in Seq(StackWord) /\ Sound(t)
<1> DEFINE t == SubSeq(s, 2, Len(s))
<1>1. CASE s # <<>>
  <2>1. t = Tail(s) BY <1>1, TailIsSubSeq
  <2>2. 1 <= Len(s) BY <1>1
  <2> QED BY <2>1, <2>2, PoppedWord, SoundPopped
<1>2. CASE s = <<>>
  <2>1. t \in Seq(StackWord) /\ Len(t) = 0 BY <1>2
  <2> QED BY <2>1 DEF Sound
<1> QED BY <1>1, <1>2

LEMMA FramesPushed ==
  ASSUME NEW s \in Seq(StackWord), NEW n \in Seq(Vectors), NEW f, Frames(s, n, f),
         NEW w \in StackWord, w.word # "frame"
  PROVE  \E g : Frames(<<w>> \o s, n, g)
<1> DEFINE t == <<w>> \o s
           g == [i \in 1 .. Len(n) |-> f[i] + 1]
<1>1. /\ Len(t) = Len(s) + 1 /\ Len(s) \in Nat
      /\ t[1] = w /\ \A k \in 1 .. Len(s) : t[k + 1] = s[k]
  BY PushedWord
<1> HIDE DEF t
<1>2. \A i \in 1 .. Len(n) : f[i] \in 1 .. Len(s) BY DEF Frames
<1>3. g \in [1 .. Len(n) -> 1 .. Len(t)] BY <1>1, <1>2
<1>4. ASSUME NEW i \in 1 .. Len(n), NEW j \in 1 .. Len(n), i < j PROVE g[i] < g[j]
  <2>1. f[i] < f[j] BY <1>4 DEF Frames
  <2> QED BY <1>2, <2>1
<1>5. ASSUME NEW k \in 1 .. Len(t), t[k].word = "frame"
      PROVE  \E i \in 1 .. Len(n) : g[i] = k
  <2>1. k - 1 \in 1 .. Len(s) /\ k = (k - 1) + 1 BY <1>1, <1>5
  <2>2. t[k] = s[k - 1] BY <1>1, <2>1
  <2>3. PICK i \in 1 .. Len(n) : f[i] = k - 1 BY <1>5, <2>1, <2>2 DEF Frames
  <2> QED BY <2>1, <2>3
<1>6. ASSUME NEW i \in 1 .. Len(n) PROVE FrameOf(t[g[i]], n, i)
  <2>1. t[g[i]] = s[f[i]] BY <1>1, <1>2
  <2> QED BY <2>1 DEF Frames
<1> HIDE DEF g
<1>7. Frames(t, n, g) BY <1>3, <1>4, <1>5, <1>6 DEF Frames
<1> QED BY <1>7 DEF t

LEMMA FramesPopped ==
  ASSUME NEW s \in Seq(StackWord), NEW n \in Seq(Vectors), NEW f, Frames(s, n, f),
         1 <= Len(s), s[1].word # "frame"
  PROVE  \E g : Frames(Tail(s), n, g)
<1> DEFINE t == Tail(s)
           g == [i \in 1 .. Len(n) |-> f[i] - 1]
<1>1. /\ Len(t) = Len(s) - 1 /\ Len(s) \in Nat
      /\ \A k \in 1 .. Len(s) - 1 : t[k] = s[k + 1]
  BY PoppedWord
<1> HIDE DEF t
<1>2. \A i \in 1 .. Len(n) : f[i] \in 2 .. Len(s)
  <2> TAKE i \in 1 .. Len(n)
  <2>1. f[i] \in 1 .. Len(s) /\ s[f[i]].word = "frame" BY DEF Frames, FrameOf
  <2>2. f[i] # 1 BY <2>1
  <2> QED BY <1>1, <2>1, <2>2
<1>3. g \in [1 .. Len(n) -> 1 .. Len(t)] BY <1>1, <1>2
<1>4. ASSUME NEW i \in 1 .. Len(n), NEW j \in 1 .. Len(n), i < j PROVE g[i] < g[j]
  <2>1. f[i] < f[j] BY <1>4 DEF Frames
  <2> QED BY <1>2, <2>1
<1>5. ASSUME NEW k \in 1 .. Len(t), t[k].word = "frame"
      PROVE  \E i \in 1 .. Len(n) : g[i] = k
  <2>1. k + 1 \in 1 .. Len(s) /\ t[k] = s[k + 1] BY <1>1
  <2>2. PICK i \in 1 .. Len(n) : f[i] = k + 1 BY <1>5, <2>1 DEF Frames
  <2> QED BY <2>1, <2>2
<1>6. ASSUME NEW i \in 1 .. Len(n) PROVE FrameOf(t[g[i]], n, i)
  <2>1. f[i] - 1 \in 1 .. Len(s) - 1 /\ (f[i] - 1) + 1 = f[i] BY <1>1, <1>2
  <2>2. t[g[i]] = s[f[i]] BY <1>1, <2>1
  <2> QED BY <2>2 DEF Frames
<1> HIDE DEF g
<1>7. Frames(t, n, g) BY <1>3, <1>4, <1>5, <1>6 DEF Frames
<1> QED BY <1>7 DEF t

(* An exception adds a frame, iretq removes it.                            *)
LEMMA FramesRaised ==
  ASSUME NEW s \in Seq(StackWord), NEW n \in Seq(Vectors), NEW f, Frames(s, n, f),
         NEW w \in StackWord, NEW v \in Vectors, FrameOf(w, <<v>> \o n, 1)
  PROVE  \E g : Frames(<<w>> \o s, <<v>> \o n, g)
<1> DEFINE t == <<w>> \o s
           m == <<v>> \o n
           g == [i \in 1 .. Len(m) |-> IF i = 1 THEN 1 ELSE f[i - 1] + 1]
<1>1. /\ Len(t) = Len(s) + 1 /\ Len(s) \in Nat
      /\ t[1] = w /\ \A k \in 1 .. Len(s) : t[k + 1] = s[k]
  BY PushedWord
<1>2. /\ Len(m) = Len(n) + 1 /\ Len(n) \in Nat
      /\ \A i \in 1 .. Len(n) : m[i + 1] = n[i]
  OBVIOUS
<1> HIDE DEF t, m
<1>3. \A i \in 1 .. Len(n) : f[i] \in 1 .. Len(s) BY DEF Frames
<1>4. ASSUME NEW i \in 1 .. Len(m), i # 1
      PROVE  i - 1 \in 1 .. Len(n) /\ (i - 1) + 1 = i /\ g[i] = f[i - 1] + 1
  BY <1>2, <1>4
<1>5. 1 \in 1 .. Len(m) /\ g[1] = 1 BY <1>2
<1>6. g \in [1 .. Len(m) -> 1 .. Len(t)]
  <2>1. ASSUME NEW i \in 1 .. Len(m) PROVE g[i] \in 1 .. Len(t)
    <3>1. CASE i = 1 BY <1>1, <1>5, <3>1
    <3>2. CASE i # 1
      <4>1. f[i - 1] \in 1 .. Len(s) BY <1>3, <1>4, <3>2
      <4> QED BY <1>1, <1>4, <3>2, <4>1
    <3> QED BY <3>1, <3>2
  <2> QED BY <2>1
<1> HIDE DEF g
<1>7. ASSUME NEW i \in 1 .. Len(m), NEW j \in 1 .. Len(m), i < j PROVE g[i] < g[j]
  <2>1. j # 1 BY <1>7
  <2>2. CASE i = 1 BY <1>3, <1>4, <1>5, <2>1, <2>2
  <2>3. CASE i # 1
    <3>1. i - 1 < j - 1 BY <1>7
    <3>2. f[i - 1] < f[j - 1] BY <1>4, <2>1, <2>3, <3>1 DEF Frames
    <3> QED BY <1>3, <1>4, <2>1, <2>3, <3>2
  <2> QED BY <2>2, <2>3
<1>8. ASSUME NEW k \in 1 .. Len(t), t[k].word = "frame"
      PROVE  \E i \in 1 .. Len(m) : g[i] = k
  <2>1. CASE k = 1 BY <1>5, <2>1
  <2>2. CASE k # 1
    <3>1. k - 1 \in 1 .. Len(s) /\ k = (k - 1) + 1 BY <1>1, <2>2
    <3>2. t[k] = s[k - 1] BY <1>1, <3>1
    <3>3. PICK i \in 1 .. Len(n) : f[i] = k - 1 BY <1>8, <3>1, <3>2 DEF Frames
    <3>4. i + 1 \in 1 .. Len(m) /\ i + 1 # 1 /\ (i + 1) - 1 = i BY <1>2
    <3>5. g[i + 1] = f[i] + 1 BY <1>4, <3>4
    <3> QED BY <3>1, <3>3, <3>4, <3>5
  <2> QED BY <2>1, <2>2
<1>9. ASSUME NEW i \in 1 .. Len(m) PROVE FrameOf(t[g[i]], m, i)
  <2>1. CASE i = 1
    <3>1. t[g[i]] = w BY <1>1, <1>5, <2>1
    <3> QED BY <2>1, <3>1 DEF m
  <2>2. CASE i # 1
    <3>1. i - 1 \in 1 .. Len(n) /\ t[g[i]] = s[f[i - 1]] BY <1>1, <1>3, <1>4, <2>2
    <3>2. FrameOf(t[g[i]], n, i - 1) BY <3>1 DEF Frames
    <3>3. i = Len(m) <=> i - 1 = Len(n) BY <1>2
    <3>4. i # Len(m) => m[i + 1] = n[(i - 1) + 1]
      <4> HAVE i # Len(m)
      <4>1. i \in 1 .. Len(n) /\ (i - 1) + 1 = i BY <1>2
      <4> QED BY <1>2, <4>1
    <3>5. t[g[i]].pc = "print" \/ t[g[i]].pc = "halted" => i # Len(m)
      BY <3>2, <3>3 DEF FrameOf
    <3> QED BY <3>2, <3>3, <3>4, <3>5 DEF FrameOf
  <2> QED BY <2>1, <2>2
<1>10. Frames(t, m, g) BY <1>6, <1>7, <1>8, <1>9 DEF Frames
<1> QED BY <1>10 DEF t, m

LEMMA FramesReturned ==
  ASSUME NEW s \in Seq(StackWord), NEW n \in Seq(Vectors), NEW f, Frames(s, n, f),
         1 <= Len(s), s[1].word = "frame", n # <<>>
  PROVE  /\ FrameOf(s[1], n, 1)
         /\ \E g : Frames(Tail(s), Tail(n), g)
<1> DEFINE t == Tail(s)
           m == Tail(n)
           g == [i \in 1 .. Len(m) |-> f[i + 1] - 1]
<1>1. /\ Len(t) = Len(s) - 1 /\ Len(s) \in Nat
      /\ \A k \in 1 .. Len(s) - 1 : t[k] = s[k + 1]
  BY PoppedWord
<1>2. /\ Len(m) = Len(n) - 1 /\ Len(n) \in Nat \ {0}
      /\ \A i \in 1 .. Len(n) - 1 : m[i] = n[i + 1]
  BY HeadTailProperties
<1> HIDE DEF t, m
<1>3. \A i \in 1 .. Len(n) : f[i] \in 1 .. Len(s) BY DEF Frames
<1>4. f[1] = 1
  <2>1. 1 \in 1 .. Len(s) BY <1>1
  <2>2. PICK i \in 1 .. Len(n) : f[i] = 1 BY <2>1 DEF Frames
  <2>3. 1 \in 1 .. Len(n) BY <1>2
  <2>4. 1 < i => f[1] < 1 BY <2>2, <2>3 DEF Frames
  <2>5. i = 1 BY <1>3, <2>3, <2>4
  <2> QED BY <2>2, <2>5
<1>5. FrameOf(s[1], n, 1)
  <2>1. 1 \in 1 .. Len(n) BY <1>2
  <2> QED BY <1>4, <2>1 DEF Frames
<1>6. ASSUME NEW i \in 1 .. Len(m)
      PROVE  /\ i + 1 \in 1 .. Len(n) /\ g[i] = f[i + 1] - 1
             /\ f[i + 1] \in 2 .. Len(s)
  <2>1. 1 \in 1 .. Len(n) /\ i + 1 \in 1 .. Len(n) /\ 1 < i + 1 BY <1>2
  <2>2. f[1] < f[i + 1] BY <2>1 DEF Frames
  <2> QED BY <1>1, <1>3, <1>4, <2>1, <2>2
<1>7. g \in [1 .. Len(m) -> 1 .. Len(t)] BY <1>1, <1>6
<1> HIDE DEF g
<1>8. ASSUME NEW i \in 1 .. Len(m), NEW j \in 1 .. Len(m), i < j PROVE g[i] < g[j]
  <2>1. i + 1 < j + 1 BY <1>8
  <2>2. f[i + 1] < f[j + 1] BY <1>6, <2>1 DEF Frames
  <2> QED BY <1>6, <2>2
<1>9. ASSUME NEW k \in 1 .. Len(t), t[k].word = "frame"
      PROVE  \E i \in 1 .. Len(m) : g[i] = k
  <2>1. k + 1 \in 1 .. Len(s) /\ t[k] = s[k + 1] BY <1>1
  <2>2. PICK i \in 1 .. Len(n) : f[i] = k + 1 BY <1>9, <2>1 DEF Frames
  <2>3. i # 1 BY <1>4, <2>2
  <2>4. i - 1 \in 1 .. Len(m) /\ (i - 1) + 1 = i BY <1>2, <2>3
  <2>5. g[i - 1] = k
    <3>1. PICK j : j = i - 1 OBVIOUS
    <3>2. g[j] = f[j + 1] - 1 /\ f[j + 1] \in 2 .. Len(s) /\ j + 1 = i
      BY <1>6, <2>4, <3>1
    <3>3. g[j] = k BY <2>2, <3>2
    <3> QED BY <3>1, <3>3
  <2> QED BY <2>4, <2>5
<1>10. ASSUME NEW i \in 1 .. Len(m) PROVE FrameOf(t[g[i]], m, i)
  <2>1. f[i + 1] - 1 \in 1 .. Len(s) - 1 /\ (f[i + 1] - 1) + 1 = f[i + 1]
    BY <1>1, <1>6
  <2>2. t[g[i]] = s[f[i + 1]] BY <1>1, <1>6, <2>1
  <2>3. FrameOf(t[g[i]], n, i + 1) BY <1>6, <2>2 DEF Frames
  <2>4. i = Len(m) <=> i + 1 = Len(n) BY <1>2
  <2>5. i # Len(m) => m[i + 1] = n[(i + 1) + 1] BY <1>2
  <2>6. t[g[i]].pc = "print" \/ t[g[i]].pc = "halted" => i # Len(m)
    BY <2>3, <2>4 DEF FrameOf
  <2> QED BY <2>3, <2>4, <2>5, <2>6 DEF FrameOf
<1>11. Frames(t, m, g) BY <1>7, <1>8, <1>9, <1>10 DEF Frames
<1> QED BY <1>5, <1>11 DEF t, m

-----------------------------------------------------------------------------
LEMMA RaiseInv ==
  ASSUME ExceptionsInv, NEW v \in Vectors, Raise(v)
  PROVE  ExceptionsInv'
<1>1. StackType /\ Sound(stack) /\ TopInv BY DEF ExceptionsInv
<1>2. /\ pc \in {"program", "print", "halted"} /\ pc' = "push" /\ rdi' = rdi
      /\ IFlag' = FALSE /\ nmiWaits' \in BOOLEAN
      /\ nested' = <<v>> \o nested
  BY <1>1 DEF Raise, StackType
<1> DEFINE f == Frame
           s == <<f>> \o stack
           e == [word |-> "error"]
<1>3. f \in StackWord /\ f.word = "frame" /\ f.pc = pc /\ f.rdi = rdi
  BY <1>1, <1>2 DEF Frame, StackWord, StackType
<1>4. e \in StackWord /\ e.word # "frame" BY DEF StackWord
<1>5. stack \in Seq(StackWord) BY <1>1 DEF StackType
<1>6. stack' = IF v \in PushesError THEN <<e>> \o s ELSE s
  <2>1. CASE v \in PushesError
    <3>1. stack' = <<e>> \o <<f>> \o stack BY <2>1 DEF Raise
    <3> HIDE DEF e, f
    <3> QED BY <1>3, <1>4, <1>5, <2>1, <3>1, ConcatAssociative
  <2>2. CASE v \notin PushesError
    <3>1. stack' = <<>> \o <<f>> \o stack BY <2>2 DEF Raise
    <3> HIDE DEF e, f
    <3> QED BY <1>3, <1>5, <2>2, <3>1
  <2> QED BY <2>1, <2>2
<1> HIDE DEF e, f
<1>7. s \in Seq(StackWord) /\ 1 <= Len(s) /\ s[1] = f BY <1>3, <1>5, PushedWord
<1>8. Sound(s)
  BY <1>1, <1>3, <1>5, SoundPushed DEF TopInv
<1> HIDE DEF s
<1>9. stack' \in Seq(StackWord) /\ Sound(stack')
  BY <1>4, <1>6, <1>7, <1>8, PushedWord, SoundPushed
<1>10. nested' \in Seq(Vectors) /\ nested' # <<>> /\ Head(nested') = v
  BY <1>1, <1>2 DEF StackType
<1>11. StackType' BY <1>1, <1>2, <1>9, <1>10 DEF StackType, Places
<1>12. TopInv' BY <1>2, <1>3, <1>6, <1>7, <1>10 DEF TopInv
<1> QED BY <1>9, <1>11, <1>12 DEF ExceptionsInv

LEMMA StubCallInv ==
  ASSUME ExceptionsInv, StubCall
  PROVE  ExceptionsInv'
<1> DEFINE c == [word |-> "call"]
           w == [word |-> "rdi", value |-> rdi]
           s == <<w>> \o stack
<1>1. StackType /\ Sound(stack) /\ TopInv BY DEF ExceptionsInv
<1>2. /\ pc = "push" /\ pc' = "print" /\ rdi' = Head(nested)
      /\ UNCHANGED <<nested, IFlag, nmiWaits>>
  BY DEF StubCall, StubOf
<1>3. nested # <<>> /\ rdi' \in Vectors BY <1>1, <1>2 DEF TopInv, StackType
<1>4. c \in StackWord /\ c.word = "call" BY DEF StackWord
<1>5. w \in StackWord /\ w.word = "rdi" /\ w.value = rdi BY <1>1 DEF StackWord, StackType
<1>6. stack \in Seq(StackWord) BY <1>1 DEF StackType
<1>7. stack' = <<c>> \o s
  <2>1. stack' = <<c, w>> \o stack BY DEF StubCall
  <2> HIDE DEF c, w
  <2> QED BY <1>4, <1>5, <1>6, <2>1, TwoWords
<1> HIDE DEF c, w
<1>8. /\ s \in Seq(StackWord) /\ Len(s) = Len(stack) + 1 /\ Len(stack) \in Nat
      /\ s[1] = w /\ \A k \in 1 .. Len(stack) : s[k + 1] = stack[k]
  BY <1>5, <1>6, PushedWord
<1>9. Sound(s) BY <1>1, <1>5, <1>6, SoundPushed
<1> HIDE DEF s
<1>10. /\ stack' \in Seq(StackWord) /\ Len(stack') = Len(s) + 1
       /\ stack'[1] = c /\ \A k \in 1 .. Len(s) : stack'[k + 1] = s[k]
  BY <1>4, <1>7, <1>8, PushedWord
<1>11. Sound(stack') BY <1>4, <1>7, <1>8, <1>9, SoundPushed
<1>12. StackType' BY <1>1, <1>2, <1>3, <1>10 DEF StackType, Places, Saved
<1>13. StubAt(stack', 0, rdi')
  <2>1. stack'[0 + 1] = c /\ stack'[0 + 2] = w /\ 0 + 2 <= Len(stack')
    <3>1. stack'[1 + 1] = s[1] BY <1>8, <1>10
    <3> QED BY <1>8, <1>10, <3>1
  <2>2. ASSUME rdi' = 0
        PROVE  /\ 0 + 3 <= Len(stack') /\ stack'[0 + 3].word = "frame"
               /\ stack'[0 + 3].rdi = rdi
    <3>1. Head(nested) \notin PushesError BY <1>2, <2>2 DEF PushesError
    <3>2. 1 <= Len(stack) /\ stack[1].word = "frame" /\ stack[1].rdi = rdi
      BY <1>1, <1>2, <3>1 DEF TopInv
    <3>3. stack'[2 + 1] = s[1 + 1] /\ s[1 + 1] = stack[1] BY <1>8, <1>10, <3>2
    <3> QED BY <1>8, <1>10, <3>2, <3>3
  <2> QED BY <1>4, <1>5, <2>1, <2>2 DEF StubAt
<1>14. TopInv' BY <1>2, <1>13 DEF TopInv
<1> QED BY <1>11, <1>12, <1>14 DEF ExceptionsInv

LEMMA HandlerInv ==
  ASSUME ExceptionsInv,
         KiExceptionHandler \/ RunOff \/ Stays
  PROVE  ExceptionsInv'
<1>1. StackType /\ Sound(stack) /\ TopInv BY DEF ExceptionsInv
<1>2. CASE KiExceptionHandler
  <2>1. UNCHANGED <<rdi, stack, nested, nmiWaits>> /\ pc = "print"
        /\ pc' \in {"return", "halted"} /\ (pc' = "return" => rdi = 0)
        /\ IFlag' \in BOOLEAN
    BY <1>1, <1>2 DEF KiExceptionHandler, Returns, StackType
  <2>2. StackType' BY <1>1, <2>1 DEF StackType, Places
  <2>3. TopInv' BY <1>1, <2>1 DEF TopInv, StubAt
  <2> QED BY <1>1, <2>1, <2>2, <2>3 DEF ExceptionsInv, Sound, StubAt
<1>3. CASE RunOff
  <2>1. UNCHANGED <<rdi, stack, nested, IFlag, nmiWaits>> /\ pc' = "astray"
    BY <1>3 DEF RunOff
  <2>2. StackType' BY <1>1, <2>1 DEF StackType, Places
  <2> QED BY <1>1, <2>1, <2>2 DEF ExceptionsInv, TopInv, Sound, StubAt
<1>4. CASE Stays
  <2>1. UNCHANGED vars BY <1>4 DEF Stays
  <2> QED BY <1>1, <2>1 DEF vars, ExceptionsInv, StackType, TopInv, Sound, StubAt
<1> QED BY <1>2, <1>3, <1>4

LEMMA AstrayInv ==
  ASSUME ExceptionsInv, Astray
  PROVE  ExceptionsInv' /\ NestedInv'
<1>1. /\ stack \in Seq(StackWord) /\ Sound(stack) /\ nested \in Seq(Vectors)
  BY DEF ExceptionsInv, StackType
<1>2. /\ pc' = "astray" /\ rdi' \in Saved /\ IFlag' \in BOOLEAN /\ nmiWaits' \in BOOLEAN
      /\ stack' \in {stack, SubSeq(stack, 2, Len(stack))}
      /\ nested' \in {nested, SubSeq(nested, 2, Len(nested))}
  BY DEF Astray, Saved
<1>3. stack' \in Seq(StackWord) /\ Sound(stack') BY <1>1, <1>2, ShorterStack
<1>4. SubSeq(nested, 2, Len(nested)) \in Seq(Vectors) BY <1>1
<1>5. StackType' BY <1>1, <1>2, <1>3, <1>4 DEF StackType, Places
<1>6. TopInv' BY <1>2 DEF TopInv
<1>7. NestedInv' BY <1>2 DEF NestedInv
<1> QED BY <1>3, <1>5, <1>6, <1>7 DEF ExceptionsInv

LEMMA ReturnInv ==
  ASSUME ExceptionsInv, Return
  PROVE  ExceptionsInv'
<1>1. StackType /\ Sound(stack) /\ TopInv BY DEF ExceptionsInv
<1>2. /\ pc = "return" /\ pc' = "pop" /\ stack' = Tail(stack)
      /\ UNCHANGED <<rdi, nested, IFlag, nmiWaits>>
  BY DEF Return
<1>3. stack \in Seq(StackWord) /\ Len(stack) \in Nat /\ rdi = 0 /\ StubAt(stack, 0, 0)
  BY <1>1, <1>2 DEF StackType, TopInv
<1>4. /\ 3 <= Len(stack) /\ stack[2].word = "rdi" /\ stack[3].word = "frame"
      /\ stack[3].rdi = stack[2].value
  BY <1>3 DEF StubAt
<1>5. /\ stack' \in Seq(StackWord) /\ Len(stack') = Len(stack) - 1
      /\ \A k \in 1 .. Len(stack) - 1 : stack'[k] = stack[k + 1]
  BY <1>2, <1>3, <1>4, PoppedWord
<1>6. stack'[1] = stack[2] /\ stack'[2] = stack[3] /\ 2 <= Len(stack')
  <2>1. stack'[1] = stack[1 + 1] /\ stack'[2] = stack[2 + 1] BY <1>3, <1>4, <1>5
  <2> QED BY <1>3, <1>4, <1>5, <2>1
<1>7. Sound(stack') BY <1>1, <1>2, <1>3, <1>4, SoundPopped
<1>8. StackType' BY <1>1, <1>2, <1>5 DEF StackType, Places
<1>9. TopInv' BY <1>2, <1>4, <1>6 DEF TopInv
<1> QED BY <1>7, <1>8, <1>9 DEF ExceptionsInv

LEMMA StubPopInv ==
  ASSUME ExceptionsInv, StubPop
  PROVE  ExceptionsInv'
<1>1. StackType /\ Sound(stack) /\ TopInv BY DEF ExceptionsInv
<1>2. /\ pc = "pop" /\ pc' = "iretq" /\ stack' = Tail(stack) /\ rdi' = Head(stack).value
      /\ UNCHANGED <<nested, IFlag, nmiWaits>>
  BY DEF StubPop
<1>3. /\ stack \in Seq(StackWord) /\ 2 <= Len(stack) /\ stack[1].word = "rdi"
      /\ stack[2].word = "frame" /\ stack[2].rdi = stack[1].value
  BY <1>1, <1>2 DEF StackType, TopInv
<1>4. /\ stack' \in Seq(StackWord) /\ Len(stack') = Len(stack) - 1 /\ Len(stack) \in Nat
      /\ \A k \in 1 .. Len(stack) - 1 : stack'[k] = stack[k + 1]
      /\ Head(stack) = stack[1] /\ Head(stack) \in StackWord
  BY <1>2, <1>3, PoppedWord
<1>5. stack'[1] = stack[1 + 1] BY <1>3, <1>4
<1>6. rdi' = stack[1].value /\ rdi' \in Saved BY <1>2, <1>3, <1>4, StackWords
<1>7. Sound(stack') BY <1>1, <1>2, <1>3, <1>4, SoundPopped
<1>8. StackType' BY <1>1, <1>2, <1>4, <1>6 DEF StackType, Places
<1>9. TopInv' BY <1>2, <1>3, <1>4, <1>5, <1>6 DEF TopInv
<1> QED BY <1>7, <1>8, <1>9 DEF ExceptionsInv

LEMMA IretqInv ==
  ASSUME ExceptionsInv, NestedInv, Iretq
  PROVE  ExceptionsInv'
<1>1. StackType /\ Sound(stack) /\ TopInv BY DEF ExceptionsInv
<1>2. /\ pc = "iretq" /\ pc' = Head(stack).pc /\ IFlag' = Head(stack).IFlag
      /\ stack' = Tail(stack) /\ nested' = Tail(nested) /\ nmiWaits' = FALSE
      /\ rdi' = rdi
  BY DEF Iretq
<1>3. /\ stack \in Seq(StackWord) /\ 1 <= Len(stack) /\ stack[1].word = "frame"
      /\ rdi = stack[1].rdi
  BY <1>1, <1>2 DEF StackType, TopInv
<1>4. /\ stack' \in Seq(StackWord) /\ Len(stack) \in Nat
      /\ Head(stack) = stack[1] /\ Head(stack) \in StackWord
  BY <1>2, <1>3, PoppedWord
<1>5. pc' \in {"program", "print", "halted"} /\ IFlag' \in BOOLEAN
  BY <1>2, <1>3, <1>4, StackWords
<1>6. Sound(stack') BY <1>1, <1>2, <1>3, SoundPopped
<1>7. nested' \in Seq(Vectors) BY <1>1, <1>2 DEF StackType, NestedInv
<1>8. StackType' BY <1>1, <1>2, <1>4, <1>5, <1>7 DEF StackType, Places
<1>9. pc' = "print" => StubAt(stack', 0, rdi')
  <2> HAVE pc' = "print"
  <2>1. StubAt(stack, 0 + 1, rdi) BY <1>2, <1>3, <1>4, <1>1 DEF Sound
  <2> QED BY <1>1, <1>2, <1>3, <2>1, StubBelowPop DEF StackType
<1>10. TopInv' BY <1>5, <1>9 DEF TopInv
<1> QED BY <1>6, <1>8, <1>10 DEF ExceptionsInv

-----------------------------------------------------------------------------
LEMMA RaiseNested ==
  ASSUME ExceptionsInv, NestedInv, NEW v \in Vectors, Raise(v)
  PROVE  NestedInv'
<1>1. StackType /\ TopInv BY DEF ExceptionsInv
<1>2. /\ pc \in {"program", "print", "halted"} /\ pc' = "push" /\ IFlag' = FALSE
      /\ nested' = <<v>> \o nested
  BY DEF Raise
<1> DEFINE w == Frame
           s == <<w>> \o stack
           e == [word |-> "error"]
<1>3. /\ w \in StackWord /\ w.word = "frame" /\ w.pc = pc /\ w.rdi = rdi
      /\ w.IFlag = IFlag
  BY <1>1, <1>2 DEF Frame, StackWord, StackType
<1>4. e \in StackWord /\ e.word # "frame" BY DEF StackWord
<1>5. stack \in Seq(StackWord) /\ nested \in Seq(Vectors) BY <1>1 DEF StackType
<1>6. stack' = IF v \in PushesError THEN <<e>> \o s ELSE s
  <2>1. CASE v \in PushesError
    <3>1. stack' = <<e>> \o <<w>> \o stack BY <2>1 DEF Raise
    <3> HIDE DEF e, w
    <3> QED BY <1>3, <1>4, <1>5, <2>1, <3>1, ConcatAssociative
  <2>2. CASE v \notin PushesError
    <3>1. stack' = <<>> \o <<w>> \o stack BY <2>2 DEF Raise
    <3> HIDE DEF e, w
    <3> QED BY <1>3, <1>5, <2>2, <3>1
  <2> QED BY <2>1, <2>2
<1> HIDE DEF e, w
<1>7. /\ Len(nested') = Len(nested) + 1 /\ Len(nested) \in Nat
      /\ nested' \in Seq(Vectors) /\ nested' # <<>>
      /\ nested # <<>> => nested'[1 + 1] = nested[1]
  BY <1>2, <1>5
<1>8. FrameOf(w, nested', 1)
  <2>1. w.pc = "program" <=> 1 = Len(nested')
    BY <1>2, <1>3, <1>5, <1>7, EmptySeq DEF NestedInv
  <2>2. w.pc # "program" => ~w.IFlag BY <1>2, <1>3 DEF NestedInv
  <2>3. w.pc = "print" => w.rdi = nested'[1 + 1] BY <1>3, <1>7 DEF NestedInv
  <2>4. w.pc = "halted" => nested'[1 + 1] # 0 BY <1>3, <1>7 DEF NestedInv
  <2> QED BY <1>3, <2>1, <2>2, <2>3, <2>4 DEF FrameOf
<1>9. \E f : Frames(stack, nested, f) BY <1>2 DEF NestedInv
<1>10. \E f : Frames(s, nested', f) BY <1>2, <1>3, <1>5, <1>8, <1>9, FramesRaised
<1>11. s \in Seq(StackWord) BY <1>3, <1>5, PushedWord
<1> HIDE DEF s
<1>12. \E f : Frames(stack', nested', f)
  BY <1>4, <1>6, <1>7, <1>10, <1>11, FramesPushed
<1> QED BY <1>2, <1>7, <1>12 DEF NestedInv

LEMMA StubCallNested ==
  ASSUME ExceptionsInv, NestedInv, StubCall
  PROVE  NestedInv'
<1> DEFINE c == [word |-> "call"]
           w == [word |-> "rdi", value |-> rdi]
           s == <<w>> \o stack
<1>1. StackType /\ TopInv BY DEF ExceptionsInv
<1>2. /\ pc = "push" /\ pc' = "print" /\ rdi' = Head(nested)
      /\ UNCHANGED <<nested, IFlag>>
  BY DEF StubCall, StubOf
<1>3. nested # <<>> /\ nested \in Seq(Vectors) /\ Head(nested) = nested[1] /\ ~IFlag
  BY <1>1, <1>2 DEF TopInv, StackType, NestedInv
<1>4. c \in StackWord /\ c.word = "call" BY DEF StackWord
<1>5. w \in StackWord /\ w.word = "rdi" BY <1>1 DEF StackWord, StackType
<1>6. stack \in Seq(StackWord) BY <1>1 DEF StackType
<1>7. stack' = <<c>> \o s
  <2>1. stack' = <<c, w>> \o stack BY DEF StubCall
  <2> HIDE DEF c, w
  <2> QED BY <1>4, <1>5, <1>6, <2>1, TwoWords
<1> HIDE DEF c, w
<1>8. s \in Seq(StackWord) BY <1>5, <1>6, PushedWord
<1>9. \E f : Frames(stack, nested, f) BY <1>2 DEF NestedInv
<1>10. \E f : Frames(s, nested, f) BY <1>3, <1>5, <1>6, <1>9, FramesPushed
<1> HIDE DEF s
<1>11. \E f : Frames(stack', nested, f) BY <1>3, <1>4, <1>7, <1>8, <1>10, FramesPushed
<1> QED BY <1>2, <1>3, <1>11 DEF NestedInv

LEMMA HandlerNested ==
  ASSUME ExceptionsInv, NestedInv, KiExceptionHandler \/ RunOff \/ Stays
  PROVE  NestedInv'
<1>1. CASE KiExceptionHandler
  <2>1. UNCHANGED <<stack, nested>> /\ pc = "print" /\ rdi = nested[1] /\ ~IFlag'
        /\ pc' = IF rdi = 0 THEN "return" ELSE "halted"
    BY <1>1 DEF KiExceptionHandler, Returns, NestedInv
  <2> QED BY <2>1 DEF NestedInv, Frames, FrameOf
<1>2. CASE RunOff
  <2>1. UNCHANGED <<stack, nested, IFlag>> /\ pc = "return" /\ pc' = "astray"
    BY <1>2 DEF RunOff
  <2> QED BY <2>1 DEF NestedInv, Frames, FrameOf
<1>3. CASE Stays
  <2>1. UNCHANGED vars BY <1>3 DEF Stays
  <2> QED BY <2>1 DEF vars, NestedInv, Frames, FrameOf
<1> QED BY <1>1, <1>2, <1>3

LEMMA ReturnNested ==
  ASSUME ExceptionsInv, NestedInv, Return \/ StubPop
  PROVE  NestedInv'
<1>1. StackType /\ TopInv BY DEF ExceptionsInv
<1>2. /\ pc \in {"return", "pop"} /\ pc' \in {"pop", "iretq"} /\ stack' = Tail(stack)
      /\ UNCHANGED <<nested, IFlag>>
  BY DEF Return, StubPop
<1>3. /\ stack \in Seq(StackWord) /\ nested \in Seq(Vectors)
      /\ 1 <= Len(stack) /\ stack[1].word # "frame"
  <2>1. stack \in Seq(StackWord) /\ Len(stack) \in Nat /\ nested \in Seq(Vectors)
    BY <1>1 DEF StackType
  <2>2. pc = "return" => 0 + 2 <= Len(stack) /\ stack[0 + 1].word = "call"
    BY <1>1 DEF TopInv, StubAt
  <2>3. pc = "pop" => 2 <= Len(stack) /\ stack[1].word = "rdi" BY <1>1 DEF TopInv
  <2> QED BY <1>2, <2>1, <2>2, <2>3
<1>4. \E f : Frames(stack, nested, f) BY <1>2 DEF NestedInv
<1>5. \E f : Frames(stack', nested, f) BY <1>2, <1>3, <1>4, FramesPopped
<1> QED BY <1>2, <1>5 DEF NestedInv

LEMMA IretqNested ==
  ASSUME ExceptionsInv, NestedInv, Iretq
  PROVE  NestedInv'
<1>1. StackType /\ TopInv BY DEF ExceptionsInv
<1>2. /\ pc = "iretq" /\ pc' = Head(stack).pc /\ IFlag' = Head(stack).IFlag
      /\ stack' = Tail(stack) /\ nested' = Tail(nested) /\ rdi' = rdi
  BY DEF Iretq
<1>3. /\ stack \in Seq(StackWord) /\ 1 <= Len(stack) /\ stack[1].word = "frame"
      /\ rdi = stack[1].rdi
  BY <1>1, <1>2 DEF StackType, TopInv
<1>4. nested \in Seq(Vectors) /\ nested # <<>>
  BY <1>1, <1>2 DEF StackType, NestedInv
<1>5. PICK f : Frames(stack, nested, f) BY <1>2 DEF NestedInv
<1>6. FrameOf(stack[1], nested, 1) BY <1>3, <1>4, <1>5, FramesReturned
<1>7. \E g : Frames(stack', nested', g) BY <1>2, <1>3, <1>4, <1>5, FramesReturned
<1>8. Head(stack) = stack[1] /\ pc' \in {"program", "print", "halted"}
  BY <1>2, <1>3, PoppedWord, StackWords
<1>9. /\ Len(nested') = Len(nested) - 1 /\ Len(nested) \in Nat \ {0}
      /\ nested' \in Seq(Vectors)
      /\ \A i \in 1 .. Len(nested) - 1 : nested'[i] = nested[i + 1]
  BY <1>2, <1>4, HeadTailProperties
<1>10. pc' = "program" <=> nested' = <<>>
  <2>1. nested' = <<>> <=> Len(nested') = 0 BY <1>9, EmptySeq
  <2> QED BY <1>2, <1>6, <1>8, <1>9, <2>1 DEF FrameOf
<1>11. pc' # "program" => nested'[1] = nested[1 + 1]
  <2>1. pc' # "program" => 1 \in 1 .. Len(nested) - 1
    BY <1>2, <1>6, <1>8, <1>9 DEF FrameOf
  <2> QED BY <1>9, <2>1
<1> QED BY <1>2, <1>3, <1>6, <1>7, <1>8, <1>10, <1>11 DEF FrameOf, NestedInv

-----------------------------------------------------------------------------
LEMMA ExceptionsInit == Init => ExceptionsInv /\ NestedInv
<1> SUFFICES ASSUME Init PROVE ExceptionsInv /\ NestedInv OBVIOUS
<1>1. StackType
  <2>1. <<>> \in Seq(StackWord) /\ <<>> \in Seq(Vectors) BY EmptySeq
  <2> QED BY <2>1 DEF Init, StackType, Places, Saved
<1>2. Sound(stack) /\ TopInv BY DEF Init, Sound, TopInv
<1>3. Frames(stack, nested, <<>>) BY DEF Init, Frames
<1>4. NestedInv BY <1>3 DEF Init, NestedInv
<1> QED BY <1>1, <1>2, <1>4 DEF ExceptionsInv

LEMMA ExceptionsStep ==
  ExceptionsInv /\ NestedInv /\ [Next]_vars => ExceptionsInv' /\ NestedInv'
<1> SUFFICES ASSUME ExceptionsInv, NestedInv, [Next]_vars
             PROVE  ExceptionsInv' /\ NestedInv'
  OBVIOUS
<1>1. ASSUME NEW v \in Vectors, Raise(v) PROVE ExceptionsInv' /\ NestedInv'
  BY <1>1, RaiseInv, RaiseNested
<1>2. CASE StubCall BY <1>2, StubCallInv, StubCallNested
<1>3. CASE KiExceptionHandler \/ RunOff \/ Stays BY <1>3, HandlerInv, HandlerNested
<1>4. CASE Return BY <1>4, ReturnInv, ReturnNested
<1>5. CASE StubPop BY <1>5, StubPopInv, ReturnNested
<1>6. CASE Iretq BY <1>6, IretqInv, IretqNested
<1>7. CASE Astray BY <1>7, AstrayInv
<1>8. CASE UNCHANGED vars
  <2>1. StackType' BY <1>8 DEF vars, ExceptionsInv, StackType
  <2>2. Sound(stack)' BY <1>8 DEF vars, ExceptionsInv
  <2>3. TopInv' BY <1>8 DEF vars, ExceptionsInv, TopInv
  <2>4. NestedInv' BY <1>8 DEF vars, NestedInv
  <2> QED BY <2>1, <2>2, <2>3, <2>4 DEF ExceptionsInv
<1> QED BY <1>1, <1>2, <1>3, <1>4, <1>5, <1>6, <1>7, <1>8 DEF Next

(* The stack is what the exceptions not yet returned from put there, word  *)
(* by word, as long as no handler has run off its end.                     *)
THEOREM ExceptionsInvariant == Spec => [](ExceptionsInv /\ NestedInv)
<1> QED BY ExceptionsInit, ExceptionsStep, PTL DEF Spec

(* Type correctness of the processor's state in a handler.                 *)
THEOREM ExceptionsTypeCorrect == Spec => []TypeOK
<1>1. ExceptionsInv => TypeOK
  <2> SUFFICES ASSUME ExceptionsInv PROVE TypeOK OBVIOUS
  <2>1. Saved \subseteq Values BY VectorsAssumption DEF Saved, Values, Program
  <2>2. StackWord \subseteq Word BY <2>1 DEF StackWord, Word, Places
  <2>3. stack \in Seq(Word) /\ nested \in Seq(0 .. 31)
    BY <2>2, VectorsAssumption, SeqMonotonic DEF ExceptionsInv, StackType
  <2> QED BY <2>3 DEF ExceptionsInv, StackType, TypeOK, Saved
<1> QED BY <1>1, ExceptionsInvariant, PTL

(* Though no stub drops an error code, iretq takes nothing but a frame, and *)
(* the interrupted code has its rdi back, for every set of vectors.        *)
THEOREM IretqFindsFrame == Spec => []ReturnsToFrame
<1>1. ExceptionsInv => ReturnsToFrame
  <2> SUFFICES ASSUME ExceptionsInv, pc = "iretq"
               PROVE  Head(stack).word = "frame" /\ rdi = Head(stack).rdi
    BY DEF ReturnsToFrame
  <2>1. stack \in Seq(StackWord) /\ 1 <= Len(stack) BY DEF ExceptionsInv, StackType, TopInv
  <2>2. Head(stack) = stack[1] BY <2>1, PoppedWord
  <2> QED BY <2>2 DEF ExceptionsInv, TopInv
<1> QED BY <1>1, ExceptionsInvariant, PTL

(* No exception but 0 is ever returned from, whatever comes in the printk  *)
(* or the hlt of its handler, and interrupts stay off from then on - until *)
(* a handler runs off its end.                                             *)
THEOREM PanicsAreFinal == Spec => PanicIsFinal
<1> DEFINE n == nested
           Final == \A k \in 0 .. Len(n) - 1 :
                      n[Len(n) - k] # 0 =>
                        /\ k < Len(n') /\ n'[Len(n') - k] = n[Len(n) - k]
                        /\ ~IFlag'
<1>1. ASSUME ExceptionsInv /\ NestedInv, ExceptionsInv' /\ NestedInv', [Next]_vars,
             pc # "astray"
      PROVE  Final
  <2>1. n \in Seq(Vectors) /\ Len(n) \in Nat BY <1>1 DEF ExceptionsInv, StackType
  <2>2. n' # <<>> => ~IFlag'
    <3>1. CASE pc' # "astray" BY <1>1, <3>1 DEF NestedInv
    <3>2. CASE pc' = "astray"
      <4>1. RunOff \/ UNCHANGED vars
        <5>1. Iretq => pc' # "astray"
          <6>1. Iretq => 1 <= Len(stack) /\ stack \in Seq(StackWord) /\ pc' = Head(stack).pc
                           /\ Head(stack).word = "frame"
            BY <1>1 DEF Iretq, ExceptionsInv, StackType, TopInv
          <6> QED BY <6>1, PoppedWord, StackWords
        <5> QED BY <1>1, <3>2, <5>1 DEF Next, Raise, StubCall, KiExceptionHandler, Return,
                     StubPop, Astray, Stays
      <4>2. UNCHANGED <<nested, IFlag>> /\ pc \in {"return", "astray"}
        BY <3>2, <4>1 DEF RunOff, vars
      <4> QED BY <1>1, <4>2 DEF NestedInv
    <3> QED BY <3>1, <3>2
  <2>3. ASSUME n' = n PROVE Final
    <3>1. Len(n) > 0 => n' # <<>> BY <2>1, <2>3
    <3> QED BY <2>1, <2>2, <2>3, <3>1
  <2>4. ASSUME NEW v \in Vectors, n' = <<v>> \o n PROVE Final
    <3>1. /\ Len(n') = Len(n) + 1 /\ n' # <<>>
          /\ \A i \in 1 .. Len(n) : n'[i + 1] = n[i]
      BY <2>1, <2>4
    <3>2. ASSUME NEW k \in 0 .. Len(n) - 1 PROVE n'[Len(n') - k] = n[Len(n) - k]
      <4>1. Len(n) - k \in 1 .. Len(n) /\ (Len(n) - k) + 1 = Len(n') - k BY <2>1, <3>1
      <4> QED BY <3>1, <4>1
    <3> QED BY <2>1, <2>2, <3>1, <3>2
  <2>5. ASSUME n # <<>>, n[1] = 0, n' = Tail(n) PROVE Final
    <3>1. /\ Len(n') = Len(n) - 1 /\ n' \in Seq(Vectors)
          /\ \A i \in 1 .. Len(n) - 1 : n'[i] = n[i + 1]
      BY <2>1, <2>5, HeadTailProperties
    <3> SUFFICES ASSUME NEW k \in 0 .. Len(n) - 1, n[Len(n) - k] # 0
                 PROVE  /\ k < Len(n') /\ n'[Len(n') - k] = n[Len(n) - k]
                        /\ ~IFlag'
      OBVIOUS
    <3>2. Len(n) - k # 1 BY <2>5
    <3>3. /\ k < Len(n') /\ Len(n') - k \in 1 .. Len(n) - 1
          /\ (Len(n') - k) + 1 = Len(n) - k
      BY <2>1, <3>1, <3>2
    <3>4. n' # <<>> BY <2>1, <3>1, <3>3
    <3> QED BY <2>2, <3>1, <3>3, <3>4
  <2>6. \/ n' = n
        \/ \E v \in Vectors : n' = <<v>> \o n
        \/ n # <<>> /\ n[1] = 0 /\ n' = Tail(n)
    BY <1>1 DEF Next, Raise, StubCall, KiExceptionHandler, Return, RunOff, StubPop, Iretq,
                Astray, Stays, vars, NestedInv
  <2> HIDE DEF Final
  <2> QED BY <2>3, <2>4, <2>5, <2>6
<1> QED BY <1>1, ExceptionsInvariant, PTL DEF Spec, PanicIsFinal
=============================================================================
