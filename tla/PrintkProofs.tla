---------------------------- MODULE PrintkProofs ----------------------------
(*****************************************************************************)
(* For every format, every argument and every size of either buffer: a     *)
(* conversion stays in its own buffer, snprintf stores the longest prefix of*)
(* the text that fits, and a field of an integer is what C asks for.       *)
(*                                                                         *)
(* And for every set of calls, every argument and every place at which a   *)
(* format is cut: the parser takes a format apart as it was written, reads *)
(* no further than its NUL unless it ends inside a conversion, and together*)
(* with the writer does what Printk does with the items that are meant.    *)
(*                                                                         *)
(* The module has four parts, each with an invariant of its own: the output*)
(* (IInv), the digits of a number and what becomes of them (DigitsInv), the*)
(* format and where the parser is in it (ParseInv), and the whole call     *)
(* (CallInv).                                                              *)
(*****************************************************************************)
EXTENDS PrintkFormat, SequenceTheorems, FiniteSetTheorems, WellFoundedInduction, TLAPS

(* Inside a conversion the head of the format is the number converted.     *)
ConversionInv ==
  pc \in {"digits", "format", "reverse"} => format # <<>> /\ Item \in Number

(* Up to the final NUL the caller's buffer holds the text so far, as far   *)
(* as it fits, and has not been written beyond.                            *)
OutputInv ==
  /\ idx = Len(text)
  /\ (pc # "done" /\ out = "_out_buffer") =>
       \A j \in DOMAIN buffer : buffer[j] = IF j < idx THEN text[j + 1] ELSE Unset

IInv == TypeOK /\ NtoaInBounds /\ ConversionInv /\ OutputInv /\ StoresPrefix

USE SizeAssumption

-----------------------------------------------------------------------------
(* Induction on numbers, for what recursive functions compute: a set of    *)
(* numbers has a least one, because the sets below them are finite.        *)
LEMMA LeastNumber ==
  ASSUME NEW T, T \subseteq Nat, T # {}
  PROVE  \E n \in T : \A m \in T : n <= m
<1> DEFINE Below == {0 .. n - 1 : n \in T}
           R == StrictSubsetOrdering(Nat)
<1>1. IsWellFoundedOn(R, FiniteSubsetsOf(Nat)) BY FS_StrictSubsetOrderingWellFounded
<1>2. Below \subseteq FiniteSubsetsOf(Nat)
  <2> SUFFICES ASSUME NEW n \in T PROVE 0 .. n - 1 \in FiniteSubsetsOf(Nat) OBVIOUS
  <2>1. IsFiniteSet(0 .. n - 1) /\ 0 .. n - 1 \subseteq Nat BY FS_Interval
  <2> QED BY <2>1 DEF FiniteSubsetsOf
<1>3. Below # {} OBVIOUS
<1>4. PICK x \in Below : \A y \in Below : ~(<<y, x>> \in R)
  <2> HIDE DEF Below, R
  <2> QED BY <1>1, <1>2, <1>3, WFMin
<1>5. PICK n \in T : x = 0 .. n - 1 OBVIOUS
<1>6. ASSUME NEW m \in T, m < n PROVE FALSE
  <2>1. 0 .. m - 1 \in Below /\ 0 .. n - 1 \in Below OBVIOUS
  <2>2. 0 .. m - 1 \subseteq 0 .. n - 1 /\ 0 .. m - 1 # 0 .. n - 1
    <3>1. m \in 0 .. n - 1 /\ m \notin 0 .. m - 1 BY <1>6
    <3> QED BY <1>6, <3>1
  <2>3. <<0 .. m - 1, 0 .. n - 1>> \in R
    <3>1. PICK a, b : a = 0 .. m - 1 /\ b = 0 .. n - 1 OBVIOUS
    <3>2. a \subseteq Nat /\ b \subseteq Nat /\ a \subseteq b /\ a # b BY <2>2, <3>1
    <3>3. <<a, b>> \in R BY <3>2 DEF StrictSubsetOrdering
    <3> QED BY <3>1, <3>3
  <2> QED BY <2>1, <2>3, <1>4, <1>5
<1> QED BY <1>6

LEMMA SetInduction ==
  ASSUME NEW S, 0 \in S, \A n \in Nat : n \in S => n + 1 \in S
  PROVE  Nat \subseteq S
<1> SUFFICES ASSUME Nat \ S # {} PROVE FALSE OBVIOUS
<1>1. PICK n \in Nat \ S : \A m \in Nat \ S : n <= m
  <2> DEFINE T == Nat \ S
  <2>1. T \subseteq Nat /\ T # {} OBVIOUS
  <2> HIDE DEF T
  <2>2. \E n \in T : \A m \in T : n <= m BY <2>1, LeastNumber
  <2> QED BY <2>2 DEF T
<1>2. n # 0 /\ n - 1 \in Nat OBVIOUS
<1>3. n - 1 \in S BY <1>1, <1>2
<1>4. n - 1 + 1 \in S BY <1>2, <1>3
<1> QED BY <1>4

(* A recursive definition by steps.                                        *)
Iterate(up, n, first, step) ==
  up[0] = first /\ \A k \in 1 .. n : up[k] = step[k][up[k - 1]]

LEMMA Iterates ==
  ASSUME NEW S, NEW n \in Nat, NEW first \in S, NEW step \in [1 .. n -> [S -> S]]
  PROVE  \E up \in [0 .. n -> S] : Iterate(up, n, first, step)
<1> DEFINE Good(m, up) == up[0] = first /\ \A k \in 1 .. m : up[k] = step[k][up[k - 1]]
           T == {m \in Nat : m <= n => \E up \in [0 .. m -> S] : Good(m, up)}
<1>1. 0 \in T
  <2>1. [k \in 0 .. 0 |-> first] \in [0 .. 0 -> S] OBVIOUS
  <2>2. Good(0, [k \in 0 .. 0 |-> first]) OBVIOUS
  <2> HIDE DEF Good
  <2> QED BY <2>1, <2>2
<1>2. ASSUME NEW m \in Nat, m \in T PROVE m + 1 \in T
  <2> SUFFICES ASSUME m + 1 <= n PROVE \E up \in [0 .. m + 1 -> S] : Good(m + 1, up) OBVIOUS
  <2>1. PICK up \in [0 .. m -> S] : Good(m, up) BY <1>2
  <2> DEFINE new == [k \in 0 .. m + 1 |-> IF k = m + 1 THEN step[k][up[m]] ELSE up[k]]
  <2>2. step[m + 1] \in [S -> S] /\ up[m] \in S OBVIOUS
  <2>3. new \in [0 .. m + 1 -> S] BY <2>2
  <2>4. new[0] = first BY <2>1
  <2>5. ASSUME NEW k \in 1 .. m + 1 PROVE new[k] = step[k][new[k - 1]]
    <3>1. CASE k = m + 1 BY <3>1
    <3>2. CASE k # m + 1
      <4>1. k \in 1 .. m /\ k - 1 \in 0 .. m BY <3>2
      <4>2. up[k] = step[k][up[k - 1]] BY <2>1, <4>1
      <4> QED BY <4>1, <4>2
    <3> QED BY <3>1, <3>2
  <2>6. Good(m + 1, new) BY <2>4, <2>5
  <2> HIDE DEF Good, new
  <2> QED BY <2>3, <2>6
<1> HIDE DEF T
<1>3. n \in T BY <1>1, <1>2, SetInduction
<1> QED BY <1>3 DEF T, Iterate

-----------------------------------------------------------------------------
(* Division.                                                               *)
LEMMA DivDef == ASSUME NEW m \in Int, NEW n \in Nat \ {0}
  PROVE m = n * (m \div n) + (m % n) /\ m % n \in 0 .. n - 1 /\ m \div n \in Int
OBVIOUS
LEMMA MulUnique ==
  ASSUME NEW n \in Nat \ {0}, NEW a \in Int, NEW b \in Int, NEW r \in 0 .. n - 1, NEW s \in 0 .. n - 1,
         n * a + r = n * b + s
  PROVE a = b /\ r = s
<1>1. ASSUME NEW x \in Int, NEW y \in Int, x < y PROVE n * x + n <= n * y
  <2>1. y - x - 1 \in Nat BY <1>1
  <2>2. n * (y - x - 1) >= 0 BY <2>1
  <2>3. n * (y - x - 1) = n * y - n * x - n BY <2>1
  <2> QED BY <2>2, <2>3
<1>2. CASE a < b BY <1>1, <1>2
<1>3. CASE b < a BY <1>1, <1>3
<1> QED BY <1>2, <1>3
LEMMA Divides ==
  ASSUME NEW n \in Nat \ {0}, NEW a \in Int, NEW r \in 0 .. n - 1
  PROVE  (n * a + r) \div n = a /\ (n * a + r) % n = r
<1>1. n * a + r \in Int OBVIOUS
<1> DEFINE m == n * a + r
<1> HIDE DEF m
<1>2. m = n * (m \div n) + (m % n) /\ m % n \in 0 .. n - 1 /\ m \div n \in Int BY <1>1, DivDef DEF m
<1>3. m = n * a + r BY DEF m
<1>4. n * a + r = n * (m \div n) + (m % n) BY <1>2, <1>3
<1>5. m \div n = a /\ m % n = r
  <2>1. PICK q, s : q = m \div n /\ s = m % n OBVIOUS
  <2>2. q \in Int /\ s \in 0 .. n - 1 /\ n * a + r = n * q + s BY <1>2, <1>4, <2>1
  <2>3. a = q /\ r = s BY <2>2, MulUnique
  <2> QED BY <2>1, <2>3
<1> QED BY <1>5 DEF m
LEMMA DivDiv ==
  ASSUME NEW m \in Nat, NEW p \in Nat \ {0}, NEW b \in Nat \ {0}
  PROVE (m \div p) \div b = m \div (b * p)
<1> DEFINE q == m \div p  r == m % p
<1>1. q \in Int /\ r \in 0 .. p - 1 /\ m = p * q + r BY DivDef
<1> DEFINE t == q \div b  s == q % b
<1>2. t \in Int /\ s \in 0 .. b - 1 /\ q = b * t + s BY <1>1, DivDef
<1> HIDE DEF q, r, t, s
<1>3. p * q = (b * p) * t + p * s /\ b * p \in Nat /\ p * s \in Int BY <1>1, <1>2
<1>4. p * s + r \in 0 .. b * p - 1
  <2>1. 0 <= p * s BY <1>2
  <2>2. p * (b - 1 - s) >= 0 BY <1>2
  <2>3. p * (b - 1 - s) = b * p - p - p * s BY <1>2
  <2> QED BY <1>1, <1>3, <2>1, <2>2, <2>3
<1>5. b * p # 0 OBVIOUS
<1>6. m = (b * p) * t + (p * s + r)
  <2>1. m = ((b * p) * t + p * s) + r BY <1>1, <1>3
  <2>2. (b * p) * t \in Int BY <1>2, <1>3
  <2> QED BY <1>1, <1>3, <2>1, <2>2
<1>7. m \div (b * p) = t BY <1>2, <1>3, <1>4, <1>5, <1>6, Divides
<1> QED BY <1>7 DEF t, q

-----------------------------------------------------------------------------
(* Powers.                                                                 *)
(* A function that is defined recursively *)
Powers(b, n, f) == f \in [0 .. n -> Nat \ {0}] /\ f[0] = 1 /\ \A k \in 1 .. n : f[k] = b * f[k - 1]

LEMMA PowersExist == ASSUME NEW b \in Nat \ {0}, NEW n \in Nat PROVE \E f : Powers(b, n, f) /\ Power(b, n) = f[n]
<1> DEFINE P == Nat \ {0}
           step == [k \in 1 .. n |-> [x \in P |-> b * x]]
           Eq(f) == f = [j \in 0 .. n |-> IF j = 0 THEN 1 ELSE b * f[j - 1]]
<1>1. \A x \in P : b * x \in P OBVIOUS
<1>2. step \in [1 .. n -> [P -> P]] BY <1>1
<1>3. PICK up \in [0 .. n -> P] : up[0] = 1 /\ \A k \in 1 .. n : up[k] = step[k][up[k - 1]]
  <2>1. 1 \in P OBVIOUS
  <2> HIDE DEF step, P
  <2>2. \E up \in [0 .. n -> P] : Iterate(up, n, 1, step) BY <1>2, <2>1, Iterates
  <2> QED BY <2>2 DEF Iterate
<1>4. Powers(b, n, up)
  <2>1. ASSUME NEW k \in 1 .. n PROVE up[k] = b * up[k - 1]
    <3>1. k - 1 \in 0 .. n OBVIOUS
    <3> QED BY <1>3, <3>1
  <2> QED BY <1>3, <2>1 DEF Powers
<1>5. Eq(up)
  <2>1. \A j \in 0 .. n : up[j] = IF j = 0 THEN 1 ELSE b * up[j - 1] BY <1>4 DEF Powers
  <2> QED BY <2>1
<1> DEFINE f == CHOOSE g : Eq(g)
<1>6. Eq(f) BY <1>5
<1>7. Power(b, n) = f[n] BY DEF Power
<1>8. Powers(b, n, f)
  <2> DEFINE T == {m \in Nat : m <= n => f[m] = up[m]}
  <2> HIDE DEF f
  <2>1. 0 \in T BY <1>3, <1>6
  <2>2. ASSUME NEW m \in Nat, m \in T PROVE m + 1 \in T
    <3> SUFFICES ASSUME m + 1 <= n PROVE f[m + 1] = up[m + 1] OBVIOUS
    <3>1. f[m] = up[m] BY <2>2
    <3>2. PICK k : k = m + 1 OBVIOUS
    <3>3. k \in 1 .. n /\ k - 1 = m BY <3>2
    <3>4. f[k] = b * f[k - 1] BY <1>6, <3>3
    <3>5. up[k] = b * up[k - 1] BY <1>4, <3>3 DEF Powers
    <3> QED BY <3>1, <3>2, <3>3, <3>4, <3>5
  <2> HIDE DEF T
  <2>3. Nat \subseteq T BY <2>1, <2>2, SetInduction
  <2>4. \A m \in 0 .. n : f[m] = up[m] BY <2>3 DEF T
  <2>5. f = [j \in 0 .. n |-> f[j]]  BY <1>6
  <2> QED BY <2>4, <2>5, <1>4 DEF Powers
<1> QED BY <1>7, <1>8
LEMMA PowerStep ==
  ASSUME NEW b \in Nat \ {0}, NEW k \in Nat
  PROVE  /\ Power(b, k) \in Nat \ {0}
         /\ Power(b, 0) = 1
         /\ Power(b, k + 1) = b * Power(b, k)
<1>1. PICK f : Powers(b, k, f) /\ Power(b, k) = f[k] BY PowersExist
<1>2. PICK g : Powers(b, k + 1, g) /\ Power(b, k + 1) = g[k + 1]
  <2>1. k + 1 \in Nat OBVIOUS
  <2> QED BY <2>1, PowersExist
<1>3. PICK h : Powers(b, 0, h) /\ Power(b, 0) = h[0] BY PowersExist
<1>4. f[k] = g[k]
  <2> DEFINE T == {m \in Nat : m <= k => f[m] = g[m]}
  <2>1. 0 \in T BY <1>1, <1>2 DEF Powers
  <2>2. ASSUME NEW m \in Nat, m \in T PROVE m + 1 \in T BY <2>2, <1>1, <1>2 DEF Powers
  <2> HIDE DEF T
  <2>3. k \in T BY <2>1, <2>2, SetInduction
  <2> QED BY <2>3 DEF T
<1>5. g[k + 1] = b * g[k]
  <2>1. k + 1 \in 1 .. k + 1 /\ (k + 1) - 1 = k OBVIOUS
  <2> QED BY <1>2, <2>1 DEF Powers
<1>6. f[k] \in Nat \ {0} BY <1>1 DEF Powers
<1> QED BY <1>1, <1>2, <1>3, <1>4, <1>5, <1>6 DEF Powers

LEMMA PowerBeyond ==
  ASSUME NEW b \in Nat \ {0, 1}, NEW k \in Nat
  PROVE  Power(b, k) > k
<1> DEFINE T == {m \in Nat : Power(b, m) > m}
<1>1. 0 \in T
  <2>1. Power(b, 0) = 1 BY PowerStep
  <2> QED BY <2>1
<1>2. ASSUME NEW m \in Nat, m \in T PROVE m + 1 \in T
  <2>1. Power(b, m) \in Nat /\ Power(b, m + 1) = b * Power(b, m) BY PowerStep
  <2> DEFINE p == Power(b, m)
  <2>2. p > m BY <1>2
  <2>3. Power(b, m + 1) = b * p /\ p \in Nat BY <2>1
  <2> HIDE DEF p
  <2>4. b * p >= 2 * p
    <3>1. (b - 2) * p >= 0 BY <2>3
    <3>2. (b - 2) * p = b * p - 2 * p BY <2>3
    <3> QED BY <2>3, <3>1, <3>2
  <2> QED BY <2>2, <2>3, <2>4
<1> HIDE DEF T
<1>3. k \in T BY <1>1, <1>2, SetInduction
<1> QED BY <1>3 DEF T

LEMMA PowerMonotone ==
  ASSUME NEW b \in Nat \ {0}, NEW j \in Nat, NEW k \in Nat, j <= k
  PROVE  Power(b, j) <= Power(b, k)
<1> DEFINE T == {m \in Nat : Power(b, j) <= Power(b, j + m)}
<1>1. 0 \in T
  <2>1. Power(b, j) \in Nat /\ j + 0 = j BY PowerStep
  <2> QED BY <2>1
<1>2. ASSUME NEW m \in Nat, m \in T PROVE m + 1 \in T
  <2> DEFINE p == Power(b, j + m)
  <2>1. p \in Nat /\ Power(b, j + m + 1) = b * p /\ j + m \in Nat BY PowerStep
  <2>2. Power(b, j) \in Nat /\ Power(b, j) <= p BY <1>2, PowerStep
  <2> HIDE DEF p
  <2>3. b * p >= p
    <3>1. (b - 1) * p >= 0 BY <2>1
    <3>2. (b - 1) * p = b * p - p BY <2>1
    <3> QED BY <2>1, <3>1, <3>2
  <2>4. j + m + 1 = j + (m + 1) BY <2>1
  <2> QED BY <2>1, <2>2, <2>3, <2>4
<1> HIDE DEF T
<1>3. k - j \in Nat OBVIOUS
<1>4. k - j \in T BY <1>1, <1>2, <1>3, SetInduction
<1>5. j + (k - j) = k OBVIOUS
<1> QED BY <1>4, <1>5 DEF T

LEMMA BelowPower ==
  ASSUME NEW b \in Nat \ {0}, NEW k \in Nat, NEW m \in Nat
  PROVE  m \div Power(b, k) = 0 <=> m < Power(b, k)
<1> DEFINE p == Power(b, k)
<1>1. p \in Nat \ {0} BY PowerStep
<1> HIDE DEF p
<1>2. m = p * (m \div p) + (m % p) /\ m % p \in 0 .. p - 1 /\ m \div p \in Int BY <1>1, DivDef
<1>3. m \div p = 0 => m < p BY <1>1, <1>2
<1>4. m < p => m \div p = 0
  <2> SUFFICES ASSUME m < p PROVE m \div p = 0 OBVIOUS
  <2>1. m = p * 0 + m /\ m \in 0 .. p - 1 BY <1>1
  <2>2. (p * 0 + m) \div p = 0 BY <1>1, <2>1, Divides
  <2> QED BY <2>1, <2>2
<1> QED BY <1>3, <1>4 DEF p

-----------------------------------------------------------------------------
(* The number of digits, as C counts them.                                 *)

HasDigits(m, b, k) == m < Power(b, k) /\ (k = 1 \/ m >= Power(b, k - 1))

LEMMA SomeCount ==
  ASSUME NEW m \in Nat, NEW b \in 2 .. 16
  PROVE  \E k \in 1 .. m + 1 : HasDigits(m, b, k)
<1> DEFINE T == {k \in Nat \ {0} : m < Power(b, k)}
<1>1. b \in Nat \ {0, 1} /\ b \in Nat \ {0} OBVIOUS
<1>2. m + 1 \in T
  <2>1. m + 1 \in Nat \ {0} /\ m + 1 \in Nat OBVIOUS
  <2>2. Power(b, m + 1) > m + 1 /\ Power(b, m + 1) \in Nat
    BY <1>1, <2>1, PowerBeyond, PowerStep
  <2> QED BY <2>1, <2>2
<1>3. PICK k \in T : \A j \in T : k <= j
  <2>1. T \subseteq Nat /\ T # {} BY <1>2
  <2> HIDE DEF T
  <2> QED BY <2>1, LeastNumber
<1>4. k = 1 \/ m >= Power(b, k - 1)
  <2> SUFFICES ASSUME k # 1 PROVE m >= Power(b, k - 1) OBVIOUS
  <2>1. k - 1 \in Nat \ {0} /\ k - 1 \in Nat OBVIOUS
  <2>2. k - 1 \notin T BY <1>3
  <2>3. Power(b, k - 1) \in Nat BY <1>1, <2>1, PowerStep
  <2> QED BY <2>1, <2>2, <2>3
<1>5. k \in 1 .. m + 1 BY <1>2, <1>3
<1> QED BY <1>4, <1>5 DEF HasDigits

LEMMA CountUnique ==
  ASSUME NEW m \in Nat, NEW b \in 2 .. 16, NEW j \in Nat \ {0}, NEW k \in Nat \ {0},
         HasDigits(m, b, j), HasDigits(m, b, k)
  PROVE  j = k
<1>1. ASSUME NEW x \in Nat \ {0}, NEW y \in Nat \ {0}, HasDigits(m, b, x), HasDigits(m, b, y)
      PROVE  ~(x < y)
  <2> SUFFICES ASSUME x < y PROVE FALSE OBVIOUS
  <2>1. b \in Nat \ {0} /\ y - 1 \in Nat /\ x <= y - 1 /\ y # 1 OBVIOUS
  <2>2. Power(b, x) <= Power(b, y - 1) /\ Power(b, x) \in Nat /\ Power(b, y - 1) \in Nat
    BY <2>1, PowerMonotone, PowerStep
  <2>3. m < Power(b, x) /\ m >= Power(b, y - 1) BY <1>1, <2>1 DEF HasDigits
  <2> QED BY <2>2, <2>3
<1> QED BY <1>1

(* A number needs as many digits as its greatest power of the base, and    *)
(* one: DigitCount is that number.                                         *)
LEMMA CountIs ==
  ASSUME Item \in Number
  PROVE  /\ Magnitude \in Nat
         /\ DigitCount \in Nat \ {0}
         /\ HasDigits(Magnitude, Item.base, DigitCount)
<1>1. Magnitude \in Nat /\ Item.base \in 2 .. 16 BY DEF Number, Magnitude
<1>2. \E k \in 1 .. Magnitude + 1 : HasDigits(Magnitude, Item.base, k) BY <1>1, SomeCount
<1>3. DigitCount = CHOOSE k \in 1 .. Magnitude + 1 : HasDigits(Magnitude, Item.base, k)
  BY DEF DigitCount, HasDigits
<1>4. DigitCount \in 1 .. Magnitude + 1 /\ HasDigits(Magnitude, Item.base, DigitCount)
  BY <1>2, <1>3
<1> QED BY <1>1, <1>4

-----------------------------------------------------------------------------
(* Characters, and what the helpers on sequences of them return.           *)

LEMMA NamedChars ==
  /\ Space \in Chars /\ Minus \in Chars /\ Plus \in Chars
  /\ X \in Chars /\ B \in Chars /\ NUL \in Chars /\ 0 \in Chars
  /\ <<>> \in Seq(Chars)
BY DEF Chars, Space, Minus, Plus, X, B, NUL

LEMMA RepeatType ==
  ASSUME NEW c \in Chars, NEW k \in Nat
  PROVE  Repeat(c, k) \in Seq(Chars)
<1>1. Repeat(c, k) \in [1 .. k -> Chars]
  BY DEF Repeat
<1> QED
  BY <1>1, SeqDef

LEMMA ReversedType ==
  ASSUME NEW s \in Seq(Chars)
  PROVE  Reversed(s) \in Seq(Chars)
<1>1. Len(s) \in Nat /\ \A j \in 1 .. Len(s) : s[j] \in Chars
  BY LenProperties
<1>2. Reversed(s) \in [1 .. Len(s) -> Chars]
  <2>1. \A j \in 1 .. Len(s) : Len(s) - j + 1 \in 1 .. Len(s)
    BY <1>1
  <2> QED
    BY <1>1, <2>1 DEF Reversed
<1> QED
  BY <1>1, <1>2, SeqDef

LEMMA ClippedType ==
  ASSUME NEW s \in Seq(Chars)
  PROVE  /\ Clipped(s) \in Seq(Chars)
         /\ Len(Clipped(s)) <= PRINTF_NTOA_BUFFER_SIZE
<1> DEFINE n == Lesser(Len(s), PRINTF_NTOA_BUFFER_SIZE)
<1>1. /\ Len(s) \in Nat /\ \A j \in 1 .. Len(s) : s[j] \in Chars
      /\ n \in Nat /\ n <= Len(s) /\ n <= PRINTF_NTOA_BUFFER_SIZE
  BY LenProperties DEF Lesser
<1>2. \A j \in 1 .. n : s[j] \in Chars
  BY <1>1
<1> HIDE DEF n
<1>3. /\ SubSeq(s, 1, n) \in Seq(Chars)
      /\ Len(SubSeq(s, 1, n)) = IF 1 <= n THEN n - 1 + 1 ELSE 0
  BY <1>1, <1>2, SubSeqProperties
<1>4. Clipped(s) = SubSeq(s, 1, n)
  BY DEF Clipped, n
<1> QED
  BY <1>1, <1>3, <1>4

-----------------------------------------------------------------------------
(* Sequences of characters, written lowest digit first and reversed.       *)

LEMMA RepeatFacts ==
  ASSUME NEW c \in Chars, NEW k \in Nat
  PROVE  /\ Repeat(c, k) \in Seq(Chars) /\ Len(Repeat(c, k)) = k
         /\ \A j \in 1 .. k : Repeat(c, k)[j] = c
BY RepeatType DEF Repeat

LEMMA RepeatNone == ASSUME NEW c \in Chars PROVE Repeat(c, 0) = <<>>
BY RepeatFacts, EmptySeq

LEMMA ReversedFacts ==
  ASSUME NEW s \in Seq(Chars)
  PROVE  /\ Reversed(s) \in Seq(Chars) /\ Len(Reversed(s)) = Len(s)
         /\ \A j \in 1 .. Len(s) : Reversed(s)[j] = s[Len(s) - j + 1]
BY ReversedType, LenProperties DEF Reversed

LEMMA CharsAssociate ==
  ASSUME NEW s \in Seq(Chars), NEW t \in Seq(Chars), NEW u \in Seq(Chars)
  PROVE  (s \o t) \o u = s \o (t \o u)
BY ConcatAssociative

LEMMA ReversedConcat ==
  ASSUME NEW s \in Seq(Chars), NEW t \in Seq(Chars)
  PROVE  Reversed(s \o t) = Reversed(t) \o Reversed(s)
<1> DEFINE st == s \o t  rs == Reversed(s)  rt == Reversed(t)  m == Len(s)  n == Len(t)
<1>1. m \in Nat /\ n \in Nat BY LenProperties
<1>2. /\ st \in Seq(Chars) /\ Len(st) = m + n
      /\ \A j \in 1 .. m + n : st[j] = IF j <= m THEN s[j] ELSE t[j - m]
  BY ConcatProperties
<1>3. rs \in Seq(Chars) /\ Len(rs) = m /\ \A j \in 1 .. m : rs[j] = s[m - j + 1]
  BY ReversedFacts
<1>4. rt \in Seq(Chars) /\ Len(rt) = n /\ \A j \in 1 .. n : rt[j] = t[n - j + 1]
  BY ReversedFacts
<1> DEFINE l == m + n
<1> HIDE DEF st, rs, rt, m, n
<1>5. l \in Nat /\ l = m + n /\ l = n + m BY <1>1
<1> HIDE DEF l
<1>6. /\ rt \o rs \in Seq(Chars) /\ Len(rt \o rs) = l
      /\ \A j \in 1 .. l : (rt \o rs)[j] = IF j <= n THEN rt[j] ELSE rs[j - n]
  <2>1. /\ rt \o rs \in Seq(Chars) /\ Len(rt \o rs) = n + m
        /\ \A j \in 1 .. n + m : (rt \o rs)[j] = IF j <= n THEN rt[j] ELSE rs[j - n]
    <3>1. /\ rt \o rs \in Seq(Chars) /\ Len(rt \o rs) = Len(rt) + Len(rs)
          /\ \A j \in 1 .. Len(rt) + Len(rs) :
               (rt \o rs)[j] = IF j <= Len(rt) THEN rt[j] ELSE rs[j - Len(rt)]
      <4>1. rt \in Seq(Chars) /\ rs \in Seq(Chars) BY <1>3, <1>4
      <4> QED BY <4>1, ConcatProperties
    <3> QED BY <1>3, <1>4, <3>1
  <2> QED BY <1>5, <2>1
<1>7. Len(st) = l /\ \A j \in 1 .. l : st[j] = IF j <= m THEN s[j] ELSE t[j - m]
  BY <1>2, <1>5
<1>8. /\ Reversed(st) \in Seq(Chars) /\ Len(Reversed(st)) = l
      /\ \A j \in 1 .. l : Reversed(st)[j] = st[l - j + 1]
  BY <1>2, <1>7, ReversedFacts
<1>9. ASSUME NEW j \in 1 .. l PROVE Reversed(st)[j] = (rt \o rs)[j]
  <2> DEFINE i == l - j + 1
  <2>1. i \in 1 .. l /\ i = l - j + 1 /\ j \in Int BY <1>5
  <2>2. Reversed(st)[j] = st[i] BY <1>8
  <2> HIDE DEF i
  <2>3. CASE j <= n
    <3>1. ~(i <= m) /\ i - m = n - j + 1 /\ j \in 1 .. n BY <1>1, <1>5, <2>1, <2>3
    <3>2. st[i] = t[i - m] BY <1>7, <2>1, <3>1
    <3>3. (rt \o rs)[j] = t[n - j + 1] BY <1>4, <1>6, <2>3, <3>1
    <3> QED BY <2>2, <3>1, <3>2, <3>3
  <2>4. CASE ~(j <= n)
    <3>1. i <= m /\ j - n \in 1 .. m /\ m - (j - n) + 1 = i BY <1>1, <1>5, <2>1, <2>4
    <3>2. st[i] = s[i] BY <1>7, <2>1, <3>1
    <3>3. (rt \o rs)[j] = rs[j - n] BY <1>6, <2>4
    <3>4. rs[j - n] = s[i] BY <1>3, <3>1
    <3> QED BY <2>2, <3>2, <3>3, <3>4
  <2> QED BY <2>3, <2>4
<1>10. Reversed(st) = rt \o rs BY <1>6, <1>8, <1>9, SeqEqual
<1> QED BY <1>10 DEF st, rs, rt

LEMMA ReversedRepeat ==
  ASSUME NEW c \in Chars, NEW k \in Nat
  PROVE  Reversed(Repeat(c, k)) = Repeat(c, k)
<1> DEFINE r == Repeat(c, k)
<1>1. r \in Seq(Chars) /\ Len(r) = k /\ \A j \in 1 .. k : r[j] = c BY RepeatFacts
<1> HIDE DEF r
<1>2. /\ Reversed(r) \in Seq(Chars) /\ Len(Reversed(r)) = k
      /\ \A j \in 1 .. k : Reversed(r)[j] = r[k - j + 1]
  BY <1>1, ReversedFacts
<1>3. \A j \in 1 .. k : k - j + 1 \in 1 .. k OBVIOUS
<1>4. Reversed(r) = r BY <1>1, <1>2, <1>3, SeqEqual
<1> QED BY <1>4 DEF r

(* Nothing is clipped off what fits.                                       *)
LEMMA ClippedWhole ==
  ASSUME NEW s \in Seq(Chars), Len(s) <= PRINTF_NTOA_BUFFER_SIZE
  PROVE  Clipped(s) = s
<1>1. Lesser(Len(s), PRINTF_NTOA_BUFFER_SIZE) = Len(s) BY LenProperties DEF Lesser
<1> QED BY <1>1, SubSeqFull DEF Clipped

(* Characters taken away behind zeros are zeros, as long as there are any. *)
LEMMA ZerosTaken ==
  ASSUME NEW s \in Seq(Chars), NEW k \in Nat, NEW y \in 0 .. k
  PROVE  SubSeq(s \o Repeat(0, k), 1, Len(s) + k - y) = s \o Repeat(0, k - y)
<1> DEFINE n == Len(s)  z == Repeat(0, k)  u == Repeat(0, k - y)  sz == s \o z
<1>1. n \in Nat /\ k - y \in Nat BY LenProperties
<1>2. z \in Seq(Chars) /\ Len(z) = k /\ \A j \in 1 .. k : z[j] = 0
  BY NamedChars, RepeatFacts
<1>3. u \in Seq(Chars) /\ Len(u) = k - y /\ \A j \in 1 .. k - y : u[j] = 0
  BY <1>1, NamedChars, RepeatFacts
<1> HIDE DEF n, z, u
<1>4. /\ sz \in Seq(Chars) /\ Len(sz) = n + k
      /\ \A j \in 1 .. n + k : sz[j] = IF j <= n THEN s[j] ELSE z[j - n]
  BY <1>2, ConcatProperties DEF n
<1>5. /\ s \o u \in Seq(Chars) /\ Len(s \o u) = n + (k - y)
      /\ \A j \in 1 .. n + (k - y) : (s \o u)[j] = IF j <= n THEN s[j] ELSE u[j - n]
  BY <1>3, ConcatProperties DEF n
<1> HIDE DEF sz
<1> DEFINE m == n + k - y
<1>6. m \in Nat /\ m = n + (k - y) /\ m <= n + k BY <1>1
<1>7. \A j \in 1 .. m : sz[j] \in Chars
  <2>1. \A j \in 1 .. Len(sz) : sz[j] \in Chars BY <1>4, ElementOfSeq
  <2>2. \A j \in 1 .. m : j \in 1 .. Len(sz) BY <1>1, <1>4, <1>6
  <2> QED BY <2>1, <2>2
<1> HIDE DEF m
<1>8. /\ SubSeq(sz, 1, m) \in Seq(Chars) /\ Len(SubSeq(sz, 1, m)) = m
      /\ \A j \in 1 .. m : SubSeq(sz, 1, m)[j] = sz[j]
  BY <1>6, <1>7, SubSeqProperties
<1>9. ASSUME NEW j \in 1 .. m PROVE SubSeq(sz, 1, m)[j] = (s \o u)[j]
  <2>1. j \in 1 .. n + k /\ j \in 1 .. n + (k - y) BY <1>1, <1>6
  <2>2. CASE j <= n BY <1>4, <1>5, <1>8, <2>1, <2>2
  <2>3. CASE ~(j <= n)
    <3>1. j - n \in 1 .. k /\ j - n \in 1 .. k - y /\ ~(j <= n) BY <1>1, <2>1, <2>3
    <3>2. sz[j] = z[j - n] /\ (s \o u)[j] = u[j - n] BY <1>4, <1>5, <2>1, <3>1
    <3> QED BY <1>2, <1>3, <1>8, <3>1, <3>2
  <2> QED BY <2>2, <2>3
<1>10. SubSeq(sz, 1, m) = s \o u BY <1>5, <1>6, <1>8, <1>9, SeqEqual
<1> QED BY <1>10 DEF sz, z, u, m, n

LEMMA DigitType ==
  ASSUME NEW v \in Nat, NEW b \in 2 .. 16
  PROVE  v % b \in Chars /\ v \div b \in Nat
<1>1. v % b \in 0 .. (b - 1) /\ v \div b \in Nat
  OBVIOUS
<1> QED
  BY <1>1 DEF Chars

LEMMA HeadType ==
  ASSUME TypeOK, format # <<>>
  PROVE  /\ Item \in Plain \cup Text \cup Number
         /\ Tail(format) \in Seq(Plain \cup Text \cup Number)
BY HeadTailProperties DEF TypeOK, Item

LEMMA SentType ==
  ASSUME NEW cs \in Seq(Chars)
  PROVE  SentOf(cs) \in Nat
<1>1. DOMAIN cs = 1 .. Len(cs) /\ Len(cs) \in Nat
  BY LenProperties
<1>2. IsFiniteSet(DOMAIN cs)
  BY <1>1, FS_Interval
<1>3. IsFiniteSet({j \in DOMAIN cs : cs[j] # NUL})
  BY <1>2, FS_Subset
<1> QED
  BY <1>3, FS_CardinalityType DEF SentOf

(* What TypeOK says of the variables an output step changes.               *)
OutputType ==
  /\ buffer \in [0 .. (maxlen - 1) -> Chars \cup {Unset}]
  /\ sent \in Nat
  /\ text \in Seq(Chars)
  /\ idx \in Nat

(* Passing characters to any of the output functions keeps the caller's    *)
(* buffer a prefix of the text.                                            *)
LEMMA OutputStep ==
  ASSUME OutputType, OutputInv, maxlen \in Nat, out \in OutputFunctions,
         pc # "done", pc' # "done", UNCHANGED call,
         NEW cs \in Seq(Chars), Out(cs)
  PROVE  OutputType' /\ OutputInv' /\ StoresPrefix'
<1>1. /\ maxlen' = maxlen /\ out' = out
      /\ idx' = idx + Len(cs) /\ text' = text \o cs
      /\ idx \in Nat /\ text \in Seq(Chars) /\ idx = Len(text)
  BY DEF call, Out, OutputType, OutputInv
<1>2. /\ Len(cs) \in Nat
      /\ \A j \in 1 .. Len(cs) : cs[j] \in Chars
  BY LenProperties
<1>3. /\ text' \in Seq(Chars)
      /\ Len(text') = idx'
      /\ \A j \in 1 .. idx + Len(cs) :
           text'[j] = IF j <= idx THEN text[j] ELSE cs[j - idx]
  BY <1>1, ConcatProperties
<1>4. sent' \in Nat
  BY SentType DEF Out, OutputType
<1>5. CASE out = "_out_buffer"
  <2>1. buffer' = Stored(cs) /\ DOMAIN buffer = 0 .. (maxlen - 1)
    BY <1>5 DEF Out, OutputType
  <2>2. \A j \in DOMAIN buffer :
          buffer'[j] = IF j < idx' THEN text'[j + 1] ELSE Unset
    <3> SUFFICES ASSUME NEW j \in DOMAIN buffer
                 PROVE  buffer'[j] = IF j < idx' THEN text'[j + 1] ELSE Unset
      OBVIOUS
    <3>1. /\ j \in Nat
          /\ buffer'[j] = IF idx <= j /\ j < idx + Len(cs) THEN cs[j - idx + 1] ELSE buffer[j]
          /\ buffer[j] = IF j < idx THEN text[j + 1] ELSE Unset
      BY <1>5, <2>1 DEF Stored, OutputInv
    <3>2. j < idx' => text'[j + 1] = IF j + 1 <= idx THEN text[j + 1] ELSE cs[j + 1 - idx]
      BY <1>1, <1>2, <1>3, <3>1
    <3>3. j + 1 - idx = j - idx + 1
      BY <1>1, <3>1
    <3> QED
      BY <1>1, <1>2, <3>1, <3>2, <3>3
  <2>3. \A j \in DOMAIN buffer : Stored(cs)[j] \in Chars \cup {Unset}
    BY <1>1, <1>2, <2>1 DEF Stored, OutputType
  <2>4. buffer' \in [0 .. (maxlen - 1) -> Chars \cup {Unset}]
    BY <2>1, <2>3 DEF Stored
  <2> QED
    BY <1>1, <1>2, <1>3, <1>4, <1>5, <2>1, <2>2, <2>4
    DEF OutputType, OutputInv, StoresPrefix
<1>6. CASE out # "_out_buffer"
  BY <1>1, <1>2, <1>3, <1>4, <1>6 DEF OutputType, OutputInv, StoresPrefix, Out
<1> QED
  BY <1>5, <1>6

-----------------------------------------------------------------------------
LEMMA InitInv == Init => IInv
<1> SUFFICES ASSUME Init PROVE IInv
  OBVIOUS
<1>1. maxlen \in Nat /\ buffer = [j \in 0 .. (maxlen - 1) |-> Unset]
  BY CountsAssumption DEF Init
<1>2. format \in Seq(Plain \cup Text \cup Number)
  BY FormatsAssumption DEF Init
<1>3. TypeOK
  BY <1>1, <1>2, NamedChars DEF Init, TypeOK, Flags
<1>4. OutputInv /\ StoresPrefix
  BY <1>1, EmptySeq DEF Init, OutputInv, StoresPrefix
<1>5. NtoaInBounds /\ ConversionInv
  BY EmptySeq DEF Init, NtoaInBounds, ConversionInv
<1> QED
  BY <1>3, <1>4, <1>5 DEF IInv

(* A step of output that ends an item.                                     *)
LEMMA ItemDone ==
  ASSUME IInv, pc # "done", format # <<>>, NEW cs \in Seq(Chars), Out(cs),
         NextItem, UNCHANGED <<call, ret>>,
         buf' \in Seq(Chars), Len(buf') <= PRINTF_NTOA_BUFFER_SIZE,
         value' \in Nat, flags' \in SUBSET Flags
  PROVE  IInv'
<1>1. OutputType' /\ OutputInv' /\ StoresPrefix'
  <2>1. OutputType /\ OutputInv /\ maxlen \in Nat /\ out \in OutputFunctions /\ pc' # "done"
    BY DEF IInv, TypeOK, OutputType, NextItem
  <2> QED
    BY <2>1, OutputStep
<1>2. TypeOK'
  <2>1. format' \in Seq(Plain \cup Text \cup Number) /\ pc' = "item"
    BY HeadType DEF IInv, NextItem
  <2> QED
    BY <1>1, <2>1 DEF IInv, TypeOK, OutputType, call
<1>3. NtoaInBounds' /\ ConversionInv'
  BY DEF NextItem, NtoaInBounds, ConversionInv
<1> QED
  BY <1>1, <1>2, <1>3 DEF IInv

(* A step inside a conversion passes nothing to the output function.       *)
LEMMA NothingOut ==
  ASSUME OutputInv, pc # "done", pc' # "done", UNCHANGED <<call, buffer, sent, idx, text>>
  PROVE  OutputInv' /\ StoresPrefix'
BY DEF OutputInv, StoresPrefix, call

-----------------------------------------------------------------------------
LEMMA PlainItemInv == ASSUME IInv, PlainItem PROVE IInv'
<1>1. Item \in Plain
  BY HeadType DEF IInv, PlainItem, Text, Number
<1>2. <<Item.char>> \in Seq(Chars)
  BY <1>1 DEF Plain
<1>3. /\ buf' \in Seq(Chars) /\ Len(buf') <= PRINTF_NTOA_BUFFER_SIZE
      /\ value' \in Nat /\ flags' \in SUBSET Flags
  BY DEF PlainItem, ntoa, IInv, TypeOK, NtoaInBounds
<1>4. /\ pc # "done" /\ format # <<>> /\ Out(<<Item.char>>) /\ NextItem
      /\ UNCHANGED <<call, ret>>
  BY DEF PlainItem
<1> QED
  BY <1>2, <1>3, <1>4, ItemDone

LEMMA TextShownType ==
  ASSUME Item \in Text
  PROVE  TextShown \in Seq(Chars) /\ Len(TextShown) \in Nat
<1>1. Item.chars \in Seq(Chars) /\ Item.precision \in Nat
  BY DEF Text
<1>2. Len(Item.chars) \in Nat /\ \A j \in 1 .. Len(Item.chars) : Item.chars[j] \in Chars
  BY <1>1, LenProperties
<1> DEFINE n == Lesser(Len(Item.chars), Item.precision)
<1>3. n \in Nat /\ n <= Len(Item.chars)
  BY <1>1, <1>2 DEF Lesser
<1>4. \A j \in 1 .. n : Item.chars[j] \in Chars
  BY <1>2, <1>3
<1> HIDE DEF n
<1>5. SubSeq(Item.chars, 1, n) \in Seq(Chars)
  BY <1>3, <1>4, SubSeqProperties
<1>6. TextShown \in Seq(Chars)
  BY <1>1, <1>5 DEF TextShown, n
<1> QED
  BY <1>6, LenProperties

LEMMA TextItemInv == ASSUME IInv, TextItem PROVE IInv'
<1>1. Item \in Text
  BY HeadType DEF IInv, TextItem, Plain, Number
<1> DEFINE pad == Repeat(Space, Greater(0, Item.width - Len(TextShown)))
           cs  == IF "LEFT" \in Item.flags THEN TextShown \o pad ELSE pad \o TextShown
<1>2. pad \in Seq(Chars)
  <2>1. Greater(0, Item.width - Len(TextShown)) \in Nat
    BY <1>1, TextShownType DEF Text, Greater
  <2> QED
    BY <2>1, RepeatType, NamedChars
<1>3. cs \in Seq(Chars)
  BY <1>1, <1>2, TextShownType, ConcatProperties
<1>4. /\ buf' \in Seq(Chars) /\ Len(buf') <= PRINTF_NTOA_BUFFER_SIZE
      /\ value' \in Nat /\ flags' \in SUBSET Flags
  BY DEF TextItem, ntoa, IInv, TypeOK, NtoaInBounds
<1>5. /\ pc # "done" /\ format # <<>> /\ Out(cs) /\ NextItem /\ UNCHANGED <<call, ret>>
  BY DEF TextItem
<1> QED
  BY <1>3, <1>4, <1>5, ItemDone

LEMMA IntItemInv == ASSUME IInv, IntItem PROVE IInv'
<1>1. Item \in Number
  BY HeadType DEF IInv, IntItem, Plain, Text
<1>2. Relevant \in SUBSET Flags
  BY <1>1 DEF Relevant, PointerFlags, Number, Flags
<1>3. Absolute(Item.value) \in Nat
  BY <1>1 DEF Absolute, Number
<1>4. /\ pc' \in {"digits", "format"} /\ buf' = <<>> /\ flags' = Relevant
      /\ value' = Absolute(Item.value) /\ pc # "done" /\ format # <<>>
      /\ UNCHANGED <<call, buffer, sent, idx, format, ret, text>>
  BY DEF IntItem
<1>5. TypeOK'
  BY <1>2, <1>3, <1>4, NamedChars DEF IInv, TypeOK, call
<1>6. NtoaInBounds'
  BY <1>4, EmptySeq DEF NtoaInBounds, HasRoom
<1>7. ConversionInv'
  BY <1>1, <1>4 DEF ConversionInv, Item
<1>8. OutputInv' /\ StoresPrefix'
  BY <1>4, NothingOut DEF IInv
<1> QED
  BY <1>5, <1>6, <1>7, <1>8 DEF IInv

LEMMA DigitInv == ASSUME IInv, Digit PROVE IInv'
<1>1. /\ Item \in Number /\ format # <<>> /\ value \in Nat /\ buf \in Seq(Chars)
      /\ Len(buf) < PRINTF_NTOA_BUFFER_SIZE
  BY DEF IInv, TypeOK, ConversionInv, NtoaInBounds, HasRoom, Digit
<1>2. value % Item.base \in Chars /\ value \div Item.base \in Nat
  BY <1>1, DigitType DEF Number
<1>3. /\ buf' = Append(buf, value % Item.base) /\ value' = value \div Item.base
      /\ pc' = IF value' # 0 /\ HasRoom(buf') THEN "digits" ELSE "format"
      /\ pc # "done"
      /\ UNCHANGED <<call, buffer, sent, idx, format, flags, ret, text>>
  BY DEF Digit
<1>4. buf' \in Seq(Chars) /\ Len(buf') = Len(buf) + 1 /\ Len(buf) \in Nat
  BY <1>1, <1>2, <1>3, LenProperties
<1>5. TypeOK'
  BY <1>2, <1>3, <1>4 DEF IInv, TypeOK, call
<1>6. NtoaInBounds'
  BY <1>1, <1>3, <1>4 DEF NtoaInBounds
<1>7. ConversionInv'
  BY <1>1, <1>3 DEF ConversionInv, Item
<1>8. OutputInv' /\ StoresPrefix'
  BY <1>3, NothingOut DEF IInv
<1> QED
  BY <1>5, <1>6, <1>7, <1>8 DEF IInv

LEMMA ZerosType ==
  ASSUME Item \in Number, NEW s \in Seq(Chars)
  PROVE  Zeros(s) \in Seq(Chars)
<1>1. Item.width \in Nat /\ Item.precision \in Nat /\ Len(s) \in Nat
  BY LenProperties DEF Number
<1>2. Width \in Nat
  BY <1>1 DEF Width
<1> DEFINE wanted == Greater(Item.precision, IF "ZEROPAD" \in flags THEN Width ELSE 0)
<1>3. wanted \in Nat
  BY <1>1, <1>2 DEF Greater
<1> HIDE DEF wanted
<1>4. Greater(0, wanted - Len(s)) \in Nat
  BY <1>1, <1>3 DEF Greater
<1>5. Repeat(0, Greater(0, wanted - Len(s))) \in Seq(Chars)
  BY <1>4, RepeatType, NamedChars
<1> QED
  BY <1>5, NamedChars DEF Zeros, wanted

LEMMA WithPrefixType ==
  ASSUME NEW s \in Seq(Chars)
  PROVE  WithPrefix(s) \in Seq(Chars)
<1>1. Len(s) \in Nat /\ \A j \in 1 .. Len(s) : s[j] \in Chars
  BY LenProperties
<1> DEFINE n == Len(s) - Yielded(s)
<1>2. n \in Int /\ n <= Len(s)
  BY <1>1 DEF Yielded
<1>3. \A j \in 1 .. n : s[j] \in Chars
  BY <1>1, <1>2
<1> HIDE DEF n
<1>4. SubSeq(s, 1, n) \in Seq(Chars)
  BY <1>2, <1>3, SubSeqProperties
<1>5. Prefix \in Seq(Chars)
  BY NamedChars DEF Prefix
<1>6. SubSeq(s, 1, n) \o Prefix \in Seq(Chars)
  BY <1>4, <1>5, ConcatProperties
<1> QED
  BY <1>6 DEF WithPrefix, n

LEMMA FormatInv == ASSUME IInv, Format PROVE IInv'
<1>1. Item \in Number /\ format # <<>> /\ buf \in Seq(Chars)
  BY DEF IInv, TypeOK, ConversionInv, Format
<1> DEFINE padded   == Clipped(buf \o Zeros(buf))
           prefixed == Clipped(WithPrefix(padded))
<1>2. padded \in Seq(Chars)
  BY <1>1, ZerosType, ConcatProperties, ClippedType
<1>3. prefixed \in Seq(Chars)
  BY <1>2, WithPrefixType, ClippedType
<1>4. Sign \in Seq(Chars)
  BY NamedChars DEF Sign
<1>5. /\ pc' = "reverse" /\ pc # "done" /\ buf' = Clipped(prefixed \o Sign)
      /\ UNCHANGED <<call, buffer, sent, idx, format, value, flags, ret, text>>
  BY DEF Format
<1>6. buf' \in Seq(Chars) /\ Len(buf') <= PRINTF_NTOA_BUFFER_SIZE
  BY <1>3, <1>4, <1>5, ConcatProperties, ClippedType
<1>7. TypeOK'
  BY <1>5, <1>6 DEF IInv, TypeOK, call
<1>8. NtoaInBounds' /\ ConversionInv'
  BY <1>1, <1>5, <1>6 DEF NtoaInBounds, ConversionInv, Item
<1>9. OutputInv' /\ StoresPrefix'
  BY <1>5, NothingOut DEF IInv
<1> QED
  BY <1>7, <1>8, <1>9 DEF IInv

LEMMA ReverseInv == ASSUME IInv, Reverse PROVE IInv'
<1>1. Item \in Number /\ format # <<>> /\ buf \in Seq(Chars)
  BY DEF IInv, TypeOK, ConversionInv, Reverse
<1>2. Field \in Seq(Chars)
  <2>1. Reversed(buf) \in Seq(Chars)
    BY <1>1, ReversedType
  <2>2. Greater(0, Item.width - Len(buf)) \in Nat
    BY <1>1, LenProperties DEF Greater, Number
  <2>3. Repeat(Space, Greater(0, Item.width - Len(buf))) \in Seq(Chars)
    BY <2>2, RepeatType, NamedChars
  <2> QED
    BY <2>1, <2>3, ConcatProperties DEF Field
<1>3. /\ pc # "done" /\ Out(Field) /\ NextItem /\ UNCHANGED <<call, ret>>
      /\ buf' = <<>> /\ value' = 0 /\ flags' = {}
  BY DEF Reverse
<1> QED
  BY <1>1, <1>2, <1>3, ItemDone, NamedChars, EmptySeq

(* The final NUL goes behind the prefix that fits; EndAt is the first of    *)
(* the text's length and the last byte.                                    *)
LEMMA TerminateInv == ASSUME IInv, Terminate PROVE IInv'
<1>1. /\ TypeOK /\ OutputInv /\ idx \in Nat /\ maxlen \in Nat /\ idx = Len(text)
      /\ DOMAIN buffer = 0 .. (maxlen - 1)
  BY DEF IInv, TypeOK, OutputInv
<1>2. /\ ret' = idx /\ pc' = "done" /\ pc = "item"
      /\ UNCHANGED <<call, sent, idx, format, ntoa, text>>
      /\ buffer' = IF out = "_out_buffer"
                     THEN [j \in DOMAIN buffer |-> IF j = EndAt THEN NUL ELSE buffer[j]]
                     ELSE buffer
  BY DEF Terminate
<1>3. TypeOK'
  BY <1>1, <1>2, NamedChars DEF TypeOK, call, ntoa
<1>4. NtoaInBounds' /\ ConversionInv' /\ OutputInv'
  BY <1>2, <1>1 DEF IInv, NtoaInBounds, ConversionInv, OutputInv, ntoa, call
<1>5. StoresPrefix'
  <2> SUFFICES ASSUME out = "_out_buffer", NEW j \in DOMAIN buffer
               PROVE  LET end == Lesser(idx, maxlen - 1)
                      IN  buffer'[j] = IF j < end THEN text[j + 1]
                                       ELSE IF j = end THEN NUL ELSE Unset
    BY <1>1, <1>2 DEF StoresPrefix, call
  <2>1. /\ j \in Nat /\ j < maxlen
        /\ buffer[j] = IF j < idx THEN text[j + 1] ELSE Unset
        /\ buffer'[j] = IF j = EndAt THEN NUL ELSE buffer[j]
    BY <1>1, <1>2 DEF OutputInv
  <2>2. EndAt = Lesser(idx, maxlen - 1) /\ EndAt <= idx /\ EndAt <= maxlen - 1
        /\ EndAt \in {idx, maxlen - 1}
    BY <1>1, <2>1 DEF EndAt, Lesser
  <2> QED
    BY <1>1, <2>1, <2>2
<1> QED
  BY <1>3, <1>4, <1>5 DEF IInv

LEMMA StutterInv == ASSUME IInv, UNCHANGED vars PROVE IInv'
BY DEF vars, call, ntoa, IInv, TypeOK, NtoaInBounds, HasRoom, ConversionInv, Item,
       OutputInv, StoresPrefix

LEMMA NextInv == ASSUME IInv, [Next]_vars PROVE IInv'
<1>1. CASE PlainItem
  BY <1>1, PlainItemInv
<1>2. CASE TextItem
  BY <1>2, TextItemInv
<1>3. CASE IntItem
  BY <1>3, IntItemInv
<1>4. CASE Digit
  BY <1>4, DigitInv
<1>5. CASE Format
  BY <1>5, FormatInv
<1>6. CASE Reverse
  BY <1>6, ReverseInv
<1>7. CASE Terminate
  BY <1>7, TerminateInv
<1>8. CASE Done \/ UNCHANGED vars
  BY <1>8, StutterInv DEF Done
<1> QED
  BY <1>1, <1>2, <1>3, <1>4, <1>5, <1>6, <1>7, <1>8 DEF Next

-----------------------------------------------------------------------------
(* The field of an integer is what C asks for.                             *)

FieldHyp ==
  /\ Item \in Number /\ Item.kind = "integer" /\ Convertible(Item)
  /\ flags = Relevant /\ Fits
  /\ "HASH" \in flags => Item.base = 16 /\ ~PrefixTakesDigits
  /\ "LEFT" \in flags => Item.precision <= Len(Digits)

(* What _ntoa_format makes of digits, lowest first.                        *)
Formatted(d) == Clipped(Clipped(WithPrefix(Clipped(d \o Zeros(d)))) \o Sign)

HashB == IF "HASH" \in flags THEN <<X, 0>> ELSE <<>>

Signed == IsNegative \/ {"PLUS", "SPACE"} \cap flags # {}

SignLen == IF Signed THEN 1 ELSE 0
HashLen == IF "HASH" \in flags THEN 2 ELSE 0

(* The zeros that C puts between prefix and digits.                        *)
Fill ==
  IF "LEFT" \in flags THEN 0
  ELSE IF "ZEROPAD" \in flags
         THEN Greater(0, Item.width - (SignLen + HashLen + Len(Digits)))
         ELSE Greater(0, Item.precision - Len(Digits))

LEMMA FlagFacts ==
  ASSUME FieldHyp
  PROVE  /\ "LEFT" \in flags <=> "LEFT" \in Item.flags
         /\ "PRECISION" \in flags <=> "PRECISION" \in Item.flags
         /\ "ZEROPAD" \in flags <=> "ZEROPAD" \in Item.flags /\ "PRECISION" \notin Item.flags
         /\ "HASH" \in flags <=> "HASH" \in Item.flags /\ Item.base # 10 /\ Item.value # 0
         /\ "PLUS" \in flags <=> "PLUS" \in Item.flags /\ Item.signed
         /\ "SPACE" \in flags <=> "SPACE" \in Item.flags /\ Item.signed
         /\ "HASH" \in flags => ~Signed /\ Item.base = 16
         /\ "PRECISION" \notin flags => Item.precision = 0
         /\ Item.signed \in BOOLEAN
<1>1. flags = Item.flags \ UNION {Hashless, IF ~Item.signed THEN {"PLUS", "SPACE"} ELSE {},
                                  IF "PRECISION" \in Item.flags THEN {"ZEROPAD"} ELSE {}}
  BY DEF FieldHyp, Relevant
<1>2. Hashless = IF Item.base = 10 \/ Item.value = 0 THEN {"HASH"} ELSE {} BY DEF Hashless
<1>3. /\ Item.signed \in BOOLEAN /\ Item.value \in Int
      /\ Item.value < 0 => Item.signed
      /\ Item.signed => Item.base = 10
      /\ "PRECISION" \notin Item.flags => Item.precision = 0
      /\ "HASH" \in flags => Item.base = 16
  BY DEF FieldHyp, Number, Convertible
<1>4. /\ "LEFT" \in flags <=> "LEFT" \in Item.flags
      /\ "PRECISION" \in flags <=> "PRECISION" \in Item.flags
      /\ "ZEROPAD" \in flags <=> "ZEROPAD" \in Item.flags /\ "PRECISION" \notin Item.flags
      /\ "HASH" \in flags <=> "HASH" \in Item.flags /\ Item.base # 10 /\ Item.value # 0
      /\ "PLUS" \in flags <=> "PLUS" \in Item.flags /\ Item.signed
      /\ "SPACE" \in flags <=> "SPACE" \in Item.flags /\ Item.signed
  BY <1>1, <1>2
<1>5. "HASH" \in flags => ~Signed BY <1>3, <1>4 DEF Signed, IsNegative
<1> QED BY <1>3, <1>4, <1>5

(* Signs and prefixes are those of C.                                      *)
LEMMA BeforeFacts ==
  ASSUME FieldHyp
  PROVE  /\ SignC = Sign /\ Sign \in Seq(Chars) /\ Len(Sign) = SignLen /\ Reversed(Sign) = Sign
         /\ HashC = Reversed(HashB) /\ HashB \in Seq(Chars) /\ Len(HashB) = HashLen
<1>1. SignC = Sign
  <2>1. Item.signed \in BOOLEAN /\ (Item.value < 0 => Item.signed)
    BY DEF FieldHyp, Number, Convertible
  <2> QED BY <2>1, FlagFacts DEF SignC, Sign, IsNegative
<1>2. \/ Signed /\ \E c \in Chars : Sign = <<c>>
      \/ ~Signed /\ Sign = <<>>
  BY NamedChars DEF Sign, Signed
<1>3. ASSUME NEW c \in Chars PROVE <<c>> \in Seq(Chars) /\ Reversed(<<c>>) = <<c>> /\ Len(<<c>>) = 1
  <2>1. <<c>> = Repeat(c, 1)
    <3> DEFINE s == <<c>>  r == Repeat(c, 1)
    <3>1. Len(s) = 1 /\ s \in Seq(Chars) /\ s[1] = c OBVIOUS
    <3>2. Len(r) = 1 /\ r \in Seq(Chars) /\ r[1] = c
      <4>1. 1 \in Nat /\ 1 \in 1 .. 1 OBVIOUS
      <4>2. r \in Seq(Chars) /\ Len(r) = 1 /\ \A j \in 1 .. 1 : r[j] = c
        BY <4>1, RepeatFacts, Zenon
      <4> HIDE DEF r
      <4> QED BY <4>1, <4>2
    <3> HIDE DEF s, r
    <3>3. \A j \in 1 .. Len(s) : s[j] = r[j] BY <3>1, <3>2
    <3>4. s = r BY <3>1, <3>2, <3>3, SeqEqual
    <3> QED BY <3>4 DEF s, r
  <2> QED BY <2>1, RepeatFacts, ReversedRepeat
<1>4. Reversed(<<>>) = <<>> /\ <<>> \in Seq(Chars) /\ Len(<<>>) = 0
  BY RepeatNone, ReversedRepeat, NamedChars, EmptySeq
<1>5. Sign \in Seq(Chars) /\ Len(Sign) = SignLen /\ Reversed(Sign) = Sign
  <2>1. CASE Signed
    <3>1. PICK c \in Chars : Sign = <<c>> BY <1>2, <2>1
    <3> QED BY <1>3, <2>1, <3>1 DEF SignLen
  <2>2. CASE ~Signed
    <3>1. Sign = <<>> /\ SignLen = 0 BY <1>2, <2>2 DEF SignLen
    <3> QED BY <1>4, <3>1, Zenon
  <2> QED BY <2>1, <2>2
<1>6. <<X, 0>> \in Seq(Chars) /\ Len(<<X, 0>>) = 2 BY NamedChars
<1>7. Reversed(<<X, 0>>) = <<0, X>>
  <2>1. <<0, X>> \in Seq(Chars) /\ Len(<<0, X>>) = 2 BY NamedChars
  <2>2. ASSUME NEW j \in 1 .. 2 PROVE Reversed(<<X, 0>>)[j] = <<0, X>>[j]
    <3>1. Reversed(<<X, 0>>)[j] = <<X, 0>>[2 - j + 1] BY <1>6, ReversedFacts
    <3> QED BY <3>1
  <2> QED BY <1>6, <2>1, <2>2, ReversedFacts, SeqEqual
<1>8. HashC = Reversed(HashB)
  <2>1. "HASH" \in flags <=> "HASH" \in Item.flags /\ Item.base = 16 /\ Item.value # 0
    BY FlagFacts
  <2> QED BY <1>4, <1>7, <2>1 DEF HashC, HashB
<1>9. HashB \in Seq(Chars) /\ Len(HashB) = HashLen BY <1>4, <1>6 DEF HashB, HashLen
<1> QED BY <1>1, <1>5, <1>8, <1>9

LEMMA DigitsFacts ==
  ASSUME FieldHyp
  PROVE  /\ Digits \in Seq(Chars) /\ Len(Digits) \in Nat
         /\ "PRECISION" \notin flags => Len(Digits) > 0
         /\ ~(Magnitude = 0 /\ "PRECISION" \in Item.flags) => Len(Digits) = DigitCount
<1> DEFINE Of(j) == (Magnitude \div Power(Item.base, DigitCount - j)) % Item.base
<1>1. Magnitude \in Nat /\ DigitCount \in Nat \ {0} /\ Item.base \in 2 .. 16
  BY CountIs DEF FieldHyp, Number
<1>2. ASSUME NEW j \in 1 .. DigitCount PROVE Of(j) \in Chars
  <2>1. DigitCount - j \in Nat /\ Item.base \in Nat \ {0} BY <1>1
  <2>2. Power(Item.base, DigitCount - j) \in Nat \ {0} BY <2>1, PowerStep
  <2>3. Magnitude \div Power(Item.base, DigitCount - j) \in Nat BY <1>1, <2>2
  <2> QED BY <1>1, <2>3, DigitType
<1>3. CASE Magnitude = 0 /\ "PRECISION" \in Item.flags
  <2>1. Digits = <<>> BY <1>3 DEF Digits
  <2> QED BY <1>3, <2>1, NamedChars, EmptySeq, FlagFacts
<1>4. CASE ~(Magnitude = 0 /\ "PRECISION" \in Item.flags)
  <2> HIDE DEF Of
  <2>1. [j \in 1 .. DigitCount |-> Of(j)] \in [1 .. DigitCount -> Chars] BY <1>2
  <2>2. [j \in 1 .. DigitCount |-> Of(j)] \in Seq(Chars) BY <1>1, <2>1, SeqDef
  <2>3. Digits = [j \in 1 .. DigitCount |-> Of(j)] BY <1>4 DEF Digits, Of
  <2>4. Len(Digits) = DigitCount BY <1>1, <2>3
  <2> QED BY <1>1, <1>4, <2>2, <2>3, <2>4
<1> QED BY <1>3, <1>4

LEMMA PreciseFacts ==
  ASSUME FieldHyp
  PROVE  /\ Precise \in Seq(Chars)
         /\ Precise = Repeat(0, Greater(0, Item.precision - Len(Digits))) \o Digits
         /\ Len(Precise) = Greater(Len(Digits), Item.precision)
         /\ Item.precision \in Nat /\ Item.width \in Nat
<1> DEFINE z == Greater(0, Item.precision - Len(Digits))
<1>1. Item.precision \in Nat /\ Item.width \in Nat /\ Len(Digits) \in Nat /\ Digits \in Seq(Chars)
  BY DigitsFacts DEF FieldHyp, Number
<1>2. z \in Nat /\ z + Len(Digits) = Greater(Len(Digits), Item.precision) BY <1>1 DEF Greater
<1> HIDE DEF z
<1>3. Repeat(0, z) \in Seq(Chars) /\ Len(Repeat(0, z)) = z BY <1>2, RepeatFacts, NamedChars
<1>4. Precise = Repeat(0, z) \o Digits BY DEF Precise, z
<1>5. Precise \in Seq(Chars) /\ Len(Precise) = z + Len(Digits)
  BY <1>1, <1>3, <1>4, ConcatProperties
<1> QED BY <1>1, <1>2, <1>4, <1>5 DEF z

(* What Fits says of the lengths.                                          *)
LEMMA FitsFacts ==
  ASSUME FieldHyp
  PROVE  /\ SignLen + HashLen + Greater(Len(Digits), Item.precision) <= PRINTF_NTOA_BUFFER_SIZE
         /\ "ZEROPAD" \in flags /\ "LEFT" \notin flags => Item.width <= PRINTF_NTOA_BUFFER_SIZE
<1>1. /\ SignC \in Seq(Chars) /\ Len(SignC) = SignLen
      /\ HashC \in Seq(Chars) /\ Len(HashC) = HashLen
      /\ Precise \in Seq(Chars) /\ Len(Precise) = Greater(Len(Digits), Item.precision)
  BY BeforeFacts, PreciseFacts, ReversedFacts
<1>2. SignC \o HashC \in Seq(Chars) /\ Len(SignC \o HashC) = SignLen + HashLen
  BY <1>1, ConcatProperties
<1>3. Len((SignC \o HashC) \o Precise) = SignLen + HashLen + Greater(Len(Digits), Item.precision)
  <2> DEFINE b == SignC \o HashC
  <2> HIDE DEF b
  <2>1. b \in Seq(Chars) /\ Len(b) = SignLen + HashLen BY <1>2 DEF b
  <2>2. Len(b \o Precise) = Len(b) + Len(Precise) BY <1>1, <2>1, ConcatProperties
  <2> QED BY <1>1, <2>1, <2>2 DEF b
<1> QED BY <1>3 DEF FieldHyp, Fits, PadsZeros

(* The zeros _ntoa_format writes, less those the prefix takes the place    *)
(* of, are the zeros of C.                                                 *)
LEMMA ZerosFacts ==
  ASSUME FieldHyp, NEW s \in Seq(Chars), Len(s) = Len(Digits)
  PROVE  /\ Fill \in Nat
         /\ SignLen + HashLen + Len(s) + Fill <= PRINTF_NTOA_BUFFER_SIZE
         /\ \E z \in Nat :
              /\ Zeros(s) = Repeat(0, z)
              /\ Len(s) + z <= PRINTF_NTOA_BUFFER_SIZE
              /\ "HASH" \notin flags => z = Fill
              /\ "HASH" \in flags =>
                   \A t \in Seq(Chars) : Len(t) = Len(s) + z =>
                     Yielded(t) \in 0 .. z /\ z - Yielded(t) = Fill
<1> DEFINE n == Len(Digits)  w == Item.width  p == Item.precision
           wanted == Greater(p, IF "ZEROPAD" \in flags THEN Width ELSE 0)
           z == IF "LEFT" \in flags THEN 0 ELSE Greater(0, wanted - Len(s))
<1>1. /\ n \in Nat /\ w \in Nat /\ p \in Nat /\ Len(s) = n
      /\ "PRECISION" \notin flags => n > 0 /\ p = 0
      /\ "ZEROPAD" \in flags => "PRECISION" \notin flags
      /\ "HASH" \in flags => ~Signed /\ Item.base = 16
      /\ "LEFT" \in flags => p <= n
      /\ SignLen \in {0, 1} /\ HashLen \in {0, 2}
      /\ Signed => SignLen = 1 /\ HashLen = 0
      /\ ~Signed => SignLen = 0
      /\ "HASH" \in flags => HashLen = 2
      /\ "HASH" \notin flags => HashLen = 0
  BY DigitsFacts, PreciseFacts, FlagFacts DEF FieldHyp, SignLen, HashLen
<1>2. /\ SignLen + HashLen + Greater(n, p) <= PRINTF_NTOA_BUFFER_SIZE
      /\ "ZEROPAD" \in flags /\ "LEFT" \notin flags => w <= PRINTF_NTOA_BUFFER_SIZE
  BY FitsFacts
<1>3. Width = IF "LEFT" \notin flags /\ w > 0 /\ "ZEROPAD" \in flags /\ Signed THEN w - 1 ELSE w
  BY DEF Width, Signed
<1>4. Fill = IF "LEFT" \in flags THEN 0
             ELSE IF "ZEROPAD" \in flags THEN Greater(0, w - (SignLen + HashLen + n))
             ELSE Greater(0, p - n)
  BY DEF Fill
<1>5. "HASH" \in flags /\ "PRECISION" \notin flags =>
        n # w /\ ("ZEROPAD" \in flags /\ "LEFT" \notin flags => n # w - 1)
  BY DEF FieldHyp, PrefixTakesDigits, PadsZeros
<1>6. Zeros(s) = Repeat(0, z)
  BY RepeatNone, NamedChars DEF Zeros
<1>7. \A t : Yielded(t) = IF "PRECISION" \notin flags /\ Len(t) > 0 /\ Len(t) \in {p, Width}
                            THEN IF Item.base = 16 /\ Len(t) > 1 THEN 2 ELSE 1
                            ELSE 0
  BY DEF Yielded
<1> HIDE DEF n, w, p
<1>8. z \in Nat /\ n + z <= PRINTF_NTOA_BUFFER_SIZE
  BY <1>1, <1>2, <1>3 DEF Greater
<1>9. "HASH" \notin flags => z = Fill
  BY <1>1, <1>3, <1>4 DEF Greater
<1>10. Fill \in Nat /\ SignLen + HashLen + Len(s) + Fill <= PRINTF_NTOA_BUFFER_SIZE
  BY <1>1, <1>2, <1>4 DEF Greater
<1>11. ASSUME "HASH" \in flags, NEW t \in Seq(Chars), Len(t) = n + z
       PROVE  Yielded(t) \in 0 .. z /\ z - Yielded(t) = Fill
  <2>1. Width = w /\ SignLen = 0 /\ HashLen = 2 /\ Item.base = 16 BY <1>1, <1>3, <1>11
  <2>2. CASE "PRECISION" \in flags
    BY <1>1, <1>4, <1>7, <1>8, <2>1, <2>2 DEF Greater
  <2>3. CASE "PRECISION" \notin flags
    <3>1. /\ n > 0 /\ p = 0 /\ n # w
          /\ Yielded(t) = IF n + z = w THEN IF n + z > 1 THEN 2 ELSE 1 ELSE 0
      BY <1>1, <1>5, <1>7, <1>8, <1>11, <2>1, <2>3
    <3>2. CASE "LEFT" \in flags \/ "ZEROPAD" \notin flags
      <4>1. z = 0 /\ Fill = 0 BY <1>1, <1>4, <3>1, <3>2 DEF Greater
      <4> QED BY <1>1, <3>1, <4>1
    <3>3. CASE "LEFT" \notin flags /\ "ZEROPAD" \in flags
      <4>1. z = Greater(0, w - n) /\ Fill = Greater(0, w - (2 + n)) /\ n # w - 1
        BY <1>1, <1>4, <1>5, <1>11, <2>1, <2>3, <3>1, <3>3 DEF Greater
      <4>2. CASE n > w BY <1>1, <3>1, <4>1, <4>2 DEF Greater
      <4>3. CASE n < w - 1 BY <1>1, <3>1, <4>1, <4>3 DEF Greater
      <4> QED BY <1>1, <3>1, <4>1, <4>2, <4>3
    <3> QED BY <3>2, <3>3
  <2> QED BY <2>2, <2>3
<1> HIDE DEF z, wanted
<1> QED BY <1>1, <1>6, <1>8, <1>9, <1>10, <1>11

(* The digits, the zeros, the prefix and the sign all fit.                 *)
LEMMA Shape ==
  ASSUME FieldHyp, NEW s \in Seq(Chars), Len(s) = Len(Digits)
  PROVE  /\ Formatted(s) = ((s \o Repeat(0, Fill)) \o HashB) \o Sign
         /\ Formatted(s) \in Seq(Chars)
         /\ Len(Formatted(s)) = Len(s) + Fill + HashLen + SignLen
<1>1. PICK z \in Nat :
        /\ Zeros(s) = Repeat(0, z)
        /\ Len(s) + z <= PRINTF_NTOA_BUFFER_SIZE
        /\ "HASH" \notin flags => z = Fill
        /\ "HASH" \in flags =>
             \A t \in Seq(Chars) : Len(t) = Len(s) + z =>
               Yielded(t) \in 0 .. z /\ z - Yielded(t) = Fill
  BY ZerosFacts
<1>2. /\ Fill \in Nat /\ Len(s) \in Nat /\ HashLen \in Nat /\ SignLen \in Nat
      /\ SignLen + HashLen + Len(s) + Fill <= PRINTF_NTOA_BUFFER_SIZE
  BY ZerosFacts, LenProperties DEF HashLen, SignLen
<1> DEFINE padded == s \o Repeat(0, z)  zeroed == s \o Repeat(0, Fill)
           prefixed == zeroed \o HashB  all == prefixed \o Sign
<1>3. padded \in Seq(Chars) /\ Len(padded) = Len(s) + z
  <2>1. Repeat(0, z) \in Seq(Chars) /\ Len(Repeat(0, z)) = z BY RepeatFacts, NamedChars
  <2> QED BY <2>1, ConcatProperties
<1>4. zeroed \in Seq(Chars) /\ Len(zeroed) = Len(s) + Fill
  <2>1. Repeat(0, Fill) \in Seq(Chars) /\ Len(Repeat(0, Fill)) = Fill
    BY <1>2, RepeatFacts, NamedChars
  <2> QED BY <2>1, ConcatProperties
<1>5. prefixed \in Seq(Chars) /\ Len(prefixed) = Len(s) + Fill + HashLen
  <2> HIDE DEF zeroed
  <2>1. HashB \in Seq(Chars) /\ Len(HashB) = HashLen BY BeforeFacts
  <2> QED BY <1>4, <2>1, ConcatProperties
<1>6. all \in Seq(Chars) /\ Len(all) = Len(s) + Fill + HashLen + SignLen
  <2> HIDE DEF prefixed
  <2>1. Sign \in Seq(Chars) /\ Len(Sign) = SignLen BY BeforeFacts
  <2> QED BY <1>5, <2>1, ConcatProperties
<1>7. Clipped(s \o Zeros(s)) = padded
  <2> HIDE DEF padded
  <2>1. Clipped(padded) = padded BY <1>1, <1>3, ClippedWhole
  <2> QED BY <1>1, <2>1 DEF padded
<1>8. WithPrefix(padded) = prefixed
  <2>1. CASE "HASH" \in flags
    <3>1. HashB = <<X, 0>> /\ Prefix = <<X, 0>>
      BY <2>1, FlagFacts DEF HashB, Prefix
    <3>2. Yielded(padded) \in 0 .. z /\ z - Yielded(padded) = Fill
      <4> HIDE DEF padded
      <4> QED BY <1>1, <1>3, <2>1
    <3>3. SubSeq(padded, 1, Len(s) + z - Yielded(padded)) = zeroed
      <4> DEFINE y == Yielded(padded)
      <4> HIDE DEF y
      <4>1. y \in 0 .. z /\ z - y = Fill BY <3>2 DEF y
      <4>2. SubSeq(padded, 1, Len(s) + z - y) = s \o Repeat(0, z - y) BY <4>1, ZerosTaken
      <4> QED BY <4>1, <4>2 DEF y
    <3> HIDE DEF padded, zeroed
    <3>4. WithPrefix(padded) = SubSeq(padded, 1, Len(padded) - Yielded(padded)) \o Prefix
      BY <2>1 DEF WithPrefix
    <3>5. Len(padded) - Yielded(padded) = Len(s) + z - Yielded(padded)
      <4> DEFINE y == Yielded(padded)
      <4>1. y \in Int BY <3>2
      <4> HIDE DEF y
      <4>2. Len(padded) - y = Len(s) + z - y BY <1>2, <1>3, <4>1
      <4> QED BY <4>2 DEF y
    <3>6. WithPrefix(padded) = zeroed \o Prefix BY <3>3, <3>4, <3>5
    <3> QED BY <3>1, <3>6
  <2>2. CASE "HASH" \notin flags
    <3>1. WithPrefix(padded) = zeroed BY <1>1, <2>2 DEF WithPrefix
    <3>2. HashB = <<>> BY <2>2 DEF HashB
    <3> HIDE DEF zeroed
    <3>3. zeroed \o <<>> = zeroed BY <1>4, ConcatEmptySeq
    <3> QED BY <3>1, <3>2, <3>3
  <2> QED BY <2>1, <2>2
<1>9. Clipped(prefixed) = prefixed
  <2> HIDE DEF prefixed
  <2> QED BY <1>2, <1>5, ClippedWhole
<1>10. Clipped(all) = all
  <2> HIDE DEF all
  <2> QED BY <1>2, <1>6, ClippedWhole
<1>11. Formatted(s) = all BY <1>7, <1>8, <1>9, <1>10 DEF Formatted
<1> QED BY <1>6, <1>11

(* Written backwards they are sign, prefix, zeros and digits.              *)
LEMMA Unreversed ==
  ASSUME FieldHyp, NEW s \in Seq(Chars), Reversed(s) = Digits
  PROVE  /\ Reversed(Formatted(s)) = (SignC \o HashC) \o (Repeat(0, Fill) \o Digits)
         /\ Len(Formatted(s)) = SignLen + HashLen + Len(Repeat(0, Fill) \o Digits)
         /\ Repeat(0, Fill) \o Digits \in Seq(Chars)
<1>1. Len(s) = Len(Digits) /\ Digits \in Seq(Chars) /\ Len(s) \in Nat
  BY ReversedFacts, LenProperties
<1> DEFINE zeros == Repeat(0, Fill)
<1>2. zeros \in Seq(Chars) /\ Reversed(zeros) = zeros /\ Len(zeros) = Fill /\ Fill \in Nat
  BY <1>1, ZerosFacts, RepeatFacts, ReversedRepeat, NamedChars
<1>3. /\ Formatted(s) = ((s \o zeros) \o HashB) \o Sign
      /\ Len(Formatted(s)) = Len(s) + Fill + HashLen + SignLen
  BY <1>1, Shape
<1>4. /\ SignC = Sign /\ Sign \in Seq(Chars) /\ Reversed(Sign) = Sign
      /\ HashC = Reversed(HashB) /\ HashB \in Seq(Chars) /\ HashC \in Seq(Chars)
      /\ SignLen \in Nat /\ HashLen \in Nat
  BY BeforeFacts, ReversedFacts DEF SignLen, HashLen
<1> HIDE DEF zeros
<1>5. s \o zeros \in Seq(Chars) /\ Reversed(s \o zeros) = zeros \o Digits
  BY <1>2, ReversedConcat, ConcatProperties
<1>6. /\ (s \o zeros) \o HashB \in Seq(Chars)
      /\ Reversed((s \o zeros) \o HashB) = HashC \o (zeros \o Digits)
  <2> DEFINE sz == s \o zeros
  <2>1. sz \in Seq(Chars) /\ Reversed(sz) = zeros \o Digits BY <1>5
  <2> HIDE DEF sz
  <2>2. sz \o HashB \in Seq(Chars) /\ Reversed(sz \o HashB) = Reversed(HashB) \o Reversed(sz)
    BY <1>4, <2>1, ReversedConcat, ConcatProperties
  <2> QED BY <1>4, <2>1, <2>2 DEF sz
<1>7. Reversed(Formatted(s)) = Sign \o (HashC \o (zeros \o Digits))
  <2> DEFINE szh == (s \o zeros) \o HashB
  <2>1. szh \in Seq(Chars) /\ Reversed(szh) = HashC \o (zeros \o Digits) BY <1>6
  <2> HIDE DEF szh
  <2>2. Reversed(szh \o Sign) = Reversed(Sign) \o Reversed(szh)
    BY <1>4, <2>1, ReversedConcat
  <2> QED BY <1>3, <1>4, <2>1, <2>2 DEF szh
<1>8. zeros \o Digits \in Seq(Chars) /\ Len(zeros \o Digits) = Fill + Len(Digits)
  BY <1>1, <1>2, ConcatProperties
<1>9. Sign \o (HashC \o (zeros \o Digits)) = (Sign \o HashC) \o (zeros \o Digits)
  <2> DEFINE zd == zeros \o Digits
  <2>1. zd \in Seq(Chars) BY <1>8
  <2> HIDE DEF zd
  <2>2. (Sign \o HashC) \o zd = Sign \o (HashC \o zd)
    <3>1. Sign \in Seq(Chars) /\ HashC \in Seq(Chars) BY <1>4
    <3>2. \A u \in Seq(Chars) : (Sign \o HashC) \o u = Sign \o (HashC \o u)
      BY <3>1, CharsAssociate
    <3> QED BY <2>1, <3>2
  <2> QED BY <2>2 DEF zd
<1>10. Len(Formatted(s)) = SignLen + HashLen + Len(zeros \o Digits)
  BY <1>1, <1>2, <1>3, <1>4, <1>8
<1> QED BY <1>4, <1>7, <1>8, <1>9, <1>10 DEF zeros

(* Behind the conversion the field is C's.                                 *)
LEMMA FieldIsC ==
  ASSUME FieldHyp, NEW s \in Seq(Chars), Reversed(s) = Digits, buf = Formatted(s)
  PROVE  Field = Reference
<1> DEFINE before == SignC \o HashC  n == Len(Digits)  p == Item.precision  w == Item.width
           zd == Repeat(0, Fill) \o Digits  body == before \o Precise
<1>1. /\ Reversed(buf) = before \o zd /\ Len(buf) = SignLen + HashLen + Len(zd)
      /\ zd \in Seq(Chars)
  BY Unreversed
<1>2. /\ before \in Seq(Chars) /\ Len(before) = SignLen + HashLen
      /\ SignLen \in Nat /\ HashLen \in Nat
  <2>1. /\ SignC \in Seq(Chars) /\ Len(SignC) = SignLen
        /\ HashC \in Seq(Chars) /\ Len(HashC) = HashLen
    BY BeforeFacts, ReversedFacts
  <2>2. SignLen \in Nat /\ HashLen \in Nat BY DEF SignLen, HashLen
  <2>3. before \in Seq(Chars) /\ Len(before) = Len(SignC) + Len(HashC)
    BY <2>1, ConcatProperties
  <2> QED BY <2>1, <2>2, <2>3
<1>3. /\ Precise \in Seq(Chars) /\ Len(Precise) = Greater(n, p)
      /\ Precise = Repeat(0, Greater(0, p - n)) \o Digits
      /\ p \in Nat /\ w \in Nat /\ n \in Nat /\ Digits \in Seq(Chars)
      /\ "PRECISION" \notin flags => p = 0
      /\ "LEFT" \in flags => p <= n
      /\ "LEFT" \in flags <=> "LEFT" \in Item.flags
      /\ "ZEROPAD" \in flags <=> "ZEROPAD" \in Item.flags /\ "PRECISION" \notin Item.flags
      /\ "PRECISION" \in flags <=> "PRECISION" \in Item.flags
  BY PreciseFacts, DigitsFacts, FlagFacts DEF FieldHyp
<1>4. body \in Seq(Chars) /\ Len(body) = SignLen + HashLen + Greater(n, p)
  <2>1. body \in Seq(Chars) /\ Len(body) = Len(before) + Len(Precise)
    <3>1. before \in Seq(Chars) BY <1>2
    <3>2. Precise \in Seq(Chars) BY PreciseFacts
    <3> HIDE DEF before
    <3> QED BY <3>1, <3>2, ConcatProperties
  <2> HIDE DEF before, n, p, body
  <2> QED BY <1>2, <1>3, <2>1
<1> DEFINE fill == Greater(0, w - Len(body))
<1>5. Reference = IF "LEFT" \in Item.flags THEN body \o Repeat(Space, fill)
                  ELSE IF "ZEROPAD" \in Item.flags /\ "PRECISION" \notin Item.flags
                         THEN (before \o Repeat(0, fill)) \o Precise
                         ELSE Repeat(Space, fill) \o body
  BY DEF Reference
<1>6. Field = IF "LEFT" \in flags
                THEN Reversed(buf) \o Repeat(Space, Greater(0, w - Len(buf)))
              ELSE IF "ZEROPAD" \in flags THEN Reversed(buf)
                ELSE Repeat(Space, Greater(0, w - Len(buf))) \o Reversed(buf)
  BY DEF Field
<1>7. CASE "LEFT" \in flags \/ "ZEROPAD" \notin flags
  <2>1. Fill = Greater(0, p - n) BY <1>3, <1>7 DEF Fill, Greater
  <2>2. zd = Precise BY <1>3, <2>1
  <2>3. Reversed(buf) = body BY <1>1, <2>2
  <2>4. Len(buf) = Len(body)
    <3> HIDE DEF body
    <3> QED BY <1>1, <1>3, <1>4, <2>2
  <2> HIDE DEF body, before, n, p, w, fill
  <2> QED BY <1>3, <1>5, <1>6, <1>7, <2>3, <2>4 DEF fill
<1>8. CASE "LEFT" \notin flags /\ "ZEROPAD" \in flags
  <2>1. p = 0 BY <1>3, <1>8
  <2>2. Precise = Digits
    <3>1. Greater(0, p - n) = 0 BY <1>3, <2>1 DEF Greater
    <3>2. Repeat(0, 0) = <<>> BY RepeatNone, NamedChars
    <3>3. <<>> \o Digits = Digits BY <1>3, ConcatEmptySeq
    <3> QED BY <1>3, <3>1, <3>2, <3>3
  <2>3. Fill = fill
    <3>1. Fill = Greater(0, w - (SignLen + HashLen + n)) BY <1>8 DEF Fill
    <3>2. Greater(n, p) = n BY <1>3, <2>1 DEF Greater
    <3> HIDE DEF body
    <3> QED BY <1>4, <3>1, <3>2
  <2>4. Repeat(0, Fill) \in Seq(Chars)
    <3>1. Fill \in Nat BY ZerosFacts, ReversedFacts
    <3> QED BY <3>1, RepeatFacts, NamedChars
  <2>5. (before \o Repeat(0, Fill)) \o Digits = before \o (Repeat(0, Fill) \o Digits)
    <3> DEFINE r == Repeat(0, Fill)
    <3> HIDE DEF before, r
    <3>1. r \in Seq(Chars) /\ before \in Seq(Chars) /\ Digits \in Seq(Chars)
      BY <1>2, <1>3, <2>4 DEF r
    <3>2. (before \o r) \o Digits = before \o (r \o Digits)
      <4>1. \A u \in Seq(Chars) : (before \o r) \o u = before \o (r \o u)
        BY <3>1, CharsAssociate
      <4> QED BY <3>1, <4>1
    <3> QED BY <3>2 DEF r
  <2>6. Reference = (before \o Repeat(0, Fill)) \o Digits
    <3> HIDE DEF before, fill, body
    <3> QED BY <1>3, <1>5, <1>8, <2>2, <2>3
  <2>7. Field = before \o zd BY <1>1, <1>6, <1>8
  <2> QED BY <2>5, <2>6, <2>7
<1> QED BY <1>7, <1>8

-----------------------------------------------------------------------------
(* The conversion computes the digits of the number: what FormatsAsC needs *)
(* to be inductive.                                                        *)

(* Digits of the number, lowest first.                                     *)
RawDigits(d) ==
  /\ d \in Seq(Chars)
  /\ \A j \in 1 .. Len(d) : d[j] = (Magnitude \div Power(Item.base, j - 1)) % Item.base

Undigited == Magnitude = 0 /\ "PRECISION" \in Item.flags

(* All of them, or as many as the buffer holds.                            *)
AllDigits(d) ==
  \/ Undigited /\ d = <<>>
  \/ /\ ~Undigited /\ RawDigits(d) /\ Len(d) > 0
     /\ Len(d) = 1 \/ Magnitude \div Power(Item.base, Len(d) - 1) # 0
     /\ Magnitude \div Power(Item.base, Len(d)) = 0 \/ Len(d) = PRINTF_NTOA_BUFFER_SIZE

ItemsInv == \A k \in 1 .. Len(format) : format[k] \in Number => Convertible(format[k])

DigitsInv ==
  /\ ItemsInv
  /\ pc \in {"digits", "format", "reverse"} => flags = Relevant
  /\ pc = "digits" =>
       /\ ~Undigited /\ RawDigits(buf)
       /\ value = Magnitude \div Power(Item.base, Len(buf))
       /\ Len(buf) > 0 => value # 0
  /\ pc = "format" => AllDigits(buf)
  /\ pc = "reverse" => \E d : AllDigits(d) /\ buf = Formatted(d)

(* Digits that fit are those C writes.                                     *)
LEMMA DigitsAre ==
  ASSUME FieldHyp, NEW d, AllDigits(d)
  PROVE  d \in Seq(Chars) /\ Reversed(d) = Digits
<1>1. CASE Undigited /\ d = <<>>
  <2>1. Digits = <<>> BY <1>1 DEF Undigited, Digits
  <2>2. Reversed(<<>>) = <<>> BY RepeatNone, ReversedRepeat, NamedChars
  <2> QED BY <1>1, <2>1, <2>2, NamedChars
<1>2. CASE ~Undigited /\ ~(Undigited /\ d = <<>>)
  <2> DEFINE m == Magnitude  b == Item.base  n == Len(d)
  <2>1. /\ d \in Seq(Chars) /\ n \in Nat \ {0}
        /\ \A j \in 1 .. n : d[j] = (m \div Power(b, j - 1)) % b
        /\ n = 1 \/ m \div Power(b, n - 1) # 0
        /\ m \div Power(b, n) = 0 \/ n = PRINTF_NTOA_BUFFER_SIZE
    BY <1>2, LenProperties DEF AllDigits, RawDigits
  <2>2. /\ m \in Nat /\ b \in 2 .. 16 /\ b \in Nat \ {0}
        /\ DigitCount \in Nat \ {0} /\ HasDigits(m, b, DigitCount)
    <3>1. Item \in Number BY DEF FieldHyp
    <3>2. b \in 2 .. 16 BY <3>1 DEF Number
    <3>3. b \in Nat \ {0} BY <3>2
    <3> QED BY <3>1, <3>2, <3>3, CountIs
  <2>3. DigitCount = Len(Digits) /\ DigitCount <= PRINTF_NTOA_BUFFER_SIZE
    <3>1. Len(Digits) = DigitCount BY <1>2, DigitsFacts DEF Undigited
    <3>2. SignLen \in Nat /\ HashLen \in Nat /\ Item.precision \in Nat
      BY PreciseFacts DEF SignLen, HashLen
    <3> QED BY <2>2, <3>1, <3>2, FitsFacts DEF Greater
  <2> HIDE DEF m, b, n
  <2>4. m \div Power(b, n) = 0
    <3> SUFFICES ASSUME m \div Power(b, n) # 0 PROVE FALSE OBVIOUS
    <3>1. n = PRINTF_NTOA_BUFFER_SIZE BY <2>1
    <3>2. Power(b, DigitCount) <= Power(b, n) /\ Power(b, DigitCount) \in Nat /\ Power(b, n) \in Nat
      BY <2>1, <2>2, <2>3, <3>1, PowerMonotone, PowerStep
    <3>3. ~(m < Power(b, n)) BY <2>1, <2>2, BelowPower
    <3>4. m < Power(b, DigitCount) BY <2>2 DEF HasDigits
    <3> QED BY <2>2, <3>2, <3>3, <3>4
  <2>5. HasDigits(m, b, n)
    <3>1. m < Power(b, n) BY <2>1, <2>2, <2>4, BelowPower
    <3>2. n = 1 \/ m >= Power(b, n - 1)
      <4> SUFFICES ASSUME n # 1 PROVE m >= Power(b, n - 1) OBVIOUS
      <4>1. n - 1 \in Nat BY <2>1
      <4>2. ~(m < Power(b, n - 1)) /\ Power(b, n - 1) \in Nat
        BY <2>1, <2>2, <4>1, BelowPower, PowerStep
      <4> QED BY <2>2, <4>2
    <3> QED BY <3>1, <3>2 DEF HasDigits
  <2>6. n = DigitCount BY <2>1, <2>2, <2>5, CountUnique
  <2>7. Digits = [j \in 1 .. n |-> (m \div Power(b, n - j)) % b]
    BY <1>2, <2>6 DEF Digits, Undigited, m, b
  <2>8. Reversed(d) = [j \in 1 .. n |-> d[n - j + 1]] BY DEF Reversed, n
  <2>9. ASSUME NEW j \in 1 .. n PROVE d[n - j + 1] = (m \div Power(b, n - j)) % b
    <3>1. n - j + 1 \in 1 .. n /\ n - j + 1 - 1 = n - j BY <2>1
    <3> QED BY <2>1, <3>1
  <2> QED BY <2>1, <2>7, <2>8, <2>9
<1> QED BY <1>1, <1>2 DEF AllDigits

(* The invariant implies what C asks for.                                  *)
LEMMA DigitsFormatted == ASSUME IInv, DigitsInv PROVE FormatsAsC
<1> SUFFICES ASSUME pc = "reverse", Item.kind = "integer", Fits,
                    "HASH" \in flags => Item.base = 16 /\ ~PrefixTakesDigits,
                    "LEFT" \in flags => Item.precision <= Len(Digits)
             PROVE  Field = Reference
  BY DEF FormatsAsC
<1>1. Item \in Number /\ format # <<>> /\ format \in Seq(Plain \cup Text \cup Number)
  BY DEF IInv, ConversionInv, TypeOK
<1>2. Convertible(Item)
  <2>1. Len(format) \in Nat /\ Len(format) > 0 /\ Item = format[1]
    BY <1>1, HeadTailProperties, EmptySeq, LenProperties DEF Item
  <2> QED BY <1>1, <2>1 DEF DigitsInv, ItemsInv
<1>3. FieldHyp BY <1>1, <1>2 DEF FieldHyp, DigitsInv
<1>4. PICK d : AllDigits(d) /\ buf = Formatted(d) BY DEF DigitsInv
<1> QED BY <1>3, <1>4, DigitsAre, FieldIsC

(* Inside a conversion nothing that the digits depend on changes.          *)
LEMMA SameNumber ==
  ASSUME UNCHANGED <<format, flags>>, NEW d
  PROVE  /\ Item' = Item /\ Magnitude' = Magnitude /\ Undigited' = Undigited
         /\ Relevant' = Relevant /\ ItemsInv' = ItemsInv
         /\ RawDigits(d)' = RawDigits(d)
         /\ AllDigits(d)' = AllDigits(d)
         /\ Formatted(d)' = Formatted(d)
<1>1. Item' = Item BY DEF Item
<1>2. Magnitude' = Magnitude BY <1>1 DEF Magnitude
<1>3. Undigited' = Undigited BY <1>1, <1>2 DEF Undigited
<1>4. Relevant' = Relevant BY <1>1 DEF Relevant, PointerFlags, Hashless
<1>5. ItemsInv' = ItemsInv BY DEF ItemsInv
<1>6. RawDigits(d)' = RawDigits(d) BY <1>1, <1>2 DEF RawDigits
<1>7. AllDigits(d)' = AllDigits(d) BY <1>1, <1>2, <1>3, <1>6 DEF AllDigits
<1>8. Formatted(d)' = Formatted(d)
  <2>1. IsNegative' = IsNegative BY <1>1 DEF IsNegative
  <2>2. Width' = Width BY <1>1, <2>1 DEF Width
  <2>3. Sign' = Sign BY <2>1 DEF Sign
  <2>4. Zeros(d)' = Zeros(d) BY <1>1, <2>2 DEF Zeros
  <2>5. Prefix' = Prefix BY <1>1 DEF Prefix
  <2> DEFINE s == Clipped(d \o Zeros(d))
  <2>6. s' = s BY <2>4 DEF Clipped
  <2> HIDE DEF s
  <2>7. Yielded(s)' = Yielded(s) BY <1>1, <2>2, <2>6 DEF Yielded
  <2>8. WithPrefix(s)' = WithPrefix(s) BY <2>5, <2>6, <2>7 DEF WithPrefix
  <2> QED BY <2>3, <2>8 DEF Formatted, s, Clipped
<1> QED BY <1>1, <1>2, <1>3, <1>4, <1>5, <1>6, <1>7, <1>8

LEMMA TailItems ==
  ASSUME TypeOK, ItemsInv, format # <<>>, NextItem
  PROVE  DigitsInv'
<1>1. /\ format' \in Seq(Plain \cup Text \cup Number) /\ Len(format') = Len(format) - 1
      /\ Len(format) \in Nat
      /\ \A k \in 1 .. Len(format') : format'[k] = format[k + 1]
  BY HeadTailProperties, LenProperties DEF TypeOK, NextItem
<1>2. ItemsInv'
  <2> SUFFICES ASSUME NEW k \in 1 .. Len(format') PROVE format'[k] \in Number => Convertible(format'[k])
    BY DEF ItemsInv, Convertible
  <2>1. k + 1 \in 1 .. Len(format) /\ format'[k] = format[k + 1] BY <1>1
  <2> QED BY <2>1 DEF ItemsInv
<1> QED BY <1>2 DEF DigitsInv, NextItem

LEMMA DigitsInit == Init => DigitsInv
BY FormatsAssumption DEF Init, DigitsInv, ItemsInv

LEMMA DigitsIntItem == ASSUME IInv, DigitsInv, IntItem PROVE DigitsInv'
<1>1. /\ Item \in Number /\ Item.value \in Int
      /\ flags' = Relevant /\ value' = Absolute(Item.value) /\ buf' = <<>>
      /\ pc' = (IF "PRECISION" \in Relevant /\ Item.value = 0 THEN "format" ELSE "digits")
      /\ format' = format
  BY HeadType DEF IntItem, IInv, Plain, Text, Number
<1>2. Item' = Item /\ Magnitude' = Magnitude /\ Undigited' = Undigited /\ Relevant' = Relevant
      /\ ItemsInv'
  <2>1. Item' = Item BY <1>1 DEF Item
  <2>2. ItemsInv' BY <1>1 DEF DigitsInv, ItemsInv
  <2> QED BY <2>1, <2>2 DEF Magnitude, Undigited, Relevant, PointerFlags, Hashless
<1>3. Undigited <=> "PRECISION" \in Relevant /\ Item.value = 0
  <2>1. "PRECISION" \in Relevant <=> "PRECISION" \in Item.flags
    BY <1>1 DEF Relevant, PointerFlags, Hashless
  <2>2. PICK v : v = Item.value OBVIOUS
  <2>3. v \in Int BY <1>1, <2>2 DEF Number
  <2>4. Magnitude = 0 <=> v = 0 BY <2>2, <2>3 DEF Magnitude
  <2> QED BY <2>1, <2>2, <2>4 DEF Undigited
<1>4. Len(<<>>) = 0 /\ <<>> \in Seq(Chars) BY NamedChars
<1>5. value' = Magnitude \div Power(Item.base, 0)
  <2>1. value' = Magnitude /\ Magnitude \in Nat BY <1>1 DEF Absolute, Magnitude
  <2>2. Power(Item.base, 0) = 1
    <3>1. Item.base \in Nat \ {0} /\ 0 \in Nat BY <1>1 DEF Number
    <3> QED BY <3>1, PowerStep
  <2>3. Magnitude \div 1 = Magnitude BY <2>1
  <2> QED BY <2>1, <2>2, <2>3
<1>6. RawDigits(buf)' BY <1>1, <1>4 DEF RawDigits
<1>7. CASE Undigited
  <2>1. pc' = "format" /\ AllDigits(buf)' BY <1>1, <1>2, <1>3, <1>7 DEF AllDigits
  <2> QED BY <1>1, <1>2, <2>1 DEF DigitsInv
<1>8. CASE ~Undigited
  <2>1. pc' = "digits" BY <1>1, <1>3, <1>8
  <2>2. (value = Magnitude \div Power(Item.base, Len(buf)))'
    BY <1>1, <1>2, <1>4, <1>5
  <2>3. ~(Len(buf') > 0) BY <1>1, <1>4
  <2> QED BY <1>1, <1>2, <1>6, <1>8, <2>1, <2>2, <2>3 DEF DigitsInv
<1> QED BY <1>7, <1>8

LEMMA DigitsDigit == ASSUME IInv, DigitsInv, Digit PROVE DigitsInv'
<1> DEFINE m == Magnitude  b == Item.base  n == Len(buf)
<1>1. /\ Item \in Number /\ buf \in Seq(Chars) /\ HasRoom(buf)
      /\ ~Undigited /\ RawDigits(buf) /\ flags = Relevant
      /\ value = m \div Power(b, n) /\ (n > 0 => value # 0) /\ ItemsInv
  BY DEF IInv, TypeOK, ConversionInv, NtoaInBounds, Digit, DigitsInv
<1>2. /\ buf' = Append(buf, value % b) /\ value' = value \div b
      /\ pc' = (IF value' # 0 /\ HasRoom(buf') THEN "digits" ELSE "format")
      /\ UNCHANGED <<format, flags>>
  BY DEF Digit
<1>3. /\ Item' = Item /\ Magnitude' = Magnitude /\ Undigited' = Undigited
      /\ Relevant' = Relevant /\ ItemsInv' = ItemsInv
  BY <1>2, SameNumber
<1>4. m \in Nat /\ b \in 2 .. 16 /\ b \in Nat \ {0} /\ n \in Nat
  <2>1. m \in Nat BY <1>1, CountIs
  <2>2. b \in 2 .. 16 BY <1>1 DEF Number
  <2>3. n \in Nat BY <1>1, LenProperties
  <2> QED BY <2>1, <2>2, <2>3
<1>5. Power(b, n) \in Nat \ {0} /\ Power(b, n + 1) = b * Power(b, n) BY <1>4, PowerStep
<1>6. value' = m \div Power(b, n + 1) /\ value \in Nat
  <2> DEFINE p == Power(b, n)
  <2>1. p \in Nat \ {0} BY <1>5
  <2> HIDE DEF p, m, b, n
  <2>2. (m \div p) \div b = m \div (b * p)
    <3>1. m \in Nat /\ p \in Nat \ {0} /\ b \in Nat \ {0} BY <1>4, <2>1
    <3> QED BY <3>1, DivDiv, Zenon
  <2>3. m \div p \in Nat BY <1>4, <2>1
  <2> QED BY <1>1, <1>2, <1>5, <2>2, <2>3 DEF p
<1>7. value % b \in Chars BY <1>4, <1>6, DigitType
<1>8. /\ buf' \in Seq(Chars) /\ Len(buf') = n + 1
      /\ \A j \in 1 .. n + 1 : buf'[j] = IF j <= n THEN buf[j] ELSE value % b
  BY <1>1, <1>2, <1>7, AppendProperties
<1> HIDE DEF m, b, n
<1>9. RawDigits(buf)'
  <2>1. ASSUME NEW j \in 1 .. n + 1 PROVE buf'[j] = (m \div Power(b, j - 1)) % b
    <3>1. CASE j <= n
      <4>1. j \in 1 .. n BY <1>4, <3>1
      <4> QED BY <1>1, <1>8, <3>1, <4>1 DEF RawDigits, m, b, n
    <3>2. CASE ~(j <= n)
      <4>1. j - 1 = n BY <1>4, <3>2
      <4> QED BY <1>1, <1>8, <3>2, <4>1
    <3> QED BY <3>1, <3>2
  <2> QED BY <1>3, <1>8, <2>1 DEF RawDigits, m, b
<1>10. CASE pc' = "digits"
  <2>1. value' # 0 BY <1>2, <1>10
  <2>2. (value = Magnitude \div Power(Item.base, Len(buf)))' BY <1>3, <1>6, <1>8 DEF m, b
  <2> QED BY <1>1, <1>2, <1>3, <1>9, <1>10, <2>1, <2>2 DEF DigitsInv
<1>11. CASE pc' = "format"
  <2>1. value' = 0 \/ Len(buf') = PRINTF_NTOA_BUFFER_SIZE
    BY <1>1, <1>2, <1>4, <1>8, <1>11 DEF HasRoom, n
  <2>2. n + 1 > 0 /\ n + 1 - 1 = n BY <1>4
  <2>3. n + 1 = 1 \/ m \div Power(b, n) # 0 BY <1>1, <1>4
  <2>4. AllDigits(buf)'
    <3>1. ~Undigited' BY <1>1, <1>3
    <3>2. Len(buf') > 0 /\ Len(buf') = n + 1 BY <1>8, <2>2
    <3>3. (Len(buf) = 1 \/ Magnitude \div Power(Item.base, Len(buf) - 1) # 0)'
      <4>1. Len(buf') - 1 = n BY <1>4, <3>2
      <4>2. Len(buf') = 1 \/ m \div Power(b, Len(buf') - 1) # 0 BY <2>3, <3>2, <4>1
      <4> QED BY <1>3, <4>2 DEF m, b
    <3>4. (Magnitude \div Power(Item.base, Len(buf)) = 0 \/ Len(buf) = PRINTF_NTOA_BUFFER_SIZE)'
      <4>1. m \div Power(b, Len(buf')) = 0 \/ Len(buf') = PRINTF_NTOA_BUFFER_SIZE
        BY <1>6, <2>1, <3>2
      <4> QED BY <1>3, <4>1 DEF m, b
    <3> QED BY <1>9, <3>1, <3>2, <3>3, <3>4 DEF AllDigits
  <2> QED BY <1>1, <1>2, <1>3, <1>11, <2>4 DEF DigitsInv
<1> QED BY <1>2, <1>10, <1>11

LEMMA DigitsFormat == ASSUME DigitsInv, Format PROVE DigitsInv'
<1>1. /\ flags = Relevant /\ AllDigits(buf) /\ ItemsInv /\ buf' = Formatted(buf)
      /\ pc' = "reverse" /\ UNCHANGED <<format, flags>>
  BY DEF Format, DigitsInv, Formatted
<1> DEFINE d == buf
<1>2. AllDigits(d) /\ buf' = Formatted(d) BY <1>1
<1>3. \A e : (AllDigits(e)' <=> AllDigits(e)) /\ (Formatted(e)' = Formatted(e))
      /\ Relevant' = Relevant /\ ItemsInv' = ItemsInv
  BY <1>1, SameNumber
<1>4. \E e : AllDigits(e)' /\ buf' = Formatted(e)' BY <1>2, <1>3
<1> QED BY <1>1, <1>3, <1>4 DEF DigitsInv

LEMMA DigitsStep == ASSUME IInv, DigitsInv, [Next]_vars PROVE DigitsInv'
<1>1. CASE PlainItem \/ TextItem \/ Reverse
  <2>1. format # <<>> /\ NextItem /\ TypeOK /\ ItemsInv
    BY <1>1 DEF PlainItem, TextItem, Reverse, IInv, ConversionInv, DigitsInv
  <2> QED BY <2>1, TailItems
<1>2. CASE IntItem BY <1>2, DigitsIntItem
<1>3. CASE Digit BY <1>3, DigitsDigit
<1>4. CASE Format BY <1>4, DigitsFormat
<1>5. CASE Terminate BY <1>5 DEF Terminate, DigitsInv, ItemsInv
<1>6. CASE Done \/ UNCHANGED vars
  <2>1. UNCHANGED <<format, flags, pc, value, buf>> BY <1>6 DEF Done, vars, ntoa
  <2>2. \A e : (AllDigits(e)' <=> AllDigits(e)) /\ (Formatted(e)' = Formatted(e))
        /\ (RawDigits(e)' <=> RawDigits(e)) /\ Item' = Item /\ Magnitude' = Magnitude
        /\ Undigited' = Undigited /\ Relevant' = Relevant /\ ItemsInv' = ItemsInv
    BY <2>1, SameNumber
  <2>3. ItemsInv' /\ (pc' \in {"digits", "format", "reverse"} => flags' = Relevant')
    BY <2>1, <2>2 DEF DigitsInv
  <2>4. pc' = "digits" =>
          /\ ~Undigited' /\ RawDigits(buf)'
          /\ value' = (Magnitude \div Power(Item.base, Len(buf)))'
          /\ Len(buf') > 0 => value' # 0
    BY <2>1, <2>2 DEF DigitsInv, RawDigits
  <2>5. pc' = "format" => AllDigits(buf)'
    BY <2>1, <2>2 DEF DigitsInv, AllDigits, RawDigits
  <2>6. pc' = "reverse" => \E d : AllDigits(d)' /\ buf' = Formatted(d)'
    BY <2>1, <2>2 DEF DigitsInv
  <2> QED BY <2>3, <2>4, <2>5, <2>6 DEF DigitsInv
<1> QED BY <1>1, <1>2, <1>3, <1>4, <1>5, <1>6 DEF Next

-----------------------------------------------------------------------------
(* The inductive invariant of a call of _vsnprintf.                        *)
THEOREM PrintkInvariant == Spec => []IInv
<1>1. IInv /\ [Next]_vars => IInv'
  BY NextInv
<1> QED
  BY <1>1, InitInv, PTL DEF Spec

(* Every state of a call is type correct, for every format.                *)
THEOREM PrintkTypeCorrect == Spec => []TypeOK
<1>1. IInv => TypeOK
  BY DEF IInv
<1> QED
  BY <1>1, PrintkInvariant, PTL

(* _ntoa_long, _ntoa_long_long and _ntoa_format never write behind their   *)
(* buffer, whatever value, base, width and precision.                      *)
THEOREM ConversionsStayInBounds == Spec => []NtoaInBounds
<1>1. IInv => NtoaInBounds
  BY DEF IInv
<1> QED
  BY <1>1, PrintkInvariant, PTL

(* snprintf stores exactly the prefix that fits, ends it with NUL, writes  *)
(* nothing else, and returns the length of the whole text.                 *)
THEOREM SnprintfStoresPrefix == Spec => []StoresPrefix
<1>1. IInv => StoresPrefix
  BY DEF IInv
<1> QED
  BY <1>1, PrintkInvariant, PTL

(* The field of an integer is what C asks for, for every value, base, width, *)
(* precision and set of flags that the conversion and its padding have room *)
(* for - but for the two deviations FormatsAsC names.                      *)
THEOREM IntegersAsC == Spec => []FormatsAsC
<1>1. Init => IInv /\ DigitsInv
  BY InitInv, DigitsInit
<1>2. IInv /\ DigitsInv /\ [Next]_vars => (IInv /\ DigitsInv)'
  BY NextInv, DigitsStep
<1>3. IInv /\ DigitsInv => FormatsAsC
  BY DigitsFormatted
<1> QED
  BY <1>1, <1>2, <1>3, PTL DEF Spec

-----------------------------------------------------------------------------
(* What is joined, and the numbers read from digits.                       *)

(* Joined, by steps.                                                       *)
Joins(S, ss, n, f) ==
  f \in [0 .. n -> Seq(S)] /\ f[0] = <<>> /\ \A k \in 1 .. n : f[k] = f[k - 1] \o ss[k]

(* The sequences joined step by step are one function, and Joined is its   *)
(* last value.                                                             *)
LEMMA JoinsExist ==
  ASSUME NEW S, NEW n \in Nat, NEW ss, \A k \in 1 .. n : ss[k] \in Seq(S)
  PROVE  \E f : Joins(S, ss, n, f) /\ Joined(ss, n) = f[n]
<1> DEFINE P == Seq(S)
           step == [k \in 1 .. n |-> [x \in P |-> x \o ss[k]]]
           Eq(f) == f = [j \in 0 .. n |-> IF j = 0 THEN <<>> ELSE f[j - 1] \o ss[j]]
<1>1. ASSUME NEW k \in 1 .. n, NEW x \in P PROVE x \o ss[k] \in P
  <2>1. ss[k] \in Seq(S) /\ x \in Seq(S) OBVIOUS
  <2> QED BY <2>1, ConcatProperties
<1>2. step \in [1 .. n -> [P -> P]] BY <1>1
<1>3. PICK up \in [0 .. n -> P] : up[0] = <<>> /\ \A k \in 1 .. n : up[k] = step[k][up[k - 1]]
  <2>1. <<>> \in P OBVIOUS
  <2> HIDE DEF step, P
  <2>2. \E up \in [0 .. n -> P] : Iterate(up, n, <<>>, step) BY <1>2, <2>1, Iterates
  <2> QED BY <2>2 DEF Iterate
<1>4. Joins(S, ss, n, up)
  <2>1. ASSUME NEW k \in 1 .. n PROVE up[k] = up[k - 1] \o ss[k]
    <3>1. k - 1 \in 0 .. n OBVIOUS
    <3>2. up[k - 1] \in P BY <3>1
    <3> QED BY <1>3, <3>2
  <2> QED BY <1>3, <2>1 DEF Joins
<1>5. Eq(up)
  <2>1. ASSUME NEW j \in 0 .. n PROVE up[j] = IF j = 0 THEN <<>> ELSE up[j - 1] \o ss[j]
    <3>1. CASE j = 0 BY <1>3, <3>1
    <3>2. CASE j # 0
      <4>1. j \in 1 .. n BY <3>2
      <4>2. up[j] = up[j - 1] \o ss[j] BY <1>4, <4>1, Zenon DEF Joins
      <4> QED BY <3>2, <4>2, Zenon
    <3> QED BY <3>1, <3>2
  <2> HIDE DEF P
  <2>2. up = [j \in 0 .. n |-> up[j]] OBVIOUS
  <2>3. [j \in 0 .. n |-> up[j]] = [j \in 0 .. n |-> IF j = 0 THEN <<>> ELSE up[j - 1] \o ss[j]]
    BY <2>1, Zenon
  <2> QED BY <2>2, <2>3, Zenon
<1> DEFINE f == CHOOSE g : Eq(g)
<1>6. Eq(f) BY <1>5
<1>7. Joined(ss, n) = f[n] BY DEF Joined
<1> HIDE DEF f
<1>8. Joins(S, ss, n, f)
  <2> DEFINE T == {m \in Nat : m <= n => f[m] = up[m]}
  <2>1. 0 \in T BY <1>3, <1>6
  <2>2. ASSUME NEW m \in Nat, m \in T PROVE m + 1 \in T
    <3> SUFFICES ASSUME m + 1 <= n PROVE f[m + 1] = up[m + 1] OBVIOUS
    <3> DEFINE k == m + 1
    <3>1. k \in 1 .. n /\ k \in 0 .. n /\ k # 0 /\ f[k - 1] = up[k - 1] BY <2>2
    <3> HIDE DEF k
    <3>2. up[k] = up[k - 1] \o ss[k] BY <1>4, <3>1, Zenon DEF Joins
    <3>3. f[k] = IF k = 0 THEN <<>> ELSE f[k - 1] \o ss[k]
      <4> DEFINE g == [j \in 0 .. n |-> IF j = 0 THEN <<>> ELSE f[j - 1] \o ss[j]]
      <4>1. f = g BY <1>6, Zenon
      <4>2. g[k] = IF k = 0 THEN <<>> ELSE f[k - 1] \o ss[k] BY <3>1, Zenon
      <4> QED BY <4>1, <4>2, Zenon
    <3>4. f[k] = f[k - 1] \o ss[k] BY <3>1, <3>3, Zenon
    <3>5. f[k] = up[k] BY <3>1, <3>2, <3>4, Zenon
    <3> QED BY <3>5 DEF k
  <2> HIDE DEF T
  <2>3. Nat \subseteq T BY <2>1, <2>2, SetInduction
  <2>4. \A m \in 0 .. n : f[m] = up[m] BY <2>3 DEF T
  <2>5. f = [j \in 0 .. n |-> f[j]]  BY <1>6
  <2>6. up = [j \in 0 .. n |-> up[j]] OBVIOUS
  <2>7. f = up BY <2>4, <2>5, <2>6
  <2> QED BY <2>7, <1>4
<1> QED BY <1>7, <1>8

(* Joined adds one sequence after the other.                               *)
JoinsEach(S, ss, n) ==
  /\ Joined(ss, 0) = <<>>
  /\ \A k \in 0 .. n : Joined(ss, k) \in Seq(S)
  /\ \A k \in 1 .. n : Joined(ss, k) = Joined(ss, k - 1) \o ss[k]

LEMMA JoinedStep ==
  ASSUME NEW S, NEW n \in Nat, NEW ss, \A k \in 1 .. n : ss[k] \in Seq(S)
  PROVE  JoinsEach(S, ss, n)
<1>1. PICK f : Joins(S, ss, n, f) BY JoinsExist
<1>2. ASSUME NEW k \in 0 .. n PROVE Joined(ss, k) = f[k]
  <2>1. k \in Nat /\ \A j \in 1 .. k : ss[j] \in Seq(S) OBVIOUS
  <2>2. PICK g : Joins(S, ss, k, g) /\ Joined(ss, k) = g[k] BY <2>1, JoinsExist
  <2> DEFINE T == {m \in Nat : m <= k => f[m] = g[m]}
  <2>3. 0 \in T BY <1>1, <2>2 DEF Joins
  <2>4. ASSUME NEW m \in Nat, m \in T PROVE m + 1 \in T
    <3> SUFFICES ASSUME m + 1 <= k PROVE f[m + 1] = g[m + 1] OBVIOUS
    <3> DEFINE l == m + 1
    <3>1. l \in 1 .. n /\ l \in 1 .. k /\ f[l - 1] = g[l - 1] BY <2>4
    <3> HIDE DEF l
    <3>2. f[l] = f[l - 1] \o ss[l] /\ g[l] = g[l - 1] \o ss[l]
      BY <1>1, <2>2, <3>1, Zenon DEF Joins
    <3>3. f[l] = g[l] BY <3>1, <3>2, Zenon
    <3> QED BY <3>3 DEF l
  <2> HIDE DEF T
  <2>5. k \in T BY <2>1, <2>3, <2>4, SetInduction
  <2> QED BY <2>2, <2>5 DEF T
<1>3. \A k \in 1 .. n : k - 1 \in 0 .. n /\ k \in 0 .. n OBVIOUS
<1>4. 0 \in 0 .. n OBVIOUS
<1>5. Joined(ss, 0) = <<>> BY <1>1, <1>2, <1>4 DEF Joins
<1>6. \A k \in 0 .. n : Joined(ss, k) \in Seq(S) BY <1>1, <1>2 DEF Joins
<1>7. ASSUME NEW k \in 1 .. n PROVE Joined(ss, k) = Joined(ss, k - 1) \o ss[k]
  <2>1. f[k] = f[k - 1] \o ss[k] BY <1>1 DEF Joins
  <2>2. Joined(ss, k) = f[k] /\ Joined(ss, k - 1) = f[k - 1] BY <1>2, <1>3
  <2> QED BY <2>1, <2>2, Zenon
<1> QED BY <1>5, <1>6, <1>7 DEF JoinsEach

(* Each sequence is found behind those before it.                          *)
Found(S, ss, n) ==
  /\ Len(Joined(ss, 0)) = 0 /\ Joined(ss, n) \in Seq(S)
  /\ \A k \in 0 .. n : Len(Joined(ss, k)) \in 0 .. Len(Joined(ss, n))
  /\ \A k \in 1 .. n :
       /\ Len(ss[k]) \in Nat
       /\ Len(Joined(ss, k)) = Len(Joined(ss, k - 1)) + Len(ss[k])
       /\ \A i \in 1 .. Len(ss[k]) : Joined(ss, n)[Len(Joined(ss, k - 1)) + i] = ss[k][i]

(* What is joined first stays in front.                                    *)
LEMMA JoinedAt ==
  ASSUME NEW S, NEW n \in Nat, NEW ss, \A k \in 1 .. n : ss[k] \in Seq(S)
  PROVE  Found(S, ss, n)
<1> DEFINE J(k) == Joined(ss, k)
<1>1. /\ J(0) = <<>> /\ \A k \in 0 .. n : J(k) \in Seq(S)
      /\ \A k \in 1 .. n : J(k) = J(k - 1) \o ss[k]
  <2>1. JoinsEach(S, ss, n) BY JoinedStep
  <2> QED BY <2>1 DEF JoinsEach
<1> HIDE DEF J
<1>2. \A k \in 0 .. n : Len(J(k)) \in Nat BY <1>1, LenProperties
<1>3. ASSUME NEW k \in 1 .. n
      PROVE  /\ Len(ss[k]) \in Nat /\ Len(J(k)) = Len(J(k - 1)) + Len(ss[k])
             /\ \A i \in 1 .. Len(J(k)) :
                  J(k)[i] = IF i <= Len(J(k - 1)) THEN J(k - 1)[i] ELSE ss[k][i - Len(J(k - 1))]
  <2>1. k - 1 \in 0 .. n OBVIOUS
  <2>2. J(k - 1) \in Seq(S) /\ ss[k] \in Seq(S) /\ J(k) = J(k - 1) \o ss[k] BY <1>1, <2>1
  <2> DEFINE s == J(k - 1)  u == ss[k]
  <2>3. s \in Seq(S) /\ u \in Seq(S) /\ J(k) = s \o u BY <2>2
  <2> HIDE DEF s, u
  <2>4. /\ Len(s) \in Nat /\ Len(u) \in Nat /\ Len(s \o u) = Len(s) + Len(u)
        /\ \A i \in 1 .. Len(s) + Len(u) : (s \o u)[i] = IF i <= Len(s) THEN s[i] ELSE u[i - Len(s)]
    BY <2>3, ConcatProperties, LenProperties
  <2>5. /\ Len(J(k)) = Len(s) + Len(u)
        /\ \A i \in 1 .. Len(J(k)) : J(k)[i] = IF i <= Len(s) THEN s[i] ELSE u[i - Len(s)]
    BY <2>3, <2>4, Zenon
  <2> QED BY <2>4, <2>5 DEF s, u
<1> DEFINE Whole(m) == \A k \in 1 .. m :
                         /\ Len(J(k)) <= Len(J(m))
                         /\ \A i \in 1 .. Len(ss[k]) : J(m)[Len(J(k - 1)) + i] = ss[k][i]
           T == {m \in Nat : m <= n => Whole(m)}
<1>4. 0 \in T OBVIOUS
<1>5. ASSUME NEW m \in Nat, m \in T PROVE m + 1 \in T
  <2> SUFFICES ASSUME m + 1 <= n PROVE Whole(m + 1) OBVIOUS
  <2>1. m + 1 \in 1 .. n /\ m + 1 - 1 = m /\ m \in 0 .. n /\ Whole(m) BY <1>5
  <2>2. /\ Len(ss[m + 1]) \in Nat /\ Len(J(m + 1)) = Len(J(m)) + Len(ss[m + 1])
        /\ \A i \in 1 .. Len(J(m + 1)) :
             J(m + 1)[i] = IF i <= Len(J(m)) THEN J(m)[i] ELSE ss[m + 1][i - Len(J(m))]
    <3> DEFINE k == m + 1
    <3>1. k \in 1 .. n /\ k - 1 = m BY <2>1
    <3> HIDE DEF k
    <3>2. /\ Len(ss[k]) \in Nat /\ Len(J(k)) = Len(J(k - 1)) + Len(ss[k])
          /\ \A i \in 1 .. Len(J(k)) :
               J(k)[i] = IF i <= Len(J(k - 1)) THEN J(k - 1)[i] ELSE ss[k][i - Len(J(k - 1))]
      BY <1>3, <3>1, Zenon
    <3> QED BY <3>1, <3>2, Zenon DEF k
  <2>3. Len(J(m)) \in Nat BY <1>2, <2>1
  <2> SUFFICES ASSUME NEW k \in 1 .. m + 1
               PROVE  /\ Len(J(k)) <= Len(J(m + 1))
                      /\ \A i \in 1 .. Len(ss[k]) : J(m + 1)[Len(J(k - 1)) + i] = ss[k][i]
    OBVIOUS
  <2>4. CASE k = m + 1
    <3>1. Len(J(k)) <= Len(J(m + 1)) BY <1>2, <2>1, <2>4
    <3>2. ASSUME NEW i \in 1 .. Len(ss[k]) PROVE J(m + 1)[Len(J(k - 1)) + i] = ss[k][i]
      <4> DEFINE l == Len(J(m))
      <4>1. l + i \in 1 .. Len(J(m + 1)) /\ ~(l + i <= l) /\ l + i - l = i BY <2>2, <2>3, <2>4
      <4>2. k - 1 = m BY <2>1, <2>4
      <4>3. J(m + 1)[l + i] = ss[m + 1][l + i - l]
        <5> HIDE DEF l, J
        <5> QED BY <2>2, <4>1 DEF l
      <4> QED BY <2>4, <4>1, <4>2, <4>3, Zenon
    <3> QED BY <3>1, <3>2
  <2>5. CASE k # m + 1
    <3>1. k \in 1 .. m /\ k \in 1 .. n /\ k - 1 \in 0 .. n /\ k \in 0 .. n BY <2>1, <2>5
    <3>2. /\ Len(J(k)) <= Len(J(m)) /\ Len(J(k)) = Len(J(k - 1)) + Len(ss[k])
          /\ Len(J(k)) \in Nat /\ Len(J(k - 1)) \in Nat /\ Len(ss[k]) \in Nat
      BY <1>2, <1>3, <2>1, <3>1
    <3>3. ASSUME NEW i \in 1 .. Len(ss[k]) PROVE J(m + 1)[Len(J(k - 1)) + i] = ss[k][i]
      <4> DEFINE q == Len(J(k - 1)) + i
      <4>1. q \in 1 .. Len(J(m + 1)) /\ q <= Len(J(m))
        <5> DEFINE a == Len(J(m + 1))  b == Len(J(m))  c == Len(J(k - 1))  d == Len(ss[k])
                   e == Len(ss[m + 1])
        <5>1. /\ e \in Nat /\ a = b + e /\ b \in Nat /\ c \in Nat /\ d \in Nat /\ c + d <= b
              /\ i \in 1 .. d
          BY <2>2, <2>3, <3>2
        <5> HIDE DEF a, b, c, d, e
        <5>2. c + i \in 1 .. a /\ c + i <= b BY <5>1
        <5> QED BY <5>2 DEF a, b, c
      <4>2. J(m)[q] = ss[k][i] BY <2>1, <3>1
      <4> HIDE DEF q
      <4>3. J(m + 1)[q] = J(m)[q] BY <2>2, <4>1
      <4> QED BY <4>2, <4>3 DEF q
    <3>4. Len(J(k)) <= Len(J(m + 1))
      <4> DEFINE a == Len(J(m + 1))  b == Len(J(m))  e == Len(ss[m + 1])  x == Len(J(k))
      <4>1. e \in Nat /\ a = b + e /\ b \in Nat /\ x <= b /\ x \in Nat BY <2>2, <2>3, <3>2
      <4> HIDE DEF a, b, e, x
      <4>2. x <= a BY <4>1
      <4> QED BY <4>2 DEF a, x
    <3> QED BY <3>3, <3>4, Zenon
  <2> QED BY <2>4, <2>5
<1> HIDE DEF T
<1>6. n \in T BY <1>4, <1>5, SetInduction
<1>7. Whole(n)
  <2> HIDE DEF Whole
  <2> QED BY <1>6 DEF T
<1>8. ASSUME NEW k \in 0 .. n PROVE Len(J(k)) \in 0 .. Len(J(n))
  <2>1. CASE k = 0 BY <1>1, <1>2, <2>1, EmptySeq
  <2>2. CASE k \in 1 .. n BY <1>2, <1>7, <2>2
  <2> QED BY <2>1, <2>2
<1>9. Len(J(0)) = 0 /\ J(n) \in Seq(S) BY <1>1, EmptySeq
<1> QED BY <1>3, <1>7, <1>8, <1>9 DEF J, Found

(* Numbers written in digits.                                              *)
LEMMA NumeralFacts ==
  /\ \A c : c \in Numerals <=> IsDigit(c)
  /\ \A c \in Numerals : DigitValue(c) \in 0 .. 9
<1>1. \A c : c \in Numerals <=> IsDigit(c) BY DEF Numerals, IsDigit
<1>2. ASSUME NEW c \in Numerals PROVE DigitValue(c) \in 0 .. 9
  <2>1. \E k \in 1 .. 10 : DigitChars[k] = c BY <1>1 DEF IsDigit
  <2> DEFINE k == CHOOSE k \in 1 .. 10 : DigitChars[k] = c
  <2>2. k \in 1 .. 10 BY <2>1
  <2>3. DigitValue(c) = k - 1 BY DEF DigitValue
  <2> HIDE DEF k
  <2> QED BY <2>2, <2>3
<1> QED BY <1>1, <1>2

(* Recursive definitions of numbers, by steps.                             *)
Sums(ds, n, f) ==
  f \in [0 .. n -> Nat] /\ f[0] = 0 /\ \A k \in 1 .. n : f[k] = f[k - 1] * 10 + DigitValue(ds[k])

Rests(ds, n, f) ==
  /\ f \in [0 .. n -> Nat] /\ f[0] = 0
  /\ \A k \in 1 .. n : f[k] = (f[k - 1] * 10 + DigitValue(ds[k])) % Uint

(* Decimal is the sum of its steps.                                        *)
LEMMA DecimalIs ==
  ASSUME NEW ds \in Seq(Numerals)
  PROVE  \E f : Sums(ds, Len(ds), f) /\ Decimal(ds) = f[Len(ds)]
<1> DEFINE n == Len(ds)
           step == [k \in 1 .. n |-> [x \in Nat |-> x * 10 + DigitValue(ds[k])]]
           Eq(f) == f = [k \in 0 .. n |-> IF k = 0 THEN 0 ELSE f[k - 1] * 10 + DigitValue(ds[k])]
<1>1. n \in Nat /\ \A k \in 1 .. n : DigitValue(ds[k]) \in 0 .. 9
  BY NumeralFacts, LenProperties, ElementOfSeq
<1>2. step \in [1 .. n -> [Nat -> Nat]]
  <2>1. \A k \in 1 .. n, x \in Nat : x * 10 + DigitValue(ds[k]) \in Nat BY <1>1
  <2> QED BY <2>1
<1>3. PICK up \in [0 .. n -> Nat] : Iterate(up, n, 0, step)
  <2> HIDE DEF step, n
  <2> QED BY <1>1, <1>2, Iterates
<1>4. Sums(ds, n, up)
  <2>1. ASSUME NEW k \in 1 .. n PROVE up[k] = up[k - 1] * 10 + DigitValue(ds[k])
    <3>1. k - 1 \in 0 .. n /\ up[k - 1] \in Nat
      <4> HIDE DEF n, step
      <4> QED BY <1>1
    <3> QED BY <1>3, <3>1 DEF Iterate
  <2> QED BY <1>3, <2>1 DEF Sums, Iterate
<1> HIDE DEF n
<1>5. Eq(up)
  <2>1. \A k \in 0 .. n : up[k] = IF k = 0 THEN 0 ELSE up[k - 1] * 10 + DigitValue(ds[k])
    BY <1>4 DEF Sums
  <2> QED BY <2>1
<1> DEFINE f == CHOOSE g : Eq(g)
<1>6. Eq(f) BY <1>5
<1>7. Decimal(ds) = f[n] BY DEF Decimal, n
<1> HIDE DEF f
<1>8. Sums(ds, n, f)
  <2> DEFINE T == {m \in Nat : m <= n => f[m] = up[m]}
  <2>1. 0 \in T BY <1>1, <1>4, <1>6 DEF Sums
  <2>2. ASSUME NEW m \in Nat, m \in T PROVE m + 1 \in T
    <3> SUFFICES ASSUME m + 1 <= n PROVE f[m + 1] = up[m + 1] OBVIOUS
    <3>1. f[m] = up[m] BY <1>1, <2>2
    <3>2. PICK k : k = m + 1 OBVIOUS
    <3>3. k \in 1 .. n /\ k \in 0 .. n /\ k # 0 /\ k - 1 = m BY <1>1, <3>2
    <3>4. f[k] = f[k - 1] * 10 + DigitValue(ds[k]) BY <1>6, <3>3
    <3>5. up[k] = up[k - 1] * 10 + DigitValue(ds[k]) BY <1>4, <3>3 DEF Sums
    <3> QED BY <3>1, <3>2, <3>3, <3>4, <3>5
  <2> HIDE DEF T
  <2>3. Nat \subseteq T BY <2>1, <2>2, SetInduction
  <2>4. \A m \in 0 .. n : f[m] = up[m] BY <2>3 DEF T
  <2>5. f = [j \in 0 .. n |-> f[j]]  BY <1>6
  <2>6. up = [j \in 0 .. n |-> up[j]] OBVIOUS
  <2> QED BY <2>4, <2>5, <2>6, <1>4
<1> QED BY <1>7, <1>8 DEF n

(* _atoi is the remainder of its steps.                                    *)
LEMMA AtoiIs ==
  ASSUME NEW ds \in Seq(Numerals), NEW p \in Nat,
         \A k \in 1 .. Len(ds) : string[p + k - 1] = ds[k]
  PROVE  \E f : Rests(ds, Len(ds), f) /\ Atoi(p, Len(ds)) = f[Len(ds)]
<1> DEFINE n == Len(ds)
           step == [k \in 1 .. n |-> [x \in Nat |-> (x * 10 + DigitValue(ds[k])) % Uint]]
           Eq(f) == f = [k \in 0 .. n |-> IF k = 0 THEN 0
                                ELSE (f[k - 1] * 10 + DigitValue(string[p + k - 1])) % Uint]
<1>1. n \in Nat /\ Uint \in Nat \ {0} /\ \A k \in 1 .. n : DigitValue(ds[k]) \in 0 .. 9
  BY NumeralFacts, LenProperties, ElementOfSeq, TypesAssumption
<1>2. step \in [1 .. n -> [Nat -> Nat]]
  <2>1. ASSUME NEW k \in 1 .. n, NEW x \in Nat PROVE (x * 10 + DigitValue(ds[k])) % Uint \in Nat
    <3> DEFINE y == x * 10 + DigitValue(ds[k])
    <3>1. y \in Int
      <4>1. PICK d : d = DigitValue(ds[k]) OBVIOUS
      <4>2. d \in 0 .. 9 BY <1>1, <4>1
      <4>3. x * 10 + d \in Int BY <4>2
      <4> QED BY <4>1, <4>3
    <3> HIDE DEF y
    <3>2. y % Uint \in 0 .. Uint - 1 BY <1>1, <3>1, DivDef
    <3> QED BY <3>2, <1>1 DEF y
  <2> QED BY <2>1
<1>3. PICK up \in [0 .. n -> Nat] : Iterate(up, n, 0, step)
  <2> HIDE DEF step, n
  <2> QED BY <1>1, <1>2, Iterates
<1>4. Rests(ds, n, up)
  <2>1. ASSUME NEW k \in 1 .. n PROVE up[k] = (up[k - 1] * 10 + DigitValue(ds[k])) % Uint
    <3>1. k - 1 \in 0 .. n /\ up[k - 1] \in Nat
      <4> HIDE DEF n, step
      <4> QED BY <1>1
    <3> QED BY <1>3, <3>1 DEF Iterate
  <2> QED BY <1>3, <2>1 DEF Rests, Iterate
<1> HIDE DEF n
<1>5. Eq(up)
  <2>1. \A k \in 1 .. n : string[p + k - 1] = ds[k] BY DEF n
  <2>2. ASSUME NEW k \in 0 .. n
        PROVE  up[k] = IF k = 0 THEN 0 ELSE (up[k - 1] * 10 + DigitValue(string[p + k - 1])) % Uint
    <3>1. CASE k = 0 BY <1>4, <3>1 DEF Rests
    <3>2. CASE k # 0
      <4>1. k \in 1 .. n BY <1>1, <3>2
      <4> QED BY <1>4, <2>1, <3>2, <4>1 DEF Rests
    <3> QED BY <3>1, <3>2
  <2> QED BY <2>2
<1> DEFINE f == CHOOSE g : Eq(g)
<1>6. Eq(f) BY <1>5
<1>7. Atoi(p, n) = f[n] BY DEF Atoi
<1> HIDE DEF f
<1>8. Rests(ds, n, f)
  <2> DEFINE T == {m \in Nat : m <= n => f[m] = up[m]}
  <2>1. 0 \in T BY <1>1, <1>4, <1>6 DEF Rests
  <2>2. ASSUME NEW m \in Nat, m \in T PROVE m + 1 \in T
    <3> SUFFICES ASSUME m + 1 <= n PROVE f[m + 1] = up[m + 1] OBVIOUS
    <3> DEFINE k == m + 1
    <3>1. k \in 1 .. n /\ k \in 0 .. n /\ k # 0 /\ f[k - 1] = up[k - 1] BY <1>1, <2>2
    <3> HIDE DEF k
    <3>2. string[p + k - 1] = ds[k] BY <3>1 DEF n
    <3>3. up[k] = (up[k - 1] * 10 + DigitValue(ds[k])) % Uint BY <1>4, <3>1 DEF Rests
    <3>4. f[k] = (f[k - 1] * 10 + DigitValue(string[p + k - 1])) % Uint BY <1>6, <3>1
    <3>5. f[k] = up[k] BY <3>1, <3>2, <3>3, <3>4
    <3> QED BY <3>5 DEF k
  <2> HIDE DEF T
  <2>3. Nat \subseteq T BY <2>1, <2>2, SetInduction
  <2>4. \A m \in 0 .. n : f[m] = up[m] BY <2>3 DEF T
  <2>5. f = [j \in 0 .. n |-> f[j]]  BY <1>6
  <2>6. up = [j \in 0 .. n |-> up[j]] OBVIOUS
  <2> QED BY <2>4, <2>5, <2>6, <1>4
<1> QED BY <1>7, <1>8 DEF n

(* A remainder can be taken before or after a digit is added.              *)
LEMMA RestStep ==
  ASSUME NEW u \in Nat \ {0}, NEW x \in Nat, NEW d \in Nat
  PROVE  ((x % u) * 10 + d) % u = (x * 10 + d) % u
<1> DEFINE q == x \div u  r == x % u
<1>1. x = u * q + r /\ q \in Int /\ r \in 0 .. u - 1 BY DivDef
<1> HIDE DEF q, r
<1> DEFINE y == r * 10 + d
<1>2. y \in Nat BY <1>1
<1> DEFINE a == y \div u  b == y % u
<1>3. y = u * a + b /\ a \in Int /\ b \in 0 .. u - 1
  <2> HIDE DEF y
  <2> QED BY <1>2, DivDef
<1> HIDE DEF a, b
<1>4. x * 10 + d = u * (10 * q + a) + b
  <2>1. u * (10 * q + a) = 10 * (u * q) + u * a BY <1>1, <1>3
  <2>2. u * q \in Int /\ u * a \in Int BY <1>1, <1>3
  <2> QED BY <1>1, <1>2, <1>3, <2>1, <2>2
<1>5. 10 * q + a \in Int BY <1>1, <1>3
<1>6. (x * 10 + d) % u = b
  <2> DEFINE t == 10 * q + a
  <2> HIDE DEF t
  <2>1. (u * t + b) % u = b BY <1>3, <1>5, Divides DEF t
  <2> QED BY <1>4, <2>1 DEF t
<1>7. y % u = b
  <2>1. (u * a + b) % u = b BY <1>3, Divides
  <2> QED BY <1>3, <2>1
<1> QED BY <1>6, <1>7 DEF r

(* _atoi yields the decimal value as an unsigned int.                      *)
LEMMA AtoiIsDecimal ==
  ASSUME NEW ds \in Seq(Numerals), NEW p \in Nat,
         \A k \in 1 .. Len(ds) : string[p + k - 1] = ds[k]
  PROVE  Atoi(p, Len(ds)) = Decimal(ds) % Uint
<1> DEFINE n == Len(ds)
<1>1. n \in Nat /\ Uint \in Nat \ {0} /\ \A k \in 1 .. n : DigitValue(ds[k]) \in Nat
  <2>1. \A k \in 1 .. n : DigitValue(ds[k]) \in 0 .. 9
    BY NumeralFacts, LenProperties, ElementOfSeq
  <2>2. \A x \in 0 .. 9 : x \in Nat OBVIOUS
  <2> QED BY <2>1, <2>2, LenProperties, TypesAssumption
<1>2. PICK f : Sums(ds, n, f) /\ Decimal(ds) = f[n] BY DecimalIs
<1>3. PICK g : Rests(ds, n, g) /\ Atoi(p, n) = g[n] BY AtoiIs
<1> HIDE DEF n
<1> DEFINE T == {m \in Nat : m <= n => g[m] = f[m] % Uint}
<1>4. 0 \in T
  <2>1. 0 % Uint = 0
    <3>1. (Uint * 0 + 0) % Uint = 0 BY <1>1, Divides
    <3> QED BY <1>1, <3>1
  <2> QED BY <1>2, <1>3, <2>1 DEF Sums, Rests
<1>5. ASSUME NEW m \in Nat, m \in T PROVE m + 1 \in T
  <2> SUFFICES ASSUME m + 1 <= n PROVE g[m + 1] = f[m + 1] % Uint OBVIOUS
  <2> DEFINE k == m + 1
  <2>1. k \in 1 .. n /\ k - 1 \in 0 .. n /\ g[k - 1] = f[k - 1] % Uint BY <1>1, <1>5
  <2> HIDE DEF k
  <2> DEFINE d == DigitValue(ds[k])  x == f[k - 1]
  <2>2. d \in Nat /\ x \in Nat BY <1>1, <1>2, <2>1 DEF Sums
  <2>3. f[k] = x * 10 + d /\ g[k] = (g[k - 1] * 10 + d) % Uint BY <1>2, <1>3, <2>1 DEF Sums, Rests
  <2>4. g[k - 1] = x % Uint BY <2>1
  <2> HIDE DEF d, x
  <2>5. ((x % Uint) * 10 + d) % Uint = (x * 10 + d) % Uint BY <1>1, <2>2, RestStep
  <2>6. g[k] = f[k] % Uint BY <2>3, <2>4, <2>5, Zenon
  <2> QED BY <2>6 DEF k
<1> HIDE DEF T
<1>6. n \in T BY <1>1, <1>4, <1>5, SetInduction
<1>7. g[n] = f[n] % Uint BY <1>1, <1>6 DEF T
<1> QED BY <1>2, <1>3, <1>7 DEF n

(* Where the characters of a concatenation are.                            *)
LEMMA ConcatAt ==
  ASSUME NEW S, NEW s \in Seq(S), NEW t \in Seq(S)
  PROVE  /\ s \o t \in Seq(S) /\ Len(s \o t) = Len(s) + Len(t) /\ Len(s) \in Nat /\ Len(t) \in Nat
         /\ \A i \in 1 .. Len(s) : (s \o t)[i] = s[i]
         /\ \A i \in 1 .. Len(t) : (s \o t)[Len(s) + i] = t[i]
<1> DEFINE m == Len(s)  n == Len(t)  st == s \o t
<1>1. /\ st \in Seq(S) /\ Len(st) = m + n /\ m \in Nat /\ n \in Nat
      /\ \A i \in 1 .. m + n : st[i] = IF i <= m THEN s[i] ELSE t[i - m]
  BY ConcatProperties, LenProperties
<1> HIDE DEF m, n, st
<1>2. \A i \in 1 .. m : st[i] = s[i] BY <1>1
<1>3. ASSUME NEW i \in 1 .. n PROVE st[m + i] = t[i]
  <2>1. m + i \in 1 .. m + n /\ ~(m + i <= m) /\ m + i - m = i BY <1>1
  <2> QED BY <1>1, <2>1
<1> QED BY <1>1, <1>2, <1>3 DEF m, n, st

(* The fields of a written conversion.                                     *)
FlagsEnd(c)     == 1 + Len(c.flags)
WidthEnd(c)     == FlagsEnd(c) + Len(c.width)
PrecisionEnd(c) == WidthEnd(c) + Len(c.precision)
LengthEnd(c)    == PrecisionEnd(c) + Len(c.length)

(* The fields of a conversion are sequences of characters.                 *)
LEMMA FieldTypes ==
  ASSUME NEW c, WellWritten(c), NEW S, FieldChars \cup {"%", "other", c.conv} \subseteq S
  PROVE  /\ c.flags \in Seq(FlagChars) /\ c.flags \in Seq(S)
         /\ c.width \in Seq(S) /\ c.precision \in Seq(S)
         /\ c.length \in Seq(S) /\ <<c.conv>> \in Seq(S) /\ <<"%">> \in Seq(S)
<1>1. FlagChars \subseteq S /\ Numerals \subseteq S /\ c.conv \in S /\ "%" \in S
      /\ {"*", ".", "l", "h", "t", "j", "z"} \subseteq S
  BY DEF FieldChars
<1>3. ASSUME NEW A, A \subseteq S PROVE Seq(A) \subseteq Seq(S)
  BY <1>3
<1>4. ASSUME NEW s, IsNumber(s) PROVE s \in Seq(S)
  <2>1. <<"*">> \in Seq(S) BY <1>1
  <2>2. Seq(Numerals) \subseteq Seq(S) BY <1>1, <1>3
  <2> QED BY <1>4, <2>1, <2>2 DEF IsNumber
<1>5. c.flags \in Seq(FlagChars) /\ c.flags \in Seq(S)
  <2>1. Seq(FlagChars) \subseteq Seq(S) BY <1>1, <1>3
  <2> QED BY <2>1 DEF WellWritten
<1>6. c.width \in Seq(S) BY <1>4 DEF WellWritten
<1>7. c.precision \in Seq(S)
  <2>1. AfterPoint(c) \in Seq(S) BY <1>4 DEF WellWritten
  <2>2. <<".">> \in Seq(S) /\ <<>> \in Seq(S) BY <1>1
  <2> DEFINE a == AfterPoint(c)
  <2>3. c.precision \in {<<>>, <<".">> \o a} BY DEF WellWritten
  <2> HIDE DEF a
  <2>4. <<".">> \o a \in Seq(S) BY <2>1, <2>2, ConcatProperties DEF a
  <2> QED BY <2>2, <2>3, <2>4
<1>8. c.length \in Seq(S)
  <2>1. c.length \in LengthTexts BY DEF WellWritten
  <2>2. /\ <<>> \in Seq(S) /\ <<"l">> \in Seq(S) /\ <<"l", "l">> \in Seq(S) /\ <<"h">> \in Seq(S)
        /\ <<"h", "h">> \in Seq(S) /\ <<"t">> \in Seq(S) /\ <<"j">> \in Seq(S) /\ <<"z">> \in Seq(S)
    BY <1>1
  <2> QED BY <2>1, <2>2 DEF LengthTexts
<1>9. <<c.conv>> \in Seq(S) /\ <<"%">> \in Seq(S) BY <1>1
<1> QED BY <1>5, <1>6, <1>7, <1>8, <1>9

(* Where the characters of a written conversion are.                       *)
LEMMA WrittenAt ==
  ASSUME NEW c, WellWritten(c), c.conv # "other",
         NEW S, FieldChars \cup {"%", "other", c.conv} \subseteq S
  PROVE  /\ Written(c) \in Seq(S) /\ Len(Written(c)) = LengthEnd(c) + 1
         /\ Len(c.flags) \in Nat /\ Len(c.width) \in Nat /\ Len(c.precision) \in Nat
         /\ Len(c.length) \in Nat
         /\ Written(c)[1] = "%"
         /\ \A i \in 1 .. Len(c.flags) : Written(c)[1 + i] = c.flags[i]
         /\ \A i \in 1 .. Len(c.width) : Written(c)[FlagsEnd(c) + i] = c.width[i]
         /\ \A i \in 1 .. Len(c.precision) : Written(c)[WidthEnd(c) + i] = c.precision[i]
         /\ \A i \in 1 .. Len(c.length) : Written(c)[PrecisionEnd(c) + i] = c.length[i]
         /\ Written(c)[LengthEnd(c) + 1] = c.conv
<1> DEFINE t2 == c.flags  t3 == c.width  t4 == c.precision  t5 == c.length  t6 == <<c.conv>>
           a == Len(t2)  b == Len(t3)  d == Len(t4)  e == Len(t5)
<1>1. /\ <<"%">> \in Seq(S) /\ t2 \in Seq(S) /\ t3 \in Seq(S) /\ t4 \in Seq(S)
      /\ t5 \in Seq(S) /\ t6 \in Seq(S)
  BY FieldTypes
<1> HIDE DEF t2, t3, t4, t5, t6
<1>2. PICK s1 : s1 = <<"%">> OBVIOUS
<1>3. s1 \in Seq(S) /\ Len(s1) = 1 /\ s1[1] = "%" /\ Len(t6) = 1 /\ t6[1] = c.conv
  BY <1>1, <1>2 DEF t6
<1>s4. PICK s2 : s2 = s1 \o t2 OBVIOUS
<1>4. /\ s2 \in Seq(S) /\ Len(s2) = Len(s1) + a /\ a \in Nat
      /\ \A i \in 1 .. Len(s1) : s2[i] = s1[i]
      /\ \A i \in 1 .. a : s2[Len(s1) + i] = t2[i]
  <2>1. s1 \in Seq(S) BY <1>3
  <2>2. t2 \in Seq(S) BY <1>1
  <2> QED BY <2>1, <2>2, <1>s4, ConcatAt
<1>s5. PICK s3 : s3 = s2 \o t3 OBVIOUS
<1>5. /\ s3 \in Seq(S) /\ Len(s3) = Len(s2) + b /\ b \in Nat
      /\ \A i \in 1 .. Len(s2) : s3[i] = s2[i]
      /\ \A i \in 1 .. b : s3[Len(s2) + i] = t3[i]
  <2>1. s2 \in Seq(S) BY <1>4
  <2>2. t3 \in Seq(S) BY <1>1
  <2> QED BY <2>1, <2>2, <1>s5, ConcatAt
<1>s6. PICK s4 : s4 = s3 \o t4 OBVIOUS
<1>6. /\ s4 \in Seq(S) /\ Len(s4) = Len(s3) + d /\ d \in Nat
      /\ \A i \in 1 .. Len(s3) : s4[i] = s3[i]
      /\ \A i \in 1 .. d : s4[Len(s3) + i] = t4[i]
  <2>1. s3 \in Seq(S) BY <1>5
  <2>2. t4 \in Seq(S) BY <1>1
  <2> QED BY <2>1, <2>2, <1>s6, ConcatAt
<1>s7. PICK s5 : s5 = s4 \o t5 OBVIOUS
<1>7. /\ s5 \in Seq(S) /\ Len(s5) = Len(s4) + e /\ e \in Nat
      /\ \A i \in 1 .. Len(s4) : s5[i] = s4[i]
      /\ \A i \in 1 .. e : s5[Len(s4) + i] = t5[i]
  <2>1. s4 \in Seq(S) BY <1>6
  <2>2. t5 \in Seq(S) BY <1>1
  <2> QED BY <2>1, <2>2, <1>s7, ConcatAt
<1>s8. PICK s6 : s6 = s5 \o t6 OBVIOUS
<1>8. /\ s6 \in Seq(S) /\ Len(s6) = Len(s5) + Len(t6) /\ Len(t6) \in Nat
      /\ \A i \in 1 .. Len(s5) : s6[i] = s5[i]
      /\ \A i \in 1 .. Len(t6) : s6[Len(s5) + i] = t6[i]
  <2>1. s5 \in Seq(S) BY <1>7
  <2>2. t6 \in Seq(S) BY <1>1
  <2> QED BY <2>1, <2>2, <1>s8, ConcatAt
<1>9. /\ Len(s1) = 1 /\ Len(s2) = 1 + a /\ Len(s3) = 1 + a + b /\ Len(s4) = 1 + a + b + d
      /\ Len(s5) = 1 + a + b + d + e /\ Len(s6) = 1 + a + b + d + e + 1
  BY <1>3, <1>4, <1>5, <1>6, <1>7, <1>8
<1>10. /\ FlagsEnd(c) = Len(s2) /\ WidthEnd(c) = Len(s3) /\ PrecisionEnd(c) = Len(s4)
       /\ LengthEnd(c) = Len(s5)
  BY <1>9 DEF FlagsEnd, WidthEnd, PrecisionEnd, LengthEnd, a, b, d, e, t2, t3, t4, t5
<1>11. ASSUME NEW i \in 1 .. Len(s4) PROVE s6[i] = s4[i]
  <2>1. i \in 1 .. Len(s5) BY <1>4, <1>5, <1>6, <1>7, <1>9
  <2> QED BY <1>7, <1>8, <2>1
<1>12. ASSUME NEW i \in 1 .. Len(s3) PROVE s6[i] = s3[i]
  <2>1. i \in 1 .. Len(s4) BY <1>4, <1>5, <1>6, <1>7, <1>9
  <2> QED BY <1>6, <1>11, <2>1
<1>13. ASSUME NEW i \in 1 .. Len(s2) PROVE s6[i] = s2[i]
  <2>1. i \in 1 .. Len(s3) BY <1>4, <1>5, <1>6, <1>7, <1>9
  <2> QED BY <1>5, <1>12, <2>1
<1>14. s6[1] = "%"
  <2>1. 1 \in 1 .. Len(s2) /\ 1 \in 1 .. Len(s1) BY <1>4, <1>9
  <2> QED BY <1>3, <1>4, <1>13, <2>1
<1>15. ASSUME NEW i \in 1 .. a PROVE s6[1 + i] = t2[i]
  <2>1. 1 + i \in 1 .. Len(s2) BY <1>4, <1>9
  <2> QED BY <1>4, <1>9, <1>13, <2>1
<1>16. ASSUME NEW i \in 1 .. b PROVE s6[Len(s2) + i] = t3[i]
  <2>1. Len(s2) + i \in 1 .. Len(s3) BY <1>4, <1>5, <1>9
  <2> QED BY <1>5, <1>12, <2>1
<1>17. ASSUME NEW i \in 1 .. d PROVE s6[Len(s3) + i] = t4[i]
  <2>1. Len(s3) + i \in 1 .. Len(s4) BY <1>4, <1>5, <1>6, <1>9
  <2> QED BY <1>6, <1>11, <2>1
<1>18. ASSUME NEW i \in 1 .. e PROVE s6[Len(s4) + i] = t5[i]
  <2>1. Len(s4) + i \in 1 .. Len(s5) BY <1>4, <1>5, <1>6, <1>7, <1>9
  <2> QED BY <1>7, <1>8, <2>1
<1>19. a \in Nat /\ b \in Nat /\ d \in Nat /\ e \in Nat BY <1>4, <1>5, <1>6, <1>7
<1> DEFINE W == Written(c)
<1>20. W = s6 BY <1>2, <1>s4, <1>s5, <1>s6, <1>s7, <1>s8 DEF Written, t2, t3, t4, t5, t6
<1> HIDE DEF W
<1>21. /\ W \in Seq(S) /\ Len(W) = LengthEnd(c) + 1 /\ W[1] = "%"
       /\ \A i \in 1 .. a : W[1 + i] = t2[i]
       /\ \A i \in 1 .. b : W[FlagsEnd(c) + i] = t3[i]
       /\ \A i \in 1 .. d : W[WidthEnd(c) + i] = t4[i]
       /\ \A i \in 1 .. e : W[PrecisionEnd(c) + i] = t5[i]
       /\ W[LengthEnd(c) + 1] = c.conv
  <2>1. 1 \in 1 .. Len(t6) BY <1>3
  <2>2. s6[Len(s5) + 1] = c.conv BY <1>3, <1>8, <2>1
  <2> QED BY <1>3, <1>8, <1>10, <1>14, <1>15, <1>16, <1>17, <1>18, <1>20, <2>2
<1> QED BY <1>19, <1>21 DEF W, a, b, d, e, t2, t3, t4, t5

(* A plain character is written as itself.                                 *)
LEMMA WrittenPlain ==
  ASSUME NEW c, c.conv = "other", NEW S, "other" \in S
  PROVE  Written(c) = <<"other">> /\ Written(c) \in Seq(S)
BY DEF Written

-----------------------------------------------------------------------------
(* The format and its arguments in a call.                                 *)

(* The format and the arguments, as given.                                 *)
Conversions == given.conversions
Last        == Len(Conversions)
Start(k)    == Len(Joined(Texts(given), k))
FirstArg(k) == Len(Joined(Arguments(given), k))
End         == Len(string)

InputInv ==
  /\ given \in Calls
  /\ LET whole == Joined(Texts(given), Len(given.conversions))
     IN  string = Append(SubSeq(whole, 1, Len(whole) - given.missing), "NUL")
  /\ args = Joined(Arguments(given), Len(given.conversions))

(* What CallsAssumption says of the call.                                  *)
LEMMA CallFacts ==
  ASSUME given \in Calls
  PROVE  /\ Last \in Nat /\ given.missing \in Nat
         /\ \A k \in 1 .. Last : WellWritten(Conversions[k])
         /\ given.missing > 0 => Last > 0 /\ given.missing < Len(Written(Conversions[Last]))
<1>1. /\ Last \in Nat /\ \A k \in 1 .. Last : WellWritten(Conversions[k])
      /\ given.missing \in 0 .. IF Last = 0 THEN 0 ELSE Len(Written(Conversions[Last])) - 1
  BY CallsAssumption DEF Last, Conversions
<1>2. CASE Last = 0 BY <1>1, <1>2
<1>3. CASE Last # 0
  <2>1. Last \in 1 .. Last BY <1>1, <1>3
  <2> DEFINE c == Conversions[Last]
  <2>2. Len(Written(c)) \in Nat
    <3> DEFINE S == FieldChars \cup {"%", "other", c.conv}
    <3>1. WellWritten(c) BY <1>1, <2>1
    <3> HIDE DEF c
    <3>2. S = FieldChars \cup {"%", "other", c.conv} OBVIOUS
    <3> HIDE DEF S
    <3>3. Written(c) \in Seq(S)
      <4>1. CASE c.conv = "other" BY <3>2, <4>1, WrittenPlain
      <4>2. CASE c.conv # "other" BY <3>1, <3>2, <4>2, WrittenAt
      <4> QED BY <4>1, <4>2
    <3> QED BY <3>3, LenProperties
  <2> HIDE DEF c
  <2>3. given.missing \in 0 .. Len(Written(c)) - 1 BY <1>1, <1>3 DEF c
  <2>4. given.missing \in Nat /\ given.missing < Len(Written(c)) BY <2>2, <2>3
  <2> QED BY <1>1, <1>3, <2>4 DEF c
<1> QED BY <1>2, <1>3

(* The texts of the conversions follow each other.                         *)
LEMMA TextLayout ==
  ASSUME given \in Calls
  PROVE  \E S :
         /\ "NUL" \in S
         /\ Start(0) = 0 /\ Joined(Texts(given), Last) \in Seq(S)
         /\ \A k \in 0 .. Last : Start(k) \in 0 .. Start(Last)
         /\ \A k \in 1 .. Last :
              /\ Len(Written(Conversions[k])) \in Nat
              /\ Start(k) = Start(k - 1) + Len(Written(Conversions[k]))
              /\ \A i \in 1 .. Len(Written(Conversions[k])) :
                   Joined(Texts(given), Last)[Start(k - 1) + i] = Written(Conversions[k])[i]
<1> DEFINE S == FieldChars \cup {"%", "other"} \cup {Conversions[k].conv : k \in 1 .. Last}
           ss == Texts(given)
<1>1. Last \in Nat /\ \A k \in 1 .. Last : WellWritten(Conversions[k]) BY CallFacts
<1>2. \A k \in 1 .. Last : ss[k] = Written(Conversions[k])
  BY DEF Texts, Last, Conversions
<1>3. ASSUME NEW k \in 1 .. Last PROVE ss[k] \in Seq(S)
  <2> DEFINE c == Conversions[k]
  <2>1. FieldChars \cup {"%", "other", c.conv} \subseteq S OBVIOUS
  <2>2. WellWritten(c) BY <1>1
  <2> HIDE DEF S, c
  <2>3. Written(c) \in Seq(S)
    <3>1. CASE c.conv = "other" BY <2>1, <3>1, WrittenPlain
    <3>2. CASE c.conv # "other" BY <2>1, <2>2, <3>2, WrittenAt
    <3> QED BY <3>1, <3>2
  <2> QED BY <1>2, <2>3 DEF c
<1>4. "NUL" \in S BY DEF FieldChars
<1> HIDE DEF S, ss
<1>5. /\ Len(Joined(ss, 0)) = 0 /\ Joined(ss, Last) \in Seq(S)
      /\ \A k \in 0 .. Last : Len(Joined(ss, k)) \in 0 .. Len(Joined(ss, Last))
      /\ \A k \in 1 .. Last :
              /\ Len(ss[k]) \in Nat
              /\ Len(Joined(ss, k)) = Len(Joined(ss, k - 1)) + Len(ss[k])
              /\ \A i \in 1 .. Len(ss[k]) :
                   Joined(ss, Last)[Len(Joined(ss, k - 1)) + i] = ss[k][i]
  <2>1. Found(S, ss, Last) BY <1>1, <1>3, JoinedAt
  <2> QED BY <2>1 DEF Found
<1>6. \A k : Len(Joined(ss, k)) = Start(k) BY DEF Start, ss
<1>7. /\ Start(0) = 0
      /\ \A k \in 0 .. Last : Start(k) \in 0 .. Start(Last)
      /\ \A k \in 1 .. Last :
              /\ Len(Written(Conversions[k])) \in Nat
              /\ Start(k) = Start(k - 1) + Len(Written(Conversions[k]))
              /\ \A i \in 1 .. Len(Written(Conversions[k])) :
                   Joined(ss, Last)[Start(k - 1) + i] = Written(Conversions[k])[i]
  BY <1>2, <1>5, <1>6
<1> QED BY <1>4, <1>5, <1>7 DEF ss

(* Where the characters of the format are; the cut ones are missing.       *)
LEMMA Layout ==
  ASSUME InputInv
  PROVE  /\ Last \in Nat /\ given.missing \in Nat
         /\ Start(0) = 0 /\ \A k \in 0 .. Last : Start(k) \in 0 .. Start(Last)
         /\ \A k \in 1 .. Last :
              /\ WellWritten(Conversions[k])
              /\ Len(Written(Conversions[k])) \in Nat
              /\ Start(k) = Start(k - 1) + Len(Written(Conversions[k]))
              /\ \A i \in 1 .. Len(Written(Conversions[k])) :
                   Start(k - 1) + i < End => Char(Start(k - 1) + i) = Written(Conversions[k])[i]
         /\ End = Start(Last) - given.missing + 1 /\ End \in Nat \ {0}
         /\ DOMAIN string = 1 .. End /\ string[End] = "NUL" /\ Char(End) = "NUL"
         /\ given.missing > 0 => Last > 0 /\ given.missing < Len(Written(Conversions[Last]))
         /\ \A p \in Nat : p > End => Char(p) = "unknown"
<1>1. /\ given \in Calls
      /\ Last \in Nat /\ given.missing \in Nat
      /\ \A k \in 1 .. Last : WellWritten(Conversions[k])
      /\ given.missing > 0 => Last > 0 /\ given.missing < Len(Written(Conversions[Last]))
  BY CallFacts DEF InputInv
<1> DEFINE whole == Joined(Texts(given), Last)  m == given.missing  l == Start(Last)
           T(k) == Written(Conversions[k])
<1>2. PICK S : /\ "NUL" \in S
         /\ Start(0) = 0 /\ whole \in Seq(S)
         /\ \A j \in 0 .. Last : Start(j) \in 0 .. l
         /\ \A k \in 1 .. Last :
              /\ Len(T(k)) \in Nat
              /\ Start(k) = Start(k - 1) + Len(T(k))
              /\ \A i \in 1 .. Len(T(k)) : whole[Start(k - 1) + i] = T(k)[i]
  BY <1>1, TextLayout
<1>3. string = Append(SubSeq(whole, 1, Len(whole) - m), "NUL")
  BY DEF InputInv, Last, Conversions
<1>4. Len(whole) = l BY DEF Start
<1> HIDE DEF whole, T
<1>5. l \in Nat /\ m \in Nat /\ m <= l
  <2>1. l \in Nat BY <1>4, <1>2, LenProperties
  <2>2. CASE m > 0
    <3>1. Last \in 1 .. Last /\ Last - 1 \in 0 .. Last BY <1>1, <2>2
    <3>2. /\ l = Start(Last - 1) + Len(T(Last)) /\ Start(Last - 1) \in Nat /\ Len(T(Last)) \in Nat
          /\ m < Len(T(Last))
      BY <1>1, <1>2, <2>2, <3>1 DEF T
    <3>3. PICK a, w : a = Start(Last - 1) /\ w = Len(T(Last)) OBVIOUS
    <3>4. l = a + w /\ a \in Nat /\ w \in Nat /\ m < w BY <3>2, <3>3
    <3>5. m \in Nat BY <1>1
    <3> QED BY <2>1, <3>4, <3>5
  <2> QED BY <1>1, <2>1, <2>2
<1> HIDE DEF l, m
<1> DEFINE h == l - m  cut == SubSeq(whole, 1, h)
<1>6. h \in Nat /\ h <= l BY <1>5
<1>7. \A i \in 1 .. h : whole[i] \in S
  <2>1. \A i \in 1 .. h : i \in 1 .. Len(whole) BY <1>4, <1>5, <1>6
  <2> QED BY <1>2, <2>1, ElementOfSeq
<1> HIDE DEF h
<1>8. cut \in Seq(S) /\ Len(cut) = h /\ \A i \in 1 .. h : cut[i] = whole[i]
  BY <1>6, <1>7, SubSeqProperties
<1>9. string = Append(cut, "NUL") BY <1>3, <1>4 DEF h
<1> HIDE DEF cut
<1>10. /\ string \in Seq(S) /\ End = h + 1
       /\ \A i \in 1 .. h + 1 : string[i] = IF i <= h THEN cut[i] ELSE "NUL"
  BY <1>2, <1>6, <1>8, <1>9, AppendProperties DEF End
<1>11. DOMAIN string = 1 .. End /\ End \in Nat \ {0} BY <1>6, <1>10, LenProperties DEF End
<1>12. string[End] = "NUL" /\ Char(End) = "NUL"
  BY <1>6, <1>10, <1>11 DEF Char
<1>13. End = l - m + 1 BY <1>10 DEF h
<1>14. ASSUME NEW k \in 1 .. Last, NEW i \in 1 .. Len(T(k)), Start(k - 1) + i < End
       PROVE  Char(Start(k - 1) + i) = T(k)[i]
  <2> DEFINE p == Start(k - 1) + i
  <2>1. p \in 1 .. h
    <3>1. k - 1 \in 0 .. Last BY <1>1
    <3>2. Start(k - 1) \in 0 .. l BY <1>2, <3>1
    <3>3. Len(T(k)) \in Nat BY <1>2
    <3> QED BY <1>5, <1>6, <1>10, <1>14, <3>2, <3>3
  <2>2. whole[p] = T(k)[i] BY <1>2
  <2> HIDE DEF p
  <2>3. p \in DOMAIN string /\ string[p] = whole[p] BY <1>6, <1>8, <1>10, <1>11, <2>1
  <2> QED BY <2>2, <2>3 DEF Char, p
<1>15. \A p \in Nat : p > End => Char(p) = "unknown" BY <1>11 DEF Char
<1>16. ASSUME NEW k \in 1 .. Last
       PROVE  /\ WellWritten(Conversions[k])
              /\ Len(Written(Conversions[k])) \in Nat
              /\ Start(k) = Start(k - 1) + Len(Written(Conversions[k]))
              /\ \A i \in 1 .. Len(Written(Conversions[k])) :
                   Start(k - 1) + i < End => Char(Start(k - 1) + i) = Written(Conversions[k])[i]
  BY <1>1, <1>2, <1>14 DEF T
<1>17. \A k \in 0 .. Last : Start(k) \in 0 .. Start(Last) BY <1>2 DEF l
<1> QED BY <1>1, <1>2, <1>11, <1>12, <1>13, <1>15, <1>16, <1>17, Zenon DEF l, m

(* The arguments of the conversions follow each other.                     *)
LEMMA ArgLayout ==
  ASSUME InputInv
  PROVE  /\ FirstArg(0) = 0 /\ \A k \in 0 .. Last : FirstArg(k) \in Nat
         /\ \A k \in 1 .. Last :
              LET c == Conversions[k]  n == Len(c.stars)
              IN  /\ n \in Nat
                  /\ FirstArg(k) = FirstArg(k - 1) + n + (IF c.conv \in Takes THEN 1 ELSE 0)
                  /\ \A i \in 1 .. n : args[FirstArg(k - 1) + i] = c.stars[i]
                  /\ c.conv \in Takes => args[FirstArg(k - 1) + n + 1] = c.value
<1>1. Last \in Nat /\ \A k \in 1 .. Last : WellWritten(Conversions[k])
  BY CallFacts DEF InputInv
<1> DEFINE ss == Arguments(given)
           S == Int \cup {Conversions[k].value : k \in 1 .. Last}
           own(c) == IF c.conv \in Takes THEN <<c.value>> ELSE <<>>
<1>2. \A k \in 1 .. Last : ss[k] = ArgsOf(Conversions[k])
  BY DEF Arguments, Last, Conversions
<1>3. ASSUME NEW k \in 1 .. Last
      PROVE  LET c == Conversions[k]  n == Len(c.stars)
             IN  /\ ss[k] \in Seq(S) /\ n \in Nat
                 /\ Len(ss[k]) = n + (IF c.conv \in Takes THEN 1 ELSE 0)
                 /\ \A i \in 1 .. n : ss[k][i] = c.stars[i]
                 /\ c.conv \in Takes => ss[k][n + 1] = c.value
  <2> DEFINE c == Conversions[k]  n == Len(c.stars)
  <2>1. PICK s : s = c.stars OBVIOUS
  <2>2. PICK t : t = own(c) OBVIOUS
  <2>3. c.stars \in Seq(S)
    <3>1. c.stars \in Seq(1 - Uint .. Uint - 1) BY <1>1 DEF WellWritten
    <3>2. ASSUME NEW x \in 1 - Uint .. Uint - 1 PROVE x \in S
      <4>1. Uint \in Int BY TypesAssumption
      <4> QED BY <4>1
    <3> DEFINE A == 1 - Uint .. Uint - 1
    <3>3. A \subseteq S BY <3>2
    <3> HIDE DEF A, S
    <3>4. Seq(A) \subseteq Seq(S) BY <3>3
    <3> QED BY <3>1, <3>4 DEF A
  <2>4. /\ t \in Seq(S) /\ Len(t) = IF c.conv \in Takes THEN 1 ELSE 0
        /\ c.conv \in Takes => t[1] = c.value
    <3>1. c.value \in S OBVIOUS
    <3> HIDE DEF S
    <3> QED BY <2>2, <3>1
  <2> HIDE DEF S
  <2>5. PICK u : u = s \o t OBVIOUS
  <2>6. /\ u \in Seq(S) /\ Len(u) = Len(s) + Len(t) /\ Len(s) \in Nat
        /\ \A i \in 1 .. Len(s) : u[i] = s[i]
        /\ \A i \in 1 .. Len(t) : u[Len(s) + i] = t[i]
    <3>1. s \in Seq(S) BY <2>1, <2>3
    <3>2. t \in Seq(S) BY <2>4
    <3> QED BY <3>1, <3>2, <2>5, ConcatAt
  <2>7. ss[k] = u BY <1>2, <2>1, <2>2, <2>5 DEF ArgsOf
  <2>8. c.conv \in Takes => u[n + 1] = c.value
    <3>1. c.conv \in Takes => 1 \in 1 .. Len(t) BY <2>4
    <3> QED BY <2>1, <2>4, <2>6, <3>1
  <2> HIDE DEF c, ss
  <2>9. /\ ss[k] \in Seq(S) /\ n \in Nat /\ Len(ss[k]) = n + (IF c.conv \in Takes THEN 1 ELSE 0)
        /\ \A i \in 1 .. n : ss[k][i] = c.stars[i]
        /\ c.conv \in Takes => ss[k][n + 1] = c.value
    BY <2>1, <2>4, <2>6, <2>7, <2>8
  <2> QED BY <2>9 DEF c
<1> HIDE DEF S, ss
<1>5. /\ Len(Joined(ss, 0)) = 0 /\ Joined(ss, Last) \in Seq(S)
      /\ \A k \in 0 .. Last : Len(Joined(ss, k)) \in 0 .. Len(Joined(ss, Last))
      /\ \A k \in 1 .. Last :
              /\ Len(ss[k]) \in Nat
              /\ Len(Joined(ss, k)) = Len(Joined(ss, k - 1)) + Len(ss[k])
              /\ \A i \in 1 .. Len(ss[k]) :
                   Joined(ss, Last)[Len(Joined(ss, k - 1)) + i] = ss[k][i]
  <2>1. \A k \in 1 .. Last : ss[k] \in Seq(S) BY <1>3
  <2>2. Found(S, ss, Last) BY <1>1, <2>1, JoinedAt
  <2> QED BY <2>2 DEF Found
<1>6. \A k : Len(Joined(ss, k)) = FirstArg(k) BY DEF FirstArg, ss
<1>7. args = Joined(ss, Last) BY DEF InputInv, ss, Last, Conversions
<1>8. FirstArg(0) = 0 /\ \A k \in 0 .. Last : FirstArg(k) \in Nat
  <2>1. FirstArg(0) = 0 BY <1>5, <1>6
  <2>2. ASSUME NEW k \in 0 .. Last PROVE FirstArg(k) \in Nat
    <3>1. FirstArg(k) \in 0 .. FirstArg(Last) BY <1>5, <1>6
    <3> QED BY <3>1
  <2> QED BY <2>1, <2>2
<1>9. ASSUME NEW k \in 1 .. Last
      PROVE  LET c == Conversions[k]  n == Len(c.stars)
             IN  /\ n \in Nat
                 /\ FirstArg(k) = FirstArg(k - 1) + n + (IF c.conv \in Takes THEN 1 ELSE 0)
                 /\ \A i \in 1 .. n : args[FirstArg(k - 1) + i] = c.stars[i]
                 /\ c.conv \in Takes => args[FirstArg(k - 1) + n + 1] = c.value
  <2> DEFINE c == Conversions[k]  n == Len(c.stars)  g == FirstArg(k - 1)  u == ss[k]
             o == IF c.conv \in Takes THEN 1 ELSE 0
  <2>1. /\ n \in Nat /\ Len(u) = n + o
        /\ \A i \in 1 .. n : u[i] = c.stars[i]
        /\ c.conv \in Takes => u[n + 1] = c.value
    BY <1>3
  <2>2. FirstArg(k) = g + Len(u) /\ \A i \in 1 .. Len(u) : args[g + i] = u[i]
    BY <1>5, <1>6, <1>7
  <2>3. g \in Nat
    <3>1. k - 1 \in 0 .. Last BY <1>1
    <3> QED BY <1>8, <3>1
  <2>4. o \in Nat /\ (c.conv \in Takes => o = 1) OBVIOUS
  <2> HIDE DEF g, u, o, c
  <2>5. FirstArg(k) = g + n + o BY <2>1, <2>2, <2>3, <2>4
  <2>6. ASSUME NEW i \in 1 .. n PROVE args[g + i] = c.stars[i]
    <3>1. i \in 1 .. Len(u) BY <2>1, <2>4
    <3> QED BY <2>1, <2>2, <3>1
  <2>7. ASSUME c.conv \in Takes PROVE args[g + n + 1] = c.value
    <3>1. n + 1 \in 1 .. Len(u) /\ g + (n + 1) = g + n + 1 BY <2>1, <2>3, <2>4, <2>7
    <3> QED BY <2>1, <2>2, <2>7, <3>1
  <2> QED BY <2>1, <2>5, <2>6, <2>7 DEF c, g, o
<1> QED BY <1>8, <1>9

-----------------------------------------------------------------------------
(* Numbers in the format.                                                  *)

(* The first character that is no digit ends the number.                   *)
LEMMA EndOfDigitsIs ==
  ASSUME NEW p \in Nat, NEW q \in p .. Len(string), Len(string) \in Nat,
         ~IsDigit(string[q]), \A r \in p .. q - 1 : IsDigit(string[r])
  PROVE  EndOfDigits(p) = q
<1> DEFINE P(x) == ~IsDigit(string[x]) /\ \A r \in p .. x - 1 : IsDigit(string[r])
           e == CHOOSE x \in p .. Len(string) : P(x)
<1>1. e \in p .. Len(string) /\ P(e)
  <2>1. \E x \in p .. Len(string) : P(x) OBVIOUS
  <2> HIDE DEF P
  <2> QED BY <2>1
<1>2. EndOfDigits(p) = e BY DEF EndOfDigits
<1> HIDE DEF e
<1>3. q \in Int /\ e \in Int BY <1>1
<1>4. ~(e < q)
  <2>1. e < q => e \in p .. q - 1 BY <1>1
  <2> QED BY <1>1, <2>1
<1>5. ~(q < e)
  <2>1. q < e => q \in p .. e - 1 BY <1>1
  <2> QED BY <1>1, <2>1
<1> QED BY <1>2, <1>3, <1>4, <1>5

(* A number means an integer.                                              *)
LEMMA MeansTyped ==
  ASSUME NEW chars, IsNumber(chars), NEW star, chars = <<"*">> => star \in Int
  PROVE  Means(chars, star) \in Int
<1>1. CASE chars = <<"*">> BY <1>1 DEF Means
<1>2. CASE chars # <<"*">>
  <2>1. chars \in Seq(Numerals) BY <1>2 DEF IsNumber
  <2>2. PICK f : Sums(chars, Len(chars), f) /\ Decimal(chars) = f[Len(chars)] BY <2>1, DecimalIs
  <2>3. Len(chars) \in Nat BY <2>1, LenProperties
  <2>4. Decimal(chars) \in Nat BY <2>2, <2>3 DEF Sums
  <2>5. Uint \in Nat \ {0} BY TypesAssumption
  <2> QED BY <1>2, <2>4, <2>5 DEF Means
<1> QED BY <1>1, <1>2

(* A number is read as it was written, or up to the end of a cut format.   *)
LEMMA NumberIs ==
  ASSUME InputInv, NEW chars, IsNumber(chars), NEW p \in Nat \ {0}, p <= End,
         \A i \in 1 .. Len(chars) : p + i - 1 < End => Char(p + i - 1) = chars[i],
         p + Len(chars) < End => Char(p + Len(chars)) \notin Numerals \cup {"*"},
         NEW star, chars = <<"*">> => args[va] = star
  PROVE  /\ Len(chars) \in Nat
         /\ p + Len(chars) <= End =>
              NumberAt(p) = [next |-> p + Len(chars), value |-> Means(chars, star),
                             stars |-> StarsIn(chars)]
         /\ p + Len(chars) > End => NumberAt(p).next = End
<1> DEFINE l == Len(chars)  n == NumberAt(p)
<1>1. /\ End \in Nat \ {0} /\ DOMAIN string = 1 .. End /\ Char(End) = "NUL"
      /\ string[End] = "NUL"
  BY Layout
<1>2. ~IsDigit("NUL") /\ "NUL" # "*" /\ "*" \notin Numerals
  BY NumeralFacts DEF Numerals, IsDigit, DigitChars
<1>3. CASE chars = <<"*">>
  <2>1. l = 1 /\ chars[1] = "*" BY <1>3
  <2>2. CASE p = End
    <3>1. Char(p) = "NUL" BY <1>1, <2>2
    <3>2. n = [next |-> p, value |-> 0, stars |-> 0] BY <3>1, <1>2 DEF NumberAt
    <3>3. n.next = End BY <3>2, <2>2
    <3> QED BY <1>1, <2>1, <2>2, <3>3
  <2>3. CASE p < End
    <3>1. Char(p) = "*"
      <4>1. p + 1 - 1 = p OBVIOUS
      <4> QED BY <2>1, <2>3, <4>1
    <3>2. ~IsDigit("*") BY <1>2, NumeralFacts
    <3>3. n = [next |-> p + 1, value |-> args[va], stars |-> 1]
      BY <3>1, <3>2 DEF NumberAt
    <3>4. Means(chars, star) = args[va] /\ StarsIn(chars) = 1 BY <1>3 DEF Means, StarsIn
    <3> QED BY <1>1, <2>1, <2>3, <3>3, <3>4
  <2> QED BY <1>1, <2>2, <2>3
<1>4. CASE chars # <<"*">>
  <2>1. chars \in Seq(Numerals) BY <1>4 DEF IsNumber
  <2>2. l \in Nat /\ \A i \in 1 .. l : IsDigit(chars[i])
    BY <2>1, LenProperties, ElementOfSeq, NumeralFacts
  <2>3. Means(chars, star) = Decimal(chars) % Uint /\ StarsIn(chars) = 0
    BY <1>4 DEF Means, StarsIn
  <2>4. CASE l = 0 \/ p = End
    <3>1. ~IsDigit(Char(p)) /\ Char(p) # "*"
      <4>1. CASE p = End BY <1>1, <1>2, <4>1
      <4>2. CASE p # End
        <5>1. l = 0 /\ p + l = p /\ p < End BY <1>1, <2>4, <4>2
        <5>2. Char(p) \notin Numerals \cup {"*"} BY <5>1
        <5> QED BY <5>2, NumeralFacts
      <4> QED BY <4>1, <4>2
    <3>2. n = [next |-> p, value |-> 0, stars |-> 0] BY <3>1 DEF NumberAt
    <3>3. CASE l = 0
      <4>1. PICK f : Sums(chars, l, f) /\ Decimal(chars) = f[l] BY <2>1, DecimalIs
      <4>2. Decimal(chars) = 0 BY <3>3, <4>1 DEF Sums
      <4>3. Uint \in Nat \ {0} BY TypesAssumption
      <4>4. 0 % Uint = 0 BY <4>3
      <4>5. p + l = p BY <3>3
      <4> QED BY <1>1, <2>2, <2>3, <3>2, <4>2, <4>4, <4>5
    <3>4. CASE l # 0
      <4>1. p = End /\ p + l > End BY <1>1, <2>2, <2>4, <3>4
      <4>2. n.next = End BY <3>2, <4>1
      <4> QED BY <1>1, <2>2, <4>1, <4>2
    <3> QED BY <3>3, <3>4
  <2>5. CASE l # 0 /\ p < End
    <3> DEFINE q == Lesser(p + l, End)
    <3>0. p + l \in Nat BY <2>2
    <3>1. q \in p .. End /\ q <= p + l BY <1>1, <2>2, <2>5 DEF Lesser
    <3>2. \A r \in p .. q - 1 : string[r] = chars[r - p + 1] /\ IsDigit(string[r])
      <4> TAKE r \in p .. q - 1
      <4>1. /\ r - p + 1 \in 1 .. l /\ p + (r - p + 1) - 1 = r /\ r < End /\ r \in 1 .. End
        BY <1>1, <2>2, <3>1
      <4> DEFINE i == r - p + 1
      <4>2. Char(p + i - 1) = chars[i] BY <4>1
      <4>3. Char(r) = chars[i] BY <4>1, <4>2
      <4> HIDE DEF i
      <4>4. string[r] = chars[i] /\ i \in 1 .. l BY <1>1, <4>1, <4>3 DEF Char, i
      <4> QED BY <2>2, <4>4 DEF i
    <3>3. ~IsDigit(string[q])
      <4>1. CASE q = End BY <1>1, <1>2, <4>1
      <4>2. CASE q # End
        <5>1. q = p + l /\ q < End /\ q \in 1 .. End BY <1>1, <3>0, <3>1, <4>2 DEF Lesser
        <5>2. Char(q) \notin Numerals BY <5>1
        <5> QED BY <1>1, <5>1, <5>2, NumeralFacts DEF Char
      <4> QED BY <4>1, <4>2
    <3>4. EndOfDigits(p) = q
      <4>1. End = Len(string) BY DEF End
      <4> HIDE DEF q
      <4>2. q \in p .. Len(string) /\ Len(string) \in Nat BY <1>1, <3>1, <4>1
      <4> QED BY <3>2, <3>3, <4>2, EndOfDigitsIs
    <3>5. IsDigit(Char(p))
      <4>1. p + 1 - 1 = p /\ 1 \in 1 .. l BY <2>2, <2>5
      <4>2. Char(p) = chars[1] BY <2>5, <4>1
      <4> QED BY <2>2, <4>1, <4>2
    <3>6. n = [next |-> q, value |-> Atoi(p, q - p), stars |-> 0]
      BY <3>4, <3>5 DEF NumberAt
    <3>7. CASE p + l > End
      <4>1. q = End BY <1>1, <3>0, <3>7 DEF Lesser
      <4>2. n.next = End BY <3>6, <4>1
      <4> QED BY <1>1, <2>2, <3>0, <3>7, <4>2
    <3>8. CASE p + l <= End
      <4>1. q = p + l /\ q - p = l
        <5>1. PICK s, e : s = p + l /\ e = End OBVIOUS
        <5>2. s \in Nat /\ e \in Nat /\ s <= e BY <1>1, <3>0, <3>8, <5>1
        <5>3. Lesser(s, e) = s BY <5>2 DEF Lesser
        <5>4. q = p + l BY <5>1, <5>3
        <5> HIDE DEF l, q
        <5> QED BY <2>2, <5>4
      <4>2. ASSUME NEW k \in 1 .. l PROVE string[p + k - 1] = chars[k]
        <5> DEFINE r == p + k - 1
        <5>1. r \in p .. q - 1 /\ r - p + 1 = k BY <2>2, <4>1
        <5> HIDE DEF r
        <5>2. string[r] = chars[r - p + 1] BY <3>2, <5>1
        <5> QED BY <5>1, <5>2 DEF r
      <4>3. Atoi(p, l) = Decimal(chars) % Uint BY <2>1, <4>2, AtoiIsDecimal
      <4> HIDE DEF q, n
      <4>4. n = [next |-> p + l, value |-> Means(chars, star), stars |-> StarsIn(chars)]
        BY <2>3, <3>6, <4>1, <4>3
      <4> QED BY <1>1, <2>2, <3>0, <3>8, <4>4 DEF n
    <3> QED BY <1>1, <3>0, <3>7, <3>8
  <2> QED BY <1>1, <2>2, <2>4, <2>5
<1> QED BY <1>3, <1>4

-----------------------------------------------------------------------------
(* The conversions in the format.                                          *)

(* How far every conversion but the last one lies inside the format.       *)
LEMMA BeforeLast ==
  ASSUME given \in Calls, Last > 0
  PROVE  \A k \in 0 .. Last - 1 : Start(k) <= Start(Last - 1)
<1> DEFINE S == FieldChars \cup {"%", "other"} \cup {Conversions[k].conv : k \in 1 .. Last}
           ss == Texts(given)  n == Last - 1
<1>1. Last \in Nat /\ \A k \in 1 .. Last : WellWritten(Conversions[k]) BY CallFacts
<1>2. n \in Nat BY <1>1
<1>3. ASSUME NEW k \in 1 .. n PROVE ss[k] \in Seq(S)
  <2> DEFINE c == Conversions[k]
  <2>0. k \in 1 .. Last BY <1>1
  <2>1. FieldChars \cup {"%", "other", c.conv} \subseteq S BY <2>0
  <2>2. WellWritten(c) BY <1>1, <2>0
  <2>3. ss[k] = Written(c) BY <2>0 DEF Texts, Last, Conversions
  <2> HIDE DEF S, c, ss, n
  <2>4. CASE c.conv = "other" BY <2>1, <2>3, <2>4, WrittenPlain
  <2>5. CASE c.conv # "other" BY <2>1, <2>2, <2>3, <2>5, WrittenAt
  <2> QED BY <2>4, <2>5
<1> HIDE DEF S, ss, n
<1>4. Found(S, ss, n) BY <1>2, <1>3, JoinedAt
<1>5. ASSUME NEW k \in 0 .. n PROVE Len(Joined(ss, k)) <= Len(Joined(ss, n))
  <2>1. Len(Joined(ss, k)) \in 0 .. Len(Joined(ss, n)) /\ Joined(ss, n) \in Seq(S)
    BY <1>4 DEF Found
  <2>2. Len(Joined(ss, n)) \in Nat BY <2>1, LenProperties
  <2> QED BY <2>1, <2>2
<1> QED BY <1>5 DEF Start, ss, n

(* The first character of a conversion is never cut, and no cut is behind  *)
(* the last one.                                                           *)
LEMMA HeadVisible ==
  ASSUME InputInv, NEW k \in 0 .. Last - 1
  PROVE  /\ k \in 0 .. Last /\ k + 1 \in 1 .. Last /\ k + 1 \in 0 .. Last
         /\ Start(k) \in Nat /\ Start(k + 1) \in Nat /\ Start(k) + 1 < End
         /\ End <= Start(k + 1) => given.missing > 0
<1>1. /\ Last \in Nat /\ given.missing \in Nat /\ End = Start(Last) - given.missing + 1
      /\ \A j \in 0 .. Last : Start(j) \in 0 .. Start(Last)
      /\ \A j \in 1 .. Last : /\ Len(Written(Conversions[j])) \in Nat
                              /\ Start(j) = Start(j - 1) + Len(Written(Conversions[j]))
      /\ given.missing > 0 => Last > 0 /\ given.missing < Len(Written(Conversions[Last]))
  BY Layout
<1>2. k \in 0 .. Last /\ k + 1 \in 1 .. Last /\ k + 1 \in 0 .. Last /\ Last > 0 BY <1>1
<1>3. Last \in 1 .. Last /\ Last - 1 \in 0 .. Last /\ Last \in 0 .. Last BY <1>1, <1>2
<1>4. /\ Start(Last) \in Int /\ Start(k) \in 0 .. Start(Last) /\ Start(k + 1) \in 0 .. Start(Last)
      /\ Start(Last - 1) \in 0 .. Start(Last)
  <2>1. Start(Last) \in 0 .. Start(Last) BY <1>1, <1>3
  <2>2. Start(Last) \in Int BY <2>1
  <2> QED BY <1>1, <1>2, <1>3, <2>2
<1>5. Start(k) <= Start(Last - 1) BY <1>2, BeforeLast DEF InputInv
<1>6. Len(Written(Conversions[Last])) \in Nat \ {0}
  <2> DEFINE c == Conversions[Last]  S == FieldChars \cup {"%", "other", c.conv}
  <2>1. WellWritten(c) BY <1>3, Layout
  <2> HIDE DEF c
  <2>2. S = FieldChars \cup {"%", "other", c.conv} OBVIOUS
  <2> HIDE DEF S
  <2>3. CASE c.conv = "other"
    <3>1. Written(c) = <<"other">> BY <2>3 DEF Written
    <3> QED BY <3>1 DEF c
  <2>4. CASE c.conv # "other"
    <3>1. /\ Len(Written(c)) = LengthEnd(c) + 1
          /\ Len(c.flags) \in Nat /\ Len(c.width) \in Nat /\ Len(c.precision) \in Nat
          /\ Len(c.length) \in Nat
      BY <2>1, <2>2, <2>4, WrittenAt
    <3>2. PICK f, g, h, i : f = Len(c.flags) /\ g = Len(c.width) /\ h = Len(c.precision)
                            /\ i = Len(c.length)
      OBVIOUS
    <3>3. LengthEnd(c) = 1 + f + g + h + i
      BY <3>2 DEF LengthEnd, PrecisionEnd, WidthEnd, FlagsEnd
    <3>4. Len(Written(c)) \in Nat \ {0}
      <4>1. f \in Nat /\ g \in Nat /\ h \in Nat /\ i \in Nat BY <3>1, <3>2
      <4>2. 1 + f + g + h + i + 1 \in Nat \ {0} BY <4>1
      <4> QED BY <3>1, <3>3, <4>2
    <3> QED BY <3>4 DEF c
  <2> QED BY <2>3, <2>4
<1>7. /\ Start(Last) = Start(Last - 1) + Len(Written(Conversions[Last]))
      /\ given.missing > 0 => given.missing < Len(Written(Conversions[Last]))
  BY <1>1, <1>3
<1> HIDE DEF Last, End
<1>8. Start(k) + 1 < End
  <2>1. ASSUME NEW a \in Nat, NEW b \in Nat, a <= b, NEW l, NEW w \in Nat \ {0}, l = b + w,
               NEW m \in Nat, m > 0 => m < w
        PROVE  a + 1 < l - m + 1
    BY <2>1
  <2>2. /\ Start(k) \in Nat /\ Start(Last - 1) \in Nat /\ given.missing \in Nat
        /\ End = Start(Last) - given.missing + 1
    BY <1>1, <1>4
  <2>3. PICK w, m, l : /\ w = Len(Written(Conversions[Last])) /\ m = given.missing
                       /\ l = Start(Last)
    OBVIOUS
  <2>4. /\ w \in Nat \ {0} /\ l = Start(Last - 1) + w /\ m \in Nat /\ (m > 0 => m < w)
        /\ Start(k) <= Start(Last - 1) /\ End = l - m + 1
    BY <1>5, <1>6, <1>7, <2>2, <2>3
  <2> QED BY <2>1, <2>2, <2>4
<1>9. End <= Start(k + 1) => given.missing > 0
  <2>1. PICK e, a, l, m : /\ e = End /\ a = Start(k + 1) /\ l = Start(Last)
                          /\ m = given.missing
    OBVIOUS
  <2>2. a \in Nat /\ l \in Nat /\ m \in Nat /\ a <= l /\ e = l - m + 1
    BY <1>1, <1>4, <2>1
  <2>3. e <= a => m > 0 BY <2>2
  <2> QED BY <2>1, <2>3
<1> QED BY <1>2, <1>4, <1>8, <1>9

(* A plain character in the format.                                        *)
LEMMA PlainWhere ==
  ASSUME InputInv, NEW k \in 0 .. Last - 1, Conversions[k + 1].conv = "other"
  PROVE  /\ Char(Start(k) + 1) = "other" /\ Start(k + 1) = Start(k) + 1
         /\ FirstArg(k + 1) = FirstArg(k)
         /\ k + 1 = Last => given.missing = 0
<1> DEFINE c == Conversions[k + 1]
<1>1. k + 1 \in 1 .. Last /\ k \in 0 .. Last /\ Start(k) \in Nat /\ Start(k) + 1 < End
  BY HeadVisible
<1>2. k \in Int /\ (k + 1) - 1 = k BY <1>1
<1>3. Written(c) = <<"other">> BY DEF Written
<1>4. Len(Written(c)) = 1 /\ Written(c)[1] = "other" BY <1>3
<1>5. /\ WellWritten(c) /\ Start(k + 1) = Start(k) + Len(Written(c))
      /\ \A i \in 1 .. Len(Written(c)) : Start(k) + i < End => Char(Start(k) + i) = Written(c)[i]
  BY <1>1, <1>2, Layout
<1>6. given.missing \in Nat /\ (given.missing > 0 => given.missing < Len(Written(Conversions[Last])))
  BY Layout
<1>7. /\ FirstArg(k) \in Nat
      /\ FirstArg(k + 1) = FirstArg(k) + Len(c.stars) + (IF c.conv \in Takes THEN 1 ELSE 0)
  BY <1>1, <1>2, ArgLayout
<1>8. Len(c.stars) = 0
  <2>1. c.stars = <<>> BY <1>5 DEF WellWritten
  <2> QED BY <2>1
<1>9. c.conv \notin Takes BY DEF Takes, IntegerConversions, SignedConversions
<1>10. FirstArg(k + 1) = FirstArg(k) BY <1>7, <1>8, <1>9
<1>11. Char(Start(k) + 1) = "other" /\ Start(k + 1) = Start(k) + 1 BY <1>1, <1>4, <1>5
<1>12. ASSUME k + 1 = Last PROVE given.missing = 0
  <2>1. Len(Written(Conversions[Last])) = 1 BY <1>4, <1>12
  <2> QED BY <1>6, <2>1
<1> QED BY <1>10, <1>11, <1>12

(* A place inside the part of length l that begins behind a.               *)
LEMMA Within ==
  ASSUME NEW a \in Nat, NEW l \in Nat, NEW t \in Nat, a + l <= t, NEW i \in 1 .. l, NEW s \in Nat
  PROVE  a + i \in 1 .. t /\ s + (a + i) = s + a + i
OBVIOUS

(* The characters of a conversion in the format, as far as it is not cut.  *)
LEMMA FieldsWhere ==
  ASSUME InputInv, NEW k \in 0 .. Last - 1, Conversions[k + 1].conv # "other"
  PROVE  LET c == Conversions[k + 1]
         IN  /\ WellWritten(c)
             /\ Len(c.flags) \in Nat /\ Len(c.width) \in Nat /\ Len(c.precision) \in Nat
             /\ Len(c.length) \in Nat
             /\ Start(k + 1) = Start(k) + LengthEnd(c) + 1
             /\ Char(Start(k) + 1) = "%"
             /\ \A i \in 1 .. Len(c.flags) :
                  Start(k) + 1 + i < End => Char(Start(k) + 1 + i) = c.flags[i]
             /\ \A i \in 1 .. Len(c.width) :
                  Start(k) + FlagsEnd(c) + i < End => Char(Start(k) + FlagsEnd(c) + i) = c.width[i]
             /\ \A i \in 1 .. Len(c.precision) :
                  Start(k) + WidthEnd(c) + i < End
                    => Char(Start(k) + WidthEnd(c) + i) = c.precision[i]
             /\ \A i \in 1 .. Len(c.length) :
                  Start(k) + PrecisionEnd(c) + i < End
                    => Char(Start(k) + PrecisionEnd(c) + i) = c.length[i]
             /\ Start(k) + LengthEnd(c) + 1 < End => Char(Start(k) + LengthEnd(c) + 1) = c.conv
<1> DEFINE c == Conversions[k + 1]  s == Start(k)  w == Written(c)
           S == FieldChars \cup {"%", "other", c.conv}
<1>1. k + 1 \in 1 .. Last /\ k \in 0 .. Last /\ s \in Nat /\ s + 1 < End
  BY HeadVisible
<1>2. k \in Int /\ (k + 1) - 1 = k BY <1>1
<1>3. /\ WellWritten(c) /\ Start(k + 1) = s + Len(w)
      /\ \A i \in 1 .. Len(w) : s + i < End => Char(s + i) = w[i]
  BY <1>1, <1>2, Layout
<1>4. c.conv # "other" OBVIOUS
<1> HIDE DEF c
<1>5. S = FieldChars \cup {"%", "other", c.conv} OBVIOUS
<1> HIDE DEF S, s
<1>6. /\ Len(w) = LengthEnd(c) + 1
      /\ Len(c.flags) \in Nat /\ Len(c.width) \in Nat /\ Len(c.precision) \in Nat
      /\ Len(c.length) \in Nat
      /\ w[1] = "%"
      /\ \A i \in 1 .. Len(c.flags) : w[1 + i] = c.flags[i]
      /\ \A i \in 1 .. Len(c.width) : w[FlagsEnd(c) + i] = c.width[i]
      /\ \A i \in 1 .. Len(c.precision) : w[WidthEnd(c) + i] = c.precision[i]
      /\ \A i \in 1 .. Len(c.length) : w[PrecisionEnd(c) + i] = c.length[i]
      /\ w[LengthEnd(c) + 1] = c.conv
  BY <1>3, <1>4, <1>5, WrittenAt
<1> HIDE DEF w
<1>7. /\ FlagsEnd(c) = 1 + Len(c.flags) /\ WidthEnd(c) = FlagsEnd(c) + Len(c.width)
      /\ PrecisionEnd(c) = WidthEnd(c) + Len(c.precision)
      /\ LengthEnd(c) = PrecisionEnd(c) + Len(c.length)
  BY DEF FlagsEnd, WidthEnd, PrecisionEnd, LengthEnd
<1>8. /\ FlagsEnd(c) \in Nat /\ WidthEnd(c) \in Nat /\ PrecisionEnd(c) \in Nat
      /\ LengthEnd(c) \in Nat
      /\ 1 + Len(c.flags) <= Len(w) /\ FlagsEnd(c) + Len(c.width) <= Len(w)
      /\ WidthEnd(c) + Len(c.precision) <= Len(w) /\ PrecisionEnd(c) + Len(c.length) <= Len(w)
      /\ LengthEnd(c) + 1 \in 1 .. Len(w) /\ 1 \in 1 .. Len(w)
  <2>1. PICK f, g, h, i, fe, we, pe, le, l :
          /\ f = Len(c.flags) /\ g = Len(c.width) /\ h = Len(c.precision) /\ i = Len(c.length)
          /\ fe = FlagsEnd(c) /\ we = WidthEnd(c) /\ pe = PrecisionEnd(c) /\ le = LengthEnd(c)
          /\ l = Len(w)
    OBVIOUS
  <2>2. f \in Nat /\ g \in Nat /\ h \in Nat /\ i \in Nat BY <1>6, <2>1
  <2>3. fe = 1 + f /\ we = fe + g /\ pe = we + h /\ le = pe + i /\ l = le + 1 BY <1>6, <1>7, <2>1
  <2>4. /\ fe \in Nat /\ we \in Nat /\ pe \in Nat /\ le \in Nat
        /\ 1 + f <= l /\ fe + g <= l /\ we + h <= l /\ pe + i <= l
        /\ le + 1 \in 1 .. l /\ 1 \in 1 .. l
    BY <2>2, <2>3
  <2> QED BY <2>1, <2>4
<1>9. ASSUME NEW i \in 1 .. Len(w), s + i < End PROVE Char(s + i) = w[i] BY <1>3, <1>9
<1>10. s \in Nat /\ Len(w) \in Nat BY <1>1, <1>6, <1>8 DEF s
<1>11. \A i \in 1 .. Len(c.flags) :
         s + 1 + i < End => Char(s + 1 + i) = c.flags[i]
  <2> SUFFICES ASSUME NEW i \in 1 .. Len(c.flags), s + 1 + i < End
               PROVE  Char(s + 1 + i) = c.flags[i]
    OBVIOUS
  <2>1. PICK a, l : a = 1 /\ l = Len(c.flags) OBVIOUS
  <2>2. a \in Nat /\ l \in Nat /\ a + l <= Len(w)
    <3>1. Len(c.flags) \in Nat BY <1>6
    <3>2. 1 \in Nat /\ 1 + Len(c.flags) <= Len(w) BY <1>8
    <3> QED BY <2>1, <3>1, <3>2
  <2>3. a + i \in 1 .. Len(w) /\ s + (a + i) = s + a + i
    <3>1. i \in 1 .. l /\ Len(w) \in Nat /\ s \in Nat BY <1>10, <2>1
    <3> QED BY <2>2, <3>1, Within
  <2>4. Char(s + (a + i)) = w[a + i] BY <1>9, <2>1, <2>3
  <2> QED BY <1>6, <2>1, <2>3, <2>4
<1>12. \A i \in 1 .. Len(c.width) :
         s + FlagsEnd(c) + i < End => Char(s + FlagsEnd(c) + i) = c.width[i]
  <2> SUFFICES ASSUME NEW i \in 1 .. Len(c.width), s + FlagsEnd(c) + i < End
               PROVE  Char(s + FlagsEnd(c) + i) = c.width[i]
    OBVIOUS
  <2>1. PICK a, l : a = FlagsEnd(c) /\ l = Len(c.width) OBVIOUS
  <2>2. a \in Nat /\ l \in Nat /\ a + l <= Len(w)
    <3>1. Len(c.width) \in Nat BY <1>6
    <3>2. FlagsEnd(c) \in Nat /\ FlagsEnd(c) + Len(c.width) <= Len(w) BY <1>8
    <3> QED BY <2>1, <3>1, <3>2
  <2>3. a + i \in 1 .. Len(w) /\ s + (a + i) = s + a + i
    <3>1. i \in 1 .. l /\ Len(w) \in Nat /\ s \in Nat BY <1>10, <2>1
    <3> QED BY <2>2, <3>1, Within
  <2>4. Char(s + (a + i)) = w[a + i] BY <1>9, <2>1, <2>3
  <2> QED BY <1>6, <2>1, <2>3, <2>4
<1>13. \A i \in 1 .. Len(c.precision) :
         s + WidthEnd(c) + i < End => Char(s + WidthEnd(c) + i) = c.precision[i]
  <2> SUFFICES ASSUME NEW i \in 1 .. Len(c.precision), s + WidthEnd(c) + i < End
               PROVE  Char(s + WidthEnd(c) + i) = c.precision[i]
    OBVIOUS
  <2>1. PICK a, l : a = WidthEnd(c) /\ l = Len(c.precision) OBVIOUS
  <2>2. a \in Nat /\ l \in Nat /\ a + l <= Len(w)
    <3>1. Len(c.precision) \in Nat BY <1>6
    <3>2. WidthEnd(c) \in Nat /\ WidthEnd(c) + Len(c.precision) <= Len(w) BY <1>8
    <3> QED BY <2>1, <3>1, <3>2
  <2>3. a + i \in 1 .. Len(w) /\ s + (a + i) = s + a + i
    <3>1. i \in 1 .. l /\ Len(w) \in Nat /\ s \in Nat BY <1>10, <2>1
    <3> QED BY <2>2, <3>1, Within
  <2>4. Char(s + (a + i)) = w[a + i] BY <1>9, <2>1, <2>3
  <2> QED BY <1>6, <2>1, <2>3, <2>4
<1>14. \A i \in 1 .. Len(c.length) :
         s + PrecisionEnd(c) + i < End => Char(s + PrecisionEnd(c) + i) = c.length[i]
  <2> SUFFICES ASSUME NEW i \in 1 .. Len(c.length), s + PrecisionEnd(c) + i < End
               PROVE  Char(s + PrecisionEnd(c) + i) = c.length[i]
    OBVIOUS
  <2>1. PICK a, l : a = PrecisionEnd(c) /\ l = Len(c.length) OBVIOUS
  <2>2. a \in Nat /\ l \in Nat /\ a + l <= Len(w)
    <3>1. Len(c.length) \in Nat BY <1>6
    <3>2. PrecisionEnd(c) \in Nat /\ PrecisionEnd(c) + Len(c.length) <= Len(w) BY <1>8
    <3> QED BY <2>1, <3>1, <3>2
  <2>3. a + i \in 1 .. Len(w) /\ s + (a + i) = s + a + i
    <3>1. i \in 1 .. l /\ Len(w) \in Nat /\ s \in Nat BY <1>10, <2>1
    <3> QED BY <2>2, <3>1, Within
  <2>4. Char(s + (a + i)) = w[a + i] BY <1>9, <2>1, <2>3
  <2> QED BY <1>6, <2>1, <2>3, <2>4
<1>15. Char(s + 1) = "%"
  <2>1. 1 \in 1 .. Len(w) BY <1>8
  <2> QED BY <1>1, <1>6, <1>9, <2>1 DEF s
<1>16. s + LengthEnd(c) + 1 < End => Char(s + LengthEnd(c) + 1) = c.conv
  <2>1. LengthEnd(c) + 1 \in 1 .. Len(w) BY <1>8
  <2>2. s + (LengthEnd(c) + 1) = s + LengthEnd(c) + 1 BY <1>1, <1>8 DEF s
  <2> QED BY <1>6, <1>9, <2>1, <2>2
<1>17. Start(k + 1) = s + LengthEnd(c) + 1 BY <1>1, <1>3, <1>6, <1>8 DEF s, w
<1> QED BY <1>3, <1>6, <1>11, <1>12, <1>13, <1>14, <1>15, <1>16, <1>17 DEF s, c

-----------------------------------------------------------------------------
(* The parser.                                                             *)

FlagsUpTo(c, i) == {FlagOf(c.flags[j]) : j \in 1 .. i}

WidthFlags(c) ==
  FlagsUpTo(c, Len(c.flags)) \cup (IF c.meant[1] < 0 THEN {"LEFT"} ELSE {})

WidthMeant(c) == IF c.meant[1] < 0 THEN -c.meant[1] ELSE c.meant[1]

LengthMeant(c) ==
  CASE c.length = <<>> -> {}
    [] c.length = <<"l", "l">> -> {"LONG", "LONG_LONG"}
    [] c.length = <<"h">> -> {"SHORT"}
    [] c.length = <<"h", "h">> -> {"SHORT", "CHAR"}
    [] OTHER -> {"LONG"}

(* Where the parser is in the next conversion, and what it has made of it. *)
InFlags(c, p, v) ==
  /\ va = v + 1
  /\ \E i \in 0 .. Len(c.flags) : pos = p + 1 + i + 1 /\ opts = FlagsUpTo(c, i)

BehindWidth(c, p, v) ==
  /\ va = v + StarsIn(c.width) + 1 /\ pos = p + WidthEnd(c) + 1
  /\ opts = WidthFlags(c) /\ width = WidthMeant(c)

BehindPrecision(c, p, v) ==
  /\ va = v + Len(c.stars) + 1 /\ pos = p + PrecisionEnd(c) + 1
  /\ opts = MeantFlags(c) /\ width = WidthMeant(c) /\ precision = c.meant[2]

BehindLength(c, p, v) ==
  /\ va = v + Len(c.stars) + 1 /\ pos = p + LengthEnd(c) + 1
  /\ opts = MeantFlags(c) \cup LengthMeant(c)
  /\ width = WidthMeant(c) /\ precision = c.meant[2]

InFields(c, p, v) ==
  \/ at = "flags" /\ InFlags(c, p, v)
  \/ at = "precision" /\ BehindWidth(c, p, v)
  \/ at = "length" /\ BehindPrecision(c, p, v)
  \/ at = "specifier" /\ BehindLength(c, p, v)

BetweenItems ==
  /\ at = "item" /\ pos = Start(parsed) + 1 /\ va = FirstArg(parsed) + 1
  /\ parsed = Last => given.missing = 0

InConversion ==
  /\ parsed < Last /\ pos < End /\ Conversions[parsed + 1].conv # "other"
  /\ InFields(Conversions[parsed + 1], Start(parsed), FirstArg(parsed))

(* The end of a cut format, and what lies behind it.                       *)
AtCut     == at # "item" /\ parsed < Last /\ given.missing > 0 /\ pos = End
BehindCut == at = "item" /\ given.missing > 0 /\ pos = End + 1

HandedOver ==
  /\ at \in {"item", "flags", "precision", "length", "specifier"}
  /\ at # "item" => pc = "item" /\ format = <<>>
  /\ pc \in {"digits", "format", "reverse"} => format # <<>>

ParseInv ==
  /\ InputInv /\ HandedOver /\ parsed \in 0 .. Last
  /\ BetweenItems \/ InConversion \/ AtCut \/ BehindCut

(* The fields of a conversion follow each other.                           *)
LEMMA FieldEnds ==
  ASSUME NEW c, Len(c.flags) \in Nat, Len(c.width) \in Nat, Len(c.precision) \in Nat,
         Len(c.length) \in Nat
  PROVE  /\ FlagsEnd(c) = 1 + Len(c.flags) /\ WidthEnd(c) = FlagsEnd(c) + Len(c.width)
         /\ PrecisionEnd(c) = WidthEnd(c) + Len(c.precision)
         /\ LengthEnd(c) = PrecisionEnd(c) + Len(c.length)
         /\ FlagsEnd(c) \in Nat /\ WidthEnd(c) \in Nat /\ PrecisionEnd(c) \in Nat
         /\ LengthEnd(c) \in Nat
         /\ 1 <= FlagsEnd(c) /\ FlagsEnd(c) <= WidthEnd(c) /\ WidthEnd(c) <= PrecisionEnd(c)
         /\ PrecisionEnd(c) <= LengthEnd(c) /\ 1 <= LengthEnd(c)
         /\ FlagsEnd(c) <= LengthEnd(c) /\ WidthEnd(c) <= LengthEnd(c)
<1>1. PICK f, g, h, i : f = Len(c.flags) /\ g = Len(c.width) /\ h = Len(c.precision)
                        /\ i = Len(c.length)
  OBVIOUS
<1>2. f \in Nat /\ g \in Nat /\ h \in Nat /\ i \in Nat BY <1>1
<1>3. PICK fe, we, pe, le : /\ fe = FlagsEnd(c) /\ we = WidthEnd(c) /\ pe = PrecisionEnd(c)
                            /\ le = LengthEnd(c)
  OBVIOUS
<1>4. fe = 1 + f /\ we = fe + g /\ pe = we + h /\ le = pe + i
  BY <1>1, <1>3 DEF FlagsEnd, WidthEnd, PrecisionEnd, LengthEnd
<1>5. /\ fe \in Nat /\ we \in Nat /\ pe \in Nat /\ le \in Nat
      /\ 1 <= fe /\ fe <= we /\ we <= pe /\ pe <= le /\ 1 <= le
      /\ fe <= le /\ we <= le
  BY <1>2, <1>4
<1> QED BY <1>1, <1>3, <1>4, <1>5

(* A conversion that the format ends in is cut.                            *)
LEMMA CutHere ==
  ASSUME InputInv, NEW k \in 0 .. Last - 1, Conversions[k + 1].conv # "other",
         End <= Start(k) + LengthEnd(Conversions[k + 1]) + 1
  PROVE  given.missing > 0
BY FieldsWhere, HeadVisible

(* A parser that has reached the next field, item or cut is where ParseInv *)
(* says.                                                                   *)
LEMMA ParsedOn ==
  ASSUME InputInv, UNCHANGED input, HandedOver', NEW CONSTANT k \in 0 .. Last, parsed' = k,
         NEW CONSTANT c, c = Conversions[k + 1], NEW CONSTANT p, p = Start(k),
         NEW CONSTANT v, v = FirstArg(k),
         \/ at' = "item" /\ pos' = p + 1 /\ va' = v + 1 /\ (k = Last => given.missing = 0)
         \/ k < Last /\ pos' < End /\ c.conv # "other" /\ InFields(c, p, v)'
         \/ at' # "item" /\ k < Last /\ given.missing > 0 /\ pos' = End
         \/ at' = "item" /\ given.missing > 0 /\ pos' = End + 1
  PROVE  ParseInv'
<1>1. given' = given /\ string' = string /\ args' = args BY DEF input
<1>2. InputInv' BY <1>1 DEF InputInv
<1>3. /\ Last' = Last /\ End' = End /\ Conversions' = Conversions
      /\ Start(parsed)' = Start(k) /\ FirstArg(parsed)' = FirstArg(k)
      /\ Conversions[parsed + 1]' = Conversions[k + 1] /\ (given.missing)' = given.missing
  BY <1>1 DEF Last, End, Conversions, Start, FirstArg
<1>4. (parsed \in 0 .. Last)' BY <1>3
<1>5. CASE at' = "item" /\ pos' = p + 1 /\ va' = v + 1 /\ (k = Last => given.missing = 0)
  <2>1. BetweenItems' BY <1>3, <1>5 DEF BetweenItems
  <2> QED BY <1>2, <1>4, <2>1 DEF ParseInv
<1>6. CASE k < Last /\ pos' < End /\ c.conv # "other" /\ InFields(c, p, v)'
  <2>1. InFields(Conversions[parsed + 1], Start(parsed), FirstArg(parsed))' = InFields(c, p, v)'
    BY <1>3 DEF InFields, InFlags, BehindWidth, BehindPrecision, BehindLength
  <2>2. InConversion' BY <1>3, <1>6, <2>1 DEF InConversion
  <2> QED BY <1>2, <1>4, <2>2 DEF ParseInv
<1>7. CASE at' # "item" /\ k < Last /\ given.missing > 0 /\ pos' = End
  <2>1. AtCut' BY <1>3, <1>7 DEF AtCut
  <2> QED BY <1>2, <1>4, <2>1 DEF ParseInv
<1>8. CASE at' = "item" /\ given.missing > 0 /\ pos' = End + 1
  <2>1. BehindCut' BY <1>3, <1>8 DEF BehindCut
  <2> QED BY <1>2, <1>4, <2>1 DEF ParseInv
<1> QED BY <1>5, <1>6, <1>7, <1>8

(* At the start of an item the parser is at the next conversion, at the end*)
(* of the format, or behind the NUL of a cut one.                          *)
LEMMA AtItem ==
  ASSUME ParseInv, at = "item"
  PROVE  \/ /\ parsed \in 0 .. Last - 1 /\ pos = Start(parsed) + 1 /\ va = FirstArg(parsed) + 1
            /\ Char(pos) = IF Conversions[parsed + 1].conv = "other" THEN "other" ELSE "%"
         \/ parsed = Last /\ given.missing = 0 /\ pos = End /\ Char(pos) = "NUL"
         \/ given.missing > 0 /\ pos = End + 1 /\ Char(pos) = "unknown"
<1>1. /\ Last \in Nat /\ End \in Nat \ {0} /\ Char(End) = "NUL" /\ given.missing \in Nat
      /\ \A p \in Nat : p > End => Char(p) = "unknown"
      /\ End = Start(Last) - given.missing + 1 /\ Start(Last) \in 0 .. Start(Last)
  <2>1. Last \in Nat BY Layout DEF ParseInv
  <2>2. Last \in 0 .. Last BY <2>1
  <2> QED BY <2>2, Layout DEF ParseInv
<1>2. CASE BetweenItems
  <2>1. CASE parsed = Last
    <3>1. given.missing = 0 /\ pos = Start(Last) + 1 BY <1>2, <2>1 DEF BetweenItems
    <3>2. pos = End BY <1>1, <3>1
    <3> QED BY <1>1, <2>1, <3>1, <3>2
  <2>2. CASE parsed # Last
    <3>1. parsed \in 0 .. Last - 1 BY <1>1, <2>2 DEF ParseInv
    <3>2. pos = Start(parsed) + 1 /\ va = FirstArg(parsed) + 1 BY <1>2 DEF BetweenItems
    <3>3. CASE Conversions[parsed + 1].conv = "other"
      <4>1. Char(pos) = "other" BY <3>1, <3>2, <3>3, PlainWhere DEF ParseInv
      <4> QED BY <3>1, <3>2, <3>3, <4>1
    <3>4. CASE Conversions[parsed + 1].conv # "other"
      <4>1. Char(pos) = "%" BY <3>1, <3>2, <3>4, FieldsWhere DEF ParseInv
      <4> QED BY <3>1, <3>2, <3>4, <4>1
    <3> QED BY <3>3, <3>4
  <2> QED BY <2>1, <2>2
<1>3. CASE BehindCut
  <2>1. pos = End + 1 /\ given.missing > 0 BY <1>3 DEF BehindCut
  <2>2. pos \in Nat /\ pos > End BY <1>1, <2>1
  <2> QED BY <1>1, <2>1, <2>2
<1>4. ~InConversion /\ ~AtCut BY DEF InConversion, AtCut, InFields
<1> QED BY <1>2, <1>3, <1>4 DEF ParseInv

(* The parser over a plain character.                                      *)
LEMMA PlainCharParses == ASSUME ParseInv, PlainChar PROVE ParseInv'
<1>1. at = "item" /\ pc = "item" /\ format = <<>> /\ Char(pos) \notin {"%", "NUL", "unknown"}
  BY DEF PlainChar, Parses
<1>2. PICK k : k = parsed OBVIOUS
<1>3. /\ k \in 0 .. Last - 1 /\ pos = Start(k) + 1 /\ va = FirstArg(k) + 1
      /\ Conversions[k + 1].conv = "other"
  BY <1>1, <1>2, AtItem
<1>4. /\ Start(k + 1) = Start(k) + 1 /\ FirstArg(k + 1) = FirstArg(k)
      /\ k + 1 = Last => given.missing = 0
  BY <1>3, PlainWhere DEF ParseInv
<1>5. /\ UNCHANGED input /\ pos' = pos + 1 /\ va' = va /\ at' = at /\ parsed' = k + 1
      /\ pc' = pc
  BY <1>2 DEF PlainChar, HandsOver
<1>6. HandedOver' BY <1>1, <1>5 DEF HandedOver
<1>7. k + 1 \in 0 .. Last
  <2>1. Last \in Nat BY Layout DEF ParseInv
  <2> QED BY <1>3, <2>1
<1>8. PICK j, c, p, v : j = k + 1 /\ c = Conversions[j + 1] /\ p = Start(j) /\ v = FirstArg(j)
  OBVIOUS
<1>9. at' = "item" /\ pos' = p + 1 /\ va' = v + 1 /\ (j = Last => given.missing = 0)
  BY <1>1, <1>3, <1>4, <1>5, <1>8
<1> QED BY <1>5, <1>6, <1>7, <1>8, <1>9, ParsedOn DEF ParseInv

(* The parser over the percent sign of a conversion.                       *)
LEMMA PercentParses == ASSUME ParseInv, Percent PROVE ParseInv'
<1>1. at = "item" /\ pc = "item" /\ format = <<>> /\ Char(pos) = "%"
  BY DEF Percent, Parses
<1>2. PICK k : k = parsed OBVIOUS
<1>3. PICK c, p, v : c = Conversions[k + 1] /\ p = Start(k) /\ v = FirstArg(k) OBVIOUS
<1>4. k \in 0 .. Last - 1 /\ pos = p + 1 /\ va = v + 1 /\ c.conv # "other"
  BY <1>1, <1>2, <1>3, AtItem
<1>5. /\ UNCHANGED input /\ pos' = pos + 1 /\ va' = va /\ at' = "flags" /\ opts' = {}
      /\ parsed' = k /\ pc' = pc /\ format' = format
  BY <1>2 DEF Percent, Goes, vars
<1>6. HandedOver' BY <1>1, <1>5 DEF HandedOver
<1>7. k \in 0 .. Last /\ k < Last
  <2>1. Last \in Nat BY Layout DEF ParseInv
  <2> QED BY <1>4, <2>1
<1>8. p \in Nat /\ p + 1 < End /\ (End <= Start(k + 1) => given.missing > 0) /\ End \in Nat
  BY <1>3, <1>4, HeadVisible, Layout DEF ParseInv
<1>9. CASE pos' < End
  <2>1. Len(c.flags) \in Nat BY <1>3, <1>4, FieldsWhere DEF ParseInv
  <2>2. FlagsUpTo(c, 0) = {} BY DEF FlagsUpTo
  <2>3. 0 \in 0 .. Len(c.flags) /\ pos' = p + 1 + 0 + 1 BY <1>4, <1>5, <1>8, <2>1
  <2>4. InFields(c, p, v)' BY <1>4, <1>5, <2>2, <2>3 DEF InFields, InFlags
  <2> QED BY <1>3, <1>4, <1>5, <1>6, <1>7, <1>9, <2>4, ParsedOn DEF ParseInv
<1>10. CASE ~(pos' < End)
  <2>1. pos' = End BY <1>4, <1>5, <1>8, <1>10
  <2>2. LengthEnd(c) \in Nat /\ 1 <= LengthEnd(c)
    <3>1. /\ Len(c.flags) \in Nat /\ Len(c.width) \in Nat /\ Len(c.precision) \in Nat
          /\ Len(c.length) \in Nat
      BY <1>3, <1>4, FieldsWhere DEF ParseInv
    <3> QED BY <3>1, FieldEnds
  <2>3. End <= p + LengthEnd(c) + 1 BY <1>4, <1>5, <1>8, <2>1, <2>2
  <2>4. given.missing > 0 BY <1>3, <1>4, <2>3, CutHere DEF ParseInv
  <2> QED BY <1>3, <1>5, <1>6, <1>7, <2>1, <2>4, ParsedOn DEF ParseInv
<1> QED BY <1>9, <1>10

(* What an interrupted or complete field is followed by.                   *)
LengthChar(x) == x \in {"l", "h", "t", "j", "z"}

(* A length begins with a character of its own.                            *)
LEMMA LengthStarts ==
  ASSUME NEW s \in LengthTexts, s # <<>>
  PROVE  LengthChar(s[1]) /\ Len(s) \in {1, 2}
BY DEF LengthTexts, LengthChar

(* What follows the precision and the width is what a following field can  *)
(* begin with.                                                             *)
LEMMA Follows ==
  ASSUME InputInv, NEW k \in 0 .. Last - 1, NEW c, c = Conversions[k + 1], c.conv # "other",
         NEW p, p = Start(k)
  PROVE  /\ p + PrecisionEnd(c) + 1 < End =>
              LET x == Char(p + PrecisionEnd(c) + 1)
              IN  IF c.length = <<>> THEN x = c.conv ELSE x = c.length[1] /\ LengthChar(x)
         /\ p + WidthEnd(c) + 1 < End =>
              LET x == Char(p + WidthEnd(c) + 1)
              IN  IF c.precision = <<>> THEN x = c.conv \/ LengthChar(x) ELSE x = "."
         /\ p + FlagsEnd(c) + 1 < End =>
              LET x == Char(p + FlagsEnd(c) + 1)
              IN  IF c.width = <<>> THEN x = c.conv \/ LengthChar(x) \/ x = "."
                  ELSE x = c.width[1]
<1>1. /\ WellWritten(c)
      /\ Len(c.flags) \in Nat /\ Len(c.width) \in Nat /\ Len(c.precision) \in Nat
      /\ Len(c.length) \in Nat
      /\ \A i \in 1 .. Len(c.width) :
                  p + FlagsEnd(c) + i < End => Char(p + FlagsEnd(c) + i) = c.width[i]
      /\ \A i \in 1 .. Len(c.precision) :
                  p + WidthEnd(c) + i < End
                    => Char(p + WidthEnd(c) + i) = c.precision[i]
      /\ \A i \in 1 .. Len(c.length) :
                  p + PrecisionEnd(c) + i < End
                    => Char(p + PrecisionEnd(c) + i) = c.length[i]
      /\ p + LengthEnd(c) + 1 < End => Char(p + LengthEnd(c) + 1) = c.conv
  BY FieldsWhere
<1>2. /\ WidthEnd(c) = FlagsEnd(c) + Len(c.width)
      /\ PrecisionEnd(c) = WidthEnd(c) + Len(c.precision)
      /\ LengthEnd(c) = PrecisionEnd(c) + Len(c.length)
      /\ FlagsEnd(c) \in Nat /\ WidthEnd(c) \in Nat /\ PrecisionEnd(c) \in Nat
  BY <1>1, FieldEnds
<1>3. ASSUME NEW S, NEW s \in Seq(S), s # <<>> PROVE 1 \in 1 .. Len(s)
  BY <1>3, EmptySeq, LenProperties
<1>4. /\ c.width # <<>> => 1 \in 1 .. Len(c.width)
      /\ c.precision # <<>> => 1 \in 1 .. Len(c.precision)
      /\ c.length # <<>> => 1 \in 1 .. Len(c.length)
  <2> DEFINE S == FieldChars \cup {"%", "other", c.conv}
  <2>1. PICK T : T = S OBVIOUS
  <2>2. c.width \in Seq(T) /\ c.precision \in Seq(T) /\ c.length \in Seq(T)
    BY <1>1, <2>1, FieldTypes
  <2> QED BY <1>3, <2>2
<1>5. ASSUME p + PrecisionEnd(c) + 1 < End
      PROVE  LET x == Char(p + PrecisionEnd(c) + 1)
             IN  IF c.length = <<>> THEN x = c.conv ELSE x = c.length[1] /\ LengthChar(x)
  <2>1. CASE c.length = <<>>
    <3>1. Len(c.length) = 0 BY <2>1
    <3>2. LengthEnd(c) = PrecisionEnd(c) BY <1>2, <3>1
    <3> QED BY <1>1, <1>5, <2>1, <3>2
  <2>2. CASE c.length # <<>>
    <3>1. LengthChar(c.length[1]) BY <1>1, <2>2, LengthStarts DEF WellWritten
    <3> QED BY <1>1, <1>4, <1>5, <2>2, <3>1
  <2> QED BY <2>1, <2>2
<1>6. ASSUME p + WidthEnd(c) + 1 < End
      PROVE  LET x == Char(p + WidthEnd(c) + 1)
             IN  IF c.precision = <<>> THEN x = c.conv \/ LengthChar(x) ELSE x = "."
  <2>1. CASE c.precision = <<>>
    <3>1. Len(c.precision) = 0 BY <2>1
    <3>2. PrecisionEnd(c) = WidthEnd(c) BY <1>2, <3>1
    <3> QED BY <1>5, <1>6, <2>1, <3>2
  <2>2. CASE c.precision # <<>>
    <3>1. c.precision[1] = "."
      <4>1. PICK q : q = AfterPoint(c) OBVIOUS
      <4>2. c.precision = <<".">> \o q BY <1>1, <2>2, <4>1 DEF WellWritten
      <4>3. PICK T : T = FieldChars \cup {"*"} OBVIOUS
      <4>4. <<".">> \in Seq(T) /\ q \in Seq(T)
        <5>1. "." \in T /\ "*" \in T /\ Numerals \subseteq T BY <4>3 DEF FieldChars
        <5>2. IsNumber(q) BY <1>1, <4>1 DEF WellWritten
        <5>3. Seq(Numerals) \subseteq Seq(T) BY <5>1
        <5>4. CASE q = <<"*">> BY <5>1, <5>4
        <5>5. CASE q # <<"*">> BY <5>1, <5>2, <5>3, <5>5 DEF IsNumber
        <5> QED BY <5>4, <5>5
      <4>5. 1 \in 1 .. Len(<<".">>) OBVIOUS
      <4>6. (<<".">> \o q)[1] = <<".">>[1] BY <4>4, <4>5, ConcatAt
      <4> QED BY <4>2, <4>6
    <3> QED BY <1>1, <1>4, <1>6, <2>2, <3>1
  <2> QED BY <2>1, <2>2
<1>7. ASSUME p + FlagsEnd(c) + 1 < End
      PROVE  LET x == Char(p + FlagsEnd(c) + 1)
             IN  IF c.width = <<>> THEN x = c.conv \/ LengthChar(x) \/ x = "."
                 ELSE x = c.width[1]
  <2>1. CASE c.width = <<>>
    <3>1. Len(c.width) = 0 BY <2>1
    <3>2. WidthEnd(c) = FlagsEnd(c) BY <1>2, <3>1
    <3> QED BY <1>6, <1>7, <2>1, <3>2
  <2>2. CASE c.width # <<>> BY <1>1, <1>4, <1>7, <2>2
  <2> QED BY <2>1, <2>2
<1> QED BY <1>5, <1>6, <1>7

(* No character belongs to two kinds of field.                             *)
LEMMA Separate ==
  ASSUME NEW x
  PROVE  /\ LengthChar(x) => x \in FieldChars /\ x \notin FlagChars /\ x \notin Numerals
                               /\ x # "*" /\ x # "."
         /\ "." \in FieldChars /\ "." \notin FlagChars /\ "." \notin Numerals /\ "." # "*"
         /\ "*" \in FieldChars /\ "*" \notin FlagChars
         /\ FlagChars \subseteq FieldChars /\ Numerals \subseteq FieldChars
         /\ x \in Numerals /\ x # "0" => x \notin FlagChars
         /\ "NUL" \in FieldChars /\ "NUL" \notin FlagChars /\ "NUL" # "."
         /\ ~LengthChar("NUL")
         /\ "NUL" \notin Numerals /\ "NUL" # "*"
<1>1. Numerals = {"0", "1", "2", "3", "4", "5", "6", "7", "8", "9"}
  <2> DEFINE D == {"0", "1", "2", "3", "4", "5", "6", "7", "8", "9"}
  <2>1. ASSUME NEW k \in 1 .. 10 PROVE DigitChars[k] \in D BY DEF DigitChars
  <2>2. ASSUME NEW d \in D PROVE \E k \in 1 .. 10 : DigitChars[k] = d
    <3>1. /\ DigitChars[1] = "0" /\ DigitChars[2] = "1" /\ DigitChars[3] = "2"
          /\ DigitChars[4] = "3" /\ DigitChars[5] = "4" /\ DigitChars[6] = "5"
          /\ DigitChars[7] = "6" /\ DigitChars[8] = "7" /\ DigitChars[9] = "8"
          /\ DigitChars[10] = "9"
      BY DEF DigitChars
    <3>2. \A k \in {1, 2, 3, 4, 5, 6, 7, 8, 9, 10} : k \in 1 .. 10 OBVIOUS
    <3>3. \E k \in {1, 2, 3, 4, 5, 6, 7, 8, 9, 10} : DigitChars[k] = d BY <3>1
    <3> QED BY <3>2, <3>3
  <2> QED BY <2>1, <2>2 DEF Numerals
<1>2. LengthChar(x) => x \in FieldChars /\ x \notin FlagChars /\ x # "*" /\ x # "."
  BY DEF LengthChar, FieldChars, FlagChars
<1>3. LengthChar(x) => x \notin Numerals BY <1>1 DEF LengthChar
<1>4. /\ "." \in FieldChars /\ "." \notin FlagChars /\ "." # "*"
      /\ "*" \in FieldChars /\ "*" \notin FlagChars
      /\ "NUL" \in FieldChars /\ "NUL" \notin FlagChars /\ "NUL" # "." /\ "NUL" # "*"
      /\ ~LengthChar("NUL")
  BY DEF FieldChars, FlagChars, LengthChar
<1>5. "." \notin Numerals /\ "NUL" \notin Numerals BY <1>1
<1>6. FlagChars \subseteq FieldChars /\ Numerals \subseteq FieldChars BY DEF FieldChars
<1>7. x \in Numerals /\ x # "0" => x \notin FlagChars BY <1>1 DEF FlagChars
<1> QED BY <1>2, <1>3, <1>4, <1>5, <1>6, <1>7

(* The arguments of the stars, where the parser takes them.                *)
LEMMA StarArgs ==
  ASSUME InputInv, NEW k \in 0 .. Last - 1, NEW c, c = Conversions[k + 1],
         NEW v, v = FirstArg(k)
  PROVE  /\ v \in Nat /\ Len(c.stars) = StarsIn(c.width) + StarsIn(AfterPoint(c))
         /\ c.width = <<"*">> => args[v + 1] = c.stars[1] /\ c.stars[1] \in Int
         /\ AfterPoint(c) = <<"*">> =>
              /\ args[v + StarsIn(c.width) + 1] = c.stars[Len(c.stars)]
              /\ c.stars[Len(c.stars)] \in Int
<1>1. k + 1 \in 1 .. Last /\ k \in 0 .. Last BY HeadVisible
<1>2. k \in Int /\ (k + 1) - 1 = k BY <1>1
<1>3. WellWritten(c) BY <1>1, Layout
<1>4. /\ v \in Nat /\ Len(c.stars) \in Nat
      /\ \A i \in 1 .. Len(c.stars) : args[v + i] = c.stars[i]
  BY <1>1, <1>2, ArgLayout
<1>5. /\ c.stars \in Seq(1 - Uint .. Uint - 1)
      /\ Len(c.stars) = StarsIn(c.width) + StarsIn(AfterPoint(c))
  BY <1>3 DEF WellWritten
<1>6. \A i \in 1 .. Len(c.stars) : c.stars[i] \in Int
  <2> DEFINE A == 1 - Uint .. Uint - 1
  <2>1. Uint \in Int BY TypesAssumption
  <2>2. \A a \in A : a \in Int BY <2>1
  <2> HIDE DEF A
  <2>3. c.stars \in Seq(A) BY <1>5 DEF A
  <2> QED BY <2>2, <2>3, ElementOfSeq
<1>7. StarsIn(c.width) \in Nat /\ StarsIn(AfterPoint(c)) \in Nat BY DEF StarsIn
<1>8. ASSUME c.width = <<"*">>
      PROVE  args[v + 1] = c.stars[1] /\ c.stars[1] \in Int
  <2>1. StarsIn(c.width) = 1 BY <1>8 DEF StarsIn
  <2>2. 1 \in 1 .. Len(c.stars) BY <1>4, <1>5, <1>7, <2>1
  <2> QED BY <1>4, <1>6, <2>2
<1>9. ASSUME AfterPoint(c) = <<"*">>
      PROVE  /\ args[v + StarsIn(c.width) + 1] = c.stars[Len(c.stars)]
             /\ c.stars[Len(c.stars)] \in Int
  <2>1. StarsIn(AfterPoint(c)) = 1 BY <1>9 DEF StarsIn
  <2>2. PICK l, a : l = Len(c.stars) /\ a = StarsIn(c.width) OBVIOUS
  <2>3. l = a + 1 /\ a \in Nat BY <1>5, <1>7, <2>1, <2>2
  <2>4. l \in 1 .. l /\ v + l = v + a + 1 BY <1>4, <2>3
  <2>5. args[v + l] = c.stars[l] /\ c.stars[l] \in Int BY <1>4, <1>6, <2>2, <2>4
  <2> QED BY <2>2, <2>4, <2>5
<1> QED BY <1>4, <1>5, <1>8, <1>9

(* The flags end where the width begins.                                   *)
LEMMA BehindFlags ==
  ASSUME InputInv, NEW k \in 0 .. Last - 1, NEW c, c = Conversions[k + 1], c.conv # "other",
         NEW p, p = Start(k), p + FlagsEnd(c) + 1 < End
  PROVE  Char(p + FlagsEnd(c) + 1) \notin FlagChars
<1>1. WellWritten(c) BY FieldsWhere
<1>0. PICK x : x = Char(p + FlagsEnd(c) + 1) OBVIOUS
<1>2. IF c.width = <<>> THEN x = c.conv \/ LengthChar(x) \/ x = "." ELSE x = c.width[1]
  BY <1>0, Follows
<1>3. c.conv \notin FlagChars BY <1>1, Separate DEF WellWritten
<1>4. ASSUME c.width = <<>> PROVE x \notin FlagChars
  BY <1>2, <1>3, <1>4, Separate
<1>5. ASSUME c.width # <<>> PROVE x \notin FlagChars
  <2>1. x = c.width[1] /\ c.width[1] # "0" /\ IsNumber(c.width) BY <1>1, <1>2, <1>5 DEF WellWritten
  <2>2. CASE c.width = <<"*">>
    <3>1. x = "*" BY <2>1, <2>2
    <3> QED BY <3>1, Separate
  <2>3. CASE c.width # <<"*">>
    <3>1. c.width \in Seq(Numerals) BY <2>1, <2>3 DEF IsNumber
    <3>2. PICK s : s = c.width OBVIOUS
    <3>3. s \in Seq(Numerals) /\ s # <<>> BY <1>5, <3>1, <3>2
    <3>4. Len(s) \in Nat /\ Len(s) # 0 BY <3>3, LenProperties, EmptySeq
    <3>5. 1 \in 1 .. Len(s) BY <3>4
    <3>6. s[1] \in Numerals BY <3>3, <3>5, ElementOfSeq
    <3> QED BY <2>1, <3>2, <3>6, Separate
  <2> QED BY <2>2, <2>3
<1> QED BY <1>0, <1>4, <1>5

(* The parser over a flag.                                                 *)
LEMMA FlagParses == ASSUME ParseInv, Flag PROVE ParseInv'
<1>1. at = "flags" /\ pc = "item" /\ format = <<>> /\ Char(pos) \in FlagChars
  BY DEF Flag, Parses
<1>2. PICK k : k = parsed OBVIOUS
<1>3. PICK c, p, v : c = Conversions[k + 1] /\ p = Start(k) /\ v = FirstArg(k) OBVIOUS
<1>4. ~AtCut /\ ~BetweenItems /\ ~BehindCut
  <2>1. Char(End) = "NUL" BY Layout DEF ParseInv
  <2>2. pos # End BY <1>1, <2>1, Separate
  <2> QED BY <1>1, <2>2 DEF AtCut, BetweenItems, BehindCut
<1>5. InputInv /\ k \in 0 .. Last /\ k < Last /\ pos < End /\ c.conv # "other" /\ InFlags(c, p, v)
  BY <1>1, <1>2, <1>3, <1>4 DEF ParseInv, InConversion, InFields
<1>6. k \in 0 .. Last - 1
  <2>1. Last \in Nat BY <1>5, Layout
  <2> QED BY <1>5, <2>1
<1>7. PICK i \in 0 .. Len(c.flags) : pos = p + 1 + i + 1 /\ opts = FlagsUpTo(c, i)
  BY <1>5 DEF InFlags
<1>8. /\ p \in Nat /\ End \in Nat /\ Len(c.flags) \in Nat /\ Len(c.width) \in Nat
      /\ Len(c.precision) \in Nat /\ Len(c.length) \in Nat
      /\ \A j \in 1 .. Len(c.flags) : p + 1 + j < End => Char(p + 1 + j) = c.flags[j]
  BY <1>3, <1>5, <1>6, HeadVisible, Layout, FieldsWhere
<1>9. FlagsEnd(c) = 1 + Len(c.flags) /\ FlagsEnd(c) <= LengthEnd(c) /\ LengthEnd(c) \in Nat
  BY <1>8, FieldEnds
<1>10a. PICK f, fe : f = Len(c.flags) /\ fe = FlagsEnd(c) OBVIOUS
<1>10b. f \in Nat /\ fe = 1 + f /\ fe \in Nat /\ i \in 0 .. f BY <1>7, <1>8, <1>9, <1>10a
<1>10. i # f
  <2>1. ASSUME i = f PROVE FALSE
    <3>1. pos = p + fe + 1 BY <1>7, <1>8, <1>10b, <2>1
    <3> QED BY <1>1, <1>3, <1>5, <1>6, <1>10a, <3>1, BehindFlags
  <2> QED BY <2>1
<1>11. PICK j : j = i + 1 OBVIOUS
<1>12. j \in 1 .. f /\ j \in 0 .. f /\ j - 1 = i /\ p + 1 + j = pos /\ j + 1 <= fe
  BY <1>7, <1>8, <1>10, <1>10b, <1>11
<1>13. Char(pos) = c.flags[j] BY <1>5, <1>8, <1>10a, <1>12
<1>14. FlagsUpTo(c, i) \cup {FlagOf(c.flags[j])} = FlagsUpTo(c, j)
  <2>1. \A h : h \in 1 .. j <=> h \in 1 .. i \/ h = j BY <1>10b, <1>11
  <2> QED BY <2>1 DEF FlagsUpTo
<1>15. /\ UNCHANGED input /\ pos' = pos + 1 /\ va' = va /\ at' = "flags"
       /\ opts' = opts \cup {FlagOf(Char(pos))} /\ parsed' = k /\ pc' = pc /\ format' = format
  BY <1>1, <1>2 DEF Flag, vars
<1>16. HandedOver' BY <1>1, <1>15 DEF HandedOver
<1>17. CASE pos' < End
  <2>1. opts' = FlagsUpTo(c, j) BY <1>7, <1>13, <1>14, <1>15
  <2>2. va' = v + 1 BY <1>5, <1>15 DEF InFlags
  <2>3. pos' = p + 1 + j + 1 BY <1>7, <1>8, <1>10b, <1>12, <1>15
  <2>4. InFields(c, p, v)' BY <1>10a, <1>12, <1>15, <2>1, <2>2, <2>3 DEF InFields, InFlags
  <2> QED BY <1>3, <1>5, <1>15, <1>16, <1>17, <2>4, ParsedOn
<1>18. CASE ~(pos' < End)
  <2>1. pos' = End /\ End <= p + LengthEnd(c) + 1
    <3>1. pos \in Int BY <1>7, <1>8, <1>10b
    <3>2. pos' = End BY <1>5, <1>8, <1>15, <1>18, <3>1
    <3>3. pos' = p + 1 + j + 1 BY <1>7, <1>8, <1>10b, <1>12, <1>15
    <3>4. PICK le : le = LengthEnd(c) OBVIOUS
    <3>5. le \in Nat /\ fe <= le BY <1>9, <1>10a, <3>4
    <3>6. End <= p + le + 1 BY <1>8, <1>10b, <1>12, <3>2, <3>3, <3>5
    <3> QED BY <3>2, <3>4, <3>6
  <2>2. given.missing > 0 BY <1>3, <1>5, <1>6, <2>1, CutHere
  <2> QED BY <1>3, <1>5, <1>15, <1>16, <2>1, <2>2, ParsedOn
<1> QED BY <1>17, <1>18

(* The parser over the width.                                              *)
LEMMA WidthParses == ASSUME ParseInv, WidthField PROVE ParseInv'
<1>1. at = "flags" /\ pc = "item" /\ format = <<>> /\ Char(pos) \notin FlagChars
  BY DEF WidthField, Parses
<1>2. PICK k : k = parsed OBVIOUS
<1>3. PICK c, p, v : c = Conversions[k + 1] /\ p = Start(k) /\ v = FirstArg(k) OBVIOUS
<1>4. PICK n : n = NumberAt(pos) OBVIOUS
<1>5. /\ UNCHANGED input /\ pos' = n.next /\ va' = va + n.stars
      /\ width' = IF n.value < 0 THEN -n.value ELSE n.value
      /\ opts' = IF n.value < 0 THEN opts \cup {"LEFT"} ELSE opts
      /\ at' = "precision" /\ parsed' = k /\ pc' = pc /\ format' = format
  BY <1>2, <1>4 DEF WidthField, Goes, vars
<1>6. HandedOver' BY <1>1, <1>5 DEF HandedOver
<1>7. /\ InputInv /\ k \in 0 .. Last /\ Last \in Nat /\ End \in Nat \ {0} /\ Char(End) = "NUL"
  BY <1>2, Layout DEF ParseInv
<1>8. CASE AtCut
  <2>1. k < Last /\ given.missing > 0 /\ pos = End BY <1>2, <1>8 DEF AtCut
  <2>2. ~IsDigit("NUL") /\ "NUL" # "*" BY Separate, NumeralFacts
  <2>3. n.next = pos BY <1>4, <1>7, <2>1, <2>2 DEF NumberAt
  <2> QED BY <1>3, <1>5, <1>6, <1>7, <2>1, <2>3, ParsedOn
<1>9. CASE ~AtCut
  <2>1. k < Last /\ pos < End /\ c.conv # "other" /\ InFlags(c, p, v)
    BY <1>1, <1>2, <1>3, <1>9
    DEF ParseInv, BetweenItems, BehindCut, InConversion, InFields
  <2>2. k \in 0 .. Last - 1 BY <1>7, <2>1
  <2>3. PICK i \in 0 .. Len(c.flags) : pos = p + 1 + i + 1 /\ opts = FlagsUpTo(c, i)
    BY <2>1 DEF InFlags
  <2>4. /\ p \in Nat /\ Len(c.flags) \in Nat /\ Len(c.width) \in Nat
        /\ Len(c.precision) \in Nat /\ Len(c.length) \in Nat /\ WellWritten(c)
        /\ \A j \in 1 .. Len(c.flags) : p + 1 + j < End => Char(p + 1 + j) = c.flags[j]
        /\ \A j \in 1 .. Len(c.width) :
             p + FlagsEnd(c) + j < End => Char(p + FlagsEnd(c) + j) = c.width[j]
    BY <1>3, <1>7, <2>1, <2>2, HeadVisible, FieldsWhere
  <2>5. PICK f, w, fe, we, le : /\ f = Len(c.flags) /\ w = Len(c.width) /\ fe = FlagsEnd(c)
                                /\ we = WidthEnd(c) /\ le = LengthEnd(c)
    OBVIOUS
  <2>5a. /\ fe = 1 + f /\ fe \in Nat /\ le \in Nat /\ we = fe + w /\ we \in Nat /\ we <= le
         /\ f \in Nat /\ w \in Nat
    BY <2>4, <2>5, FieldEnds
  <2>5b. i \in 0 .. f /\ p \in Nat /\ pos = p + 1 + i + 1 BY <2>3, <2>4, <2>5
  <2>6. i = f
    <3>1. ASSUME i # f PROVE FALSE
      <4>1. PICK j : j = i + 1 OBVIOUS
      <4>2. j \in 1 .. f /\ p + 1 + j = pos BY <2>5a, <2>5b, <3>1, <4>1
      <4>3. Char(pos) = c.flags[j] BY <2>1, <2>4, <2>5, <4>2
      <4>4. c.flags \in Seq(FlagChars) BY <2>4 DEF WellWritten
      <4> QED BY <1>1, <2>5, <4>2, <4>3, <4>4, ElementOfSeq
    <3> QED BY <3>1
  <2>7. pos = p + fe + 1 /\ pos \in Nat \ {0} BY <2>5a, <2>5b, <2>6
  <2>8. PICK chars, star : chars = c.width /\ star = c.stars[1] OBVIOUS
  <2>9. IsNumber(chars) BY <2>4, <2>8 DEF WellWritten
  <2>10. Len(chars) = w BY <2>5, <2>8
  <2>11. ASSUME NEW j \in 1 .. Len(chars), pos + j - 1 < End PROVE Char(pos + j - 1) = chars[j]
    <3>1. pos + j - 1 = p + fe + j BY <2>4, <2>5a, <2>7, <2>10
    <3> QED BY <2>4, <2>5, <2>8, <2>11, <3>1
  <2>12. pos + w = p + we + 1 BY <2>4, <2>5a, <2>7
  <2>13. ASSUME pos + w < End PROVE Char(pos + w) \notin Numerals \cup {"*"}
    <3>0. PICK x : x = Char(p + WidthEnd(c) + 1) OBVIOUS
    <3>1. IF c.precision = <<>> THEN x = c.conv \/ LengthChar(x) ELSE x = "."
      BY <1>3, <1>7, <2>1, <2>2, <2>5, <2>12, <2>13, <3>0, Follows
    <3>2. x = Char(pos + w) BY <2>5, <2>12, <3>0
    <3>3. c.conv \notin FieldChars BY <2>4 DEF WellWritten
    <3>4. x \notin Numerals /\ x # "*" BY <3>1, <3>3, Separate
    <3> QED BY <3>2, <3>4
  <2>14. va = v + 1 BY <2>1 DEF InFlags
  <2>15. chars = <<"*">> => args[va] = star /\ star \in Int
    <3>1. c.width = <<"*">> => args[v + 1] = c.stars[1] /\ c.stars[1] \in Int
      <4>1. InputInv /\ c = Conversions[k + 1] /\ v = FirstArg(k) BY <1>3, <1>7
      <4> QED BY <2>2, <4>1, StarArgs
    <3> QED BY <2>8, <2>14, <3>1
  <2>16. /\ pos + w <= End =>
              n = [next |-> pos + w, value |-> Means(chars, star), stars |-> StarsIn(chars)]
         /\ pos + w > End => n.next = End
    <3>1. pos <= End BY <1>7, <2>1, <2>7
    <3>2. \A j \in 1 .. Len(chars) : pos + j - 1 < End => Char(pos + j - 1) = chars[j]
      BY <2>11
    <3> QED BY <1>4, <1>7, <2>7, <2>9, <2>10, <2>13, <2>15, <3>1, <3>2, NumberIs
  <2>17. CASE pos + w < End
    <3>1. n = [next |-> pos + w, value |-> Means(chars, star), stars |-> StarsIn(chars)]
      BY <1>7, <2>5a, <2>7, <2>16, <2>17
    <3>2. c.meant[1] = Means(chars, star)
      BY <2>4, <2>8 DEF WellWritten
    <3>3. n.value = c.meant[1] /\ n.next = p + WidthEnd(c) + 1 /\ n.stars = StarsIn(c.width)
      BY <2>5, <2>8, <2>12, <3>1, <3>2
    <3>4. opts = FlagsUpTo(c, Len(c.flags)) BY <2>3, <2>5, <2>6
    <3>5. width' = WidthMeant(c) BY <1>5, <3>3 DEF WidthMeant
    <3>6. opts' = WidthFlags(c) BY <1>5, <3>3, <3>4 DEF WidthFlags
    <3>7. StarsIn(c.width) \in Nat BY DEF StarsIn
    <3>8. v \in Nat BY <1>3, <1>7, <2>2, StarArgs
    <3>9. va' = v + StarsIn(c.width) + 1 BY <1>5, <2>14, <3>3, <3>7, <3>8
    <3>10. InFields(c, p, v)' BY <1>5, <3>3, <3>5, <3>6, <3>9 DEF InFields, BehindWidth
    <3>11. pos' < End BY <1>5, <2>17, <3>1
    <3> QED BY <1>3, <1>5, <1>6, <1>7, <2>1, <3>10, <3>11, ParsedOn
  <2>18. CASE ~(pos + w < End)
    <3>1. n.next = End
      <4>1. CASE pos + w = End BY <1>7, <2>16, <4>1
      <4>2. CASE pos + w # End BY <1>7, <2>5a, <2>7, <2>16, <2>18, <4>2
      <4> QED BY <4>1, <4>2
    <3>2. End <= p + le + 1 BY <1>7, <2>4, <2>5a, <2>12, <2>18
    <3>3. given.missing > 0 BY <1>3, <1>7, <2>1, <2>2, <2>5, <3>2, CutHere
    <3> QED BY <1>3, <1>5, <1>6, <1>7, <2>1, <3>1, <3>3, ParsedOn
  <2> QED BY <2>17, <2>18
<1> QED BY <1>8, <1>9

(* No number at all is 0.                                                  *)
LEMMA EmptyNumber ==
  ASSUME NEW star
  PROVE  Means(<<>>, star) = 0 /\ StarsIn(<<>>) = 0
<1>1. <<>> # <<"*">> OBVIOUS
<1>2. PICK s : s = <<>> OBVIOUS
<1>3. s \in Seq(Numerals) /\ Len(s) = 0 BY <1>2
<1>4. PICK f : Sums(s, Len(s), f) /\ Decimal(s) = f[Len(s)] BY <1>3, DecimalIs
<1>5. Decimal(s) = 0 BY <1>3, <1>4 DEF Sums
<1>6. Uint \in Nat \ {0} BY TypesAssumption
<1>7. 0 % Uint = 0 BY <1>6
<1>8. Means(s, star) = Decimal(s) % Uint BY <1>1, <1>2 DEF Means
<1>9. Means(s, star) = 0 BY <1>5, <1>7, <1>8
<1> QED BY <1>1, <1>2, <1>9 DEF StarsIn

(* A precision is a point and its number.                                  *)
LEMMA PointThenNumber ==
  ASSUME NEW c, WellWritten(c), c.precision # <<>>
  PROVE  LET q == AfterPoint(c)
         IN  /\ IsNumber(q) /\ Len(q) \in Nat /\ Len(c.precision) = Len(q) + 1
             /\ \A i \in 1 .. Len(q) : c.precision[i + 1] = q[i]
<1>1. PICK q : q = AfterPoint(c) OBVIOUS
<1>2. IsNumber(q) /\ c.precision = <<".">> \o q BY <1>1 DEF WellWritten
<1>3. PICK T : T = FieldChars \cup {"*"} OBVIOUS
<1>4. <<".">> \in Seq(T) /\ q \in Seq(T)
  <2>1. "." \in T /\ "*" \in T /\ Numerals \subseteq T BY <1>3 DEF FieldChars
  <2>2. Seq(Numerals) \subseteq Seq(T) BY <2>1
  <2>3. CASE q = <<"*">> BY <2>1, <2>3
  <2>4. CASE q # <<"*">> BY <1>2, <2>1, <2>2, <2>4 DEF IsNumber
  <2> QED BY <2>3, <2>4
<1>5. PICK d : d = <<".">> OBVIOUS
<1>6. d \in Seq(T) /\ Len(d) = 1 BY <1>4, <1>5
<1>7. PICK dq : dq = d \o q OBVIOUS
<1>8. /\ Len(dq) = Len(d) + Len(q) /\ Len(q) \in Nat
      /\ \A i \in 1 .. Len(q) : dq[Len(d) + i] = q[i]
  <2>1. /\ Len(d \o q) = Len(d) + Len(q) /\ Len(q) \in Nat
        /\ \A i \in 1 .. Len(q) : (d \o q)[Len(d) + i] = q[i]
    <3>1. d \in Seq(T) /\ q \in Seq(T) BY <1>4, <1>6
    <3>2. Len(d \o q) = Len(d) + Len(q) /\ Len(q) \in Nat BY <3>1, ConcatAt
    <3>3. \A i \in 1 .. Len(q) : (d \o q)[Len(d) + i] = q[i] BY <3>1, ConcatAt
    <3> QED BY <3>2, <3>3
  <2> QED BY <1>7, <2>1
<1>9. c.precision = dq BY <1>2, <1>5, <1>7
<1>10. Len(dq) = Len(q) + 1 /\ \A i \in 1 .. Len(q) : dq[i + 1] = q[i]
  <2>1. Len(dq) = Len(q) + 1 BY <1>6, <1>8
  <2>2. ASSUME NEW i \in 1 .. Len(q) PROVE dq[i + 1] = q[i]
    <3>1. Len(d) + i = i + 1 BY <1>6, <1>8
    <3>2. dq[Len(d) + i] = q[i] BY <1>8
    <3> QED BY <3>1, <3>2
  <2> QED BY <2>1, <2>2
<1> QED BY <1>1, <1>2, <1>8, <1>9, <1>10

(* The parser over the precision.                                          *)
LEMMA PrecisionParses == ASSUME ParseInv, PrecisionField PROVE ParseInv'
<1>1. at = "precision" /\ pc = "item" /\ format = <<>> BY DEF PrecisionField, Parses
<1>2. PICK k : k = parsed OBVIOUS
<1>3. PICK c, p, v : c = Conversions[k + 1] /\ p = Start(k) /\ v = FirstArg(k) OBVIOUS
<1>4. PICK n : n = NumberAt(pos + 1) OBVIOUS
<1>5. /\ UNCHANGED input /\ width' = width
      /\ at' = "length" /\ parsed' = k /\ pc' = pc /\ format' = format
  BY <1>2 DEF PrecisionField, Goes, vars
<1>6. HandedOver' BY <1>1, <1>5 DEF HandedOver
<1>7. /\ InputInv /\ k \in 0 .. Last /\ Last \in Nat /\ End \in Nat \ {0} /\ Char(End) = "NUL"
  BY <1>2, Layout DEF ParseInv
<1>8. CASE AtCut
  <2>1. k < Last /\ given.missing > 0 /\ pos = End BY <1>2, <1>8 DEF AtCut
  <2>2. Char(pos) # "." BY <1>7, <2>1, Separate
  <2>3. pos' = pos BY <2>2 DEF PrecisionField, NoPrecision
  <2> QED BY <1>3, <1>5, <1>6, <1>7, <2>1, <2>3, ParsedOn
<1>9. CASE ~AtCut
  <2>1. k < Last /\ pos < End /\ c.conv # "other" /\ BehindWidth(c, p, v)
    BY <1>1, <1>2, <1>3, <1>9
    DEF ParseInv, BetweenItems, BehindCut, InConversion, InFields
  <2>2. k \in 0 .. Last - 1 BY <1>7, <2>1
  <2>3. PICK a, we, pe, le : /\ a = StarsIn(c.width) /\ we = WidthEnd(c)
                             /\ pe = PrecisionEnd(c) /\ le = LengthEnd(c)
    OBVIOUS
  <2>4. /\ va = v + a + 1 /\ pos = p + we + 1 /\ opts = WidthFlags(c) /\ width = WidthMeant(c)
    BY <2>1, <2>3 DEF BehindWidth
  <2>5. /\ p \in Nat /\ Len(c.flags) \in Nat /\ Len(c.width) \in Nat
        /\ Len(c.precision) \in Nat /\ Len(c.length) \in Nat /\ WellWritten(c)
        /\ \A j \in 1 .. Len(c.precision) :
             p + WidthEnd(c) + j < End => Char(p + WidthEnd(c) + j) = c.precision[j]
    BY <1>3, <1>7, <2>1, <2>2, HeadVisible, FieldsWhere
  <2>6. /\ we \in Nat /\ pe = we + Len(c.precision) /\ le \in Nat /\ pe <= le /\ pe \in Nat
    BY <2>3, <2>5, FieldEnds
  <2>7. a \in Nat /\ v \in Nat /\ Len(c.stars) = a + StarsIn(AfterPoint(c))
    <3>1. a \in Nat BY <2>3 DEF StarsIn
    <3> QED BY <1>3, <1>7, <2>2, <2>3, <3>1, StarArgs
  <2>8. c.meant[2] = Greater(0, Means(AfterPoint(c), c.stars[Len(c.stars)]))
    BY <2>5 DEF WellWritten
  <2>9. c.conv \notin FieldChars BY <2>5 DEF WellWritten
  <2>10. PICK x : x = Char(pos) OBVIOUS
  <2>11. IF c.precision = <<>> THEN x = c.conv \/ LengthChar(x) ELSE x = "."
    BY <1>3, <1>7, <2>1, <2>2, <2>3, <2>4, <2>10, Follows
  <2>12. CASE c.precision = <<>>
    <3>1. x # "." BY <2>9, <2>11, <2>12, Separate
    <3>2. precision' = 0 /\ pos' = pos /\ va' = va /\ opts' = opts
      BY <2>10, <3>1 DEF PrecisionField, NoPrecision
    <3>3. AfterPoint(c) = <<>> BY <2>12 DEF AfterPoint
    <3>4. c.meant[2] = 0 BY <2>8, <3>3, EmptyNumber DEF Greater
    <3>5. Len(c.stars) = a BY <2>7, <3>3, EmptyNumber
    <3>6. pe = we
      <4>1. Len(c.precision) = 0 BY <2>12
      <4> QED BY <2>6, <4>1
    <3>7. MeantFlags(c) = WidthFlags(c)
      BY <2>12 DEF MeantFlags, WidthFlags, FlagsUpTo
    <3>8. InFields(c, p, v)'
      BY <1>5, <2>3, <2>4, <3>2, <3>4, <3>5, <3>6, <3>7 DEF InFields, BehindPrecision
    <3> QED BY <1>3, <1>5, <1>6, <1>7, <2>1, <3>2, <3>8, ParsedOn
  <2>13. CASE c.precision # <<>>
    <3>1. Char(pos) = "." BY <2>10, <2>11, <2>13
    <3>2. /\ pos' = n.next /\ va' = va + n.stars
          /\ precision' = IF n.value > 0 THEN n.value ELSE 0
          /\ opts' = opts \cup {"PRECISION"}
      BY <1>4, <3>1 DEF PrecisionField, NoPrecision
    <3>3. PICK q, star, w, l : /\ q = AfterPoint(c) /\ star = c.stars[Len(c.stars)]
                               /\ w = Len(q) /\ l = pos + 1
      OBVIOUS
    <3>4. /\ IsNumber(q) /\ w \in Nat /\ Len(c.precision) = w + 1
          /\ \A i \in 1 .. w : c.precision[i + 1] = q[i]
      BY <2>5, <2>13, <3>3, PointThenNumber
    <3>5. pe = we + w + 1 /\ l = p + we + 2 /\ l \in Nat \ {0} /\ l <= End /\ pos \in Nat
      BY <1>7, <2>1, <2>4, <2>5, <2>6, <3>3, <3>4
    <3>6. l + w = p + pe + 1
      <4>1. p \in Nat /\ we \in Nat /\ w \in Nat BY <2>5, <2>6, <3>4
      <4>2. pe = we + w + 1 /\ l = p + we + 2 BY <3>5
      <4> QED BY <4>1, <4>2
    <3>7. ASSUME NEW i \in 1 .. Len(q), l + i - 1 < End PROVE Char(l + i - 1) = q[i]
      <4>0. i \in 1 .. w /\ w \in Nat /\ we \in Nat BY <2>5, <2>6, <3>3, <3>4
      <4>1. l + i - 1 = p + we + (i + 1) /\ i + 1 \in 1 .. Len(c.precision)
        <5>1. p \in Nat BY <2>5
        <5>2. i + 1 \in 1 .. w + 1 BY <4>0
        <5>3. l + i - 1 = p + we + (i + 1) BY <3>5, <4>0, <5>1
        <5> QED BY <3>4, <5>2, <5>3
      <4>2. Char(p + we + (i + 1)) = c.precision[i + 1] BY <2>3, <2>5, <3>7, <4>1
      <4> QED BY <3>3, <3>4, <4>1, <4>2
    <3>8. ASSUME l + w < End PROVE Char(l + w) \notin Numerals \cup {"*"}
      <4>1. PICK y : y = Char(p + pe + 1) OBVIOUS
      <4>2. IF c.length = <<>> THEN y = c.conv ELSE y = c.length[1] /\ LengthChar(y)
        BY <1>3, <1>7, <2>1, <2>2, <2>3, <3>6, <3>8, <4>1, Follows
      <4>3. y \notin Numerals /\ y # "*" BY <2>9, <4>2, Separate
      <4> QED BY <3>6, <4>1, <4>3
    <3>9. q = <<"*">> => args[va] = star /\ star \in Int
      <4>1. InputInv /\ c = Conversions[k + 1] /\ v = FirstArg(k) BY <1>3, <1>7
      <4>2. AfterPoint(c) = <<"*">> =>
              /\ args[v + StarsIn(c.width) + 1] = c.stars[Len(c.stars)]
              /\ c.stars[Len(c.stars)] \in Int
        BY <2>2, <4>1, StarArgs
      <4>3. va = v + StarsIn(c.width) + 1 BY <2>3, <2>4
      <4> QED BY <3>3, <4>2, <4>3
    <3>10. /\ l + w <= End =>
                n = [next |-> l + w, value |-> Means(q, star), stars |-> StarsIn(q)]
           /\ l + w > End => n.next = End
      <4>1. \A i \in 1 .. Len(q) : l + i - 1 < End => Char(l + i - 1) = q[i] BY <3>7
      <4>2. l + Len(q) < End => Char(l + Len(q)) \notin Numerals \cup {"*"} BY <3>3, <3>8
      <4>3. q = <<"*">> => args[va] = star BY <3>9
      <4>4. InputInv /\ IsNumber(q) /\ l \in Nat \ {0} /\ l <= End BY <1>7, <3>4, <3>5
      <4>5. /\ l + Len(q) <= End =>
                 NumberAt(l) = [next |-> l + Len(q), value |-> Means(q, star),
                                stars |-> StarsIn(q)]
            /\ l + Len(q) > End => NumberAt(l).next = End
        BY <4>1, <4>2, <4>3, <4>4, NumberIs
      <4>6. n = NumberAt(l) /\ w = Len(q) BY <1>4, <3>3
      <4> QED BY <4>5, <4>6
    <3>11. CASE l + w < End
      <4>1. n = [next |-> l + w, value |-> Means(q, star), stars |-> StarsIn(q)]
        BY <1>7, <3>4, <3>5, <3>10, <3>11
      <4>2. Means(q, star) \in Int BY <3>4, <3>9, MeansTyped
      <4>3. precision' = c.meant[2]
        <5>1. PICK m : m = Means(q, star) OBVIOUS
        <5>2. n.value = m /\ m \in Int /\ c.meant[2] = Greater(0, m)
          BY <2>8, <3>3, <4>1, <4>2, <5>1
        <5>3. precision' = IF m > 0 THEN m ELSE 0 BY <3>2, <5>2
        <5> QED BY <5>2, <5>3 DEF Greater
      <4>4. va' = v + Len(c.stars) + 1
        <5>1. PICK b : b = StarsIn(q) OBVIOUS
        <5>2. b \in Nat BY <5>1 DEF StarsIn
        <5>3. va' = v + a + 1 + b BY <2>4, <3>2, <4>1, <5>1
        <5>4. v + a + 1 + b = v + (a + b) + 1 BY <2>7, <5>2
        <5> QED BY <2>7, <3>3, <5>1, <5>3, <5>4
      <4>5. pos' = p + pe + 1 BY <3>2, <3>6, <4>1
      <4>6. opts' = MeantFlags(c)
        BY <2>4, <2>13, <3>2 DEF MeantFlags, WidthFlags, FlagsUpTo
      <4>7. InFields(c, p, v)'
        BY <1>5, <2>3, <2>4, <4>3, <4>4, <4>5, <4>6 DEF InFields, BehindPrecision
      <4>8. pos' < End BY <3>6, <3>11, <4>5
      <4> QED BY <1>3, <1>5, <1>6, <1>7, <2>1, <4>7, <4>8, ParsedOn
    <3>12. CASE ~(l + w < End)
      <4>1. n.next = End
        <5>1. CASE l + w = End BY <1>7, <3>10, <5>1
        <5>2. CASE l + w # End BY <1>7, <3>4, <3>5, <3>10, <3>12, <5>2
        <5> QED BY <5>1, <5>2
      <4>2. End <= p + le + 1 BY <1>7, <2>5, <2>6, <3>6, <3>12
      <4>3. given.missing > 0 BY <1>3, <1>7, <2>1, <2>2, <2>3, <4>2, CutHere
      <4> QED BY <1>3, <1>5, <1>6, <1>7, <2>1, <3>2, <4>1, <4>3, ParsedOn
    <3> QED BY <3>11, <3>12
  <2> QED BY <2>12, <2>13
<1> QED BY <1>8, <1>9

-----------------------------------------------------------------------------
(* The length.                                                             *)

(* The length is read as it was written, or up to the end of a cut format. *)
LEMMA LengthIs ==
  ASSUME InputInv, NEW k \in 0 .. Last - 1, NEW c, c = Conversions[k + 1], c.conv # "other",
         NEW p, p = Start(k), pos = p + PrecisionEnd(c) + 1, pos < End
  PROVE  /\ LengthChars \in Nat /\ pos + LengthChars <= End /\ LengthChars <= Len(c.length)
         /\ \/ LengthFlags = LengthMeant(c) /\ LengthChars = Len(c.length)
            \/ pos + LengthChars = End
<1>1. /\ Len(c.flags) \in Nat /\ Len(c.width) \in Nat
      /\ Len(c.precision) \in Nat /\ Len(c.length) \in Nat /\ WellWritten(c)
      /\ \A i \in 1 .. Len(c.length) :
           p + PrecisionEnd(c) + i < End => Char(p + PrecisionEnd(c) + i) = c.length[i]
      /\ p + LengthEnd(c) + 1 < End => Char(p + LengthEnd(c) + 1) = c.conv
      /\ p \in Nat /\ End \in Nat /\ Char(End) = "NUL"
  BY HeadVisible, FieldsWhere, Layout
<1>2. PICK x, y, pe : x = Char(pos) /\ y = Char(pos + 1) /\ pe = PrecisionEnd(c) OBVIOUS
<1>3. pe \in Nat /\ LengthEnd(c) = pe + Len(c.length) BY <1>1, <1>2, FieldEnds
<1>4. pos \in Nat /\ pos = p + pe + 1
  <2>1. pos = p + pe + 1 BY <1>2
  <2>2. p \in Nat /\ pe \in Nat BY <1>1, <1>3
  <2> QED BY <2>1, <2>2
<1>5. c.conv \notin FieldChars /\ c.length \in LengthTexts BY <1>1 DEF WellWritten
<1>6. IF c.length = <<>> THEN x = c.conv ELSE x = c.length[1] BY <1>2, <1>3, Follows
<1>7. c.conv \notin {"l", "h", "t", "j", "z"} BY <1>5 DEF FieldChars
<1>8. pos + 1 = End => y = "NUL" BY <1>1, <1>2
<1>9. CASE c.length = <<>>
  <2>1. x \notin {"l", "h", "t", "j", "z"} BY <1>6, <1>7, <1>9
  <2>2. LengthFlags = {} BY <1>2, <2>1 DEF LengthFlags
  <2>3. LengthChars = 0 BY <1>2, <2>1, <2>2 DEF LengthChars
  <2>4. LengthMeant(c) = {} /\ Len(c.length) = 0 BY <1>9 DEF LengthMeant
  <2> QED BY <1>1, <1>4, <2>2, <2>3, <2>4
<1>10. ASSUME NEW a \in {"t", "j", "z"}, c.length = <<a>>
       PROVE  /\ LengthChars \in Nat /\ pos + LengthChars <= End /\ LengthChars <= Len(c.length)
              /\ LengthFlags = LengthMeant(c) /\ LengthChars = Len(c.length)
  <2>1. x \in {"t", "j", "z"} /\ Len(c.length) = 1 BY <1>6, <1>10
  <2>2. LengthFlags = {"LONG"} BY <1>2, <2>1 DEF LengthFlags
  <2>3. LengthChars = 1 BY <1>2, <2>1, <2>2 DEF LengthChars
  <2>4. LengthMeant(c) = {"LONG"}
    <3>1. c.length # <<>> /\ c.length # <<"l", "l">> /\ c.length # <<"h">> /\ c.length # <<"h", "h">>
      BY <1>10
    <3> QED BY <3>1 DEF LengthMeant
  <2> QED BY <1>1, <1>4, <2>1, <2>2, <2>3, <2>4
<1>11. ASSUME Len(c.length) = 1, pos + 1 < End PROVE y = c.conv
  <2>1. p + LengthEnd(c) + 1 = pos + 1 BY <1>1, <1>3, <1>4, <1>11
  <2> QED BY <1>1, <1>2, <1>11, <2>1
<1>12. ASSUME Len(c.length) = 2, pos + 1 < End PROVE y = c.length[2]
  <2>1. p + pe + 2 = pos + 1 BY <1>1, <1>3, <1>4
  <2> QED BY <1>1, <1>2, <1>12, <2>1
<1>13. pos + 1 < End \/ pos + 1 = End BY <1>1, <1>4
<1>14. CASE c.length = <<"l">>
  <2>1. x = "l" /\ Len(c.length) = 1 BY <1>6, <1>14
  <2>2. y # "l"
    <3>1. CASE pos + 1 < End BY <1>7, <1>11, <2>1, <3>1
    <3>2. CASE pos + 1 = End BY <1>8, <3>2
    <3> QED BY <1>13, <3>1, <3>2
  <2>3. LengthFlags = {"LONG"} BY <1>2, <2>1, <2>2 DEF LengthFlags
  <2>4. LengthChars = 1 BY <1>2, <2>1, <2>2, <2>3 DEF LengthChars
  <2>5. LengthMeant(c) = {"LONG"}
    <3>1. c.length # <<>> /\ c.length # <<"l", "l">> /\ c.length # <<"h">> /\ c.length # <<"h", "h">>
      BY <1>14
    <3> QED BY <3>1 DEF LengthMeant
  <2> QED BY <1>1, <1>4, <2>1, <2>3, <2>4, <2>5
<1>15. CASE c.length = <<"h">>
  <2>1. x = "h" /\ Len(c.length) = 1 BY <1>6, <1>15
  <2>2. y # "h"
    <3>1. CASE pos + 1 < End BY <1>7, <1>11, <2>1, <3>1
    <3>2. CASE pos + 1 = End BY <1>8, <3>2
    <3> QED BY <1>13, <3>1, <3>2
  <2>3. LengthFlags = {"SHORT"} BY <1>2, <2>1, <2>2 DEF LengthFlags
  <2>4. LengthChars = 1 BY <1>2, <2>1, <2>2, <2>3 DEF LengthChars
  <2>5. LengthMeant(c) = {"SHORT"}
    <3>1. c.length # <<>> /\ c.length # <<"l", "l">> BY <1>15
    <3> QED BY <1>15, <3>1 DEF LengthMeant
  <2> QED BY <1>1, <1>4, <2>1, <2>3, <2>4, <2>5
<1>16. CASE c.length = <<"l", "l">>
  <2>1. x = "l" /\ Len(c.length) = 2 /\ c.length[2] = "l" BY <1>6, <1>16
  <2>2. CASE pos + 1 < End
    <3>1. y = "l" BY <1>12, <2>1, <2>2
    <3>2. LengthFlags = {"LONG", "LONG_LONG"} BY <1>2, <2>1, <3>1 DEF LengthFlags
    <3>3. LengthChars = 2 BY <1>2, <2>1, <3>1 DEF LengthChars
    <3>4. LengthMeant(c) = {"LONG", "LONG_LONG"} BY <1>16 DEF LengthMeant
    <3> QED BY <1>1, <1>4, <2>1, <2>2, <3>2, <3>3, <3>4
  <2>3. CASE pos + 1 = End
    <3>1. y = "NUL" BY <1>8, <2>3
    <3>2. LengthFlags = {"LONG"} BY <1>2, <2>1, <3>1 DEF LengthFlags
    <3>3. LengthChars = 1 BY <1>2, <2>1, <3>1, <3>2 DEF LengthChars
    <3> QED BY <1>1, <1>4, <2>1, <2>3, <3>3
  <2> QED BY <1>13, <2>2, <2>3
<1>17. CASE c.length = <<"h", "h">>
  <2>1. x = "h" /\ Len(c.length) = 2 /\ c.length[2] = "h" BY <1>6, <1>17
  <2>2. CASE pos + 1 < End
    <3>1. y = "h" BY <1>12, <2>1, <2>2
    <3>2. LengthFlags = {"SHORT", "CHAR"} BY <1>2, <2>1, <3>1 DEF LengthFlags
    <3>3. LengthChars = 2 BY <1>2, <2>1, <3>1 DEF LengthChars
    <3>4. LengthMeant(c) = {"SHORT", "CHAR"}
      <4>1. c.length # <<>> /\ c.length # <<"l", "l">> /\ c.length # <<"h">> BY <1>17
      <4> QED BY <1>17, <4>1 DEF LengthMeant
    <3> QED BY <1>1, <1>4, <2>1, <2>2, <3>2, <3>3, <3>4
  <2>3. CASE pos + 1 = End
    <3>1. y = "NUL" BY <1>8, <2>3
    <3>2. LengthFlags = {"SHORT"} BY <1>2, <2>1, <3>1 DEF LengthFlags
    <3>3. LengthChars = 1 BY <1>2, <2>1, <3>1, <3>2 DEF LengthChars
    <3> QED BY <1>1, <1>4, <2>1, <2>3, <3>3
  <2> QED BY <1>13, <2>2, <2>3
<1>18. CASE c.length \in {<<"t">>, <<"j">>, <<"z">>}
  <2>1. PICK a \in {"t", "j", "z"} : c.length = <<a>> BY <1>18
  <2> QED BY <1>10, <2>1
<1> QED BY <1>5, <1>9, <1>14, <1>15, <1>16, <1>17, <1>18 DEF LengthTexts

(* The parser over the length.                                             *)
LEMMA LengthParses == ASSUME ParseInv, LengthField PROVE ParseInv'
<1>1. at = "length" /\ pc = "item" /\ format = <<>> BY DEF LengthField, Parses
<1>2. PICK k : k = parsed OBVIOUS
<1>3. PICK c, p, v : c = Conversions[k + 1] /\ p = Start(k) /\ v = FirstArg(k) OBVIOUS
<1>4. PICK n : n = LengthChars OBVIOUS
<1>5. /\ UNCHANGED input /\ width' = width /\ precision' = precision /\ va' = va
      /\ at' = "specifier" /\ parsed' = k /\ pc' = pc /\ format' = format
      /\ opts' = opts \cup LengthFlags /\ pos' = pos + n
  BY <1>2, <1>4 DEF LengthField, Goes, vars
<1>6. HandedOver' BY <1>1, <1>5 DEF HandedOver
<1>7. /\ InputInv /\ k \in 0 .. Last /\ Last \in Nat /\ End \in Nat \ {0} /\ Char(End) = "NUL"
  BY <1>2, Layout DEF ParseInv
<1>8. CASE AtCut
  <2>1. k < Last /\ given.missing > 0 /\ pos = End BY <1>2, <1>8 DEF AtCut
  <2>2. Char(pos) = "NUL" BY <1>7, <2>1
  <2>3. LengthFlags = {} BY <2>2 DEF LengthFlags
  <2>4. n = 0 BY <1>4, <2>2, <2>3 DEF LengthChars
  <2>5. pos' = End BY <1>5, <1>7, <2>1, <2>4
  <2> QED BY <1>3, <1>5, <1>6, <1>7, <2>1, <2>5, ParsedOn
<1>9. CASE ~AtCut
  <2>1. k < Last /\ pos < End /\ c.conv # "other" /\ BehindPrecision(c, p, v)
    BY <1>1, <1>2, <1>3, <1>9
    DEF ParseInv, BetweenItems, BehindCut, InConversion, InFields
  <2>2. k \in 0 .. Last - 1 BY <1>7, <2>1
  <2>3. PICK pe, le, w : pe = PrecisionEnd(c) /\ le = LengthEnd(c) /\ w = Len(c.length)
    OBVIOUS
  <2>4. /\ va = v + Len(c.stars) + 1 /\ pos = p + pe + 1
        /\ opts = MeantFlags(c) /\ width = WidthMeant(c) /\ precision = c.meant[2]
    BY <2>1, <2>3 DEF BehindPrecision
  <2>5. /\ n \in Nat /\ pos + n <= End /\ n <= w
        /\ \/ LengthFlags = LengthMeant(c) /\ n = w
           \/ pos + n = End
    BY <1>3, <1>4, <1>7, <2>1, <2>2, <2>3, <2>4, LengthIs
  <2>6. p \in Nat /\ pe \in Nat /\ w \in Nat /\ le = pe + w
    <3>1. /\ p \in Nat /\ Len(c.flags) \in Nat /\ Len(c.width) \in Nat
          /\ Len(c.precision) \in Nat /\ Len(c.length) \in Nat
      BY <1>3, <1>7, <2>1, <2>2, HeadVisible, FieldsWhere
    <3> QED BY <2>3, <3>1, FieldEnds
  <2>7. CASE pos + n < End
    <3>1. LengthFlags = LengthMeant(c) /\ n = w BY <1>7, <2>5, <2>7, <2>6, <2>4
    <3>2. pos' = p + le + 1 BY <1>5, <2>4, <2>6, <3>1
    <3>3. opts' = MeantFlags(c) \cup LengthMeant(c) BY <1>5, <2>4, <3>1
    <3>4. InFields(c, p, v)' BY <1>5, <2>3, <2>4, <3>2, <3>3 DEF InFields, BehindLength
    <3>5. pos' < End BY <1>5, <2>7
    <3> QED BY <1>3, <1>5, <1>6, <1>7, <2>1, <3>4, <3>5, ParsedOn
  <2>8. CASE ~(pos + n < End)
    <3>1. pos' = End BY <1>5, <1>7, <2>4, <2>5, <2>6, <2>8
    <3>2. End <= p + le + 1 BY <1>5, <2>4, <2>5, <2>6, <3>1
    <3>3. given.missing > 0 BY <1>3, <1>7, <2>1, <2>2, <2>3, <3>2, CutHere
    <3> QED BY <1>3, <1>5, <1>6, <1>7, <2>1, <3>1, <3>3, ParsedOn
  <2> QED BY <2>7, <2>8
<1> QED BY <1>8, <1>9

-----------------------------------------------------------------------------
(* The casts.                                                              *)
LEMMA OneOfEach ==
  ASSUME NEW n \in Nat \ {0}, NEW lo \in Int, NEW v \in Int, NEW a \in Int, NEW b \in Int,
         a \in lo .. lo + n - 1, b \in lo .. lo + n - 1,
         Congruent(a, v, n), Congruent(b, v, n)
  PROVE  a = b
<1> DEFINE x == a - v  y == b - v  q == x \div n  t == y \div n
<1>1. x \in Int /\ y \in Int /\ x % n = 0 /\ y % n = 0 BY DEF Congruent
<1>2. x = n * q + (x % n) /\ q \in Int /\ y = n * t + (y % n) /\ t \in Int
  <2> HIDE DEF x, y
  <2> QED BY <1>1, DivDef
<1> HIDE DEF q, t
<1>3. a - v = n * q /\ b - v = n * t
  <2>1. n * q \in Int /\ n * t \in Int BY <1>2
  <2> QED BY <1>1, <1>2, <2>1
<1> DEFINE r == a - lo  s == b - lo  g == -q  h == -t
<1>4. r \in 0 .. n - 1 /\ s \in 0 .. n - 1 /\ g \in Int /\ h \in Int BY <1>2
<1>5. n * g = -(n * q) /\ n * h = -(n * t) BY <1>2
<1>6. n * q \in Int /\ n * t \in Int BY <1>2
<1>7. n * g + r = n * h + s
  <2>1. n * g + r = v - lo BY <1>3, <1>5, <1>6
  <2>2. n * h + s = v - lo BY <1>3, <1>5, <1>6
  <2> QED BY <2>1, <2>2
<1> HIDE DEF r, s, g, h
<1>8. r = s BY <1>4, <1>7, MulUnique
<1> QED BY <1>8 DEF r, s

(* The two casts yield the number that C defines.                          *)
LEMMA CastIs ==
  ASSUME NEW n \in Nat \ {0}, NEW v \in Int
  PROVE  /\ SignedValue(v, n) =
              CHOOSE w \in -(n \div 2) .. n - 1 - n \div 2 : Congruent(w, v, n)
         /\ v % n = CHOOSE w \in 0 .. n - 1 : Congruent(w, v, n)
<1>1. ASSUME NEW lo \in Int, NEW a \in lo .. lo + n - 1, Congruent(a, v, n)
      PROVE  a = CHOOSE w \in lo .. lo + n - 1 : Congruent(w, v, n)
  <2> DEFINE D == lo .. lo + n - 1
             b == CHOOSE w \in D : Congruent(w, v, n)
  <2>1. b \in D /\ Congruent(b, v, n)
    <3>1. a \in D OBVIOUS
    <3> HIDE DEF D
    <3> QED BY <1>1, <3>1
  <2>2. a \in Int /\ b \in Int BY <2>1
  <2> HIDE DEF b
  <2>3. a = b BY <1>1, <2>1, <2>2, OneOfEach
  <2> QED BY <2>3 DEF b
<1>2. ASSUME NEW lo \in Int
      PROVE  Congruent(((v - lo) % n) + lo, v, n) /\ ((v - lo) % n) + lo \in lo .. lo + n - 1
  <2> DEFINE m == v - lo  q == m \div n  r == m % n
  <2>1. m \in Int OBVIOUS
  <2>2. m = n * q + r /\ r \in 0 .. n - 1 /\ q \in Int
    <3> HIDE DEF m
    <3> QED BY <2>1, DivDef
  <2> HIDE DEF q, r
  <2>3. n * q \in Int /\ n * (-q) = -(n * q) /\ -q \in Int BY <2>2
  <2>4. (r + lo) - v = n * (-q) + 0
    <3>1. v - lo = n * q + r BY <2>2
    <3> QED BY <2>2, <2>3, <3>1
  <2>5. (n * (-q) + 0) % n = 0
    <3>1. 0 \in 0 .. n - 1 OBVIOUS
    <3> QED BY <2>3, <3>1, Divides
  <2>6. Congruent(r + lo, v, n) BY <2>4, <2>5 DEF Congruent
  <2>7. r + lo \in lo .. lo + n - 1 BY <2>2
  <2> QED BY <2>6, <2>7 DEF m, r
<1>3. PICK h, lo : h = n \div 2 /\ lo = -h OBVIOUS
<1>4. h \in Int /\ lo \in Int BY <1>3
<1>5. SignedValue(v, n) = CHOOSE w \in -(n \div 2) .. n - 1 - n \div 2 : Congruent(w, v, n)
  <2>1. PICK a : a = ((v - lo) % n) + lo OBVIOUS
  <2>2. Congruent(a, v, n) /\ a \in lo .. lo + n - 1 BY <1>2, <1>4, <2>1
  <2>3. a = CHOOSE w \in lo .. lo + n - 1 : Congruent(w, v, n) BY <1>1, <1>4, <2>2
  <2>4. lo + n - 1 = n - 1 - h /\ v - lo = v + h BY <1>3, <1>4
  <2>5. (v + h) % n \in 0 .. n - 1 BY <1>4, DivDef
  <2>6. a = ((v + h) % n) - h BY <1>3, <1>4, <2>1, <2>4, <2>5
  <2>7. SignedValue(v, n) = a BY <1>3, <2>6 DEF SignedValue
  <2> QED BY <1>3, <2>3, <2>4, <2>7
<1>6. v % n = CHOOSE w \in 0 .. n - 1 : Congruent(w, v, n)
  <2>1. PICK z, a : z = 0 /\ a = ((v - z) % n) + z OBVIOUS
  <2>2. z \in Int BY <2>1
  <2>3. Congruent(a, v, n) /\ a \in z .. z + n - 1 BY <1>2, <2>1, <2>2
  <2>4. a = CHOOSE w \in z .. z + n - 1 : Congruent(w, v, n) BY <1>1, <2>2, <2>3
  <2>5. z + n - 1 = n - 1 /\ v - z = v /\ v % n \in 0 .. n - 1 BY <2>1, DivDef
  <2>6. a = v % n BY <2>1, <2>5
  <2> QED BY <2>1, <2>4, <2>5, <2>6
<1> QED BY <1>5, <1>6

-----------------------------------------------------------------------------
(* What the specifier makes of the fields.                                 *)

(* The flags of the conversion and those of its length are different.      *)
LEMMA FlagTypes ==
  ASSUME NEW c, WellWritten(c)
  PROVE  /\ MeantFlags(c) \subseteq Flags
         /\ LengthMeant(c) \subseteq {"LONG", "LONG_LONG", "SHORT", "CHAR"}
         /\ (MeantFlags(c) \cup LengthMeant(c)) \cap Flags = MeantFlags(c)
         /\ \A l \in {"LONG", "SHORT", "CHAR"} :
              l \in MeantFlags(c) \cup LengthMeant(c) <=> l \in LengthMeant(c)
<1>1. ASSUME NEW x \in FlagChars PROVE FlagOf(x) \in Flags
  BY DEF FlagChars, FlagOf, Flags
<1>2. \A i \in 1 .. Len(c.flags) : c.flags[i] \in FlagChars
  <2>1. PICK s : s = c.flags OBVIOUS
  <2>2. s \in Seq(FlagChars) BY <2>1 DEF WellWritten
  <2>3. \A i \in 1 .. Len(s) : s[i] \in FlagChars BY <2>2, ElementOfSeq
  <2> QED BY <2>1, <2>3
<1>3. MeantFlags(c) \subseteq Flags
  <2>1. \A i \in 1 .. Len(c.flags) : FlagOf(c.flags[i]) \in Flags BY <1>1, <1>2
  <2>2. "LEFT" \in Flags /\ "PRECISION" \in Flags BY DEF Flags
  <2> QED BY <2>1, <2>2 DEF MeantFlags
<1>4. LengthMeant(c) \subseteq {"LONG", "LONG_LONG", "SHORT", "CHAR"} BY DEF LengthMeant
<1>5. \A l \in {"LONG", "LONG_LONG", "SHORT", "CHAR"} : l \notin Flags BY DEF Flags
<1> QED BY <1>3, <1>4, <1>5

(* The number of n that is congruent to v, by the sign of the conversion.  *)
Cast(conv, v, n) ==
  IF conv \in SignedConversions
    THEN CHOOSE w \in -(n \div 2) .. n - 1 - n \div 2 : Congruent(w, v, n)
    ELSE CHOOSE w \in 0 .. n - 1 : Congruent(w, v, n)

(* The argument, cast by the flags of its length, is the value meant.      *)
LEMMA ValueIs ==
  ASSUME NEW c, WellWritten(c), c.conv \in IntegerConversions,
         opts = MeantFlags(c) \cup LengthMeant(c)
  PROVE  Narrowed(c.value, c.conv) = MeantValue(c)
<1>1. /\ c.value \in Int /\ c.length \in LengthTexts BY DEF WellWritten
<1>2. \A l \in {"LONG", "SHORT", "CHAR"} : l \in opts <=> l \in LengthMeant(c) BY FlagTypes
<1>3. {Uchar, Ushort, Uint} \subseteq Nat \ {0} BY TypesAssumption
<1>4. PICK n : n = TypeWidth OBVIOUS
<1>5. ASSUME "LONG" \notin opts, n \in Nat \ {0},
             n = CASE c.length = <<"h", "h">> -> Uchar [] c.length = <<"h">> -> Ushort
                   [] OTHER -> Uint,
             c.length \in {<<>>, <<"h">>, <<"h", "h">>}
      PROVE  Narrowed(c.value, c.conv) = MeantValue(c)
  <2>1. Narrowed(c.value, c.conv) =
          IF c.conv \in SignedConversions THEN SignedValue(c.value, n) ELSE c.value % n
    BY <1>4, <1>5 DEF Narrowed
  <2>2. MeantValue(c) = Cast(c.conv, c.value, n)
    <3> DEFINE t == CASE c.length = <<"h", "h">> -> Uchar [] c.length = <<"h">> -> Ushort
                      [] OTHER -> Uint
    <3>1. MeantValue(c) =
            IF c.length \notin {<<>>, <<"h">>, <<"h", "h">>} THEN c.value
            ELSE Cast(c.conv, c.value, t)
      BY Zenon DEF MeantValue, Cast
    <3>2. t = n BY <1>5
    <3> HIDE DEF t
    <3> QED BY <1>5, <3>1, <3>2
  <2>3. /\ SignedValue(c.value, n) =
             CHOOSE w \in -(n \div 2) .. n - 1 - n \div 2 : Congruent(w, c.value, n)
        /\ c.value % n = CHOOSE w \in 0 .. n - 1 : Congruent(w, c.value, n)
    BY <1>1, <1>5, CastIs
  <2> QED BY <2>1, <2>2, <2>3, Zenon DEF Cast
<1>6. <<>> # <<"h">> /\ <<>> # <<"h", "h">> /\ <<"h">> # <<"h", "h">>
      /\ <<>> # <<"l", "l">> /\ <<"h">> # <<"l", "l">> /\ <<"h", "h">> # <<"l", "l">>
  OBVIOUS
<1>7. CASE c.length = <<>>
  <2>1. LengthMeant(c) = {} BY <1>7 DEF LengthMeant
  <2>2. "LONG" \notin opts /\ n = Uint BY <1>2, <1>4, <2>1 DEF TypeWidth
  <2> QED BY <1>3, <1>5, <1>6, <1>7, <2>2
<1>8. CASE c.length = <<"h">>
  <2>1. LengthMeant(c) = {"SHORT"} BY <1>6, <1>8 DEF LengthMeant
  <2>2. "LONG" \notin opts /\ n = Ushort BY <1>2, <1>4, <2>1 DEF TypeWidth
  <2> QED BY <1>3, <1>5, <1>6, <1>8, <2>2
<1>9. CASE c.length = <<"h", "h">>
  <2>1. LengthMeant(c) = {"SHORT", "CHAR"} BY <1>6, <1>9 DEF LengthMeant
  <2>2. "LONG" \notin opts /\ n = Uchar BY <1>2, <1>4, <2>1 DEF TypeWidth
  <2> QED BY <1>3, <1>5, <1>6, <1>9, <2>2
<1>10. CASE c.length \notin {<<>>, <<"h">>, <<"h", "h">>}
  <2>1. "LONG" \in LengthMeant(c) BY <1>10 DEF LengthMeant
  <2>2. "LONG" \in opts BY <1>2, <2>1
  <2>3. Narrowed(c.value, c.conv) = c.value BY <2>2 DEF Narrowed
  <2>4. MeantValue(c) = c.value BY <1>10 DEF MeantValue
  <2> QED BY <2>3, <2>4
<1> QED BY <1>7, <1>8, <1>9, <1>10

(* The item made of the fields is the one meant.                           *)
LEMMA ItemIs ==
  ASSUME NEW c, WellWritten(c), c.conv # "other",
         opts = MeantFlags(c) \cup LengthMeant(c),
         width = WidthMeant(c), precision = c.meant[2],
         c.conv \in Takes => args[va] = c.value
  PROVE  ItemOf(c.conv) = Meant(c)
<1>1. opts \cap Flags = MeantFlags(c) BY FlagTypes
<1>2. PICK fs, w, x : fs = opts \cap Flags /\ w = width /\ x = c.conv OBVIOUS
<1>3. fs = MeantFlags(c) /\ w = IF c.meant[1] < 0 THEN -c.meant[1] ELSE c.meant[1]
  BY <1>1, <1>2 DEF WidthMeant
<1>4. IntegerConversions = {"d", "i", "u", "x", "X", "o", "b"}
  BY DEF IntegerConversions, SignedConversions
<1>5. Takes = {"d", "i", "u", "x", "X", "o", "b", "c", "s", "p"} BY <1>4 DEF Takes
<1>6. CASE x \in IntegerConversions
  <2>1. PICK u : u = MeantValue(c) OBVIOUS
  <2>2. Narrowed(args[va], x) = u BY <1>2, <1>4, <1>5, <1>6, <2>1, ValueIs
  <2>3. ItemOf(x) = NumberItem("integer", fs, w, precision, u, x \in SignedConversions, BaseOf(x))
    <3>1. ItemOf(x) = NumberItem("integer", opts \cap Flags, width, precision,
                                 Narrowed(args[va], x), x \in SignedConversions, BaseOf(x))
      BY <1>4, <1>6 DEF ItemOf
    <3> QED BY <1>2, <2>2, <3>1, Zenon
  <2>4. CASE x \in {"d", "i"}
    <3>1. (x \in SignedConversions) = TRUE /\ BaseOf(x) = 10
      BY <2>4 DEF SignedConversions, BaseOf
    <3>2. Meant(c) = NumberItem("integer", fs, w, precision, u, TRUE, 10)
      BY <1>2, <1>3, <2>1, <2>4 DEF Meant
    <3> QED BY <1>2, <2>3, <3>1, <3>2
  <2>5. CASE x \in {"u", "x", "X", "o", "b"}
    <3>1. (x \in SignedConversions) = FALSE BY <2>5 DEF SignedConversions
    <3>2. Meant(c) = NumberItem("integer", fs, w, precision, u, FALSE, BaseOf(x))
      <4>1. CASE x = "u" BY <1>2, <1>3, <2>1, <4>1 DEF Meant, BaseOf
      <4>2. CASE x = "o" BY <1>2, <1>3, <2>1, <4>2 DEF Meant, BaseOf
      <4>3. CASE x = "b" BY <1>2, <1>3, <2>1, <4>3 DEF Meant, BaseOf
      <4>4. CASE x \in {"x", "X"} BY <1>2, <1>3, <2>1, <4>4 DEF Meant, BaseOf
      <4> QED BY <2>5, <4>1, <4>2, <4>3, <4>4
    <3> QED BY <1>2, <2>3, <3>1, <3>2
  <2> QED BY <1>4, <1>6, <2>4, <2>5
<1>7. CASE x = "p"
  <2>1. ItemOf(x) = NumberItem("pointer", fs, PointerDigits, precision, args[va], FALSE, 16)
    BY <1>2, <1>4, <1>7 DEF ItemOf
  <2>2. Meant(c) = NumberItem("pointer", fs, PointerDigits, precision, c.value, FALSE, 16)
    BY <1>2, <1>3, <1>7 DEF Meant
  <2> QED BY <1>2, <1>5, <1>7, <2>1, <2>2
<1>8. CASE x = "c"
  <2>1. ItemOf(x) = WordItem("char", fs, w, precision, <<args[va]>>)
    BY <1>2, <1>4, <1>8 DEF ItemOf
  <2>2. Meant(c) = WordItem("char", fs, w, precision, <<c.value>>)
    BY <1>2, <1>3, <1>8 DEF Meant
  <2> QED BY <1>2, <1>5, <1>8, <2>1, <2>2
<1>9. CASE x = "s"
  <2>1. ItemOf(x) = WordItem("string", fs, w, precision, args[va])
    BY <1>2, <1>4, <1>9 DEF ItemOf
  <2>2. Meant(c) = WordItem("string", fs, w, precision, c.value)
    BY <1>2, <1>3, <1>9 DEF Meant
  <2> QED BY <1>2, <1>5, <1>9, <2>1, <2>2
<1>10. CASE x \notin Takes
  <2>1. ItemOf(x) = CharItem(x) BY <1>4, <1>5, <1>10 DEF ItemOf
  <2>2. x # "NUL" BY <1>2, Separate DEF WellWritten
  <2>3. Meant(c) = [kind |-> "plain", char |-> Other] BY <1>2, <1>5, <1>10 DEF Meant
  <2> QED BY <1>2, <2>1, <2>2, <2>3 DEF CharItem
<1> QED BY <1>4, <1>5, <1>6, <1>7, <1>8, <1>9, <1>10

(* What the parser hands over: what is meant, or what it makes of a cut.   *)
HandsMeant ==
  \/ format' = <<Meant(Conversions[parsed + 1])>>
  \/ given.missing > 0 /\ format' = <<[kind |-> "plain", char |-> NUL]>>

(* The parser over a specifier, and what it hands over.                    *)
LEMMA SpecifierParses ==
  ASSUME ParseInv, Specifier
  PROVE  ParseInv' /\ parsed \in 0 .. Last - 1 /\ HandsMeant
<1>1. at = "specifier" /\ pc = "item" /\ format = <<>> BY DEF Specifier, Parses
<1>2. PICK k : k = parsed OBVIOUS
<1>3. PICK c, p, v : c = Conversions[k + 1] /\ p = Start(k) /\ v = FirstArg(k) OBVIOUS
<1>4. PICK x : x = Char(pos) OBVIOUS
<1>5. /\ UNCHANGED input /\ va' = va + (IF x \in Takes THEN 1 ELSE 0)
      /\ at' = "item" /\ parsed' = k + 1 /\ pc' = pc /\ format' = <<ItemOf(x)>>
      /\ pos' = pos + 1
  BY <1>2, <1>4 DEF Specifier, HandsOver
<1>6. HandedOver' BY <1>1, <1>5 DEF HandedOver
<1>7. /\ InputInv /\ k \in 0 .. Last /\ Last \in Nat /\ End \in Nat \ {0} /\ Char(End) = "NUL"
  BY <1>2, Layout DEF ParseInv
<1>8. PICK j : j = k + 1 OBVIOUS
<1>9. CASE AtCut
  <2>1. k < Last /\ given.missing > 0 /\ pos = End BY <1>2, <1>9 DEF AtCut
  <2>2. j \in 0 .. Last /\ k \in 0 .. Last - 1 BY <1>7, <1>8, <2>1
  <2>3. x = "NUL" BY <1>4, <1>7, <2>1
  <2>4. ItemOf(x) = [kind |-> "plain", char |-> NUL]
    <3>1. x \notin IntegerConversions /\ x \notin {"p", "c", "s"}
      BY <2>3 DEF IntegerConversions, SignedConversions
    <3> QED BY <2>3, <3>1 DEF ItemOf, CharItem
  <2>5. HandsMeant BY <1>5, <2>1, <2>4 DEF HandsMeant
  <2>6. at' = "item" /\ given.missing > 0 /\ pos' = End + 1 /\ parsed' = j
    BY <1>5, <1>8, <2>1
  <2>7. PICK d, q, w : d = Conversions[j + 1] /\ q = Start(j) /\ w = FirstArg(j) OBVIOUS
  <2>8. ParseInv' BY <1>5, <1>6, <1>7, <2>2, <2>6, <2>7, ParsedOn
  <2> QED BY <1>2, <2>2, <2>5, <2>8
<1>10. CASE ~AtCut
  <2>1. k < Last /\ pos < End /\ c.conv # "other" /\ BehindLength(c, p, v)
    BY <1>1, <1>2, <1>3, <1>10
    DEF ParseInv, BetweenItems, BehindCut, InConversion, InFields
  <2>2. k \in 0 .. Last - 1 /\ j \in 0 .. Last /\ j \in 1 .. Last /\ j - 1 = k
    BY <1>7, <1>8, <2>1
  <2>3. PICK le, l : le = LengthEnd(c) /\ l = Len(c.stars) OBVIOUS
  <2>4. /\ va = v + l + 1 /\ pos = p + le + 1
        /\ opts = MeantFlags(c) \cup LengthMeant(c)
        /\ width = WidthMeant(c) /\ precision = c.meant[2]
    BY <2>1, <2>3 DEF BehindLength
  <2>5. /\ WellWritten(c) /\ Start(j) = p + le + 1 /\ p \in Nat /\ le \in Nat
        /\ x = c.conv
    <3>1. /\ WellWritten(c) /\ Start(k + 1) = p + LengthEnd(c) + 1 /\ p \in Nat
          /\ Len(c.flags) \in Nat /\ Len(c.width) \in Nat
          /\ Len(c.precision) \in Nat /\ Len(c.length) \in Nat
          /\ p + LengthEnd(c) + 1 < End => Char(p + LengthEnd(c) + 1) = c.conv
      BY <1>3, <1>7, <2>1, <2>2, HeadVisible, FieldsWhere
    <3>2. le \in Nat BY <2>3, <3>1, FieldEnds
    <3> QED BY <1>4, <1>8, <2>1, <2>3, <2>4, <3>1, <3>2
  <2>6. /\ v \in Nat /\ l \in Nat
        /\ FirstArg(j) = v + l + (IF c.conv \in Takes THEN 1 ELSE 0)
        /\ c.conv \in Takes => args[v + l + 1] = c.value
    <3>1. Conversions[j] = c BY <1>3, <1>8
    <3> QED BY <1>3, <1>7, <2>2, <2>3, <3>1, ArgLayout
  <2>7. ItemOf(x) = Meant(c)
    BY <2>1, <2>4, <2>5, <2>6, ItemIs
  <2>8. HandsMeant BY <1>2, <1>3, <1>5, <2>7 DEF HandsMeant
  <2>9. pos' = Start(j) + 1 BY <1>5, <2>4, <2>5
  <2>10. va' = FirstArg(j) + 1 BY <1>5, <2>4, <2>5, <2>6
  <2>11. j = Last => given.missing = 0
    <3>1. given.missing \in Nat /\ End = Start(Last) - given.missing + 1 BY <1>7, Layout
    <3>2. j = Last => Start(Last) = pos BY <2>4, <2>5
    <3>3. pos \in Nat BY <2>4, <2>5
    <3> QED BY <2>1, <3>1, <3>2, <3>3
  <2>12. PICK d, q, w : d = Conversions[j + 1] /\ q = Start(j) /\ w = FirstArg(j) OBVIOUS
  <2>13. parsed' = j BY <1>5, <1>8
  <2>14. ParseInv' BY <1>5, <1>6, <1>7, <2>2, <2>9, <2>10, <2>11, <2>12, <2>13, ParsedOn
  <2> QED BY <1>2, <2>2, <2>8, <2>14
<1> QED BY <1>9, <1>10

(* A plain character is handed over as it is.                              *)
LEMMA PlainCharHands ==
  ASSUME ParseInv, PlainChar
  PROVE  parsed \in 0 .. Last - 1 /\ HandsMeant
<1>1. /\ at = "item" /\ Char(pos) \notin {"%", "NUL", "unknown"}
      /\ format' = <<CharItem(Char(pos))>>
  BY DEF PlainChar, Parses, HandsOver
<1>2. PICK c : c = Conversions[parsed + 1] OBVIOUS
<1>3. parsed \in 0 .. Last - 1 /\ c.conv = "other" /\ Char(pos) = "other"
  BY <1>1, <1>2, AtItem
<1>4. Meant(c) = [kind |-> "plain", char |-> Other] BY <1>3 DEF Meant
<1>5. CharItem(Char(pos)) = [kind |-> "plain", char |-> Other] BY <1>3 DEF CharItem
<1> QED BY <1>1, <1>2, <1>3, <1>4, <1>5 DEF HandsMeant

-----------------------------------------------------------------------------
(* The whole call.                                                         *)

Items == Plain \cup Text \cup Number

(* What is meant is an item of Printk.                                     *)
LEMMA MeantTyped ==
  ASSUME given \in Calls, NEW k \in 1 .. Last
  PROVE  /\ Meant(Conversions[k]) \in Items
         /\ Meant(Conversions[k]) \in Number => Convertible(Meant(Conversions[k]))
<1> DEFINE f == [j \in 1 .. Last |-> Meant(Conversions[j])]
<1>1. f \in Formats BY FormatsAreMeant DEF Last, Conversions
<1>2. f[k] = Meant(Conversions[k]) OBVIOUS
<1>3. Last \in Nat BY CallFacts
<1>4. Len(f) = Last BY <1>3
<1> HIDE DEF f
<1>5. f \in Seq(Items) BY <1>1, FormatsAssumption DEF Items
<1>6. k \in 1 .. Len(f) BY <1>4
<1>7. f[k] \in Items BY <1>5, <1>6, ElementOfSeq
<1>8. f[k] \in Number => Convertible(f[k]) BY <1>1, <1>6, FormatsAssumption
<1> QED BY <1>2, <1>7, <1>8

(* An item handed over keeps the invariants of the writer.                 *)
LEMMA HandsOverInv ==
  ASSUME IInv, DigitsInv, pc = "item",
         UNCHANGED <<call, buffer, sent, idx, pc, ntoa, ret, text>>,
         NEW item \in Items, item \in Number => Convertible(item), format' = <<item>>
  PROVE  IInv' /\ DigitsInv'
<1>1. OutputInv' /\ StoresPrefix' BY NothingOut DEF IInv
<1>2. format' \in Seq(Plain \cup Text \cup Number) BY DEF Items
<1>3. TypeOK' BY <1>2 DEF IInv, TypeOK, call, ntoa
<1>4. NtoaInBounds' /\ ConversionInv' BY DEF IInv, NtoaInBounds, ConversionInv, ntoa
<1>5. ItemsInv'
  <2>1. Len(format') = 1 /\ format'[1] = item OBVIOUS
  <2> SUFFICES ASSUME NEW k \in 1 .. Len(format'), format'[k] \in Number
               PROVE  Convertible(format'[k])
    BY DEF ItemsInv, Convertible
  <2>2. k = 1 BY <2>1
  <2>3. format'[k] = item BY <2>1, <2>2
  <2> QED BY <2>3
<1>6. DigitsInv' BY <1>5 DEF DigitsInv
<1> QED BY <1>1, <1>3, <1>4, <1>6 DEF IInv

CallInv == IInv /\ DigitsInv /\ ParseInv

(* The call begins in CallInv.                                             *)
LEMMA CallInitInv == CallInit => CallInv
<1> SUFFICES ASSUME CallInit PROVE CallInv OBVIOUS
<1>1. /\ out \in OutputFunctions /\ maxlen \in Nat /\ (out # "_out_buffer" => maxlen = 0)
      /\ buffer = [j \in 0 .. (maxlen - 1) |-> Unset]
      /\ sent = 0 /\ idx = 0 /\ ret = -1 /\ text = <<>>
      /\ pc = "item" /\ format = <<>> /\ value = 0 /\ buf = <<>> /\ flags = {}
  BY CountsAssumption DEF CallInit
<1>2. TypeOK
  <2>1. format \in Seq(Plain \cup Text \cup Number) BY <1>1
  <2> QED BY <1>1, <2>1, NamedChars DEF TypeOK, Flags
<1>3. NtoaInBounds /\ ConversionInv /\ StoresPrefix
  BY <1>1, SizeAssumption DEF NtoaInBounds, ConversionInv, StoresPrefix
<1>4. OutputInv BY <1>1 DEF OutputInv
<1>5. DigitsInv BY <1>1 DEF DigitsInv, ItemsInv
<1>6. InputInv BY DEF CallInit, InputInv
<1>7. /\ Last \in Nat /\ given.missing \in Nat /\ (given.missing > 0 => Last > 0)
      /\ Start(0) = 0 /\ FirstArg(0) = 0
  BY <1>6, Layout, ArgLayout
<1>8. at = "item" /\ pos = 1 /\ va = 1 /\ parsed = 0 BY DEF CallInit
<1>9. BetweenItems BY <1>7, <1>8 DEF BetweenItems
<1>10. HandedOver BY <1>1, <1>8 DEF HandedOver
<1>11. ParseInv BY <1>6, <1>7, <1>8, <1>9, <1>10 DEF ParseInv
<1> QED BY <1>2, <1>3, <1>4, <1>5, <1>11 DEF IInv, CallInv

(* What does not parse leaves the parser where it is.                      *)
LEMMA ParserStays == ASSUME ParseInv, UNCHANGED parser, HandedOver' PROVE ParseInv'
<1>1. UNCHANGED <<given, string, args, pos, va, at, opts, width, precision, parsed>>
  BY DEF parser, input, fields
<1>2. InputInv' BY <1>1 DEF ParseInv, InputInv
<1>3. /\ Last' = Last /\ End' = End /\ Conversions' = Conversions
      /\ Start(parsed)' = Start(parsed) /\ FirstArg(parsed)' = FirstArg(parsed)
      /\ Conversions[parsed + 1]' = Conversions[parsed + 1]
      /\ (given.missing)' = given.missing
  BY <1>1 DEF Last, End, Conversions, Start, FirstArg
<1>4. (parsed \in 0 .. Last)' BY <1>1, <1>3 DEF ParseInv
<1>5. BetweenItems' = BetweenItems BY <1>1, <1>3 DEF BetweenItems
<1>6. AtCut' = AtCut /\ BehindCut' = BehindCut BY <1>1, <1>3 DEF AtCut, BehindCut
<1>7. InFields(Conversions[parsed + 1], Start(parsed), FirstArg(parsed))'
        = InFields(Conversions[parsed + 1], Start(parsed), FirstArg(parsed))
  BY <1>1, <1>3 DEF InFields, InFlags, BehindWidth, BehindPrecision, BehindLength
<1>8. InConversion' = InConversion BY <1>1, <1>3, <1>7 DEF InConversion
<1> QED BY <1>2, <1>4, <1>5, <1>6, <1>8 DEF ParseInv

(* Every step of the writer keeps CallInv.                                 *)
LEMMA WriterInv == ASSUME CallInv, Writer PROVE CallInv'
<1>1. Next BY DEF Writer, Next
<1>2. IInv' /\ DigitsInv' BY <1>1, NextInv, DigitsStep DEF CallInv
<1>3. UNCHANGED parser BY DEF Writer
<1>4. at' = at BY <1>3 DEF parser
<1>5. HandedOver BY DEF CallInv, ParseInv
<1>6. HandedOver'
  <2>1. at = "item"
    BY <1>5 DEF HandedOver, Writer, PlainItem, TextItem, IntItem, Digit, Format, Reverse
  <2>2. pc' \in {"digits", "format", "reverse"} => format' # <<>>
    BY <1>5
    DEF HandedOver, Writer, PlainItem, TextItem, IntItem, Digit, Format, Reverse, NextItem
  <2> QED BY <1>4, <2>1, <2>2 DEF HandedOver
<1>7. ParseInv' BY <1>3, <1>6, ParserStays DEF CallInv
<1> QED BY <1>2, <1>7 DEF CallInv

(* The end of the format keeps CallInv.                                    *)
LEMMA EndOfFormatInv == ASSUME CallInv, EndOfFormat PROVE CallInv'
<1>1. Next BY DEF EndOfFormat, Next
<1>2. IInv' /\ DigitsInv' BY <1>1, NextInv, DigitsStep DEF CallInv
<1>3. UNCHANGED parser /\ at = "item" /\ pc' = "done"
  BY DEF EndOfFormat, Terminate, Parses
<1>4. HandedOver' BY <1>3 DEF HandedOver, parser
<1>5. ParseInv' BY <1>3, <1>4, ParserStays DEF CallInv
<1> QED BY <1>2, <1>5 DEF CallInv

(* A step that changes nothing keeps CallInv.                              *)
LEMMA CallStutterInv == ASSUME CallInv, UNCHANGED callVars PROVE CallInv'
<1>1. UNCHANGED vars /\ UNCHANGED parser BY DEF callVars
<1>2. IInv' /\ DigitsInv' BY <1>1, StutterInv, DigitsStep DEF CallInv
<1>3. HandedOver' BY <1>1 DEF CallInv, ParseInv, HandedOver, vars, parser
<1>4. ParseInv' BY <1>1, <1>3, ParserStays DEF CallInv
<1> QED BY <1>2, <1>4 DEF CallInv

(* An item handed over.                                                    *)
LEMMA ItemHandedInv ==
  ASSUME CallInv, PlainChar \/ Specifier
  PROVE  CallInv' /\ HandsMeant
<1>1. ParseInv' /\ parsed \in 0 .. Last - 1 /\ HandsMeant
  BY PlainCharParses, PlainCharHands, SpecifierParses DEF CallInv
<1>2. /\ pc = "item" /\ UNCHANGED <<call, buffer, sent, idx, pc, ntoa, ret, text>>
  BY DEF PlainChar, Specifier, Parses, HandsOver
<1>3. \E item \in Items : (item \in Number => Convertible(item)) /\ format' = <<item>>
  <2>1. given \in Calls /\ Last \in Nat BY Layout DEF CallInv, ParseInv, InputInv
  <2>2. parsed + 1 \in 1 .. Last BY <1>1, <2>1
  <2>3. PICK m : m = Meant(Conversions[parsed + 1]) OBVIOUS
  <2>4. m \in Items /\ (m \in Number => Convertible(m)) BY <2>1, <2>2, <2>3, MeantTyped
  <2>5. PICK z : z = [kind |-> "plain", char |-> NUL] OBVIOUS
  <2>6. z \in Items /\ z \notin Number
    <3>1. z \in Plain BY <2>5, NamedChars DEF Plain
    <3>2. z.kind = "plain" BY <2>5
    <3> QED BY <3>1, <3>2 DEF Items, Number
  <2> QED BY <1>1, <2>3, <2>4, <2>5, <2>6 DEF HandsMeant
<1>4. IInv' /\ DigitsInv' BY <1>2, <1>3, HandsOverInv DEF CallInv
<1> QED BY <1>1, <1>4 DEF CallInv

(* Every step of a call keeps CallInv.                                     *)
LEMMA CallNextInv == ASSUME CallInv, [CallNext]_callVars PROVE CallInv'
<1>1. CASE PlainChar \/ Specifier BY <1>1, ItemHandedInv
<1>2. CASE Percent \/ Flag \/ WidthField \/ PrecisionField \/ LengthField
  <2>1. UNCHANGED vars
    BY <1>2 DEF Percent, Flag, WidthField, PrecisionField, LengthField, Goes
  <2>2. IInv' /\ DigitsInv' BY <2>1, StutterInv, DigitsStep DEF CallInv
  <2>3. ParseInv'
    BY <1>2, PercentParses, FlagParses, WidthParses, PrecisionParses, LengthParses DEF CallInv
  <2> QED BY <2>2, <2>3 DEF CallInv
<1>3. CASE Writer BY <1>3, WriterInv
<1>4. CASE EndOfFormat BY <1>4, EndOfFormatInv
<1>5. CASE Stays \/ UNCHANGED callVars BY <1>5, CallStutterInv DEF Stays
<1> QED BY <1>1, <1>2, <1>3, <1>4, <1>5 DEF CallNext, Parser

(* The inductive invariant of a whole call: output, digits and parser.     *)
THEOREM CallInvariant == CallSpec => []CallInv
<1>1. CallInv /\ [CallNext]_callVars => CallInv'
  BY CallNextInv
<1> QED
  BY <1>1, CallInitInv, PTL DEF CallSpec

(* The parser of _vsnprintf reads behind the NUL of its format only when   *)
(* the format ends inside a conversion, where the default case of the      *)
(* switch takes the NUL for a specifier (printk.c:854).                    *)
THEOREM ReadsFormat == CallSpec => []ReadsInside
<1>1. CallInv => ReadsInside
  <2> SUFFICES ASSUME ParseInv, pos > Len(string) PROVE given.missing > 0
    BY DEF CallInv, ReadsInside
  <2>1. /\ End \in Nat \ {0} /\ End = Len(string)
    BY Layout DEF ParseInv, End
  <2>2. CASE at # "item"
    <3>1. InConversion \/ AtCut BY <2>2 DEF ParseInv, BetweenItems, BehindCut
    <3>2. CASE InConversion
      <4>1. PICK c, k, p : c = Conversions[k + 1] /\ k = parsed /\ p = Start(k) OBVIOUS
      <4>2. pos < End BY <3>2 DEF InConversion
      <4>3. pos \in Int
        <5>1. k \in 0 .. Last - 1 /\ InputInv /\ c.conv # "other" /\ InFields(c, p, FirstArg(k))
          <6>1. Last \in Nat BY Layout DEF ParseInv
          <6> QED BY <3>2, <4>1, <6>1 DEF InConversion, ParseInv
        <5>2. /\ p \in Nat /\ Len(c.flags) \in Nat /\ Len(c.width) \in Nat
              /\ Len(c.precision) \in Nat /\ Len(c.length) \in Nat
          BY <4>1, <5>1, HeadVisible, FieldsWhere
        <5>3. WidthEnd(c) \in Nat /\ PrecisionEnd(c) \in Nat /\ LengthEnd(c) \in Nat
          BY <5>2, FieldEnds
        <5>4. PICK a, b, d, l : a = WidthEnd(c) /\ b = PrecisionEnd(c) /\ d = LengthEnd(c)
                                /\ l = Len(c.flags)
          OBVIOUS
        <5>5. \/ \E i \in 0 .. l : pos = p + 1 + i + 1
              \/ pos = p + a + 1 \/ pos = p + b + 1 \/ pos = p + d + 1
          BY <5>1, <5>4 DEF InFields, InFlags, BehindWidth, BehindPrecision, BehindLength
        <5>6. a \in Nat /\ b \in Nat /\ d \in Nat /\ l \in Nat BY <5>2, <5>3, <5>4
        <5> QED BY <5>2, <5>5, <5>6
      <4> QED BY <2>1, <4>2, <4>3
    <3>3. CASE AtCut BY <3>3 DEF AtCut
    <3> QED BY <3>1, <3>2, <3>3
  <2>3. CASE at = "item"
    <3>1. \/ parsed \in 0 .. Last - 1 /\ pos = Start(parsed) + 1
          \/ pos = End
          \/ given.missing > 0
      BY <2>3, AtItem
    <3>2. ASSUME parsed \in 0 .. Last - 1, pos = Start(parsed) + 1 PROVE FALSE
      <4>1. Start(parsed) \in Nat /\ Start(parsed) + 1 < End BY <3>2, HeadVisible DEF ParseInv
      <4> QED BY <2>1, <3>2, <4>1
    <3>3. pos # End BY <2>1
    <3> QED BY <3>1, <3>2, <3>3
  <2> QED BY <2>2, <2>3
<1> QED
  BY <1>1, CallInvariant, PTL

-----------------------------------------------------------------------------
(* The items to come: the call implements Printk.                          *)

(* Printk of the items still to come.                                      *)
Rest == [k \in 1 .. Len(given.conversions) - parsed |-> Meant(given.conversions[parsed + k])]

(* What is to come is the item handed over and the items of the rest.      *)
LEMMA RestTyped ==
  ASSUME CallInv
  PROVE  /\ Rest \in Seq(Items) /\ format \in Seq(Items) /\ ToCome = format \o Rest
         /\ Len(Rest) = Last - parsed
<1>1. given \in Calls /\ Last \in Nat /\ parsed \in 0 .. Last
  BY Layout DEF CallInv, ParseInv, InputInv
<1>2. PICK n, l : n = l - parsed /\ l = Last OBVIOUS
<1>3. n \in Nat /\ l \in Nat /\ parsed \in Nat BY <1>1, <1>2
<1>4. Rest = [k \in 1 .. n |-> Meant(Conversions[parsed + k])]
  BY <1>2 DEF Rest, Last, Conversions
<1>5. ASSUME NEW k \in 1 .. n PROVE Meant(Conversions[parsed + k]) \in Items
  <2>1. parsed + k \in 1 .. l BY <1>2, <1>3
  <2>2. parsed + k \in 1 .. Last BY <1>2, <2>1
  <2> QED BY <1>1, <2>2, MeantTyped
<1>6. Rest \in [1 .. n -> Items] BY <1>4, <1>5
<1>7. Rest \in Seq(Items) /\ Len(Rest) = n BY <1>3, <1>6
<1>8. format \in Seq(Items) BY DEF CallInv, IInv, TypeOK, Items
<1> QED BY <1>2, <1>7, <1>8 DEF ToCome, Rest

(* The writer takes its item from what is to come.                         *)
LEMMA ToComeSplits ==
  ASSUME CallInv, format # <<>>
  PROVE  ToCome # <<>> /\ Head(ToCome) = Head(format) /\ Tail(ToCome) = Tail(format) \o Rest
<1>1. PICK f, r : f = format /\ r = Rest OBVIOUS
<1>2. f \in Seq(Items) /\ r \in Seq(Items) /\ f # <<>> /\ ToCome = f \o r
  BY <1>1, RestTyped
<1>3. (f \o r) # <<>> /\ Head(f \o r) = Head(f) /\ Tail(f \o r) = Tail(f) \o r
  BY <1>2
<1> QED BY <1>1, <1>2, <1>3

(* The output functions are the same.                                      *)
LEMMA SameOutput == ASSUME NEW cs, Out(cs) PROVE Abstract!Out(cs)
<1>1. Abstract!SentOf(cs) = SentOf(cs) BY DEF SentOf, Abstract!SentOf, NUL, Abstract!NUL, Cardinality, Abstract!Cardinality
<1>2. Abstract!Stored(cs) = Stored(cs) BY DEF Stored, Abstract!Stored
<1> QED BY <1>1, <1>2, Zenon DEF Out, Abstract!Out

(* Only the parser shortens the rest.                                      *)
LEMMA RestKept ==
  ASSUME UNCHANGED <<given, parsed>>
  PROVE  Rest' = Rest /\ ToCome' = format' \o Rest
BY DEF Rest, ToCome

(* The next item is the next of those to come.                             *)
LEMMA SameNext ==
  ASSUME CallInv, format # <<>>, NextItem, UNCHANGED parser
  PROVE  Abstract!NextItem
<1>1. UNCHANGED <<given, parsed>> BY DEF parser, input
<1>2. ToCome' = Tail(ToCome) BY <1>1, RestKept, ToComeSplits DEF NextItem
<1> QED BY <1>2 DEF NextItem, Abstract!NextItem

(* The item being written is the first of those to come.                   *)
LEMMA SameItem ==
  ASSUME CallInv, format # <<>>
  PROVE  Abstract!Item = Item
BY ToComeSplits DEF Item, Abstract!Item

(* A step of the writer is the step of the same name of Printk.            *)
LEMMA WriterImplements ==
  ASSUME CallInv, Writer
  PROVE  Abstract!Next
<1>1. UNCHANGED parser BY DEF Writer
<1>2. UNCHANGED <<given, parsed>> BY <1>1 DEF parser, input
<1>3. HandedOver BY DEF CallInv, ParseInv
<1>4. format # <<>>
  BY <1>3 DEF HandedOver, Writer, PlainItem, TextItem, IntItem, Digit, Format, Reverse
<1>5. ToCome # <<>> /\ Abstract!Item = Item BY <1>4, ToComeSplits, SameItem
<1>6. NextItem => Abstract!NextItem BY <1>1, <1>4, SameNext
<1>7. UNCHANGED format => UNCHANGED ToCome BY <1>2, RestKept, RestTyped
<1>8. Abstract!call = call /\ Abstract!ntoa = ntoa BY DEF call, ntoa, Abstract!call, Abstract!ntoa
<1>9. CASE PlainItem
  <2>1. Abstract!PlainItem
    BY <1>5, <1>6, <1>8, <1>9, SameOutput
    DEF PlainItem, Abstract!PlainItem, call, ntoa, Abstract!call, Abstract!ntoa
  <2> QED BY <2>1 DEF Abstract!Next
<1>10. CASE TextItem
  <2>1. Abstract!TextShown = TextShown
    BY <1>5 DEF TextShown, Abstract!TextShown, Lesser, Abstract!Lesser
  <2>2. Abstract!TextItem
    BY <1>5, <1>6, <1>8, <1>10, <2>1, SameOutput
    DEF TextItem, Abstract!TextItem, call, ntoa, Abstract!call, Abstract!ntoa, Repeat,
        Abstract!Repeat, Greater, Abstract!Greater, Space, Abstract!Space
  <2> QED BY <2>2 DEF Abstract!Next
<1>11. CASE IntItem
  <2>1. Abstract!Relevant = Relevant
    BY <1>5 DEF Relevant, Abstract!Relevant, PointerFlags, Abstract!PointerFlags, Hashless,
                Abstract!Hashless
  <2>2. Abstract!Absolute(Item.value) = Absolute(Item.value) BY DEF Absolute, Abstract!Absolute
  <2>3. Abstract!IntItem
    BY <1>5, <1>7, <1>8, <1>11, <2>1, <2>2
    DEF IntItem, Abstract!IntItem, call, Abstract!call
  <2> QED BY <2>3 DEF Abstract!Next
<1>12. CASE Digit
  <2>1. Abstract!Digit
    BY <1>5, <1>7, <1>12
    DEF Digit, Abstract!Digit, call, Abstract!call, HasRoom, Abstract!HasRoom
  <2> QED BY <2>1 DEF Abstract!Next
<1>13. CASE Format
  <2>1. Abstract!IsNegative = IsNegative BY <1>5 DEF IsNegative, Abstract!IsNegative
  <2>2. Abstract!Width = Width BY <1>5, <2>1 DEF Width, Abstract!Width
  <2>3. \A s : Abstract!Zeros(s) = Zeros(s)
    BY <1>5, <2>2 DEF Zeros, Abstract!Zeros, Repeat, Abstract!Repeat, Greater, Abstract!Greater
  <2>4. \A s : Abstract!Yielded(s) = Yielded(s)
    BY <1>5, <2>2 DEF Yielded, Abstract!Yielded
  <2>5. Abstract!Prefix = Prefix
    BY <1>5 DEF Prefix, Abstract!Prefix, X, B, Abstract!X, Abstract!B
  <2>6. \A s : Abstract!WithPrefix(s) = WithPrefix(s)
    BY <2>4, <2>5 DEF WithPrefix, Abstract!WithPrefix
  <2>7. \A s : Abstract!Clipped(s) = Clipped(s)
    BY DEF Clipped, Abstract!Clipped, Lesser, Abstract!Lesser
  <2>8. Abstract!Sign = Sign
    BY <2>1 DEF Sign, Abstract!Sign, Minus, Plus, Space, Abstract!Minus, Abstract!Plus,
                Abstract!Space
  <2>9. Abstract!Format
    BY <1>7, <1>13, <2>3, <2>6, <2>7, <2>8 DEF Format, Abstract!Format, call, Abstract!call
  <2> QED BY <2>9 DEF Abstract!Next
<1>14. CASE Reverse
  <2>1. \A s : Abstract!Reversed(s) = Reversed(s) BY DEF Reversed, Abstract!Reversed
  <2>2. Abstract!Field = Field
    BY <1>5, <2>1
    DEF Field, Abstract!Field, Repeat, Abstract!Repeat, Greater, Abstract!Greater, Space,
        Abstract!Space
  <2>3. Abstract!Reverse
    BY <1>6, <1>14, <2>2, SameOutput DEF Reverse, Abstract!Reverse, call, Abstract!call
  <2> QED BY <2>3 DEF Abstract!Next
<1> QED BY <1>9, <1>10, <1>11, <1>12, <1>13, <1>14 DEF Writer

(* The end of a complete format is that of the items to come.              *)
LEMMA EndImplements ==
  ASSUME CallInv, EndOfFormat, given.missing = 0
  PROVE  Abstract!Next
<1>1. at = "item" /\ Char(pos) = "NUL" /\ format = <<>> /\ Terminate /\ UNCHANGED parser
  BY DEF EndOfFormat, Parses
<1>2. UNCHANGED <<given, parsed, format>> BY <1>1 DEF Terminate, parser, input
<1>3. parsed = Last
  <2>1. ParseInv BY DEF CallInv
  <2> QED BY <1>1, <2>1, AtItem
<1>4. Rest \in Seq(Items) /\ Len(Rest) = 0 /\ ToCome = format \o Rest
  <2>1. Last \in Nat BY Layout DEF CallInv, ParseInv
  <2> QED BY <1>3, <2>1, RestTyped
<1>5. Rest = <<>> BY <1>4
<1>6. ToCome = <<>> BY <1>1, <1>4, <1>5
<1>7. UNCHANGED ToCome BY <1>2, <1>4, RestKept
<1>8. Abstract!Terminate
  BY <1>1, <1>6, <1>7
  DEF Terminate, Abstract!Terminate, EndAt, Abstract!EndAt, NUL, Abstract!NUL, call, ntoa,
      Abstract!call, Abstract!ntoa
<1> QED BY <1>8 DEF Abstract!Next

(* An item handed over is the first of those to come.                      *)
LEMMA HandsImplements ==
  ASSUME CallInv, PlainChar \/ Specifier, given.missing = 0
  PROVE  UNCHANGED Abstract!vars
<1>1. /\ format = <<>> /\ parsed' = parsed + 1 /\ UNCHANGED input
      /\ UNCHANGED <<call, buffer, sent, idx, pc, ntoa, ret, text>>
  BY DEF PlainChar, Specifier, Parses, HandsOver
<1>2. CallInv' /\ format' = <<Meant(Conversions[parsed + 1])>>
  BY ItemHandedInv DEF HandsMeant
<1>3. PICK n, l : n = l - parsed /\ l = Last OBVIOUS
<1>4. l \in Nat /\ parsed \in 0 .. l - 1
  <2>1. Last \in Nat BY Layout DEF CallInv, ParseInv
  <2>2. ParseInv BY DEF CallInv
  <2> QED BY <1>3, <2>1, <2>2, PlainCharHands, SpecifierParses
<1>5. PICK r, q, m : r = Rest /\ q = Rest' /\ m = Meant(Conversions[parsed + 1]) OBVIOUS
<1>6. n \in Nat \ {0} /\ n - 1 = l - parsed' BY <1>1, <1>3, <1>4
<1>7. r = [k \in 1 .. n |-> Meant(Conversions[parsed + k])]
  BY <1>3, <1>5 DEF Rest, Last, Conversions
<1>8. q = [k \in 1 .. n - 1 |-> Meant(Conversions[parsed' + k])]
  <2>1. given' = given BY <1>1 DEF input
  <2>2. q = [k \in 1 .. l - parsed' |-> Meant(Conversions[parsed' + k])]
    BY <1>3, <1>5, <2>1 DEF Rest, Last, Conversions
  <2> QED BY <1>6, <2>2
<1>9. r \in Seq(Items) /\ q \in Seq(Items) /\ m \in Items
  <2>1. format' \in Seq(Items) BY <1>2 DEF CallInv, IInv, TypeOK, Items
  <2>2. format'[1] \in Items BY <1>2, <2>1
  <2>3. Rest' \in Seq(Items)
    <3>1. (CallInv => Rest \in Seq(Items))' BY RestTyped, PTL
    <3> QED BY <1>2, <3>1
  <2> QED BY <1>2, <1>5, <2>2, <2>3, RestTyped
<1>10. <<m>> \o q = r
  <2>1. Len(r) = n /\ Len(q) = n - 1 BY <1>6, <1>7, <1>8
  <2>2. <<m>> \o q \in Seq(Items) /\ Len(<<m>> \o q) = n BY <1>6, <1>9, <2>1
  <2>3. ASSUME NEW k \in 1 .. n PROVE (<<m>> \o q)[k] = r[k]
    <3>1. CASE k = 1 BY <1>4, <1>5, <1>6, <1>7, <1>9, <2>1, <3>1
    <3>2. CASE k # 1
      <4>1. k - 1 \in 1 .. n - 1 /\ parsed' + (k - 1) = parsed + k
        BY <1>1, <1>4, <1>6, <3>2
      <4>2. (<<m>> \o q)[k] = q[k - 1] BY <1>9, <2>1, <3>2, <4>1
      <4>3. q[k - 1] = Meant(Conversions[parsed' + (k - 1)]) BY <1>8, <4>1
      <4> QED BY <1>7, <4>1, <4>2, <4>3
    <3> QED BY <3>1, <3>2
  <2>4. PICK s : s = <<m>> \o q OBVIOUS
  <2>5. s \in Seq(Items) /\ Len(s) = n /\ \A k \in 1 .. n : s[k] = r[k] BY <2>2, <2>3, <2>4
  <2>6. s = r BY <1>9, <2>1, <2>5
  <2> QED BY <2>4, <2>6
<1>11. ToCome' = ToCome
  <2>1. ToCome' = format' \o Rest' BY DEF ToCome, Rest
  <2>2. ToCome = <<>> \o Rest BY <1>1, RestTyped
  <2>3. <<>> \o r = r BY <1>9
  <2> QED BY <1>2, <1>5, <1>10, <2>1, <2>2, <2>3
<1> QED BY <1>1, <1>11 DEF Abstract!vars, Abstract!call, Abstract!ntoa, call, ntoa

(* A step of a call with a complete format is one of Printk, or changes    *)
(* nothing of it.                                                          *)
LEMMA StepImplements ==
  ASSUME CallInv, [CallNext]_callVars
  PROVE  given.missing = 0 => [Abstract!Next]_(Abstract!vars)
<1> SUFFICES ASSUME given.missing = 0 PROVE [Abstract!Next]_(Abstract!vars) OBVIOUS
<1>1. CASE PlainChar \/ Specifier BY <1>1, HandsImplements
<1>2. CASE Percent \/ Flag \/ WidthField \/ PrecisionField \/ LengthField \/ Stays
             \/ UNCHANGED callVars
  <2>1. UNCHANGED <<vars, given, parsed>>
    BY <1>2 DEF Percent, Flag, WidthField, PrecisionField, LengthField, Goes, Stays,
                callVars, parser, input
  <2>2. UNCHANGED ToCome BY <2>1 DEF vars, ToCome
  <2> QED BY <2>1, <2>2 DEF vars, call, ntoa, Abstract!vars, Abstract!call, Abstract!ntoa
<1>3. CASE Writer BY <1>3, WriterImplements
<1>4. CASE EndOfFormat BY <1>4, EndImplements
<1> QED BY <1>1, <1>2, <1>3, <1>4 DEF CallNext, Parser

(* A call begins with all the items it means still to come.                *)
LEMMA InitImplements == CallInit => Abstract!Init
<1> SUFFICES ASSUME CallInit PROVE Abstract!Init OBVIOUS
<1>1. CallInv BY CallInitInv
<1>2. /\ given \in Calls /\ parsed = 0 /\ format = <<>> BY DEF CallInit
<1>3. Last \in Nat BY Layout, <1>1 DEF CallInv, ParseInv
<1>4. Rest = [k \in 1 .. Len(given.conversions) |-> Meant(given.conversions[k])]
  <2>1. PICK n : n = Len(given.conversions) /\ n \in Nat BY <1>3 DEF Last, Conversions
  <2>2. Rest = [k \in 1 .. n - 0 |-> Meant(given.conversions[0 + k])] BY <1>2, <2>1 DEF Rest
  <2>3. n - 0 = n /\ \A k \in 1 .. n : 0 + k = k BY <2>1
  <2> QED BY <2>1, <2>2, <2>3
<1>5. ToCome = Rest
  <2>1. PICK r : r = Rest /\ r \in Seq(Items) BY <1>1, RestTyped
  <2>2. <<>> \o r = r BY <2>1
  <2> QED BY <1>1, <1>2, <2>1, <2>2, RestTyped
<1>6. ToCome \in Formats BY <1>2, <1>4, <1>5, FormatsAreMeant
<1> QED BY <1>6 DEF CallInit, Abstract!Init, OutputFunctions, Abstract!OutputFunctions,
                    Unset, Abstract!Unset

(* Parser and writer of _vsnprintf together do what Printk does with the   *)
(* items that are meant: flags, width, precision, length and argument of   *)
(* each conversion act on that conversion, and no argument is skipped or   *)
(* taken twice.                                                            *)
THEOREM CallImplements == CallSpec => ImplementsPrintk
<1>1. CallInv /\ [CallNext]_callVars
        => (given.missing = 0 => [Abstract!Next]_(Abstract!vars))
  BY StepImplements
<1> QED
  BY <1>1, CallInvariant, PTL DEF CallSpec, ImplementsPrintk

(* So a call whose format is complete is a call of Printk with a format    *)
(* that is meant: every theorem about Printk holds of it.                  *)
THEOREM CompleteCallImplements == CallSpec /\ [](given.missing = 0) => Abstract!Spec
<1>1. CallInv /\ [CallNext]_callVars
        => (given.missing = 0 => [Abstract!Next]_(Abstract!vars))
  BY StepImplements
<1> QED
  BY <1>1, InitImplements, CallInvariant, PTL DEF CallSpec, Abstract!Spec

(* A parsed format leaves the writer type correct, whatever a cut format   *)
(* makes of its last conversion.                                           *)
THEOREM CallTypeOK == CallSpec => []TypeOK
<1>1. CallInv => TypeOK BY DEF CallInv, IInv
<1> QED BY <1>1, CallInvariant, PTL

(* Nor does any item the parser makes take a conversion out of its buffer. *)
THEOREM CallStaysInBuffer == CallSpec => []NtoaInBounds
<1>1. CallInv => NtoaInBounds BY DEF CallInv, IInv
<1> QED BY <1>1, CallInvariant, PTL

(* snprintf, with a complete format, stores the prefix that fits of what   *)
(* the parsed format writes.  (With a cut one the model has no return.)    *)
THEOREM CallStoresPrefix == CallSpec => []StoresPrefix
<1>1. CallInv => StoresPrefix BY DEF CallInv, IInv
<1> QED BY <1>1, CallInvariant, PTL

(* The field of an integer that was parsed is what C asks for, for the     *)
(* flags, width, precision and value the parser has made of the format.    *)
THEOREM CallFormatsAsC == CallSpec => []FormatsAsC
<1>1. CallInv => FormatsAsC BY DigitsFormatted DEF CallInv
<1> QED BY <1>1, CallInvariant, PTL
=============================================================================
