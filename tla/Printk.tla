------------------------------- MODULE Printk -------------------------------
(***************************************************************************)
(* One call of _vsnprintf, behind printk and its relatives, in             *)
(* kernel/src/printk/printk.c: the conversion of integers in a buffer of   *)
(* its own, padding, and the output through one of its output functions.   *)
(*                                                                         *)
(* A call keeps all it knows on its stack, so that one call is the whole   *)
(* system: Init is its entry.  A format is the sequence of its items, an   *)
(* item comes with its argument; the parsing of flags, width, precision    *)
(* and length is left out.  Arguments are numbers of any size.  Floating   *)
(* point is not compiled in (PRINTF_SUPPORT_FLOAT).                        *)
(*                                                                         *)
(* Characters are numbers: a digit is its value, whatever its case.        *)
(***************************************************************************)
EXTENDS Integers, Sequences, FiniteSets

CONSTANTS
  PRINTF_NTOA_BUFFER_SIZE,
  Formats,   \* formats, with their arguments
  Counts     \* counts snprintf is called with

Space == 16
Minus == 17
Plus  == 18
X     == 19   \* of 0x
B     == 20   \* of 0b
Other == 21   \* every other character
NUL   == 22
Unset == 23   \* a byte of the caller's buffer nobody has written
Chars == 0 .. 22

Flags == {"ZEROPAD", "LEFT", "PLUS", "SPACE", "HASH", "PRECISION"}

(* A character of the format, or %%; %c and %s; the integers and %p, whose *)
(* width is that of a pointer.                                             *)
Plain  == [kind : {"plain"}, char : Chars]
Text   == [kind : {"char", "string"}, chars : Seq(Chars), flags : SUBSET Flags,
           width : Nat, precision : Nat]
Number == [kind : {"integer", "pointer"}, value : Int, signed : BOOLEAN,
           base : 2 .. 16, flags : SUBSET Flags, width : Nat, precision : Nat]

(* Of the numbers only %d and %i are signed; where no precision is given   *)
(* it is 0.                                                                *)
Convertible(item) ==
  /\ item.value < 0 => item.signed
  /\ item.signed => item.base = 10
  /\ "PRECISION" \notin item.flags => item.precision = 0

ASSUME SizeAssumption ==
  PRINTF_NTOA_BUFFER_SIZE \in Nat \ {0}
ASSUME FormatsAssumption ==
  /\ \A f \in Formats : f \in Seq(Plain \cup Text \cup Number)
  /\ \A f \in Formats : \A k \in 1 .. Len(f) : f[k] \in Number => Convertible(f[k])
ASSUME CountsAssumption == Counts \subseteq Nat

OutputFunctions == {"_out_char", "_out_fct", "_out_buffer", "_out_null"}

VARIABLES
  out,        \* the output function
  maxlen,     \* bytes of the buffer; 0 where there is none
  buffer,     \* what _out_buffer has stored
  sent,       \* characters _out_char has sent to the terminal, _out_fct to its function
  idx,        \* characters passed to the output function
  format,     \* items still to come
  pc,
  value,      \* of _ntoa_long: the part not converted yet,
  buf,        \* its buffer, lowest digit first,
  flags,      \* and the flags, which the conversion changes
  ret,
  text        \* history: the characters passed to the output function

call == <<out, maxlen>>
ntoa == <<value, buf, flags>>
vars == <<call, buffer, sent, idx, format, pc, ntoa, ret, text>>

Item == Head(format)

-----------------------------------------------------------------------------
(* The output functions.                                                   *)

Lesser(a, b)  == IF a < b THEN a ELSE b
Greater(a, b) == IF a < b THEN b ELSE a

Repeat(c, k) == [j \in 1 .. k |-> c]

(* _out_buffer, of the characters cs from idx on: past maxlen it stores    *)
(* nothing.                                                                *)
Stored(cs) ==
  [j \in DOMAIN buffer |->
     IF idx <= j /\ j < idx + Len(cs) THEN cs[j - idx + 1] ELSE buffer[j]]

(* _out_char and _out_fct pass every character on but NUL.                 *)
SentOf(cs) == Cardinality({j \in DOMAIN cs : cs[j] # NUL})

Out(cs) ==
  /\ idx' = idx + Len(cs)
  /\ text' = text \o cs
  /\ \/ out = "_out_buffer" /\ buffer' = Stored(cs) /\ UNCHANGED sent
     \/ /\ out \in {"_out_char", "_out_fct"}
        /\ sent' = sent + SentOf(cs)
        /\ UNCHANGED buffer
     \/ out = "_out_null" /\ UNCHANGED <<buffer, sent>>

-----------------------------------------------------------------------------
(* printk, fctprintf, snprintf, and snprintf without a buffer.             *)
Init ==
  /\ out \in OutputFunctions
  /\ maxlen \in IF out = "_out_buffer" THEN Counts ELSE {0}
  /\ buffer = [j \in 0 .. (maxlen - 1) |-> Unset]
  /\ sent = 0
  /\ idx = 0
  /\ format \in Formats
  /\ pc = "item"
  /\ value = 0 /\ buf = <<>> /\ flags = {}
  /\ ret = -1
  /\ text = <<>>

NextItem == pc' = "item" /\ format' = Tail(format)

PlainItem ==
  /\ pc = "item" /\ format # <<>> /\ Item.kind = "plain"
  /\ Out(<<Item.char>>)
  /\ NextItem
  /\ UNCHANGED <<call, ntoa, ret>>

(* Of a string no more than precision characters, padded with spaces.      *)
TextShown ==
  IF Item.kind = "string" /\ "PRECISION" \in Item.flags
    THEN SubSeq(Item.chars, 1, Lesser(Len(Item.chars), Item.precision))
    ELSE Item.chars

TextItem ==
  /\ pc = "item" /\ format # <<>> /\ Item.kind \in {"char", "string"}
  /\ LET pad == Repeat(Space, Greater(0, Item.width - Len(TextShown)))
     IN  Out(IF "LEFT" \in Item.flags THEN TextShown \o pad ELSE pad \o TextShown)
  /\ NextItem
  /\ UNCHANGED <<call, ntoa, ret>>

(* The flags that count: no hash for decimal and for 0, no plus or space   *)
(* for unsigned, no zeros when there is a precision.  %p sets the zeros    *)
(* and takes no other flag away.                                            *)
Hashless == IF Item.base = 10 \/ Item.value = 0 THEN {"HASH"} ELSE {}

PointerFlags == (Item.flags \cup {"ZEROPAD"}) \ Hashless

Relevant ==
  IF Item.kind = "pointer" THEN PointerFlags
  ELSE Item.flags \ UNION {Hashless,
                           IF ~Item.signed THEN {"PLUS", "SPACE"} ELSE {},
                           IF "PRECISION" \in Item.flags THEN {"ZEROPAD"} ELSE {}}

(* Mutant of Absolute: the value itself.                                   *)
AbsoluteForgotten(v) == v
Absolute(v)          == IF v > 0 THEN v ELSE 0 - v

(* With a precision the value 0 has no digit of its own.                   *)
IntItem ==
  /\ pc = "item" /\ format # <<>> /\ Item.kind \in {"integer", "pointer"}
  /\ flags' = Relevant
  /\ value' = Absolute(Item.value)
  /\ buf'   = <<>>
  /\ pc'    = IF "PRECISION" \in Relevant /\ Item.value = 0 THEN "format" ELSE "digits"
  /\ UNCHANGED <<call, buffer, sent, idx, format, ret, text>>

(* Mutant of HasRoom: <= for <.                                            *)
HasRoomForOneMore(s) == Len(s) <= PRINTF_NTOA_BUFFER_SIZE
HasRoom(s)           == Len(s) < PRINTF_NTOA_BUFFER_SIZE

(* A turn of the loop of _ntoa_long and _ntoa_long_long.                   *)
Digit ==
  /\ pc = "digits"
  /\ buf'   = Append(buf, value % Item.base)
  /\ value' = value \div Item.base
  /\ pc'    = IF value' # 0 /\ HasRoom(buf') THEN "digits" ELSE "format"
  /\ UNCHANGED <<call, buffer, sent, idx, format, flags, ret, text>>

-----------------------------------------------------------------------------
(* _ntoa_format: what it appends to the digits, as long as there is room.  *)
Clipped(s) == SubSeq(s, 1, Lesser(Len(s), PRINTF_NTOA_BUFFER_SIZE))

IsNegative == Item.value < 0

(* Room is kept for the sign, not for the prefix of hash.                  *)
Width ==
  IF /\ "LEFT" \notin flags /\ Item.width > 0 /\ "ZEROPAD" \in flags
     /\ IsNegative \/ {"PLUS", "SPACE"} \cap flags # {}
    THEN Item.width - 1 ELSE Item.width

(* Mutant of Zeros: zeros up to the width of the item.                     *)
ZerosUnreserved(s) ==
  LET wanted == Greater(Item.precision, IF "ZEROPAD" \in flags THEN Item.width ELSE 0)
  IN  IF "LEFT" \in flags THEN <<>> ELSE Repeat(0, Greater(0, wanted - Len(s)))

Zeros(s) ==
  LET wanted == Greater(Item.precision, IF "ZEROPAD" \in flags THEN Width ELSE 0)
  IN  IF "LEFT" \in flags THEN <<>> ELSE Repeat(0, Greater(0, wanted - Len(s)))

(* The prefix takes the place of zeros - or of digits, when these alone    *)
(* have the length of the width.                                           *)
Yielded(s) ==
  IF "PRECISION" \notin flags /\ Len(s) > 0 /\ Len(s) \in {Item.precision, Width}
    THEN IF Item.base = 16 /\ Len(s) > 1 THEN 2 ELSE 1
    ELSE 0

Prefix == CASE Item.base = 16 -> <<X, 0>> [] Item.base = 2 -> <<B, 0>> [] OTHER -> <<0>>

WithPrefix(s) ==
  IF "HASH" \in flags THEN SubSeq(s, 1, Len(s) - Yielded(s)) \o Prefix ELSE s

Sign ==
  IF IsNegative THEN <<Minus>>
  ELSE IF "PLUS" \in flags THEN <<Plus>>
  ELSE IF "SPACE" \in flags THEN <<Space>> ELSE <<>>

Format ==
  /\ pc = "format"
  /\ buf' = Clipped(Clipped(WithPrefix(Clipped(buf \o Zeros(buf)))) \o Sign)
  /\ pc'  = "reverse"
  /\ UNCHANGED <<call, buffer, sent, idx, format, value, flags, ret, text>>

(* _out_rev.                                                               *)
Reversed(s) == [j \in 1 .. Len(s) |-> s[Len(s) - j + 1]]

Field ==
  LET pad == Repeat(Space, Greater(0, Item.width - Len(buf)))
  IN  IF "LEFT" \in flags THEN Reversed(buf) \o pad
      ELSE IF "ZEROPAD" \in flags THEN Reversed(buf) ELSE pad \o Reversed(buf)

Reverse ==
  /\ pc = "reverse"
  /\ Out(Field)
  /\ NextItem
  /\ buf' = <<>> /\ value' = 0 /\ flags' = {}
  /\ UNCHANGED <<call, ret>>

-----------------------------------------------------------------------------
(* Mutant of EndAt: idx <= maxlen.                                         *)
EndAtLate == IF idx <= maxlen THEN idx ELSE maxlen - 1

(* Where the final NUL goes; maxlen - 1 of maxlen 0 is a large number.     *)
EndAt == IF idx < maxlen THEN idx ELSE maxlen - 1

Terminate ==
  /\ pc = "item" /\ format = <<>>
  /\ buffer' = IF out = "_out_buffer"
                 THEN [j \in DOMAIN buffer |-> IF j = EndAt THEN NUL ELSE buffer[j]]
                 ELSE buffer
  /\ ret' = idx
  /\ pc'  = "done"
  /\ UNCHANGED <<call, sent, idx, format, ntoa, text>>

Done == pc = "done" /\ UNCHANGED vars

Next ==
  \/ PlainItem \/ TextItem \/ IntItem \/ Digit \/ Format \/ Reverse
  \/ Terminate \/ Done

Spec == Init /\ [][Next]_vars

-----------------------------------------------------------------------------
TypeOK ==
  /\ out \in OutputFunctions
  /\ maxlen \in Nat
  /\ buffer \in [0 .. (maxlen - 1) -> Chars \cup {Unset}]
  /\ sent \in Nat
  /\ text \in Seq(Chars)
  /\ idx \in Nat
  /\ format \in Seq(Plain \cup Text \cup Number)
  /\ pc \in {"item", "digits", "format", "reverse", "done"}
  /\ value \in Nat
  /\ buf \in Seq(Chars)
  /\ flags \in SUBSET Flags
  /\ ret \in Nat \cup {-1}

(* The conversion never leaves its own buffer, whatever width, precision,  *)
(* base and value; the loops test for room before each store.              *)
NtoaInBounds ==
  /\ Len(buf) <= PRINTF_NTOA_BUFFER_SIZE
  /\ pc = "digits" => HasRoom(buf)

(* snprintf, when it returns, has stored the longest prefix of the text    *)
(* that fits, then NUL, and nothing behind it; it returns the length of    *)
(* the whole text, which a count of 0 or no buffer at all serves to learn. *)
StoresPrefix ==
  pc = "done" /\ out \in {"_out_buffer", "_out_null"} =>
    /\ ret = Len(text)
    /\ \A j \in DOMAIN buffer :
         LET end == Lesser(Len(text), maxlen - 1)
         IN  buffer[j] = IF j < end THEN text[j + 1]
                         ELSE IF j = end THEN NUL ELSE Unset

(* fctprintf returns the number of characters it has sent to the output    *)
(* function it was given (printk.h:108).  It returns the number of those   *)
(* passed to _out_fct, which keeps every NUL to itself.                    *)
ReturnsSent == pc = "done" /\ out = "_out_fct" => ret = sent

-----------------------------------------------------------------------------
(* What C says an integer conversion yields, most significant digit first. *)

Magnitude == IF Item.value < 0 THEN -Item.value ELSE Item.value

Power(base, k) ==
  LET power[j \in 0 .. k] == IF j = 0 THEN 1 ELSE base * power[j - 1] IN power[k]

DigitCount == CHOOSE k \in 1 .. Magnitude + 1 :
                /\ Magnitude < Power(Item.base, k)
                /\ k = 1 \/ Magnitude >= Power(Item.base, k - 1)

Digits ==
  IF Magnitude = 0 /\ "PRECISION" \in Item.flags THEN <<>>
  ELSE [j \in 1 .. DigitCount |->
          (Magnitude \div Power(Item.base, DigitCount - j)) % Item.base]

Precise == Repeat(0, Greater(0, Item.precision - Len(Digits))) \o Digits

(* The sign or blank, by the flags C looks at for a signed conversion.     *)
SignC ==
  IF ~Item.signed THEN <<>>
  ELSE IF Item.value < 0 THEN <<Minus>>
  ELSE IF "PLUS" \in Item.flags THEN <<Plus>>
  ELSE IF "SPACE" \in Item.flags THEN <<Space>> ELSE <<>>

(* '#' writes 0x in front of a number other than 0.                        *)
HashC ==
  IF "HASH" \in Item.flags /\ Item.base = 16 /\ Item.value # 0 THEN <<0, X>> ELSE <<>>

Reference ==
  LET before == SignC \o HashC
      body   == before \o Precise
      fill   == Greater(0, Item.width - Len(body))
  IN  IF "LEFT" \in Item.flags THEN body \o Repeat(Space, fill)
      ELSE IF "ZEROPAD" \in Item.flags /\ "PRECISION" \notin Item.flags
             THEN before \o Repeat(0, fill) \o Precise
             ELSE Repeat(Space, fill) \o body

(* '-' takes the zeros of '0' away.                                        *)
PadsZeros == "ZEROPAD" \in flags /\ "LEFT" \notin flags

(* What a conversion writes and pads with zeros fits its buffer.           *)
Fits == Len(SignC \o HashC \o Precise) <= PRINTF_NTOA_BUFFER_SIZE
          /\ (PadsZeros => Item.width <= PRINTF_NTOA_BUFFER_SIZE)

(* The prefix takes the place of digits when these fill the width, or, with *)
(* zeros, all of it but one place.                                         *)
PrefixTakesDigits ==
  /\ "HASH" \in flags /\ "PRECISION" \notin flags
  /\ \/ Len(Digits) = Item.width
     \/ Len(Digits) = Item.width - 1 /\ PadsZeros

(* The field of an integer is what C asks for when it fits the buffer of   *)
(* the conversion, '#' in base 16 included - except that '-' makes         *)
(* printk.c forget the precision, and '#' some digits.                     *)
FormatsAsC ==
  (/\ pc = "reverse" /\ Item.kind = "integer" /\ Fits
   /\ "HASH" \in flags => Item.base = 16 /\ ~PrefixTakesDigits
   /\ "LEFT" \in flags => Item.precision <= Len(Digits))
     => Field = Reference
=============================================================================
