---------------------------- MODULE PrintkFormat ----------------------------
(***************************************************************************)
(* A whole call of _vsnprintf in kernel/src/printk/printk.c: the parser of *)
(* the format - flags, width, precision, length and specifier of every     *)
(* conversion, and the arguments each of them takes - driving the          *)
(* conversions and the output of Printk, to which it hands one item at a   *)
(* time.                                                                   *)
(*                                                                         *)
(* A call is given as the conversions its format was written from, and the *)
(* number of characters missing at the end of the format.                  *)
(***************************************************************************)
EXTENDS Printk

CONSTANTS
  Calls,                \* what callers write
  Uchar, Ushort, Uint,  \* number of values of unsigned char, short and int
  PointerDigits         \* sizeof(void*) * 2

ASSUME TypesAssumption ==
  /\ {Uchar, Ushort, Uint} \subseteq Nat \ {0} /\ Uchar <= Ushort /\ Ushort <= Uint
  /\ PointerDigits \in Nat

DigitChars == <<"0", "1", "2", "3", "4", "5", "6", "7", "8", "9">>
IsDigit(c)    == \E k \in 1 .. 10 : DigitChars[k] = c
DigitValue(c) == (CHOOSE k \in 1 .. 10 : DigitChars[k] = c) - 1

FlagChars == {"0", "-", "+", " ", "#"}

FlagOf(c) == CASE c = "0" -> "ZEROPAD" [] c = "-" -> "LEFT" [] c = "+" -> "PLUS"
               [] c = " " -> "SPACE" [] c = "#" -> "HASH"

SignedConversions  == {"d", "i"}
IntegerConversions == SignedConversions \cup {"u", "x", "X", "o", "b"}

(* Specifiers that take an argument; %% and any other character take none. *)
Takes == IntegerConversions \cup {"c", "s", "p"}

VARIABLES
  given,    \* history: the call as it was written
  string,   \* the format, up to and with its NUL
  args,     \* the arguments
  pos, va,  \* the next character and the next argument
  at,       \* the field being parsed
  opts,     \* flags of the conversion
  width, precision,
  parsed    \* history: conversions and plain characters taken from the format

input  == <<given, string, args>>
fields == <<opts, width, precision>>
parser == <<input, pos, va, at, fields, parsed>>
callVars == <<vars, parser>>

-----------------------------------------------------------------------------
(* How a conversion is written, and its arguments: those of its stars, and *)
(* its value.                                                              *)
Written(c) ==
  IF c.conv = "other" THEN <<"other">>
  ELSE <<"%">> \o c.flags \o c.width \o c.precision \o c.length \o <<c.conv>>

ArgsOf(c) == c.stars \o (IF c.conv \in Takes THEN <<c.value>> ELSE <<>>)

(* The first k of some sequences, joined.                                  *)
Joined(ss, k) ==
  LET up[j \in 0 .. k] == IF j = 0 THEN <<>> ELSE up[j - 1] \o ss[j] IN up[k]

Texts(c)     == [k \in 1 .. Len(c.conversions) |-> Written(c.conversions[k])]
Arguments(c) == [k \in 1 .. Len(c.conversions) |-> ArgsOf(c.conversions[k])]

(* What callers write.  A number is a star or digits, the first of a width *)
(* not 0, which is a flag; the argument of a star is an int.  "meant" is   *)
(* the width, negative for one from the left, and the precision, 0 where   *)
(* none is given; a number of digits is an unsigned int.                   *)
Numerals == {DigitChars[k] : k \in 1 .. 10}

IsNumber(chars) == chars = <<"*">> \/ chars \in Seq(Numerals)

StarsIn(chars) == IF chars = <<"*">> THEN 1 ELSE 0

Decimal(chars) ==
  LET up[k \in 0 .. Len(chars)] ==
        IF k = 0 THEN 0 ELSE up[k - 1] * 10 + DigitValue(chars[k])
  IN  up[Len(chars)]

Means(chars, star) == IF chars = <<"*">> THEN star ELSE Decimal(chars) % Uint

AfterPoint(c) == IF c.precision = <<>> THEN <<>> ELSE Tail(c.precision)

LengthTexts ==
  {<<>>, <<"l">>, <<"l", "l">>, <<"h">>, <<"h", "h">>, <<"t">>, <<"j">>, <<"z">>}

(* Characters a specifier is not.                                          *)
FieldChars ==
  FlagChars \cup Numerals \cup {"*", ".", "l", "h", "t", "j", "z", "NUL", "unknown"}

WellWritten(c) ==
  /\ c.flags \in Seq(FlagChars)
  /\ IsNumber(c.width) /\ (c.width # <<>> => c.width[1] # "0")
  /\ IsNumber(AfterPoint(c)) /\ c.precision \in {<<>>, <<".">> \o AfterPoint(c)}
  /\ c.length \in LengthTexts
  /\ c.conv \notin FieldChars
  /\ c.conv \in IntegerConversions => c.value \in Int
  /\ c.conv = "other" => c.stars = <<>>
  /\ c.stars \in Seq(1 - Uint .. Uint - 1)
  /\ Len(c.stars) = StarsIn(c.width) + StarsIn(AfterPoint(c))
  /\ c.meant = <<Means(c.width, c.stars[1]),
                 Greater(0, Means(AfterPoint(c), c.stars[Len(c.stars)]))>>

(* Only the last conversion is cut, and not at its first character.        *)
ASSUME CallsAssumption ==
  \A c \in Calls :
    LET n == Len(c.conversions)
    IN  /\ n \in Nat /\ \A k \in 1 .. n : WellWritten(c.conversions[k])
        /\ c.missing \in 0 .. IF n = 0 THEN 0 ELSE Len(Written(c.conversions[n])) - 1

CallInit ==
  /\ given \in Calls
  /\ LET whole == Joined(Texts(given), Len(given.conversions))
     IN  string = Append(SubSeq(whole, 1, Len(whole) - given.missing), "NUL")
  /\ args = Joined(Arguments(given), Len(given.conversions))
  /\ pos = 1 /\ va = 1 /\ at = "item"
  /\ opts = {} /\ width = 0 /\ precision = 0
  /\ parsed = 0
  /\ out \in OutputFunctions
  /\ maxlen \in IF out = "_out_buffer" THEN Counts ELSE {0}
  /\ buffer = [j \in 0 .. (maxlen - 1) |-> Unset]
  /\ sent = 0 /\ idx = 0 /\ ret = -1 /\ text = <<>>
  /\ pc = "item" /\ format = <<>>
  /\ value = 0 /\ buf = <<>> /\ flags = {}

Char(p) == IF p \in DOMAIN string THEN string[p] ELSE "unknown"

(* The parser goes on when the item it has handed over is written.         *)
Parses(field) == at = field /\ pc = "item" /\ format = <<>>

HandsOver(item) ==
  /\ format' = <<item>>
  /\ parsed' = parsed + 1
  /\ UNCHANGED <<call, buffer, sent, idx, pc, ntoa, ret, text>>

Goes(field) == at' = field /\ UNCHANGED <<vars, parsed>>

CharItem(c) == [kind |-> "plain", char |-> IF c = "NUL" THEN NUL ELSE Other]

PlainChar ==
  /\ Parses("item") /\ Char(pos) \notin {"%", "NUL", "unknown"}
  /\ HandsOver(CharItem(Char(pos)))
  /\ pos' = pos + 1
  /\ UNCHANGED <<input, va, at, fields>>

Percent ==
  /\ Parses("item") /\ Char(pos) = "%"
  /\ pos' = pos + 1 /\ opts' = {}
  /\ Goes("flags")
  /\ UNCHANGED <<input, va, width, precision>>

Flag ==
  /\ Parses("flags") /\ Char(pos) \in FlagChars
  /\ opts' = opts \cup {FlagOf(Char(pos))}
  /\ pos' = pos + 1
  /\ UNCHANGED <<vars, input, va, at, width, precision, parsed>>

(* _atoi: the end of the digits from p on, and the value of n of them.      *)
EndOfDigits(p) ==
  CHOOSE q \in p .. Len(string) :
    ~IsDigit(string[q]) /\ \A r \in p .. q - 1 : IsDigit(string[r])

Atoi(p, n) ==
  LET up[k \in 0 .. n] ==
        IF k = 0 THEN 0 ELSE (up[k - 1] * 10 + DigitValue(string[p + k - 1])) % Uint
  IN  up[n]

(* A number, a star with its argument, or neither.                         *)
NumberAt(p) ==
  IF IsDigit(Char(p))
    THEN [next |-> EndOfDigits(p), value |-> Atoi(p, EndOfDigits(p) - p), stars |-> 0]
  ELSE IF Char(p) = "*" THEN [next |-> p + 1, value |-> args[va], stars |-> 1]
  ELSE [next |-> p, value |-> 0, stars |-> 0]

(* A negative width is one for the left.                                   *)
WidthField ==
  /\ Parses("flags") /\ Char(pos) \notin FlagChars
  /\ LET n == NumberAt(pos)
     IN  /\ pos' = n.next /\ va' = va + n.stars
         /\ width' = IF n.value < 0 THEN -n.value ELSE n.value
         /\ opts' = IF n.value < 0 THEN opts \cup {"LEFT"} ELSE opts
  /\ Goes("precision")
  /\ UNCHANGED <<input, precision>>

NoPrecision ==
  /\ Char(pos) # "."
  /\ precision' = 0
  /\ UNCHANGED <<pos, va, opts>>

(* A negative precision is 0.                                              *)
PrecisionField ==
  /\ Parses("precision")
  /\ \/ NoPrecision
     \/ /\ Char(pos) = "."
        /\ LET n == NumberAt(pos + 1)
           IN  /\ pos' = n.next /\ va' = va + n.stars
               /\ precision' = IF n.value > 0 THEN n.value ELSE 0
        /\ opts' = opts \cup {"PRECISION"}
  /\ Goes("length")
  /\ UNCHANGED <<input, width>>

(* l, ll, h, hh, t, j and z.                                               *)
LengthFlags ==
  CASE Char(pos) = "l" -> IF Char(pos + 1) = "l" THEN {"LONG", "LONG_LONG"} ELSE {"LONG"}
    [] Char(pos) = "h" -> IF Char(pos + 1) = "h" THEN {"SHORT", "CHAR"} ELSE {"SHORT"}
    [] Char(pos) \in {"t", "j", "z"} -> {"LONG"}
    [] OTHER -> {}

(* Mutant of LengthChars: whatever follows an l or h belongs to it.        *)
LengthCharsTwo == IF Char(pos) \in {"l", "h"} THEN 2 ELSE IF LengthFlags # {} THEN 1 ELSE 0

LengthChars ==
  IF Char(pos) \in {"l", "h"} /\ Char(pos + 1) = Char(pos) THEN 2
  ELSE IF LengthFlags # {} THEN 1 ELSE 0

LengthField ==
  /\ Parses("length")
  /\ opts' = opts \cup LengthFlags
  /\ pos' = pos + LengthChars
  /\ Goes("specifier")
  /\ UNCHANGED <<input, va, width, precision>>

-----------------------------------------------------------------------------
(* The item a specifier makes of the fields before it.                     *)

SignedValue(v, n) == ((v + n \div 2) % n) - n \div 2

(* Mutant of TypeWidth: SHORT, which hh sets as well, is tested first.     *)
TypeWidthShortFirst ==
  IF "SHORT" \in opts THEN Ushort ELSE IF "CHAR" \in opts THEN Uchar ELSE Uint

(* Number of values of the type that is neither long nor long long.        *)
TypeWidth ==
  IF "CHAR" \in opts THEN Uchar ELSE IF "SHORT" \in opts THEN Ushort ELSE Uint

(* The argument, cast to the type its length names.                        *)
Narrowed(v, conv) ==
  IF "LONG" \in opts THEN v
  ELSE IF conv \in SignedConversions THEN SignedValue(v, TypeWidth) ELSE v % TypeWidth

BaseOf(conv) ==
  CASE conv \in {"x", "X"} -> 16 [] conv = "o" -> 8 [] conv = "b" -> 2 [] OTHER -> 10

NumberItem(kind, fs, w, p, v, signed, base) ==
  [kind |-> kind, flags |-> fs, width |-> w, precision |-> p,
   value |-> v, signed |-> signed, base |-> base]

WordItem(kind, fs, w, p, chars) ==
  [kind |-> kind, flags |-> fs, width |-> w, precision |-> p, chars |-> chars]

(* The default case takes any character, the NUL of a cut format as well.  *)
ItemOf(conv) ==
  LET fs == opts \cap Flags
  IN  CASE conv \in IntegerConversions ->
             NumberItem("integer", fs, width, precision, Narrowed(args[va], conv),
                        conv \in SignedConversions, BaseOf(conv))
        [] conv = "p" ->
             NumberItem("pointer", fs, PointerDigits, precision, args[va], FALSE, 16)
        [] conv = "c" -> WordItem("char", fs, width, precision, <<args[va]>>)
        [] conv = "s" -> WordItem("string", fs, width, precision, args[va])
        [] OTHER      -> CharItem(conv)

Specifier ==
  /\ Parses("specifier")
  /\ HandsOver(ItemOf(Char(pos)))
  /\ va' = va + (IF Char(pos) \in Takes THEN 1 ELSE 0)
  /\ pos' = pos + 1 /\ at' = "item"
  /\ UNCHANGED <<input, fields>>

Parser ==
  \/ PlainChar \/ Percent \/ Flag \/ WidthField \/ PrecisionField \/ LengthField
  \/ Specifier

(* Printk's part of the call.                                              *)
Writer ==
  /\ PlainItem \/ TextItem \/ IntItem \/ Digit \/ Format \/ Reverse
  /\ UNCHANGED parser

EndOfFormat ==
  /\ Parses("item") /\ Char(pos) = "NUL"
  /\ Terminate
  /\ UNCHANGED parser

(* The call has returned, or reads what lies behind the format.  What the  *)
(* bytes there are is unknown, and with them all that follows: a cut       *)
(* format is modelled up to here, and no property says how its call ends.  *)
Stays ==
  /\ pc = "done" \/ (Parses("item") /\ Char(pos) = "unknown")
  /\ UNCHANGED callVars

CallNext == Parser \/ Writer \/ EndOfFormat \/ Stays

CallSpec == CallInit /\ [][CallNext]_callVars

-----------------------------------------------------------------------------
(* A format is never read behind its NUL, unless it ends inside a          *)
(* conversion.                                                             *)
ReadsInside == pos > Len(string) => given.missing > 0

-----------------------------------------------------------------------------
(* What a written conversion means: each flag, number, star and length     *)
(* acts on this conversion and on no other; the value is the argument      *)
(* given for it, converted to the type its length names.  So says C, but   *)
(* for a negative star after the point, which C takes for no precision and *)
(* printk.c:644 for 0: there the meaning is printk.c's.                    *)

MeantFlags(c) ==
  {FlagOf(c.flags[k]) : k \in 1 .. Len(c.flags)}
    \cup (IF c.meant[1] < 0 THEN {"LEFT"} ELSE {})
    \cup (IF c.precision # <<>> THEN {"PRECISION"} ELSE {})

Congruent(v, w, n) == (v - w) % n = 0

MeantValue(c) ==
  LET n == CASE c.length = <<"h", "h">> -> Uchar [] c.length = <<"h">> -> Ushort
             [] OTHER -> Uint
  IN  IF c.length \notin {<<>>, <<"h">>, <<"h", "h">>} THEN c.value
      ELSE IF c.conv \in SignedConversions
        THEN CHOOSE v \in -(n \div 2) .. n - 1 - n \div 2 : Congruent(v, c.value, n)
        ELSE CHOOSE v \in 0 .. n - 1 : Congruent(v, c.value, n)

Meant(c) ==
  LET fs == MeantFlags(c)
      w  == IF c.meant[1] < 0 THEN -c.meant[1] ELSE c.meant[1]
      p  == c.meant[2]
  IN  CASE c.conv \in {"d", "i"} -> NumberItem("integer", fs, w, p, MeantValue(c), TRUE, 10)
        [] c.conv = "u" -> NumberItem("integer", fs, w, p, MeantValue(c), FALSE, 10)
        [] c.conv = "o" -> NumberItem("integer", fs, w, p, MeantValue(c), FALSE, 8)
        [] c.conv = "b" -> NumberItem("integer", fs, w, p, MeantValue(c), FALSE, 2)
        [] c.conv \in {"x", "X"} ->
             NumberItem("integer", fs, w, p, MeantValue(c), FALSE, 16)
        [] c.conv = "p" -> NumberItem("pointer", fs, PointerDigits, p, c.value, FALSE, 16)
        [] c.conv = "s" -> WordItem("string", fs, w, p, c.value)
        [] c.conv = "c" -> WordItem("char", fs, w, p, <<c.value>>)
        [] OTHER -> [kind |-> "plain", char |-> Other]

(* The Formats of Printk are those meant by the calls.                     *)
ASSUME FormatsAreMeant ==
  Formats = {[k \in 1 .. Len(c.conversions) |-> Meant(c.conversions[k])] : c \in Calls}

(* What is still to come of the format: the item being written, then what  *)
(* is meant by the rest.                                                   *)
ToCome ==
  format \o [k \in 1 .. Len(given.conversions) - parsed |->
               Meant(given.conversions[parsed + k])]

Abstract == INSTANCE Printk WITH format <- ToCome

(* Parser and writer together do what Printk does with the items meant, of *)
(* which ToCome is the sequence at first: every complete format is parsed  *)
(* as it was written, into items that get their own arguments in their own *)
(* types, and is written to its end.                                       *)
ImplementsPrintk ==
  [][given.missing = 0 => [Abstract!Next]_(Abstract!vars)]_callVars
=============================================================================
