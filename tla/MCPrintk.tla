------------------------------ MODULE MCPrintk ------------------------------
(* A conversion buffer of 6 characters, and types of 2, 4 and 6 bits; a    *)
(* pointer has 4 digits.                                                   *)
(*                                                                         *)
(* Numbers: one conversion, of every kind and with every set of flags,     *)
(* whose digits and padding end before, at and behind the buffer's end.    *)
(* Pieces: two items that end before, at and behind the caller's buffer.   *)
(* Fields: a conversion in which every field is written in every way, in   *)
(* front of another one, or cut off after every character.                 *)
EXTENDS PrintkFormat

S == INSTANCE SequencesExt

(* A field: its text, the argument of its star, and what it means.         *)
None == <<<<>>, <<>>, 0>>
W(digits, n) == <<digits, <<>>, n>>

Conversion(fs, w, p, l, conv, v) ==
  [flags |-> fs, width |-> w[1], precision |-> p[1], stars |-> w[2] \o p[2],
   meant |-> <<w[3], p[3]>>, length |-> l, conv |-> conv, value |-> v]

Plain1 == Conversion(<<>>, None, None, <<>>, "other", 0)

FlagTexts == {S!SetToSeq(fs) : fs \in SUBSET FlagChars}

NumbersOf(convs, values) ==
  {Conversion(fs, w, p, <<"l">>, conv, v) :
     fs \in FlagTexts,
     w \in {None, W(<<"2">>, 2), W(<<"3">>, 3), W(<<"8">>, 8)},
     p \in {None, W(<<".">>, 0), W(<<".", "4">>, 4), W(<<".", "7">>, 7)},
     conv \in convs, v \in values}

Pointers ==
  {Conversion(fs, None, None, <<>>, "p", v) : fs \in FlagTexts, v \in {0, 42, 70000}}

Numbers == NumbersOf({"d"}, {-421, -7, 0, 35, 100000})
             \cup NumbersOf({"u", "o", "x", "b"}, {0, 5, 700, 70000}) \cup Pointers

(* 65 wraps to 1; the stars' arguments may be negative.                    *)
Widths     == {None, W(<<"7">>, 7), W(<<"1", "0">>, 10), W(<<"6", "5">>, 1),
               <<<<"*">>, <<5>>, 5>>, <<<<"*">>, <<-3>>, -3>>}
Precisions == {None, W(<<".">>, 0), W(<<".", "0", "2">>, 2), <<<<".", "*">>, <<4>>, 4>>,
               <<<<".", "*">>, <<-2>>, 0>>}

Fields ==
  {Conversion(fs, w, p, l, "i", -27) :
     fs \in {<<>>, <<"-">>, <<"0", "#", "0">>, <<" ", "+">>}, w \in Widths,
     p \in Precisions, l \in LengthTexts}

Followers ==
  {Plain1,
   Conversion(<<>>, W(<<"7">>, 7), None, <<"z">>, "%", 0),
   Conversion(<<>>, None, None, <<>>, "s", <<Other, Other>>),
   Conversion(<<"-">>, <<<<"*">>, <<8>>, 8>>, None, <<"h">>, "X", 30)}

Pieces ==
  {Conversion(fs, w, p, <<>>, "s", <<Other, Other, Other>>) :
     fs \in {<<>>, <<"-">>}, w \in {None, W(<<"4">>, 4)}, p \in {None, W(<<".", "2">>, 2)}}
  \cup {Conversion(fs, w, None, <<>>, "c", c) :
          fs \in {<<>>, <<"-">>}, w \in {None, W(<<"2">>, 2)}, c \in {Other, NUL}}
  \cup {Conversion(fs, w, None, <<>>, "d", v) :
          fs \in {<<>>, <<"0">>}, w \in {None, W(<<"4">>, 4)}, v \in {-31, 0}}
  \cup {Plain1}

Whole(conversions) == [conversions |-> conversions, missing |-> 0]

Cut(c) ==
  {[conversions |-> c, missing |-> k] : k \in 0 .. Len(Written(c[Len(c)])) - 1}

MCCalls == {Whole(<<>>)} \cup {Whole(<<n>>) : n \in Numbers}
             \cup {Whole(pp) : pp \in Pieces \X Pieces}
             \cup {Whole(c) : c \in Fields \X Followers}
             \cup UNION {Cut(c) : c \in {<<f>> : f \in Fields} \cup Followers \X Followers}

MCFormats ==
  {[k \in 1 .. Len(c.conversions) |-> Meant(c.conversions[k])] : c \in MCCalls}
=============================================================================
