------------------------------ MODULE Formatting ------------------------------
(***************************************************************************)
(* What a caller of printk() writes and what it expects to see: a text     *)
(* with conversions in it, each with its own argument, shown as a field of *)
(* some width.  How the format is read, character by character, is in      *)
(* Printk.                                                                 *)
(***************************************************************************)
EXTENDS Integers, SequencesExt

CONSTANTS
  Characters, \* the characters that a format, a text and a number are made of
  IntBits,    \* bound: the width of an int, 32
  LongBits    \* bound: the width of a long, 64

ASSUME FormattingAssumption ==
  /\ IntBits \in Nat \ {0}
  /\ LongBits \in Nat
  /\ LongBits > IntBits

\* An argument: a number, or an address that is not 0 and the characters that
\* are there (or the character itself).
Num(n) == [num |-> n, chars |-> <<>>]
Str(s) == [num |-> 1, chars |-> s]
Null   == Num(0)

Unlimited == -1         \* the size of the console

Lower == <<"0", "1", "2", "3", "4", "5", "6", "7", "8", "9", "a", "b", "c", "d", "e", "f">>
Upper == <<"0", "1", "2", "3", "4", "5", "6", "7", "8", "9", "A", "B", "C", "D", "E", "F">>

\* An item of a format: plain characters, a percent sign, or a conversion.
Plain(s) == [kind |-> "plain", chars |-> s]
Percent  == [kind |-> "percent"]
Conversion(flags, width, long, type, arg) ==
  [kind |-> "conversion", flags |-> flags, width |-> width, long |-> long,
   type |-> type, arg |-> arg]

\* The types without an argument are those that printk() does not know.
Types == {"c", "d", "i", "s", "X", "x", "u", "o", "b", "p"}

Flags == {"#", "0", "-", " ", "+"}
Digits == {Lower[k] : k \in 1 .. 10}

ASSUME CharactersAssumption ==
  /\ \A k \in 1 .. 16 : Lower[k] \in Characters /\ Upper[k] \in Characters
  /\ Flags \cup {"%", "l", "x", "(", "n", "u", ")"} \subseteq Characters
  /\ "none" \notin Characters

\* What a format is made of: text without a percent sign in it, and complete
\* conversions, whose type is a character that cannot be part of what is
\* before it.
Argument == [num : Int, chars : Seq(Characters)]
Item ==
  [kind : {"plain"}, chars : Seq(Characters \ {"%"}) \ {<<>>}]
  \cup {Percent}
  \cup [kind : {"conversion"}, flags : Seq(Flags), width : Nat, long : BOOLEAN,
        type : Characters \ (Flags \cup Digits \cup {"l", "%"}), arg : Argument]

-----------------------------------------------------------------------------
(* How an item is written.                                                 *)

Numeral(n, b, digits) ==
  LET N[k \in 0 .. n] == IF k < b THEN <<digits[k + 1]>>
                                  ELSE Append(N[k \div b], digits[(k % b) + 1])
  IN  N[n]

ItemText(i) ==
  CASE i.kind = "plain"   -> i.chars
    [] i.kind = "percent" -> <<"%", "%">>
    [] OTHER -> <<"%">> \o i.flags
                \o (IF i.width = 0 THEN <<>> ELSE Numeral(i.width, 10, Lower))
                \o (IF i.long THEN <<"l">> ELSE <<>>) \o <<i.type>>

Text(items) == FlattenSeq([k \in DOMAIN items |-> ItemText(items[k])])

ArgumentOf(i) == IF i.kind = "conversion" /\ i.type \in Types THEN <<i.arg>> ELSE <<>>
Arguments(items) == FlattenSeq([k \in DOMAIN items |-> ArgumentOf(items[k])])

-----------------------------------------------------------------------------
(* What it shows.                                                          *)

Repeat(c, n) == [k \in 1 .. n |-> c]

\* A body of its own length, or filled up to the width of the field.
Field(flags, width, sign, body) ==
  LET missing == width - Len(sign) - Len(body)
  IN  CASE "-" \in flags -> sign \o body \o Repeat(" ", missing)
        [] "-" \notin flags /\ "0" \in flags -> sign \o Repeat("0", missing) \o body
        [] OTHER          -> Repeat(" ", missing) \o sign \o body

NumberField(i, sign, body) == Field(Range(i.flags), i.width, sign, body)

\* A number of the width of its type.
ValueBits(i) == IF i.long \/ i.type = "p" THEN LongBits ELSE IntBits
Value(i) == i.arg.num % 2^ValueBits(i)

Plus(i) == IF " " \in Range(i.flags) THEN <<" ">>
           ELSE IF "+" \in Range(i.flags) THEN <<"+">> ELSE <<>>

Radical(i, sign, b, digits) ==
  NumberField(i, IF "#" \in Range(i.flags) THEN sign ELSE <<>>, Numeral(Value(i), b, digits))

Decimal(i) ==
  IF Value(i) >= 2^(ValueBits(i) - 1)
  THEN NumberField(i, <<"-">>, Numeral(2^ValueBits(i) - Value(i), 10, Lower))
  ELSE NumberField(i, Plus(i), Numeral(Value(i), 10, Lower))

\* Text is never filled with zeros.
Words(i, s) == Field(Range(i.flags) \ {"0"}, i.width, <<>>, s)

Quoted(i) ==
  IF i.arg = Null THEN Words(i, <<"(", "n", "u", "l", "l", ")">>)
  ELSE IF i.arg.chars = <<>> /\ i.width = 0 /\ " " \in Range(i.flags) THEN <<" ">>
  ELSE Words(i, i.arg.chars)

ConversionShown(i) ==
  CASE i.type \in {"d", "i"} -> Decimal(i)
    [] i.type = "u" -> NumberField(i, Plus(i), Numeral(Value(i), 10, Lower))
    [] i.type = "x" -> Radical(i, <<"0", "x">>, 16, Lower)
    [] i.type = "p" -> NumberField(i, <<"0", "x">>, Numeral(Value(i), 16, Lower))
    [] i.type = "X" -> Radical(i, <<"0", "x">>, 16, Upper)
    [] i.type = "o" -> Radical(i, <<"0">>, 8, Lower)
    [] i.type = "b" -> Radical(i, <<"0", "b">>, 2, Lower)
    [] i.type = "c" -> Words(i, i.arg.chars)
    [] i.type = "s" -> Quoted(i)
    [] OTHER        -> <<>>

ItemShown(i) ==
  CASE i.kind = "plain"   -> i.chars
    [] i.kind = "percent" -> <<"%">>
    [] OTHER              -> ConversionShown(i)

AllShown(items) == FlattenSeq([k \in DOMAIN items |-> ItemShown(items[k])])

\* What a buffer of a given size, or the console, holds in the end.
Shown(items, size) ==
  LET all == AllShown(items)
  IN  IF size = Unlimited \/ Len(all) <= size THEN all ELSE SubSeq(all, 1, size)
=============================================================================
