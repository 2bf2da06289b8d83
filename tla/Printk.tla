-------------------------------- MODULE Printk --------------------------------
(***************************************************************************)
(* The formatted output of the two kernels (kernel/printk.c of Rackdoll    *)
(* and guest/printk.c of Janus, the same file): printk() to the console,   *)
(* snprintk() to a buffer of some size.  One step is one turn of the loop  *)
(* of vhprintk(), or half of one.  A call ends before anything else goes   *)
(* on.                                                                     *)
(***************************************************************************)
EXTENDS Formatting

VARIABLES
  call,     \* the items and the size that the caller gave, or Idle
  input,    \* what is left of the format
  args,     \* what is left of the arguments
  fmt,      \* a percent sign has been read
  format,   \* the conversion that has been read, or NoFormat
  out,      \* the characters that the handler took
  stop,     \* the handler has refused one
  astray    \* the format has been read past its end, whatever lies there

printvars == <<call, input, args, fmt, format, out, stop, astray>>

Idle == [items |-> <<>>, size |-> 0]

NoFormat == [flags |-> {}, width |-> 0, long |-> FALSE, type |-> "none"]

PrintkInit ==
  /\ call = Idle
  /\ input = <<>> /\ args = <<>>
  /\ fmt = FALSE /\ stop = FALSE /\ astray = FALSE
  /\ out = <<>>
  /\ format = NoFormat

-----------------------------------------------------------------------------
(* vhprintk_read_format()                                                  *)

\* How many characters of S there are in s from the (k+1)-th one on.
Span(s, k, S) ==
  CHOOSE n \in 0 .. Len(s) - k :
    /\ \A j \in k + 1 .. k + n : s[j] \in S
    /\ k + n < Len(s) => s[k + n + 1] \notin S

DigitOf(c) == CHOOSE d \in 0 .. 9 : Lower[d + 1] = c

Number(s) ==
  LET minimum_size[k \in 0 .. Len(s)] ==
        IF k = 0 THEN 0 ELSE minimum_size[k - 1] * 10 + DigitOf(s[k])
  IN  minimum_size[Len(s)]

\* Past the end of the format.
At(s, k) == IF k <= Len(s) THEN s[k] ELSE "end"

\* Seeded fault: the character after the flags is dropped, not put back.
FaultyReadFormat(s) ==
  LET f    == Span(s, 0, Flags) + 1
      w    == f + Span(s, f, Digits)
      long == At(s, w + 1) = "l"
  IN  [flags |-> {s[k] : k \in 1 .. f - 1}, width |-> Number(SubSeq(s, f + 1, w)),
       long |-> long, type |-> At(s, w + (IF long THEN 2 ELSE 1)),
       read |-> w + (IF long THEN 2 ELSE 1)]

\* The flags and digits that s begins with, its type, and how much is read.
ReadFormat(s) ==
  LET f    == Span(s, 0, Flags)
      w    == f + Span(s, f, Digits)
      long == At(s, w + 1) = "l"
  IN  [flags |-> {s[k] : k \in 1 .. f}, width |-> Number(SubSeq(s, f + 1, w)),
       long |-> long, type |-> At(s, w + (IF long THEN 2 ELSE 1)),
       read |-> w + (IF long THEN 2 ELSE 1)]

\* A %p is a %#lx.
Pointer(f) == IF f.type = "p"
              THEN [flags |-> f.flags \cup {"#"}, width |-> f.width, long |-> TRUE, type |-> "x"]
              ELSE f

-----------------------------------------------------------------------------
(* vhprintk_print_*(): the characters of a conversion.                     *)

number_length(n, b) ==
  LET length[k \in 0 .. n] == IF k < b THEN 1 ELSE length[k \div b] + 1
  IN  length[n]

\* Digit by digit, with a divisor that ends at 1.
print_radical(n, b, digits) ==
  LET len == number_length(n, b)
      div[j \in 0 .. len] == IF j = 0 THEN 1 ELSE div[j - 1] * b
  IN  [k \in 1 .. len |-> digits[((n % div[len - k + 1]) \div div[len - k]) + 1]]

\* Seeded fault: the fill characters go before the prefix, zeros too.
FaultyNumber(f, n, b, prefix, digits) ==
  LET body == prefix \o print_radical(n, b, digits)
      pad  == Repeat(IF "0" \in f.flags THEN "0" ELSE " ", f.width - Len(body))
  IN  IF "-" \in f.flags THEN body \o Repeat(" ", f.width - Len(body)) ELSE pad \o body

print_number(f, n, b, prefix, digits) ==
  LET body == print_radical(n, b, digits)
      pad  == f.width - Len(prefix) - Len(body)
      left == "-" \notin f.flags
      zero == "0" \in f.flags
  IN  (IF left /\ ~zero THEN Repeat(" ", pad) ELSE <<>>) \o prefix
      \o (IF left /\ zero THEN Repeat("0", pad) ELSE <<>>) \o body
      \o (IF left THEN <<>> ELSE Repeat(" ", pad))

\* va_arg(): an int is the low part of what the caller passed.
Bits(f) == IF f.long THEN LongBits ELSE IntBits
VaArg(f) == Head(args).num % 2^Bits(f)

SignOf(f) == IF " " \in f.flags THEN <<" ">> ELSE IF "+" \in f.flags THEN <<"+">> ELSE <<>>

\* The int is extended to a long before it is negated, and the opposite of the
\* least long wraps to itself.
print_signed(f) ==
  LET v   == VaArg(f)
      neg == v >= 2^(Bits(f) - 1)
      arg == IF neg THEN v - 2^Bits(f) ELSE v
  IN  print_number(f, (IF neg THEN -arg ELSE arg) % 2^LongBits, 10,
                   IF neg THEN <<"-">> ELSE SignOf(f), Lower)

\* The cases of vhprintk() fall through, from X down to b.
Base == [X |-> 6 + 2 + 6 + 2, x |-> 6 + 2 + 6 + 2, u |-> 2 + 6 + 2, o |-> 6 + 2, b |-> 2]

print_unsigned(f) ==
  LET alternate == [X |-> <<"0", "x">>, x |-> <<"0", "x">>, o |-> <<"0">>, b |-> <<"0", "b">>]
      prefix    == IF f.type = "u" THEN SignOf(f)
                   ELSE IF "#" \in f.flags THEN alternate[f.type] ELSE <<>>
  IN  print_number(f, VaArg(f), Base[f.type], prefix, IF f.type = "X" THEN Upper ELSE Lower)

\* print_char() and print_string(): s in its field, at least pad blanks long.
print_text(f, s, least) ==
  LET pad == Repeat(" ", IF f.width > Len(s) THEN f.width - Len(s) ELSE least)
  IN  IF "-" \in f.flags THEN s \o pad ELSE pad \o s

print_string(f) ==
  LET s == IF Head(args) = Null THEN <<"(", "n", "u", "l", "l", ")">> ELSE Head(args).chars
  IN  print_text(f, s, IF s = <<>> /\ " " \in f.flags THEN 1 ELSE 0)

Converted(f) ==
  CASE f.type = "c"           -> print_text(f, Head(args).chars, 0)
    [] f.type \in {"d", "i"}  -> print_signed(f)
    [] f.type = "s"           -> print_string(f)
    [] f.type \in DOMAIN Base -> print_unsigned(f)
    [] OTHER                  -> <<>>

-----------------------------------------------------------------------------
(* vhprintk()                                                              *)

\* vhprintk_print_one() for each character of s, until the handler refuses.
print_each(s) ==
  LET room == IF call.size = Unlimited THEN Len(s) ELSE call.size - Len(out)
  IN  /\ out' = out \o SubSeq(s, 1, IF Len(s) <= room THEN Len(s) ELSE room)
      /\ stop' = (stop \/ Len(s) > room)

\* printk(), snprintk()
Printk(items, size) ==
  /\ call = Idle
  /\ call' = [items |-> items, size |-> size]
  /\ input' = Text(items)
  /\ args' = Arguments(items)
  /\ out' = <<>>
  /\ UNCHANGED <<fmt, format, stop, astray>>

Turning == call # Idle /\ input # <<>> /\ ~stop /\ format = NoFormat

PercentRead ==
  /\ Turning
  /\ Head(input) = "%" /\ ~fmt
  /\ fmt' = TRUE
  /\ input' = Tail(input)
  /\ UNCHANGED <<call, args, format, out, stop, astray>>

\* Any other character, or a second percent sign.
PlainRead ==
  /\ Turning
  /\ (Head(input) = "%") = fmt
  /\ print_each(<<Head(input)>>)
  /\ fmt' = FALSE
  /\ input' = Tail(input)
  /\ UNCHANGED <<call, args, format, astray>>

FormatRead ==
  /\ Turning
  /\ Head(input) # "%" /\ fmt
  /\ LET f == ReadFormat(input)
     IN  /\ format' = [flags |-> f.flags, width |-> f.width, long |-> f.long, type |-> f.type]
         /\ input' = SubSeq(input, f.read + 1, Len(input))
         /\ astray' = (f.read > Len(input))
  /\ UNCHANGED <<call, args, fmt, out, stop>>

\* The argument is taken and printed, the same turn of the loop goes on.
Convert ==
  /\ format # NoFormat
  /\ print_each(Converted(Pointer(format)))
  /\ args' = IF format.type \in Types THEN Tail(args) ELSE args
  /\ fmt' = FALSE
  /\ format' = NoFormat
  /\ UNCHANGED <<call, input, astray>>

\* The end of the format, or of the buffer: the length is returned.
Returns ==
  /\ call # Idle /\ format = NoFormat
  /\ input = <<>> \/ stop
  /\ call' = Idle
  /\ input' = <<>> /\ args' = <<>> /\ fmt' = FALSE /\ stop' = FALSE
  /\ UNCHANGED <<format, out, astray>>

Turn == PercentRead \/ PlainRead \/ FormatRead \/ Convert \/ Returns

-----------------------------------------------------------------------------
\* What has been printed is the beginning of what the items show, and once the
\* call has nothing more to read it is all of that, or as much as the buffer
\* holds: no order of flags, no width, no sign and no digit makes vhprintk()
\* (printk.c:284) show anything else, or take the argument of another
\* conversion.
PrintsAsFormatted ==
  call # Idle => LET shown == Shown(call.items, call.size)
                 IN  /\ IsPrefix(out, shown)
                     /\ format = NoFormat /\ (input = <<>> \/ stop) => out = shown /\ (stop \/ args = <<>>)

\* A format whose conversions are complete is never read past its end
\* (printk.c:85-118): vhprintk_read_format() leaves the input on the character
\* after the type, however many flags and digits come before it.
StaysInFormat == ~astray

=============================================================================
