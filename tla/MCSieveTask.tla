----------------------------- MODULE MCSieveTask -----------------------------
(***************************************************************************)
(* One call of the kernel, of every kind, and the sieve up to 20 on pages  *)
(* of 7 words.  The calls have one conversion with every type, and widths  *)
(* below and above the length of what is shown, between a character and a  *)
(* percent sign; or two conversions, for the order of the arguments.       *)
(***************************************************************************)
EXTENDS SieveTask

MCCharacters ==
  {Lower[k] : k \in 1 .. 16} \cup {Upper[k] : k \in 1 .. 16} \cup Flags
  \cup {"%", "(", ")", "c", "i", "k", "l", "m", "n", "o", "p", "s", "u", "x", "X", "y", "z"}

FlagSeqs == {<<>>, <<"#">>, <<"0">>, <<"-">>, <<" ">>, <<"+">>, <<"0", "-">>,
             <<"-", "0", "#">>, <<"+", "0">>, <<" ", "+">>, <<"#", "0">>}
Widths == {0, 3, 12}
Sizes == {0, 4, Unlimited}

\* The least and the greatest of both widths, and their neighbours.
Numbers == {Num(n) : n \in {0, 1, 7, 8, 15, 31, 32, 63}}

ArgsOf(type) ==
  CASE type = "c" -> {Str(<<"y">>)}
    [] type = "s" -> {Null, Str(<<>>), Str(<<"y", "z">>)}
    [] type \in Types -> Numbers
    [] OTHER -> {Null}

Single ==
  UNION {{Conversion(f, w, l, t, a) : f \in FlagSeqs, w \in Widths, l \in BOOLEAN, a \in ArgsOf(t)}
           : t \in Types \cup {"k"}}

Pairs ==
  {<<Conversion(<<>>, 0, FALSE, t, IF t = "s" THEN Str(<<"y">>) ELSE Num(10)), Conversion(f, 3, TRUE, u, Num(33))>>
     : t \in {"s", "d", "k", "p"}, u \in {"x", "d", "b"}, f \in {<<>>, <<"0", "#">>}}

MCKernelCalls ==
  {[items |-> <<Plain(<<"m">>), c, Percent>>, size |-> n] : c \in Single, n \in Sizes}
  \cup {[items |-> p, size |-> n] : p \in Pairs, n \in Sizes}
=============================================================================
