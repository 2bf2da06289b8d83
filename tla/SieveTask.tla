------------------------------ MODULE SieveTask ------------------------------
(***************************************************************************)
(* What the kernel prints, and the sieve of task/sieve.c run on a memory   *)
(* service that keeps the promise the task is written for.  mmap() and     *)
(* munmap() are empty in Rackdoll's kernel/memory.c; those of the Janus    *)
(* guest (guest/memory.c:156, GuestPaging) are what a task asks for here:  *)
(* a page that is mapped is a page of zeros.                               *)
(***************************************************************************)
EXTENDS Printk, FiniteSets

CONSTANTS
  KernelCalls,   \* bound: the calls that the kernel makes, items and size
  MaxSearch,     \* bound: MAX_SEARCH, 4096
  PageWords      \* bound: the words of a page, 512

ASSUME SieveAssumption ==
  /\ \A k \in KernelCalls : k.items \in Seq(Item) /\ k.size \in Nat \cup {Unlimited}
  /\ {"s", "o", "k", "n"} \subseteq Characters
  /\ MaxSearch \in Nat /\ MaxSearch > 2
  /\ PageWords \in Nat \ {0}

VARIABLES
  pc,            \* where the task is
  pages,         \* the pages that it has mapped, by index from __bss_end on
  heap,          \* the next page of number_array()
  flip, flop,    \* the first pages of the two arrays
  index, len,    \* the sieving number, and how many numbers are left
  said           \* what it has printed

taskvars == <<pc, pages, heap, flip, flop, index, len, said>>
sievevars == <<printvars, taskvars>>

SieveInit ==
  /\ PrintkInit
  /\ pc = "loaded"
  /\ pages = [p \in {} |-> 0]
  /\ heap = 0 /\ flip = 0 /\ flop = 0
  /\ index = 0 /\ len = MaxSearch
  /\ said = <<>>

-----------------------------------------------------------------------------
(* Memory, in pages and in arrays.                                         *)

ZeroPage == [w \in 0 .. PageWords - 1 |-> 0]

\* Seeded fault: a page comes back with what it held.
FaultyMapped(ps, S) == [p \in DOMAIN ps \cup S |-> IF p \in DOMAIN ps THEN ps[p] ELSE ZeroPage]

\* ps once the pages of S have been unmapped, those that were mapped, and
\* mapped again.
Mapped(ps, S) == [p \in DOMAIN ps \cup S |-> IF p \in S THEN ZeroPage ELSE ps[p]]

\* The pages of an array, the last one rounded up.
ArrayPages == (MaxSearch + PageWords - 1) \div PageWords
PagesOf(base) == base .. base + ArrayPages - 1

Load(ps, base) ==
  [i \in 0 .. MaxSearch - 1 |-> ps[base + i \div PageWords][i % PageWords]]

\* ps with the first n words of the array at base set to those of f.
Stored(ps, base, f, n) ==
  [p \in DOMAIN ps |->
     [w \in 0 .. PageWords - 1 |->
        LET i == (p - base) * PageWords + w
        IN  IF p \in PagesOf(base) /\ i < n THEN f[i] ELSE ps[p][w]]]

-----------------------------------------------------------------------------
(* main_multiboot2() prints, and runs the task.                            *)
Greet ==
  /\ pc = "loaded"
  /\ \E k \in KernelCalls : Printk(k.items, k.size)
  /\ pc' = "greeted"
  /\ UNCHANGED <<pages, heap, flip, flop, index, len, said>>

\* SYSCALL_PRINT
Say(message) ==
  /\ Printk(<<Conversion(<<>>, 0, FALSE, "s", Str(message))>>, Unlimited)
  /\ said' = Append(said, message)

(* entry()                                                                 *)
Enter ==
  /\ pc = "greeted"
  /\ Say(<<"s">>)
  /\ pc' = "allocate"
  /\ UNCHANGED <<pages, heap, flip, flop, index, len>>

\* number_array(), twice: the first array holds the numbers.
Allocate ==
  /\ pc = "allocate" /\ call = Idle
  /\ LET second == heap + ArrayPages
         mapped == Mapped(pages, PagesOf(heap) \cup PagesOf(second))
     IN  /\ pages' = Stored(mapped, heap, [i \in 0 .. MaxSearch - 1 |-> i], MaxSearch)
         /\ flip' = heap
         /\ flop' = second
         /\ heap' = second + ArrayPages
  /\ pc' = "sieve"
  /\ UNCHANGED <<printvars, index, len, said>>

\* The numbers from index on that no number between 2 and index divides.
Kept(from) ==
  {i \in 0 .. len - 1 : i < index \/ \A j \in 2 .. index - 1 : from[i] % from[j] # 0}

\* The n-th of the numbers of S, from 0.
Nth(S, n) == CHOOSE i \in S : Cardinality({j \in S : j < i}) = n

\* Seeded fault: a number is also divided by the one at index, itself.
FaultyFilter(from) ==
  LET kept == {i \in 0 .. len - 1 : i < index \/ \A j \in 2 .. index : from[i] % from[j] # 0}
  IN  [n \in 0 .. Cardinality(kept) - 1 |-> from[Nth(kept, n)]]

\* filter(): they come one behind the other, in their order.
Filter(from) ==
  LET kept == Kept(from)
  IN  [n \in 0 .. Cardinality(kept) - 1 |-> from[Nth(kept, n)]]

\* One turn of the loop: filter() into flop, realloc_array() of flip, and the
\* two change places.  The task yields every fourth turn, which changes
\* nothing that it has.
Sieve ==
  /\ pc = "sieve"
  /\ index < len
  /\ LET filtered == Filter(Load(pages, flip))
         n        == Cardinality(DOMAIN filtered)
     IN  /\ pages' = Mapped(Stored(pages, flop, filtered, n), PagesOf(flip))
         /\ len' = n
  /\ flip' = flop /\ flop' = flip
  /\ index' = index + 1
  /\ UNCHANGED <<printvars, pc, heap, said>>

\* The count: the expected one is 565 for 4096.
Primes == {p \in 2 .. MaxSearch - 1 : \A d \in 2 .. p - 1 : p % d # 0}

Count ==
  /\ pc = "sieve"
  /\ index >= len
  /\ LET found == Load(pages, flip)
         num   == Cardinality({i \in DOMAIN found : found[i] # 0})
     IN  Say(IF num = 1 + Cardinality(Primes) THEN <<"o", "k">> ELSE <<"n", "o">>)
  /\ pc' = "exit"
  /\ UNCHANGED <<pages, heap, flip, flop, index, len>>

PrintTurn == Turn /\ UNCHANGED taskvars

SieveNext == Greet \/ Enter \/ Allocate \/ Sieve \/ Count \/ PrintTurn

Task == Enter \/ Allocate \/ Sieve \/ Count

\* Nothing takes the processor away from a call of the kernel, and the only
\* task has it back after each of its yields.
SieveSpec == SieveInit /\ [][SieveNext]_sievevars /\ WF_sievevars(PrintTurn) /\ WF_sievevars(Task)

-----------------------------------------------------------------------------
\* The first n - 3 primes, and the numbers that no smaller one of them divides.
Rank(p)    == Cardinality({q \in Primes : q < p})
Earlier(n) == {p \in Primes : Rank(p) < n - 3}
Left(n)    == {x \in 0 .. MaxSearch - 1 : \A p \in Earlier(n) : x <= p \/ x % p # 0}

\* After each turn of entry() (sieve.c:89) the array at flip holds, in order
\* and from its beginning, the numbers that the primes sieved so far leave,
\* and nothing but zeros behind them; the other array, which filter() only
\* partly writes the next time (sieve.c:71), is all zeros; and len is how
\* many there are.
SievedSoFar ==
  pc = "sieve" =>
    LET found == Load(pages, flip)
    IN  /\ len = Cardinality(Left(index))
        /\ {found[i] : i \in 0 .. len - 1} = Left(index)
        /\ \A i \in 1 .. len - 1 : found[i - 1] < found[i]
        /\ \A i \in len .. MaxSearch - 1 : found[i] = 0
        /\ \A i \in 0 .. MaxSearch - 1 : Load(pages, flop)[i] = 0

\* Whatever main prints returns, and then the task ends and has said that it
\* has found the primes (sieve.c:107).
SieveSucceeds ==
  (pc = "greeted") ~> (pc = "exit" /\ call = Idle /\ said = <<<<"s">>, <<"o", "k">>>>)
=============================================================================
