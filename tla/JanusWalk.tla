------------------------------ MODULE JanusWalk ------------------------------
(***************************************************************************)
(* The printing of a page table of the guest, parse_pml_lvl() of           *)
(* monitor/shadow.c, at every write of CR3 and whenever paging is enabled. *)
(*                                                                         *)
(* A leaf of the tables is the list of its indices from level 4 down, as   *)
(* many as there are levels above it, with the address in its entry.       *)
(***************************************************************************)
EXTENDS Integers, Sequences, FiniteSets

CONSTANTS
  PageBits,     \* 12
  IndexBits,    \* 9
  IntBits       \* 32, the width of an int

ASSUME WalkAssumption ==
  /\ {PageBits, IndexBits, IntBits} \subseteq Nat \ {0}
  /\ PageBits + IndexBits < IntBits - 1

\* One index for each level from 4 down to that of the entry.
IsLeaf(l) == l.index \in Seq(Nat) /\ Len(l.index) \in 1 .. 4

\* The place of the index of a level in an address.
Shift(lvl) == PageBits + (lvl - 1) * IndexBits

\* An int as it is extended to 64 bits.
Signed(n) ==
  LET m == n % 2^IntBits IN IF m < 2^(IntBits - 1) THEN m ELSE m - 2^IntBits

\* Seeded fault: the index of the level above is used.
FaultyShifted(index, lvl) ==
  IF Shift(lvl + 1) < IntBits THEN {Signed(index * 2^Shift(lvl + 1))} ELSE {0}

\* i << (12 + (lvl - 1) * 9), of an int.  The shift of level 4 is larger than
\* the type: the processor takes the count modulo the width, and a compiler
\* that knows the level may leave nothing.
Shifted(index, lvl) ==
  IF Shift(lvl) < IntBits
  THEN {Signed(index * 2^Shift(lvl))}
  ELSE {0, Signed(index * 2^(Shift(lvl) % IntBits))}

\* The level of the entry whose index is the n-th of a leaf.
Level(n) == 5 - n

\* vaddr + (i << ...), for every vaddr so far.
Plus(vaddrs, shifts) == {v + s : v \in vaddrs, s \in shifts}

\* The sums of one choice for each level.
Sums(leaf) ==
  LET To[n \in 0 .. Len(leaf.index)] ==
        IF n = 0 THEN {0}
        ELSE Plus(To[n - 1], Shifted(leaf.index[n], Level(n)))
  IN  To[Len(leaf.index)]

\* The lines that parse_pml_lvl() may print, one for each leaf.
Listings(leaves) ==
  {[l \in leaves |-> [vaddr |-> f[l], paddr |-> l.paddr]] :
     f \in {g \in [leaves -> UNION {Sums(l) : l \in leaves}] :
              \A l \in leaves : g[l] \in Sums(l)}}

\* The address that the processor translates with a leaf.
Translated(leaf) ==
  LET To[n \in 0 .. Len(leaf.index)] ==
        IF n = 0 THEN 0 ELSE To[n - 1] + leaf.index[n] * 2^Shift(Level(n))
  IN  To[Len(leaf.index)]
=============================================================================
