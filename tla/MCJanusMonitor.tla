---------------------------- MODULE MCJanusMonitor ----------------------------
(***************************************************************************)
(* Instance of JanusMonitor.                                               *)
(*                                                                         *)
(* Pages: low memory is 0..2, the first part of the guest's memory 3..5,   *)
(* the bss of the monitor 6, the second part begins at 8.  The backend has *)
(* 5 pages, which leaves two for the second part: as with 2, 3 and 4 GiB.  *)
(*                                                                         *)
(* With three mappings there are layouts of low memory that fill the array *)
(* and others that do not.                                                 *)
(*                                                                         *)
(* Kernels: a header of 10 to 26 words behind nothing, behind a magic      *)
(* number that is no header, or behind ten words, all but the longest      *)
(* whole in the search zone of 28 words; behind 24 words, so that its tags *)
(* leave the zone; and behind the zone.  Tags in several orders, repeated, *)
(* or missing.  The heap holds zeros or address tags.                      *)
(***************************************************************************)
EXTENDS JanusMonitor

MCMagic == 232
Base == 64

Tag(type, size, body) == [type |-> type, size |-> size, body |-> body]
Address(h, l, e, b) == Tag(MULTIBOOT_TAG_TYPE_ADDRESS, 24, <<h, l, e, b>>)
Entry(a) == Tag(MULTIBOOT_TAG_TYPE_ENTRY, 12, <<a>>)
End == Tag(MULTIBOOT_TAG_TYPE_END, 8, <<>>)
Flags == Tag(4, 12, <<2>>)
Stuck == Tag(4, 0, <<>>)

TagLists(a) ==
  {<<a, Entry(68), End>>, <<Entry(68), a, End>>, <<Flags, a, Entry(72), End>>,
   <<Entry(68), End>>, <<a, End>>, <<Address(200, 64, 68, 72), Entry(4), a, Entry(68), End>>,
   <<Flags, Stuck, a, Entry(68), End>>}

\* Images of whole files, of files from their header on, of an empty part, of
\* more than the file has, without a bss, and with no end of the bss.
Addresses(off) ==
  {Address(Base + off, Base, Base + off + 72, Base + off + 80),
   Address(Base, Base, Base + 64, Base + 72),
   Address(Base, Base, Base + 40, Base + 40),
   Address(Base + off, Base, Base, Base),
   Address(Base + off + 4, Base, Base + off + 64, Base + off + 72),
   Address(Base, Base, Base + 64, 0),
   Address(Base, Base, Base + 40, 4 * 64),
   Address(20, 16, 16 + 32, 16 + 32)}

Sevens(n) == [m \in 1 .. n |-> 7]
Befores == {<<>>, <<MCMagic, 0>>, Sevens(10), Sevens(24), Sevens(28)}

Kernel(b, t, e) == [before |-> b, tags |-> t, error |-> e, after |-> <<5, 6>>]

MCKernels ==
  UNION {LET As == Addresses(4 * Len(b))
             a == CHOOSE x \in As : x.body[1] = Base + 4 * Len(b) /\ x.body[3] > Base
         IN  {Kernel(b, t, 0) : t \in TagLists(a) \cup {<<x, Entry(68), End>> : x \in As}}
             \cup {Kernel(b, <<a, Entry(68), End>>, 1)} : b \in Befores}

\* Code, constants and data; without constants; data alone; a mapping each.
MCLowImages ==
  {low \in [0 .. 2 -> {{}, {"R", "X"}, {"R"}, {"R", "W"}}] :
     \/ low[0] = {"R", "X"} /\ low[2] = {"R", "W"}
     \/ low[0] = {} /\ low[1] = {"R", "W"} /\ low[2] = {}}

MCUndefined == {0, 68}

\* Guest memory, and the monitor below and behind it; nothing at 5 to 15.
MCGuestWords == 16 .. 62
MCMonitorWords == {4, 63}

MCHeaps == {[n \in 0 .. Modulus |-> w] : w \in {0, MULTIBOOT_TAG_TYPE_ADDRESS}}

\* Two bits of index for each of the four levels, pages of two bits and an int
\* of eight: the shifts are 2, 4, 6 and 8, as 12, 21, 30 and 39 are to 32.
Leaf(ix, p) == [index |-> ix, paddr |-> p]
MCGuestTables ==
  {[at |-> {1, 2}, leaves |-> {l, m}] :
     l \in {Leaf(<<0, 0, 2, 1>>, 4), Leaf(<<0, 1, 3>>, 8), Leaf(<<0, 2, 0, 3>>, 4)},
     m \in {Leaf(<<1, 1, 1, 3>>, 4), Leaf(<<0, 1>>, 16), Leaf(<<3, 3, 3, 3>>, 12)}}
  \cup {[at |-> {1, 7}, leaves |-> {}]}
=============================================================================
