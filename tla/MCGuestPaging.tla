---------------------------- MODULE MCGuestPaging ----------------------------
(***************************************************************************)
(* Small instances of GuestPaging: three levels (a root, a middle and a    *)
(* last one), tables of two entries, two addresses that share all their    *)
(* tables and one that shares only the root.                               *)
(***************************************************************************)
EXTENDS GuestPaging

\* An address by its indices, the root's first.
Addr(i2, i1, i0) == [l \in 0 .. 2 |-> CASE l = 2 -> i2 [] l = 1 -> i1 [] l = 0 -> i0]

Low0  == Addr(0, 0, 0)
Low1  == Addr(0, 0, 1)
High0 == Addr(1, 0, 0)
High1 == Addr(1, 0, 1)

VAddr3 == {Low0, Low1, High0}
Auto1  == {High0}
VAddr4 == {Low0, Low1, High0, High1}
Auto2  == {High0, High1}

\* An even number: its bit for "present" is clear.
EvenWord == [p |-> 0, a |-> 1]
Even == {EvenWord}

\* An odd one, such as the 23 of do_lazy_alloc().
OddWord == [p |-> 1, a |-> 0]
Odd == {OddWord}
=============================================================================
