-------------------------- MODULE JanusConsoleProofs --------------------------
(***************************************************************************)
(* Theorems about JanusConsole, for every size of the screen and every     *)
(* alphabet: the stores of the guest's console fit the screen that the     *)
(* monitor emulates, and until the first scroll ends the monitor, guest    *)
(* and monitor together are the console of VgaConsole.                     *)
(*                                                                         *)
(* The invariant is a relation of the two sides: the cursor, which only    *)
(* the guest knows, is a cell of the screen, which only the monitor has.   *)
(***************************************************************************)
EXTENDS JanusConsole, TLAPS

Input == Char \cup {"\n", "\r", "\t"}

\* A step that would take the cursor off the screen ends the monitor, and
\* never by the check of write_vga().
IInv ==
  /\ vga \in [Janus!Cells -> Char \cup {Blank}]
  /\ cursor \in Janus!Cells
  /\ vm \in {"run", "unimplemented"}
  /\ i \in 0 .. Total

-----------------------------------------------------------------------------
(* The two sides count the cells alike.                                    *)

\* The guest's first cell is one, and its cells are those of the monitor.
LEMMA SameCells ==
  /\ Janus!Cells = Guest!Cell /\ Guest!Size = Total
  /\ Total \in Nat \ {0}
  /\ Janus!Cells = 0 .. Total - 1
  /\ 0 \in Janus!Cells
<1>1. Total \in Nat \ {0}
  BY ConsoleAssumption, SMT DEF Total
<1> QED BY <1>1 DEF Janus!Cells, Guest!Cell, Guest!Size, Total

LEMMA DivNat ==
  ASSUME NEW n \in Nat, NEW c \in Nat \ {0}
  PROVE  n \div c \in Nat
  BY SMTT(20)

LEMMA MulNat ==
  ASSUME NEW m \in Nat, NEW n \in Nat
  PROVE  m * n \in Nat
  BY SMTT(20)

\* No character takes the cursor before the screen.
LEMMA AfterNat ==
  ASSUME NEW n \in Nat, NEW c \in Input
  PROVE  Guest!After(n, c) \in Nat
<1>1. Columns \in Nat \ {0} /\ Tab \in Nat \ {0}
  BY ConsoleAssumption
<1>2. CASE c = "\n"
  <2>1. (n + Columns) \div Columns \in Nat
    BY <1>1, DivNat
  <2>2. ((n + Columns) \div Columns) * Columns \in Nat
    BY <1>1, <2>1, MulNat
  <2> QED BY <1>2, <2>2, Zenon DEF Guest!After
<1>3. CASE c = "\r"
  <2>1. (n \div Columns) * Columns \in Nat
    BY <1>1, DivNat, MulNat
  <2> QED BY <1>3, <2>1, Zenon DEF Guest!After
<1>4. CASE c = "\t"
  <2>1. (n + 1) \div Tab \in Nat
    BY <1>1, DivNat
  <2>2. ((n + 1) \div Tab) * Tab \in Nat
    BY <1>1, <2>1, MulNat
  <2> DEFINE m == ((n + 1) \div Tab) * Tab
  <2>3. Guest!After(n, c) = m + Tab
    BY <1>4, Zenon DEF Guest!After
  <2> HIDE DEF m
  <2>4. m \in Nat
    BY <2>2, Zenon DEF m
  <2> QED BY <1>1, <2>3, <2>4
<1>5. CASE c \in Char
  <2>1. Guest!After(n, c) = n + 1
    BY <1>5, ConsoleAssumption DEF Guest!After
  <2> QED BY <2>1
<1> QED BY <1>2, <1>3, <1>4, <1>5 DEF Input

-----------------------------------------------------------------------------
(* A 16-bit store of the guest.                                            *)

\* It hands one cell to write_vga(): the one that the guest meant.
LEMMA TouchesItsCell ==
  ASSUME NEW n \in Nat
  PROVE  Janus!Touched(2 * n, 2) = {n}
<1>1. (2 * n) \div 2 = n /\ 2 \div 2 = 1
  BY SMT
<1>2. Janus!Touched(2 * n, 2) = n .. n + 1 - 1
  BY <1>1, Zenon DEF Janus!Touched
<1> QED BY <1>2

\* On the screen, it is the assignment to that cell and nothing else, and the
\* monitor goes on.
LEMMA StoreWrites ==
  ASSUME vga \in [Janus!Cells -> Char \cup {Blank}],
         NEW n \in Janus!Cells, NEW x \in Char \cup {Blank}
  PROVE  /\ Janus!Written(2 * n, 2, x).vga = [vga EXCEPT ![n] = x]
         /\ Janus!Written(2 * n, 2, x).vm = "run"
<1>1. n \in Nat /\ Total \in Nat /\ n < Total
  BY SameCells
<1>2. Janus!OnScreen(2 * n)
  BY <1>1 DEF Janus!OnScreen
<1>3. Janus!Touched(2 * n, 2) = {n}
  BY <1>1, TouchesItsCell
<1>4. /\ Janus!Written(2 * n, 2, x).vga =
           [m \in Janus!Cells |-> IF m \in {n} THEN x ELSE vga[m]]
      /\ Janus!Written(2 * n, 2, x).vm = IF {n} \subseteq Janus!Cells THEN "run" ELSE "abort"
  BY <1>2, <1>3 DEF Janus!Written
<1> QED BY <1>4

-----------------------------------------------------------------------------
(* The invariant.                                                          *)

LEMMA InitIInv == Init => IInv
<1> SUFFICES ASSUME Init PROVE IInv
  OBVIOUS
<1> QED BY SameCells DEF Init, Janus!VgaInit, IInv

\* putc() stores at the cursor as the last character left it.
LEMMA PutcIInv ==
  ASSUME IInv, NEW c \in Input, Putc(c)
  PROVE  IInv'
<1>1. cursor \in Nat /\ Total \in Nat
  BY SameCells DEF IInv
<1>2. Guest!After(cursor, c) \in Nat
  BY <1>1, AfterNat
<1>3. cursor' \in Janus!Cells
  BY <1>1, <1>2, SameCells DEF Putc
<1>6. i' \in 0 .. Total
  BY DEF Putc, IInv
<1>4. CASE c \in Char
  <2>1. vga' = Janus!Written(2 * cursor, 2, c).vga /\ vm' = Janus!Written(2 * cursor, 2, c).vm
    BY <1>4 DEF Putc, Store, Janus!TrapWrite
  <2>2. vga' = [vga EXCEPT ![cursor] = c] /\ vm' = "run"
    BY <1>4, <2>1, StoreWrites DEF IInv
  <2> QED BY <1>3, <1>4, <1>6, <2>2 DEF IInv
<1>5. CASE c \notin Char
  <2>1. UNCHANGED <<vga, vm>>
    BY <1>5 DEF Putc
  <2> QED BY <1>3, <1>6, <2>1 DEF IInv
<1> QED BY <1>4, <1>5

\* The load of scroll() is never emulated: the step ends the monitor, with
\* the character stored.
LEMMA ScrollEnds ==
  ASSUME IInv, NEW c \in Input, PutcScroll(c)
  PROVE  IInv' /\ vm' = "unimplemented"
<1>1. CASE c \in Char
  <2>1. /\ vga' = Janus!Written(2 * cursor, 2, c).vga
        /\ vm' = IF Janus!Written(2 * cursor, 2, c).vm = "run" THEN Janus!TrapRead
                 ELSE Janus!Written(2 * cursor, 2, c).vm
        /\ cursor' = cursor /\ i' = i
    BY <1>1 DEF PutcScroll
  <2>2. vga' = [vga EXCEPT ![cursor] = c] /\ vm' = "unimplemented"
    BY <1>1, <2>1, StoreWrites DEF IInv, Janus!TrapRead
  <2> QED BY <1>1, <2>1, <2>2 DEF IInv
<1>2. CASE c \notin Char
  <2>1. vga' = vga /\ vm' = Janus!TrapRead /\ cursor' = cursor /\ i' = i
    BY <1>2 DEF PutcScroll
  <2> QED BY <2>1 DEF IInv, Janus!TrapRead
<1> QED BY <1>1, <1>2

\* clear() stores to the cells of the screen, one after the other.
LEMMA ClearCellIInv ==
  ASSUME IInv, ClearCell
  PROVE  /\ IInv'
         /\ i \in Janus!Cells /\ i' = i + 1
         /\ vga' = [vga EXCEPT ![i] = Blank] /\ vm' = "run"
         /\ cursor' = IF i + 1 = Total THEN 0 ELSE cursor
<1>1. /\ i \in Janus!Cells /\ i' = i + 1 /\ i + 1 \in 0 .. Total
      /\ cursor' = IF i + 1 = Total THEN 0 ELSE cursor
  BY SameCells DEF IInv, ClearCell
<1>2. /\ vga' = Janus!Written(2 * i, 2, Blank).vga
      /\ vm' = Janus!Written(2 * i, 2, Blank).vm
  BY DEF ClearCell, Store, Janus!TrapWrite
<1>3. vga' = [vga EXCEPT ![i] = Blank] /\ vm' = "run"
  BY <1>1, <1>2, StoreWrites DEF IInv
<1>4. IInv'
  BY <1>1, <1>3, SameCells DEF IInv
<1> QED BY <1>1, <1>3, <1>4

LEMMA NextIInv == IInv /\ [Next]_vars => IInv'
<1> SUFFICES ASSUME IInv, [Next]_vars PROVE IInv'
  OBVIOUS
<1>1. CASE Clear
  BY <1>1, SameCells DEF Clear, IInv
<1>6. CASE ClearCell
  BY <1>6, ClearCellIInv
<1>2. ASSUME NEW c \in Input, Putc(c) PROVE IInv'
  BY <1>2, PutcIInv
<1>3. ASSUME NEW c \in Input, PutcScroll(c) PROVE IInv'
  BY <1>3, ScrollEnds
<1>4. CASE Ended
  BY <1>4 DEF Ended, vars, IInv
<1>5. CASE UNCHANGED vars
  BY <1>5 DEF vars, IInv
<1> QED BY <1>1, <1>2, <1>3, <1>4, <1>5, <1>6 DEF Next, Input

\* The invariant holds after any text and any clears (vga.c:62, vga.c:57).
THEOREM Invariance == Spec => []IInv
  BY InitIInv, NextIInv, PTL DEF Spec

-----------------------------------------------------------------------------
(* The properties.                                                         *)

\* Whatever the guest prints, write_vga() is never called for a cell that is
\* not on the screen (state.c:299): the lax check of trap_write(), which lets
\* the address after the last cell through (shadow.c:103), is never the one
\* that counts.
THEOREM StoresOnScreen == Spec => []NeverAborts
<1>1. IInv => NeverAborts
  BY DEF IInv, NeverAborts
<1> QED BY <1>1, Invariance, PTL

\* Outside of clear() the screen is the monitor's.
LEMMA ShownIs ==
  ASSUME IInv, i = Total
  PROVE  Shown = vga /\ ShownCursor = cursor
<1>1. Total \in Nat /\ \A n \in 0 .. Total - 1 : ~(n >= Total)
  BY SameCells
<1>2. vga = [n \in 0 .. Total - 1 |-> vga[n]]
  BY SameCells DEF IInv
<1> QED BY <1>1, <1>2 DEF Shown, ShownCursor

\* The step of clear() that counts is the first one.
LEMMA ClearIsClear ==
  ASSUME IInv, Clear
  PROVE  Guest!Clear
<1>1. /\ Shown' = [n \in 0 .. Total - 1 |-> IF n >= 0 THEN Blank ELSE vga[n]]
      /\ ShownCursor' = 0
  BY SameCells DEF Clear, Shown, ShownCursor
<1>2. \A n \in 0 .. Total - 1 : n >= 0
  BY SameCells
<1>3. Shown' = [n \in 0 .. Total - 1 |-> Blank]
  BY <1>1, <1>2
<1> QED BY <1>1, <1>3, SameCells DEF Guest!Clear

\* Its stores are what its first step has promised.
LEMMA ClearCellStutters ==
  ASSUME IInv, ClearCell
  PROVE  UNCHANGED <<Shown, ShownCursor>>
<1>1. /\ i \in 0 .. Total - 1 /\ i' = i + 1 /\ i + 1 <= Total /\ Total \in Nat
      /\ vga' = [vga EXCEPT ![i] = Blank]
      /\ cursor' = IF i + 1 = Total THEN 0 ELSE cursor
  BY ClearCellIInv, SameCells
<1>2. ASSUME NEW n \in 0 .. Total - 1
      PROVE  (IF n >= i' THEN Blank ELSE vga'[n]) = IF n >= i THEN Blank ELSE vga[n]
  <2>1. CASE n = i
    BY <1>1, <2>1, SameCells DEF IInv
  <2>2. CASE n # i
    <3>1. vga'[n] = vga[n] /\ (n >= i' <=> n >= i)
      BY <1>1, <2>2, SameCells DEF IInv
    <3> QED BY <3>1
  <2> QED BY <2>1, <2>2
<1>3. Shown' = Shown
  BY <1>2, Zenon DEF Shown
<1>4. ShownCursor' = ShownCursor
  <2>1. ShownCursor = 0
    BY <1>1 DEF ShownCursor
  <2>2. CASE i + 1 = Total
    BY <1>1, <2>1, <2>2 DEF ShownCursor
  <2>3. CASE i + 1 # Total
    <3>1. i' < Total
      BY <1>1, <2>3
    <3> QED BY <2>1, <3>1 DEF ShownCursor
  <2> QED BY <2>2, <2>3
<1> QED BY <1>3, <1>4

\* A step of the guest's console after which the monitor goes on.
LEMMA StepIsFaithful ==
  ASSUME IInv, [Next]_vars
  PROVE  [vm' = "run" => Guest!Next]_<<Shown, ShownCursor>>
<1> SUFFICES ASSUME vm' = "run", <<Shown, ShownCursor>>' # <<Shown, ShownCursor>>
             PROVE  Guest!Next
  OBVIOUS
<1>1. CASE Clear
  BY <1>1, ClearIsClear DEF Guest!Next
<1>6. CASE ClearCell
  BY <1>6, ClearCellStutters
<1>2. ASSUME NEW c \in Input, Putc(c) PROVE Guest!Next
  <2>1. cursor \in Nat /\ Total \in Nat /\ Guest!Size = Total
    BY SameCells DEF IInv
  <2>2. Guest!After(cursor, c) \in Nat
    BY <2>1, AfterNat
  <2>3. Shown = vga /\ ShownCursor = cursor /\ Shown' = vga' /\ ShownCursor' = cursor'
    <3>1. IInv' /\ i = Total /\ i' = Total
      BY <1>2, PutcIInv DEF Putc
    <3>2. Shown = vga /\ ShownCursor = cursor
      BY <3>1, ShownIs
    <3>3. Total \in Nat /\ \A n \in 0 .. Total - 1 : ~(n >= Total)
      BY SameCells
    <3>4. vga' = [n \in 0 .. Total - 1 |-> vga'[n]]
      BY <3>1, SameCells DEF IInv
    <3>5. Shown' = vga' /\ ShownCursor' = cursor'
      BY <3>1, <3>3, <3>4 DEF Shown, ShownCursor
    <3> QED BY <3>2, <3>5
  <2>4. cursor' = Guest!After(cursor, c) /\ ~(Guest!After(cursor, c) >= Guest!Size)
    BY <1>2, <2>1, <2>2 DEF Putc
  <2>5. vga' = IF c \in Char THEN [vga EXCEPT ![cursor] = c] ELSE vga
    <3>1. CASE c \in Char
      <4>1. vga' = Janus!Written(2 * cursor, 2, c).vga
        BY <1>2, <3>1 DEF Putc, Store, Janus!TrapWrite
      <4> QED BY <3>1, <4>1, StoreWrites DEF IInv
    <3>2. CASE c \notin Char
      BY <1>2, <3>2 DEF Putc
    <3> QED BY <3>1, <3>2
  <2>6. Shown' = Guest!Written(ShownCursor, c)
    BY <2>3, <2>5 DEF Guest!Written
  <2>7. ShownCursor' = Guest!After(ShownCursor, c)
        /\ ~(Guest!After(ShownCursor, c) >= Guest!Size)
    BY <2>3, <2>4
  <2>8. Guest!Putc(c)
    BY <2>6, <2>7, Zenon DEF Guest!Putc
  <2> QED BY <2>8 DEF Guest!Next, Input
<1>3. ASSUME NEW c \in Input, PutcScroll(c) PROVE FALSE
  BY <1>3, ScrollEnds
<1>4. CASE Ended
  BY <1>4 DEF Ended, vars, Shown, ShownCursor
<1>5. CASE UNCHANGED vars
  BY <1>5 DEF vars, Shown, ShownCursor
<1> QED BY <1>1, <1>2, <1>3, <1>4, <1>5, <1>6 DEF Next, Input

\* On the emulated screen the guest's console does what it does on a machine,
\* for as long as the monitor goes on: byte addresses of the traps, cells of
\* write_vga() and the cursor of putc() agree (shadow.c:103, vga.c:77).
THEOREM ConsoleIsFaithful == Spec => FaithfulConsole
  BY Invariance, StepIsFaithful, PTL DEF Spec, FaithfulConsole
=============================================================================
