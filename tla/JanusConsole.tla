----------------------------- MODULE JanusConsole -----------------------------
(***************************************************************************)
(* The console of the guest (VgaConsole) on the screen that the monitor    *)
(* emulates (JanusVga): every access of guest/vga.c to video memory is a   *)
(* trap.  putc() writes one cell, clear() every cell in turn; scroll()     *)
(* reads before it writes.                                                 *)
(*                                                                         *)
(* A trap is synchronous: the guest stands still while the monitor runs.   *)
(* The writes to the registers of the cursor are traps too, which the      *)
(* monitor ignores.                                                        *)
(***************************************************************************)
EXTENDS Integers

CONSTANTS Lines, Columns, Tab, Char, Blank   \* as in VgaConsole

\* The assumptions of VgaConsole, which INSTANCE does not bring in.
ASSUME ConsoleAssumption ==
  /\ Lines \in Nat \ {0}
  /\ Tab \in Nat \ {0}
  /\ Columns \in Nat
  /\ Columns > Tab
  /\ Char \cap {"\n", "\r", "\t", Blank} = {}

VARIABLES
  vga, vm,   \* of the monitor
  cursor,    \* of the guest
  i          \* of the guest: the loop of clear(), at its end outside of it

vars == <<vga, vm, cursor, i>>

Total == Lines * Columns

Janus == INSTANCE JanusVga WITH
           VGA_SIZE <- Total, Half <- Char \cup {Blank}, Unset <- Blank

\* The console that a user sees: clear() counts as done when it begins.
Shown == [n \in 0 .. Total - 1 |-> IF n >= i THEN Blank ELSE vga[n]]
ShownCursor == IF i < Total THEN 0 ELSE cursor

Guest == INSTANCE VgaConsole WITH screen <- Shown, cursor <- ShownCursor

\* screen[n] = c: a 16-bit store.
Store(n, c) == Janus!TrapWrite(2 * n, 2, c)

Init ==
  /\ Janus!VgaInit
  /\ cursor = 0
  /\ i = Total

Clear ==
  /\ vm = "run"
  /\ i = Total
  /\ i' = 0
  /\ UNCHANGED <<vga, vm, cursor>>

\* clear(): a store to the next cell, and update_cursor(0) behind the last one.
ClearCell ==
  /\ i < Total
  /\ Store(i, Blank)
  /\ i' = i + 1
  /\ cursor' = IF i + 1 = Total THEN 0 ELSE cursor

\* Seeded fault: the position after the last cell counts as on the screen.
FaultyPutc(c) ==
  LET n == Guest!After(cursor, c)
  IN  /\ n <= Total
      /\ vm = "run" /\ i = Total /\ i' = i
      /\ cursor' = n
      /\ IF c \in Char THEN Store(cursor, c) ELSE UNCHANGED <<vga, vm>>

\* putc() of a character that leaves the cursor on the screen.
Putc(c) ==
  LET n == Guest!After(cursor, c)
  IN  /\ n < Total
      /\ vm = "run" /\ i = Total /\ i' = i
      /\ cursor' = n
      /\ IF c \in Char THEN Store(cursor, c) ELSE UNCHANGED <<vga, vm>>

\* putc() of one that takes it past the end: after the store, scroll() loads
\* from the second line, and trap_read() ends the monitor.
PutcScroll(c) ==
  LET w == IF c \in Char THEN Janus!Written(2 * cursor, 2, c)
           ELSE [vga |-> vga, vm |-> vm]
  IN  /\ Guest!After(cursor, c) >= Total
      /\ vm = "run" /\ i = Total
      /\ vga' = w.vga
      /\ vm' = IF w.vm = "run" THEN Janus!TrapRead ELSE w.vm
      /\ UNCHANGED <<cursor, i>>

Ended == vm # "run" /\ UNCHANGED vars

Next ==
  \/ Clear
  \/ ClearCell
  \/ \E c \in Char \cup {"\n", "\r", "\t"} : Putc(c) \/ PutcScroll(c)
  \/ Ended

Spec == Init /\ [][Next]_vars

-----------------------------------------------------------------------------
\* As long as the monitor goes on, the guest's console on the emulated screen
\* behaves as it does on a machine: byte addresses, cells and the check of
\* the range fit together (shadow.c:103 for vga.c:77 and vga.c:57).
FaithfulConsole == [][vm' = "run" => Guest!Next]_<<Shown, ShownCursor>>

\* No store of the console reaches the check of write_vga() (state.c:299): the
\* monitor relies on the guest's cursor staying on the screen.
NeverAborts == vm # "abort"
=============================================================================
