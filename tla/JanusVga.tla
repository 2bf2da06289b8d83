------------------------------- MODULE JanusVga -------------------------------
(***************************************************************************)
(* The emulated text screen of Janus: a guest access below 1 MiB raises a  *)
(* signal in the monitor, which decodes the instruction and calls          *)
(* trap_write() or trap_read() (monitor/shadow.c).  A write ends in        *)
(* write_vga() (monitor/state.c), once for every two bytes.                *)
(*                                                                         *)
(* Addresses are bytes counted from 0xb8000.  Of a value only the lowest   *)
(* 16 bits are kept: write_vga() takes no more, whatever the cell.         *)
(***************************************************************************)
EXTENDS Integers

CONSTANTS
  VGA_SIZE,   \* cells of the screen
  Half,       \* the 16-bit values
  Unset       \* what setup_state() leaves in a cell, 0

VARIABLES
  vga,    \* guest_state.vga
  vm      \* "run", or how the monitor has ended: "unimplemented", "abort"

vgavars == <<vga, vm>>

Cells == 0 .. VGA_SIZE - 1

VgaInit ==
  /\ vga = [i \in Cells |-> Unset]
  /\ vm = "run"

-----------------------------------------------------------------------------
\* The addresses that trap_write() takes for the screen.
OnScreen(addr) == addr >= 0 /\ addr <= VGA_SIZE * 2

\* Seeded fault: the byte address is the number of the cell.
FaultyTouched(addr, size) == addr .. addr + size \div 2 - 1

\* The cells that it hands to write_vga().
Touched(addr, size) == addr \div 2 .. addr \div 2 + size \div 2 - 1

\* The screen and the monitor after trap_write(): every cell takes the low
\* part of the value, until one is not on the screen.
Written(addr, size, val) ==
  IF OnScreen(addr)
  THEN [vga |-> [i \in Cells |-> IF i \in Touched(addr, size) THEN val ELSE vga[i]],
        vm  |-> IF Touched(addr, size) \subseteq Cells THEN "run" ELSE "abort"]
  ELSE [vga |-> vga, vm |-> "unimplemented"]

\* trap_write()
TrapWrite(addr, size, val) ==
  LET w == Written(addr, size, val)
  IN  /\ vm = "run"
      /\ vga' = w.vga
      /\ vm' = w.vm

\* trap_read(): the way the monitor ends at any load.
TrapRead == "unimplemented"
=============================================================================
