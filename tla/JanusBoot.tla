------------------------------ MODULE JanusBoot ------------------------------
(***************************************************************************)
(* The guest kernel boots on the processor of Janus: the instructions of   *)
(* guest/entry.S that trap, in their order, and the first ones of          *)
(* main_multiboot2() up to lidt.  Every general protection fault then goes *)
(* to default_interrupt() of guest/idt.c, which prints and halts.  What    *)
(* the main program does after its boot is left open.                      *)
(***************************************************************************)
EXTENDS JanusRegisters

CONSTANTS
  pml4,       \* the page table of entry.S: its address
  MaxPrint    \* bound: writes on the screen of each printk() and clear()

ASSUME BootAssumption ==
  /\ pml4 \in Roots
  /\ {"CS", "DS", "ES", "FS", "GS", "SS"} \subseteq Selectors
  /\ MaxPrint \in Nat

\* The guest's own instructions on its registers, executed by the real
\* processor: movw leaves the upper bits, movl and orl clear the upper half.
Movw(r, val) == [gregs EXCEPT ![r.of] = (@ \ Low(16)) \cup val]
Movl(r, val) == [gregs EXCEPT ![r.of] = val]
Orl(r, val) == [gregs EXCEPT ![r.of] = (@ \cap Low(32)) \cup val]

\* entry_multiboot2 of guest/entry.S: each instruction that traps, with those
\* between it and the one before.  AX is set once for the five segments.
Segments == <<"DS", "ES", "FS", "GS", "SS">>

Entry ==
  \/ rip.at = 0 /\ Lgdt(Gdt32, TRUE) /\ Keeps(gregs)
  \/ rip.at = 1 /\ emulate_mov_to_sel("DS", AX, Movw(AX, {4}))
  \/ rip.at = 2 /\ emulate_ljmp({3}, gregs)
  \/ rip.at = 3 /\ emulate_mov_to_cr(3, EAX, Movl(EAX, pml4))
  \/ rip.at = 4 /\ emulate_mov_from_cr(EAX, 4, gregs)
  \/ rip.at = 5 /\ emulate_mov_to_cr(4, EAX, Orl(EAX, {5, 7}))
  \/ rip.at = 6 /\ emulate_rdmsr(Movl(ECX, MSR_EFER))
  \/ rip.at = 7 /\ emulate_wrmsr(Orl(EAX, {8}))
  \/ rip.at = 8 /\ emulate_mov_from_cr(EAX, 0, gregs)
  \/ rip.at = 9 /\ emulate_mov_to_cr(0, EAX, Orl(EAX, {8, 31}))
  \/ rip.at = 10 /\ Lgdt(Gdt64, TRUE) /\ Keeps(gregs)
  \/ rip.at = 11 /\ emulate_ljmp({3}, gregs)
  \/ rip.at \in 12..16
       /\ emulate_mov_to_sel(Segments[rip.at - 11], AX, Movw(AX, {4}))

\* main_multiboot2() clears the screen, prints, and calls setup_interrupts().
Lidt64 == 17 + MaxPrint
Booted == Lidt64 + 1

Main ==
  \/ rip.at \in 17..(Lidt64 - 1) /\ Harmless
  \/ rip.at = Lidt64 /\ Lidt(TRUE)

Boot == rip.in = 0 /\ (Entry \/ (Main /\ Keeps(gregs)))

\* Seeded fault: it returns to the program instead of halting.
FaultyDefaultInterrupt ==
  /\ rip.in = INTERRUPT_GP
  /\ \/ rip.at < MaxPrint /\ Harmless
     \/ rip.at = MaxPrint /\ Iretq

\* default_interrupt(): the writes of printk(), then hlt.  It does not return.
default_interrupt ==
  /\ rip.in = INTERRUPT_GP
  /\ \/ rip.at < MaxPrint /\ Harmless
     \/ rip.at = MaxPrint /\ Hlt

\* The main program after its boot: anything.  The values that it has in its
\* registers are those that the instructions of JanusCpu choose.
Program == rip.in = 0 /\ rip.at >= Booted /\ Next /\ Keeps(gregs)

\* There is no step from the null entry: FaultsAreHandled says that the guest
\* never goes there.
BootNext == Boot \/ (default_interrupt /\ Keeps(gregs)) \/ Program

BootInit == Init /\ RegistersInit
bootvars == <<vars, gregs>>

\* The guest's instructions follow each other: the kernel of the host gives
\* the process its time and a signal is always delivered.
BootSpec ==
  /\ BootInit
  /\ [][BootNext]_bootvars
  /\ WF_bootvars(Boot)
  /\ WF_bootvars(default_interrupt /\ Keeps(gregs))

-----------------------------------------------------------------------------
(* Properties.                                                             *)

\* The order of entry.S is one that the tests of state.c accept: no fault and
\* no exit before the interrupts are set up, when a fault would be lost.
BootIsClean == faults \/ vm # "run" => idt

\* From lidt on the guest is in 64-bit long mode with interrupt gates, and a
\* fault always finds its handler, whatever the main program does.
FaultsAreHandled ==
  /\ rip # NullEntry
  /\ rip.at >= Booted => idt /\ mode = 64

\* The guest reaches its main program in 64-bit mode with paging, its own page
\* table and exactly the bits that entry.S asks for, whatever the registers
\* held when it began: what it reads from a control register or an MSR, changes
\* and writes back comes through registers of several widths.
ReachesMain ==
  <>(/\ rip = At(0, Booted) /\ mode = 64 /\ idt
     /\ cr0 = {"PE", "ET", "PG"} /\ cr3 = pml4
     /\ cr4 = {"PAE", "PGE"} /\ efer = {"LME", "LMA"}
     /\ sel = [s \in Selectors |-> IF s = "CS" THEN 1 ELSE 2])

\* A fault is reported and ends the machine by hlt.
FaultsHalt == faults ~> vm = "halted"
=============================================================================
