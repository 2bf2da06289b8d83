------------------------------- MODULE JanusCpu -------------------------------
(***************************************************************************)
(* The processor that Janus shows to its guest (monitor/state.c) and the   *)
(* handler that emulates one privileged instruction for every signal       *)
(* (monitor/intercept.c).                                                  *)
(*                                                                         *)
(* The guest and the monitor are one thread: a signal stops the guest, the *)
(* handler opens the low memory, emulates, delivers at most one pending    *)
(* interrupt, closes the low memory again and returns.  One action is one  *)
(* run of the handler.  Which instruction the guest executes next is left  *)
(* open; the end of its interrupt handler is the stub of guest/trap.pl.    *)
(***************************************************************************)
EXTENDS Integers, Sequences, FiniteSets

CONSTANTS
  Selectors,  \* the segment registers that the guest loads, "CS" among them
  MaxIndex,   \* bound: descriptors that the guest selects
  Roots,      \* page tables of the guest, the values that it puts in CR3
  NoRoot,     \* CR3 at boot: no page table
  Cr0Values, Cr4Values, EferValues,  \* values that the guest writes
  MaxRip,     \* bound: privileged instructions of the main code, and of each
              \* run of an interrupt handler of the guest
  MaxNest     \* bound: interrupt handlers of the guest in progress

CR0 == {"PE", "ET", "PG"}
CR4 == {"PAE", "PGE"}
EFER == {"LME", "LMA"}

ASSUME CpuAssumption ==
  /\ "CS" \in Selectors
  /\ NoRoot \notin Roots
  /\ {MaxIndex, MaxRip, MaxNest} \subseteq Nat
  /\ Cr0Values \subseteq SUBSET CR0
  /\ Cr4Values \subseteq SUBSET CR4
  /\ EferValues \subseteq SUBSET EFER

\* Descriptors: present, and for 64-bit code.  The tables are the first
\* entries of those of guest/entry.S; behind a table lies any descriptor.
Descriptor == [p : BOOLEAN, l : BOOLEAN]
Desc(p, l) == [p |-> p, l |-> l]
Gdt32 == <<Desc(FALSE, FALSE), Desc(TRUE, FALSE), Desc(TRUE, FALSE)>>
Gdt64 == <<Desc(FALSE, FALSE), Desc(TRUE, TRUE), Desc(TRUE, FALSE)>>

INTERRUPT_GP == 13

VARIABLES
  mode,      \* guest_state.mode, 32 or 64
  gdt,       \* gdt and gdt_size, <<>> for the null pointer
  idt,       \* idt_size is not zero
  cr0, cr3, cr4, efer,
  sel,       \* the descriptor that each segment register selects
  pending,   \* the vectors with itpending set
  rip,       \* where the guest is: [in |-> 0 or a vector, at |-> an instruction]
  stack,     \* the words of the guest's stack, the top first
  vm,        \* "run", or how the monitor has ended
  saved,     \* history: for each interrupt in progress, where it came from
  faults     \* history: a general protection fault has been raised

controls == <<mode, gdt, idt, cr0, cr3, cr4, efer, sel>>
flow == <<pending, rip, stack, saved, faults>>
vars == <<controls, flow, vm>>

-----------------------------------------------------------------------------
(* The delivery of interrupts.                                             *)

\* Places in the guest's code.  NullEntry is the address 0 that
\* interrupt_entry() returns for a vector that the table lacks, NoCode any
\* word of the stack that is not a return address.
At(i, n) == [in |-> i, at |-> n]
NullEntry == At(-1, 0)
NoCode == At(-1, 1)

interrupt_entry(vec) == IF idt THEN At(vec, 0) ELSE NullEntry

\* The vectors for which branch_interrupt() pushes an error code, and those
\* for which the stub of trap.pl removes one.
FaultyPushesCode == {8, 9, 10, 11, 12, 14, 16, 17}     \* seeded fault: 13 is missing
PushesCode == {8, 9, 10, 11, 12, 13, 14, 16, 17}
ErrVec == {8, 10, 11, 12, 13, 14, 17}

\* The words that branch_interrupt() pushes at r: the error code, RIP, CS,
\* RFLAGS, RSP and SS.
Frame(vec, r) ==
  (IF vec \in PushesCode THEN <<NoCode>> ELSE <<>>)
    \o <<r, NoCode, NoCode, NoCode, NoCode>>

\* The end of the handler, after an instruction that raised some vectors and
\* continues at next: pending_interrupt() takes the lowest vector and
\* branch_interrupt() goes to its entry.
Finish(raised, next) ==
  LET all == pending \cup raised
  IN  /\ faults' = (faults \/ INTERRUPT_GP \in raised)
      /\ IF all = {}
         THEN rip' = next /\ UNCHANGED <<stack, saved, pending>>
         ELSE LET vec == CHOOSE v \in all : \A w \in all : v <= w
              IN  /\ pending' = all \ {vec}
                  /\ stack' = Frame(vec, next) \o stack
                  /\ rip' = interrupt_entry(vec)
                  /\ saved' = <<[rip |-> next, depth |-> Len(stack)]>> \o saved

\* The guest, in its main code or in a handler, executes an instruction that
\* traps.
Trap ==
  /\ vm = "run"
  /\ rip # NullEntry
  /\ rip.at < MaxRip
  /\ Len(saved) < MaxNest

Following == [rip EXCEPT !.at = @ + 1]

GP(condition) == IF condition THEN {INTERRUPT_GP} ELSE {}

\* The instruction is emulated and the guest goes on; the handler ends the
\* process.
Emulated(raised) == vm' = vm /\ Finish(raised, Following)
Ends(how) == vm' = how /\ UNCHANGED <<controls, flow>>

-----------------------------------------------------------------------------
(* The instructions.  A general protection fault does not stop the         *)
(* emulation of the one that raises it.                                    *)

\* lgdt: the limit covers the table, or ends inside its last descriptor.
Lgdt(table, whole) ==
  /\ Trap
  /\ gdt' = IF whole THEN table ELSE SubSeq(table, 1, Len(table) - 1)
  /\ UNCHANGED <<mode, idt, cr0, cr3, cr4, efer, sel>>
  /\ Emulated(GP(~whole))

\* lidt: the limit covers the 256 gates, or ends inside the last one.
Lidt(whole) ==
  /\ Trap
  /\ IF mode = 64
     THEN /\ idt' = TRUE
          /\ UNCHANGED <<mode, gdt, cr0, cr3, cr4, efer, sel>>
          /\ Emulated(GP(~whole))
     ELSE Ends("failed")

\* The descriptors that mov_to_selector() may find at an index: its test lets
\* the one behind the table through, and a fault does not stop it.
Found(index) == IF index < Len(gdt) THEN {gdt[index + 1]} ELSE Descriptor

\* Paging and LMA: a far jump then enters 64-bit mode.
LongMode == {"PE", "PG"} \subseteq cr0 /\ "LMA" \in efer

\* mov_to_selector(), for a move to a segment register and for a long jump.
\* Before the first lgdt it dereferences the null pointer, inside the handler.
MovToSelector(s, index, d) ==
  /\ Trap
  /\ IF gdt = <<>> THEN Ends("killed")
     ELSE IF s = "CS" /\ mode = 64 /\ ~d.l THEN Ends("failed")
     ELSE /\ mode' = IF s = "CS" /\ LongMode THEN 64 ELSE mode
          /\ sel' = [sel EXCEPT ![s] = index]
          /\ UNCHANGED <<gdt, idt, cr0, cr3, cr4, efer>>
          /\ Emulated(GP(index > Len(gdt) \/ ~d.p))

\* mov_to_cr0(): the value takes effect even if it faults, ET stays set, and
\* only the move that enables paging looks at EFER.
EnablesPaging(val) == "PG" \in val \ cr0

MovToCr0(val) ==
  /\ Trap
  /\ IF "PE" \notin val THEN Ends("failed")
     ELSE /\ cr0' = val \cup {"ET"}
          /\ efer' = IF EnablesPaging(val) /\ "LME" \in efer
                     THEN efer \cup {"LMA"} ELSE efer
          /\ UNCHANGED <<mode, gdt, idt, cr3, cr4, sel>>
          /\ Emulated(GP(EnablesPaging(val) /\ "LME" \in efer /\ "PAE" \notin cr4))

MovToCr3(root) ==
  /\ Trap
  /\ cr3' = root
  /\ UNCHANGED <<mode, gdt, idt, cr0, cr4, efer, sel>>
  /\ Emulated({})

\* Seeded fault: the test looks at the mode instead of LMA.
FaultyMovToCr4(val) ==
  /\ Trap
  /\ cr4' = val
  /\ UNCHANGED <<mode, gdt, idt, cr0, cr3, efer, sel>>
  /\ Emulated(GP("PAE" \in cr4 \ val /\ mode = 64))

MovToCr4(val) ==
  /\ Trap
  /\ cr4' = val
  /\ UNCHANGED <<mode, gdt, idt, cr0, cr3, efer, sel>>
  /\ Emulated(GP("PAE" \in cr4 \ val /\ "LMA" \in efer))

\* wrmsr() of EFER: LMA may not be set, LME may not change under paging.
Wrmsr(val) ==
  /\ Trap
  /\ efer' = val
  /\ UNCHANGED <<mode, gdt, idt, cr0, cr3, cr4, sel>>
  /\ Emulated(GP(\/ "LMA" \in val \ efer
                 \/ "PG" \in cr0 /\ ("LME" \in val) # ("LME" \in efer)))

\* Instructions that read the state or have no effect: mov from a control
\* register, rdmsr, sti, invlpg, out to an ignored port, a write on the screen.
Harmless ==
  /\ Trap
  /\ UNCHANGED controls
  /\ Emulated({})

\* hlt ends the monitor; so does what it does not support: out to another
\* port, a read of the low memory, any other instruction.
Hlt == Trap /\ Ends("halted")
Unsupported == Trap /\ Ends("failed")

\* The stub of an interrupt removes the error code and executes iretq, which
\* takes RIP from the stack and drops the five words of the frame.
Iretq ==
  /\ vm = "run"
  /\ rip.in > 0
  /\ LET words == IF rip.in \in ErrVec THEN Tail(stack) ELSE stack
     IN  /\ rip' = words[1]
         /\ stack' = SubSeq(words, 6, Len(words))
  /\ saved' = Tail(saved)
  /\ UNCHANGED <<controls, pending, faults, vm>>

\* The guest goes to the null entry: the handler of that signal reads the
\* instruction at address 0 and is killed.
NullFetch ==
  /\ vm = "run"
  /\ rip = NullEntry
  /\ Ends("killed")

Init ==
  /\ mode = 32
  /\ gdt = <<>> /\ idt = FALSE
  /\ cr0 = {"PE", "ET"} /\ cr3 = NoRoot /\ cr4 = {} /\ efer = {}
  /\ sel = [s \in Selectors |-> 0]
  /\ pending = {}
  /\ rip = At(0, 0) /\ stack = <<>>
  /\ vm = "run" /\ saved = <<>> /\ faults = FALSE

Next ==
  \/ \E t \in {Gdt32, Gdt64}, whole \in BOOLEAN : Lgdt(t, whole)
  \/ \E whole \in BOOLEAN : Lidt(whole)
  \/ \E s \in Selectors, i \in 0..MaxIndex : \E d \in Found(i) : MovToSelector(s, i, d)
  \/ \E v \in Cr0Values : MovToCr0(v)
  \/ \E r \in Roots : MovToCr3(r)
  \/ \E v \in Cr4Values : MovToCr4(v)
  \/ \E v \in EferValues : Wrmsr(v)
  \/ Harmless
  \/ Hlt
  \/ Unsupported
  \/ Iretq
  \/ NullFetch

Spec == Init /\ [][Next]_vars

-----------------------------------------------------------------------------
(* Properties.                                                             *)

\* The registers hold what they may hold, and the history of the interrupts
\* in progress agrees with the place where the guest is.
Place == [in : {0, INTERRUPT_GP}, at : 0..MaxRip]

TypeOK ==
  /\ mode \in {32, 64}
  /\ gdt \in Seq(Descriptor) /\ idt \in BOOLEAN
  /\ cr0 \in SUBSET CR0 /\ {"PE", "ET"} \subseteq cr0
  /\ cr4 \in SUBSET CR4 /\ efer \in SUBSET EFER
  /\ cr3 \in Roots \cup {NoRoot}
  /\ sel \in [Selectors -> 0..MaxIndex]
  /\ pending \subseteq {INTERRUPT_GP}
  /\ rip \in Place \cup {NullEntry}
  /\ vm \in {"run", "halted", "failed", "killed"}
  /\ saved \in Seq([rip : Place, depth : Nat]) /\ Len(saved) <= MaxNest
  /\ faults \in BOOLEAN

\* The stack is made of the frames of the interrupts in progress, the last one
\* on top: each holds its error code and the place to return to, which is in
\* a handler for all but the first.
FrameSize == 6

StackShape ==
  LET n == Len(saved)
  IN  /\ stack \in Seq([in : Int, at : Int])
      /\ Len(stack) = FrameSize * n
      /\ \A i \in 1..n :
           /\ saved[i].depth = FrameSize * (n - i)
           /\ stack[FrameSize * (i - 1) + 2] = saved[i].rip
           /\ saved[i].rip.in = 0 <=> i = n
      /\ rip # NullEntry => (rip.in = 0 <=> n = 0)

\* Long mode is active only with PAE, whatever order the guest chooses for its
\* moves to CR0, CR4 and EFER, until it makes one that faults: the tests are
\* spread over the three registers, and each looks at the two others.
LongModeNeedsPae == "LMA" \in efer /\ ~faults => "PAE" \in cr4

\* The guest comes back from an interrupt where it was interrupted, with the
\* stack that it had, however deep interrupts are nested: what
\* branch_interrupt() pushes is what the stub and iretq remove.
InterruptsReturn ==
  [][Len(saved') < Len(saved)
       => rip' = Head(saved).rip /\ Len(stack') = Head(saved).depth]_vars
=============================================================================
