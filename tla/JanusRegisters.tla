---------------------------- MODULE JanusRegisters ----------------------------
(***************************************************************************)
(* The general registers of the guest, which the kernel of the host saves  *)
(* when a signal comes, and the privileged instructions that move values   *)
(* between them and the processor of JanusCpu: mov to and from a control   *)
(* register, mov to a segment register, rdmsr, wrmsr, and the long jump    *)
(* (monitor/intercept.c).                                                  *)
(*                                                                         *)
(* A word is the set of its bits that are one.  The saved registers are    *)
(* passed as g, so that the guest's own instructions, which do not trap,   *)
(* can come before the one that does.                                      *)
(***************************************************************************)
EXTENDS JanusCpu

CONSTANT Leftovers  \* what a register may hold when the guest begins

ASSUME RegistersAssumption ==
  /\ Leftovers \subseteq SUBSET (0..63)
  /\ MaxIndex > 3      \* an index behind both tables
  /\ \A root \in Roots : root \subseteq 12..31

VARIABLE gregs  \* the saved RAX, RCX and RDX

RegistersInit == gregs \in [{"RAX", "RCX", "RDX"} -> Leftovers]

Low(width) == 0..(width - 1)

\* Names of registers: the one that encloses it, and the width.
AX == [of |-> "RAX", width |-> 16]
EAX == [of |-> "RAX", width |-> 32]
ECX == [of |-> "RCX", width |-> 32]

\* Seeded fault: the register is read in full, whatever its name.
FaultyReadRegister(r, g) == g[r.of]

\* read_register(): the low bits of the enclosing register.
read_register(r, g) == g[r.of] \cap Low(r.width)

\* write_register(): the bits above the width stay.  (The processor clears
\* the upper half when it writes a register of 32 bits.)
write_register(r, g, val) ==
  [g EXCEPT ![r.of] = (@ \ Low(r.width)) \cup (val \cap Low(r.width))]

\* The bits that monitor/state.c knows by name, and the two ways between a
\* word and the names of JanusCpu.  Nothing depends on the other bits.
Cr0Bits == [PE |-> 0, ET |-> 4, PG |-> 31]
Cr4Bits == [PAE |-> 5, PGE |-> 7]
EferBits == [LME |-> 8, LMA |-> 10]
Word(names, bits) == {bits[n] : n \in names}
Names(word, bits) == {n \in DOMAIN bits : bits[n] \in word}

\* The words that select the first four descriptors, 8 times their index.
FirstFour == <<{}, {3}, {4}, {3, 4}>>

\* The index of a selector; all those further behind the tables are alike.
Index(val) ==
  LET same == {i \in 0..3 : FirstFour[i + 1] = val \ Low(3)}
  IN  IF same = {} THEN MaxIndex ELSE CHOOSE i \in same : TRUE

MSR_EFER == {7, 30, 31}
Every == Low(64)

-----------------------------------------------------------------------------
(* The instructions.                                                       *)

\* emulate_mov_to_sel() and emulate_ljmp().
emulate_mov_to_sel(dest, src, g) ==
  LET index == Index(read_register(src, g))
  IN  /\ \E d \in Found(index) : MovToSelector(dest, index, d)
      /\ gregs' = g

emulate_ljmp(cs, g) ==
  /\ \E d \in Found(Index(cs)) : MovToSelector("CS", Index(cs), d)
  /\ gregs' = g

\* emulate_mov_to_cr(), of the three registers that the processor looks at.
emulate_mov_to_cr(crn, src, g) ==
  LET val == read_register(src, g)
  IN  /\ \/ crn = 0 /\ MovToCr0(Names(val, Cr0Bits))
         \/ crn = 3 /\ MovToCr3(val)
         \/ crn = 4 /\ MovToCr4(Names(val, Cr4Bits))
      /\ gregs' = g

\* emulate_mov_from_cr().
Control(crn) == IF crn = 0 THEN Word(cr0, Cr0Bits) ELSE Word(cr4, Cr4Bits)

emulate_mov_from_cr(dest, crn, g) ==
  /\ Harmless
  /\ gregs' = write_register(dest, g, Control(crn))

\* emulate_rdmsr(): 0xffffffff is an unsigned int, so that its complement is
\* zero and clears the whole register.  An unknown MSR reads as ones.
rdmsr(addr) == IF addr = MSR_EFER THEN Word(efer, EferBits) ELSE Every

emulate_rdmsr(g) ==
  LET val == rdmsr(read_register(ECX, g))
  IN  /\ Harmless
      /\ gregs' = [g EXCEPT !.RAX = val \cap Low(32),
                            !.RDX = {b - 32 : b \in val \ Low(32)}]

\* Seeded fault: the two halves are swapped.
FaultyEmulateWrmsr(g) ==
  LET val == (g["RDX"] \cap Low(32)) \cup {b + 32 : b \in g["RAX"] \cap Low(32)}
  IN  /\ IF read_register(ECX, g) = MSR_EFER THEN Wrmsr(Names(val, EferBits)) ELSE Harmless
      /\ gregs' = g

\* emulate_wrmsr(): nothing happens to an unknown MSR.
emulate_wrmsr(g) ==
  LET val == (g["RAX"] \cap Low(32)) \cup {b + 32 : b \in g["RDX"] \cap Low(32)}
  IN  /\ IF read_register(ECX, g) = MSR_EFER THEN Wrmsr(Names(val, EferBits)) ELSE Harmless
      /\ gregs' = g

\* The other privileged instructions touch no general register.
Keeps(g) == gregs' = g
=============================================================================
