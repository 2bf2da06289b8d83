---------------------------- MODULE JanusCpuProofs ----------------------------
(***************************************************************************)
(* Theorems about the emulated processor.  Of JanusCpu, where any          *)
(* instruction may follow any other: types, the delivery of faults, the    *)
(* return from interrupts nested to any depth, the condition on long mode. *)
(* Of JanusBoot, where entry.S runs on it: no fault before lidt, a handler *)
(* for each one after it, and the registers that entry.S asks for.         *)
(***************************************************************************)
EXTENDS JanusBoot, SequenceTheorems, TLAPS

\* A fault is delivered at the end of the handler that raised it: the guest
\* never executes an instruction with an interrupt pending, so that none is
\* lost when the next one of the same vector is raised (there is one flag and
\* one code for each vector).
NothingPending == pending = {}

\* The part of the invariant about the flow of control, the only one that the
\* delivery of an interrupt and the return from it can disturb.
Flow ==
  /\ NothingPending
  /\ rip \in Place \cup {NullEntry}
  /\ saved \in Seq([rip : Place, depth : Nat])
  /\ Len(saved) <= MaxNest
  /\ faults \in BOOLEAN
  /\ StackShape

\* The part about the registers.
Registers ==
  /\ mode \in {32, 64}
  /\ gdt \in Seq(Descriptor) /\ idt \in BOOLEAN
  /\ cr0 \in SUBSET CR0 /\ {"PE", "ET"} \subseteq cr0
  /\ cr4 \in SUBSET CR4 /\ efer \in SUBSET EFER
  /\ cr3 \in Roots \cup {NoRoot}
  /\ sel \in [Selectors -> 0..MaxIndex]

Status == vm \in {"run", "halted", "failed", "killed"}

\* The inductive invariant: TypeOK is a consequence.
IInv == Flow /\ Registers /\ Status

LEMMA InvImpliesType == IInv => TypeOK
  BY DEF IInv, Flow, Registers, Status, NothingPending, TypeOK, CR0, CR4, EFER

-----------------------------------------------------------------------------
(* Interrupts.                                                             *)

StackWord == [in : Int, at : Int]

LEMMA NoCodeIsWord == NoCode \in StackWord
  BY DEF NoCode, At, StackWord

\* The frame of a general protection fault: six words, the second is the place
\* to return to.
LEMMA FrameOfGP ==
  ASSUME NEW r \in StackWord
  PROVE  LET f == Frame(INTERRUPT_GP, r)
         IN  f \in Seq(StackWord) /\ Len(f) = 6 /\ f[2] = r
<1> DEFINE code == <<NoCode>>
           rest == <<r, NoCode, NoCode, NoCode, NoCode>>
<1>1. code \in Seq(StackWord) /\ Len(code) = 1
  BY NoCodeIsWord
<1>2. rest \in Seq(StackWord) /\ Len(rest) = 5 /\ rest[1] = r
  BY NoCodeIsWord
<1>3. Frame(INTERRUPT_GP, r) = code \o rest
  BY DEF Frame, INTERRUPT_GP, PushesCode
<1> HIDE DEF code, rest
<1>4. /\ code \o rest \in Seq(StackWord)
      /\ Len(code \o rest) = Len(code) + Len(rest)
      /\ \A i \in 1..(Len(code) + Len(rest)) :
           (code \o rest)[i] = IF i <= Len(code) THEN code[i] ELSE rest[i - Len(code)]
  BY <1>1, <1>2, ConcatProperties, Zenon
<1>5. Len(code \o rest) = 6 /\ (code \o rest)[2] = r
  BY <1>1, <1>2, <1>4
<1> QED
  BY <1>3, <1>4, <1>5

\* What pending_interrupt() chooses when the only vector raised is GP.
LEMMA ChosenVector ==
  (CHOOSE v \in {INTERRUPT_GP} : \A w \in {INTERRUPT_GP} : v <= w) = INTERRUPT_GP
  BY DEF INTERRUPT_GP

\* Pushing a frame on a stack moves the words below it by six.
LEMMA PushFrame ==
  ASSUME NEW s \in Seq(StackWord), NEW r \in StackWord
  PROVE  LET t == Frame(INTERRUPT_GP, r) \o s
         IN  /\ t \in Seq(StackWord)
             /\ Len(t) = FrameSize + Len(s)
             /\ t[2] = r
             /\ \A k \in 1..Len(s) : t[k + FrameSize] = s[k]
<1> DEFINE f == Frame(INTERRUPT_GP, r)
<1>1. f \in Seq(StackWord) /\ Len(f) = 6 /\ f[2] = r
  BY FrameOfGP
<1> HIDE DEF f
<1>2. Len(s) \in Nat
  BY LenProperties
<1>3. /\ f \o s \in Seq(StackWord)
      /\ Len(f \o s) = Len(f) + Len(s)
      /\ \A k \in 1..(Len(f) + Len(s)) :
           (f \o s)[k] = IF k <= Len(f) THEN f[k] ELSE s[k - Len(f)]
  BY <1>1, ConcatProperties, Zenon
<1>4. (f \o s)[2] = r
  BY <1>1, <1>2, <1>3
<1>5. ASSUME NEW k \in 1..Len(s)
      PROVE  (f \o s)[k + 6] = s[k]
  BY <1>1, <1>2, <1>3
<1> QED
  BY <1>1, <1>3, <1>4, <1>5 DEF FrameSize, f

\* A place is a word of the stack.
LEMMA PlaceIsWord == Place \subseteq StackWord
  BY CpuAssumption DEF Place, INTERRUPT_GP, StackWord

\* An instruction that is emulated, with or without a fault, keeps the shape
\* of the stack and leaves nothing pending.
LEMMA FinishKeepsFlow ==
  ASSUME Flow, Trap, NEW raised \in {{}, {INTERRUPT_GP}}, Finish(raised, Following)
  PROVE  Flow'
<1>1. rip \in Place /\ Following \in Place /\ Following.in = rip.in
  BY CpuAssumption DEF Flow, Trap, Following, Place, NullEntry, At, INTERRUPT_GP
<1>2. CASE raised = {}
  <2>1. rip' = Following /\ saved' = saved /\ stack' = stack /\ pending' = {}
        /\ faults' = faults
    BY <1>2 DEF Finish, Flow, NothingPending, INTERRUPT_GP
  <2>2. Following # NullEntry
    BY <1>1 DEF Place, NullEntry, At, INTERRUPT_GP
  <2>3. StackShape'
    BY <2>1, <2>2, <1>1 DEF Flow, StackShape, Trap
  <2> QED
    BY <2>1, <2>3, <1>1 DEF Flow, NothingPending
<1>3. CASE raised = {INTERRUPT_GP}
  <2> DEFINE n == Len(saved)
             e == [rip |-> Following, depth |-> Len(stack)]
  <2>1. /\ pending' = {}
        /\ stack' = Frame(INTERRUPT_GP, Following) \o stack
        /\ rip' = interrupt_entry(INTERRUPT_GP)
        /\ saved' = <<e>> \o saved
        /\ faults' = TRUE
    <3>1. pending \cup raised = {INTERRUPT_GP}
      BY <1>3 DEF Flow, NothingPending
    <3> QED
      BY <3>1, <1>3, ChosenVector DEF Finish
  <2>2. stack \in Seq(StackWord) /\ Len(stack) = FrameSize * n /\ n \in Nat
    BY DEF Flow, StackShape, StackWord
  <2>3. /\ stack' \in Seq(StackWord)
        /\ Len(stack') = FrameSize + Len(stack)
        /\ stack'[2] = Following
        /\ \A k \in 1..Len(stack) : stack'[k + FrameSize] = stack[k]
    BY <2>1, <2>2, <1>1, PlaceIsWord, PushFrame
  <2>4. e \in [rip : Place, depth : Nat]
    BY <1>1, <2>2 DEF FrameSize
  <2>5. /\ saved' \in Seq([rip : Place, depth : Nat])
        /\ Len(saved') = n + 1
        /\ saved'[1] = e
        /\ \A i \in 1..n : saved'[i + 1] = saved[i]
    BY <2>1, <2>4 DEF Flow
  <2>6. n < MaxNest /\ n + 1 <= MaxNest
    BY <2>2, CpuAssumption DEF Trap
  <2>7. rip' \in {At(INTERRUPT_GP, 0), NullEntry}
    BY <2>1 DEF interrupt_entry
  <2>8. rip' \in Place \cup {NullEntry} /\ (rip' # NullEntry => rip'.in # 0)
    BY <2>7, CpuAssumption DEF At, Place, INTERRUPT_GP
  <2>9. StackShape'
    <3>1. Len(stack') = FrameSize * (n + 1)
      BY <2>2, <2>3 DEF FrameSize
    <3>2. ASSUME NEW i \in 1..(n + 1)
          PROVE  /\ saved'[i].depth = FrameSize * (n + 1 - i)
                 /\ stack'[FrameSize * (i - 1) + 2] = saved'[i].rip
                 /\ saved'[i].rip.in = 0 <=> i = n + 1
      <4>1. CASE i = 1
        <5>1. rip.in = 0 <=> n = 0
          BY DEF Flow, StackShape, Trap
        <5> QED
          BY <4>1, <5>1, <2>2, <2>3, <2>5, <1>1 DEF FrameSize
      <4>2. CASE i # 1
        <5> DEFINE j == i - 1
        <5>1. j \in 1..n /\ i = j + 1
          BY <4>2, <2>2
        <5>2. /\ saved[j].depth = FrameSize * (n - j)
              /\ stack[FrameSize * (j - 1) + 2] = saved[j].rip
              /\ saved[j].rip.in = 0 <=> j = n
          BY <5>1 DEF Flow, StackShape
        <5>3. FrameSize * (j - 1) + 2 \in 1..Len(stack)
          BY <5>1, <2>2 DEF FrameSize
        <5>4. stack'[FrameSize * (j - 1) + 2 + FrameSize] = stack[FrameSize * (j - 1) + 2]
          BY <5>3, <2>3
        <5>5. /\ FrameSize * (j - 1) + 2 + FrameSize = FrameSize * (i - 1) + 2
              /\ n - j = n + 1 - i
              /\ j = n <=> i = n + 1
          BY <5>1, <2>2 DEF FrameSize
        <5>6. saved'[i] = saved[j]
          BY <5>1, <2>5
        <5> QED
          BY <5>2, <5>4, <5>5, <5>6
      <4> QED
        BY <4>1, <4>2
    <3>3. rip' # NullEntry => (rip'.in = 0 <=> Len(saved') = 0)
      BY <2>8, <2>5, <2>2
    <3>4. stack' \in Seq([in : Int, at : Int]) /\ Len(saved') = n + 1 /\ n \in Nat
      BY <2>2, <2>3, <2>5 DEF StackWord
    <3> HIDE DEF n, e
    <3> QED
      BY <3>1, <3>2, <3>3, <3>4 DEF StackShape
  <2> QED
    BY <2>1, <2>5, <2>6, <2>8, <2>9 DEF Flow, NothingPending
<1> QED
  BY <1>2, <1>3

-----------------------------------------------------------------------------
(* The return from an interrupt.                                           *)

\* What the stub and iretq leave of a stack: six words less, the second of
\* them being the place to return to.
LEMMA PopFrame ==
  ASSUME NEW s \in Seq(StackWord), Len(s) >= FrameSize
  PROVE  LET t == SubSeq(Tail(s), 6, Len(Tail(s)))
         IN  /\ Tail(s)[1] = s[2]
             /\ t \in Seq(StackWord)
             /\ Len(t) = Len(s) - FrameSize
             /\ \A k \in 1..Len(t) : t[k] = s[k + FrameSize]
<1> DEFINE u == Tail(s)
           t == SubSeq(u, 6, Len(u))
<1>1. Len(s) \in Nat /\ Len(s) >= 6 /\ s # <<>>
  BY LenProperties DEF FrameSize
<1>2. /\ u \in Seq(StackWord) /\ Len(u) = Len(s) - 1
      /\ \A k \in 1..Len(u) : u[k] = s[k + 1]
  BY <1>1, HeadTailProperties, Zenon
<1> HIDE DEF u
<1>3. \A k \in 6..Len(u) : u[k] \in StackWord
  BY <1>1, <1>2, ElementOfSeq
<1>4. 6 \in Int /\ Len(u) \in Int /\ 6 <= Len(u) + 1
  BY <1>1, <1>2
<1>5. /\ t \in Seq(StackWord)
      /\ Len(t) = IF 6 <= Len(u) THEN Len(u) - 6 + 1 ELSE 0
      /\ \A k \in 1..(Len(u) - 6 + 1) : t[k] = u[6 + k - 1]
  BY <1>3, <1>4, SubSeqProperties
<1> HIDE DEF t
<1>6. Len(t) = Len(s) - 6
  BY <1>1, <1>2, <1>5
<1>7. ASSUME NEW k \in 1..Len(t)
      PROVE  t[k] = s[k + 6]
  <2>1. k \in 1..(Len(u) - 6 + 1) /\ 6 + k - 1 \in 1..Len(u) /\ 6 + k - 1 + 1 = k + 6
    BY <1>1, <1>2, <1>6
  <2> QED
    BY <2>1, <1>2, <1>5
<1>8. u[1] = s[2]
  BY <1>1, <1>2
<1> QED
  BY <1>5, <1>6, <1>7, <1>8 DEF FrameSize, u, t

LEMMA HeadIsFirst ==
  ASSUME NEW S, NEW s \in Seq(S), s # <<>>
  PROVE  Head(s) = s[1] /\ s[1] \in S
  BY ElementOfSeq

\* The guest returns where it was interrupted, with the stack that it had, and
\* what is left has the shape of one interrupt less.
LEMMA IretqReturns ==
  ASSUME Flow, Iretq
  PROVE  /\ Flow'
         /\ rip' = Head(saved).rip /\ Len(stack') = Head(saved).depth
<1> DEFINE n == Len(saved)
           rest == Tail(saved)
<1>1. /\ stack \in Seq(StackWord) /\ Len(stack) = FrameSize * n
      /\ \A i \in 1..n : /\ saved[i].depth = FrameSize * (n - i)
                         /\ stack[FrameSize * (i - 1) + 2] = saved[i].rip
                         /\ saved[i].rip.in = 0 <=> i = n
  BY DEF Flow, StackShape, StackWord
<1>2. /\ saved \in Seq([rip : Place, depth : Nat]) /\ n \in Nat
  BY LenProperties DEF Flow
<1>3. rip.in = INTERRUPT_GP /\ n > 0 /\ saved # <<>>
  <2>1. rip \in Place /\ rip # NullEntry
    BY DEF Flow, Iretq, Place, NullEntry, At, INTERRUPT_GP
  <2>2. rip.in = INTERRUPT_GP
    BY <2>1 DEF Iretq, Place
  <2>3. n # 0
    BY <2>1, <2>2 DEF Flow, StackShape, INTERRUPT_GP
  <2> QED
    BY <2>2, <2>3, <1>2
<1>4. Len(stack) >= FrameSize
  BY <1>1, <1>2, <1>3 DEF FrameSize
<1>5. /\ rip' = stack[2]
      /\ stack' \in Seq(StackWord)
      /\ Len(stack') = Len(stack) - FrameSize
      /\ \A k \in 1..Len(stack') : stack'[k] = stack[k + FrameSize]
  <2>1. /\ rip' = Tail(stack)[1]
        /\ stack' = SubSeq(Tail(stack), 6, Len(Tail(stack)))
    BY <1>3 DEF Iretq, ErrVec, INTERRUPT_GP
  <2> QED
    BY <2>1, <1>1, <1>4, PopFrame
<1>6. /\ saved' = rest /\ rest \in Seq([rip : Place, depth : Nat])
      /\ Len(rest) = n - 1
      /\ \A i \in 1..(n - 1) : rest[i] = saved[i + 1]
  <2>1. /\ rest \in Seq([rip : Place, depth : Nat]) /\ Len(rest) = n - 1
        /\ \A i \in 1..Len(rest) : rest[i] = saved[i + 1]
    BY <1>2, <1>3, HeadTailProperties, Zenon
  <2> QED
    BY <2>1 DEF Iretq
<1> HIDE DEF rest
<1>7. Head(saved) = saved[1] /\ saved[1] \in [rip : Place, depth : Nat]
  BY <1>2, <1>3, HeadIsFirst
<1>8. rip' = saved[1].rip /\ Len(stack') = saved[1].depth
  BY <1>1, <1>2, <1>3, <1>5 DEF FrameSize
<1>9. rip' \in Place /\ rip' # NullEntry /\ (rip'.in = 0 <=> n = 1)
  <2>1. saved[1].rip.in = 0 <=> 1 = n
    <3>1. 1 \in 1..n
      BY <1>2, <1>3
    <3> QED
      BY <3>1, <1>1
  <2> QED
    BY <2>1, <1>7, <1>8 DEF Place, NullEntry, At, INTERRUPT_GP
<1>10. StackShape'
  <2>1. Len(stack') = FrameSize * (n - 1)
    BY <1>1, <1>2, <1>5 DEF FrameSize
  <2>2. ASSUME NEW i \in 1..(n - 1)
        PROVE  /\ rest[i].depth = FrameSize * (n - 1 - i)
               /\ stack'[FrameSize * (i - 1) + 2] = rest[i].rip
               /\ rest[i].rip.in = 0 <=> i = n - 1
    <3>1. i + 1 \in 1..n /\ rest[i] = saved[i + 1]
      BY <1>2, <1>6
    <3>2. /\ saved[i + 1].depth = FrameSize * (n - (i + 1))
          /\ stack[FrameSize * i + 2] = saved[i + 1].rip
          /\ saved[i + 1].rip.in = 0 <=> i + 1 = n
      BY <3>1, <1>1
    <3>3. /\ FrameSize * (i - 1) + 2 \in 1..Len(stack')
          /\ FrameSize * (i - 1) + 2 + FrameSize = FrameSize * i + 2
      BY <2>1, <1>2 DEF FrameSize
    <3>4. stack'[FrameSize * (i - 1) + 2] = stack[FrameSize * i + 2]
      BY <3>3, <1>5
    <3>5. n - 1 - i = n - (i + 1) /\ (i + 1 = n <=> i = n - 1)
      BY <1>2
    <3> QED
      BY <3>1, <3>2, <3>4, <3>5
  <2> QED
    BY <2>1, <2>2, <1>2, <1>5, <1>6, <1>9 DEF StackShape, StackWord
<1>11. pending' = {} /\ faults' = faults
  BY DEF Iretq, Flow, NothingPending
<1>12. Len(saved') <= MaxNest
  <2>1. n <= MaxNest /\ MaxNest \in Nat
    BY CpuAssumption DEF Flow
  <2>2. Len(saved') = n - 1
    BY <1>6
  <2> QED
    BY <2>1, <2>2, <1>2
<1>13. saved' \in Seq([rip : Place, depth : Nat])
  BY <1>6
<1>14. faults' \in BOOLEAN
  BY <1>11 DEF Flow
<1>15. Flow'
  BY <1>9, <1>10, <1>11, <1>12, <1>13, <1>14 DEF Flow, NothingPending
<1> QED
  BY <1>7, <1>8, <1>15

-----------------------------------------------------------------------------
(* The invariant is inductive.                                             *)

LEMMA InitInv == Init => IInv
<1> SUFFICES ASSUME Init PROVE IInv
  OBVIOUS
<1>1. Registers
  <2>1. 0 \in 0..MaxIndex
    BY CpuAssumption
  <2>2. gdt \in Seq(Descriptor)
    BY EmptySeq DEF Init
  <2>3. cr0 \in SUBSET CR0 /\ {"PE", "ET"} \subseteq cr0 /\ cr4 \in SUBSET CR4 /\ efer \in SUBSET EFER
    BY DEF Init, CR0
  <2>4. sel \in [Selectors -> 0..MaxIndex]
    BY <2>1 DEF Init
  <2> QED
    BY <2>2, <2>3, <2>4 DEF Init, Registers
<1>2. Flow
  <2>1. saved = <<>> /\ stack = <<>> /\ rip = At(0, 0) /\ faults = FALSE /\ pending = {}
    BY DEF Init
  <2>2. rip \in Place
    BY <2>1, CpuAssumption DEF At, Place
  <2>3. saved \in Seq([rip : Place, depth : Nat]) /\ Len(saved) = 0
    BY <2>1, EmptySeq
  <2>4. stack \in Seq([in : Int, at : Int]) /\ Len(stack) = 0
    BY <2>1, EmptySeq
  <2>5. StackShape
    BY <2>1, <2>3, <2>4 DEF StackShape, FrameSize, At
  <2>6. Len(saved) <= MaxNest
    BY <2>3, CpuAssumption
  <2> QED
    BY <2>1, <2>2, <2>3, <2>5, <2>6 DEF Flow, NothingPending
<1>3. Status
  BY DEF Init, Status
<1> QED
  BY <1>1, <1>2, <1>3 DEF IInv

\* An instruction raises no vector or GP.
LEMMA RaisedByGP ==
  ASSUME NEW condition
  PROVE  GP(condition) \in {{}, {INTERRUPT_GP}}
  BY DEF GP

\* The tables of entry.S, and what a limit inside their last descriptor leaves.
LEMMA TablesAreSequences == {Gdt32, Gdt64} \subseteq Seq(Descriptor)
<1>1. \A p, l \in BOOLEAN : Desc(p, l) \in Descriptor
  BY DEF Desc, Descriptor
<1>2. ASSUME NEW a \in Descriptor, NEW b \in Descriptor, NEW c \in Descriptor
      PROVE  <<a, b, c>> \in Seq(Descriptor)
  OBVIOUS
<1>3. Gdt32 \in Seq(Descriptor)
  BY <1>1, <1>2 DEF Gdt32
<1>4. Gdt64 \in Seq(Descriptor)
  BY <1>1, <1>2 DEF Gdt64
<1> QED
  BY <1>3, <1>4

LEMMA FrontIsSequence ==
  ASSUME NEW S, NEW s \in Seq(S)
  PROVE  SubSeq(s, 1, Len(s) - 1) \in Seq(S)
<1>1. Len(s) \in Nat
  BY LenProperties
<1>2. \A i \in 1..(Len(s) - 1) : s[i] \in S
  BY <1>1, ElementOfSeq
<1> QED
  BY <1>1, <1>2, SubSeqProperties

LEMMA EmulatedKeeps ==
  ASSUME Flow, Status, Trap, NEW raised \in {{}, {INTERRUPT_GP}}, Emulated(raised)
  PROVE  Flow' /\ Status'
  BY FinishKeepsFlow DEF Emulated, Status

LEMMA EndsKeeps ==
  ASSUME IInv, NEW how \in {"halted", "failed", "killed"}, Ends(how)
  PROVE  IInv'
<1>1. Registers'
  BY DEF IInv, Registers, Ends, controls
<1>2. Flow'
  BY DEF IInv, Flow, Ends, flow, NothingPending, StackShape
<1>3. Status'
  BY DEF Status, Ends
<1> QED
  BY <1>1, <1>2, <1>3 DEF IInv

LEMMA NextInv == IInv /\ [Next]_vars => IInv'
<1> SUFFICES ASSUME IInv, [Next]_vars PROVE IInv'
  OBVIOUS
<1> USE DEF IInv
<1>1. CASE \E t \in {Gdt32, Gdt64}, whole \in BOOLEAN : Lgdt(t, whole)
  <2> PICK t \in {Gdt32, Gdt64}, whole \in BOOLEAN : Lgdt(t, whole)
    BY <1>1
  <2>1. Flow' /\ Status'
    BY EmulatedKeeps, RaisedByGP DEF Lgdt
  <2>2. t \in Seq(Descriptor) /\ SubSeq(t, 1, Len(t) - 1) \in Seq(Descriptor)
    BY TablesAreSequences, FrontIsSequence
  <2>3. gdt' \in Seq(Descriptor)
    BY <2>2 DEF Lgdt
  <2>4. Registers'
    BY <2>3 DEF Lgdt, Registers
  <2> QED
    BY <2>1, <2>4
<1>2. CASE \E whole \in BOOLEAN : Lidt(whole)
  <2> PICK whole \in BOOLEAN : Lidt(whole)
    BY <1>2
  <2>1. CASE mode = 64
    <3>1. Flow' /\ Status'
      BY <2>1, EmulatedKeeps, RaisedByGP DEF Lidt
    <3>2. Registers'
      BY <2>1 DEF Lidt, Registers
    <3> QED
      BY <3>1, <3>2
  <2>2. CASE mode # 64
    BY <2>2, EndsKeeps DEF Lidt
  <2> QED
    BY <2>1, <2>2
<1>3. CASE \E s \in Selectors, i \in 0..MaxIndex : \E d \in Found(i) : MovToSelector(s, i, d)
  <2> PICK s \in Selectors, i \in 0..MaxIndex : \E d \in Found(i) : MovToSelector(s, i, d)
    BY <1>3
  <2> PICK d \in Found(i) : MovToSelector(s, i, d)
    OBVIOUS
  <2>1. CASE gdt = <<>>
    BY <2>1, EndsKeeps DEF MovToSelector
  <2>2. CASE gdt # <<>> /\ s = "CS" /\ mode = 64 /\ ~d.l
    BY <2>2, EndsKeeps DEF MovToSelector
  <2>3. CASE gdt # <<>> /\ ~(s = "CS" /\ mode = 64 /\ ~d.l)
    <3>1. /\ mode' = IF s = "CS" /\ LongMode THEN 64 ELSE mode
          /\ sel' = [sel EXCEPT ![s] = i]
          /\ UNCHANGED <<gdt, idt, cr0, cr3, cr4, efer>>
          /\ Emulated(GP(i > Len(gdt) \/ ~d.p))
          /\ Trap
      BY <2>3 DEF MovToSelector
    <3>2. Flow' /\ Status'
      BY <3>1, EmulatedKeeps, RaisedByGP
    <3>3. Registers'
      BY <3>1 DEF Registers
    <3> QED
      BY <3>2, <3>3
  <2> QED
    BY <2>1, <2>2, <2>3
<1>4. CASE \E v \in Cr0Values : MovToCr0(v)
  <2> PICK v \in Cr0Values : MovToCr0(v)
    BY <1>4
  <2>1. CASE "PE" \notin v
    BY <2>1, EndsKeeps DEF MovToCr0
  <2>2. CASE "PE" \in v
    <3>1. Flow' /\ Status'
      BY <2>2, EmulatedKeeps, RaisedByGP DEF MovToCr0
    <3>2. cr0' \in SUBSET CR0 /\ {"PE", "ET"} \subseteq cr0'
      BY <2>2, CpuAssumption DEF MovToCr0, CR0
    <3>3. efer' \in SUBSET EFER
      BY <2>2 DEF MovToCr0, Registers, EFER
    <3>4. UNCHANGED <<mode, gdt, idt, cr3, cr4, sel>>
      BY <2>2 DEF MovToCr0
    <3>5. Registers'
      BY <3>2, <3>3, <3>4 DEF Registers
    <3> QED
      BY <3>1, <3>5
  <2> QED
    BY <2>1, <2>2
<1>5. CASE \E r \in Roots : MovToCr3(r)
  <2> PICK r \in Roots : MovToCr3(r)
    BY <1>5
  <2>1. Flow' /\ Status'
    BY EmulatedKeeps DEF MovToCr3
  <2>2. Registers'
    BY DEF MovToCr3, Registers
  <2> QED
    BY <2>1, <2>2
<1>6. CASE \E v \in Cr4Values : MovToCr4(v)
  <2> PICK v \in Cr4Values : MovToCr4(v)
    BY <1>6
  <2>1. Flow' /\ Status'
    BY EmulatedKeeps, RaisedByGP DEF MovToCr4
  <2>2. Registers'
    BY CpuAssumption DEF MovToCr4, Registers
  <2> QED
    BY <2>1, <2>2
<1>7. CASE \E v \in EferValues : Wrmsr(v)
  <2> PICK v \in EferValues : Wrmsr(v)
    BY <1>7
  <2>1. Flow' /\ Status'
    BY EmulatedKeeps, RaisedByGP DEF Wrmsr
  <2>2. Registers'
    BY CpuAssumption DEF Wrmsr, Registers
  <2> QED
    BY <2>1, <2>2
<1>8. CASE Harmless
  <2>1. Flow' /\ Status'
    BY <1>8, EmulatedKeeps DEF Harmless
  <2>2. Registers'
    BY <1>8 DEF Harmless, controls, Registers
  <2> QED
    BY <2>1, <2>2
<1>9. CASE Hlt \/ Unsupported \/ NullFetch
  BY <1>9, EndsKeeps DEF Hlt, Unsupported, NullFetch
<1>10. CASE Iretq
  <2>1. Flow'
    BY <1>10, IretqReturns
  <2>2. Registers' /\ Status'
    BY <1>10 DEF Iretq, controls, Registers, Status
  <2> QED
    BY <2>1, <2>2
<1>11. CASE UNCHANGED vars
  BY <1>11 DEF vars, controls, flow, Flow, Registers, Status, NothingPending, StackShape
<1> QED
  BY <1>1, <1>2, <1>3, <1>4, <1>5, <1>6, <1>7, <1>8, <1>9, <1>10, <1>11 DEF Next

\* The inductive invariant holds of every behaviour: the processor's registers,
\* the stack of the guest and the monitor's status after any trap.
THEOREM Invariant == Spec => []IInv
  BY InitInv, NextInv, PTL DEF Spec

\* For any number of instructions, of nested interrupts and of registers, the
\* emulated processor stays in a state of the right types.
THEOREM TypeCorrect == Spec => []TypeOK
  BY Invariant, InvImpliesType, PTL

\* A fault that an instruction raises is delivered before the guest executes
\* the next one.
THEOREM NothingPendingCorrect == Spec => []NothingPending
<1>1. IInv => NothingPending
  BY DEF IInv, Flow
<1> QED
  BY <1>1, Invariant, PTL

\* The stack of the guest is made of the frames of the interrupts in progress,
\* however deep they are nested.
THEOREM StackShapeCorrect == Spec => []StackShape
<1>1. IInv => StackShape
  BY DEF IInv, Flow
<1> QED
  BY <1>1, Invariant, PTL

-----------------------------------------------------------------------------
(* Steps: the return from interrupts, and the condition on long mode.      *)

\* An instruction that is emulated does not end an interrupt.
LEMMA EmulatedDeepens ==
  ASSUME Flow, Trap, NEW raised \in {{}, {INTERRUPT_GP}}, Emulated(raised)
  PROVE  ~(Len(saved') < Len(saved))
<1>1. saved \in Seq([rip : Place, depth : Nat]) /\ Len(saved) \in Nat
  BY LenProperties DEF Flow
<1>2. rip \in Place /\ Following \in Place
  BY CpuAssumption DEF Flow, Trap, Following, Place, NullEntry, At, INTERRUPT_GP
<1>3. Len(stack) \in Nat
  BY LenProperties DEF Flow, StackShape
<1> DEFINE e == [rip |-> Following, depth |-> Len(stack)]
<1>4. saved' = saved \/ saved' = <<e>> \o saved
  BY DEF Emulated, Finish
<1>5. e \in [rip : Place, depth : Nat]
  BY <1>2, <1>3
<1> HIDE DEF e
<1>6. Len(<<e>> \o saved) = 1 + Len(saved)
  BY <1>1, <1>5
<1> QED
  BY <1>1, <1>4, <1>6

LEMMA ReturnStep ==
  ASSUME IInv, [Next]_vars, Len(saved') < Len(saved)
  PROVE  rip' = Head(saved).rip /\ Len(stack') = Head(saved).depth
<1> USE DEF IInv
<1>1. Len(saved) \in Nat
  BY LenProperties DEF Flow
<1>2. saved' # saved
  BY <1>1
<1>3. \A c : Trap /\ Emulated(GP(c)) => FALSE
  BY EmulatedDeepens, RaisedByGP
<1>4. Trap /\ Emulated({}) => FALSE
  BY EmulatedDeepens
<1>5. \A how : ~Ends(how)
  BY <1>2 DEF Ends, flow
<1>6. Iretq
  BY <1>2, <1>3, <1>4, <1>5
     DEF Next, vars, flow, Lgdt, Lidt, MovToSelector, MovToCr0, MovToCr3, MovToCr4,
         Wrmsr, Harmless, Hlt, Unsupported, NullFetch
<1> QED
  BY <1>6, IretqReturns

\* The guest comes back from every interrupt to the instruction and the stack
\* that it had, for any nesting of interrupts.
THEOREM InterruptsReturnCorrect == Spec => InterruptsReturn
<1>1. IInv /\ [Next]_vars =>
        [Len(saved') < Len(saved)
           => rip' = Head(saved).rip /\ Len(stack') = Head(saved).depth]_vars
  BY ReturnStep
<1> QED
  BY <1>1, Invariant, PTL DEF Spec, InterruptsReturn

\* A step that raises a fault leaves it in the history.
LEMMA FaultIsRecorded ==
  ASSUME faults \in BOOLEAN, NEW condition \in BOOLEAN, Emulated(GP(condition))
  PROVE  faults' = (faults \/ condition)
  BY DEF Emulated, Finish, GP

LEMMA LongModeStep ==
  ASSUME IInv, LongModeNeedsPae, [Next]_vars
  PROVE  LongModeNeedsPae'
<1> USE DEF IInv
<1>1. faults \in BOOLEAN
  BY DEF Flow
<1>2. CASE UNCHANGED <<cr4, efer>> /\ (faults => faults')
  BY <1>2 DEF LongModeNeedsPae
<1>3. \A c : Emulated(GP(c)) => (faults => faults')
  BY DEF Emulated, Finish
<1>4. Emulated({}) => (faults => faults')
  BY DEF Emulated, Finish
<1>5. \A how : Ends(how) => UNCHANGED <<cr4, efer, faults>>
  BY DEF Ends, controls, flow
<1>6. CASE \E v \in Cr0Values : MovToCr0(v)
  <2> PICK v \in Cr0Values : MovToCr0(v)
    BY <1>6
  <2>1. CASE "PE" \notin v
    BY <2>1, <1>2, <1>5 DEF MovToCr0
  <2>2. CASE "PE" \in v
    <3>1. /\ cr4' = cr4
          /\ efer' = IF EnablesPaging(v) /\ "LME" \in efer THEN efer \cup {"LMA"} ELSE efer
          /\ faults' = (faults \/ (EnablesPaging(v) /\ "LME" \in efer /\ "PAE" \notin cr4))
      BY <2>2, <1>1, FaultIsRecorded DEF MovToCr0
    <3> QED
      BY <3>1 DEF LongModeNeedsPae
  <2> QED
    BY <2>1, <2>2
<1>7. CASE \E v \in Cr4Values : MovToCr4(v)
  <2> PICK v \in Cr4Values : MovToCr4(v)
    BY <1>7
  <2>1. /\ cr4' = v /\ efer' = efer
        /\ faults' = (faults \/ ("PAE" \in cr4 \ v /\ "LMA" \in efer))
    BY <1>1, FaultIsRecorded DEF MovToCr4
  <2> QED
    BY <2>1 DEF LongModeNeedsPae
<1>8. CASE \E v \in EferValues : Wrmsr(v)
  <2> PICK v \in EferValues : Wrmsr(v)
    BY <1>8
  <2> DEFINE c == \/ "LMA" \in v \ efer
                  \/ "PG" \in cr0 /\ ("LME" \in v) # ("LME" \in efer)
  <2>1. efer' = v /\ cr4' = cr4 /\ faults' = (faults \/ c)
    BY <1>1, FaultIsRecorded DEF Wrmsr
  <2> QED
    BY <2>1 DEF LongModeNeedsPae
<1>9. CASE \/ \E t \in {Gdt32, Gdt64}, whole \in BOOLEAN : Lgdt(t, whole)
           \/ \E whole \in BOOLEAN : Lidt(whole)
           \/ \E s \in Selectors, i \in 0..MaxIndex : \E d \in Found(i) : MovToSelector(s, i, d)
           \/ \E r \in Roots : MovToCr3(r)
           \/ Harmless
  BY <1>9, <1>2, <1>3, <1>4, <1>5
     DEF Lgdt, Lidt, MovToSelector, MovToCr3, Harmless, controls
<1>10. CASE Hlt \/ Unsupported \/ NullFetch
  BY <1>10, <1>2, <1>5 DEF Hlt, Unsupported, NullFetch
<1>11. CASE Iretq \/ UNCHANGED vars
  BY <1>11, <1>2 DEF Iretq, controls, flow, vars
<1> QED
  BY <1>6, <1>7, <1>8, <1>9, <1>10, <1>11 DEF Next

\* Whatever values the guest writes to CR0, CR4 and EFER and in whatever
\* order, long mode is not active without PAE unless a fault was raised.
THEOREM LongModeNeedsPaeCorrect == Spec => []LongModeNeedsPae
<1>1. Init => LongModeNeedsPae
  BY DEF Init, LongModeNeedsPae
<1> QED
  BY <1>1, LongModeStep, Invariant, PTL DEF Spec

-----------------------------------------------------------------------------
(* The boot.  Its code is a straight line, so that what the registers hold *)
(* can be said for each instruction; what follows it is anything.          *)

\* The registers that entry.S asks for.
AsAsked ==
  /\ cr0 = {"PE", "ET", "PG"} /\ cr3 = pml4
  /\ cr4 = {"PAE", "PGE"} /\ efer = {"LME", "LMA"}
  /\ sel["CS"] = 1 /\ \A s \in {"DS", "ES", "FS", "GS", "SS"} : sel[s] = 2

\* The instruction that comes next.
Here == rip.at

\* The guest is in its boot, and nothing was raised.
Quiet ==
  /\ rip \in [in : {0}, at : 0 .. Lidt64]
  /\ vm = "run" /\ faults = FALSE /\ pending = {}

\* The registers that a later instruction looks at, before each one.
Held ==
  /\ idt = FALSE
  /\ gdt = IF Here = 0 THEN <<>> ELSE IF Here <= 10 THEN Gdt32 ELSE Gdt64
  /\ mode = IF Here <= 11 THEN 32 ELSE 64
  /\ cr0 = IF Here <= 9 THEN {"PE", "ET"} ELSE {"PE", "ET", "PG"}
  /\ Here > 3 => cr3 = pml4
  /\ cr4 = IF Here <= 5 THEN {} ELSE {"PAE", "PGE"}
  /\ efer = IF Here <= 7 THEN {} ELSE IF Here <= 9 THEN {"LME"} ELSE {"LME", "LMA"}
  /\ sel \in [Selectors -> Nat]
  /\ Here > 11 => sel["CS"] = 1
  /\ \A n \in 1 .. 5 : Here > 11 + n => sel[Segments[n]] = 2
  /\ gregs \in [{"RAX", "RCX", "RDX"} -> SUBSET Nat]
  /\ Here = 5 => gregs["RAX"] \cap Low(32) = {}
  /\ Here = 7 => gregs["RAX"] = {} /\ gregs["RDX"] = {} /\ gregs["RCX"] = MSR_EFER
  /\ Here = 9 => gregs["RAX"] \cap Low(32) = {0, 4}

Booting == Quiet /\ Held

\* After it: a fault has somewhere to go.
Running ==
  /\ idt = TRUE /\ mode = 64 /\ pending = {}
  /\ rip \in [in : {0, INTERRUPT_GP}, at : Nat]
  /\ rip.in = 0 => Here >= Booted
  /\ rip = At(0, Booted) => AsAsked

BootInv == Booting \/ Running

-----------------------------------------------------------------------------
(* The values that the boot passes through the registers.                  *)

\* The words of its instructions, in the widths by which they are named.
LEMMA Words ==
  /\ {3} \cap Low(16) = {3} /\ {4} \cap Low(16) = {4}
  /\ {3} \ Low(3) = {3} /\ {4} \ Low(3) = {4}
  /\ {5, 7} \cap Low(32) = {5, 7} /\ {8} \cap Low(32) = {8}
  /\ MSR_EFER \cap Low(32) = MSR_EFER
  /\ {0, 4, 8, 31} \cap Low(32) = {0, 4, 8, 31}
  BY DEF Low, MSR_EFER

\* The selectors of the code and of the data.
LEMMA Indices == Index({3}) = 1 /\ Index({4}) = 2
<1>1. /\ FirstFour[0 + 1] = {} /\ FirstFour[1 + 1] = {3}
      /\ FirstFour[2 + 1] = {4} /\ FirstFour[3 + 1] = {3, 4}
  BY DEF FirstFour
<1>2. {i \in 0..3 : FirstFour[i + 1] = {3}} = {1}
  BY <1>1
<1>3. {i \in 0..3 : FirstFour[i + 1] = {4}} = {2}
  BY <1>1
<1> QED BY <1>2, <1>3, Words DEF Index

\* The names of the bits, and the bits of the names.
LEMMA Bits ==
  /\ Word({}, Cr4Bits) = {} /\ Word({}, EferBits) = {}
  /\ Word({"PE", "ET"}, Cr0Bits) = {0, 4}
  /\ Names({5, 7}, Cr4Bits) = {"PAE", "PGE"}
  /\ Names({8}, EferBits) = {"LME"}
  /\ Names({0, 4, 8, 31}, Cr0Bits) = {"PE", "ET", "PG"}
  BY DEF Word, Names, Cr0Bits, Cr4Bits, EferBits

-----------------------------------------------------------------------------
(* The end of the handler.                                                 *)

Advances == rip' = Following /\ pending' = {} /\ faults' = faults /\ vm' = vm

\* Nothing raised: the guest goes on.
LEMMA Clean ==
  ASSUME pending = {}, faults \in BOOLEAN, Emulated({})
  PROVE  Advances
  BY DEF Emulated, Finish, Advances

\* Something raised: the guest goes on or enters the handler.
LEMMA Delivered ==
  ASSUME pending = {}, idt, NEW raised \in SUBSET {INTERRUPT_GP}, Emulated(raised)
  PROVE  /\ pending' = {}
         /\ rip' = Following \/ rip' = At(INTERRUPT_GP, 0)
<1>1. CASE raised = {}
  BY <1>1 DEF Emulated, Finish
<1>2. CASE raised = {INTERRUPT_GP}
  <2>1. (CHOOSE v \in {INTERRUPT_GP} : \A w \in {INTERRUPT_GP} : v <= w) = INTERRUPT_GP
    BY DEF INTERRUPT_GP
  <2> QED BY <1>2, <2>1 DEF Emulated, Finish, interrupt_entry
<1> QED BY <1>1, <1>2

-----------------------------------------------------------------------------
(* The instructions of the boot.                                           *)

\* The descriptors that it selects are present.
LEMMA Present ==
  ASSUME gdt \in {Gdt32, Gdt64}
  PROVE  /\ gdt # <<>> /\ Len(gdt) = 3
         /\ \A d \in Found(1) \cup Found(2) : d.p
  BY DEF Found, Gdt32, Gdt64, Desc

\* A move of the data selector to a segment register.
LEMMA Selects ==
  ASSUME gdt \in {Gdt32, Gdt64}, NEW s, s # "CS", NEW d \in Found(2), MovToSelector(s, 2, d)
  PROVE  /\ sel' = [sel EXCEPT ![s] = 2] /\ mode' = mode
         /\ UNCHANGED <<gdt, idt, cr0, cr3, cr4, efer>>
         /\ Emulated({})
<1>1. gdt # <<>> /\ d.p /\ ~ (2 > Len(gdt))
  BY Present
<1> QED BY <1>1 DEF MovToSelector, GP

\* The far jump, from 32-bit code.
LEMMA Jumps ==
  ASSUME gdt \in {Gdt32, Gdt64}, mode = 32, NEW d \in Found(1), MovToSelector("CS", 1, d)
  PROVE  /\ sel' = [sel EXCEPT !["CS"] = 1]
         /\ mode' = IF LongMode THEN 64 ELSE 32
         /\ UNCHANGED <<gdt, idt, cr0, cr3, cr4, efer>>
         /\ Emulated({})
<1>1. gdt # <<>> /\ d.p /\ ~ (1 > Len(gdt))
  BY Present
<1> QED BY <1>1 DEF MovToSelector, GP

\* The data selector comes from AX, whose upper part is left over.
LEMMA DataInAX ==
  ASSUME gregs \in [{"RAX", "RCX", "RDX"} -> SUBSET Nat]
  PROVE  /\ Index(read_register(AX, Movw(AX, {4}))) = 2
         /\ Movw(AX, {4}) \in [{"RAX", "RCX", "RDX"} -> SUBSET Nat]
<1>1. /\ Movw(AX, {4})["RAX"] = (gregs["RAX"] \ Low(16)) \cup {4}
      /\ Movw(AX, {4}) \in [{"RAX", "RCX", "RDX"} -> SUBSET Nat]
  BY DEF Movw, AX
<1>2. Movw(AX, {4})["RAX"] \cap Low(16) = {4}
  BY <1>1, Words
<1> QED BY <1>1, <1>2, Indices DEF read_register, AX

\* Places.
LEMMA Places ==
  /\ MaxPrint \in Nat /\ Lidt64 = 17 + MaxPrint /\ Booted = 18 + MaxPrint
  /\ 17 \in 0 .. Lidt64
  /\ Segments[1] = "DS" /\ Segments[2] = "ES" /\ Segments[3] = "FS"
  /\ Segments[4] = "GS" /\ Segments[5] = "SS"
  BY BootAssumption DEF Lidt64, Booted, Segments

\* The step from one instruction to the next.
LEMMA Moves ==
  ASSUME Quiet, rip.at < Lidt64, Advances
  PROVE  Quiet' /\ rip'.at = rip.at + 1
<1>1. rip.at \in Nat /\ rip = [in |-> 0, at |-> rip.at]
  BY Places DEF Quiet
<1>2. rip' = [in |-> 0, at |-> rip.at + 1]
  BY <1>1 DEF Advances, Following
<1>3. rip'.at = rip.at + 1 /\ rip.at + 1 \in 0 .. Lidt64
  BY <1>1, <1>2, Places
<1> QED BY <1>2, <1>3 DEF Quiet, Advances

\* The instructions of entry.S, one after the other.
LEMMA EntryBooting ==
  ASSUME Quiet, Held, Entry
  PROVE  Quiet' /\ Held'
<1> DEFINE G == [{"RAX", "RCX", "RDX"} -> SUBSET Nat]
<1>1. gregs \in G /\ pending = {} /\ faults \in BOOLEAN /\ rip.at \in Nat
  <2>1. gregs \in G
    BY DEF Held
  <2>2. pending = {} /\ faults \in BOOLEAN
    BY DEF Quiet
  <2>3. rip.at \in Nat
    BY Places DEF Quiet
  <2> QED BY <2>1, <2>2, <2>3
<1>2. CASE rip.at = 0 /\ Lgdt(Gdt32, TRUE) /\ Keeps(gregs)
  <2>1. /\ gdt' = Gdt32 /\ UNCHANGED <<mode, idt, cr0, cr3, cr4, efer, sel>>
        /\ Advances /\ gregs' = gregs
    BY <1>1, <1>2, Clean DEF Lgdt, GP, Keeps
  <2>2. rip'.at = 1
    BY <1>2, <2>1, Moves, Places
  <2> QED BY <1>2, <2>1, <2>2, Moves, Places DEF Held, Here
<1>3. CASE rip.at = 1 /\ emulate_mov_to_sel("DS", AX, Movw(AX, {4}))
  <2>1. PICK d \in Found(2) : MovToSelector("DS", 2, d)
    BY <1>1, <1>3, DataInAX DEF emulate_mov_to_sel
  <2>2. gdt = Gdt32 /\ gregs' \in G
    BY <1>1, <1>3, DataInAX DEF Held, Here, emulate_mov_to_sel
  <2>3. /\ sel' = [sel EXCEPT !["DS"] = 2] /\ mode' = mode
        /\ UNCHANGED <<gdt, idt, cr0, cr3, cr4, efer>>
        /\ Emulated({})
    BY <2>1, <2>2, Selects
  <2>4. Advances /\ rip'.at = 2
    BY <1>1, <1>3, <2>3, Clean, Moves, Places
  <2>5. sel' \in [Selectors -> Nat]
    BY <2>3 DEF Held
  <2> QED BY <1>3, <2>2, <2>3, <2>4, <2>5, Moves, Places DEF Held, Here
<1>4. CASE rip.at = 2 /\ emulate_ljmp({3}, gregs)
  <2>1. gdt = Gdt32 /\ mode = 32 /\ ~LongMode
    BY <1>4 DEF Held, Here, LongMode
  <2>2. PICK d \in Found(1) : MovToSelector("CS", 1, d)
    BY <1>4, Indices DEF emulate_ljmp
  <2>3. /\ sel' = [sel EXCEPT !["CS"] = 1] /\ mode' = 32
        /\ UNCHANGED <<gdt, idt, cr0, cr3, cr4, efer>>
        /\ Emulated({})
    BY <2>1, <2>2, Jumps
  <2>4. Advances /\ rip'.at = 3 /\ gregs' = gregs
    BY <1>1, <1>4, <2>3, Clean, Moves, Places DEF emulate_ljmp
  <2>5. sel' \in [Selectors -> Nat]
    BY <2>3 DEF Held
  <2> QED BY <1>4, <2>1, <2>3, <2>4, <2>5, Moves, Places DEF Held, Here
<1>5. CASE rip.at = 3 /\ emulate_mov_to_cr(3, EAX, Movl(EAX, pml4))
  <2> DEFINE g == Movl(EAX, pml4)
  <2>1. g \in G /\ g["RAX"] = pml4 /\ pml4 \cap Low(32) = pml4
    BY <1>1, BootAssumption, RegistersAssumption DEF Movl, EAX, Low
  <2>2. MovToCr3(pml4) /\ gregs' = g
    BY <1>5, <2>1 DEF emulate_mov_to_cr, read_register, EAX
  <2>3. /\ cr3' = pml4 /\ UNCHANGED <<mode, gdt, idt, cr0, cr4, efer, sel>>
        /\ Advances /\ rip'.at = 4
    BY <1>1, <1>5, <2>2, Clean, Moves, Places DEF MovToCr3
  <2> QED BY <1>5, <2>1, <2>2, <2>3, Moves, Places DEF Held, Here
<1>6. CASE rip.at = 4 /\ emulate_mov_from_cr(EAX, 4, gregs)
  <2>1. Control(4) = {}
    BY <1>6, Bits DEF Held, Here, Control
  <2>2. gregs' = [gregs EXCEPT !["RAX"] = @ \ Low(32)]
    BY <1>6, <2>1 DEF emulate_mov_from_cr, write_register, EAX
  <2>3. gregs' \in G /\ gregs'["RAX"] \cap Low(32) = {}
    BY <1>1, <2>2
  <2>4. UNCHANGED controls /\ Advances /\ rip'.at = 5
    BY <1>1, <1>6, Clean, Moves, Places DEF emulate_mov_from_cr, Harmless
  <2> QED BY <1>6, <2>3, <2>4, Moves, Places DEF Held, Here, controls
<1>7. CASE rip.at = 5 /\ emulate_mov_to_cr(4, EAX, Orl(EAX, {5, 7}))
  <2> DEFINE g == Orl(EAX, {5, 7})
  <2>1. g \in G /\ g["RAX"] = {5, 7}
    BY <1>1, <1>7 DEF Held, Here, Orl, EAX
  <2>2. MovToCr4({"PAE", "PGE"}) /\ gregs' = g
    <3>1. read_register(EAX, g) = {5, 7}
      BY <2>1, Words DEF read_register, EAX
    <3>2. MovToCr4(Names({5, 7}, Cr4Bits)) /\ gregs' = g
      BY <1>7, <3>1 DEF emulate_mov_to_cr
    <3> QED BY <3>2, Bits
  <2>3. GP("PAE" \in cr4 \ {"PAE", "PGE"} /\ "LMA" \in efer) = {}
    BY DEF GP
  <2>4. /\ cr4' = {"PAE", "PGE"} /\ UNCHANGED <<mode, gdt, idt, cr0, cr3, efer, sel>>
        /\ Emulated({})
    BY <2>2, <2>3, Zenon DEF MovToCr4
  <2>5. Advances /\ rip'.at = 6
    BY <1>1, <1>7, <2>4, Clean, Moves, Places
  <2> QED BY <1>7, <2>1, <2>2, <2>4, <2>5, Moves, Places DEF Held, Here
<1>8. CASE rip.at = 6 /\ emulate_rdmsr(Movl(ECX, MSR_EFER))
  <2> DEFINE g == Movl(ECX, MSR_EFER)
  <2>1. g \in G /\ g["RCX"] = MSR_EFER
    BY <1>1 DEF Movl, ECX, MSR_EFER
  <2>2. rdmsr(read_register(ECX, g)) = {}
    BY <1>8, <2>1, Words, Bits DEF Held, Here, rdmsr, read_register, ECX
  <2>3. gregs' = [g EXCEPT !["RAX"] = {}, !["RDX"] = {}]
    BY <1>8, <2>2 DEF emulate_rdmsr
  <2>4. /\ gregs' \in G /\ gregs'["RAX"] = {} /\ gregs'["RDX"] = {}
        /\ gregs'["RCX"] = MSR_EFER
    BY <2>1, <2>3
  <2>5. UNCHANGED controls /\ Advances /\ rip'.at = 7
    BY <1>1, <1>8, Clean, Moves, Places DEF emulate_rdmsr, Harmless
  <2> QED BY <1>8, <2>4, <2>5, Moves, Places DEF Held, Here, controls
<1>9. CASE rip.at = 7 /\ emulate_wrmsr(Orl(EAX, {8}))
  <2> DEFINE g == Orl(EAX, {8})
             val == (g["RAX"] \cap Low(32)) \cup {b + 32 : b \in g["RDX"] \cap Low(32)}
  <2>1. g \in G /\ g["RAX"] = {8} /\ g["RDX"] = {} /\ g["RCX"] = MSR_EFER
    BY <1>1, <1>9 DEF Held, Here, Orl, EAX
  <2>2. val = {8} /\ read_register(ECX, g) = MSR_EFER
    BY <2>1, Words DEF read_register, ECX
  <2>3. Wrmsr({"LME"}) /\ gregs' = g
    BY <1>9, <2>2, Bits DEF emulate_wrmsr
  <2>4. GP(\/ "LMA" \in {"LME"} \ efer
           \/ "PG" \in cr0 /\ ("LME" \in {"LME"}) # ("LME" \in efer)) = {}
    BY <1>9 DEF GP, Held, Here
  <2>5. /\ efer' = {"LME"} /\ UNCHANGED <<mode, gdt, idt, cr0, cr3, cr4, sel>>
        /\ Emulated({})
    BY <2>3, <2>4, Zenon DEF Wrmsr
  <2>6. Advances /\ rip'.at = 8
    BY <1>1, <1>9, <2>5, Clean, Moves, Places
  <2> QED BY <1>9, <2>1, <2>3, <2>5, <2>6, Moves, Places DEF Held, Here
<1>10. CASE rip.at = 8 /\ emulate_mov_from_cr(EAX, 0, gregs)
  <2>1. Control(0) = {0, 4}
    BY <1>10, Bits DEF Held, Here, Control
  <2>2. gregs' = [gregs EXCEPT !["RAX"] = (@ \ Low(32)) \cup ({0, 4} \cap Low(32))]
    BY <1>10, <2>1 DEF emulate_mov_from_cr, write_register, EAX
  <2>3. gregs' \in G /\ gregs'["RAX"] \cap Low(32) = {0, 4}
    <3>1. {0, 4} \cap Low(32) = {0, 4} /\ {0, 4} \subseteq Nat
      BY DEF Low
    <3> QED BY <1>1, <2>2, <3>1
  <2>4. UNCHANGED controls /\ Advances /\ rip'.at = 9
    BY <1>1, <1>10, Clean, Moves, Places DEF emulate_mov_from_cr, Harmless
  <2> QED BY <1>10, <2>3, <2>4, Moves, Places DEF Held, Here, controls
<1>11. CASE rip.at = 9 /\ emulate_mov_to_cr(0, EAX, Orl(EAX, {8, 31}))
  <2> DEFINE g == Orl(EAX, {8, 31})
             val == {"PE", "ET", "PG"}
  <2>1. g \in G /\ g["RAX"] = {0, 4, 8, 31}
    BY <1>1, <1>11 DEF Held, Here, Orl, EAX
  <2>2. MovToCr0(val) /\ gregs' = g
    BY <1>11, <2>1, Words, Bits DEF emulate_mov_to_cr, read_register, EAX
  <2>3. /\ EnablesPaging(val) /\ "LME" \in efer /\ "PAE" \in cr4
        /\ efer \cup {"LMA"} = {"LME", "LMA"} /\ val \cup {"ET"} = val
    BY <1>11 DEF Held, Here, EnablesPaging
  <2>4. /\ cr0' = val /\ efer' = {"LME", "LMA"}
        /\ UNCHANGED <<mode, gdt, idt, cr3, cr4, sel>>
        /\ Emulated({})
    BY <2>2, <2>3 DEF MovToCr0, GP
  <2>5. Advances /\ rip'.at = 10
    BY <1>1, <1>11, <2>4, Clean, Moves, Places
  <2> QED BY <1>11, <2>1, <2>2, <2>4, <2>5, Moves, Places DEF Held, Here
<1>12. CASE rip.at = 10 /\ Lgdt(Gdt64, TRUE) /\ Keeps(gregs)
  <2>1. /\ gdt' = Gdt64 /\ UNCHANGED <<mode, idt, cr0, cr3, cr4, efer, sel>>
        /\ Advances /\ gregs' = gregs
    BY <1>1, <1>12, Clean DEF Lgdt, GP, Keeps
  <2>2. rip'.at = 11
    BY <1>12, <2>1, Moves, Places
  <2> QED BY <1>12, <2>1, <2>2, Moves, Places DEF Held, Here
<1>13. CASE rip.at = 11 /\ emulate_ljmp({3}, gregs)
  <2>1. gdt = Gdt64 /\ mode = 32 /\ LongMode
    BY <1>13 DEF Held, Here, LongMode
  <2>2. PICK d \in Found(1) : MovToSelector("CS", 1, d)
    BY <1>13, Indices DEF emulate_ljmp
  <2>3. /\ sel' = [sel EXCEPT !["CS"] = 1] /\ mode' = 64
        /\ UNCHANGED <<gdt, idt, cr0, cr3, cr4, efer>>
        /\ Emulated({})
    BY <2>1, <2>2, Jumps
  <2>4. Advances /\ rip'.at = 12 /\ gregs' = gregs
    BY <1>1, <1>13, <2>3, Clean, Moves, Places DEF emulate_ljmp
  <2>5. sel' \in [Selectors -> Nat] /\ sel'["CS"] = 1
    BY <2>3, CpuAssumption DEF Held
  <2> QED BY <1>13, <2>1, <2>3, <2>4, <2>5, Moves, Places DEF Held, Here
<1>14. CASE /\ rip.at \in 12..16
            /\ emulate_mov_to_sel(Segments[rip.at - 11], AX, Movw(AX, {4}))
  <2>1. PICK n \in 1 .. 5 : n = rip.at - 11
    BY <1>14
  <2>2. PICK s \in {"DS", "ES", "FS", "GS", "SS"} : s = Segments[n]
    BY Places
  <2>3. \A m \in 1 .. 5 : Segments[m] \in Selectors /\ (m # n => Segments[m] # s)
    BY <2>2, Places, BootAssumption
  <2>4. PICK d \in Found(2) : MovToSelector(s, 2, d)
    BY <1>1, <1>14, <2>1, <2>2, DataInAX DEF emulate_mov_to_sel
  <2>5. gdt = Gdt64 /\ gregs' \in G
    BY <1>1, <1>14, DataInAX DEF Held, Here, emulate_mov_to_sel
  <2>6. /\ sel' = [sel EXCEPT ![s] = 2] /\ mode' = mode
        /\ UNCHANGED <<gdt, idt, cr0, cr3, cr4, efer>>
        /\ Emulated({})
    BY <2>4, <2>5, Selects
  <2>7. Advances /\ rip'.at = 12 + n
    BY <1>1, <1>14, <2>1, <2>6, Clean, Moves, Places
  <2>8. sel \in [Selectors -> Nat] /\ sel["CS"] = 1 /\ "CS" \in Selectors /\ s # "CS"
    <3>1. sel \in [Selectors -> Nat] /\ (rip.at > 11 => sel["CS"] = 1)
      BY DEF Held, Here
    <3>2. rip.at > 11 /\ s # "CS"
      BY <1>14, <2>2
    <3> QED BY <3>1, <3>2, CpuAssumption
  <2>9. sel' \in [Selectors -> Nat] /\ sel'["CS"] = 1
    BY <2>6, <2>8
  <2>10. ASSUME NEW m \in 1 .. 5, rip'.at > 11 + m PROVE sel'[Segments[m]] = 2
    <3>1. CASE m = n
      BY <2>2, <2>3, <2>6, <2>8, <3>1
    <3>2. CASE m # n
      <4>1. rip.at > 11 + m
        BY <1>1, <2>1, <2>7, <2>10, <3>2
      <4>2. sel[Segments[m]] = 2
        BY <4>1 DEF Held, Here
      <4> QED BY <2>3, <2>6, <2>8, <3>2, <4>2
    <3> QED BY <3>1, <3>2
  <2>11. /\ idt' = FALSE /\ gdt' = Gdt64 /\ mode' = 64 /\ cr0' = {"PE", "ET", "PG"}
         /\ cr3' = pml4 /\ cr4' = {"PAE", "PGE"} /\ efer' = {"LME", "LMA"}
    BY <1>14, <2>6 DEF Held, Here
  <2>12. Quiet' /\ rip'.at > 12 /\ rip'.at \in Nat
    BY <1>1, <1>14, <2>7, Moves, Places
  <2>13. Held'
    BY <2>5, <2>9, <2>10, <2>11, <2>12 DEF Held, Here
  <2> QED BY <2>12, <2>13
<1> QED BY <1>2, <1>3, <1>4, <1>5, <1>6, <1>7, <1>8, <1>9, <1>10, <1>11, <1>12, <1>13, <1>14
  DEF Entry

\* main_multiboot2() writes on the screen, and its lidt ends the boot.
LEMMA MainBooting ==
  ASSUME Quiet, Held, Main, Keeps(gregs)
  PROVE  (Quiet' /\ Held') \/ Running'
<1>1. pending = {} /\ faults \in BOOLEAN
  BY DEF Quiet
<1>2. rip.at \in Nat /\ rip.in = 0
  BY Places DEF Quiet
<1>3. CASE rip.at \in 17..(Lidt64 - 1) /\ Harmless
  <2>1. UNCHANGED controls /\ Advances
    BY <1>1, <1>3, Clean DEF Harmless
  <2>2. Quiet' /\ rip'.at > 17 /\ rip'.at \in Nat
    BY <1>2, <1>3, <2>1, Moves, Places
  <2>3. gregs' = gregs
    BY DEF Keeps
  <2>4. rip.at > 16
    BY <1>2, <1>3
  <2>5. /\ idt' = FALSE /\ gdt' = Gdt64 /\ mode' = 64 /\ cr0' = {"PE", "ET", "PG"}
        /\ cr3' = pml4 /\ cr4' = {"PAE", "PGE"} /\ efer' = {"LME", "LMA"}
        /\ sel' \in [Selectors -> Nat] /\ sel'["CS"] = 1
    BY <1>2, <2>1, <2>4 DEF Held, Here, controls
  <2>6. \A n \in 1 .. 5 : sel'[Segments[n]] = 2
    BY <1>2, <2>1, <2>4 DEF Held, Here, controls
  <2>7. gregs' \in [{"RAX", "RCX", "RDX"} -> SUBSET Nat]
    BY <2>3 DEF Held
  <2>8. Held'
    <3>1. PICK a \in Nat : a = rip'.at /\ a > 17
      BY <2>2
    <3>2. /\ a # 0 /\ ~ (a <= 7) /\ ~ (a <= 9) /\ ~ (a <= 10) /\ ~ (a <= 11) /\ ~ (a <= 5)
          /\ a # 5 /\ a # 7 /\ a # 9
      BY <3>1
    <3> QED BY <2>5, <2>6, <2>7, <3>1, <3>2, Zenon DEF Held, Here
  <2> QED BY <2>2, <2>8
<1>4. CASE rip.at = Lidt64 /\ Lidt(TRUE)
  <2>1. mode = 64 /\ AsAsked
    <3>1. rip.at > 16
      BY <1>4, Places
    <3>2. \A n \in 1 .. 5 : sel[Segments[n]] = 2
      BY <1>2, <3>1 DEF Held, Here
    <3>3. /\ sel["DS"] = 2 /\ sel["ES"] = 2 /\ sel["FS"] = 2
          /\ sel["GS"] = 2 /\ sel["SS"] = 2
      BY <3>2, Places
    <3>4. /\ mode = 64 /\ cr0 = {"PE", "ET", "PG"} /\ cr3 = pml4 /\ cr4 = {"PAE", "PGE"}
          /\ efer = {"LME", "LMA"} /\ sel["CS"] = 1
      BY <1>2, <3>1 DEF Held, Here
    <3> QED BY <3>3, <3>4 DEF AsAsked
  <2>2. /\ idt' = TRUE /\ UNCHANGED <<mode, gdt, cr0, cr3, cr4, efer, sel>>
        /\ Emulated({})
    BY <1>4, <2>1 DEF Lidt, GP
  <2>3. Advances
    BY <1>1, <2>2, Clean
  <2>4. rip = [in |-> 0, at |-> Lidt64]
    BY <1>4 DEF Quiet
  <2>5. rip' = [in |-> 0, at |-> Booted] /\ pending' = {} /\ Booted \in Nat
    BY <2>3, <2>4, Places DEF Advances, Following
  <2>6. AsAsked'
    BY <2>1, <2>2 DEF AsAsked
  <2> QED BY <2>1, <2>2, <2>5, <2>6 DEF Running, Here
<1> QED BY <1>3, <1>4 DEF Main

-----------------------------------------------------------------------------
(* After the boot.                                                         *)

\* An instruction of the program, whichever it is, leaves the interrupts set
\* up and the processor in 64-bit mode.
LEMMA ProgramStep ==
  ASSUME idt = TRUE, mode = 64, rip.in = 0, Next
  PROVE  \/ /\ idt' = TRUE /\ mode' = 64
            /\ \E raised \in SUBSET {INTERRUPT_GP} : Emulated(raised)
         \/ UNCHANGED <<controls, flow>>
<1>1. \A c : GP(c) \in SUBSET {INTERRUPT_GP}
  BY DEF GP
<1>2. {} \in SUBSET {INTERRUPT_GP}
  OBVIOUS
<1>3. ASSUME NEW t \in {Gdt32, Gdt64}, NEW whole \in BOOLEAN, Lgdt(t, whole)
      PROVE  idt' = TRUE /\ mode' = 64 /\ \E raised \in SUBSET {INTERRUPT_GP} : Emulated(raised)
  BY <1>1, <1>3 DEF Lgdt
<1>4. ASSUME NEW whole \in BOOLEAN, Lidt(whole)
      PROVE  idt' = TRUE /\ mode' = 64 /\ \E raised \in SUBSET {INTERRUPT_GP} : Emulated(raised)
  BY <1>1, <1>4 DEF Lidt
<1>5. ASSUME NEW s \in Selectors, NEW i \in 0..MaxIndex, NEW d \in Found(i), MovToSelector(s, i, d),
             ~UNCHANGED <<controls, flow>>
      PROVE  idt' = TRUE /\ mode' = 64 /\ \E raised \in SUBSET {INTERRUPT_GP} : Emulated(raised)
  BY <1>1, <1>5 DEF MovToSelector, Ends
<1>6. ASSUME NEW v \in Cr0Values, MovToCr0(v), ~UNCHANGED <<controls, flow>>
      PROVE  idt' = TRUE /\ mode' = 64 /\ \E raised \in SUBSET {INTERRUPT_GP} : Emulated(raised)
  BY <1>1, <1>6 DEF MovToCr0, Ends
<1>7. ASSUME NEW r \in Roots, MovToCr3(r)
      PROVE  idt' = TRUE /\ mode' = 64 /\ \E raised \in SUBSET {INTERRUPT_GP} : Emulated(raised)
  BY <1>2, <1>7 DEF MovToCr3
<1>8. ASSUME NEW v \in Cr4Values, MovToCr4(v)
      PROVE  idt' = TRUE /\ mode' = 64 /\ \E raised \in SUBSET {INTERRUPT_GP} : Emulated(raised)
  BY <1>1, <1>8 DEF MovToCr4
<1>9. ASSUME NEW v \in EferValues, Wrmsr(v)
      PROVE  idt' = TRUE /\ mode' = 64 /\ \E raised \in SUBSET {INTERRUPT_GP} : Emulated(raised)
  BY <1>1, <1>9 DEF Wrmsr
<1>10. ASSUME Harmless
       PROVE  idt' = TRUE /\ mode' = 64 /\ \E raised \in SUBSET {INTERRUPT_GP} : Emulated(raised)
  BY <1>2, <1>10 DEF Harmless, controls
<1>11. ASSUME Hlt \/ Unsupported \/ NullFetch
       PROVE  UNCHANGED <<controls, flow>>
  BY <1>11 DEF Hlt, Unsupported, NullFetch, Ends
<1>12. ~Iretq
  BY DEF Iretq
<1> QED BY <1>3, <1>4, <1>5, <1>6, <1>7, <1>8, <1>9, <1>10, <1>11, <1>12 DEF Next

\* What any step after the boot makes of the place where the guest is.
LEMMA StaysRunning ==
  ASSUME Running, idt' = TRUE, mode' = 64,
         NEW raised \in SUBSET {INTERRUPT_GP}, Emulated(raised)
  PROVE  Running'
<1>1. /\ rip.in \in {0, INTERRUPT_GP} /\ rip.at \in Nat /\ rip = [in |-> rip.in, at |-> rip.at]
      /\ rip.in = 0 => rip.at >= Booted
  BY DEF Running, Here
<1>2. pending' = {} /\ (rip' = Following \/ rip' = At(INTERRUPT_GP, 0))
  BY Delivered DEF Running
<1>3. CASE rip' = Following
  <2>1. rip' = [in |-> rip.in, at |-> rip.at + 1]
    BY <1>1, <1>3 DEF Following
  <2>2. rip'.in = rip.in /\ rip'.at = rip.at + 1
    BY <2>1
  <2>3. rip' \in [in : {0, INTERRUPT_GP}, at : Nat]
    BY <1>1, <2>1
  <2>4. rip' # At(0, Booted)
    BY <1>1, <2>2, Places DEF At
  <2> QED BY <1>1, <1>2, <2>2, <2>3, <2>4, Places DEF Running, Here
<1>4. CASE rip' = At(INTERRUPT_GP, 0)
  BY <1>2, <1>4 DEF Running, Here, At, INTERRUPT_GP
<1> QED BY <1>2, <1>3, <1>4

\* Nor does a step that ends the monitor.
LEMMA UnchangedRunning ==
  ASSUME Running, UNCHANGED <<controls, flow>>
  PROVE  Running'
  BY DEF Running, Here, AsAsked, controls, flow

-----------------------------------------------------------------------------
(* The invariant of the boot.                                              *)

\* At the start, with anything in the general registers.
LEMMA InitBooting == BootInit => BootInv
<1> SUFFICES ASSUME BootInit PROVE Quiet /\ Held
  BY DEF BootInv, Booting
<1>1. rip = [in |-> 0, at |-> 0]
  BY DEF BootInit, Init, At
<1>2. gregs \in [{"RAX", "RCX", "RDX"} -> SUBSET Nat]
  <2>1. Leftovers \subseteq SUBSET Nat
    BY RegistersAssumption
  <2> QED BY <2>1 DEF BootInit, RegistersInit
<1>3. Quiet
  BY <1>1, Places DEF Quiet, BootInit, Init
<1>4. Held
  BY <1>1, <1>2 DEF Held, Here, BootInit, Init
<1> QED BY <1>3, <1>4

\* Every step stays in the boot, or after it, or goes from one to the other.
LEMMA NextBooting == ASSUME BootInv, [BootNext]_bootvars PROVE BootInv'
<1>1. ASSUME Quiet, Held, BootNext PROVE BootInv'
  <2>1. rip.in = 0 /\ rip.at \in Nat /\ ~ (rip.at >= Booted)
    BY <1>1, Places DEF Quiet
  <2>2. Boot
    <3>1. ~default_interrupt /\ ~Program
      BY <2>1 DEF default_interrupt, Program, INTERRUPT_GP
    <3> QED BY <1>1, <3>1 DEF BootNext
  <2>3. CASE Entry
    BY <1>1, <2>3, EntryBooting DEF BootInv, Booting
  <2>4. CASE Main /\ Keeps(gregs)
    BY <1>1, <2>4, MainBooting DEF BootInv, Booting
  <2> QED BY <2>2, <2>3, <2>4 DEF Boot
<1>2. ASSUME Running, BootNext PROVE Running'
  <2>1. CASE Boot
    <3>1. rip.in = 0 /\ rip.at >= Booted /\ rip.at \in Nat
      BY <1>2, <2>1 DEF Running, Here, Boot
    <3>2. rip.at \notin 0 .. 16 /\ rip.at \notin 17 .. Lidt64 - 1 /\ rip.at # Lidt64
      BY <3>1, Places
    <3>3. ~Entry
      <4>1. \A n \in {0, 1, 2, 3, 4, 5, 6, 7, 8, 9, 10, 11} : rip.at # n
        BY <3>2
      <4>2. rip.at \notin 12..16
        BY <3>2
      <4> QED BY <4>1, <4>2, Zenon DEF Entry
    <3>4. ~Main
      BY <3>2, Zenon DEF Main
    <3> QED BY <2>1, <3>3, <3>4 DEF Boot
  <2>2. CASE default_interrupt
    <3>1. CASE Harmless
      <4>1. idt' = TRUE /\ mode' = 64 /\ Emulated({})
        BY <1>2, <3>1 DEF Harmless, Running, controls
      <4>2. {} \in SUBSET {INTERRUPT_GP}
        OBVIOUS
      <4> QED BY <1>2, <4>1, <4>2, StaysRunning
    <3>2. CASE Hlt
      BY <1>2, <3>2, UnchangedRunning DEF Hlt, Ends
    <3> QED BY <2>2, <3>1, <3>2 DEF default_interrupt
  <2>3. CASE Program
    <3>1. idt = TRUE /\ mode = 64 /\ rip.in = 0 /\ Next
      BY <1>2, <2>3 DEF Program, Running
    <3>2. \/ /\ idt' = TRUE /\ mode' = 64
             /\ \E raised \in SUBSET {INTERRUPT_GP} : Emulated(raised)
          \/ UNCHANGED <<controls, flow>>
      BY <3>1, ProgramStep
    <3> QED BY <1>2, <3>2, StaysRunning, UnchangedRunning
  <2> QED BY <1>2, <2>1, <2>2, <2>3 DEF BootNext
<1>3. CASE UNCHANGED bootvars
  BY <1>3 DEF bootvars, vars, controls, flow, BootInv, Booting, Quiet, Held, Running, Here, AsAsked
<1> QED BY <1>1, <1>2, <1>3 DEF BootInv, Booting

\* The boot of the guest goes as the invariant says (entry.S:46).
THEOREM BootInvariance == BootSpec => []BootInv
<1>1. BootInv /\ [BootNext]_bootvars => BootInv'
  BY NextBooting
<1> QED BY <1>1, InitBooting, PTL DEF BootSpec

\* No instruction of entry.S, in its order and with the values that it reads,
\* changes and writes back, raises a fault or ends the monitor before lidt,
\* whatever the registers held when the guest began (entry.S:46, state.c:138).
THEOREM BootCorrect == BootSpec => []BootIsClean
<1>1. BootInv => BootIsClean
  BY DEF BootInv, Booting, Quiet, Held, Running, BootIsClean
<1> QED BY <1>1, BootInvariance, PTL

\* From lidt on every fault, however many there are, enters default_interrupt()
\* in 64-bit mode, and none goes to the null entry (state.c:223).
THEOREM FaultsFindHandler == BootSpec => []FaultsAreHandled
<1>1. BootInv => FaultsAreHandled
  <2>1. ASSUME Booting PROVE FaultsAreHandled
    <3>1. rip.in = 0 /\ ~ (rip.at >= Booted)
      BY <2>1, Places DEF Booting, Quiet
    <3>2. NullEntry.in = -1
      BY DEF NullEntry, At
    <3>3. rip # NullEntry
      BY <3>1, <3>2
    <3> QED BY <3>1, <3>3 DEF FaultsAreHandled
  <2>2. ASSUME Running PROVE FaultsAreHandled
    BY <2>2 DEF FaultsAreHandled, Running, NullEntry, At, INTERRUPT_GP
  <2> QED BY <2>1, <2>2 DEF BootInv
<1> QED BY <1>1, BootInvariance, PTL

\* When the guest comes to its main program, the control registers, EFER and
\* the segment registers hold exactly what entry.S asks for.
THEOREM BootedAsAsked == BootSpec => [](rip = At(0, Booted) => AsAsked)
<1>1. BootInv => (rip = At(0, Booted) => AsAsked)
  <2>1. ASSUME Booting PROVE rip # At(0, Booted)
    BY <2>1, Places DEF Booting, Quiet, At
  <2> QED BY <2>1 DEF BootInv, Running
<1> QED BY <1>1, BootInvariance, PTL
=============================================================================
