-------------------------- MODULE RackdollBootProofs --------------------------
(***************************************************************************)
(* Proofs about RackdollBoot, for every size of the stack, of the saved    *)
(* registers of the compiler and of the array of tasks, every layout of    *)
(* the boot information, every set of exceptions and whatever the tasks    *)
(* write in their registers: the frame of an interrupt is a struct         *)
(* interrupt_context, contexts come back, interrupts of devices are not    *)
(* exceptions, and the modules become tasks.                               *)
(*                                                                         *)
(* First the frame, which the processor and the stub push word by word and *)
(* the structure reads; then the invariant, one lemma for each step; last  *)
(* the walk of load_tasks(), by induction on the number of the tag.        *)
(***************************************************************************)
EXTENDS RackdollBoot, SequenceTheorems, FiniteSetTheorems, WellFoundedInduction, TLAPS

(* The places of struct interrupt_context, the lowest address first.       *)

Index == 1 .. 22

\* The place of each word.
Place == [rbp |-> 1, rbx |-> 2, r15 |-> 3, r14 |-> 4, r13 |-> 5, r12 |-> 6, r11 |-> 7,
         r10 |-> 8, r9 |-> 9, r8 |-> 10, rcx |-> 11, rdx |-> 12, rsi |-> 13, rdi |-> 14,
         rax |-> 15, itnum |-> 16, errcode |-> 17, rip |-> 18, cs |-> 19, rflags |-> 20,
         rsp |-> 21, ss |-> 22]

\* A place is one of twenty-two.
LEMMA IndexCases ==
  ASSUME NEW k \in Index
  PROVE  \/ k = 1 \/ k = 2 \/ k = 3 \/ k = 4 \/ k = 5 \/ k = 6 \/ k = 7 \/ k = 8
         \/ k = 9 \/ k = 10 \/ k = 11 \/ k = 12 \/ k = 13 \/ k = 14 \/ k = 15 \/ k = 16
         \/ k = 17 \/ k = 18 \/ k = 19 \/ k = 20 \/ k = 21 \/ k = 22
  BY DEF Index

\* No word stands twice.
LEMMA PlaceOfField ==
  ASSUME NEW k \in Index
  PROVE  Place[Fields[k]] = k
  BY IndexCases DEF Place, Fields, Index

\* What the processor pushes, what the stub saves and what it restores.
LEMMA Lengths ==
  /\ DOMAIN Fields = 1 .. 22
  /\ DOMAIN General = 1 .. 15
  /\ DOMAIN Popped = 1 .. 15
  /\ DOMAIN Automatic = 1 .. 5
  /\ Len(Popped) = 15 /\ Len(Automatic) = 5
  BY DEF Fields, General, Popped, Automatic

\* The structure has them in the order of their addresses.
LEMMA FieldNames ==
  /\ \A k \in 1 .. 15 : Fields[k] = Popped[k] /\ General[k] = Fields[16 - k]
  /\ Fields[16] = "itnum" /\ Fields[17] = "errcode"
  /\ \A k \in 1 .. 5 : Fields[23 - k] = Automatic[k]
<1>1. ASSUME NEW k \in 1 .. 15 PROVE Fields[k] = Popped[k] /\ General[k] = Fields[16 - k]
  <2>1. k \in Index
    BY DEF Index
  <2> QED BY <2>1, IndexCases DEF Fields, Popped, General, Index
<1>2. ASSUME NEW k \in 1 .. 5 PROVE Fields[23 - k] = Automatic[k]
  BY DEF Fields, Automatic
<1> QED BY <1>1, <1>2 DEF Fields

\* The registers of a context are those that are pushed, and are popped again.
LEMMA RegisterNames ==
  /\ Registers = {Popped[k] : k \in 1 .. 15} \cup {Automatic[k] : k \in 1 .. 5}
  /\ Registers = {General[k] : k \in 1 .. 15} \cup {Automatic[k] : k \in 1 .. 5}
  /\ ToSet(Popped) = {Popped[k] : k \in 1 .. 15}
<1>1. Registers = {General[k] : k \in 1 .. 15} \cup {Automatic[k] : k \in 1 .. 5}
  BY Lengths DEF Registers, ToSet
<1>2. {General[k] : k \in 1 .. 15} = {Popped[k] : k \in 1 .. 15}
  <2>1. ASSUME NEW k \in 1 .. 15 PROVE /\ 16 - k \in 1 .. 15
                                       /\ General[k] = Popped[16 - k]
                                       /\ Popped[k] = General[16 - k]
    <3>1. 16 - k \in 1 .. 15 /\ 16 - (16 - k) = k
      OBVIOUS
    <3> QED BY <3>1, FieldNames
  <2> QED BY <2>1
<1> QED BY <1>1, <1>2, Lengths DEF ToSet

\* The registers, in the order of the structure, are at the places 1 to 15 and
\* 18 to 22.
LEMMA RegisterPlaces ==
  /\ Registers = {Fields[k] : k \in (1 .. 15) \cup (18 .. 22)}
  /\ \A k \in 1 .. 22 : Fields[k] \in Registers <=> k \notin {16, 17}
  /\ \A k \in 1 .. 22 : Fields[k] \in ToSet(Popped) <=> k \in 1 .. 15
<1>1. ASSUME NEW k \in 1 .. 5 PROVE 23 - k \in 18 .. 22 /\ Fields[23 - k] = Automatic[k]
  BY FieldNames
<1>2. ASSUME NEW k \in 18 .. 22 PROVE 23 - k \in 1 .. 5 /\ Fields[k] = Automatic[23 - k]
  <2>1. 23 - k \in 1 .. 5 /\ 23 - (23 - k) = k
    OBVIOUS
  <2> QED BY <2>1, FieldNames
<1>3. Registers = {Fields[k] : k \in (1 .. 15) \cup (18 .. 22)}
  BY <1>1, <1>2, RegisterNames, FieldNames
<1>4. ASSUME NEW k \in 1 .. 22, NEW j \in 1 .. 22, Fields[k] = Fields[j] PROVE k = j
  BY <1>4, PlaceOfField DEF Index
<1>5. ToSet(Popped) = {Fields[k] : k \in 1 .. 15}
  BY RegisterNames, FieldNames
<1>6. ASSUME NEW k \in 1 .. 22 PROVE Fields[k] \in Registers <=> k \notin {16, 17}
  BY <1>3, <1>4
<1>7. ASSUME NEW k \in 1 .. 22 PROVE Fields[k] \in ToSet(Popped) <=> k \in 1 .. 15
  BY <1>5, <1>4
<1> QED BY <1>3, <1>6, <1>7

\* The word of each field, and where the stub and the processor find it again.
LEMMA FieldAt ==
  ASSUME NEW st, NEW n, NEW k \in 1 .. 22
  PROVE  Field(st, n, Fields[k]) = st[n + 1 - k]
<1>1. \A j \in DOMAIN Fields : Fields[j] = Fields[k] <=> j = k
  BY Lengths, PlaceOfField DEF Index
<1>2. (CHOOSE j \in DOMAIN Fields : Fields[j] = Fields[k]) = k
  BY <1>1, Lengths
<1> QED BY <1>2 DEF Field

\* The register that the stub pops k-th is that of the k-th field.
LEMMA PoppedAt ==
  ASSUME NEW k \in 1 .. 15
  PROVE  (CHOOSE j \in DOMAIN Popped : Popped[j] = Fields[k]) = k
<1>1. \A j \in DOMAIN Popped : Popped[j] = Fields[k] <=> j = k
  <2>1. \A j \in 1 .. 15 : Popped[j] = Fields[j] /\ Place[Fields[j]] = j
    BY FieldNames, PlaceOfField DEF Index
  <2> QED BY <2>1, Lengths, PlaceOfField DEF Index
<1> QED BY <1>1, Lengths

\* The same for those that the processor pushes.
LEMMA AutomaticAt ==
  ASSUME NEW k \in 1 .. 5
  PROVE  (CHOOSE j \in DOMAIN Automatic : Automatic[j] = Automatic[k]) = k
<1>1. \A j \in 1 .. 5 : Place[Automatic[j]] = 23 - j
  BY FieldNames, PlaceOfField DEF Index
<1>2. \A j \in DOMAIN Automatic : Automatic[j] = Automatic[k] <=> j = k
  BY <1>1, Lengths
<1> QED BY <1>2, Lengths

\* What the stub and iretq take back of a frame is word by word what its fields are.
LEMMA RestoredAt ==
  ASSUME NEW st, NEW n \in Int, NEW k \in (1 .. 15) \cup (18 .. 22)
  PROVE  Restored(st, n)[Fields[k]] = st[n + 1 - k]
<1>1. Fields[k] \in Registers
  BY RegisterPlaces
<1>2. CASE k \in 1 .. 15
  <2>1. Fields[k] \in ToSet(Popped)
    BY <1>2, RegisterPlaces
  <2> QED BY <1>1, <1>2, <2>1, PoppedAt DEF Restored
<1>3. CASE k \in 18 .. 22
  <2>1. PICK j \in 1 .. 5 : j = 23 - k
    BY <1>3
  <2>2. Fields[k] = Automatic[j]
    <3>1. 23 - j = k
      BY <1>3, <2>1
    <3> QED BY <3>1, FieldNames
  <2>3. Fields[k] \notin ToSet(Popped)
    <3>1. k \in 1 .. 22 /\ k \notin 1 .. 15
      BY <1>3
    <3> QED BY <3>1, RegisterPlaces
  <2>4. Restored(st, n)[Fields[k]] = st[n - Len(Popped) - 2 - (Len(Automatic) - j)]
    <3>1. (CHOOSE i \in DOMAIN Automatic : Automatic[i] = Fields[k]) = j
      BY <2>2, AutomaticAt, Zenon
    <3> QED BY <1>1, <2>3, <3>1 DEF Restored
  <2>5. n - 15 - 2 - (5 - j) = n + 1 - k
    BY <2>1
  <2> QED BY <2>4, <2>5, Lengths
<1> QED BY <1>2, <1>3

-----------------------------------------------------------------------------
\* What a frame is.
WordOf(k, vec, regs) ==
  IF k = 16 THEN <<"vector", vec>> ELSE IF k = 17 THEN <<"code", vec>> ELSE regs[Fields[k]]

HoldsFrame(st, n, vec, regs) ==
  \A k \in 1 .. 22 : st[n + 1 - k] = WordOf(k, vec, regs)

\* Processor and stub agree on whether there is a code.
Agreed(vec, coded) == coded <=> vec \in Errvec

\* s is t followed by u.
Joins(s, t, u, T, m, n) ==
  /\ s \in Seq(T) /\ Len(s) = m + n
  /\ \A k \in 1 .. m : s[k] = t[k]
  /\ \A k \in 1 .. n : s[m + k] = u[k]

\* A concatenation, word by word.
LEMMA Joined ==
  ASSUME NEW T, NEW t \in Seq(T), NEW u \in Seq(T), NEW m \in Nat, NEW n \in Nat,
         Len(t) = m, Len(u) = n
  PROVE  Joins(t \o u, t, u, T, m, n)
<1> DEFINE s == t \o u
<1>1. s \in Seq(T) /\ Len(s) = m + n
      /\ \A k \in 1 .. m + n : s[k] = IF k <= m THEN t[k] ELSE u[k - m]
  BY ConcatProperties
<1> HIDE DEF s
<1>2. ASSUME NEW k \in 1 .. m PROVE s[k] = t[k]
  BY <1>1
<1>3. ASSUME NEW k \in 1 .. n PROVE s[m + k] = u[k]
  <2>1. m + k \in 1 .. m + n /\ ~ (m + k <= m) /\ (m + k) - m = k
    OBVIOUS
  <2> QED BY <1>1, <2>1
<1>4. Joins(s, t, u, T, m, n)
  BY <1>1, <1>2, <1>3 DEF Joins
<1> QED BY <1>4 DEF s

\* Twenty-two words are pushed, in the reverse order of the structure, whether
\* the processor pushes the code or the stub a zero for it (trap.pl:10, idt.h:38).
LEMMA FrameLayout ==
  ASSUME NEW vec, NEW coded, Agreed(vec, coded), NEW regs
  PROVE  /\ Len(FrameWords(vec, coded, regs)) = 22
         /\ \A k \in 1 .. 22 : FrameWords(vec, coded, regs)[23 - k] = WordOf(k, vec, regs)
<1> DEFINE a == [n \in DOMAIN Automatic |-> regs[Automatic[n]]]
           b == IF coded THEN <<<<"code", vec>>>> ELSE <<>>
           c == IF vec \in Errvec THEN <<>> ELSE <<<<"code", vec>>>>
           d == <<<<"vector", vec>>>>
           e == [n \in DOMAIN General |-> regs[General[n]]]
           o == <<<<"code", vec>>>>
           T == {regs[r] : r \in Registers} \cup {<<"code", vec>>, <<"vector", vec>>}
<1>1. a \in Seq(T) /\ Len(a) = 5 /\ \A n \in 1 .. 5 : a[n] = regs[Automatic[n]]
  BY Lengths, RegisterNames
<1>2. e \in Seq(T) /\ Len(e) = 15 /\ \A n \in 1 .. 15 : e[n] = regs[General[n]]
  BY Lengths, RegisterNames
<1>3. d \in Seq(T) /\ Len(d) = 1 /\ d[1] = <<"vector", vec>>
  OBVIOUS
<1>4. o \in Seq(T) /\ Len(o) = 1 /\ o[1] = <<"code", vec>>
  OBVIOUS
<1>5. (b = o /\ c = <<>>) \/ (b = <<>> /\ c = o)
  BY DEF Agreed
<1>6. FrameWords(vec, coded, regs) = (((a \o b) \o c) \o d) \o e
  BY Zenon DEF FrameWords
<1> HIDE DEF a, b, c, d, e, o, T
<1>7. Joins(a \o o, a, o, T, 5, 1)
  BY <1>1, <1>4, Joined
<1>8. (a \o b) \o c = a \o o
  <2>1. a \o o \in Seq(T)
    BY <1>7 DEF Joins
  <2> QED BY <1>1, <1>5, <2>1, ConcatEmptySeq
<1> DEFINE f == a \o o
           g == f \o d
           h == g \o e
<1>9. Joins(f, a, o, T, 5, 1) /\ FrameWords(vec, coded, regs) = h
  BY <1>6, <1>7, <1>8, Zenon
<1> HIDE DEF f
<1>10. Joins(g, f, d, T, 6, 1)
  <2>1. f \in Seq(T) /\ Len(f) = 6
    BY <1>9 DEF Joins
  <2> QED BY <1>3, <2>1, Joined
<1> HIDE DEF g
<1>11. Joins(h, g, e, T, 7, 15)
  <2>1. g \in Seq(T) /\ Len(g) = 7
    BY <1>10 DEF Joins
  <2> QED BY <1>2, <2>1, Joined
<1> HIDE DEF h
<1>12. ASSUME NEW k \in 1 .. 15 PROVE h[23 - k] = WordOf(k, vec, regs)
  <2>1. 16 - k \in 1 .. 15 /\ 7 + (16 - k) = 23 - k /\ 16 - (16 - k) = k
    OBVIOUS
  <2>2. h[7 + (16 - k)] = e[16 - k]
    BY <1>11, <2>1 DEF Joins
  <2>3. General[16 - k] = Fields[k]
    BY <2>1, FieldNames
  <2>4. e[16 - k] = regs[Fields[k]] /\ k # 16 /\ k # 17
    BY <1>2, <2>1, <2>3
  <2> QED BY <2>1, <2>2, <2>4 DEF WordOf
<1>13. h[23 - 16] = WordOf(16, vec, regs)
  <2>1. h[7] = g[7] /\ g[6 + 1] = d[1]
    BY <1>10, <1>11 DEF Joins
  <2> QED BY <1>3, <2>1 DEF WordOf
<1>14. h[23 - 17] = WordOf(17, vec, regs)
  <2>1. h[6] = g[6] /\ g[6] = f[6] /\ f[5 + 1] = o[1]
    BY <1>9, <1>10, <1>11 DEF Joins
  <2> QED BY <1>4, <2>1 DEF WordOf
<1>15. ASSUME NEW k \in 18 .. 22 PROVE h[23 - k] = WordOf(k, vec, regs)
  <2>1. 23 - k \in 1 .. 5 /\ 23 - (23 - k) = k
    OBVIOUS
  <2>2. h[23 - k] = g[23 - k] /\ g[23 - k] = f[23 - k] /\ f[23 - k] = a[23 - k]
    BY <1>9, <1>10, <1>11, <2>1 DEF Joins
  <2>3. Automatic[23 - k] = Fields[k]
    BY <2>1, FieldNames
  <2> QED BY <1>1, <2>1, <2>2, <2>3 DEF WordOf
<1>16. ASSUME NEW k \in 1 .. 22 PROVE h[23 - k] = WordOf(k, vec, regs)
  <2>1. k \in 1 .. 15 \/ k = 16 \/ k = 17 \/ k \in 18 .. 22
    OBVIOUS
  <2> QED BY <1>12, <1>13, <1>14, <1>15, <2>1
<1>17. Len(h) = 22
  BY <1>11 DEF Joins
<1> QED BY <1>9, <1>16, <1>17

-----------------------------------------------------------------------------
\* The registers of a context, or any others.
IsContext(regs) == regs = [r \in Registers |-> regs[r]]

\* A context has a value for each register and no other.
LEMMA ContextIsContext ==
  ASSUME NEW c
  PROVE  IsContext(Context(c)) /\ Context(c)["cs"] = <<"cs", c>> /\ Context(c)["cs"][2] = c
<1>1. "cs" \in Registers
  <2>1. Automatic[4] = "cs"
    BY DEF Automatic
  <2> QED BY <2>1, RegisterNames
<1> QED BY <1>1 DEF IsContext, Context

\* Each register is a field, and neither the vector nor the code.
LEMMA RegisterAt ==
  ASSUME NEW r \in Registers
  PROVE  \E k \in 1 .. 22 : k \notin {16, 17} /\ Fields[k] = r
  BY RegisterPlaces

\* A handler sees in its structure what is in the frame.
LEMMA FrameIsContext ==
  ASSUME NEW vec, NEW regs, IsContext(regs), HoldsFrame(stack, sp, vec, regs)
  PROVE  /\ Frame = regs
         /\ Field(stack, sp, "itnum") = <<"vector", vec>>
         /\ Field(stack, sp, "errcode") = <<"code", vec>>
<1>1. ASSUME NEW k \in 1 .. 22 PROVE Field(stack, sp, Fields[k]) = WordOf(k, vec, regs)
  BY FieldAt DEF HoldsFrame
<1>2. ASSUME NEW r \in Registers PROVE Field(stack, sp, r) = regs[r]
  <2>1. PICK k \in 1 .. 22 : k \notin {16, 17} /\ Fields[k] = r
    BY RegisterAt
  <2> QED BY <1>1, <2>1 DEF WordOf
<1>3. Frame = regs
  BY <1>2 DEF Frame, IsContext
<1>4. Field(stack, sp, "itnum") = <<"vector", vec>> /\ Field(stack, sp, "errcode") = <<"code", vec>>
  BY <1>1, FieldNames DEF WordOf
<1> QED BY <1>3, <1>4

\* The stub and iretq give back what the frame holds.
LEMMA FrameIsRestored ==
  ASSUME NEW st, NEW n \in Int, NEW vec, NEW regs, IsContext(regs),
         \A k \in (1 .. 15) \cup (18 .. 22) : st[n + 1 - k] = regs[Fields[k]]
  PROVE  Restored(st, n) = regs
<1>1. ASSUME NEW r \in Registers PROVE Restored(st, n)[r] = regs[r]
  <2>1. PICK k \in 1 .. 22 : k \notin {16, 17} /\ Fields[k] = r
    BY RegisterAt
  <2>2. k \in (1 .. 15) \cup (18 .. 22)
    BY <2>1
  <2> QED BY <2>1, <2>2, RestoredAt
<1>2. Restored(st, n) = [r \in Registers |-> Restored(st, n)[r]]
  BY DEF Restored
<1>3. [r \in Registers |-> Restored(st, n)[r]] = [r \in Registers |-> regs[r]]
  BY <1>1
<1> QED BY <1>2, <1>3, Zenon DEF IsContext

\* *ctx = ...: the registers of the frame are those of another context, and
\* the words below it are as they were.
LEMMA ReplacedFrame ==
  ASSUME NEW st, NEW n \in 22 .. StackWords, NEW regs, IsContext(regs)
  PROVE  /\ Restored(Replaced(st, n, regs), n) = regs
         /\ \A p \in 1 .. n - 22 : Replaced(st, n, regs)[p] = st[p]
<1> StackWords \in Nat
  BY FrameAssumption
<1>1. ASSUME NEW k \in (1 .. 15) \cup (18 .. 22)
      PROVE  Replaced(st, n, regs)[n + 1 - k] = regs[Fields[k]]
  <2>1. n + 1 - k \in 1 .. StackWords /\ n + 1 - (n + 1 - k) = k
    OBVIOUS
  <2>2. k \in DOMAIN Fields /\ Fields[k] \in Registers
    BY Lengths, RegisterPlaces
  <2> QED BY <2>1, <2>2 DEF Replaced
<1>2. ASSUME NEW p \in 1 .. n - 22 PROVE Replaced(st, n, regs)[p] = st[p]
  <2>1. p \in 1 .. StackWords /\ n + 1 - p \notin 1 .. 22
    OBVIOUS
  <2> QED BY <2>1, Lengths DEF Replaced
<1>3. Restored(Replaced(st, n, regs), n) = regs
  BY <1>1, FrameIsRestored
<1> QED BY <1>2, <1>3

\* What an interrupt leaves on the stack.
LEMMA PushedFrame ==
  ASSUME NEW vec, NEW coded \in BOOLEAN, Agreed(vec, coded), NEW st, NEW n \in Nat, n + 22 <= StackWords,
         NEW regs
  PROVE  /\ HoldsFrame(Push(st, n, FrameWords(vec, coded, regs)), n + 22, vec, regs)
         /\ \A p \in 1 .. n : Push(st, n, FrameWords(vec, coded, regs))[p] = st[p]
<1> StackWords \in Nat
  BY FrameAssumption
<1> DEFINE w == FrameWords(vec, coded, regs)
<1>1. Len(w) = 22 /\ \A k \in 1 .. 22 : w[23 - k] = WordOf(k, vec, regs)
  BY FrameLayout
<1> HIDE DEF w
<1>2. ASSUME NEW k \in 1 .. 22 PROVE Push(st, n, w)[n + 22 + 1 - k] = WordOf(k, vec, regs)
  <2>1. /\ n + 22 + 1 - k \in 1 .. StackWords
        /\ n + 22 + 1 - k \in n + 1 .. n + 22
        /\ (n + 22 + 1 - k) - n = 23 - k
    OBVIOUS
  <2> QED BY <1>1, <2>1 DEF Push
<1>3. ASSUME NEW p \in 1 .. n PROVE Push(st, n, w)[p] = st[p]
  BY <1>1 DEF Push
<1> QED BY <1>2, <1>3 DEF HoldsFrame, w

-----------------------------------------------------------------------------
(* The inductive invariant.                                                *)

Setup == {"setup_interrupts", "setup_tss", "pgfault", "remap_pic", "disable_pic", "sti"}
Loading == Setup \cup {"load_tasks"}
Running == {"enter_task", "trap", "task", "kernel"}
Phases == Loading \cup {"run_tasks", "die", "hlt"} \cup Running

Chip == [offset : Nat, mask : Nat, icw : {0}]
Chips == [master : Chip, slave : Chip]

\* Interrupts of devices are taken after the controllers are set up only.
Controllers ==
  /\ pic \in Chips
  /\ at \in Setup => enabled = FALSE
  /\ at \notin Setup \ {"disable_pic", "sti"} =>
       pic.master.offset = 32 /\ pic.slave.offset = 40
  /\ at \notin Setup \ {"sti"} =>
       pic.master.mask = PIC_DATA_DISABLE /\ pic.slave.mask = PIC_DATA_DISABLE

Names == {"NULL", "pgfault", "syscall_handler", "enter_handler"}

\* The two vectors of the tasks have their handlers once the tasks are loaded.
Vectors ==
  /\ interrupt_vector \in [0 .. 255 -> Names]
  /\ at \in Loading =>
       \A v \in 0 .. 255 : interrupt_vector[v] \notin {"syscall_handler", "enter_handler"}
  /\ at \notin Loading =>
       \A v \in 0 .. 255 :
         /\ (interrupt_vector[v] = "syscall_handler") <=> (v = INT_USER_SYSCALL)
         /\ (interrupt_vector[v] = "enter_handler") <=> (v = INT_USER_ENTER_TASKS)

\* The registers of a task: the selector of its code is one of user mode.
OfTask(regs) == IsContext(regs) /\ regs["cs"][2] \in Nat \ {0}

\* What is saved of a context are its own registers, except of the task that
\* runs, which is none before the first is entered.
SavedContexts ==
  /\ save = Context(0)
  /\ DOMAIN saved \subseteq 1 .. TASK_FIFO_LEN
  /\ DOMAIN own = DOMAIN saved
  /\ \A c \in DOMAIN saved : OfTask(own[c])
  /\ \A c \in DOMAIN saved : c # current => saved[c] = own[c]

\* The tasks, which are all alive until the first of them is entered.
Tasks ==
  /\ \E T : fifo \in Seq(T)
  /\ Len(fifo) <= TASK_FIFO_LEN
  /\ at \in {"run_tasks", "enter_task"} => DOMAIN saved = 1 .. Len(fifo)
  /\ at = "enter_task" => Len(fifo) > 0
  /\ at \notin {"trap", "task", "kernel", "hlt", "die"} => current = 0

\* A frame of the kernel, in run_tasks().
KernelFrame ==
  /\ HoldsFrame(stack, sp, INT_USER_ENTER_TASKS, cpu)
  /\ cpu = Context(0)
  /\ DOMAIN saved = 1 .. Len(fifo)
  /\ Len(fifo) > 0
  /\ current = 0

\* What interrupts a task.
TaskVectors == {INT_USER_SYSCALL} \cup TaskInts \cup Exceptions

\* A frame of the task that runs.
TaskFrame ==
  /\ \E vec \in TaskVectors : HoldsFrame(stack, sp, vec, cpu)
  /\ cpu = own[current]
  /\ current \in DOMAIN saved

\* The processor and the stack.
Processor ==
  /\ user \in BOOLEAN /\ enabled \in BOOLEAN /\ idt \in BOOLEAN
  /\ rsp0 = IF at \in {"setup_interrupts", "setup_tss"} THEN 0 ELSE 1 + S
  /\ sp \in 0 .. StackWords
  /\ at \in Running => ReturnIntact
  /\ at \in Loading \cup {"run_tasks", "enter_task", "kernel"} => cpu = Context(0) /\ user = FALSE
  /\ at = "enter_task" => sp = 1 + Saved
  /\ at = "trap" => /\ sp - 22 \in 1 + Saved .. S + 2
                    /\ KernelFrame \/ TaskFrame
  /\ at = "task" => cpu = own[current] /\ user = TRUE /\ current \in DOMAIN saved

IInv == at \in Phases /\ Controllers /\ Vectors /\ SavedContexts /\ Tasks /\ Processor

\* The boot loader leaves interrupts disabled and no task.
LEMMA InitIInv == Init => IInv
<1> SUFFICES ASSUME Init PROVE IInv
  OBVIOUS
<1>1. at = "setup_interrupts" /\ saved = <<>> /\ own = <<>> /\ current = 0 /\ save = Context(0)
      /\ fifo = <<>> /\ cpu = Context(0) /\ user = FALSE /\ enabled = FALSE /\ idt = FALSE
      /\ sp = 0 /\ rsp0 = 0 /\ interrupt_vector = [v \in 0 .. 255 |-> "NULL"]
  BY DEF Init, InterruptsInit, LoaderInit
<1>2. Controllers
  <2>1. pic \in Chips
    <3>1. PICK m \in {0, 184} : pic = [master |-> [offset |-> 8, mask |-> m, icw |-> 0],
                                      slave |-> [offset |-> 112, mask |-> m, icw |-> 0]]
      BY DEF Init, InterruptsInit
    <3>2. \A o \in Nat : [offset |-> o, mask |-> m, icw |-> 0] \in Chip
      BY DEF Chip
    <3> QED BY <3>1, <3>2 DEF Chips
  <2> QED BY <1>1, <2>1 DEF Controllers, Setup
<1>3. Vectors
  BY <1>1 DEF Vectors, Loading, Setup, Names
<1>4. SavedContexts
  BY <1>1 DEF SavedContexts
<1>5. Tasks
  <2>1. fifo \in Seq({}) /\ Len(fifo) = 0
    BY <1>1
  <2> QED BY <1>1, <2>1, LoaderAssumption DEF Tasks
<1>6. Processor
  <2>1. sp \in 0 .. StackWords
    BY <1>1, FrameAssumption
  <2>2. at \notin Running /\ at \notin {"enter_task", "trap", "task"}
    BY <1>1 DEF Running
  <2> QED BY <1>1, <2>1, <2>2 DEF Processor
<1> QED BY <1>1, <1>2, <1>3, <1>4, <1>5, <1>6 DEF IInv, Phases, Loading, Setup

-----------------------------------------------------------------------------
(* The calls of main_multiboot2().                                         *)

\* setup_interrupts()
LEMMA SetupInterruptsIInv ==
  ASSUME IInv, Go("setup_interrupts", "setup_tss"), SetupInterrupts, NoTask
  PROVE  IInv'
<1>1. at = "setup_interrupts" /\ at' = "setup_tss"
  BY DEF Go
<1>2. UNCHANGED <<cpu, user, enabled, stack, sp, rsp0, interrupt_vector, pic>> /\ idt' = TRUE
  BY DEF SetupInterrupts
<1>3. UNCHANGED <<fifo, current, saved, save, own>>
  BY DEF NoTask, loadervars
<1>4. Controllers'
  BY <1>1, <1>2 DEF IInv, Controllers, Setup
<1>5. Vectors'
  BY <1>1, <1>2 DEF IInv, Vectors, Loading, Setup
<1>6. SavedContexts' /\ Tasks'
  BY <1>1, <1>3 DEF IInv, SavedContexts, Tasks
<1>7. Processor'
  BY <1>1, <1>2 DEF IInv, Processor, Loading, Setup, Running
<1> QED BY <1>1, <1>4, <1>5, <1>6, <1>7 DEF IInv, Phases, Loading, Setup

\* setup_tss()
LEMMA SetupTssIInv ==
  ASSUME IInv, Go("setup_tss", "pgfault"), SetupTss, NoTask
  PROVE  IInv'
<1>1. at = "setup_tss" /\ at' = "pgfault"
  BY DEF Go
<1>2. UNCHANGED <<cpu, user, enabled, stack, sp, interrupt_vector, idt, pic>> /\ rsp0' = 1 + S
  BY DEF SetupTss
<1>3. UNCHANGED <<fifo, current, saved, save, own>>
  BY DEF NoTask, loadervars
<1>4. Controllers'
  BY <1>1, <1>2 DEF IInv, Controllers, Setup
<1>5. Vectors'
  BY <1>1, <1>2 DEF IInv, Vectors, Loading, Setup
<1>6. SavedContexts' /\ Tasks'
  BY <1>1, <1>3 DEF IInv, SavedContexts, Tasks
<1>7. Processor'
  BY <1>1, <1>2 DEF IInv, Processor, Loading, Setup, Running
<1> QED BY <1>1, <1>4, <1>5, <1>6, <1>7 DEF IInv, Phases, Loading, Setup

\* set_interrupt(INT_PF, pgfault)
LEMMA SetPgfaultIInv ==
  ASSUME IInv, Go("pgfault", "remap_pic"), SetVector([v \in {INT_PF} |-> "pgfault"]), NoTask
  PROVE  IInv'
<1>1. at = "pgfault" /\ at' = "remap_pic"
  BY DEF Go
<1>2. UNCHANGED <<cpu, user, enabled, stack, sp, rsp0, idt, pic>>
  BY DEF SetVector
<1>3. UNCHANGED <<fifo, current, saved, save, own>>
  BY DEF NoTask, loadervars
<1>4. Controllers'
  BY <1>1, <1>2 DEF IInv, Controllers, Setup
<1>5. Vectors'
  <2> DEFINE h == [v \in {INT_PF} |-> "pgfault"]
  <2>1. DOMAIN h = {INT_PF} /\ h[INT_PF] = "pgfault"
    OBVIOUS
  <2>2. interrupt_vector' = [v \in DOMAIN interrupt_vector |->
                               IF v \in DOMAIN h THEN h[v] ELSE interrupt_vector[v]]
    BY DEF SetVector
  <2> HIDE DEF h
  <2>3. /\ interrupt_vector \in [0 .. 255 -> Names]
        /\ \A v \in 0 .. 255 : interrupt_vector[v] \notin {"syscall_handler", "enter_handler"}
    BY <1>1 DEF IInv, Vectors, Loading, Setup
  <2>4. \A v \in 0 .. 255 : interrupt_vector'[v] \in {"pgfault", interrupt_vector[v]}
    BY <2>1, <2>2, <2>3
  <2>5. interrupt_vector' \in [0 .. 255 -> Names]
    BY <2>2, <2>3, <2>4 DEF Names
  <2> QED BY <1>1, <2>3, <2>4, <2>5 DEF Vectors, Loading, Setup
<1>6. SavedContexts' /\ Tasks'
  BY <1>1, <1>3 DEF IInv, SavedContexts, Tasks
<1>7. Processor'
  BY <1>1, <1>2 DEF IInv, Processor, Loading, Setup, Running
<1> QED BY <1>1, <1>4, <1>5, <1>6, <1>7 DEF IInv, Phases, Loading, Setup

\* A controller that is initialised ends with its offset and the mask that it
\* had: no write of remap_pic() is taken for another one.
LEMMA ChipRemapped ==
  ASSUME NEW chip \in Chip, NEW offset \in Nat, NEW identity
  PROVE  Remapped(chip, offset, identity) = [chip EXCEPT !.offset = offset]
<1> DEFINE Amid == [offset : Nat, mask : Nat, icw : 0 .. 3]
           Is(c, o, m, i) == c \in Amid /\ c.offset = o /\ c.mask = m /\ c.icw = i
           c1 == Command(chip)
           c2 == Data(c1, offset)
           c3 == Data(c2, identity)
           c4 == Data(c3, PIC_DATA_8086)
           c5 == Data(c4, chip.mask)
<1>1. Is(chip, chip.offset, chip.mask, 0) /\ chip.offset \in Nat /\ chip.mask \in Nat
  BY DEF Chip
<1>2. Is(c1, chip.offset, 0, 1)
  BY <1>1 DEF Command
<1> HIDE DEF c1
<1>3. Is(c2, offset, 0, 2)
  BY <1>2 DEF Data
<1> HIDE DEF c2
<1>4. Is(c3, offset, 0, 3)
  BY <1>3 DEF Data
<1> HIDE DEF c3
<1>5. Is(c4, offset, 0, 0)
  BY <1>4 DEF Data
<1> HIDE DEF c4
<1>6. Is(c5, offset, chip.mask, 0)
  BY <1>1, <1>5 DEF Data
<1>7. Remapped(chip, offset, identity) = c5
  BY Zenon DEF Remapped, c4, c3, c2, c1
<1> HIDE DEF c5
<1> QED BY <1>1, <1>6, <1>7 DEF Chip

\* remap_pic()
LEMMA RemapIInv ==
  ASSUME IInv, Go("remap_pic", "disable_pic"), RemapPic, NoTask
  PROVE  IInv'
<1>1. at = "remap_pic" /\ at' = "disable_pic"
  BY DEF Go
<1>2. UNCHANGED <<cpu, user, enabled, stack, sp, rsp0, interrupt_vector, idt>>
  BY DEF RemapPic
<1>3. UNCHANGED <<fifo, current, saved, save, own>>
  BY DEF NoTask, loadervars
<1>4. Controllers'
  <2>1. pic.master \in Chip /\ pic.slave \in Chip
    BY DEF IInv, Controllers, Chips
  <2>2. pic' = [master |-> [pic.master EXCEPT !.offset = 32],
                slave |-> [pic.slave EXCEPT !.offset = 40]]
    <3>1. Remapped(pic.master, 32, 4) = [pic.master EXCEPT !.offset = 32]
      BY <2>1, ChipRemapped
    <3>2. Remapped(pic.slave, 40, 2) = [pic.slave EXCEPT !.offset = 40]
      BY <2>1, ChipRemapped
    <3> QED BY <3>1, <3>2 DEF RemapPic, PIC_MASTER_REMAP_IRQ, PIC_SLAVE_REMAP_IRQ,
                             PIC_MASTER_IDENTITY, PIC_SLAVE_IDENTITY
  <2>3. \A o \in Nat : [pic.master EXCEPT !.offset = o] \in Chip
                       /\ [pic.slave EXCEPT !.offset = o] \in Chip
    BY <2>1 DEF Chip
  <2>4. pic' \in Chips /\ pic'.master.offset = 32 /\ pic'.slave.offset = 40
    BY <2>1, <2>2, <2>3 DEF Chips, Chip
  <2>5. enabled' = FALSE
    BY <1>1, <1>2 DEF IInv, Controllers, Setup
  <2> QED BY <1>1, <2>4, <2>5 DEF Controllers, Setup
<1>5. Vectors'
  BY <1>1, <1>2 DEF IInv, Vectors, Loading, Setup
<1>6. SavedContexts' /\ Tasks'
  BY <1>1, <1>3 DEF IInv, SavedContexts, Tasks
<1>7. Processor'
  BY <1>1, <1>2 DEF IInv, Processor, Loading, Setup, Running
<1> QED BY <1>1, <1>4, <1>5, <1>6, <1>7 DEF IInv, Phases, Loading, Setup

\* disable_pic()
LEMMA DisableIInv ==
  ASSUME IInv, Go("disable_pic", "sti"), DisablePic, NoTask
  PROVE  IInv'
<1>1. at = "disable_pic" /\ at' = "sti"
  BY DEF Go
<1>2. UNCHANGED <<cpu, user, enabled, stack, sp, rsp0, interrupt_vector, idt>>
  BY DEF DisablePic
<1>3. UNCHANGED <<fifo, current, saved, save, own>>
  BY DEF NoTask, loadervars
<1>4. Controllers'
  <2>1. /\ pic \in Chips /\ pic.master \in Chip /\ pic.slave \in Chip
        /\ pic.master.offset = 32 /\ pic.slave.offset = 40
    BY <1>1 DEF IInv, Controllers, Chips, Setup
  <2>2. \A chip \in Chip : Data(chip, PIC_DATA_DISABLE) = [chip EXCEPT !.mask = PIC_DATA_DISABLE]
    BY DEF Chip, Data
  <2>3. pic' = [c \in DOMAIN pic |-> Data(pic[c], PIC_DATA_DISABLE)]
    BY DEF DisablePic
  <2>4. pic' = [master |-> [pic.master EXCEPT !.mask = 255],
                slave |-> [pic.slave EXCEPT !.mask = 255]]
    <3>1. DOMAIN pic = {"master", "slave"}
      BY <2>1 DEF Chips
    <3> QED BY <2>1, <2>2, <2>3, <3>1 DEF PIC_DATA_DISABLE
  <2>5. /\ pic' \in Chips /\ pic'.master.offset = 32 /\ pic'.slave.offset = 40
        /\ pic'.master.mask = PIC_DATA_DISABLE /\ pic'.slave.mask = PIC_DATA_DISABLE
    BY <2>1, <2>4 DEF Chips, Chip, PIC_DATA_DISABLE
  <2>6. enabled' = FALSE
    BY <1>1, <1>2 DEF IInv, Controllers, Setup
  <2> QED BY <1>1, <2>5, <2>6 DEF Controllers, Setup
<1>5. Vectors'
  BY <1>1, <1>2 DEF IInv, Vectors, Loading, Setup
<1>6. SavedContexts' /\ Tasks'
  BY <1>1, <1>3 DEF IInv, SavedContexts, Tasks
<1>7. Processor'
  BY <1>1, <1>2 DEF IInv, Processor, Loading, Setup, Running
<1> QED BY <1>1, <1>4, <1>5, <1>6, <1>7 DEF IInv, Phases, Loading, Setup

\* sti()
LEMMA StiIInv ==
  ASSUME IInv, Go("sti", "load_tasks"), Sti, NoTask
  PROVE  IInv'
<1>1. at = "sti" /\ at' = "load_tasks"
  BY DEF Go
<1>2. UNCHANGED <<cpu, user, stack, sp, rsp0, interrupt_vector, idt, pic>> /\ enabled' = TRUE
  BY DEF Sti
<1>3. UNCHANGED <<fifo, current, saved, save, own>>
  BY DEF NoTask, loadervars
<1>4. Controllers'
  BY <1>1, <1>2 DEF IInv, Controllers, Setup
<1>5. Vectors'
  BY <1>1, <1>2 DEF IInv, Vectors, Loading, Setup
<1>6. SavedContexts' /\ Tasks'
  BY <1>1, <1>3 DEF IInv, SavedContexts, Tasks
<1>7. Processor'
  BY <1>1, <1>2 DEF IInv, Processor, Loading, Setup, Running
<1> QED BY <1>1, <1>4, <1>5, <1>6, <1>7 DEF IInv, Phases, Loading, Setup

\* What follows from the invariant when the controllers are no concern.
LEMMA ControllersStay ==
  ASSUME IInv, pic' = pic, at \notin Setup, at' \notin Setup
  PROVE  Controllers'
  BY DEF IInv, Controllers, Setup

\* Nor when the handlers are.
LEMMA VectorsStay ==
  ASSUME IInv, interrupt_vector' = interrupt_vector, (at \in Loading) <=> (at' \in Loading)
  PROVE  Vectors'
  BY DEF IInv, Vectors

\* One turn of the loop of load_tasks() makes at most one task.
LEMMA LoadTaskIInv ==
  ASSUME IInv, LoadTask
  PROVE  IInv'
<1>1. at = "load_tasks" /\ at' = "load_tasks"
  BY DEF LoadTask, Go
<1>2. UNCHANGED <<cpu, user, enabled, stack, sp, rsp0, interrupt_vector, idt, pic>>
  BY DEF LoadTask, intvars
<1>3. UNCHANGED <<current, saved, save, own>>
  BY DEF LoadTask
<1>4. Controllers'
  BY <1>1, <1>2, ControllersStay DEF Setup
<1>5. Vectors'
  BY <1>1, <1>2, VectorsStay
<1>6. SavedContexts'
  BY <1>3 DEF IInv, SavedContexts
<1>7. Tasks'
  <2>1. PICK T : fifo \in Seq(T)
    BY DEF IInv, Tasks
  <2>2. Len(fifo) \in Nat /\ Len(fifo) <= TASK_FIFO_LEN /\ TASK_FIFO_LEN \in Nat
    BY <2>1, LoaderAssumption DEF IInv, Tasks
  <2>3. fifo' = fifo \/ \E t : fifo' = Append(fifo, t) /\ Len(fifo) # TASK_FIFO_LEN
    BY DEF LoadTask, ParseTag, Parsed
  <2>4. CASE fifo' = fifo
    BY <1>1, <1>3, <2>1, <2>2, <2>4 DEF IInv, Tasks
  <2>5. CASE \E t : fifo' = Append(fifo, t) /\ Len(fifo) # TASK_FIFO_LEN
    <3>1. PICK t : fifo' = Append(fifo, t) /\ Len(fifo) # TASK_FIFO_LEN
      BY <2>5
    <3>2. fifo \in Seq(T \cup {t}) /\ t \in T \cup {t}
      BY <2>1
    <3>3. fifo' \in Seq(T \cup {t}) /\ Len(fifo') = Len(fifo) + 1
      BY <3>1, <3>2, AppendProperties
    <3>4. Len(fifo') <= TASK_FIFO_LEN
      BY <2>2, <3>1, <3>3
    <3> QED BY <1>1, <1>3, <3>3, <3>4 DEF IInv, Tasks
  <2> QED BY <2>3, <2>4, <2>5
<1>8. Processor'
  BY <1>1, <1>2 DEF IInv, Processor, Loading, Setup, Running
<1> QED BY <1>1, <1>4, <1>5, <1>6, <1>7, <1>8 DEF IInv, Phases, Loading, Setup

\* Its end sets the handlers of the two vectors of the tasks.
LEMMA LoadEndsIInv ==
  ASSUME IInv, LoadEnds
  PROVE  IInv'
<1>1. at = "load_tasks" /\ at' = "run_tasks"
  BY DEF LoadEnds, Go
<1>2. UNCHANGED <<cpu, user, enabled, stack, sp, rsp0, idt, pic>>
  BY DEF LoadEnds, SetVector
<1>3. /\ UNCHANGED <<fifo, current, save>>
      /\ saved' = [c \in DOMAIN fifo |-> Context(c)] /\ own' = saved'
  BY DEF LoadEnds, loadervars
<1>4. Controllers'
  BY <1>1, <1>2, ControllersStay DEF Setup
<1>5. Vectors'
  <2>1. /\ DOMAIN TaskHandlers = {128, 129}
        /\ TaskHandlers[128] = "syscall_handler" /\ TaskHandlers[129] = "enter_handler"
    BY DEF TaskHandlers, INT_USER_SYSCALL, INT_USER_ENTER_TASKS
  <2>2. interrupt_vector' =
          [v \in DOMAIN interrupt_vector |->
             IF v \in DOMAIN TaskHandlers THEN TaskHandlers[v] ELSE interrupt_vector[v]]
    BY DEF LoadEnds, SetVector
  <2>3. /\ interrupt_vector \in [0 .. 255 -> Names]
        /\ \A v \in 0 .. 255 : interrupt_vector[v] \notin {"syscall_handler", "enter_handler"}
    BY <1>1 DEF IInv, Vectors, Loading
  <2>4. ASSUME NEW v \in 0 .. 255
        PROVE  interrupt_vector'[v] = IF v = 128 THEN "syscall_handler"
                                      ELSE IF v = 129 THEN "enter_handler"
                                      ELSE interrupt_vector[v]
    BY <2>1, <2>2, <2>3
  <2>5. interrupt_vector' \in [0 .. 255 -> Names]
    <3>1. \A v \in 0 .. 255 : interrupt_vector'[v] \in Names
      BY <2>3, <2>4 DEF Names
    <3>2. interrupt_vector' = [v \in 0 .. 255 |-> interrupt_vector'[v]]
      BY <2>2, <2>3
    <3> QED BY <3>1, <3>2
  <2>6. \A v \in 0 .. 255 : /\ (interrupt_vector'[v] = "syscall_handler") <=> (v = 128)
                            /\ (interrupt_vector'[v] = "enter_handler") <=> (v = 129)
    BY <2>3, <2>4
  <2> QED BY <1>1, <2>5, <2>6
          DEF Vectors, Loading, Setup, INT_USER_SYSCALL, INT_USER_ENTER_TASKS
<1>6. /\ DOMAIN saved' = 1 .. Len(fifo) /\ Len(fifo) \in Nat
      /\ DOMAIN saved' \subseteq 1 .. TASK_FIFO_LEN
  <2>1. PICK T : fifo \in Seq(T)
    BY DEF IInv, Tasks
  <2> QED BY <1>3, <2>1, LoaderAssumption DEF IInv, Tasks
<1>7. SavedContexts'
  <2>1. \A c \in DOMAIN saved' : OfTask(own'[c])
    BY <1>3, <1>6, ContextIsContext DEF OfTask
  <2> QED BY <1>3, <1>6, <2>1 DEF IInv, SavedContexts
<1>8. Tasks'
  BY <1>1, <1>3, <1>6 DEF IInv, Tasks, Loading
<1>9. Processor'
  BY <1>1, <1>2 DEF IInv, Processor, Loading, Setup, Running
<1> QED BY <1>1, <1>4, <1>5, <1>7, <1>8, <1>9 DEF IInv, Phases, Loading, Setup

\* run_tasks() without a task.
LEMMA RunNothingIInv ==
  ASSUME IInv, RunNothing
  PROVE  IInv'
<1>1. at = "run_tasks" /\ at' = "die"
  BY DEF RunNothing, Go
<1>2. UNCHANGED <<cpu, user, enabled, stack, sp, rsp0, interrupt_vector, idt, pic>>
  BY DEF RunNothing, intvars
<1>3. UNCHANGED <<fifo, current, saved, save, own>>
  BY DEF RunNothing, NoTask, loadervars
<1>4. Controllers'
  BY <1>1, <1>2, ControllersStay DEF Setup
<1>5. Vectors'
  BY <1>1, <1>2, VectorsStay DEF Loading, Setup
<1>6. SavedContexts' /\ Tasks'
  BY <1>1, <1>3 DEF IInv, SavedContexts, Tasks
<1>7. Processor'
  BY <1>1, <1>2 DEF IInv, Processor, Loading, Setup, Running
<1> QED BY <1>1, <1>4, <1>5, <1>6, <1>7 DEF IInv, Phases, Loading, Setup

\* The call of run_tasks() leaves its return address and what it saves.
LEMMA CallIsIntact ==
  ASSUME CallRunTasks
  PROVE  ReturnIntact'
<1> DEFINE r == <<<<"return", 0>>>>
           w == [n \in 1 .. Saved |-> <<"saved", n>>]
           T == {<<"return", 0>>} \cup {<<"saved", n>> : n \in 1 .. Saved}
<1>1. r \in Seq(T) /\ Len(r) = 1 /\ r[1] = <<"return", 0>>
  OBVIOUS
<1>2. w \in Seq(T) /\ Len(w) = Saved /\ (\A n \in 1 .. Saved : w[n] = <<"saved", n>>)
      /\ Saved \in Nat
  BY FrameAssumption
<1>3. stack' = Push(stack, 0, r \o w)
  BY DEF CallRunTasks
<1> HIDE DEF r, w, T
<1>4. Joins(r \o w, r, w, T, 1, Saved)
  BY <1>1, <1>2, Joined
<1> DEFINE h == r \o w
<1>5. /\ Len(h) = 1 + Saved /\ h[1] = <<"return", 0>>
      /\ \A n \in 1 .. Saved : h[1 + n] = <<"saved", n>>
  BY <1>1, <1>2, <1>4 DEF Joins
<1>6. stack' = Push(stack, 0, h)
  BY <1>3
<1> HIDE DEF h
<1>7. ASSUME NEW p \in 1 .. 1 + Saved PROVE stack'[p] = h[p]
  <2>1. p \in 1 .. StackWords /\ p \in 0 + 1 .. 0 + Len(h) /\ p - 0 = p
    BY <1>5, FrameAssumption
  <2> QED BY <1>6, <2>1 DEF Push
<1>8. stack'[1] = <<"return", 0>>
  BY <1>2, <1>5, <1>7
<1>9. ASSUME NEW n \in 1 .. Saved PROVE stack'[1 + n] = <<"saved", n>>
  <2>1. 1 + n \in 1 .. 1 + Saved
    BY <1>2
  <2> QED BY <1>5, <1>7, <2>1
<1> QED BY <1>8, <1>9 DEF ReturnIntact

\* run_tasks() with one.
LEMMA RunTasksIInv ==
  ASSUME IInv, RunTasks
  PROVE  IInv'
<1>1. at = "run_tasks" /\ at' = "enter_task" /\ fifo # <<>>
  BY DEF RunTasks, Go
<1>2. UNCHANGED <<cpu, user, enabled, rsp0, interrupt_vector, idt, pic>> /\ sp' = 1 + Saved
  BY DEF RunTasks, CallRunTasks
<1>3. UNCHANGED <<fifo, current, saved, save, own>>
  BY DEF RunTasks, NoTask, loadervars
<1>4. Controllers'
  BY <1>1, <1>2, ControllersStay DEF Setup
<1>5. Vectors'
  BY <1>1, <1>2, VectorsStay DEF Loading, Setup
<1>6. SavedContexts'
  BY <1>3 DEF IInv, SavedContexts
<1>7. Tasks'
  <2>1. PICK T : fifo \in Seq(T)
    BY DEF IInv, Tasks
  <2>2. Len(fifo) > 0
    BY <1>1, <2>1, EmptySeq
  <2> QED BY <1>1, <1>3, <2>2 DEF IInv, Tasks
<1>8. ReturnIntact'
  BY CallIsIntact DEF RunTasks
<1>9. sp' \in 0 .. StackWords
  BY <1>2, FrameAssumption
<1>10. Processor'
  BY <1>1, <1>2, <1>8, <1>9 DEF IInv, Processor, Loading, Setup, Running
<1> QED BY <1>1, <1>4, <1>5, <1>6, <1>7, <1>10 DEF IInv, Phases, Running

\* The return of run_tasks().
LEMMA GoodbyeIInv ==
  ASSUME IInv, Goodbye
  PROVE  IInv'
<1>1. at = "kernel" /\ at' = "die"
  BY DEF Goodbye, Go
<1>2. UNCHANGED <<cpu, user, enabled, stack, sp, rsp0, interrupt_vector, idt, pic>>
  BY DEF Goodbye, intvars
<1>3. UNCHANGED <<fifo, current, saved, save, own>>
  BY DEF Goodbye, NoTask, loadervars
<1>4. Controllers'
  BY <1>1, <1>2, ControllersStay DEF Setup
<1>5. Vectors'
  BY <1>1, <1>2, VectorsStay DEF Loading, Setup
<1>6. SavedContexts' /\ Tasks'
  BY <1>1, <1>3 DEF IInv, SavedContexts, Tasks
<1>7. Processor'
  BY <1>1, <1>2 DEF IInv, Processor, Loading, Setup, Running
<1> QED BY <1>1, <1>4, <1>5, <1>6, <1>7 DEF IInv, Phases, Loading, Setup
-----------------------------------------------------------------------------
(* Interrupts.                                                             *)

\* The frame goes above what run_tasks() needs, from either mode: the stack of
\* the tasks begins behind the words of setup_tss(), which are at least as
\* many as those of run_tasks().
LEMMA InterruptPushes ==
  ASSUME IInv, NEW vec, NEW coded \in BOOLEAN, Agreed(vec, coded), Interrupt(vec, coded),
         at \in {"enter_task", "task"}
  PROVE  /\ HoldsFrame(stack', sp', vec, cpu)
         /\ sp' - 22 \in 1 + Saved .. S + 2
         /\ sp' \in 0 .. StackWords
         /\ ReturnIntact'
<1> {S, Saved, MainWords, StackWords} \subseteq Nat /\ Saved <= S /\ S + 24 <= StackWords
  BY FrameAssumption
<1> DEFINE base == Aligned(IF user THEN rsp0 ELSE sp)
<1>1. (IF user THEN rsp0 ELSE sp) \in 1 + Saved .. 1 + S
  BY DEF IInv, Processor, Loading, Setup
<1>2. base \in 1 + Saved .. S + 2
  BY <1>1 DEF Aligned
<1>3. Len(FrameWords(vec, coded, cpu)) = 22
  BY FrameLayout
<1>4. stack' = Push(stack, base, FrameWords(vec, coded, cpu)) /\ sp' = base + 22
  BY <1>3 DEF Interrupt
<1> HIDE DEF base
<1>5. base \in Nat /\ base + 22 <= StackWords
  BY <1>2
<1>6. /\ HoldsFrame(stack', sp', vec, cpu)
      /\ \A p \in 1 .. base : stack'[p] = stack[p]
  <2>1. /\ HoldsFrame(Push(stack, base, FrameWords(vec, coded, cpu)), base + 22, vec, cpu)
        /\ \A p \in 1 .. base : Push(stack, base, FrameWords(vec, coded, cpu))[p] = stack[p]
    BY <1>5, PushedFrame, SMTT(60)
  <2> QED BY <1>4, <2>1, Zenon
<1>7. ReturnIntact'
  <2>1. ReturnIntact
    BY DEF IInv, Processor, Running
  <2>2. \A p \in 1 .. 1 + Saved : stack'[p] = stack[p]
    BY <1>2, <1>6
  <2>3. \A n \in 1 .. Saved : 1 + n \in 1 .. 1 + Saved
    OBVIOUS
  <2> QED BY <2>1, <2>2, <2>3 DEF ReturnIntact
<1> QED BY <1>2, <1>4, <1>6, <1>7

\* Processor and stub agree on the vectors that occur.
LEMMA VectorsAgreed ==
  /\ \A vec \in {INT_USER_SYSCALL, INT_USER_ENTER_TASKS} \cup TaskInts : Agreed(vec, FALSE)
  /\ \A vec \in Exceptions : Agreed(vec, PushesCode(vec))
  BY ExceptionAssumption, TaskIntAssumption
  DEF Agreed, PushesCode, Errvec, INT_USER_SYSCALL, INT_USER_ENTER_TASKS

\* The kernel's own interrupt.
LEMMA EnterTaskIInv ==
  ASSUME IInv, EnterTask
  PROVE  IInv'
<1>1. at = "enter_task" /\ at' = "trap" /\ Interrupt(INT_USER_ENTER_TASKS, FALSE)
  BY DEF EnterTask, Go
<1>2. UNCHANGED <<cpu, rsp0, interrupt_vector, idt, pic>> /\ user' = FALSE /\ enabled' \in BOOLEAN
  BY <1>1 DEF Interrupt
<1>3. UNCHANGED <<fifo, current, saved, save, own>>
  BY DEF EnterTask, NoTask, loadervars
<1>4. Controllers'
  BY <1>1, <1>2, ControllersStay DEF Setup
<1>5. Vectors'
  BY <1>1, <1>2, VectorsStay DEF Loading, Setup
<1>6. SavedContexts' /\ Tasks'
  BY <1>1, <1>3 DEF IInv, SavedContexts, Tasks
<1>7. /\ HoldsFrame(stack', sp', INT_USER_ENTER_TASKS, cpu)
      /\ sp' - 22 \in 1 + Saved .. S + 2
      /\ sp' \in 0 .. StackWords
      /\ ReturnIntact'
  BY <1>1, VectorsAgreed, InterruptPushes
<1>8. KernelFrame'
  BY <1>1, <1>2, <1>3, <1>7 DEF IInv, Processor, Tasks, KernelFrame, HoldsFrame
<1>9. Processor'
  BY <1>1, <1>2, <1>7, <1>8 DEF IInv, Processor, Loading, Setup, Running
<1> QED BY <1>1, <1>4, <1>5, <1>6, <1>9 DEF IInv, Phases, Running

\* Interrupts of a task begin at the stack pointer of the TSS.
LEMMA TaskTrapsIInv ==
  ASSUME IInv, TaskTraps
  PROVE  IInv'
<1>1. PICK vec \in TaskVectors, coded \in BOOLEAN :
        at = "task" /\ at' = "trap" /\ Agreed(vec, coded) /\ Interrupt(vec, coded)
  <2>1. CASE \E vec \in {INT_USER_SYSCALL} \cup TaskInts : Interrupt(vec, FALSE)
    BY <2>1, VectorsAgreed DEF TaskTraps, TaskVectors, Go
  <2>2. CASE \E vec \in Exceptions : Interrupt(vec, PushesCode(vec))
    <3>1. PICK vec \in Exceptions : Interrupt(vec, PushesCode(vec))
      BY <2>2
    <3>2. PushesCode(vec) \in BOOLEAN
      BY DEF PushesCode
    <3> QED BY <3>1, <3>2, VectorsAgreed DEF TaskTraps, TaskVectors, Go
  <2> QED BY <2>1, <2>2 DEF TaskTraps
<1>2. UNCHANGED <<cpu, rsp0, interrupt_vector, idt, pic>> /\ user' = FALSE /\ enabled' \in BOOLEAN
  BY <1>1 DEF Interrupt
<1>3. UNCHANGED <<fifo, current, saved, save, own>>
  BY DEF TaskTraps, NoTask, loadervars
<1>4. Controllers'
  BY <1>1, <1>2, ControllersStay DEF Setup
<1>5. Vectors'
  BY <1>1, <1>2, VectorsStay DEF Loading, Setup
<1>6. SavedContexts' /\ Tasks'
  BY <1>1, <1>3 DEF IInv, SavedContexts, Tasks
<1>7. /\ HoldsFrame(stack', sp', vec, cpu)
      /\ sp' - 22 \in 1 + Saved .. S + 2
      /\ sp' \in 0 .. StackWords
      /\ ReturnIntact'
  BY <1>1, InterruptPushes
<1>8. TaskFrame'
  BY <1>1, <1>2, <1>3, <1>7 DEF IInv, Processor, TaskFrame, HoldsFrame
<1>9. Processor'
  BY <1>1, <1>2, <1>7, <1>8 DEF IInv, Processor, Loading, Setup, Running
<1> QED BY <1>1, <1>4, <1>5, <1>6, <1>9 DEF IInv, Phases, Running

\* What a task writes in its registers is its own.
LEMMA TaskRunsIInv ==
  ASSUME IInv, TaskRuns
  PROVE  IInv'
<1>1. PICK r \in Written, w \in Words : cpu' = [cpu EXCEPT ![r] = w]
  BY DEF TaskRuns
<1>2. at = "task" /\ at' = "task" /\ own' = [own EXCEPT ![current] = cpu']
  BY DEF TaskRuns, Go
<1>3. UNCHANGED <<user, enabled, stack, sp, rsp0, interrupt_vector, idt, pic,
                  fifo, current, saved, save>>
  BY DEF TaskRuns, loadervars
<1>4. cpu = own[current] /\ current \in DOMAIN saved /\ DOMAIN own = DOMAIN saved /\ OfTask(cpu)
  BY <1>2 DEF IInv, Processor, SavedContexts
<1>5. OfTask(cpu')
  <2>1. cpu = [q \in Registers |-> cpu[q]] /\ cpu["cs"][2] \in Nat \ {0}
    BY <1>4 DEF OfTask, IsContext
  <2>2. r # "cs"
    BY WrittenAssumption
  <2>3. cpu' = [q \in Registers |-> IF q = r THEN w ELSE cpu[q]]
    BY <1>1, <2>1
  <2>4. cpu' = [q \in Registers |-> cpu'[q]]
    BY <2>3
  <2>5. "cs" \in Registers
    <3>1. Automatic[4] = "cs"
      BY DEF Automatic
    <3> QED BY <3>1, RegisterNames
  <2>6. cpu'["cs"] = cpu["cs"]
    BY <2>2, <2>3, <2>5
  <2> QED BY <2>1, <2>4, <2>6 DEF OfTask, IsContext
<1>6. own'[current] = cpu' /\ DOMAIN own' = DOMAIN own
      /\ \A c \in DOMAIN own : c # current => own'[c] = own[c]
  BY <1>2, <1>4
<1>7. SavedContexts'
  BY <1>3, <1>4, <1>5, <1>6 DEF IInv, SavedContexts
<1>8. Controllers' /\ Vectors' /\ Tasks'
  BY <1>2, <1>3 DEF IInv, Controllers, Vectors, Tasks, Loading, Setup
<1>9. ReturnIntact'
  BY <1>2, <1>3 DEF IInv, Processor, Running, ReturnIntact
<1>10. Processor'
  BY <1>2, <1>3, <1>4, <1>6, <1>9 DEF IInv, Processor, Loading, Setup
<1> QED BY <1>2, <1>7, <1>8, <1>10 DEF IInv, Phases, Running

-----------------------------------------------------------------------------
(* Handlers.                                                               *)

\* The handler that is called tells whose frame it is.
LEMMA FrameOfKernel ==
  ASSUME IInv, at = "trap", Called = "enter_handler"
  PROVE  KernelFrame /\ Frame = Context(0)
<1>1. \A v \in 0 .. 255 : (interrupt_vector[v] = "enter_handler") <=> (v = 129)
  BY DEF IInv, Vectors, Loading, Setup, INT_USER_ENTER_TASKS
<1>2. KernelFrame \/ TaskFrame
  BY DEF IInv, Processor
<1>3. ~ TaskFrame
  <2> SUFFICES ASSUME TaskFrame PROVE FALSE
    OBVIOUS
  <2>1. PICK vec \in TaskVectors : HoldsFrame(stack, sp, vec, cpu)
    BY DEF TaskFrame
  <2>2. IsContext(cpu)
    BY DEF TaskFrame, IInv, SavedContexts, OfTask
  <2>3. Called = interrupt_vector[vec]
    BY <2>1, <2>2, FrameIsContext DEF Called
  <2>4. vec \in 0 .. 255 /\ vec # 129
    BY ExceptionAssumption, TaskIntAssumption DEF TaskVectors, INT_USER_SYSCALL, INT_USER_ENTER_TASKS
  <2> QED BY <1>1, <2>3, <2>4
<1>4. KernelFrame
  BY <1>2, <1>3
<1>5. Frame = cpu
  BY <1>4, ContextIsContext, FrameIsContext DEF KernelFrame
<1> QED BY <1>4, <1>5 DEF KernelFrame

\* A system call and an exception come from a task that lives.
LEMMA FrameOfTask ==
  ASSUME IInv, at = "trap", Called = "syscall_handler"
  PROVE  /\ TaskFrame /\ Frame = own[current] /\ OfTask(own[current])
         /\ current \in DOMAIN saved
<1>1. \A v \in 0 .. 255 : (interrupt_vector[v] = "syscall_handler") <=> (v = 128)
  BY DEF IInv, Vectors, Loading, Setup, INT_USER_SYSCALL
<1>2. KernelFrame \/ TaskFrame
  BY DEF IInv, Processor
<1>3. ~ KernelFrame
  <2> SUFFICES ASSUME KernelFrame PROVE FALSE
    OBVIOUS
  <2>1. HoldsFrame(stack, sp, 129, cpu) /\ IsContext(cpu)
    BY ContextIsContext DEF KernelFrame, INT_USER_ENTER_TASKS
  <2>2. Called = interrupt_vector[129]
    BY <2>1, FrameIsContext DEF Called
  <2> QED BY <1>1, <2>2
<1>4. TaskFrame
  BY <1>2, <1>3
<1>5. current \in DOMAIN saved /\ OfTask(own[current])
  BY <1>4 DEF TaskFrame, IInv, SavedContexts
<1>6. Frame = cpu
  BY <1>4, <1>5, FrameIsContext DEF TaskFrame, OfTask
<1> QED BY <1>4, <1>5, <1>6 DEF TaskFrame

\* The stub and iretq take the processor to the context that is in the frame.
LEMMA Switches ==
  ASSUME IInv, at = "trap", NEW regs, IsContext(regs), SwitchTo(regs)
  PROVE  /\ cpu' = regs /\ user' = (regs["cs"][2] # 0) /\ enabled' = TRUE
         /\ sp' = IF regs["cs"][2] # 0 THEN 0 ELSE 1 + Saved
         /\ ReturnIntact'
         /\ UNCHANGED <<rsp0, interrupt_vector, idt, pic>>
<1> {S, Saved, StackWords} \subseteq Nat /\ Saved <= S /\ S + 24 <= StackWords
  BY FrameAssumption
<1>1. sp \in 0 .. StackWords /\ sp - 22 \in 1 + Saved .. S + 2 /\ ReturnIntact
  BY DEF IInv, Processor, Running
<1> DEFINE st == Replaced(stack, sp, regs)
<1>2. sp \in 22 .. StackWords
  BY <1>1
<1>4. Restored(st, sp) = regs /\ \A p \in 1 .. sp - 22 : st[p] = stack[p]
  BY <1>2, ReplacedFrame
<1>5. Return(st)
  BY DEF SwitchTo
<1> HIDE DEF st
<1>6. /\ cpu' = regs /\ user' = (regs["cs"][2] # 0) /\ enabled' = TRUE /\ stack' = st
      /\ sp' = IF regs["cs"][2] # 0 THEN 0 ELSE 1 + Saved
      /\ UNCHANGED <<rsp0, interrupt_vector, idt, pic>>
  BY <1>4, <1>5 DEF Return
<1>7. ReturnIntact'
  <2>1. \A p \in 1 .. 1 + Saved : stack'[p] = stack[p]
    BY <1>1, <1>4, <1>6
  <2>2. 1 \in 1 .. 1 + Saved /\ \A n \in 1 .. Saved : 1 + n \in 1 .. 1 + Saved
    OBVIOUS
  <2> QED BY <1>1, <2>1, <2>2 DEF ReturnIntact
<1> QED BY <1>6, <1>7

\* What a step from a handler to a task leaves to show.
LEMMA ToTask ==
  ASSUME IInv, at = "trap", at' = "task",
         cpu' = own'[current'], user' = TRUE, enabled' = TRUE, sp' = 0,
         current' \in DOMAIN saved', ReturnIntact',
         UNCHANGED <<fifo, rsp0, interrupt_vector, idt, pic>>, SavedContexts'
  PROVE  IInv'
<1>1. Controllers'
  BY ControllersStay DEF Setup
<1>2. Vectors'
  BY VectorsStay DEF Loading, Setup
<1>3. Tasks'
  BY DEF IInv, Tasks
<1>4. sp' \in 0 .. StackWords
  BY FrameAssumption
<1>5. Processor'
  BY <1>4 DEF IInv, Processor, Loading, Setup
<1> QED BY <1>1, <1>2, <1>3, <1>5 DEF IInv, Phases, Running

\* The same when the handler has put the registers of the task in the frame.
LEMMA SwitchToTask ==
  ASSUME IInv, at = "trap", at' = "task", NEW regs, SwitchTo(regs),
         regs = own'[current'], current' \in DOMAIN saved', fifo' = fifo, SavedContexts'
  PROVE  IInv'
<1>1. OfTask(regs)
  BY DEF SavedContexts
<1>2. IsContext(regs) /\ regs["cs"][2] # 0
  BY <1>1 DEF OfTask
<1>3. /\ cpu' = regs /\ user' = TRUE /\ enabled' = TRUE /\ sp' = 0 /\ ReturnIntact'
      /\ UNCHANGED <<rsp0, interrupt_vector, idt, pic>>
  BY <1>2, Switches
<1> QED BY <1>3, ToTask

\* enter_handler() saves the kernel and enters the first task.
LEMMA EnterHandlerIInv ==
  ASSUME IInv, EnterHandler
  PROVE  IInv'
<1>1. at = "trap" /\ at' = "task" /\ save' = Frame /\ SwitchTo(saved[current'])
      /\ current' = IF Len(fifo) = 1 THEN 1 ELSE 2
  BY DEF EnterHandler, Go
<1>2. UNCHANGED <<fifo, saved, own>>
  BY DEF EnterHandler, loadervars
<1>3. KernelFrame /\ Frame = Context(0) /\ current = 0
  BY FrameOfKernel DEF EnterHandler, Go, KernelFrame
<1>4. current' \in DOMAIN saved
  <2>1. PICK T : fifo \in Seq(T)
    BY DEF IInv, Tasks
  <2>2. Len(fifo) \in Nat /\ Len(fifo) > 0 /\ DOMAIN saved = 1 .. Len(fifo)
    BY <1>3, <2>1 DEF KernelFrame
  <2> QED BY <1>1, <2>2
<1>5. \A c \in DOMAIN saved : saved[c] = own[c]
  BY <1>3 DEF IInv, SavedContexts
<1>6. SavedContexts'
  BY <1>1, <1>2, <1>3, <1>5 DEF IInv, SavedContexts
<1> QED BY <1>1, <1>2, <1>4, <1>5, <1>6, SwitchToTask

\* A system call that leaves the context alone.
LEMMA AnswerIInv ==
  ASSUME IInv, Answer
  PROVE  IInv'
<1>1. at = "trap" /\ at' = "task" /\ Return(stack)
  BY DEF Answer, Go
<1>2. UNCHANGED <<fifo, current, saved, save, own>>
  BY DEF Answer, NoTask, loadervars
<1>3. TaskFrame /\ OfTask(own[current]) /\ current \in DOMAIN saved
  BY FrameOfTask DEF Answer, Go
<1>4. cpu = own[current] /\ IsContext(cpu) /\ cpu["cs"][2] # 0
  BY <1>3 DEF TaskFrame, OfTask
<1>5. Restored(stack, sp) = cpu
  <2>1. PICK vec : HoldsFrame(stack, sp, vec, cpu)
    BY <1>3 DEF TaskFrame
  <2>2. ASSUME NEW k \in (1 .. 15) \cup (18 .. 22) PROVE stack[sp + 1 - k] = cpu[Fields[k]]
    BY <2>1 DEF HoldsFrame, WordOf
  <2>3. sp \in Int
    BY FrameAssumption DEF IInv, Processor
  <2> QED BY <1>4, <2>2, <2>3, FrameIsRestored
<1>6. /\ cpu' = cpu /\ user' = TRUE /\ enabled' = TRUE /\ sp' = 0 /\ stack' = stack
      /\ UNCHANGED <<rsp0, interrupt_vector, idt, pic>>
  BY <1>1, <1>4, <1>5 DEF Return
<1>7. ReturnIntact'
  BY <1>1, <1>6 DEF IInv, Processor, Running, ReturnIntact
<1>8. SavedContexts'
  BY <1>2 DEF IInv, SavedContexts
<1> QED BY <1>1, <1>2, <1>3, <1>4, <1>6, <1>7, <1>8, ToTask

\* next_task()
LEMMA NextTaskIInv ==
  ASSUME IInv, NextTask
  PROVE  IInv'
<1>1. /\ at = "trap" /\ at' = "task" /\ saved' = [saved EXCEPT ![current] = Frame]
      /\ current' \in DOMAIN saved /\ SwitchTo(saved'[current'])
  BY DEF NextTask, Go
<1>2. UNCHANGED <<fifo, save, own>>
  BY DEF NextTask, loadervars
<1>3. Frame = own[current]
  BY FrameOfTask DEF NextTask, Go
<1>4. DOMAIN saved' = DOMAIN saved /\ \A c \in DOMAIN saved : saved'[c] = own[c]
  BY <1>1, <1>3 DEF IInv, SavedContexts
<1>5. SavedContexts'
  BY <1>2, <1>4 DEF IInv, SavedContexts
<1> QED BY <1>1, <1>2, <1>4, <1>5, SwitchToTask

\* The registers of a task that a system call answers are those of a task.
LEMMA AnsweredIsOfTask ==
  ASSUME NEW regs, OfTask(regs), NEW n
  PROVE  OfTask(Answered(regs, n))
<1>1. Answered(regs, n) = [r \in Registers |-> IF r = "rax" THEN <<"answer", n>> ELSE regs[r]]
  BY DEF OfTask, IsContext, Answered
<1>2. "cs" \in Registers
  <2>1. Automatic[4] = "cs"
    BY DEF Automatic
  <2> QED BY <2>1, RegisterNames
<1>3. Answered(regs, n)["cs"] = regs["cs"]
  BY <1>1, <1>2
<1>4. IsContext(Answered(regs, n))
  <2>1. \A r \in Registers : Answered(regs, n)[r] = IF r = "rax" THEN <<"answer", n>> ELSE regs[r]
    BY <1>1
  <2> QED BY <1>1, <2>1 DEF IsContext
<1> QED BY <1>3, <1>4 DEF OfTask

\* fork_task(): the child waits in fifo with the registers of the frame.
LEMMA ForkTaskIInv ==
  ASSUME IInv, ForkTask
  PROVE  IInv'
<1> DEFINE regs == own[current]
           a == Answered(regs, 0)
           b == Answered(regs, 1)
<1>1. PICK child \in (1 .. TASK_FIFO_LEN) \ DOMAIN saved :
        /\ saved' = With(saved, child, Answered(Frame, 1))
        /\ own' = With(With(own, child, b), current, a)
  BY DEF ForkTask
<1>2. at = "trap" /\ at' = "task" /\ UNCHANGED <<fifo, current, save>> /\ SwitchTo(Answered(Frame, 0))
  BY DEF ForkTask, Go, loadervars
<1>3. Frame = regs /\ OfTask(regs) /\ current \in DOMAIN saved
  BY FrameOfTask DEF ForkTask, Go
<1>4. OfTask(a) /\ OfTask(b)
  BY <1>3, AnsweredIsOfTask
<1>5. saved' = With(saved, child, b) /\ SwitchTo(a)
  BY <1>1, <1>2, <1>3
<1> HIDE DEF a, b, regs
<1>6. DOMAIN own = DOMAIN saved /\ child \notin DOMAIN saved
  BY DEF IInv, SavedContexts
<1>7. /\ DOMAIN saved' = DOMAIN saved \cup {child}
      /\ saved'[child] = b
      /\ \A c \in DOMAIN saved : saved'[c] = saved[c]
  BY <1>5, <1>6 DEF With
<1>8. /\ DOMAIN own' = DOMAIN saved'
      /\ own'[child] = b /\ own'[current] = a
      /\ \A c \in DOMAIN saved : c # current => own'[c] = own[c]
  <2> DEFINE f == With(own, child, b)
  <2>1. /\ DOMAIN f = DOMAIN saved \cup {child} /\ f[child] = b
        /\ \A c \in DOMAIN saved : f[c] = own[c]
    BY <1>6 DEF With
  <2>2. own' = With(f, current, a)
    BY <1>1
  <2> HIDE DEF f
  <2> QED BY <1>3, <1>6, <1>7, <2>1, <2>2 DEF With
<1>9. SavedContexts'
  BY <1>2, <1>4, <1>6, <1>7, <1>8 DEF IInv, SavedContexts
<1> QED BY <1>2, <1>3, <1>5, <1>7, <1>8, <1>9, SwitchToTask

\* fork_task() with fifo full.
LEMMA ForkFailsIInv ==
  ASSUME IInv, ForkFails
  PROVE  IInv'
<1> DEFINE a == Answered(own[current], -1)
<1>1. /\ at = "trap" /\ at' = "task" /\ UNCHANGED <<fifo, current, saved, save>>
      /\ own' = With(own, current, a) /\ SwitchTo(Answered(Frame, -1))
  BY DEF ForkFails, Go, loadervars
<1>2. Frame = own[current] /\ OfTask(own[current]) /\ current \in DOMAIN saved
  BY FrameOfTask DEF ForkFails, Go
<1>3. OfTask(a) /\ SwitchTo(a)
  BY <1>1, <1>2, AnsweredIsOfTask
<1> HIDE DEF a
<1>4. /\ DOMAIN own' = DOMAIN own /\ own'[current] = a
      /\ \A c \in DOMAIN own : c # current => own'[c] = own[c]
  BY <1>1, <1>2 DEF With, IInv, SavedContexts
<1>5. SavedContexts'
  BY <1>1, <1>3, <1>4 DEF IInv, SavedContexts
<1> QED BY <1>1, <1>2, <1>3, <1>4, <1>5, SwitchToTask

\* exit_task() while others live.
LEMMA ExitToTaskIInv ==
  ASSUME IInv, ExitToTask
  PROVE  IInv'
<1>1. /\ at = "trap" /\ at' = "task"
      /\ saved' = [c \in DOMAIN saved \ {current} |-> saved[c]]
      /\ own' = [c \in DOMAIN saved' |-> own[c]]
      /\ current' \in DOMAIN saved' /\ SwitchTo(saved[current'])
  BY DEF ExitToTask, Go
<1>2. UNCHANGED <<fifo, save>>
  BY DEF ExitToTask, loadervars
<1>3. /\ DOMAIN saved' \subseteq DOMAIN saved /\ DOMAIN own' = DOMAIN saved'
      /\ \A c \in DOMAIN saved' : saved'[c] = saved[c] /\ own'[c] = own[c] /\ saved[c] = own[c]
  BY <1>1 DEF IInv, SavedContexts
<1>4. SavedContexts'
  BY <1>2, <1>3 DEF IInv, SavedContexts
<1>5. saved[current'] = own'[current']
  BY <1>1, <1>3
<1> QED BY <1>1, <1>2, <1>4, <1>5, SwitchToTask

\* exit_task() of the last one.
LEMMA ExitToKernelIInv ==
  ASSUME IInv, ExitToKernel
  PROVE  IInv'
<1>1. at = "trap" /\ at' = "kernel" /\ saved' = <<>> /\ own' = <<>> /\ SwitchTo(save)
  BY DEF ExitToKernel, Go
<1>2. UNCHANGED <<fifo, current, save>>
  BY DEF ExitToKernel, loadervars
<1>3. save = Context(0) /\ IsContext(save) /\ save["cs"][2] = 0
  BY ContextIsContext DEF IInv, SavedContexts
<1>4. /\ cpu' = Context(0) /\ user' = FALSE /\ enabled' = TRUE /\ sp' = 1 + Saved
      /\ ReturnIntact'
      /\ UNCHANGED <<rsp0, interrupt_vector, idt, pic>>
  BY <1>1, <1>3, Switches
<1>5. Controllers'
  BY <1>1, <1>4, ControllersStay DEF Setup
<1>6. Vectors'
  BY <1>1, <1>4, VectorsStay DEF Loading, Setup
<1>7. SavedContexts'
  BY <1>1, <1>2 DEF IInv, SavedContexts
<1>8. Tasks'
  BY <1>1, <1>2 DEF IInv, Tasks, Loading, Setup
<1>9. sp' \in 0 .. StackWords
  BY <1>4, FrameAssumption
<1>10. Processor'
  BY <1>1, <1>4, <1>9 DEF IInv, Processor, Loading, Setup
<1> QED BY <1>1, <1>5, <1>6, <1>7, <1>8, <1>10 DEF IInv, Phases, Running

\* The handlers that halt.
LEMMA HaltIInv ==
  ASSUME IInv, Halt
  PROVE  IInv'
<1>1. at = "trap" /\ at' = "hlt"
  BY DEF Halt, Go
<1>2. UNCHANGED <<cpu, user, enabled, stack, sp, rsp0, interrupt_vector, idt, pic>>
  BY DEF Halt, intvars
<1>3. UNCHANGED <<fifo, current, saved, save, own>>
  BY DEF Halt, NoTask, loadervars
<1>4. Controllers'
  BY <1>1, <1>2, ControllersStay DEF Setup
<1>5. Vectors'
  BY <1>1, <1>2, VectorsStay DEF Loading, Setup
<1>6. SavedContexts' /\ Tasks'
  BY <1>1, <1>3 DEF IInv, SavedContexts, Tasks
<1>7. Processor'
  BY <1>1, <1>2 DEF IInv, Processor, Loading, Setup, Running
<1> QED BY <1>1, <1>4, <1>5, <1>6, <1>7 DEF IInv, Phases

\* Nothing happens.
LEMMA StutterIInv ==
  ASSUME IInv, UNCHANGED vars
  PROVE  IInv'
<1>1. UNCHANGED <<cpu, user, enabled, stack, sp, rsp0, interrupt_vector, idt, pic,
                  fifo, at, current, saved, save, own>>
  BY DEF vars, intvars, loadervars
<1>2. Controllers' /\ Vectors'
  BY <1>1 DEF IInv, Controllers, Vectors
<1>3. SavedContexts' /\ Tasks'
  BY <1>1 DEF IInv, SavedContexts, Tasks
<1>4. Processor'
  <2>1. ReturnIntact' = ReturnIntact
    BY <1>1, Zenon DEF ReturnIntact
  <2>2. (KernelFrame \/ TaskFrame) => (KernelFrame \/ TaskFrame)'
    BY <1>1, Zenon DEF KernelFrame, TaskFrame, HoldsFrame
  <2> QED BY <1>1, <2>1, <2>2 DEF IInv, Processor
<1> QED BY <1>1, <1>2, <1>3, <1>4 DEF IInv

\* All steps together.
LEMMA NextIInv == IInv /\ [Next]_vars => IInv'
<1> SUFFICES ASSUME IInv, [Next]_vars PROVE IInv'
  OBVIOUS
<1>1. CASE SetUp /\ NoTask
  BY <1>1, SetupInterruptsIInv, SetupTssIInv, SetPgfaultIInv, RemapIInv, DisableIInv, StiIInv
  DEF SetUp
<1>2. CASE LoadTask \/ LoadEnds \/ RunNothing \/ RunTasks \/ EnterTask \/ Goodbye
  BY <1>2, LoadTaskIInv, LoadEndsIInv, RunNothingIInv, RunTasksIInv, EnterTaskIInv, GoodbyeIInv
<1>3. CASE TaskTraps
  BY <1>3, TaskTrapsIInv
<1>4. CASE TaskRuns
  BY <1>4, TaskRunsIInv
<1>5. CASE Handler
  BY <1>5, EnterHandlerIInv, AnswerIInv, NextTaskIInv, ForkTaskIInv, ForkFailsIInv,
     ExitToTaskIInv, ExitToKernelIInv, HaltIInv
  DEF Handler
<1>6. CASE Stopped \/ UNCHANGED vars
  BY <1>6, StutterIInv DEF Stopped
<1> QED BY <1>1, <1>2, <1>3, <1>4, <1>5, <1>6 DEF Next, Main

\* The invariant holds from the first call of main_multiboot2() to its end,
\* whatever the tasks write, raise and ask for, fork included (main.c:85).
THEOREM Invariance == Spec => []IInv
  BY InitIInv, NextIInv, PTL DEF Spec

-----------------------------------------------------------------------------
(* The properties.                                                         *)

\* The variables keep their types, and no frame goes past the stack that is
\* modelled.
THEOREM TypeCorrect == Spec => []TypeOK
<1>1. IInv => TypeOK
  <2> SUFFICES ASSUME IInv PROVE TypeOK
    OBVIOUS
  <2>1. rsp0 \in 0 .. StackWords
    BY FrameAssumption DEF IInv, Processor
  <2> QED BY <2>1 DEF IInv, Processor, Tasks, SavedContexts, TypeOK
<1> QED BY <1>1, Invariance, PTL

\* For every exception and system call, and wherever the frame begins, what a
\* handler finds in its struct interrupt_context are the registers of what was
\* interrupted, the vector and its code (trap.pl:10, idt.h:38).
THEOREM FramesAgree == Spec => []FramesAreContexts
<1>1. IInv => FramesAreContexts
  <2> SUFFICES ASSUME IInv, at = "trap"
               PROVE  /\ Frame = cpu
                      /\ Field(stack, sp, "itnum")[1] = "vector"
                      /\ Field(stack, sp, "errcode") = <<"code", Field(stack, sp, "itnum")[2]>>
    BY DEF FramesAreContexts
  <2>1. KernelFrame \/ TaskFrame
    BY DEF IInv, Processor
  <2>2. PICK vec : HoldsFrame(stack, sp, vec, cpu) /\ IsContext(cpu)
    BY <2>1, ContextIsContext DEF KernelFrame, TaskFrame, IInv, SavedContexts, OfTask
  <2>3. /\ Frame = cpu
        /\ Field(stack, sp, "itnum") = <<"vector", vec>>
        /\ Field(stack, sp, "errcode") = <<"code", vec>>
    BY <2>2, FrameIsContext
  <2> QED BY <2>3
<1> QED BY <1>1, Invariance, PTL

\* For any number of tasks, whatever they write in their registers and in which
\* order they call print, mmap, yield, fork and exit, a task runs with its own
\* registers, and the kernel goes on with its own and finds its return address,
\* although the frames of the tasks begin in the words of a function that has
\* returned (task.c:83).  A task that enters the kernel by the kernel's own
\* vector is outside (TaskIntAssumption).
THEOREM ContextsComeBack == Spec => []ContextsRestored
<1>1. IInv => ContextsRestored
  BY DEF IInv, Processor, Running, Loading, ContextsRestored
<1> QED BY <1>1, Invariance, PTL

\* Whatever mask the firmware has left, interrupts are never enabled with a
\* controller that could raise an exception's vector (main.c:110).
THEOREM IrqsStayApart == Spec => []IrqsAreNoExceptions
<1>1. IInv => IrqsAreNoExceptions
  <2> SUFFICES ASSUME IInv, enabled, NEW c \in DOMAIN pic
               PROVE  pic[c].icw = 0 /\ pic[c].offset >= 32 /\ pic[c].mask = PIC_DATA_DISABLE
    BY DEF IrqsAreNoExceptions
  <2>1. at \notin Setup
    BY DEF IInv, Controllers
  <2>2. /\ pic \in Chips
        /\ pic.master.offset = 32 /\ pic.slave.offset = 40
        /\ pic.master.mask = PIC_DATA_DISABLE /\ pic.slave.mask = PIC_DATA_DISABLE
    BY <2>1 DEF IInv, Controllers
  <2>3. c \in {"master", "slave"} /\ pic.master.icw = 0 /\ pic.slave.icw = 0
    BY <2>2 DEF Chips, Chip
  <2> QED BY <2>2, <2>3
<1> QED BY <1>1, Invariance, PTL
-----------------------------------------------------------------------------
(* The walk over the tags.                                                 *)

\* What holds of 0, and of l + 1 when it holds of l, holds up to n.
LEMMA UpInduction ==
  ASSUME NEW n \in Nat, NEW T, 0 \in T,
         \A l \in 0 .. n - 1 : l \in T => l + 1 \in T
  PROVE  \A l \in 0 .. n : l \in T
<1> DEFINE R == {ss \in Nat \X Nat : ss[1] < ss[2]}
           B == {k \in 0 .. n : k \notin T}
<1> SUFFICES ASSUME B # {} PROVE FALSE
  OBVIOUS
<1>1. IsWellFoundedOn(R, Nat)
  BY NatLessThanWellFounded DEF OpToRel
<1>2. PICK m \in B : \A k \in B : ~ (<<k, m>> \in R)
  <2> B \subseteq Nat
    OBVIOUS
  <2> HIDE DEF R, B
  <2> QED BY <1>1, WFMin
<1>3. m # 0 /\ m \in 0 .. n /\ m \notin T
  OBVIOUS
<1>4. m - 1 \in 0 .. n - 1 /\ <<m - 1, m>> \in R /\ (m - 1) + 1 = m
  BY <1>3
<1>5. m - 1 \in T
  <2>1. m - 1 \notin B
    BY <1>2, <1>4
  <2>2. m - 1 \in 0 .. n
    BY <1>4
  <2> QED BY <2>1, <2>2
<1> QED BY <1>3, <1>4, <1>5

\* (n + 7) & ~7 is the multiple of 8 at or behind n.
LEMMA Up8Rounds ==
  ASSUME NEW n \in Nat
  PROVE  /\ Up8(n) \in Nat /\ n <= Up8(n) /\ Up8(n) % 8 = 0
         /\ \A p \in Nat : p % 8 = 0 => Up8(p + n) = p + Up8(n)
         /\ Up8(n) # n => n % 8 # 0
  BY SMTT(30) DEF Up8

\* What the recursion of Positions amounts to.
LEMMA ArePositions ==
  ASSUME tags \in Seq(Tags)
  PROVE  /\ Positions \in [1 .. Len(tags) + 1 -> Nat]
         /\ Positions[1] = 8
         /\ \A n \in 1 .. Len(tags) : Positions[n + 1] = Positions[n] + Up8(tags[n].size)
<1> DEFINE N == Len(tags)
           Is(P, k) == /\ P \in [1 .. k -> Nat]
                       /\ \A n \in 1 .. k :
                            P[n] = IF n = 1 THEN 8 ELSE P[n - 1] + Up8(tags[n - 1].size)
           T == {k \in 0 .. N : \E P : Is(P, k + 1)}
<1>1. N \in Nat /\ \A n \in 1 .. N : Up8(tags[n].size) \in Nat
  <2>1. \A n \in 1 .. N : tags[n] \in Tags /\ tags[n].size \in Nat
    BY LoaderAssumption
  <2>2. ASSUME NEW n \in 1 .. N PROVE Up8(tags[n].size) \in Nat
    <3>1. tags[n].size \in Nat
      BY <2>1
    <3> QED BY <3>1, Up8Rounds
  <2>3. N \in Nat
    OBVIOUS
  <2> QED BY <2>2, <2>3
<1> HIDE DEF N
<1>2. 0 \in T
  <2>1. Is([n \in 1 .. 1 |-> 8], 0 + 1)
    OBVIOUS
  <2>2. 0 \in 0 .. N
    BY <1>1
  <2> HIDE DEF Is
  <2> QED BY <2>1, <2>2
<1>3. ASSUME NEW k \in 0 .. N - 1, k \in T PROVE k + 1 \in T
  <2>1. PICK P : Is(P, k + 1)
    BY <1>3
  <2>2. PICK v \in Nat : v = P[k + 1] + Up8(tags[k + 1].size)
    BY <1>1, <2>1
  <2> DEFINE Q == [n \in 1 .. k + 2 |-> IF n = k + 2 THEN v ELSE P[n]]
  <2>3. Q \in [1 .. k + 2 -> Nat]
    BY <2>1
  <2>4. ASSUME NEW n \in 1 .. k + 2
        PROVE  Q[n] = IF n = 1 THEN 8 ELSE Q[n - 1] + Up8(tags[n - 1].size)
    <3>1. CASE n = k + 2
      <4>1. Q[n] = v /\ n - 1 = k + 1 /\ n # 1 /\ Q[k + 1] = P[k + 1]
        BY <3>1
      <4> HIDE DEF Q
      <4> QED BY <2>2, <4>1
    <3>2. CASE n # k + 2
      <4>1. n \in 1 .. k + 1 /\ Q[n] = P[n] /\ (n # 1 => Q[n - 1] = P[n - 1])
        BY <3>2
      <4> HIDE DEF Q
      <4> QED BY <2>1, <4>1
    <3> QED BY <3>1, <3>2
  <2>5. Is(Q, (k + 1) + 1)
    <3>1. (k + 1) + 1 = k + 2
      OBVIOUS
    <3> HIDE DEF Q
    <3> QED BY <2>3, <2>4, <3>1
  <2> HIDE DEF Q, Is
  <2> QED BY <1>1, <2>5
<1>4. \E P : Is(P, N + 1)
  <2> HIDE DEF T
  <2>1. N \in Nat /\ \A k \in 0 .. N - 1 : k \in T => k + 1 \in T
    BY <1>1, <1>3
  <2>2. \A k \in 0 .. N : k \in T
    BY <1>2, <2>1, UpInduction
  <2>3. N \in T
    BY <2>1, <2>2
  <2> QED BY <2>3 DEF T
<1>5. PICK P : Is(P, N + 1)
  BY <1>4
<1>6. P = [n \in 1 .. N + 1 |-> IF n = 1 THEN 8 ELSE P[n - 1] + Up8(tags[n - 1].size)]
  BY <1>5
<1>7. Positions = [n \in 1 .. N + 1 |->
                     IF n = 1 THEN 8 ELSE Positions[n - 1] + Up8(tags[n - 1].size)]
  <2>1. Positions = CHOOSE Q : Q = [n \in 1 .. N + 1 |->
                                      IF n = 1 THEN 8 ELSE Q[n - 1] + Up8(tags[n - 1].size)]
    BY Zenon DEF Positions, N
  <2> QED BY <1>6, <2>1, Zenon
<1>8. Positions[1] = 8
  BY <1>1, <1>7
<1>9. ASSUME NEW n \in 1 .. N PROVE Positions[n + 1] = Positions[n] + Up8(tags[n].size)
  <2>1. n + 1 \in 1 .. N + 1 /\ n + 1 # 1 /\ (n + 1) - 1 = n
    BY <1>1
  <2> QED BY <1>7, <2>1
<1> DEFINE V == {k \in 0 .. N : Positions[k + 1] \in Nat}
<1>10. \A k \in 0 .. N : k \in V
  <2>1. 0 \in V
    BY <1>1, <1>8
  <2>2. ASSUME NEW k \in 0 .. N - 1, k \in V PROVE k + 1 \in V
    <3>1. k + 1 \in 1 .. N /\ k + 1 \in 0 .. N
      BY <1>1
    <3>2. Positions[(k + 1) + 1] = Positions[k + 1] + Up8(tags[k + 1].size)
      BY <1>9, <3>1
    <3>3. Positions[k + 1] \in Nat /\ Up8(tags[k + 1].size) \in Nat
      BY <1>1, <2>2, <3>1
    <3> QED BY <3>1, <3>2, <3>3
  <2>3. \A k \in 0 .. N - 1 : k \in V => k + 1 \in V
    BY <2>2
  <2> HIDE DEF V
  <2> QED BY <1>1, <2>1, <2>3, UpInduction
<1>11. ASSUME NEW n \in 1 .. N + 1 PROVE Positions[n] \in Nat
  <2>1. n - 1 \in 0 .. N /\ (n - 1) + 1 = n
    BY <1>1
  <2> QED BY <1>10, <2>1
<1>12. Positions \in [1 .. N + 1 -> Nat]
  BY <1>7, <1>11
<1> QED BY <1>8, <1>9, <1>12 DEF N

\* Each tag begins at a multiple of 8, at least 8 bytes behind the one before.
LEMMA PositionsGrow ==
  ASSUME tags \in Seq(Tags)
  PROVE  /\ \A n \in 1 .. Len(tags) + 1 : Positions[n] \in Nat /\ Positions[n] % 8 = 0
         /\ \A m, n \in 1 .. Len(tags) + 1 : m < n => Positions[m] < Positions[n]
<1> DEFINE N == Len(tags)
<1>1. N \in Nat
  OBVIOUS
<1>2. /\ Positions \in [1 .. N + 1 -> Nat] /\ Positions[1] = 8
      /\ \A n \in 1 .. N : Positions[n + 1] = Positions[n] + Up8(tags[n].size)
  BY ArePositions
<1>3. ASSUME NEW n \in 1 .. N
      PROVE  Up8(tags[n].size) \in Nat /\ 8 <= Up8(tags[n].size) /\ Up8(tags[n].size) % 8 = 0
  <2>1. tags[n] \in Tags
    OBVIOUS
  <2>2. PICK z \in Nat : z = tags[n].size /\ z >= 8
    BY <2>1, LoaderAssumption
  <2>3. Up8(z) \in Nat /\ z <= Up8(z) /\ Up8(z) % 8 = 0
    BY Up8Rounds
  <2> QED BY <2>2, <2>3
<1> HIDE DEF N
<1> DEFINE V == {k \in 0 .. N : /\ Positions[k + 1] % 8 = 0
                               /\ \A m \in 1 .. k : Positions[m] < Positions[k + 1]}
<1>4. \A k \in 0 .. N : k \in V
  <2>1. 0 \in V
    BY <1>1, <1>2
  <2>2. ASSUME NEW k \in 0 .. N - 1, k \in V PROVE k + 1 \in V
    <3>1. k + 1 \in 1 .. N /\ k + 1 \in 0 .. N /\ k + 1 \in 1 .. N + 1 /\ (k + 1) + 1 \in 1 .. N + 1
      BY <1>1
    <3>2. PICK u \in Nat : u = Up8(tags[k + 1].size) /\ 8 <= u /\ u % 8 = 0
      BY <1>3, <3>1
    <3>3. PICK p \in Nat, q \in Nat :
            p = Positions[k + 1] /\ q = Positions[(k + 1) + 1] /\ q = p + u
      BY <1>2, <3>1, <3>2
    <3>4. p % 8 = 0
      BY <2>2, <3>3
    <3>5. q % 8 = 0
      BY <3>2, <3>3, <3>4
    <3>6. ASSUME NEW m \in 1 .. k + 1 PROVE Positions[m] < q
      <4>1. Positions[m] \in Nat
        BY <1>1, <1>2
      <4>2. m \in 1 .. k \/ m = k + 1
        OBVIOUS
      <4>3. Positions[m] <= p
        BY <2>2, <3>3, <4>1, <4>2
      <4> QED BY <3>2, <3>3, <4>1, <4>3
    <3> QED BY <3>1, <3>3, <3>5, <3>6
  <2>3. \A k \in 0 .. N - 1 : k \in V => k + 1 \in V
    BY <2>2
  <2> HIDE DEF V
  <2> QED BY <1>1, <2>1, <2>3, UpInduction
<1>5. ASSUME NEW n \in 1 .. N + 1 PROVE Positions[n] \in Nat /\ Positions[n] % 8 = 0
  <2>1. n - 1 \in 0 .. N /\ (n - 1) + 1 = n
    BY <1>1
  <2> QED BY <1>2, <1>4, <2>1
<1>6. ASSUME NEW m \in 1 .. N + 1, NEW n \in 1 .. N + 1, m < n
      PROVE  Positions[m] < Positions[n]
  <2>1. n - 1 \in 0 .. N /\ (n - 1) + 1 = n /\ m \in 1 .. n - 1
    BY <1>1, <1>6
  <2> QED BY <1>4, <2>1
<1> QED BY <1>5, <1>6 DEF N

\* The walk finds the n-th tag at its position, goes on to the next, and ends
\* behind the last.
LEMMA WalkStep ==
  ASSUME tags \in Seq(Tags), NEW n \in 1 .. Len(tags) + 1, ptr = Positions[n]
  PROVE  /\ WalkEnds <=> n = Len(tags) + 1
         /\ n # Len(tags) + 1 => /\ TagAt(ptr) = tags[n]
                                 /\ After(ptr, tags[n].size) = Positions[n + 1]
<1> DEFINE N == Len(tags)
<1>1. N \in Nat /\ \A k \in 1 .. N : tags[k].size \in Nat /\ tags[k].size >= 8
  BY LoaderAssumption
<1>2. /\ \A k \in 1 .. N + 1 : Positions[k] \in Nat /\ Positions[k] % 8 = 0
      /\ \A j, k \in 1 .. N + 1 : j < k => Positions[j] < Positions[k]
      /\ Positions[1] = 8
      /\ \A k \in 1 .. N : Positions[k + 1] = Positions[k] + Up8(tags[k].size)
  BY PositionsGrow, ArePositions
<1>3. DOMAIN tags = 1 .. N /\ (tags = <<>> <=> N = 0)
  BY EmptySeq
<1>4. TotalSize = IF N = 0 THEN 8 ELSE Positions[N] + tags[N].size
  BY <1>3 DEF TotalSize
<1> HIDE DEF N
<1>5. CASE n = N + 1
  <2>1. CASE N = 0
    BY <1>2, <1>4, <1>5, <2>1 DEF WalkEnds, N
  <2>2. CASE N # 0
    <3>1. N \in 1 .. N /\ N \in 1 .. N + 1
      BY <1>1, <2>2
    <3>2. PICK z \in Nat : z = tags[N].size
      BY <1>1, <3>1
    <3>3. Up8(z) \in Nat /\ z <= Up8(z)
      BY Up8Rounds
    <3>4. PICK p \in Nat : p = Positions[N]
      BY <1>2, <3>1
    <3>5. ptr = p + Up8(z) /\ TotalSize = p + z
      BY <1>2, <1>4, <1>5, <2>2, <3>1, <3>2, <3>4
    <3>6. ptr >= TotalSize
      BY <3>3, <3>5
    <3> QED BY <1>5, <3>6 DEF WalkEnds, N
  <2> QED BY <2>1, <2>2
<1>6. CASE n # N + 1
  <2>1. n \in 1 .. N /\ n \in 1 .. N + 1 /\ N \in 1 .. N /\ N \in 1 .. N + 1 /\ N # 0
    BY <1>1, <1>6 DEF N
  <2>2. PICK p \in Nat, q \in Nat, z \in Nat :
          p = Positions[n] /\ q = Positions[N] /\ z = tags[N].size /\ z >= 8
    <3>1. tags[N].size \in Nat /\ tags[N].size >= 8
      BY <1>1, <2>1
    <3>2. Positions[n] \in Nat /\ Positions[N] \in Nat
      BY <1>2, <2>1
    <3> QED BY <3>1, <3>2
  <2>3. p <= q
    <3>1. n = N \/ n < N
      BY <2>1
    <3> QED BY <1>2, <2>1, <2>2, <3>1
  <2>4. ~ WalkEnds
    BY <1>4, <2>1, <2>2, <2>3 DEF WalkEnds
  <2>5. ASSUME NEW k \in 1 .. N, Positions[k] = ptr PROVE k = n
    <3>1. k < n \/ n < k \/ k = n
      BY <2>1
    <3>2. k \in 1 .. N + 1 /\ n \in 1 .. N + 1
      BY <1>1, <2>1
    <3>3. p < p => FALSE
      BY <2>2
    <3> QED BY <1>2, <2>2, <2>5, <3>1, <3>2, <3>3
  <2>6. TagAt(ptr) = tags[n]
    <3>1. \A k \in DOMAIN tags : Positions[k] = ptr <=> k = n
      BY <1>3, <2>1, <2>5
    <3>2. (CHOOSE k \in DOMAIN tags : Positions[k] = ptr) = n
      BY <1>3, <2>1, <3>1
    <3>3. \E k \in DOMAIN tags : Positions[k] = ptr
      BY <1>3, <2>1
    <3> QED BY <3>2, <3>3 DEF TagAt
  <2>7. After(ptr, tags[n].size) = Positions[n + 1]
    <3>1. PICK y \in Nat : y = tags[n].size
      BY <1>1, <2>1
    <3>2. p % 8 = 0
      BY <1>2, <2>1, <2>2
    <3>3. Up8(p + y) = p + Up8(y)
      BY <3>2, Up8Rounds
    <3> QED BY <1>2, <2>1, <2>2, <3>1, <3>3 DEF After
  <2> QED BY <1>6, <2>4, <2>6, <2>7 DEF N
<1> QED BY <1>5, <1>6
-----------------------------------------------------------------------------
(* The tasks that are made on the way.                                     *)

\* The modules before a tag.
Done(n) == {m \in Modules : m < n}

\* What parse_task() makes of a module.
TaskOf(m) == IF m.header = NoHeader THEN Phantom(m) ELSE Task(m)

\* What the array holds when the walk stands before tag n.
LoadedUpTo(f, n) ==
  /\ Len(f) = IF Cardinality(Done(n)) < TASK_FIFO_LEN THEN Cardinality(Done(n)) ELSE TASK_FIFO_LEN
  /\ \A m \in Done(n) : Rank(m) <= TASK_FIFO_LEN => f[Rank(m)] = TaskOf(tags[m].module)

LoaderInv ==
  /\ tags \in Seq(Tags)
  /\ \E n \in 1 .. Len(tags) + 1 :
       /\ ptr = Positions[n]
       /\ LoadedUpTo(fifo, n)
       /\ at \notin Loading => n = Len(tags) + 1

\* The modules before a tag, and the next one.
LEMMA DoneSets ==
  ASSUME tags \in Seq(Tags)
  PROVE  /\ Len(tags) \in Nat
         /\ \A m \in Modules : m \in 1 .. Len(tags)
         /\ Done(1) = {}
         /\ \A k \in Int : /\ k \notin Done(k)
                          /\ Done(k + 1) = IF k \in Modules THEN Done(k) \cup {k} ELSE Done(k)
         /\ \A j, k \in Int : j < k => Done(j + 1) \in SUBSET Done(k)
<1>1. Len(tags) \in Nat /\ DOMAIN tags = 1 .. Len(tags)
  OBVIOUS
<1>2. \A m \in Modules : m \in 1 .. Len(tags)
  BY <1>1 DEF Modules
<1>3. \A m \in Modules : m \in Int /\ 1 <= m
  BY <1>1, <1>2
<1>4. \A k, m : m \in Done(k) <=> m \in Modules /\ m < k
  BY Zenon DEF Done
<1> HIDE DEF Done
<1>5. Done(1) = {}
  <2>1. \A m \in Int : ~ (1 <= m /\ m < 1)
    OBVIOUS
  <2> QED BY <1>3, <1>4, <2>1
<1>6. ASSUME NEW k \in Int
      PROVE  /\ k \notin Done(k)
             /\ Done(k + 1) = IF k \in Modules THEN Done(k) \cup {k} ELSE Done(k)
  <2>1. \A m \in Modules : m < k + 1 <=> m < k \/ m = k
    BY <1>3
  <2>2. ~ (k < k)
    OBVIOUS
  <2>3. \A m : m \in Done(k + 1) <=> m \in Done(k) \/ (m = k /\ k \in Modules)
    BY <1>4, <2>1, Zenon
  <2>4. k \notin Done(k)
    BY <1>4, <2>2
  <2>5. \A m : m \in Done(k + 1) <=> m \in (IF k \in Modules THEN Done(k) \cup {k} ELSE Done(k))
    BY <2>3, Zenon
  <2>6. Done(k + 1) \subseteq (IF k \in Modules THEN Done(k) \cup {k} ELSE Done(k))
        /\ (IF k \in Modules THEN Done(k) \cup {k} ELSE Done(k)) \subseteq Done(k + 1)
    BY <2>5, Zenon
  <2>7. \A A, B : A \subseteq B /\ B \subseteq A => A = B
    OBVIOUS
  <2> QED BY <2>4, <2>6, <2>7, Zenon
<1>7. ASSUME NEW j \in Int, NEW k \in Int, j < k PROVE Done(j + 1) \in SUBSET Done(k)
  <2>1. \A m \in Modules : m < j + 1 => m < k
    BY <1>3, <1>7
  <2> QED BY <1>4, <2>1
<1> QED BY <1>1, <1>2, <1>5, <1>6, <1>7

\* The modules before a tag are as many as their ranks say.
LEMMA DoneCounts ==
  ASSUME tags \in Seq(Tags), NEW n \in 1 .. Len(tags) + 1
  PROVE  /\ IsFiniteSet(Done(n)) /\ Cardinality(Done(n)) \in Nat
         /\ \A m \in Done(n) : Rank(m) \in 1 .. Cardinality(Done(n))
         /\ Rank(n) = 1 + Cardinality(Done(n))
<1>1. /\ Len(tags) \in Nat
      /\ \A m \in Modules : m \in 1 .. Len(tags)
      /\ \A k \in Int : /\ k \notin Done(k)
                       /\ Done(k + 1) = IF k \in Modules THEN Done(k) \cup {k} ELSE Done(k)
      /\ \A j, k \in Int : j < k => Done(j + 1) \in SUBSET Done(k)
  BY DoneSets
<1>2. IsFiniteSet(Modules)
  <2>1. IsFiniteSet(1 .. Len(tags))
    BY <1>1, FS_Interval
  <2>2. Modules \in SUBSET (1 .. Len(tags))
    BY <1>1
  <2> QED BY <2>1, <2>2, FS_Subset
<1>3. ASSUME NEW k \in Int PROVE IsFiniteSet(Done(k)) /\ Cardinality(Done(k)) \in Nat
  <2>1. Done(k) \in SUBSET Modules
    BY DEF Done
  <2> QED BY <1>2, <2>1, FS_Subset, FS_CardinalityType
<1>4. ASSUME NEW k PROVE Rank(k) = 1 + Cardinality(Done(k))
  BY DEF Rank, Done
<1>5. n \in Int
  BY <1>1
<1>6. ASSUME NEW m \in Done(n) PROVE Rank(m) \in 1 .. Cardinality(Done(n))
  <2>1. m \in Modules /\ m < n
    BY DEF Done
  <2>2. m \in Int
    BY <1>1, <2>1
  <2>3. /\ m \notin Done(m) /\ Done(m + 1) = Done(m) \cup {m}
        /\ Done(m + 1) \in SUBSET Done(n)
    BY <1>1, <1>5, <2>1, <2>2
  <2>4. IsFiniteSet(Done(m)) /\ Cardinality(Done(m)) \in Nat
    BY <1>3, <2>2
  <2>5. IsFiniteSet(Done(n)) /\ Cardinality(Done(n)) \in Nat
    BY <1>3, <1>5
  <2>6. Cardinality(Done(m + 1)) = Cardinality(Done(m)) + 1
    BY <2>3, <2>4, FS_AddElement
  <2>7. Cardinality(Done(m + 1)) <= Cardinality(Done(n))
    BY <2>3, <2>5, FS_Subset
  <2> QED BY <1>4, <2>4, <2>5, <2>6, <2>7
<1> QED BY <1>3, <1>4, <1>5, <1>6

\* One turn of the loop.
LEMMA ParseLoads ==
  ASSUME tags \in Seq(Tags), NEW n \in 1 .. Len(tags), LoadedUpTo(fifo, n),
         NEW T, fifo \in Seq(T),
         NEW f,
         f = IF tags[n].type = MB2_TAG_MODULE THEN Parsed(tags[n].module) ELSE fifo
  PROVE  LoadedUpTo(f, n + 1)
<1> DEFINE N == Len(tags)
           c == Cardinality(Done(n))
<1>1. /\ N \in Nat /\ DOMAIN tags = 1 .. N
      /\ n \in 1 .. N + 1 /\ n + 1 \in 1 .. N + 1 /\ n \in Int
      /\ n \notin Done(n)
      /\ Done(n + 1) = IF n \in Modules THEN Done(n) \cup {n} ELSE Done(n)
  <2>1. /\ N \in Nat /\ DOMAIN tags = 1 .. N
        /\ n \in 1 .. N + 1 /\ n + 1 \in 1 .. N + 1 /\ n \in Int
    OBVIOUS
  <2> QED BY <2>1, DoneSets
<1>2. /\ IsFiniteSet(Done(n)) /\ c \in Nat
      /\ \A m \in Done(n) : Rank(m) \in 1 .. c
      /\ Rank(n) = 1 + c
  BY <1>1, DoneCounts
<1>3. TASK_FIFO_LEN \in Nat \ {0}
  BY LoaderAssumption
<1>4. /\ Len(fifo) = IF c < TASK_FIFO_LEN THEN c ELSE TASK_FIFO_LEN
      /\ \A m \in Done(n) : Rank(m) <= TASK_FIFO_LEN => fifo[Rank(m)] = TaskOf(tags[m].module)
  BY DEF LoadedUpTo
<1>5. CASE n \notin Modules
  <2>1. Done(n + 1) = Done(n)
    BY <1>1, <1>5
  <2>2. f = fifo
    BY <1>1, <1>5 DEF Modules, Parsed
  <2> QED BY <2>1, <2>2 DEF LoadedUpTo
<1>6. CASE n \in Modules
  <2>1. Done(n + 1) = Done(n) \cup {n} /\ n \notin Done(n)
    BY <1>1, <1>6
  <2>2. Cardinality(Done(n + 1)) = c + 1
    BY <1>2, <2>1, FS_AddElement
  <2>3. f = IF Len(fifo) = TASK_FIFO_LEN THEN fifo
                ELSE Append(fifo, TaskOf(tags[n].module))
    BY <1>6 DEF Modules, Parsed, TaskOf
  <2> HIDE DEF c
  <2>4. CASE Len(fifo) = TASK_FIFO_LEN
    <3>1. c >= TASK_FIFO_LEN /\ f = fifo
      BY <1>2, <1>3, <1>4, <2>3, <2>4
    <3>2. ~ (Rank(n) <= TASK_FIFO_LEN)
      BY <1>2, <1>3, <1>6, <3>1
    <3>3. ~ (c + 1 < TASK_FIFO_LEN)
      BY <1>2, <1>3, <3>1
    <3> QED BY <1>4, <2>1, <2>2, <2>4, <3>1, <3>2, <3>3 DEF LoadedUpTo
  <2>5. CASE Len(fifo) # TASK_FIFO_LEN
    <3> DEFINE t == TaskOf(tags[n].module)
    <3> HIDE DEF t
    <3>1. Len(fifo) = c /\ c < TASK_FIFO_LEN /\ f = Append(fifo, t)
      BY <1>2, <1>3, <1>4, <2>3, <2>5 DEF t
    <3>2. fifo \in Seq(T \cup {t}) /\ t \in T \cup {t}
      OBVIOUS
    <3>3. Len(f) = c + 1 /\ f[c + 1] = t /\ \A k \in 1 .. c : f[k] = fifo[k]
      BY <1>2, <3>1, <3>2, AppendProperties
    <3>4. c + 1 = IF c + 1 < TASK_FIFO_LEN THEN c + 1 ELSE TASK_FIFO_LEN
      BY <1>2, <1>3, <3>1
    <3>5. ASSUME NEW m \in Done(n + 1), Rank(m) <= TASK_FIFO_LEN
          PROVE  f[Rank(m)] = TaskOf(tags[m].module)
      <4>1. CASE m = n
        BY <1>2, <1>6, <3>3, <4>1 DEF t
      <4>2. CASE m \in Done(n)
        BY <1>2, <1>4, <3>3, <3>5, <4>2
      <4> QED BY <2>1, <4>1, <4>2
    <3> QED BY <2>2, <3>3, <3>4, <3>5 DEF LoadedUpTo
  <2> QED BY <2>4, <2>5
<1> QED BY <1>5, <1>6

\* The walk begins before the first tag.
LEMMA LoaderStarts == Init => LoaderInv
<1> SUFFICES ASSUME Init PROVE LoaderInv
  OBVIOUS
<1>1. at = "setup_interrupts" /\ ptr = 8 /\ fifo = <<>>
  BY DEF Init, LoaderInit
<1>2. tags \in Seq(Tags)
  BY LoaderAssumption DEF Init, LoaderInit
<1>3. 1 \in 1 .. Len(tags) + 1 /\ Positions[1] = 8
  BY <1>2, ArePositions
<1>5. Done(1) = {}
  BY <1>2, DoneSets
<1>6. Cardinality(Done(1)) = 0
  BY <1>5, FS_EmptySet
<1>7. LoadedUpTo(fifo, 1)
  BY <1>1, <1>5, <1>6, LoaderAssumption DEF LoadedUpTo
<1> QED BY <1>1, <1>2, <1>3, <1>7 DEF LoaderInv, Loading, Setup

\* What depends on the tags only does not change with the walk.
LEMMA LayoutStays ==
  ASSUME tags' = tags
  PROVE  /\ Positions' = Positions
         /\ Modules' = Modules
<1>1. Positions' = Positions
  BY Zenon DEF Positions
<1>2. Modules' = Modules
  BY Zenon DEF Modules
<1> QED BY <1>1, <1>2

\* Each turn takes it before the next.
LEMMA LoadTaskLoads ==
  ASSUME LoaderInv, LoadTask, \E T : fifo \in Seq(T)
  PROVE  LoaderInv'
<1>1. at = "load_tasks" /\ at' = "load_tasks"
  BY DEF LoadTask, Go
<1>2. /\ ~ WalkEnds /\ tags' = tags
      /\ ptr' = After(ptr, TagAt(ptr).size)
      /\ fifo' = IF TagAt(ptr).type = MB2_TAG_MODULE THEN Parsed(TagAt(ptr).module) ELSE fifo
  BY DEF LoadTask, ParseTag
<1>3. tags \in Seq(Tags)
  BY DEF LoaderInv
<1>4. PICK n \in 1 .. Len(tags) + 1 : ptr = Positions[n] /\ LoadedUpTo(fifo, n)
  BY DEF LoaderInv
<1>5. n # Len(tags) + 1 /\ TagAt(ptr) = tags[n] /\ ptr' = Positions[n + 1]
  BY <1>2, <1>3, <1>4, WalkStep
<1>6. n \in 1 .. Len(tags) /\ n + 1 \in 1 .. Len(tags) + 1
  BY <1>3, <1>5
<1>7. PICK T : fifo \in Seq(T)
  OBVIOUS
<1>8. PICK f : f = fifo'
  OBVIOUS
<1>9. f = IF tags[n].type = MB2_TAG_MODULE THEN Parsed(tags[n].module) ELSE fifo
  BY <1>2, <1>5, <1>8, Zenon
<1>10. LoadedUpTo(f, n + 1)
  BY <1>3, <1>4, <1>6, <1>7, <1>9, ParseLoads
<1>11. Positions' = Positions /\ Modules' = Modules
  BY <1>2, LayoutStays
<1>12. LoadedUpTo(fifo, n + 1)'
  BY <1>2, <1>8, <1>10, <1>11, Zenon DEF LoadedUpTo, Done, Rank
<1> QED BY <1>1, <1>2, <1>3, <1>5, <1>6, <1>11, <1>12 DEF LoaderInv, Loading

\* Nothing else moves it.
LEMMA LoaderStays ==
  ASSUME LoaderInv, UNCHANGED loadervars, at' \in Loading \/ at \notin Loading
  PROVE  LoaderInv'
<1>1. UNCHANGED <<tags, ptr, fifo>>
  BY DEF loadervars
<1>2. tags \in Seq(Tags)
  BY DEF LoaderInv
<1>3. PICK n \in 1 .. Len(tags) + 1 :
        /\ ptr = Positions[n]
        /\ LoadedUpTo(fifo, n)
        /\ at \notin Loading => n = Len(tags) + 1
  BY DEF LoaderInv
<1>4. Positions' = Positions /\ Modules' = Modules
  BY <1>1, LayoutStays
<1>5. LoadedUpTo(fifo, n)'
  BY <1>1, <1>3, <1>4, Zenon DEF LoadedUpTo, Done, Rank
<1> QED BY <1>1, <1>2, <1>3, <1>4, <1>5 DEF LoaderInv

\* The loop ends behind the last tag.
LEMMA LoadEndsLoads ==
  ASSUME LoaderInv, LoadEnds
  PROVE  LoaderInv'
<1>1. UNCHANGED <<tags, ptr, fifo>> /\ WalkEnds
  BY DEF LoadEnds, loadervars
<1>2. tags \in Seq(Tags)
  BY DEF LoaderInv
<1>3. PICK n \in 1 .. Len(tags) + 1 : ptr = Positions[n] /\ LoadedUpTo(fifo, n)
  BY DEF LoaderInv
<1>4. n = Len(tags) + 1
  BY <1>1, <1>2, <1>3, WalkStep
<1>5. Positions' = Positions /\ Modules' = Modules
  BY <1>1, LayoutStays
<1>6. LoadedUpTo(fifo, n)'
  BY <1>1, <1>3, <1>5, Zenon DEF LoadedUpTo, Done, Rank
<1> QED BY <1>1, <1>2, <1>3, <1>4, <1>5, <1>6 DEF LoaderInv

\* All steps together.
LEMMA NextLoads == IInv /\ LoaderInv /\ [Next]_vars => LoaderInv'
<1> SUFFICES ASSUME IInv, LoaderInv, [Next]_vars PROVE LoaderInv'
  OBVIOUS
<1>1. CASE SetUp /\ NoTask
  <2>1. at' \in Loading
    BY <1>1 DEF SetUp, Go, Loading, Setup
  <2> QED BY <1>1, <2>1, LoaderStays DEF NoTask
<1>2. CASE LoadTask
  BY <1>2, LoadTaskLoads DEF IInv, Tasks
<1>3. CASE LoadEnds
  BY <1>3, LoadEndsLoads
<1>4. CASE RunNothing \/ RunTasks \/ EnterTask \/ Goodbye \/ TaskRuns \/ TaskTraps
  <2>1. at \notin Loading
    BY <1>4 DEF RunNothing, RunTasks, EnterTask, Goodbye, TaskRuns, TaskTraps, Go,
                Loading, Setup
  <2>2. UNCHANGED loadervars
    BY <1>4 DEF RunNothing, RunTasks, EnterTask, Goodbye, TaskRuns, TaskTraps, NoTask
  <2> QED BY <2>1, <2>2, LoaderStays
<1>5. CASE Handler
  <2>1. at \notin Loading
    BY <1>5 DEF Handler, EnterHandler, Answer, NextTask, ForkTask, ForkFails, ExitToTask,
                ExitToKernel, Halt, Go, Loading, Setup
  <2>2. UNCHANGED loadervars
    BY <1>5 DEF Handler, EnterHandler, Answer, NextTask, ForkTask, ForkFails, ExitToTask,
                ExitToKernel, Halt, NoTask
  <2> QED BY <2>1, <2>2, LoaderStays
<1>6. CASE Stopped \/ UNCHANGED vars
  <2>1. UNCHANGED loadervars /\ at' = at
    BY <1>6 DEF Stopped, vars
  <2> QED BY <2>1, LoaderStays
<1> QED BY <1>1, <1>2, <1>3, <1>4, <1>5, <1>6 DEF Next, Main

\* The addresses of a task are those of its module, and a search that ends
\* past the module's end was of a size that is no multiple of 8.
LEMMA TaskAddresses ==
  ASSUME tags \in Seq(Tags), NEW n \in Modules
  PROVE  LET m == tags[n].module
             t == TaskOf(m)
         IN  /\ t.module = m
             /\ m.header # NoHeader =>
                  /\ t.load_paddr = m.start
                  /\ t.load_end_paddr = m.start + m.size
                  /\ t.load_vaddr + m.header = m.header_addr
             /\ m.header = NoHeader => m.size % 8 # 0
<1> DEFINE m == tags[n].module
           t == TaskOf(m)
<1>1. tags[n] \in Tags /\ tags[n].type = MB2_TAG_MODULE /\ Finds(m)
  BY DEF Modules
<1>2. {m.start, m.size, m.header_addr} \subseteq Nat
  BY <1>1, LoaderAssumption
<1>3. m.header # NoHeader => m.header \in Nat
  BY <1>1, LoaderAssumption
<1> HIDE DEF m
<1>4. CASE m.header # NoHeader
  <2>1. PICK a \in Nat, z \in Nat, p \in Nat, h \in Nat :
          a = m.start /\ z = m.size /\ p = m.header_addr /\ h = m.header
    BY <1>2, <1>3, <1>4
  <2>2. t = Task(m) /\ Stops(m) = h
    BY <1>4, <2>1 DEF TaskOf, Stops
  <2>3. /\ t.module = m
        /\ t.load_vaddr = p - h
        /\ t.load_paddr = (p - h) - (p - (a + h))
        /\ t.load_end_paddr = ((p - h) + z) - (p - (a + h))
    BY <2>1, <2>2 DEF Task, Paddr
  <2>4. /\ (p - h) - (p - (a + h)) = a
        /\ ((p - h) + z) - (p - (a + h)) = a + z
        /\ (p - h) + h = p
    OBVIOUS
  <2> HIDE DEF t
  <2>5. /\ t.module = m /\ t.load_paddr = m.start /\ t.load_end_paddr = m.start + m.size
        /\ t.load_vaddr + m.header = m.header_addr
    BY <2>1, <2>3, <2>4, Zenon
  <2> QED BY <1>4, <2>5 DEF t, m
<1>5. CASE m.header = NoHeader
  <2>1. t.module = m
    BY <1>5 DEF TaskOf, Phantom
  <2>2. Up8(m.size) # m.size
    BY <1>1, <1>5 DEF Finds, Stops
  <2>3. m.size % 8 # 0
    BY <1>2, <2>2, Up8Rounds
  <2> HIDE DEF t
  <2> QED BY <1>5, <2>1, <2>3 DEF t, m
<1> QED BY <1>4, <1>5

\* Whatever tags the boot loader leaves, and however many: the walk goes from
\* each to the next and ends behind the last, and makes its tasks of the
\* modules in order, up to the length of the array (task.c:31, 115).
THEOREM ModulesLoaded == Spec => []TasksAreModules
<1>1. LoaderInv => TasksAreModules
  <2> SUFFICES ASSUME LoaderInv, at = "run_tasks" PROVE TasksAreModules
    BY DEF TasksAreModules
  <2>1. tags \in Seq(Tags)
    BY DEF LoaderInv
  <2>2. LoadedUpTo(fifo, Len(tags) + 1)
    BY DEF LoaderInv, Loading, Setup
  <2>3. Done(Len(tags) + 1) = Modules
    <3>1. Len(tags) \in Nat /\ \A m \in Modules : m \in 1 .. Len(tags)
      BY <2>1, DoneSets
    <3>2. \A m \in Modules : m < Len(tags) + 1
      BY <3>1
    <3> QED BY <3>2 DEF Done
  <2>4. /\ Len(fifo) = IF Cardinality(Modules) < TASK_FIFO_LEN
                       THEN Cardinality(Modules) ELSE TASK_FIFO_LEN
        /\ \A m \in Modules : Rank(m) <= TASK_FIFO_LEN =>
             fifo[Rank(m)] = TaskOf(tags[m].module)
    BY <2>2, <2>3, Zenon DEF LoadedUpTo
  <2> QED BY <2>1, <2>4, TaskAddresses, Zenon DEF TasksAreModules
<1>2. IInv /\ LoaderInv /\ [Next]_vars => (IInv /\ LoaderInv)'
  BY NextIInv, NextLoads
<1>3. Init => IInv /\ LoaderInv
  BY InitIInv, LoaderStarts
<1>4. Spec => [](IInv /\ LoaderInv)
  BY <1>2, <1>3, PTL DEF Spec
<1> QED BY <1>1, <1>4, PTL
=============================================================================
