-------------------------- MODULE RackdollInterrupts --------------------------
(***************************************************************************)
(* How an interrupt reaches its handler in Rackdoll and how it returns:    *)
(* the gates of setup_interrupts() and trap() (kernel/idt.c), the stubs    *)
(* that kernel/trap.pl generates, the stack that setup_tss()               *)
(* (kernel/task.c) gives the processor, and the two interrupt controllers. *)
(*                                                                         *)
(* A register holds a pair <<r, c>>: the value that context c begins with  *)
(* in register r, or something that a task or a system call has put there. *)
(* Context 0 is the kernel, the others are tasks.  The stack is that of    *)
(* the kernel, the only one there is; a position is the number of words    *)
(* pushed since main_multiboot2() had its own frame.                       *)
(***************************************************************************)
EXTENDS Integers, Sequences, SequencesExt

CONSTANTS
  StackWords,   \* bound: words of the stack that are modelled
  MainWords,    \* words of the frame of main_multiboot2()
  S,            \* words of its own that setup_tss() has on the stack
  Saved         \* words that run_tasks() saves for its caller

\* Of the compiled kernel: neither function has a word of its own.  The
\* stack that is modelled has room for one frame.
ASSUME FrameAssumption ==
  /\ {StackWords, MainWords, S, Saved} \subseteq Nat
  /\ Saved <= S
  /\ StackWords >= S + 24

INT_PF == 14
INT_USER_SYSCALL == 128
INT_USER_ENTER_TASKS == 129

VARIABLES
  cpu,                \* registers of the processor
  user,               \* whether it is in user mode
  enabled,            \* RFLAGS.IF: whether it takes interrupts of devices
  stack, sp,
  rsp0,               \* tss.rsp0
  interrupt_vector,   \* the handlers that have been set
  idt,                \* whether lidt has been executed
  pic                 \* the interrupt controllers

intvars == <<cpu, user, enabled, stack, sp, rsp0, interrupt_vector, idt, pic>>

-----------------------------------------------------------------------------
(* The frame.                                                              *)

\* The stub pushes them in this order.
General == <<"rax", "rdi", "rsi", "rdx", "rcx", "r8", "r9", "r10", "r11",
             "r12", "r13", "r14", "r15", "rbx", "rbp">>

\* And takes them back in this one.
Popped == <<"rbp", "rbx", "r15", "r14", "r13", "r12", "r11", "r10", "r9", "r8",
            "rcx", "rdx", "rsi", "rdi", "rax">>

\* The processor pushes these before it enters the stub.
Automatic == <<"ss", "rsp", "rflags", "cs", "rip">>

Registers == ToSet(General) \cup ToSet(Automatic)

\* struct interrupt_context, from the lowest address up.
Fields == <<"rbp", "rbx", "r15", "r14", "r13", "r12", "r11", "r10", "r9", "r8",
            "rcx", "rdx", "rsi", "rdi", "rax", "itnum", "errcode",
            "rip", "cs", "rflags", "rsp", "ss">>

Context(c) == [r \in Registers |-> <<r, c>>]

\* The exceptions for which the processor pushes an error code.  It pushes none
\* for an int instruction, whatever the vector.
PushesCode(vec) == vec \in {8, 10, 11, 12, 13, 14, 17, 21, 29, 30}

\* Seeded fault: the vector of page faults is missing.
FaultyErrvec == {8, 10, 11, 12, 13, 17}

\* @errvec of trap.pl: the stubs that push no zero in its place.
Errvec == {8, 10, 11, 12, 13, 14, 17}

\* The words of a frame in the order in which they are pushed; coded is whether
\* the processor pushes a code.
FrameWords(vec, coded, regs) ==
  [n \in DOMAIN Automatic |-> regs[Automatic[n]]]
  \o (IF coded THEN <<<<"code", vec>>>> ELSE <<>>)
  \o (IF vec \in Errvec THEN <<>> ELSE <<<<"code", vec>>>>)
  \o <<<<"vector", vec>>>>
  \o [n \in DOMAIN General |-> regs[General[n]]]

\* The processor aligns the stack to 16 bytes.  main_multiboot2() is entered
\* by a jump, with the stack at a multiple of 16.
Aligned(n) == IF (MainWords + n) % 2 = 0 THEN n ELSE n + 1

Push(st, n, words) ==
  [k \in 1 .. StackWords |->
     IF k \in n + 1 .. n + Len(words) THEN words[k - n] ELSE st[k]]

\* ctx->f, of the frame on top of a stack.
Field(st, n, f) ==
  st[n + 1 - CHOOSE k \in DOMAIN Fields : Fields[k] = f]

\* *ctx = ...: the frame on top takes the registers of a context.
Replaced(st, n, regs) ==
  [k \in 1 .. StackWords |->
     IF n + 1 - k \in DOMAIN Fields /\ Fields[n + 1 - k] \in Registers
     THEN regs[Fields[n + 1 - k]] ELSE st[k]]

\* What the stub and iretq load from the top of a stack.
Restored(st, n) ==
  [r \in Registers |->
     IF r \in ToSet(Popped)
     THEN st[n + 1 - CHOOSE k \in DOMAIN Popped : Popped[k] = r]
     ELSE st[n - Len(Popped) - 2 - (Len(Automatic)
               - CHOOSE k \in DOMAIN Automatic : Automatic[k] = r)]]

-----------------------------------------------------------------------------
(* The processor and the stub.                                             *)

\* An interrupt, from the instruction that is interrupted to the call of
\* trap().  From user mode the stack is that of the TSS.
Interrupt(vec, coded) ==
  LET base == Aligned(IF user THEN rsp0 ELSE sp)
      words == FrameWords(vec, coded, cpu)
  IN  /\ idt
      /\ stack' = Push(stack, base, words)
      /\ sp' = base + Len(words)
      /\ user' = FALSE
      /\ enabled' = (enabled /\ vec = INT_USER_SYSCALL)
      /\ UNCHANGED <<cpu, rsp0, interrupt_vector, idt, pic>>

\* trap(): the handler of the vector in the frame.
Called == interrupt_vector[Field(stack, sp, "itnum")[2]]

\* trap() returns with the frame as the handler left it, the stub takes back
\* the registers and iretq returns to a task, or to the kernel, which was
\* interrupted in run_tasks().
Return(st) ==
  LET regs == Restored(st, sp)
  IN  /\ cpu' = regs
      /\ user' = (regs["cs"][2] # 0)
      /\ sp' = IF regs["cs"][2] # 0 THEN 0 ELSE 1 + Saved
      /\ enabled' = TRUE
      /\ stack' = st
      /\ UNCHANGED <<rsp0, interrupt_vector, idt, pic>>

-----------------------------------------------------------------------------
(* Setting up.                                                             *)

\* setup_interrupts(): the gates lead to the stubs, that of system calls
\* leaves interrupts on.
SetupInterrupts ==
  /\ idt' = TRUE
  /\ UNCHANGED <<cpu, user, enabled, stack, sp, rsp0, interrupt_vector, pic>>

\* setup_tss(): rsp0 is the stack pointer of this call, below its return
\* address and its own words.
SetupTss ==
  /\ rsp0' = 1 + S
  /\ UNCHANGED <<cpu, user, enabled, stack, sp, interrupt_vector, idt, pic>>

SetVector(handlers) ==
  /\ interrupt_vector' =
       [v \in DOMAIN interrupt_vector |->
          IF v \in DOMAIN handlers THEN handlers[v] ELSE interrupt_vector[v]]
  /\ UNCHANGED <<cpu, user, enabled, stack, sp, rsp0, idt, pic>>

\* The call of run_tasks(), up to its interrupt.
CallRunTasks ==
  /\ stack' = Push(stack, 0, <<<<"return", 0>>>> \o [n \in 1 .. Saved |-> <<"saved", n>>])
  /\ sp' = 1 + Saved
  /\ UNCHANGED <<cpu, user, enabled, rsp0, interrupt_vector, idt, pic>>

\* What it needs for its return.
ReturnIntact ==
  /\ stack[1] = <<"return", 0>>
  /\ \A n \in 1 .. Saved : stack[1 + n] = <<"saved", n>>

-----------------------------------------------------------------------------
(* The controllers.  A write to the command port begins an initialisation, *)
(* of which the next three writes to the data port are part: the offset of *)
(* the vectors, the wiring, the mode.  Any other write to the data port is *)
(* the mask.                                                               *)

PIC_MASTER_REMAP_IRQ == 32
PIC_SLAVE_REMAP_IRQ  == 40
PIC_MASTER_IDENTITY  == 4
PIC_SLAVE_IDENTITY   == 2
PIC_DATA_8086        == 1
PIC_DATA_DISABLE     == 255

\* out8() of PIC_COMMAND_INIT to the command port: the mask is cleared.
Command(chip) == [offset |-> chip.offset, mask |-> 0, icw |-> 1]

\* out8() to the data port.
Data(chip, val) ==
  CASE chip.icw = 0 -> [chip EXCEPT !.mask = val]
    [] chip.icw = 1 -> [offset |-> val, mask |-> chip.mask, icw |-> 2]
    [] chip.icw = 2 -> [chip EXCEPT !.icw = 3]
    [] chip.icw = 3 -> [chip EXCEPT !.icw = 0]

\* What remap_pic() writes to one controller.  It writes to the two in turns,
\* and each sees its own.
Remapped(chip, offset, identity) ==
  Data(Data(Data(Data(Command(chip), offset), identity), PIC_DATA_8086), chip.mask)

\* remap_pic()
RemapPic ==
  /\ pic' = [master |-> Remapped(pic.master, PIC_MASTER_REMAP_IRQ, PIC_MASTER_IDENTITY),
             slave |-> Remapped(pic.slave, PIC_SLAVE_REMAP_IRQ, PIC_SLAVE_IDENTITY)]
  /\ UNCHANGED <<cpu, user, enabled, stack, sp, rsp0, interrupt_vector, idt>>

\* disable_pic()
DisablePic ==
  /\ pic' = [c \in DOMAIN pic |-> Data(pic[c], PIC_DATA_DISABLE)]
  /\ UNCHANGED <<cpu, user, enabled, stack, sp, rsp0, interrupt_vector, idt>>

Sti ==
  /\ enabled' = TRUE
  /\ UNCHANGED <<cpu, user, stack, sp, rsp0, interrupt_vector, idt, pic>>

\* The state in which the boot loader leaves the machine: the controllers as
\* the firmware has set them, with any mask.
InterruptsInit ==
  /\ cpu = Context(0)
  /\ user = FALSE /\ enabled = FALSE /\ idt = FALSE
  /\ stack = [n \in 1 .. StackWords |-> <<"old", 0>>]
  /\ sp = 0 /\ rsp0 = 0
  /\ interrupt_vector = [v \in 0 .. 255 |-> "NULL"]
  /\ pic \in {[master |-> [offset |-> 8, mask |-> m, icw |-> 0],
               slave |-> [offset |-> 112, mask |-> m, icw |-> 0]] : m \in {0, 184}}
=============================================================================
