----------------------------- MODULE RackdollBoot -----------------------------
(***************************************************************************)
(* Rackdoll from main_multiboot2() (kernel/main.c) to its end: interrupts  *)
(* are set up, the tasks are loaded and entered by an interrupt of the     *)
(* kernel's own, run until each has exited, and the kernel goes on where   *)
(* it was.  Which task comes next is in Scheduler; here a system call      *)
(* switches to any live one.  The page tables are in RackdollPaging.       *)
(***************************************************************************)
EXTENDS RackdollInterrupts, RackdollLoader

CONSTANTS
  Exceptions,   \* bound: the exceptions that a task may raise
  TaskInts,     \* bound: the vectors for which a task executes an int instruction
  Written,      \* bound: the registers that a task writes
  Words         \* bound: and what it writes in them

\* Those of the features that the kernel enables: not 21, of control-flow
\* protection, and not 29 and 30, of encrypted virtual machines.
ASSUME ExceptionAssumption == Exceptions \subseteq (0 .. 31) \ {21, 29, 30}

\* Every gate is open to user mode (INTERRUPT_GATE_TYPE), so that a task may
\* execute int with any vector.  Two kinds are left out, and none of the tasks
\* executes them: INT_USER_ENTER_TASKS, whose handler would take the task for
\* the kernel and overwrite save, and the vectors of Errvec, for which neither
\* the processor nor the stub then pushes a code.
ASSUME TaskIntAssumption == TaskInts \subseteq (0 .. 255) \ (Errvec \cup {INT_USER_ENTER_TASKS})

\* User mode cannot change the selectors or the interrupt flag.
ASSUME WrittenAssumption == Written \subseteq Registers \ {"cs", "ss", "rflags"}

VARIABLES
  at,        \* the next call of main, or who runs
  current,   \* the running task, an index of fifo
  saved,     \* the contexts of the live tasks in fifo, stale for the one that runs
  save,      \* that of the kernel before it ran the tasks
  own        \* history: what each live task has left in its registers, or has
             \* been answered

vars == <<intvars, loadervars, at, current, saved, save, own>>

Init ==
  /\ InterruptsInit
  /\ LoaderInit
  /\ at = "setup_interrupts"
  /\ current = 0
  /\ saved = <<>> /\ own = <<>>
  /\ save = Context(0)

Go(from, to) == at = from /\ at' = to

NoTask == UNCHANGED <<loadervars, current, saved, save, own>>

-----------------------------------------------------------------------------
(* main_multiboot2().  The prints and the mapping that it makes are left   *)
(* out.                                                                    *)

\* Seeded fault: interrupts are enabled before the controllers are set up.
FaultySetUp ==
  \/ Go("setup_interrupts", "setup_tss") /\ SetupInterrupts
  \/ Go("setup_tss", "sti") /\ SetupTss
  \/ Go("sti", "pgfault") /\ Sti
  \/ Go("pgfault", "remap_pic") /\ SetVector([v \in {INT_PF} |-> "pgfault"])
  \/ Go("remap_pic", "disable_pic") /\ RemapPic
  \/ Go("disable_pic", "load_tasks") /\ DisablePic

SetUp ==
  \/ Go("setup_interrupts", "setup_tss") /\ SetupInterrupts
  \/ Go("setup_tss", "pgfault") /\ SetupTss
  \/ Go("pgfault", "remap_pic") /\ SetVector([v \in {INT_PF} |-> "pgfault"])
  \/ Go("remap_pic", "disable_pic") /\ RemapPic
  \/ Go("disable_pic", "sti") /\ DisablePic
  \/ Go("sti", "load_tasks") /\ Sti

\* The loop of load_tasks().
LoadTask ==
  /\ Go("load_tasks", "load_tasks")
  /\ ParseTag
  /\ UNCHANGED <<intvars, current, saved, save, own>>

TaskHandlers ==
  [v \in {INT_USER_SYSCALL, INT_USER_ENTER_TASKS} |->
     IF v = INT_USER_SYSCALL THEN "syscall_handler" ELSE "enter_handler"]

\* Its end: the handlers of the tasks are set.
LoadEnds ==
  /\ Go("load_tasks", "run_tasks")
  /\ WalkEnds
  /\ SetVector(TaskHandlers)
  /\ saved' = [c \in DOMAIN fifo |-> Context(c)]
  /\ own' = saved'
  /\ UNCHANGED <<loadervars, current, save>>

\* run_tasks() without a task.
RunNothing ==
  /\ Go("run_tasks", "die")
  /\ fifo = <<>>
  /\ UNCHANGED intvars
  /\ NoTask

RunTasks ==
  /\ Go("run_tasks", "enter_task")
  /\ fifo # <<>>
  /\ CallRunTasks
  /\ NoTask

EnterTask ==
  /\ Go("enter_task", "trap")
  /\ Interrupt(INT_USER_ENTER_TASKS, FALSE)
  /\ NoTask

\* run_tasks() has returned: "Goodbye!"
Goodbye ==
  /\ Go("kernel", "die")
  /\ UNCHANGED intvars
  /\ NoTask

-----------------------------------------------------------------------------
(* The tasks and the handlers.                                             *)

\* The registers in the frame on top of the stack.
Frame == [r \in Registers |-> Field(stack, sp, r)]

\* A handler leaves a context in the frame and the stub returns to it.
SwitchTo(regs) == Return(Replaced(stack, sp, regs))

\* What a system call leaves in rax.
Answered(regs, n) == [regs EXCEPT !["rax"] = <<"answer", n>>]

\* A function with one more value, or another one.
With(f, c, x) == [d \in DOMAIN f \cup {c} |-> IF d = c THEN x ELSE f[d]]

\* A task goes on by itself.
TaskRuns ==
  /\ Go("task", "task")
  /\ \E r \in Written, w \in Words : cpu' = [cpu EXCEPT ![r] = w]
  /\ own' = [own EXCEPT ![current] = cpu']
  /\ UNCHANGED <<user, enabled, stack, sp, rsp0, interrupt_vector, idt, pic>>
  /\ UNCHANGED <<loadervars, current, saved, save>>

TaskTraps ==
  /\ Go("task", "trap")
  /\ \/ \E vec \in {INT_USER_SYSCALL} \cup TaskInts : Interrupt(vec, FALSE)
     \/ \E vec \in Exceptions : Interrupt(vec, PushesCode(vec))
  /\ NoTask

\* enter_handler(): fifo_run is 1, or 0 when there is one task.
EnterHandler ==
  /\ Go("trap", "task")
  /\ Called = "enter_handler"
  /\ save' = Frame
  /\ current' = IF Len(fifo) = 1 THEN 1 ELSE 2
  /\ SwitchTo(saved[current'])
  /\ UNCHANGED <<loadervars, saved, own>>

\* A system call that leaves the context alone.
Answer ==
  /\ Go("trap", "task")
  /\ Called = "syscall_handler"
  /\ Return(stack)
  /\ NoTask

\* next_task()
NextTask ==
  /\ Go("trap", "task")
  /\ Called = "syscall_handler"
  /\ saved' = [saved EXCEPT ![current] = Frame]
  /\ current' \in DOMAIN saved
  /\ SwitchTo(saved'[current'])
  /\ UNCHANGED <<loadervars, save, own>>

\* Seeded fault: the child begins with the context that its parent last had in
\* fifo, not with the one of the frame.
FaultyForkTask ==
  /\ Go("trap", "task")
  /\ Called = "syscall_handler"
  /\ \E child \in (1 .. TASK_FIFO_LEN) \ DOMAIN saved :
       /\ saved' = With(saved, child, Answered(saved[current], 1))
       /\ own' = With(With(own, child, Answered(own[current], 1)),
                      current, Answered(own[current], 0))
  /\ SwitchTo(Answered(Frame, 0))
  /\ UNCHANGED <<loadervars, current, save>>

\* fork_task(): the child is a copy that waits in fifo.  A task is named by a
\* number that no live task has.
ForkTask ==
  /\ Go("trap", "task")
  /\ Called = "syscall_handler"
  /\ \E child \in (1 .. TASK_FIFO_LEN) \ DOMAIN saved :
       /\ saved' = With(saved, child, Answered(Frame, 1))
       /\ own' = With(With(own, child, Answered(own[current], 1)),
                      current, Answered(own[current], 0))
  /\ SwitchTo(Answered(Frame, 0))
  /\ UNCHANGED <<loadervars, current, save>>

\* fork_task() with fifo full.
ForkFails ==
  /\ Go("trap", "task")
  /\ Called = "syscall_handler"
  /\ DOMAIN saved = 1 .. TASK_FIFO_LEN
  /\ own' = With(own, current, Answered(own[current], -1))
  /\ SwitchTo(Answered(Frame, -1))
  /\ UNCHANGED <<loadervars, current, saved, save>>

\* exit_task() while others live.
ExitToTask ==
  /\ Go("trap", "task")
  /\ Called = "syscall_handler"
  /\ saved' = [c \in DOMAIN saved \ {current} |-> saved[c]]
  /\ own' = [c \in DOMAIN saved' |-> own[c]]
  /\ current' \in DOMAIN saved'
  /\ SwitchTo(saved[current'])
  /\ UNCHANGED <<loadervars, save>>

\* exit_task() of the last one.
ExitToKernel ==
  /\ Go("trap", "kernel")
  /\ Called = "syscall_handler"
  /\ DOMAIN saved = {current}
  /\ saved' = <<>> /\ own' = <<>>
  /\ SwitchTo(save)
  /\ UNCHANGED <<loadervars, current, save>>

\* default_interrupt() and pgfault() report and halt, with interrupts off.
Halt ==
  /\ Go("trap", "hlt")
  /\ Called \in {"NULL", "pgfault"}
  /\ UNCHANGED intvars
  /\ NoTask

Stopped == at \in {"hlt", "die"} /\ UNCHANGED vars

Main == (SetUp /\ NoTask) \/ LoadTask \/ LoadEnds \/ RunNothing \/ RunTasks \/ EnterTask \/ Goodbye

Handler ==
  \/ EnterHandler
  \/ Answer \/ NextTask \/ ForkTask \/ ForkFails \/ ExitToTask \/ ExitToKernel
  \/ Halt

Next == Main \/ TaskRuns \/ TaskTraps \/ Handler \/ Stopped

Spec == Init /\ [][Next]_vars

-----------------------------------------------------------------------------
(* Properties.                                                             *)

\* Types.
TypeOK ==
  /\ sp \in 0 .. StackWords /\ rsp0 \in 0 .. StackWords
  /\ {user, enabled, idt} \subseteq BOOLEAN
  /\ at = "task" => current \in DOMAIN saved
  /\ DOMAIN own = DOMAIN saved
  /\ Len(fifo) <= TASK_FIFO_LEN

\* A handler finds in its struct interrupt_context the registers of what was
\* interrupted, the vector, and the code or the zero for it: the processor,
\* the stub and the structure agree on every word, for each exception
\* (trap.pl:10, idt.h).
FramesAreContexts ==
  at = "trap" =>
    /\ Frame = cpu
    /\ Field(stack, sp, "itnum")[1] = "vector"
    /\ Field(stack, sp, "errcode") = <<"code", Field(stack, sp, "itnum")[2]>>

\* A task runs with the registers that it has left when it last ran, however
\* many tasks have been copied, run and exited in between, except for what its
\* fork has answered, each of the two its own (task.c:254); and the kernel goes
\* on in run_tasks() with its own registers and with a stack on which the frames of the tasks, pushed
\* below the stack pointer of a call that has long returned, have left the
\* return address (task.c:83).
ContextsRestored ==
  /\ at = "task" => cpu = own[current] /\ user
  /\ at \in {"kernel", "enter_task"} => cpu = Context(0) /\ ~user /\ ReturnIntact

\* Whenever the processor takes interrupts of devices the controllers are
\* silenced, and their vectors, that of a spurious interrupt among them, are
\* not those of exceptions (main.c:110).
IrqsAreNoExceptions ==
  enabled => \A c \in DOMAIN pic :
               pic[c].icw = 0 /\ pic[c].offset >= 32 /\ pic[c].mask = PIC_DATA_DISABLE

\* Every module with a header becomes a task, in order, as long as there is
\* room, and the physical addresses of a task are those of its module.  A
\* module without a header becomes none, except one whose size is no multiple
\* of 8, for which the search ends past its end (task.c:115).
TasksAreModules ==
  at = "run_tasks" =>
    /\ Len(fifo) = IF Cardinality(Modules) < TASK_FIFO_LEN
                   THEN Cardinality(Modules) ELSE TASK_FIFO_LEN
    /\ \A n \in Modules : Rank(n) <= TASK_FIFO_LEN =>
         LET m == tags[n].module
             t == fifo[Rank(n)]
         IN  /\ t.module = m
             /\ m.header # NoHeader =>
                  /\ t.load_paddr = m.start
                  /\ t.load_end_paddr = m.start + m.size
                  /\ t.load_vaddr + m.header = m.header_addr
             /\ m.header = NoHeader => m.size % 8 # 0
=============================================================================
