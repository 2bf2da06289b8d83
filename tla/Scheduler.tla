------------------------------ MODULE Scheduler ------------------------------
(***************************************************************************)
(* The cooperative scheduler of the Rackdoll kernel (kernel/task.c): an    *)
(* array of task slots, of which the first fifo_size are alive, an index   *)
(* on the running one, and the interrupt frame that a handler rewrites to  *)
(* make the processor return into another task.                            *)
(*                                                                         *)
(* A handler is one action.  Nothing interrupts it: the legacy PIC is      *)
(* masked, the APIC timer is never started, and only the running task or   *)
(* the kernel raises an interrupt.                                         *)
(*                                                                         *)
(* A register context is what the frame holds: rax, which carries the      *)
(* result of a fork, and every other register as one value of Regs.  The   *)
(* field id is a history variable: it names the task the registers belong  *)
(* to and travels with them in every structure copy of the code.           *)
(***************************************************************************)
EXTENDS Integers, FiniteSets

CONSTANTS
  FifoLen,     \* TASK_FIFO_LEN
  TaskId,      \* names of tasks; a name is free again once its task exited
  Regs,        \* contents of the registers of a task, rax excepted
  KernelRegs,  \* the registers of run_tasks() when it raises its interrupt
  Zero,        \* the registers of a context in zeroed memory
  NoTask       \* the id of a context that belongs to no task

ASSUME FifoLenAssumption == FifoLen \in Nat \ {0}
ASSUME NoTaskAssumption  == NoTask \notin TaskId

VARIABLES
  phase,      \* where main_multiboot2() is: load_tasks() ("boot"), inside
              \* run_tasks() ("run"), after it ("kernel"), in die() ("dead"),
              \* or stopped by a fault of a task ("halted")
  fifo,       \* the slots; a slot that is not alive keeps its old contents
  fifo_size,
  fifo_run,
  save,       \* the context of the kernel before running tasks
  ctx,        \* the registers: the interrupt frame, seen inside a handler
  cr3         \* the page table in use

vars == <<phase, fifo, fifo_size, fifo_run, save, ctx, cr3>>

Slot == 0 .. FifoLen - 1

\* Physical address of the PML4 of entry.S.  No structure task ever gets it.
KernelPgt == 1

Rax == {-1, 0, 1}
Context == [id : TaskId \cup {NoTask}, regs : Regs \cup {KernelRegs, Zero}, rax : Rax]
TaskContext == [id : TaskId, regs : Regs, rax : Rax]

ZeroContext   == [id |-> NoTask, regs |-> Zero, rax |-> 0]
KernelContext == [id |-> NoTask, regs |-> KernelRegs, rax |-> 0]
ZeroTask      == [pgt |-> 0, context |-> ZeroContext]

Alive    == 0 .. fifo_size - 1
LiveIds  == {fifo[i].context.id : i \in Alive}
FreshIds == TaskId \ LiveIds

-----------------------------------------------------------------------------
Init ==
  /\ phase = "boot"
  /\ fifo = [i \in Slot |-> ZeroTask]
  /\ fifo_size = 0
  /\ fifo_run = 0
  /\ save = ZeroContext
  /\ ctx = KernelContext
  /\ cr3 = KernelPgt

\* One multiboot module that holds a task: load_tasks() hands it to
\* parse_task().  The structure is zeroed first and load_task() never gives
\* it a page table, so its pgt stays 0.  A full fifo drops the module.
ParseTask(t, v) ==
  /\ phase = "boot"
  /\ t \in FreshIds
  /\ fifo_size # FifoLen
  /\ fifo' = [fifo EXCEPT ![fifo_size] =
                [pgt |-> 0, context |-> [id |-> t, regs |-> v, rax |-> 0]]]
  /\ fifo_size' = fifo_size + 1
  /\ UNCHANGED <<phase, fifo_run, save, ctx, cr3>>

\* set_task(fifo + i); *ctx = fifo[i].context, on the slots of fifo f.
Dispatch(f, i) ==
  /\ cr3' = f[i].pgt
  /\ ctx' = f[i].context

\* Seeded fault: the wrap comes one slot too early.
FaultyAdvance(run, size) == IF run + 1 >= size - 1 THEN 0 ELSE run + 1

\* fifo_run++ and back to the first slot past the last one.
Advance(run, size) == IF run + 1 >= size THEN 0 ELSE run + 1

\* run_tasks() returns at once when there is nothing to run.
RunNothing ==
  /\ phase = "boot"
  /\ fifo_size = 0
  /\ phase' = "kernel"
  /\ UNCHANGED <<fifo, fifo_size, fifo_run, save, ctx, cr3>>

\* run_tasks(), and the handler of the interrupt that enter_task() raises:
\* it keeps the frame of the kernel and returns into the chosen task.
RunTasks ==
  /\ phase = "boot"
  /\ fifo_size > 0
  /\ phase' = "run"
  /\ fifo_run' = Advance(fifo_run, fifo_size)
  /\ save' = ctx
  /\ Dispatch(fifo, fifo_run')
  /\ UNCHANGED <<fifo, fifo_size>>

-----------------------------------------------------------------------------
\* What the running task does between two system calls.
Compute(v, r) ==
  /\ phase = "run"
  /\ ctx' = [ctx EXCEPT !.regs = v, !.rax = r]
  /\ UNCHANGED <<phase, fifo, fifo_size, fifo_run, save, cr3>>

\* Seeded fault: the frame of the task that yields is not kept.
FaultyYield ==
  /\ phase = "run"
  /\ fifo_run' = Advance(fifo_run, fifo_size)
  /\ Dispatch(fifo, fifo_run')
  /\ UNCHANGED <<phase, fifo, fifo_size, save>>

\* SYSCALL_YIELD: next_task().
Yield ==
  /\ phase = "run"
  /\ fifo' = [fifo EXCEPT ![fifo_run].context = ctx]
  /\ fifo_run' = Advance(fifo_run, fifo_size)
  /\ Dispatch(fifo', fifo_run')
  /\ UNCHANGED <<phase, fifo_size, save>>

\* Seeded fault: fifo_run stays past the last slot when that slot exits.
FaultyVacateReset ==
  /\ fifo_size' = fifo_size - 1
  /\ UNCHANGED fifo_run
  /\ fifo' = [fifo EXCEPT ![fifo_run] = fifo[fifo_size - 1]]

\* Seeded fault: only the exit of the last slot shrinks the fifo.
FaultyVacateSize ==
  IF fifo_run = fifo_size - 1
  THEN /\ fifo_size' = fifo_size - 1
       /\ fifo_run' = 0
       /\ UNCHANGED fifo
  ELSE /\ fifo' = [fifo EXCEPT ![fifo_run] = fifo[fifo_size - 1]]
       /\ UNCHANGED <<fifo_run, fifo_size>>

\* SYSCALL_EXIT: exit_task().  The last slot fills the hole that the task
\* leaves, unless it is the last slot itself.
Vacate ==
  /\ fifo_size' = fifo_size - 1
  /\ IF fifo_run = fifo_size - 1
     THEN /\ fifo_run' = 0
          /\ UNCHANGED fifo
     ELSE /\ fifo' = [fifo EXCEPT ![fifo_run] = fifo[fifo_size - 1]]
          /\ UNCHANGED fifo_run

\* Others remain: the one now in the slot of the current task runs.
ExitToTask ==
  /\ phase = "run"
  /\ Vacate
  /\ fifo_size' # 0
  /\ Dispatch(fifo', fifo_run')
  /\ UNCHANGED <<phase, save>>

\* Seeded fault: the last task to exit hands over to its own slot.
FaultyExitToKernel ==
  /\ phase = "run"
  /\ Vacate
  /\ fifo_size' = 0
  /\ Dispatch(fifo', fifo_run')
  /\ phase' = "kernel"
  /\ UNCHANGED save

\* None remains: the frame of the kernel is back and run_tasks() returns.
\* cr3 keeps the page table of the task.
ExitToKernel ==
  /\ phase = "run"
  /\ Vacate
  /\ fifo_size' = 0
  /\ ctx' = save
  /\ phase' = "kernel"
  /\ UNCHANGED <<save, cr3>>

\* Seeded fault: the child gets the page table of the kernel.
FaultyFork(t) ==
  /\ phase = "run"
  /\ t \in FreshIds
  /\ fifo_size # FifoLen
  /\ fifo' = [fifo EXCEPT ![fifo_size] =
                [pgt |-> KernelPgt, context |-> [ctx EXCEPT !.id = t, !.rax = 1]]]
  /\ fifo_size' = fifo_size + 1
  /\ ctx' = [ctx EXCEPT !.rax = 0]
  /\ UNCHANGED <<phase, fifo_run, save, cr3>>

\* SYSCALL_FORK: fork_task().  *task = *current() copies the whole slot of
\* the parent before the context is replaced by the frame.
Fork(t) ==
  /\ phase = "run"
  /\ t \in FreshIds
  /\ fifo_size # FifoLen
  /\ fifo' = [fifo EXCEPT ![fifo_size] =
                [fifo[fifo_run] EXCEPT !.context = [ctx EXCEPT !.id = t, !.rax = 1]]]
  /\ fifo_size' = fifo_size + 1
  /\ ctx' = [ctx EXCEPT !.rax = 0]
  /\ UNCHANGED <<phase, fifo_run, save, cr3>>

ForkFull ==
  /\ phase = "run"
  /\ fifo_size = FifoLen
  /\ ctx' = [ctx EXCEPT !.rax = -1]
  /\ UNCHANGED <<phase, fifo, fifo_size, fifo_run, save, cr3>>

\* pgfault() and default_interrupt() print and halt with interrupts masked.
Fault ==
  /\ phase = "run"
  /\ phase' = "halted"
  /\ UNCHANGED <<fifo, fifo_size, fifo_run, save, ctx, cr3>>

\* After run_tasks(), main_multiboot2() says goodbye and dies.
Die ==
  /\ phase = "kernel"
  /\ phase' = "dead"
  /\ UNCHANGED <<fifo, fifo_size, fifo_run, save, ctx, cr3>>

\* The machine is off: hlt, and the loop that follows it in die().
Stopped ==
  /\ phase \in {"halted", "dead"}
  /\ UNCHANGED vars

Exit == ExitToTask \/ ExitToKernel

Next ==
  \/ \E t \in TaskId, v \in Regs : ParseTask(t, v)
  \/ RunNothing
  \/ RunTasks
  \/ \E v \in Regs, r \in Rax : Compute(v, r)
  \/ Yield
  \/ ExitToTask
  \/ ExitToKernel
  \/ \E t \in TaskId : Fork(t)
  \/ ForkFull
  \/ Fault
  \/ Die
  \/ Stopped

Spec == Init /\ [][Next]_vars

\* A task never keeps the processor for ever: between two moments where it
\* yields or exits it computes a finite time (every task of task/ does).
\* The kernel's own code runs to its end.
Fairness ==
  /\ WF_vars(Yield \/ Exit)
  /\ WF_vars(RunTasks \/ RunNothing)
  /\ WF_vars(Die)

FairSpec == Spec /\ Fairness

-----------------------------------------------------------------------------
TypeOK ==
  /\ phase \in {"boot", "run", "kernel", "halted", "dead"}
  /\ fifo \in [Slot -> [pgt : {0}, context : Context]]
  /\ fifo_size \in 0 .. FifoLen
  /\ fifo_run \in Slot
  /\ save \in Context
  /\ ctx \in Context
  /\ cr3 \in {0, KernelPgt}

\* The slot that current() returns, and that the system calls act on, is
\* alive and belongs to the task whose registers are in the frame.
CurrentIsCaller ==
  phase = "run" => /\ fifo_run < fifo_size
                   /\ fifo[fifo_run].context.id = ctx.id
                   /\ fifo[fifo_run].pgt = cr3

\* No switch loses a context or runs one twice: every live slot holds a
\* task of its own, although exit_task() and fork_task() copy whole slots.
SlotsDistinct ==
  \A i, j \in Alive : fifo[i].context.id = fifo[j].context.id => i = j

\* What waits in a live slot is the context of a task, never zeroed memory,
\* the frame of the kernel or the leftover of a task that exited.
SlotsHoldTasks ==
  \A i \in Alive : fifo[i].context \in TaskContext

\* run_tasks() returns to where it was called, and only when no task is
\* left: not with the registers of a task, not with tasks still waiting.
KernelResumes ==
  phase \in {"kernel", "dead"} => fifo_size = 0 /\ ctx = KernelContext

\* The slot of task t.
SlotOf(t) == CHOOSE i \in Alive : fifo[i].context.id = t

\* A context without its history variable.
Registers(c) == [regs |-> c.regs, rax |-> c.rax]

InTask == phase \in {"run", "halted"}

\* The registers of a live task are in the frame while it runs and in its
\* slot while it waits; the slot of the running task is stale.
RegistersOf(t) ==
  IF InTask /\ t = ctx.id THEN Registers(ctx) ELSE Registers(fifo[SlotOf(t)].context)

AbsRegs    == [t \in LiveIds |-> RegistersOf(t)]
AbsRunning == IF InTask THEN ctx.id ELSE NoTask

TM == INSTANCE TaskMachine WITH
        Regs <- Regs, Capacity <- FifoLen, regs <- AbsRegs, running <- AbsRunning

\* The array, its indices and the frame implement private register contexts:
\* every step of the code is a step of TaskMachine or changes nothing there.
Refinement == TM!Spec

\* While no task forks, a live task gets the processor again, whoever else
\* yields or exits, unless a fault stops the machine.
NoStarvation ==
  (<>[][\A t \in TaskId : ~Fork(t)]_vars) =>
     \A t \in TaskId : t \in LiveIds ~> (ctx.id = t \/ phase = "halted")
=============================================================================
