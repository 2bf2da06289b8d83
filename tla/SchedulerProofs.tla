--------------------------- MODULE SchedulerProofs ---------------------------
(***************************************************************************)
(* Theorems about Scheduler, for any number of slots and any set of tasks. *)
(***************************************************************************)
EXTENDS Scheduler, FiniteSetTheorems, TLAPS

\* What each phase knows, strong enough to be inductive: before the first
\* task runs the frame is the kernel's; while tasks run the kernel's frame is
\* in save and the slot of the frame is alive; afterwards nothing is left.
PhaseInv ==
  /\ phase = "boot" => ctx = KernelContext /\ fifo_run = 0
  /\ phase \in {"run", "halted"} => /\ fifo_run < fifo_size
                                    /\ fifo[fifo_run].context.id = ctx.id
                                    /\ fifo[fifo_run].pgt = cr3
                                    /\ ctx \in TaskContext
                                    /\ save = KernelContext
  /\ phase \in {"kernel", "dead"} => fifo_size = 0 /\ ctx = KernelContext

IndInv == TypeOK /\ PhaseInv /\ SlotsDistinct /\ SlotsHoldTasks

-----------------------------------------------------------------------------
LEMMA InitIndInv == Init => IndInv
  BY FifoLenAssumption, SMT
     DEF Init, IndInv, TypeOK, PhaseInv, SlotsDistinct, SlotsHoldTasks, Alive, Slot,
         ZeroTask, ZeroContext, KernelContext, Context, Rax, KernelPgt

\* The slot that fifo_run moves to is alive.
LEMMA AdvanceAlive ==
  ASSUME NEW size \in Nat \ {0}, NEW run \in Nat
  PROVE  Advance(run, size) \in 0 .. size - 1
  BY DEF Advance

\* Dispatching a live slot makes its task the owner of the frame.
LEMMA DispatchAlive ==
  ASSUME NEW f \in [Slot -> [pgt : {0}, context : Context]],
         NEW i \in Slot, f[i].context \in TaskContext, Dispatch(f, i)
  PROVE  /\ ctx' = f[i].context /\ ctx' \in TaskContext /\ ctx' \in Context
         /\ cr3' = f[i].pgt /\ cr3' = 0
  BY DEF Dispatch, TaskContext, Context

LEMMA ParseTaskIndInv ==
  ASSUME IndInv, NEW t \in TaskId, NEW v \in Regs, ParseTask(t, v)
  PROVE  IndInv'
<1> USE FifoLenAssumption DEF IndInv, ParseTask
<1> DEFINE c == [id |-> t, regs |-> v, rax |-> 0]
<1>1. c \in TaskContext /\ c \in Context
  BY DEF TaskContext, Context, Rax
<1>2. /\ fifo_size \in Slot
      /\ fifo' = [fifo EXCEPT ![fifo_size] = [pgt |-> 0, context |-> c]]
  BY FifoLenAssumption DEF TypeOK, Slot
<1> HIDE DEF c
<1>3. TypeOK'
  BY <1>1, <1>2 DEF TypeOK, Slot
<1>4. PhaseInv'
  BY DEF PhaseInv, KernelContext
<1>5. \A i \in 0 .. fifo_size - 1 : fifo'[i] = fifo[i] /\ i \in Slot
  BY <1>2 DEF TypeOK, Slot
<1>6. fifo'[fifo_size].context = c
  BY <1>2 DEF TypeOK
<1>7. SlotsHoldTasks'
  BY <1>1, <1>5, <1>6 DEF SlotsHoldTasks, Alive, TypeOK, Slot
<1>8. SlotsDistinct'
  <2>1. \A i \in Alive : fifo[i].context.id # t
    BY DEF FreshIds, LiveIds
  <2>2. c.id = t
    BY DEF c
  <2> QED
    BY <1>5, <1>6, <2>1, <2>2 DEF SlotsDistinct, Alive, TypeOK
<1> QED
  BY <1>3, <1>4, <1>7, <1>8

LEMMA RunIndInv ==
  ASSUME IndInv, RunTasks \/ RunNothing
  PROVE  IndInv'
<1> USE FifoLenAssumption DEF IndInv
<1>1. CASE RunNothing
  BY <1>1 DEF RunNothing, TypeOK, PhaseInv, SlotsDistinct, SlotsHoldTasks, Alive
<1>2. CASE RunTasks
  <2> USE <1>2 DEF RunTasks
  <2>1. fifo_run' \in Alive /\ fifo_run' \in Slot
    BY AdvanceAlive DEF TypeOK, Slot, Alive
  <2>2. /\ ctx' = fifo[fifo_run'].context /\ ctx' \in TaskContext /\ ctx' \in Context
        /\ cr3' = fifo[fifo_run'].pgt /\ cr3' = 0
    BY <2>1, DispatchAlive DEF TypeOK, SlotsHoldTasks
  <2>3. TypeOK'
    BY <2>1, <2>2 DEF TypeOK
  <2>4. PhaseInv'
    BY <2>1, <2>2 DEF PhaseInv, Alive, TypeOK
  <2> QED
    BY <2>3, <2>4 DEF SlotsDistinct, SlotsHoldTasks, Alive
<1> QED
  BY <1>1, <1>2

LEMMA ComputeIndInv ==
  ASSUME IndInv, NEW v \in Regs, NEW r \in Rax, Compute(v, r)
  PROVE  IndInv'
<1> USE DEF IndInv, Compute
<1>1. ctx \in TaskContext
  BY DEF PhaseInv
<1>2. ctx' \in TaskContext /\ ctx' \in Context /\ ctx'.id = ctx.id
  BY <1>1 DEF TaskContext, Context
<1>3. TypeOK' /\ PhaseInv'
  BY <1>2 DEF TypeOK, PhaseInv
<1> QED
  BY <1>3 DEF SlotsDistinct, SlotsHoldTasks, Alive

LEMMA YieldIndInv ==
  ASSUME IndInv, Yield
  PROVE  IndInv'
<1> USE FifoLenAssumption DEF IndInv, Yield
<1>1. /\ fifo_run \in Alive /\ fifo_run' \in Alive /\ fifo_run' \in Slot
      /\ ctx \in TaskContext /\ ctx \in Context
      /\ fifo[fifo_run].context.id = ctx.id
  BY AdvanceAlive DEF TypeOK, Slot, Alive, PhaseInv
<1>2. /\ fifo' \in [Slot -> [pgt : {0}, context : Context]]
      /\ fifo'[fifo_run].context = ctx
      /\ \A i \in Slot : i # fifo_run => fifo'[i] = fifo[i]
  BY <1>1 DEF TypeOK
<1>3. Alive \subseteq Slot
  BY DEF Alive, Slot, TypeOK
<1>4. SlotsHoldTasks'
  BY <1>1, <1>2, <1>3 DEF SlotsHoldTasks, Alive
<1>5. SlotsDistinct'
  <2>1. \A i \in Alive : fifo'[i].context.id = fifo[i].context.id
    BY <1>1, <1>2, <1>3
  <2> QED
    BY <2>1 DEF SlotsDistinct, Alive
<1>6. /\ ctx' = fifo'[fifo_run'].context /\ ctx' \in TaskContext /\ ctx' \in Context
      /\ cr3' = fifo'[fifo_run'].pgt /\ cr3' = 0
  <2>1. fifo'[fifo_run'].context \in TaskContext
    BY <1>1, <1>4 DEF SlotsHoldTasks, Alive
  <2>2. Dispatch(fifo', fifo_run')
    OBVIOUS
  <2> QED
    BY <1>1, <1>2, <2>1, <2>2, DispatchAlive
<1>7. TypeOK'
  BY <1>1, <1>2, <1>6 DEF TypeOK
<1>8. PhaseInv'
  BY <1>1, <1>6 DEF PhaseInv, Alive, TypeOK
<1> QED
  BY <1>4, <1>5, <1>7, <1>8

\* exit_task() drops the slot of the running task and no other: what is in
\* the slots that remain was in live slots, in distinct ones, and the slot of
\* the running task is not among them.
LEMMA VacateSlots ==
  ASSUME IndInv, phase = "run", Vacate
  PROVE  /\ fifo' \in [Slot -> [pgt : {0}, context : Context]]
         /\ fifo_size' = fifo_size - 1 /\ fifo_size' \in 0 .. FifoLen - 1
         /\ fifo_run' \in Slot
         /\ fifo_size' # 0 => fifo_run' \in Alive'
         /\ \A i \in Alive' : \E j \in Alive :
              /\ fifo'[i] = fifo[j] /\ j # fifo_run
              /\ j = IF i = fifo_run THEN fifo_size - 1 ELSE i
         /\ Alive' \subseteq Slot
<1> USE FifoLenAssumption DEF IndInv, Vacate
<1>1. /\ fifo_size \in 1 .. FifoLen /\ fifo_run \in 0 .. fifo_size - 1
      /\ fifo \in [Slot -> [pgt : {0}, context : Context]]
  BY DEF TypeOK, PhaseInv, Slot
<1>2. CASE fifo_run = fifo_size - 1
  BY <1>1, <1>2 DEF Alive, Slot
<1>3. CASE fifo_run # fifo_size - 1
  <2>1. /\ fifo' = [fifo EXCEPT ![fifo_run] = fifo[fifo_size - 1]]
        /\ fifo_size' = fifo_size - 1 /\ fifo_run' = fifo_run
    BY <1>3
  <2>2. fifo_size - 1 \in Slot /\ fifo_run \in Slot
    BY <1>1 DEF Slot
  <2>3. /\ fifo' \in [Slot -> [pgt : {0}, context : Context]]
        /\ fifo'[fifo_run] = fifo[fifo_size - 1]
        /\ \A i \in Slot : i # fifo_run => fifo'[i] = fifo[i]
    BY <1>1, <2>1, <2>2
  <2> QED
    BY <1>1, <1>3, <2>1, <2>2, <2>3 DEF Alive, Slot
<1> QED
  BY <1>2, <1>3

LEMMA VacateIndInv ==
  ASSUME IndInv, phase = "run", Vacate
  PROVE  SlotsDistinct' /\ SlotsHoldTasks'
<1> DEFINE Origin(i) == IF i = fifo_run THEN fifo_size - 1 ELSE i
<1>1. \A i \in Alive' : Origin(i) \in Alive /\ fifo'[i] = fifo[Origin(i)]
  BY VacateSlots
<1>2. \A i, j \in Alive' : Origin(i) = Origin(j) => i = j
  BY VacateSlots DEF Alive
<1> HIDE DEF Origin
<1>3. SlotsHoldTasks'
  BY <1>1 DEF IndInv, SlotsHoldTasks
<1>4. SlotsDistinct'
  BY <1>1, <1>2 DEF IndInv, SlotsDistinct
<1> QED
  BY <1>3, <1>4

LEMMA ExitIndInv ==
  ASSUME IndInv, Exit
  PROVE  IndInv'
<1> USE FifoLenAssumption
<1>1. CASE ExitToTask
  <2> USE <1>1 DEF ExitToTask
  <2>1. SlotsDistinct' /\ SlotsHoldTasks'
    BY VacateIndInv
  <2>2. fifo_run' \in Slot /\ fifo_run' \in Alive'
    BY VacateSlots
  <2>3. /\ ctx' = fifo'[fifo_run'].context /\ ctx' \in TaskContext /\ ctx' \in Context
        /\ cr3' = fifo'[fifo_run'].pgt /\ cr3' = 0
    <3>1. fifo'[fifo_run'].context \in TaskContext
      BY <2>1, <2>2 DEF SlotsHoldTasks
    <3>2. Dispatch(fifo', fifo_run') /\ fifo' \in [Slot -> [pgt : {0}, context : Context]]
      BY VacateSlots
    <3> QED
      BY <2>2, <3>1, <3>2, DispatchAlive
  <2>4. TypeOK'
    BY <2>2, <2>3, VacateSlots DEF IndInv, TypeOK
  <2>5. PhaseInv'
    BY <2>2, <2>3, VacateSlots DEF IndInv, PhaseInv, Alive, TypeOK
  <2> QED
    BY <2>1, <2>4, <2>5 DEF IndInv
<1>2. CASE ExitToKernel
  <2> USE <1>2 DEF ExitToKernel
  <2>1. SlotsDistinct' /\ SlotsHoldTasks'
    BY VacateIndInv
  <2>2. TypeOK'
    BY VacateSlots DEF IndInv, TypeOK
  <2>3. PhaseInv'
    BY DEF IndInv, PhaseInv
  <2> QED
    BY <2>1, <2>2, <2>3 DEF IndInv
<1> QED
  BY <1>1, <1>2 DEF Exit

\* A slot copied whole, but for its context.
LEMMA SlotCopy ==
  ASSUME NEW s \in [pgt : {0}, context : Context], NEW c \in Context
  PROVE  /\ [s EXCEPT !.context = c] = [pgt |-> s.pgt, context |-> c]
         /\ [s EXCEPT !.context = c] \in [pgt : {0}, context : Context]
  OBVIOUS

LEMMA ForkIndInv ==
  ASSUME IndInv, NEW t \in TaskId, Fork(t)
  PROVE  IndInv'
<1> USE FifoLenAssumption DEF IndInv, Fork
<1> DEFINE c == [ctx EXCEPT !.id = t, !.rax = 1]
<1>1. /\ c \in TaskContext /\ c \in Context /\ c.id = t
      /\ ctx' \in TaskContext /\ ctx' \in Context /\ ctx'.id = ctx.id
  BY DEF PhaseInv, TaskContext, Context, Rax
<1>2. /\ fifo_size \in Slot /\ fifo_run \in Slot
      /\ fifo[fifo_run].pgt = cr3
      /\ fifo[fifo_run] \in [pgt : {0}, context : Context]
      /\ fifo' = [fifo EXCEPT ![fifo_size] = [fifo[fifo_run] EXCEPT !.context = c]]
  BY DEF TypeOK, Slot, PhaseInv
<1> HIDE DEF c
<1>3. TypeOK'
  <2>1. [fifo[fifo_run] EXCEPT !.context = c] \in [pgt : {0}, context : Context]
    BY <1>1, <1>2, SlotCopy
  <2> QED
    BY <1>1, <1>2, <2>1 DEF TypeOK, Slot
<1>4. /\ \A i \in Alive : fifo'[i] = fifo[i] /\ i \in Slot
      /\ fifo'[fifo_size].context = c
      /\ Alive' = Alive \cup {fifo_size} /\ fifo_size \notin Alive
  <2>1. Alive' = Alive \cup {fifo_size} /\ fifo_size \notin Alive /\ Alive \subseteq Slot
    BY <1>2 DEF TypeOK, Slot, Alive
  <2>2. \A i \in Slot : i # fifo_size => fifo'[i] = fifo[i]
    BY <1>2 DEF TypeOK
  <2>3. fifo'[fifo_size] = [fifo[fifo_run] EXCEPT !.context = c]
    BY <1>2 DEF TypeOK
  <2>4. [fifo[fifo_run] EXCEPT !.context = c].context = c
    BY <1>1, <1>2, SlotCopy
  <2> QED
    BY <2>1, <2>2, <2>3, <2>4
<1>5. PhaseInv'
  <2>1. fifo_run \in Alive /\ fifo_run < fifo_size'
    BY DEF PhaseInv, Alive, TypeOK, Slot
  <2>2. fifo'[fifo_run] = fifo[fifo_run]
    BY <1>4, <2>1
  <2> QED
    BY <1>1, <2>1, <2>2 DEF PhaseInv
<1>6. SlotsHoldTasks'
  BY <1>1, <1>4 DEF SlotsHoldTasks
<1>7. SlotsDistinct'
  <2>1. \A i \in Alive : fifo[i].context.id # t
    BY DEF FreshIds, LiveIds
  <2> QED
    BY <1>1, <1>4, <2>1 DEF SlotsDistinct
<1> QED
  BY <1>3, <1>5, <1>6, <1>7

\* The steps that touch neither the slots nor the indices.
LEMMA OtherIndInv ==
  ASSUME IndInv, ForkFull \/ Fault \/ Die \/ UNCHANGED vars
  PROVE  IndInv'
<1> USE DEF IndInv
<1>1. CASE ForkFull
  <2>1. ctx \in TaskContext
    BY <1>1 DEF ForkFull, PhaseInv
  <2>2. ctx' \in TaskContext /\ ctx' \in Context /\ ctx'.id = ctx.id
    BY <1>1, <2>1 DEF ForkFull, TaskContext, Context, Rax
  <2>3. TypeOK' /\ PhaseInv'
    BY <1>1, <2>2 DEF ForkFull, TypeOK, PhaseInv
  <2> QED
    BY <1>1, <2>3 DEF ForkFull, SlotsDistinct, SlotsHoldTasks, Alive
<1>2. CASE Fault \/ Die
  BY <1>2 DEF Fault, Die, TypeOK, PhaseInv, SlotsDistinct, SlotsHoldTasks, Alive
<1>3. CASE UNCHANGED vars
  BY <1>3 DEF vars, TypeOK, PhaseInv, SlotsDistinct, SlotsHoldTasks, Alive
<1> QED
  BY <1>1, <1>2, <1>3

LEMMA NextIndInv == IndInv /\ [Next]_vars => IndInv'
<1> SUFFICES ASSUME IndInv, [Next]_vars PROVE IndInv'
  OBVIOUS
<1>1. ASSUME NEW t \in TaskId, NEW v \in Regs, ParseTask(t, v) PROVE IndInv'
  BY <1>1, ParseTaskIndInv
<1>2. CASE RunTasks \/ RunNothing
  BY <1>2, RunIndInv
<1>3. ASSUME NEW v \in Regs, NEW r \in Rax, Compute(v, r) PROVE IndInv'
  BY <1>3, ComputeIndInv
<1>4. CASE Yield
  BY <1>4, YieldIndInv
<1>5. CASE Exit
  BY <1>5, ExitIndInv
<1>6. ASSUME NEW t \in TaskId, Fork(t) PROVE IndInv'
  BY <1>6, ForkIndInv
<1>7. CASE ForkFull \/ Fault \/ Die \/ UNCHANGED vars
  BY <1>7, OtherIndInv
<1> QED
  BY <1>1, <1>2, <1>3, <1>4, <1>5, <1>6, <1>7 DEF Next, Stopped, Exit

LEMMA Invariance == Spec => []IndInv
  BY InitIndInv, NextIndInv, PTL DEF Spec

-----------------------------------------------------------------------------
\* The state of kernel/task.c keeps its shape: the indices stay inside the
\* array, and every slot, the frame and the saved frame hold contexts.
THEOREM TypeCorrect == Spec => []TypeOK
<1>1. IndInv => TypeOK
  BY DEF IndInv
<1> QED
  BY Invariance, <1>1, PTL

\* The system calls act on the slot of the task that makes them.
THEOREM CurrentIsCallerCorrect == Spec => []CurrentIsCaller
<1>1. IndInv => CurrentIsCaller
  BY DEF IndInv, PhaseInv, CurrentIsCaller
<1> QED
  BY Invariance, <1>1, PTL

\* The slot copies of exit_task() and fork_task() neither lose a live task
\* nor let two slots hold the same one.
THEOREM SlotsDistinctCorrect == Spec => [](SlotsDistinct /\ SlotsHoldTasks)
<1>1. IndInv => SlotsDistinct /\ SlotsHoldTasks
  BY DEF IndInv
<1> QED
  BY Invariance, <1>1, PTL

\* run_tasks() returns only with no task left, and with the registers the
\* kernel had when it called enter_task().
THEOREM KernelResumesCorrect == Spec => []KernelResumes
<1>1. IndInv => KernelResumes
  BY DEF IndInv, PhaseInv, KernelResumes
<1> QED
  BY Invariance, <1>1, PTL

-----------------------------------------------------------------------------
(***************************************************************************)
(* Scheduler implements TaskMachine.                                       *)
(***************************************************************************)

\* The registers that the abstract machine sees in slot i.
InSlot(i) ==
  IF InTask /\ i = fifo_run THEN Registers(ctx) ELSE Registers(fifo[i].context)

LEMMA SlotOfLive ==
  ASSUME SlotsDistinct, NEW i \in Alive
  PROVE  SlotOf(fifo[i].context.id) = i
  BY DEF SlotOf, SlotsDistinct

\* The abstract context of a live task is what its own slot shows.
AbsShowsSlots ==
  \A i \in Alive : /\ fifo[i].context.id \in LiveIds
                   /\ AbsRegs[fifo[i].context.id] = InSlot(i)

LEMMA AbsRegsInSlot == IndInv => AbsShowsSlots
<1> SUFFICES ASSUME IndInv, NEW i \in Alive
             PROVE  /\ fifo[i].context.id \in LiveIds
                    /\ AbsRegs[fifo[i].context.id] = InSlot(i)
  BY DEF AbsShowsSlots
<1>1. fifo[i].context.id \in LiveIds
  BY DEF LiveIds
<1>2. SlotOf(fifo[i].context.id) = i
  BY SlotOfLive DEF IndInv
<1>3. InTask => (fifo[i].context.id = ctx.id <=> i = fifo_run)
  BY DEF IndInv, TypeOK, PhaseInv, InTask, SlotsDistinct, Alive, Slot
<1> QED
  BY <1>1, <1>2, <1>3 DEF AbsRegs, RegistersOf, InSlot

\* A map on the live tasks of the next state that agrees with every live
\* slot is the abstract state.
LEMMA AbsRegsNext ==
  ASSUME IndInv', NEW f, f = [t \in LiveIds' |-> f[t]],
         \A i \in Alive' : f[fifo'[i].context.id] = InSlot(i)'
  PROVE  AbsRegs' = f
<1>1. AbsShowsSlots'
  BY AbsRegsInSlot, PTL
<1>2. \A t \in LiveIds' : AbsRegs'[t] = f[t]
  BY <1>1 DEF LiveIds, AbsShowsSlots
<1>3. AbsRegs' = [t \in LiveIds' |-> AbsRegs'[t]]
  BY DEF AbsRegs
<1> QED
  BY <1>2, <1>3

\* A live slot counts for one task.
LEMMA LiveIdsCardinality ==
  ASSUME IndInv
  PROVE  Cardinality(LiveIds) = fifo_size
<1> DEFINE f == [i \in Alive |-> fifo[i].context.id]
<1>1. f \in Bijection(Alive, LiveIds)
  BY DEF IndInv, SlotsDistinct, LiveIds, Bijection, Injection, IsInjective, Surjection
<1>2. fifo_size \in Nat
  BY FifoLenAssumption DEF IndInv, TypeOK
<1>3. IsFiniteSet(Alive) /\ Cardinality(Alive) = fifo_size
  BY <1>2, FS_Interval DEF Alive
<1>4. ExistsBijection(Alive, LiveIds)
  BY <1>1 DEF ExistsBijection
<1> QED
  BY <1>3, <1>4, FS_Bijection

LEMMA AbsInit == Init => TM!Init
<1> SUFFICES ASSUME Init PROVE TM!Init
  OBVIOUS
<1>1. LiveIds = {}
  BY DEF Init, LiveIds, Alive
<1>2. AbsRegs = [t \in {} |-> 0]
  BY <1>1 DEF AbsRegs
<1>3. AbsRunning = NoTask
  BY DEF Init, AbsRunning, InTask
<1> QED
  BY <1>2, <1>3 DEF TM!Init

LEMMA AbsLive == DOMAIN AbsRegs = LiveIds
  BY DEF AbsRegs

\* The instance has its own copy of the library's definition.
LEMMA SameCardinality == \A S : TM!Cardinality(S) = Cardinality(S)
  BY Zenon DEF TM!Cardinality, Cardinality

LEMMA AbsParseTask ==
  ASSUME IndInv, IndInv', NEW t \in TaskId, NEW v \in Regs, ParseTask(t, v)
  PROVE  TM!Create(t, [regs |-> v, rax |-> 0])
<1> DEFINE c == [id |-> t, regs |-> v, rax |-> 0]
           f == [u \in LiveIds \cup {t} |-> IF u = t THEN Registers(c) ELSE AbsRegs[u]]
<1> USE DEF ParseTask
<1>1. /\ \A i \in Alive : fifo'[i] = fifo[i] /\ fifo[i].context.id # t
      /\ fifo'[fifo_size].context = c
      /\ Alive' = Alive \cup {fifo_size}
  BY FifoLenAssumption DEF IndInv, TypeOK, Slot, Alive, FreshIds, LiveIds
<1>2. LiveIds' = LiveIds \cup {t}
  BY <1>1 DEF LiveIds
<1>3. ~InTask /\ ~InTask' /\ AbsRunning = NoTask /\ AbsRunning' = NoTask
  BY DEF InTask, AbsRunning
<1>4. \A i \in Alive' : f[fifo'[i].context.id] = InSlot(i)'
  <2>1. \A i \in Alive : f[fifo'[i].context.id] = InSlot(i)'
    BY <1>1, <1>3, AbsRegsInSlot DEF AbsShowsSlots, InSlot
  <2>2. ASSUME NEW i \in Alive', i = fifo_size
        PROVE  f[fifo'[i].context.id] = InSlot(i)'
    BY <1>1, <1>3, <2>2 DEF InSlot
  <2> QED
    BY <1>1, <2>1, <2>2
<1>5. AbsRegs' = f
  <2>1. f = [u \in LiveIds' |-> f[u]]
    BY <1>2
  <2> HIDE DEF f
  <2> QED
    BY <1>4, <2>1, AbsRegsNext
<1>6. Cardinality(LiveIds) < FifoLen
  BY FifoLenAssumption, LiveIdsCardinality DEF IndInv, TypeOK
<1>7. Registers(c) = [regs |-> v, rax |-> 0]
  BY DEF Registers
<1>8. AbsRegs' = [u \in LiveIds \cup {t} |-> IF u = t THEN [regs |-> v, rax |-> 0] ELSE AbsRegs[u]]
  BY <1>5, <1>7
<1>9. t \notin LiveIds
  BY DEF FreshIds
<1> QED
  BY <1>3, <1>6, <1>8, <1>9, AbsLive, SameCardinality DEF TM!Create, TM!Live

\* A step that changes neither the slots, the frame nor what runs.
LEMMA AbsStutter ==
  ASSUME UNCHANGED <<fifo, fifo_size, ctx, InTask>>
  PROVE  UNCHANGED <<AbsRegs, AbsRunning>>
  BY DEF AbsRegs, AbsRunning, LiveIds, Alive, RegistersOf, SlotOf, InTask

LEMMA AbsRunTasks ==
  ASSUME IndInv, IndInv', RunTasks
  PROVE  TM!Start
<1> USE DEF RunTasks
<1>1. ~InTask /\ InTask' /\ AbsRunning = NoTask /\ AbsRunning' = ctx'.id
  BY DEF InTask, AbsRunning
<1>2. /\ fifo_run' \in Alive /\ ctx' = fifo[fifo_run'].context
      /\ LiveIds' = LiveIds /\ Alive' = Alive
  BY AdvanceAlive DEF IndInv, TypeOK, Alive, Slot, LiveIds, Dispatch
<1>3. \A i \in Alive' : AbsRegs[fifo'[i].context.id] = InSlot(i)'
  BY <1>1, <1>2, AbsRegsInSlot DEF AbsShowsSlots, InSlot
<1>4. AbsRegs' = AbsRegs
  <2>1. AbsRegs = [t \in LiveIds' |-> AbsRegs[t]]
    BY <1>2 DEF AbsRegs
  <2> QED
    BY <1>3, <2>1, AbsRegsNext
<1>5. ctx'.id \in LiveIds
  BY <1>2 DEF LiveIds
<1> QED
  BY <1>1, <1>4, <1>5, AbsLive DEF TM!Start, TM!Live

\* The frame of the running task gets new registers, and no slot changes.
LEMMA AbsFrame ==
  ASSUME IndInv, IndInv', phase = "run", phase' = "run",
         UNCHANGED <<fifo, fifo_size, fifo_run>>, ctx'.id = ctx.id
  PROVE  /\ AbsRegs' = [AbsRegs EXCEPT ![ctx.id] = Registers(ctx')]
         /\ ctx.id \in LiveIds
         /\ AbsRunning = ctx.id /\ AbsRunning' = ctx.id
<1> DEFINE f == [AbsRegs EXCEPT ![ctx.id] = Registers(ctx')]
<1>1. InTask /\ InTask' /\ LiveIds' = LiveIds /\ Alive' = Alive
  BY DEF InTask, LiveIds, Alive
<1>2. fifo_run \in Alive /\ fifo[fifo_run].context.id = ctx.id
  BY DEF IndInv, TypeOK, PhaseInv, Alive, Slot
<1>3. \A i \in Alive : fifo[i].context.id = ctx.id => i = fifo_run
  BY <1>2 DEF IndInv, SlotsDistinct
<1>4. \A i \in Alive' : f[fifo'[i].context.id] = InSlot(i)'
  BY <1>1, <1>2, <1>3, AbsLive, AbsRegsInSlot DEF AbsShowsSlots, InSlot
<1>5. f = [t \in LiveIds' |-> f[t]]
  BY <1>1, AbsLive
<1> HIDE DEF f
<1>6. AbsRegs' = f
  BY <1>4, <1>5, AbsRegsNext
<1> QED
  BY <1>1, <1>2, <1>6 DEF f, LiveIds, AbsRunning

LEMMA AbsCompute ==
  ASSUME IndInv, IndInv', NEW v \in Regs, NEW r \in Rax, Compute(v, r)
  PROVE  TM!Compute([regs |-> v, rax |-> r])
<1> USE DEF Compute
<1>1. ctx' = [ctx EXCEPT !.regs = v, !.rax = r] /\ ctx \in Context
  BY DEF IndInv, TypeOK
<1>2. ctx'.id = ctx.id /\ Registers(ctx') = [regs |-> v, rax |-> r]
  BY <1>1 DEF Context, Registers
<1> QED
  BY <1>2, AbsFrame, AbsLive DEF TM!Compute, TM!Live

LEMMA AbsForkFull ==
  ASSUME IndInv, IndInv', ForkFull
  PROVE  TM!ForkFails
<1> USE DEF ForkFull
<1>1. ctx' = [ctx EXCEPT !.rax = -1] /\ ctx \in Context
  BY DEF IndInv, TypeOK
<1>2. /\ ctx'.id = ctx.id
      /\ Registers(ctx') = [Registers(ctx) EXCEPT !.rax = -1]
  BY <1>1 DEF Context, Registers
<1>3. fifo_run \in Alive /\ fifo[fifo_run].context.id = ctx.id /\ InTask
  BY DEF IndInv, TypeOK, PhaseInv, Alive, Slot, InTask
<1>4. AbsRegs[ctx.id] = Registers(ctx)
  BY <1>3, AbsRegsInSlot DEF AbsShowsSlots, InSlot
<1>5. AbsRegs' = [AbsRegs EXCEPT ![ctx.id].rax = -1]
  BY <1>2, <1>4, AbsFrame
<1>6. Cardinality(LiveIds) = FifoLen
  BY LiveIdsCardinality
<1> QED
  BY <1>5, <1>6, AbsFrame, <1>2, AbsLive, SameCardinality DEF TM!ForkFails, TM!Live

LEMMA AbsYield ==
  ASSUME IndInv, IndInv', Yield
  PROVE  TM!Yield
<1> USE DEF Yield
<1>1. InTask /\ InTask' /\ Alive' = Alive
  BY DEF InTask, Alive
<1>2. /\ fifo_run \in Alive /\ fifo_run \in Slot /\ fifo_run' \in Alive
      /\ fifo[fifo_run].context.id = ctx.id
      /\ ctx' = fifo'[fifo_run'].context
  BY AdvanceAlive DEF IndInv, TypeOK, PhaseInv, Alive, Slot, Dispatch
<1>3. \A i \in Slot : fifo'[i].context = IF i = fifo_run THEN ctx ELSE fifo[i].context
  BY <1>2 DEF IndInv, TypeOK
<1>4. Alive \subseteq Slot
  BY FifoLenAssumption DEF IndInv, TypeOK, Alive, Slot
<1>5. \A i \in Alive : fifo'[i].context.id = fifo[i].context.id
  BY <1>2, <1>3, <1>4
<1>6. LiveIds' = LiveIds
  BY <1>1, <1>5 DEF LiveIds
<1>7. \A i \in Alive' : AbsRegs[fifo'[i].context.id] = InSlot(i)'
  BY <1>1, <1>2, <1>3, <1>4, <1>5, AbsRegsInSlot DEF AbsShowsSlots, InSlot
<1>8. AbsRegs' = AbsRegs
  <2>1. AbsRegs = [t \in LiveIds' |-> AbsRegs[t]]
    BY <1>6 DEF AbsRegs
  <2> QED
    BY <1>7, <2>1, AbsRegsNext
<1>9. ctx.id \in LiveIds /\ ctx'.id \in LiveIds
  BY <1>1, <1>2, <1>5 DEF LiveIds
<1> QED
  BY <1>1, <1>8, <1>9, AbsLive DEF TM!Yield, TM!Live, AbsRunning

\* The tasks that remain after an exit are the others, with their contexts.
LEMMA AbsVacate ==
  ASSUME IndInv, phase = "run", Vacate
  PROVE  /\ LiveIds' = LiveIds \ {ctx.id}
         /\ ctx.id \in LiveIds
         /\ \A i \in Alive' :
              /\ fifo'[i].context.id \in LiveIds
              /\ AbsRegs[fifo'[i].context.id] = Registers(fifo'[i].context)
<1> DEFINE Origin(i) == IF i = fifo_run THEN fifo_size - 1 ELSE i
<1>1. \A i \in Alive' : /\ Origin(i) \in Alive /\ Origin(i) # fifo_run
                        /\ fifo'[i] = fifo[Origin(i)]
  BY VacateSlots
<1>2. /\ fifo_run \in Alive /\ fifo[fifo_run].context.id = ctx.id /\ InTask
      /\ fifo_size' = fifo_size - 1 /\ fifo_size \in Nat
  BY VacateSlots, FifoLenAssumption DEF IndInv, TypeOK, PhaseInv, Alive, Slot, InTask
<1>3. \A i \in Alive : i # fifo_run => fifo[i].context.id # ctx.id
  BY <1>2 DEF IndInv, SlotsDistinct
<1>4. \A j \in Alive : j # fifo_run => \E i \in Alive' : Origin(i) = j
  <2> SUFFICES ASSUME NEW j \in Alive, j # fifo_run
               PROVE  \E i \in Alive' : Origin(i) = j
    OBVIOUS
  <2>1. CASE j = fifo_size - 1
    <3>1. fifo_run \in Alive' /\ Origin(fifo_run) = j
      BY <1>2, <2>1 DEF Alive
    <3> QED
      BY <3>1
  <2>2. CASE j # fifo_size - 1
    <3>1. j \in Alive' /\ Origin(j) = j
      BY <1>2, <2>2 DEF Alive
    <3> QED
      BY <3>1
  <2> QED
    BY <2>1, <2>2
<1> HIDE DEF Origin
<1>5. LiveIds' \subseteq LiveIds \ {ctx.id}
  BY <1>1, <1>3 DEF LiveIds
<1>6. LiveIds \ {ctx.id} \subseteq LiveIds'
  <2> SUFFICES ASSUME NEW j \in Alive, fifo[j].context.id # ctx.id
               PROVE  fifo[j].context.id \in LiveIds'
    BY DEF LiveIds
  <2>1. PICK i \in Alive' : Origin(i) = j
    BY <1>2, <1>4
  <2>2. fifo'[i].context.id = fifo[j].context.id
    BY <1>1, <2>1
  <2> QED
    BY <2>2 DEF LiveIds
<1>7. \A j \in Alive : j # fifo_run =>
         /\ fifo[j].context.id \in LiveIds
         /\ AbsRegs[fifo[j].context.id] = Registers(fifo[j].context)
  BY AbsRegsInSlot DEF AbsShowsSlots, InSlot
<1> QED
  BY <1>1, <1>2, <1>5, <1>6, <1>7 DEF LiveIds

LEMMA AbsExit ==
  ASSUME IndInv, IndInv', Exit
  PROVE  TM!Exit
<1> USE DEF Exit, ExitToTask, ExitToKernel
<1> DEFINE f == [u \in LiveIds \ {ctx.id} |-> AbsRegs[u]]
<1>1. /\ LiveIds' = LiveIds \ {ctx.id} /\ ctx.id \in LiveIds
      /\ \A i \in Alive' : /\ fifo'[i].context.id \in LiveIds
                           /\ AbsRegs[fifo'[i].context.id] = Registers(fifo'[i].context)
  BY AbsVacate
<1>2. InTask /\ AbsRunning = ctx.id
  BY DEF InTask, AbsRunning
<1>3. \A i \in Alive' : fifo'[i].context.id \in LiveIds'
  BY DEF LiveIds
<1>4. CASE ExitToTask
  <2> USE <1>4
  <2>1. /\ InTask' /\ AbsRunning' = ctx'.id
        /\ fifo_run' \in Alive' /\ ctx' = fifo'[fifo_run'].context
    BY VacateSlots DEF InTask, AbsRunning, Dispatch
  <2>2. \A i \in Alive' : f[fifo'[i].context.id] = InSlot(i)'
    BY <1>1, <1>3, <2>1 DEF InSlot
  <2>3. f = [u \in LiveIds' |-> f[u]]
    BY <1>1
  <2>4. AbsRegs' = f
    <3> HIDE DEF f
    <3> QED
      BY <2>2, <2>3, AbsRegsNext
  <2>5. ctx'.id \in LiveIds \ {ctx.id}
    BY <1>1, <1>3, <2>1
  <2>6. LiveIds # {ctx.id}
    BY <2>5
  <2> QED
    BY <1>1, <1>2, <2>1, <2>4, <2>5, <2>6, AbsLive DEF TM!Exit, TM!Live
<1>5. CASE ExitToKernel
  <2> USE <1>5
  <2>1. ~InTask' /\ AbsRunning' = NoTask
    BY DEF InTask, AbsRunning
  <2>2. Alive' = {} /\ LiveIds' = {}
    BY DEF Alive, LiveIds
  <2>3. LiveIds = {ctx.id}
    BY <1>1, <2>2
  <2>4. AbsRegs' = f
    BY <1>1, <2>2 DEF AbsRegs
  <2> QED
    BY <1>1, <1>2, <2>1, <2>3, <2>4, AbsLive DEF TM!Exit, TM!Live
<1> QED
  BY <1>4, <1>5

LEMMA AbsFork ==
  ASSUME IndInv, IndInv', NEW t \in TaskId, Fork(t)
  PROVE  TM!Fork(t)
<1> USE DEF Fork
<1> DEFINE c == [ctx EXCEPT !.id = t, !.rax = 1]
           f == [u \in LiveIds \cup {t} |->
                   IF u \in {t, ctx.id}
                   THEN [Registers(ctx) EXCEPT !.rax = IF u = t THEN 1 ELSE 0]
                   ELSE AbsRegs[u]]
<1>1. /\ c.id = t /\ Registers(c) = [Registers(ctx) EXCEPT !.rax = 1]
      /\ ctx'.id = ctx.id /\ Registers(ctx') = [Registers(ctx) EXCEPT !.rax = 0]
  BY DEF IndInv, TypeOK, Context, Registers
<1>2. /\ fifo_size \in Slot /\ fifo_run \in Slot /\ fifo_run \in Alive
      /\ fifo_size \notin Alive /\ Alive' = Alive \cup {fifo_size}
      /\ Alive \subseteq Slot
      /\ fifo[fifo_run].context.id = ctx.id
      /\ fifo' = [fifo EXCEPT ![fifo_size] = [fifo[fifo_run] EXCEPT !.context = c]]
  BY FifoLenAssumption DEF IndInv, TypeOK, PhaseInv, Alive, Slot
<1>3. c \in Context
  BY DEF IndInv, TypeOK, Context, Rax
<1> HIDE DEF c
<1>4. /\ \A i \in Alive : fifo'[i] = fifo[i]
      /\ fifo'[fifo_size].context = c
  <2>1. fifo'[fifo_size] = [fifo[fifo_run] EXCEPT !.context = c]
    BY <1>2 DEF IndInv, TypeOK
  <2>2. fifo[fifo_run] \in [pgt : {0}, context : Context]
    BY <1>2 DEF IndInv, TypeOK
  <2>3. fifo'[fifo_size].context = c
    BY <1>3, <2>1, <2>2, SlotCopy
  <2> QED
    BY <1>2, <2>3 DEF IndInv, TypeOK
<1>5. /\ InTask /\ InTask' /\ AbsRunning = ctx.id /\ AbsRunning' = ctx.id
  BY <1>1 DEF InTask, AbsRunning
<1>6. t \notin LiveIds /\ ctx.id \in LiveIds /\ ctx.id # t
      /\ LiveIds' = LiveIds \cup {t}
  BY <1>1, <1>2, <1>4 DEF FreshIds, LiveIds
<1>7. \A i \in Alive : i # fifo_run => fifo[i].context.id # ctx.id
  BY <1>2 DEF IndInv, SlotsDistinct
<1>8. \A i \in Alive' : f[fifo'[i].context.id] = InSlot(i)'
  <2>1. ASSUME NEW i \in Alive, i # fifo_run
        PROVE  f[fifo'[i].context.id] = InSlot(i)'
    <3>1. fifo[i].context.id \in LiveIds /\ fifo[i].context.id # t
      BY <1>6 DEF LiveIds
    <3>2. AbsRegs[fifo[i].context.id] = Registers(fifo[i].context)
      BY <2>1, AbsRegsInSlot DEF AbsShowsSlots, InSlot
    <3> QED
      BY <1>4, <1>7, <2>1, <3>1, <3>2 DEF InSlot
  <2>2. ASSUME NEW i \in Alive, i = fifo_run
        PROVE  f[fifo'[i].context.id] = InSlot(i)'
    BY <1>1, <1>2, <1>4, <1>5, <1>6, <2>2 DEF InSlot
  <2>3. ASSUME NEW i \in Alive', i = fifo_size
        PROVE  f[fifo'[i].context.id] = InSlot(i)'
    <3>1. fifo'[i].context = c /\ fifo'[i].context.id = t
      BY <1>1, <1>4, <2>3
    <3>2. f[t] = Registers(c)
      BY <1>1
    <3>3. InSlot(i)' = Registers(c)
      BY <1>2, <2>3, <3>1 DEF InSlot
    <3> QED
      BY <3>1, <3>2, <3>3
  <2> QED
    BY <1>2, <2>1, <2>2, <2>3
<1>9. AbsRegs' = f
  <2>1. f = [u \in LiveIds' |-> f[u]]
    BY <1>6
  <2> HIDE DEF f
  <2> QED
    BY <1>8, <2>1, AbsRegsNext
<1>10. AbsRegs[ctx.id] = Registers(ctx)
  BY <1>2, <1>5, AbsRegsInSlot DEF AbsShowsSlots, InSlot
<1>11. AbsRegs' = [u \in LiveIds \cup {t} |->
                     IF u \in {t, ctx.id}
                     THEN [AbsRegs[ctx.id] EXCEPT !.rax = IF u = t THEN 1 ELSE 0]
                     ELSE AbsRegs[u]]
  BY <1>9, <1>10
<1>12. Cardinality(LiveIds) < FifoLen
  BY FifoLenAssumption, LiveIdsCardinality DEF IndInv, TypeOK
<1> QED
  BY <1>5, <1>6, <1>11, <1>12, AbsLive, SameCardinality DEF TM!Fork, TM!Live

LEMMA AbsNext == IndInv /\ IndInv' /\ [Next]_vars => [TM!Next]_(TM!tmvars)
<1> SUFFICES ASSUME IndInv, IndInv', [Next]_vars
             PROVE  TM!Next \/ UNCHANGED <<AbsRegs, AbsRunning>>
  BY DEF TM!tmvars
<1>1. ASSUME NEW t \in TaskId, NEW v \in Regs, ParseTask(t, v) PROVE TM!Next
  <2>1. [regs |-> v, rax |-> 0] \in TM!Contexts
    BY DEF TM!Contexts
  <2> QED
    BY <1>1, <2>1, AbsParseTask DEF TM!Next
<1>2. CASE RunTasks
  BY <1>2, AbsRunTasks DEF TM!Next
<1>3. ASSUME NEW v \in Regs, NEW r \in Rax, Compute(v, r) PROVE TM!Next
  <2>1. [regs |-> v, rax |-> r] \in TM!Contexts
    BY DEF TM!Contexts, Rax
  <2> QED
    BY <1>3, <2>1, AbsCompute DEF TM!Next
<1>4. CASE Yield
  BY <1>4, AbsYield DEF TM!Next
<1>5. CASE Exit
  BY <1>5, AbsExit DEF TM!Next
<1>6. ASSUME NEW t \in TaskId, Fork(t) PROVE TM!Next
  BY <1>6, AbsFork DEF TM!Next
<1>7. CASE ForkFull
  BY <1>7, AbsForkFull DEF TM!Next
<1>8. CASE RunNothing \/ Fault \/ Die \/ UNCHANGED vars
  <2>1. UNCHANGED <<fifo, fifo_size, ctx, InTask>>
    BY <1>8 DEF RunNothing, Fault, Die, vars, InTask
  <2> QED
    BY <2>1, AbsStutter
<1> QED
  BY <1>1, <1>2, <1>3, <1>4, <1>5, <1>6, <1>7, <1>8 DEF Next, Stopped, Exit

\* The array of slots, its two indices and the interrupt frame of
\* kernel/task.c implement private register contexts, of which one runs:
\* TaskMachine, for any number of slots and any set of tasks.
THEOREM SchedulerImplementsTaskMachine == Spec => Refinement
  BY Invariance, AbsInit, AbsNext, PTL DEF Spec, Refinement, TM!Spec
=============================================================================
