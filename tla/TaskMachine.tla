----------------------------- MODULE TaskMachine -----------------------------
(***************************************************************************)
(* What the Rackdoll scheduler promises to the tasks it runs, without its  *)
(* array, its indices or its interrupt frames: every live task owns a      *)
(* private register context, at most one task runs, only the running task  *)
(* changes its registers, and a context switch neither loses, duplicates   *)
(* nor mixes up the contexts of the tasks it does not run.                 *)
(***************************************************************************)
EXTENDS Integers, FiniteSets

CONSTANTS
  TaskId,    \* identities of tasks, reused once a task has exited
  Regs,      \* contents of the registers of a task, rax excepted
  Capacity,  \* how many tasks can be alive at a time
  NoTask     \* nobody runs: the kernel has the processor

VARIABLES
  regs,      \* the register context of each live task
  running    \* the task that has the processor, or NoTask

tmvars == <<regs, running>>

Live == DOMAIN regs

\* A register context as a task sees it; rax carries the result of a fork.
Contexts == [regs : Regs, rax : {-1, 0, 1}]

-----------------------------------------------------------------------------
Init ==
  /\ regs = [t \in {} |-> 0]
  /\ running = NoTask

\* The loader makes a new task.
Create(t, c) ==
  /\ running = NoTask
  /\ t \notin Live
  /\ Cardinality(Live) < Capacity
  /\ regs' = [u \in Live \cup {t} |-> IF u = t THEN c ELSE regs[u]]
  /\ UNCHANGED running

\* The kernel gives the processor to some task.
Start ==
  /\ running = NoTask
  /\ running' \in Live
  /\ UNCHANGED regs

\* The running task computes: its own registers change, nobody else's.
Compute(c) ==
  /\ running \in Live
  /\ regs' = [regs EXCEPT ![running] = c]
  /\ UNCHANGED running

\* The running task hands the processor over, registers untouched.
Yield ==
  /\ running \in Live
  /\ running' \in Live
  /\ UNCHANGED regs

\* The running task disappears with its context; another live task takes
\* over, or the kernel when there is none left.
Exit ==
  /\ running \in Live
  /\ regs' = [u \in Live \ {running} |-> regs[u]]
  /\ IF Live = {running} THEN running' = NoTask
                         ELSE running' \in Live \ {running}

\* The child starts from the context of its parent, and the two differ only
\* in the result of the fork: 1 in the child and 0 in the parent.
Fork(t) ==
  /\ running \in Live
  /\ t \notin Live
  /\ Cardinality(Live) < Capacity
  /\ regs' = [u \in Live \cup {t} |->
                IF u \in {t, running}
                THEN [regs[running] EXCEPT !.rax = IF u = t THEN 1 ELSE 0]
                ELSE regs[u]]
  /\ UNCHANGED running

\* A fork fails only when there is no room left, and then only tells its
\* caller so.
ForkFails ==
  /\ running \in Live
  /\ Cardinality(Live) = Capacity
  /\ regs' = [regs EXCEPT ![running].rax = -1]
  /\ UNCHANGED running

Next ==
  \/ \E t \in TaskId, c \in Contexts : Create(t, c)
  \/ Start
  \/ \E c \in Contexts : Compute(c)
  \/ Yield
  \/ Exit
  \/ \E t \in TaskId : Fork(t)
  \/ ForkFails

Spec == Init /\ [][Next]_tmvars
=============================================================================
