---------------------------- MODULE RackdollPaging ----------------------------
(***************************************************************************)
(* The page tables of Rackdoll (kernel/memory.c): the kernel boots on the  *)
(* static tables of entry.S, maps one page of its own (main.c), builds the *)
(* address space of every task that the boot loader left in memory, and    *)
(* then switches between the tasks.                                        *)
(*                                                                         *)
(* parse_task() clears the task before it calls load_task(), and nothing   *)
(* gives the task a page table: the root of every task is physical page 0. *)
(* The kernel runs on one processor, and nothing interrupts the functions  *)
(* below in a way that reads or writes a table: each is one action.        *)
(***************************************************************************)
EXTENDS Integers, FiniteSets, Sequences, SequencesExt

CONSTANTS
  PoolPages,    \* PHYSICAL_POOL_PAGES
  MaxTasks,     \* bound: the tasks that the boot loader leaves in memory
  MaxPayload,   \* bound: pages of code and data of a task
  MaxBss,       \* bound: pages of bss of a task
  MaxGap        \* bound: pages left free between two modules

ASSUME RackdollAssumption ==
  /\ {PoolPages, MaxTasks, MaxPayload} \subseteq Nat \ {0}
  /\ {MaxBss, MaxGap} \subseteq Nat

\* Physical pages: page 0, the pool, the tables of entry.S, the registers of
\* the APIC, and the memory above the kernel, where the modules are.
Pool     == 1 .. PoolPages
K4       == PoolPages + 1
K3       == PoolPages + 2
K2       == PoolPages + 3
Apic     == PoolPages + 4
ApicPage == PoolPages + 5
LowestModule == PoolPages + 6
Modules  == LowestModule ..
              LowestModule + MaxTasks * (MaxPayload + MaxGap) + MaxBss
Frame    == 0 .. LowestModule + MaxTasks * (MaxPayload + MaxGap) + MaxBss

\* The entries that differ: of a table, the indices 0, 1, and one of a task
\* (128 in a PML3); in a last table, one for each page of a task.
Idx == 0 .. (IF MaxPayload + MaxBss > 3 THEN MaxPayload + MaxBss - 1 ELSE 2)

\* A virtual page by its indices, PML4 first.
KernelText    == <<0, 0, 0, 1>>       \* 0x1000, in the first 2 MiB
KernelApic    == <<0, 0, 1, 0>>       \* 0x200000
KernelValloc  == <<0, 0, 1, 1>>       \* 0x201000
TaskPage(i)   == <<0, 2, 0, i>>       \* 0x2000000000 + i pages (task.ld)

\* An entry: a frame and the flags Present, Writable, User, huge page (PS) and
\* cache disabled (PCD).  PGT_W_P_U_MASK is 0x11.
Flag == {"P", "W", "U", "PS", "PCD"}
Word(a, flags) == [a |-> a, flags |-> flags]
ZeroWord == Word(0, {})
ZeroPage == [i \in Idx |-> ZeroWord]
PGT_W_P_U_MASK == {"P", "PCD"}

NotMapped == [a |-> -1, flags |-> {}]    \* the walk ends in a page fault
Identity  == -2                          \* the address itself, in a huge page

VARIABLES
  mem,     \* the words of each frame
  used,    \* the frames whose bit is set in bitset
  cr3,     \* the root of the tree in use
  tasks,   \* fifo, as load_tasks() leaves it
  phase,   \* "boot", "load" or "run"
  cur      \* the task of the last set_task(), 0 before the first

vars == <<mem, used, cr3, tasks, phase, cur>>

-----------------------------------------------------------------------------
\* From an entry to the one with index i of the table that it refers to, unless
\* the walk ends with it.
Follow(e, i) ==
  IF "P" \in e.flags /\ "PS" \notin e.flags THEN mem[e.a][i] ELSE e

\* The entries that the processor reads for v from root, PML4 first.
Entries(root, v) ==
  LET e4 == Follow(Word(root, {"P"}), v[1])
      e3 == Follow(e4, v[2])
      e2 == Follow(e3, v[3])
      e1 == Follow(e2, v[4])
  IN  <<e4, e3, e2, e1>>

\* What an entry refers to.
Target(e) ==
  IF "P" \in e.flags
  THEN IF "PS" \in e.flags THEN [e EXCEPT !.a = Identity] ELSE e
  ELSE NotMapped

\* The address that the processor's walk for v from root comes to.  Whether user
\* mode may use it is another matter: that takes the flags User and Writable in
\* every entry, and the entries of PGT_W_P_U_MASK have neither.
Walk(root, v) == Target(Entries(root, v)[4])

\* The tables of levels 3, 2 and 1 on the way to v.
TablesOf(root, v) == {Target(Entries(root, v)[n]).a : n \in 1 .. 3} \ {NotMapped.a, Identity}

-----------------------------------------------------------------------------
\* The functions below work on a record c: memory, bitset, and the table where
\* map_page() stands.

\* alloc_page(): the page of the first clear bit, or 0 when there is none.
FirstFree(c) ==
  LET free == Pool \ c.used
  IN  IF free = {} THEN 0 ELSE CHOOSE f \in free : \A g \in free : f <= g

\* Seeded fault: the bit of the page is not set.
FaultyAllocPage(c) == c

AllocPage(c) == [c EXCEPT !.used = @ \cup ({FirstFree(c)} \ {0})]

\* The page is allocated and then cleared.
AllocCleared(c) == [AllocPage(c) EXCEPT !.mem[FirstFree(c)] = ZeroPage]

SetEntry(c, t, i, a) == [c EXCEPT !.mem[t][i] = Word(a, PGT_W_P_U_MASK)]

\* One level of map_page(): the entry i is given a cleared table if it has
\* none, and the walk moves there.  !PGT_IS_VALID(x) expands to !x & 0x1: the
\* test is that the whole word is zero.
Descend(c, i) ==
  LET d == IF c.mem[c.at][i] = ZeroWord
           THEN SetEntry(AllocCleared(c), c.at, i, FirstFree(c))
           ELSE c
  IN  [d EXCEPT !.at = d.mem[c.at][i].a]

\* map_page(): the last level also allocates a page, which nothing refers to.
MapPage(c, pgt, v, pa) ==
  LET d == Descend(Descend(Descend([c EXCEPT !.at = pgt], v[1]), v[2]), v[3])
  IN  IF d.mem[d.at][v[4]] = ZeroWord
      THEN SetEntry(AllocCleared(d), d.at, v[4], pa)
      ELSE d

\* Seeded fault: the tables are built under the root in use.
FaultyNewRoot(c, pgt) ==
  LET new == FirstFree(c)
      d   == SetEntry(AllocCleared(c), cr3, 0, new)
  IN  [d EXCEPT !.mem[new][1] = d.mem[d.mem[cr3][0].a][1]]

\* The first step of load_task(): a new PML3 under entry 0 of the root, with
\* entry 1 of the PML3 of the tree in use.
NewRoot(c, pgt) ==
  LET new == FirstFree(c)
      d   == SetEntry(AllocCleared(c), pgt, 0, new)
  IN  [d EXCEPT !.mem[new][1] = d.mem[d.mem[cr3][0].a][1]]

\* The second step: the pages of payload and bss, one after the other.
LoadPages(c, t) ==
  LET To[n \in 0 .. t.payload + t.bss] ==
        IF n = 0 THEN c
        ELSE MapPage(To[n - 1], t.pgt, TaskPage(n - 1), t.load_paddr + (n - 1))
  IN  To[t.payload + t.bss]

Commit(c) == mem' = c.mem /\ used' = c.used
State     == [mem |-> mem, used |-> used, at |-> 0]

-----------------------------------------------------------------------------
\* Physical page 0 holds what the firmware left there; so do the pages of the
\* modules, the files of the tasks.
Other == Word(0, {"W"})
OtherPage == [i \in Idx |-> Other]

\* The tables of entry.S.
Init ==
  /\ mem = [f \in Frame |->
              CASE f = K4   -> [ZeroPage EXCEPT ![0] = Word(K3, {"P", "W", "U"})]
                [] f = K3   -> [ZeroPage EXCEPT ![0] = Word(K2, {"P", "W", "U"})]
                [] f = K2   -> [ZeroPage EXCEPT ![0] = Word(0, {"P", "W", "PCD", "PS"}),
                                                ![1] = Word(Apic, {"P", "W", "PCD"})]
                [] f = Apic -> [ZeroPage EXCEPT ![0] = Word(ApicPage, {"P", "W", "PCD"})]
                [] f = 0 \/ f \in Modules -> OtherPage
                [] OTHER    -> ZeroPage]
  /\ used = {}
  /\ cr3 = K4
  /\ tasks = <<>>
  /\ phase = "boot"
  /\ cur = 0

\* main_multiboot2(): a page is allocated and mapped at 0x201000.
MainMap ==
  /\ phase = "boot"
  /\ Commit(MapPage(AllocPage(State), cr3, KernelValloc, FirstFree(State)))
  /\ phase' = "load"
  /\ UNCHANGED <<cr3, tasks, cur>>

\* The first page after the modules read so far.
NextModule ==
  IF tasks = <<>> THEN LowestModule ELSE Last(tasks).load_paddr + Last(tasks).payload

\* parse_task() on a module of n pages of payload, followed by b pages of bss in
\* virtual memory, and load_task() on the task it fills in.
LoadTask(n, b, gap) ==
  LET t == [pgt |-> 0, load_paddr |-> NextModule + gap, payload |-> n, bss |-> b]
  IN  /\ phase = "load"
      /\ Len(tasks) < MaxTasks
      /\ Commit(LoadPages(NewRoot(State, t.pgt), t))
      /\ tasks' = Append(tasks, t)
      /\ UNCHANGED <<cr3, phase, cur>>

\* Seeded fault: the address of the code is loaded, not the one of the table.
FaultySetTask(k) ==
  /\ phase # "boot"
  /\ phase' = "run"
  /\ cr3' = tasks[k].load_paddr
  /\ cur' = k
  /\ UNCHANGED <<mem, used, tasks>>

\* set_task(), from enter_task(), next_task() or exit_task().
SetTask(k) ==
  /\ phase # "boot"
  /\ phase' = "run"
  /\ cr3' = tasks[k].pgt
  /\ cur' = k
  /\ UNCHANGED <<mem, used, tasks>>

Next ==
  \/ MainMap
  \/ \E n \in 1 .. MaxPayload, b \in 0 .. MaxBss, gap \in 0 .. MaxGap : LoadTask(n, b, gap)
  \/ \E k \in 1 .. Len(tasks) : SetTask(k)

Spec == Init /\ [][Next]_vars

-----------------------------------------------------------------------------
\* The pool has a page for every page of a task, three for its tables, and two
\* for the mapping of main_multiboot2(): nothing in the code sees to it.
PoolFits == PoolPages >= 2 + MaxTasks * (3 + MaxPayload + MaxBss)

\* Types.
TypeOK ==
  /\ mem \in [Frame -> [Idx -> [a : Frame, flags : SUBSET Flag]]]
  /\ used \subseteq Pool
  /\ cr3 \in {0, K4}
  /\ Len(tasks) <= MaxTasks
  /\ phase \in {"boot", "load", "run"}
  /\ cur \in 0 .. Len(tasks)

\* Building the address spaces of the tasks, with tables from the same pool
\* and a root outside it, never changes what the kernel's own tree maps: its
\* code, the APIC, and the page that main_multiboot2() maps (memory.c:237).
KernelTreeIntact ==
  /\ Walk(K4, KernelText).a = Identity
  /\ Walk(K4, KernelApic).a = ApicPage
  /\ phase # "boot" => Walk(K4, KernelValloc).a = 1

\* The pages of the task loaded last are translated, in order, to the pages of
\* its module and the ones behind it (memory.c:287), below the root that its
\* structure names and, while it is the task of the last set_task(), below the
\* root in use.  This is about addresses, not about the right to use them, and
\* about that one task: EachTaskMapped is about all.
LastTaskMapped ==
  tasks # <<>> =>
    LET t == Last(tasks)
    IN  \A root \in {t.pgt} \cup (IF cur = Len(tasks) THEN {cr3} ELSE {}) :
          \A i \in 0 .. t.payload + t.bss - 1 :
            Walk(root, TaskPage(i)).a = t.load_paddr + i

\* The tables of the kernel and of the task loaded last are disjoint, and the
\* pool gives out no page twice: a table of a task is a page of the pool that
\* is marked as used and that the kernel has not mapped (memory.c:33).
TablesApart ==
  tasks # <<>> =>
    LET mine   == TablesOf(0, TaskPage(0))
        kernel == {K4, Walk(K4, KernelValloc).a} \cup TablesOf(K4, KernelValloc)
    IN  /\ Cardinality(mine) = 3
        /\ mine \subseteq used
        /\ mine \cap kernel = {}

\* "L'adresse physique du premier niveau de la table des pages est indiquee par
\* ctx->pgt" (CR.md:74): each task has its own pages below the root that its
\* structure names.  load_task() takes the root as it finds it (memory.c:252),
\* and all tasks have page 0, where the next one replaces entry 0.
EachTaskMapped ==
  \A k \in 1 .. Len(tasks) :
    \A i \in 0 .. tasks[k].payload + tasks[k].bss - 1 :
      Walk(tasks[k].pgt, TaskPage(i)).a = tasks[k].load_paddr + i

=============================================================================
