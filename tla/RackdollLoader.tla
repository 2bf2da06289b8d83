---------------------------- MODULE RackdollLoader ----------------------------
(***************************************************************************)
(* load_tasks() and parse_task() of kernel/task.c: the walk over the tags  *)
(* that the boot loader left in memory, and the search of the header in    *)
(* every module, one quadword after the other.                             *)
(*                                                                         *)
(* A module is where it lies, its size in bytes, the offset of its header  *)
(* or NoHeader, and the virtual address that its header gives itself.      *)
(* Positions in the boot information count from its start.                 *)
(***************************************************************************)
EXTENDS Integers, Sequences, FiniteSets

CONSTANTS
  TASK_FIFO_LEN,
  Tags,          \* bound: the tags that the boot loader may leave
  MaxTags,       \* bound: and how many
  NoHeader

MB2_TAG_MODULE == 3

\* A tag has at least a type and a size.  The header is the first quadword of
\* a module with the magic number.
ASSUME LoaderAssumption ==
  /\ TASK_FIFO_LEN \in Nat \ {0}
  /\ MaxTags \in Nat
  /\ NoHeader \notin Nat
  /\ \A t \in Tags :
       /\ t.size \in Nat /\ t.size >= 8
       /\ t.type = MB2_TAG_MODULE =>
            /\ {t.module.start, t.module.size, t.module.header_addr} \subseteq Nat
            /\ t.module.header # NoHeader =>
                 /\ t.module.header \in Nat
                 /\ t.module.header < t.module.size

VARIABLES
  tags,    \* of the boot information; [type, size, module]
  ptr,     \* load_tasks(): position of the walk
  fifo     \* the tasks

loadervars == <<tags, ptr, fifo>>

-----------------------------------------------------------------------------
(* The layout: the tags follow each other, each at a multiple of 8.        *)

Up8(n) == ((n + 7) \div 8) * 8

\* Where each tag begins, and where one more would.
Positions ==
  LET P[n \in 1 .. Len(tags) + 1] == IF n = 1 THEN 8 ELSE P[n - 1] + Up8(tags[n - 1].size)
  IN  P

\* info->total_size: up to the end of the last tag.
TotalSize ==
  IF tags = <<>> THEN 8 ELSE Positions[Len(tags)] + tags[Len(tags)].size

\* What is read at a position: the tag that begins there, if there is one.
TagAt(p) ==
  IF \E n \in DOMAIN tags : Positions[n] = p
  THEN tags[CHOOSE n \in DOMAIN tags : Positions[n] = p]
  ELSE [type |-> 0, size |-> 8]

\* (ptr + tag->size + 7) & ~0x7
After(p, size) == Up8(p + size)

-----------------------------------------------------------------------------
(* parse_task()                                                            *)

\* Where the search stops: at the header, or at the first position that is
\* not before the end.
Stops(m) == IF m.header # NoHeader THEN m.header ELSE Up8(m.size)

\* "if (ptr == end) return;": a search that has gone past the end has found
\* something.
Finds(m) == Stops(m) # m.size

\* Seeded fault: the difference has the wrong sign.
FaultyPaddr(m, vaddr) == vaddr + (m.header_addr - (m.start + Stops(m)))

\* vaddr - pvdiff
Paddr(m, vaddr) == vaddr - (m.header_addr - (m.start + Stops(m)))

\* The task that is made of a module.  Its code begins at the start of the
\* module, as its linker script has it, and ends with it.
Task(m) ==
  LET load_addr == m.header_addr - m.header
  IN  [module |-> m,
       load_vaddr |-> load_addr,
       load_paddr |-> Paddr(m, load_addr),
       load_end_paddr |-> Paddr(m, load_addr + m.size)]

\* What comes of a search past the end: the words behind the module are taken
\* for a header.
Phantom(m) == [module |-> m, load_vaddr |-> -1, load_paddr |-> -1, load_end_paddr |-> -1]

\* The tasks after a module.
Parsed(m) ==
  IF Len(fifo) = TASK_FIFO_LEN \/ ~Finds(m) THEN fifo
  ELSE Append(fifo, IF m.header = NoHeader THEN Phantom(m) ELSE Task(m))

-----------------------------------------------------------------------------
LoaderInit ==
  /\ tags \in UNION {[1 .. n -> Tags] : n \in 0 .. MaxTags}
  /\ ptr = 8
  /\ fifo = <<>>

WalkEnds == ptr >= TotalSize

\* One turn of the loop of load_tasks().
ParseTag ==
  /\ ~WalkEnds
  /\ ptr' = After(ptr, TagAt(ptr).size)
  /\ fifo' = IF TagAt(ptr).type = MB2_TAG_MODULE THEN Parsed(TagAt(ptr).module) ELSE fifo
  /\ UNCHANGED tags

\* The modules of which tasks should be made, by the numbers of their tags,
\* and the place of each among them.
Modules == {n \in DOMAIN tags : tags[n].type = MB2_TAG_MODULE /\ Finds(tags[n].module)}
Rank(n) == 1 + Cardinality({m \in Modules : m < n})
=============================================================================
