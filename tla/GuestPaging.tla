------------------------------ MODULE GuestPaging ------------------------------
(***************************************************************************)
(* The memory manager of the Janus guest (guest/memory.c): a pool of pages *)
(* behind a bitset, a tree of page tables built in pages of that pool, the *)
(* page fault handler that maps memory on demand, and the processor that   *)
(* walks the tree and caches what it finds.                                *)
(*                                                                         *)
(* Tables and data are words of the same frames: map_page() does not clear *)
(* the page it takes for a table, so what a page held before it was freed  *)
(* becomes entries of the tree.                                            *)
(*                                                                         *)
(* The loop of map_page() takes one step per level, because each level may *)
(* allocate; nothing else runs in between.  The other functions are one    *)
(* action each.  The clients of the module make the calls of guest/main.c, *)
(* in any order: an address is mapped by hand only outside the automatic   *)
(* mapping area and while it is not mapped, and a page is given back once, *)
(* by whoever allocated it, when no address maps it any more.              *)
(***************************************************************************)
EXTENDS Integers, FiniteSets, Functions

CONSTANTS
  PoolPages,   \* PHYSICAL_POOL_PAGES
  Levels,      \* levels of the tree, four on the processor
  Idx,         \* entries of a table, which are also the words of a page
  VAddr,       \* the virtual pages in use: an index for each level
  AutoArea,    \* those in the automatic mapping area
  StoreIdx,    \* the words of a page that the program stores to
  DataWords,   \* what it stores there
  NoFrame      \* the absence of a translation

\* Physical pages: page 0, in device memory, the pool, and the root of the
\* tree, which entry.S reserves.
Pool  == 1 .. PoolPages
Root  == PoolPages + 1
Frame == 0 .. PoolPages + 1

\* A word of memory, as the processor reads it when it is a table entry.
Word     == [p : {0, 1}, a : Frame]
ZeroWord == [p |-> 0, a |-> 0]
ZeroPage == [i \in Idx |-> ZeroWord]
Entry(f) == [p |-> 1, a |-> f]

ASSUME PagingAssumption ==
  /\ PoolPages \in Nat
  /\ Levels \in Nat \ {0, 1}
  /\ VAddr \subseteq [0 .. Levels - 1 -> Idx]
  /\ AutoArea \subseteq VAddr
  /\ StoreIdx \subseteq Idx
  /\ DataWords \subseteq Word
  /\ NoFrame \notin Frame

VARIABLES
  mem,     \* the words of each frame
  used,    \* the frames whose bit is set in bitset
  tlb,     \* the translation that the processor has cached for an address
  call,    \* the map_page() in progress, or why there is none
  owned,   \* history: the data pages that the clients have not given back
  oom      \* history: alloc_page() has returned 0

vars == <<mem, used, tlb, call, owned, oom>>

Ready    == [at |-> "ready"]
Segfault == [at |-> "segfault"]
BadFree  == [at |-> "badfree"]

\* In map_page(v, pa), about to look at level lvl in table pgt.  zeroed says
\* that mmap() allocated pa, not the caller.
InMap(v, pa, lvl, pgt, zeroed) ==
  [at |-> "map", v |-> v, pa |-> pa, lvl |-> lvl, pgt |-> pgt, zeroed |-> zeroed]

-----------------------------------------------------------------------------
\* The walk of the processor, and of unmap_page(): the table of each level
\* on the way to v, then the last entry.
Entries(f, i) == IF f # NoFrame /\ mem[f][i].p = 1 THEN mem[f][i].a ELSE NoFrame

Path(v) ==
  LET t[l \in 0 .. Levels - 1] ==
        IF l = Levels - 1 THEN Root ELSE Entries(t[l + 1], v[l + 1])
  IN  t

LeafTable(v) == Path(v)[0]

Walk(v) == Entries(LeafTable(v), v[0])

\* What an access to v uses: the cached translation before the tree.
Translation(v) == IF tlb[v] # NoFrame THEN tlb[v] ELSE Walk(v)

-----------------------------------------------------------------------------
\* The page of the first clear bit, or 0 when there is none.
FreeFrames == Pool \ used
FirstFree ==
  IF FreeFrames = {} THEN 0
  ELSE CHOOSE f \in FreeFrames : \A g \in FreeFrames : f <= g

\* Seeded fault: the bit of the page is not set.
FaultyAllocPageBit ==
  /\ oom' = (FirstFree = 0)
  /\ UNCHANGED used

\* alloc_page(), which returns FirstFree.
AllocPage ==
  /\ used' = used \cup ({FirstFree} \ {0})
  /\ oom' = (FirstFree = 0)

\* free_page(): dies on a page that is not allocated.
FreePage(f) ==
  IF f \in used
  THEN used' = used \ {f} /\ call' = Ready
  ELSE call' = BadFree /\ UNCHANGED used

\* Seeded fault: the cached translation stays.
FaultyUnmapPageTlb(v) ==
  /\ mem' = [mem EXCEPT ![LeafTable(v)][v[0]] = ZeroWord]
  /\ UNCHANGED tlb

\* Seeded fault: the first entry of the table is cleared instead.
FaultyUnmapPageIndex(v) ==
  /\ mem' = [mem EXCEPT ![LeafTable(v)][0] = ZeroWord]
  /\ tlb' = [tlb EXCEPT ![v] = NoFrame]

\* unmap_page() on a mapped address: the last entry is cleared, and the
\* cached translation invalidated.
UnmapPage(v) ==
  /\ mem' = [mem EXCEPT ![LeafTable(v)][v[0]] = ZeroWord]
  /\ tlb' = [tlb EXCEPT ![v] = NoFrame]

\* Seeded fault: the page is not cleared.
FaultyMmap(v) ==
  /\ AllocPage
  /\ call' = InMap(v, FirstFree, Levels - 1, Root, TRUE)
  /\ owned' = owned \cup ({FirstFree} \ {0})
  /\ UNCHANGED <<mem, tlb>>

\* mmap(): a page of zeros, and a call of map_page().
Mmap(v) ==
  /\ AllocPage
  /\ mem' = [mem EXCEPT ![FirstFree] = ZeroPage]
  /\ call' = InMap(v, FirstFree, Levels - 1, Root, TRUE)
  /\ owned' = owned \cup ({FirstFree} \ {0})
  /\ UNCHANGED tlb

-----------------------------------------------------------------------------
Init ==
  /\ mem = [f \in Frame |-> ZeroPage]
  /\ used = {}
  /\ tlb = [v \in VAddr |-> NoFrame]
  /\ call = Ready
  /\ owned = {}
  /\ oom = FALSE

\* The model stops at the first exhaustion: what follows is only told by
\* the properties of that state.
Idle == call = Ready /\ ~oom

\* One turn of the loop of map_page().  A missing table is a fresh page,
\* with the words that its last user left in it.
MapTable ==
  /\ call.at = "map"
  /\ call.lvl > 0
  /\ ~oom
  /\ LET i == call.v[call.lvl]
         next(f) == InMap(call.v, call.pa, call.lvl - 1, f, call.zeroed)
     IN  IF mem[call.pgt][i].p = 1
         THEN /\ call' = next(mem[call.pgt][i].a)
              /\ UNCHANGED <<mem, used, oom>>
         ELSE /\ AllocPage
              /\ mem' = [mem EXCEPT ![call.pgt][i] = Entry(FirstFree)]
              /\ call' = next(FirstFree)
  /\ UNCHANGED <<tlb, owned>>

\* Its last statement writes the last entry, whatever was there.
MapLeaf ==
  /\ call.at = "map"
  /\ call.lvl = 0
  /\ ~oom
  /\ mem' = [mem EXCEPT ![call.pgt][call.v[0]] = Entry(call.pa)]
  /\ call' = Ready
  /\ UNCHANGED <<used, tlb, owned, oom>>

\* The calls of guest/main.c.
CallMmap(v) ==
  /\ Idle
  /\ v \notin AutoArea
  /\ Walk(v) = NoFrame
  /\ Mmap(v)

CallAllocPage ==
  /\ Idle
  /\ AllocPage
  /\ owned' = owned \cup ({FirstFree} \ {0})
  /\ UNCHANGED <<mem, tlb, call>>

CallMapPage(v, f) ==
  /\ Idle
  /\ v \notin AutoArea
  /\ Walk(v) = NoFrame
  /\ f \in owned
  /\ call' = InMap(v, f, Levels - 1, Root, FALSE)
  /\ UNCHANGED <<mem, used, tlb, owned, oom>>

CallUnmapPage(v) ==
  /\ Idle
  /\ Walk(v) # NoFrame
  /\ UnmapPage(v)
  /\ UNCHANGED <<used, call, owned, oom>>

\* Seeded fault: the page is unmapped but not given back.
FaultyCallMunmap(v) ==
  /\ Idle
  /\ Walk(v) \notin {NoFrame, 0}
  /\ \A u \in VAddr \ {v} : Walk(u) # Walk(v)
  /\ UnmapPage(v)
  /\ owned' = owned \ {Walk(v)}
  /\ UNCHANGED <<used, call, oom>>

\* munmap() takes 0 from unmap_page() for "not mapped".
CallMunmap(v) ==
  /\ Idle
  /\ Walk(v) \notin {NoFrame, 0}
  /\ \A u \in VAddr \ {v} : Walk(u) # Walk(v)
  /\ UnmapPage(v)
  /\ FreePage(Walk(v))
  /\ owned' = owned \ {Walk(v)}
  /\ UNCHANGED oom

CallFreePage(f) ==
  /\ Idle
  /\ f \in owned
  /\ \A v \in VAddr : Walk(v) # f
  /\ FreePage(f)
  /\ owned' = owned \ {f}
  /\ UNCHANGED <<mem, tlb, oom>>

-----------------------------------------------------------------------------
\* An access that the processor can translate; it may cache what it used.
Store(v, i, w) ==
  /\ Idle
  /\ Translation(v) # NoFrame
  /\ mem' = [mem EXCEPT ![Translation(v)][i] = w]
  /\ tlb' = [tlb EXCEPT ![v] = Translation(v)]
  /\ UNCHANGED <<used, call, owned, oom>>

Evict(v) ==
  /\ Idle
  /\ tlb[v] # NoFrame
  /\ tlb' = [tlb EXCEPT ![v] = NoFrame]
  /\ UNCHANGED <<mem, used, call, owned, oom>>

\* pgfault(): the page is mapped if it lies in the automatic mapping area,
\* and the access is tried again; any other address is a segfault.
FaultAuto(v) ==
  /\ Idle
  /\ Translation(v) = NoFrame
  /\ v \in AutoArea
  /\ Mmap(v)

FaultManual(v) ==
  /\ Idle
  /\ Translation(v) = NoFrame
  /\ v \notin AutoArea
  /\ call' = Segfault
  /\ UNCHANGED <<mem, used, tlb, owned, oom>>

\* die(), or the end of what the model explores.
Stopped ==
  /\ call \in {Segfault, BadFree} \/ oom
  /\ UNCHANGED vars

Next ==
  \/ MapTable
  \/ MapLeaf
  \/ CallAllocPage
  \/ \E f \in Pool : CallFreePage(f)
  \/ \E v \in VAddr : CallMmap(v)
  \/ \E v \in VAddr, f \in Pool : CallMapPage(v, f)
  \/ \E v \in VAddr : CallUnmapPage(v)
  \/ \E v \in VAddr : CallMunmap(v)
  \/ \E v \in VAddr, i \in StoreIdx, w \in DataWords : Store(v, i, w)
  \/ \E v \in VAddr : Evict(v)
  \/ \E v \in VAddr : FaultAuto(v)
  \/ \E v \in VAddr : FaultManual(v)
  \/ Stopped

Spec == Init /\ [][Next]_vars

-----------------------------------------------------------------------------
TypeOK ==
  /\ mem \in [Frame -> [Idx -> Word]]
  /\ used \subseteq Pool
  /\ tlb \in [VAddr -> Frame \cup {NoFrame}]
  /\ owned \subseteq Pool
  /\ oom \in BOOLEAN
  /\ \/ call \in {Ready, Segfault, BadFree}
     \/ call \in [at : {"map"}, v : VAddr, pa : Frame, lvl : 0 .. Levels - 1,
                  pgt : Frame, zeroed : BOOLEAN]

\* The tables of each level of the tree.
TablesAt ==
  LET t[l \in 0 .. Levels - 1] ==
        IF l = Levels - 1 THEN {Root}
        ELSE {mem[e[1]][e[2]].a : e \in {d \in t[l + 1] \X Idx : mem[d[1]][d[2]].p = 1}}
  IN  t

Tables == UNION Range(TablesAt)

\* The entries, below which there are tables, that are in the tree.
Branches ==
  {e \in (UNION {TablesAt[l] : l \in 1 .. Levels - 1}) \X Idx : mem[e[1]][e[2]].p = 1}

\* The tables form a tree: no table is reached by two entries, so no two
\* addresses share a part of the tree that their indices do not.
TablesFormTree == ~oom => Cardinality(Tables) = Cardinality(Branches) + 1

\* Every address that translates reaches a data page that is in use: never
\* a table, a page given back or device memory.
MappedPagesOwned ==
  ~oom => \A v \in VAddr : Walk(v) # NoFrame => Walk(v) \in owned \ Tables

\* Cached translations agree with the tree.
TlbCoherent == \A v \in VAddr : tlb[v] # NoFrame => tlb[v] = Walk(v)

\* Every page is given back exactly once: what is allocated is a table of the
\* tree or a page that a client will give back, so that nothing leaks, and
\* free_page() never finds its page already free (memory.c:52).
PagesAccounted ==
  /\ call # BadFree
  /\ ~oom /\ call = Ready => used = owned \cup (Tables \ {Root})

\* "Automatic mapping" (guest/memory.c:70): what an address of that area
\* translates to has been allocated for it.
AutomaticMapping ==
  ~oom => \A v \in AutoArea : Walk(v) # NoFrame => Walk(v) \in owned

\* The page that mmap() is mapping belongs to nobody yet.
Pending == IF call.at = "map" /\ call.zeroed THEN {call.pa} ELSE {}

AS == INSTANCE AddressSpace WITH
        Page    <- Pool,
        map     <- [v \in {u \in VAddr : Walk(u) # NoFrame} |-> Walk(v)],
        content <- Restrict(mem, owned \ Pending),
        ok      <- ~oom

\* The tables, the bitset and the cached translations implement the address
\* space: an operation on one address changes no other, pages of mmap() are
\* clean, and a store reaches the mapped page and nothing else.
Refinement == AS!Spec
=============================================================================
