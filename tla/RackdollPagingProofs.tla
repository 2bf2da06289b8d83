------------------------- MODULE RackdollPagingProofs -------------------------
(***************************************************************************)
(* Theorems about RackdollPaging, for every size of the pool and of the    *)
(* tasks for which the pool suffices.                                      *)
(*                                                                         *)
(* The argument is that the pool gives its pages out in order, and none    *)
(* comes back: the pages in use are 1 to k, and what load_task() writes,   *)
(* entry 0 of physical page 0 apart, are the pages from k + 1 on.  From    *)
(* this what it leaves in memory can be written down for any number of     *)
(* pages (TaskMem), and the recursion of the model shown to compute it.    *)
(***************************************************************************)
EXTENDS RackdollPaging, FiniteSetTheorems, WellFoundedInduction, TLAPS

Entry == [a : Frame, flags : SUBSET Flag]
Memory == [Frame -> [Idx -> Entry]]

\* What SetEntry() writes.
Mapped(a) == Word(a, PGT_W_P_U_MASK)

Task == [pgt : {0}, load_paddr : Nat, payload : 1 .. MaxPayload, bss : 0 .. MaxBss]

-----------------------------------------------------------------------------
(* The inductive invariant.                                                *)

\* The tables of entry.S, with the page of main_multiboot2() once it is there.
KernelTables ==
  /\ mem[K4][0] = Word(K3, {"P", "W", "U"})
  /\ mem[K3][0] = Word(K2, {"P", "W", "U"})
  /\ mem[K2][0] = Word(0, {"P", "W", "PCD", "PS"})
  /\ mem[K2][1] = Word(Apic, {"P", "W", "PCD"})
  /\ mem[Apic][0] = Word(ApicPage, {"P", "W", "PCD"})
  /\ mem[Apic][1] = IF phase = "boot" THEN ZeroWord ELSE Mapped(1)

\* The most that a task takes from the pool.
Share == 3 + MaxPayload + MaxBss

\* The pages in use are the first k ones, page 1 and the one that nothing
\* refers to among them.
PoolOrder ==
  \E k \in 0 .. PoolPages :
    /\ used = 1 .. k
    /\ k <= 2 + Len(tasks) * Share
    /\ IF phase = "boot" THEN k = 0 ELSE k >= 2

\* The tree of the task loaded last: three tables in a row from the pool,
\* below physical page 0.
TaskTree(t) ==
  \E m \in 2 .. PoolPages :
    /\ {m, m + 1, m + 2} \subseteq used
    /\ mem[0][0] = Mapped(m)
    /\ mem[m][2] = Mapped(m + 1)
    /\ mem[m + 1][0] = Mapped(m + 2)
    /\ \A i \in 0 .. t.payload + t.bss - 1 : mem[m + 2][i] = Mapped(t.load_paddr + i)

\* The modules follow each other in memory.
TasksOK ==
  /\ tasks \in Seq(Task)
  /\ Len(tasks) <= MaxTasks
  /\ \A n \in 1 .. Len(tasks) :
       /\ tasks[n].load_paddr >= LowestModule
       /\ tasks[n].load_paddr + tasks[n].payload <= LowestModule + n * (MaxPayload + MaxGap)

PhaseOK ==
  /\ phase \in {"boot", "load", "run"}
  /\ phase = "boot" => tasks = <<>>
  /\ phase # "run" => cr3 = K4 /\ cur = 0
  /\ phase = "run" => cr3 = 0 /\ cur \in 1 .. Len(tasks)

IInv ==
  /\ mem \in Memory
  /\ KernelTables
  /\ PoolOrder
  /\ tasks # <<>> => TaskTree(tasks[Len(tasks)])
  /\ TasksOK
  /\ PhaseOK

-----------------------------------------------------------------------------
(* Frames, indices and entries.                                            *)

LEMMA MulNat ==
  ASSUME NEW m \in Nat, NEW n \in Nat
  PROVE  m * n \in Nat
  BY SMTT(20)

LEMMA MulMonotone ==
  ASSUME NEW m \in Nat, NEW n \in Nat, NEW c \in Nat, m <= n
  PROVE  m * c <= n * c
  BY SMTT(20)

LEMMA Sizes ==
  /\ PoolPages \in Nat \ {0} /\ MaxTasks \in Nat \ {0} /\ MaxPayload \in Nat \ {0}
  /\ MaxBss \in Nat /\ MaxGap \in Nat
  /\ MaxTasks * (MaxPayload + MaxGap) \in Nat
  BY RackdollAssumption, MulNat

LEMMA Frames ==
  /\ Frame \subseteq Nat
  /\ \A f \in 0 .. ApicPage : f \in Frame
  /\ {0, K4, K3, K2, Apic, ApicPage} \subseteq Frame
  BY Sizes DEF Frame, K4, K3, K2, Apic, ApicPage, LowestModule

\* The frames with a name are different ones, and not of the pool.
LEMMA Named ==
  /\ PoolPages \in Nat /\ K4 = PoolPages + 1 /\ K3 = PoolPages + 2 /\ K2 = PoolPages + 3
  /\ Apic = PoolPages + 4 /\ ApicPage = PoolPages + 5 /\ LowestModule = PoolPages + 6
  BY Sizes DEF K4, K3, K2, Apic, ApicPage, LowestModule

LEMMA Indices ==
  /\ Idx \subseteq Nat
  /\ {0, 1, 2} \subseteq Idx
  /\ \A i \in 0 .. MaxPayload + MaxBss - 1 : i \in Idx
  BY Sizes DEF Idx

LEMMA Entries0 ==
  /\ ZeroPage \in [Idx -> Entry]
  /\ \A i \in Idx : ZeroPage[i] = ZeroWord
  /\ \A a \in Frame : Mapped(a) \in Entry
  /\ \A a : /\ Mapped(a) # ZeroWord /\ Mapped(a).a = a
            /\ "P" \in Mapped(a).flags /\ "PS" \notin Mapped(a).flags
<1>1. ZeroWord \in Entry
  BY Frames DEF ZeroWord, Word, Entry
<1>2. \A a : Mapped(a) = [a |-> a, flags |-> {"P", "PCD"}]
  BY DEF Mapped, Word, PGT_W_P_U_MASK
<1>3. \A a : /\ Mapped(a).flags = {"P", "PCD"} /\ Mapped(a).a = a
  BY <1>2
<1>4. ZeroWord.flags = {}
  BY DEF ZeroWord, Word
<1>5. \A a : Mapped(a) # ZeroWord
  BY <1>3, <1>4
<1>6. \A a \in Frame : Mapped(a) \in Entry
  BY <1>2 DEF Entry, Flag
<1> QED BY <1>1, <1>3, <1>5, <1>6 DEF ZeroPage

-----------------------------------------------------------------------------
(* The steps of map_page(), from a state in which k pages are in use.      *)

Standing(M, k, t) == [mem |-> M, used |-> 1 .. k, at |-> t]

\* Page g cleared, and entry i of table t set.
Grow(M, g, t, i, a) == [[M EXCEPT ![g] = ZeroPage] EXCEPT ![t][i] = Mapped(a)]

LEMMA GrownType ==
  ASSUME NEW M \in Memory, NEW g \in Frame, NEW t \in Frame,
         NEW i \in Idx, NEW a \in Frame
  PROVE  Grow(M, g, t, i, a) \in Memory
<1> DEFINE L == [M EXCEPT ![g] = ZeroPage]
<1>1. L \in Memory
  BY Entries0 DEF Memory
<1>2. Grow(M, g, t, i, a) = [L EXCEPT ![t] = [L[t] EXCEPT ![i] = Mapped(a)]]
  BY DEF Grow
<1> HIDE DEF L
<1>3. [L[t] EXCEPT ![i] = Mapped(a)] \in [Idx -> Entry]
  BY <1>1, Entries0 DEF Memory
<1> QED BY <1>1, <1>2, <1>3 DEF Memory

LEMMA Grown ==
  ASSUME NEW M \in Memory, NEW g \in Frame, NEW t \in Frame, g # t,
         NEW i \in Idx, NEW a \in Frame, NEW f \in Frame, NEW j \in Idx
  PROVE  Grow(M, g, t, i, a)[f][j] =
           IF f = g THEN ZeroWord ELSE IF f = t /\ j = i THEN Mapped(a) ELSE M[f][j]
<1> DEFINE L == [M EXCEPT ![g] = ZeroPage]
<1>1. /\ L \in Memory /\ L[f] = IF f = g THEN ZeroPage ELSE M[f]
      /\ L[t] = M[t]
  BY Entries0 DEF Memory
<1>2. Grow(M, g, t, i, a) = [L EXCEPT ![t] = [L[t] EXCEPT ![i] = Mapped(a)]]
  BY DEF Grow
<1> HIDE DEF L
<1>3. DOMAIN L = Frame /\ DOMAIN L[t] = Idx
  BY <1>1 DEF Memory
<1>4. CASE f = t
  BY <1>1, <1>2, <1>3, <1>4
<1>5. CASE f # t
  BY <1>1, <1>2, <1>3, <1>5, Entries0
<1> QED BY <1>4, <1>5

LEMMA SameMemory ==
  ASSUME NEW M \in Memory, NEW N \in Memory,
         \A f \in Frame : \A j \in Idx : M[f][j] = N[f][j]
  PROVE  M = N
<1>1. ASSUME NEW f \in Frame PROVE M[f] = N[f]
  BY DEF Memory
<1> QED BY <1>1 DEF Memory

\* The page that alloc_page() gives out.
LEMMA NextFree ==
  ASSUME NEW M, NEW t, NEW k \in 0 .. PoolPages - 1
  PROVE  /\ FirstFree(Standing(M, k, t)) = k + 1
         /\ AllocPage(Standing(M, k, t)) = Standing(M, k + 1, t)
         /\ AllocCleared(Standing(M, k, t)) = Standing([M EXCEPT ![k + 1] = ZeroPage], k + 1, t)
<1> DEFINE c == Standing(M, k, t)
           free == Pool \ c.used
<1>1. c.used = 1 .. k /\ c.mem = M /\ c.at = t
  BY DEF Standing
<1>2. free = k + 1 .. PoolPages
  BY <1>1, Sizes DEF Pool
<1>3. k + 1 \in free /\ \A g \in free : k + 1 <= g
  BY <1>2, Sizes
<1>4. \A f \in free : (\A g \in free : f <= g) => f = k + 1
  BY <1>2, <1>3
<1>5. FirstFree(c) = k + 1
  <2>1. FirstFree(c) = CHOOSE f \in free : \A g \in free : f <= g
    BY <1>3 DEF FirstFree
  <2> HIDE DEF free, c
  <2>2. (CHOOSE f \in free : \A g \in free : f <= g) = k + 1
    BY <1>3, <1>4
  <2> QED BY <2>1, <2>2
<1>6. (1 .. k) \cup ({k + 1} \ {0}) = 1 .. k + 1
  OBVIOUS
<1>7. AllocPage(c) = [c EXCEPT !.used = (1 .. k) \cup ({k + 1} \ {0})]
  BY <1>1, <1>5 DEF AllocPage
<1>8. AllocPage(c) = Standing(M, k + 1, t)
  BY <1>6, <1>7 DEF Standing
<1>9. AllocCleared(c) = [Standing(M, k + 1, t) EXCEPT !.mem[k + 1] = ZeroPage]
  BY <1>5, <1>8, Zenon DEF AllocCleared
<1>10. AllocCleared(c) = Standing([M EXCEPT ![k + 1] = ZeroPage], k + 1, t)
  BY <1>9 DEF Standing
<1> QED BY <1>5, <1>8, <1>10

LEMMA SetsEntry ==
  ASSUME NEW M, NEW k, NEW u, NEW t, NEW i, NEW a
  PROVE  SetEntry(Standing(M, k, u), t, i, a) =
           Standing([M EXCEPT ![t][i] = Mapped(a)], k, u)
  BY DEF SetEntry, Standing, Mapped

\* An entry that is there is followed.
LEMMA DescendsPresent ==
  ASSUME NEW M, NEW k, NEW t, NEW i, NEW a, M[t][i] = Mapped(a)
  PROVE  Descend(Standing(M, k, t), i) = Standing(M, k, a)
<1>1. Standing(M, k, t).mem = M /\ Standing(M, k, t).at = t
  BY DEF Standing
<1>2. M[t][i] # ZeroWord /\ M[t][i].a = a
  BY Entries0
<1>3. Descend(Standing(M, k, t), i) = [Standing(M, k, t) EXCEPT !.at = M[t][i].a]
  BY <1>1, <1>2 DEF Descend
<1> QED BY <1>2, <1>3 DEF Standing

\* One that is not is given a table.
LEMMA DescendsAbsent ==
  ASSUME NEW M \in Memory, NEW k \in 0 .. PoolPages - 1, NEW t \in Frame, t # k + 1,
         NEW i \in Idx, M[t][i] = ZeroWord
  PROVE  Descend(Standing(M, k, t), i) =
           Standing(Grow(M, k + 1, t, i, k + 1), k + 1, k + 1)
<1> DEFINE c == Standing(M, k, t)
           N == Grow(M, k + 1, t, i, k + 1)
<1>1. c.mem = M /\ c.at = t
  BY DEF Standing
<1>2. AllocCleared(c) = Standing([M EXCEPT ![k + 1] = ZeroPage], k + 1, t) /\ FirstFree(c) = k + 1
  BY NextFree
<1> HIDE DEF c
<1>3. SetEntry(AllocCleared(c), c.at, i, FirstFree(c)) = Standing(N, k + 1, t)
  <2>1. SetEntry(Standing([M EXCEPT ![k + 1] = ZeroPage], k + 1, t), t, i, k + 1) =
          Standing([[M EXCEPT ![k + 1] = ZeroPage] EXCEPT ![t][i] = Mapped(k + 1)], k + 1, t)
    BY DEF SetEntry, Standing, Mapped
  <2> QED BY <1>1, <1>2, <2>1, Zenon DEF Grow
<1>4. Descend(c, i) = [Standing(N, k + 1, t) EXCEPT !.at = Standing(N, k + 1, t).mem[c.at][i].a]
  BY <1>1, <1>3, Zenon DEF Descend
<1>5. k + 1 \in Frame
  BY Frames, Named, Sizes
<1>6. N[t][i] = Mapped(k + 1)
  <2>1. PICK g \in Frame : g = k + 1
    BY <1>5
  <2>2. Grow(M, g, t, i, g)[t][i] = Mapped(g)
    BY <2>1, Grown
  <2> QED BY <2>1, <2>2
<1> HIDE DEF N
<1>7. Standing(N, k + 1, t).mem[c.at][i].a = k + 1
  BY <1>1, <1>6, Entries0 DEF Standing
<1>8. Descend(c, i) = Standing(N, k + 1, k + 1)
  BY <1>4, <1>7 DEF Standing
<1> QED BY <1>8 DEF c, N

\* map_page() from a state d in which it stands at the last table.
LEMMA MapsLeaf ==
  ASSUME NEW c, NEW pgt, NEW v, NEW pa, NEW M \in Memory, NEW k \in 0 .. PoolPages - 1,
         NEW t, M[t][v[4]] = ZeroWord,
         Descend(Descend(Descend([c EXCEPT !.at = pgt], v[1]), v[2]), v[3]) = Standing(M, k, t)
  PROVE  MapPage(c, pgt, v, pa) = Standing(Grow(M, k + 1, t, v[4], pa), k + 1, t)
<1>1. Standing(M, k, t).mem = M /\ Standing(M, k, t).at = t
  BY DEF Standing
<1>2. MapPage(c, pgt, v, pa) = SetEntry(AllocCleared(Standing(M, k, t)), t, v[4], pa)
  BY <1>1, Zenon DEF MapPage
<1>3. AllocCleared(Standing(M, k, t)) = Standing([M EXCEPT ![k + 1] = ZeroPage], k + 1, t)
  BY NextFree
<1>4. SetEntry(Standing([M EXCEPT ![k + 1] = ZeroPage], k + 1, t), t, v[4], pa) =
        Standing([[M EXCEPT ![k + 1] = ZeroPage] EXCEPT ![t][v[4]] = Mapped(pa)], k + 1, t)
  BY DEF SetEntry, Standing, Mapped
<1> QED BY <1>2, <1>3, <1>4, Zenon DEF Grow

-----------------------------------------------------------------------------
(* What load_task() leaves in memory.                                      *)

\* The words of memory M, of which k pages of the pool were in use, with the
\* tables of a task of n pages from p on.  x is the entry that the new PML3
\* takes over.
TaskMem(M, k, x, p, n) ==
  [f \in Frame |-> [j \in Idx |->
     CASE f = 0 -> IF j = 0 THEN Mapped(k + 1) ELSE M[0][j]
       [] f = k + 1 -> IF j = 1 THEN x ELSE IF j = 2 THEN Mapped(k + 2) ELSE ZeroWord
       [] f = k + 2 -> IF j = 0 THEN Mapped(k + 3) ELSE ZeroWord
       [] f = k + 3 -> IF j < n THEN Mapped(p + j) ELSE ZeroWord
       [] f \in k + 4 .. k + 3 + n -> ZeroWord
       [] OTHER -> M[f][j]]]

\* There is room for them.
Room(M, k, x, p, n) ==
  /\ M \in Memory /\ x \in Entry
  /\ k \in Nat /\ k + 3 + n <= PoolPages
  /\ n \in Nat \ {0} /\ n <= MaxPayload + MaxBss
  /\ p \in Nat /\ \A i \in 0 .. n - 1 : p + i \in Frame

LEMMA RoomForLess ==
  ASSUME NEW M, NEW k, NEW x, NEW p, NEW m, Room(M, k, x, p, m), NEW n \in 1 .. m
  PROVE  Room(M, k, x, p, n)
<1>1. /\ k \in Nat /\ k + 3 + m <= PoolPages /\ m \in Nat /\ m <= MaxPayload + MaxBss
      /\ \A i \in 0 .. m - 1 : p + i \in Frame
  BY DEF Room
<1>2. n \in Nat \ {0} /\ k + 3 + n <= PoolPages /\ n <= MaxPayload + MaxBss
  BY <1>1, Sizes
<1>3. \A i \in 0 .. n - 1 : i \in 0 .. m - 1
  BY <1>1
<1> QED BY <1>1, <1>2, <1>3 DEF Room

LEMMA TaskMemWords ==
  ASSUME NEW M, NEW k, NEW x, NEW p, NEW n, Room(M, k, x, p, n),
         NEW f \in Frame, NEW j \in Idx, NEW T, T = TaskMem(M, k, x, p, n)
  PROVE  /\ f = 0 => T[f][j] = IF j = 0 THEN Mapped(k + 1) ELSE M[0][j]
         /\ f = k + 1 =>
              T[f][j] = IF j = 1 THEN x ELSE IF j = 2 THEN Mapped(k + 2) ELSE ZeroWord
         /\ f = k + 2 => T[f][j] = IF j = 0 THEN Mapped(k + 3) ELSE ZeroWord
         /\ f = k + 3 => T[f][j] = IF j < n THEN Mapped(p + j) ELSE ZeroWord
         /\ f \in k + 4 .. k + 3 + n => T[f][j] = ZeroWord
         /\ f # 0 /\ f \notin k + 1 .. k + 3 + n => T[f][j] = M[f][j]
<1> k \in Nat /\ n \in Nat \ {0} /\ f \in Nat
  BY Frames DEF Room
<1> DEFINE w == CASE f = 0 -> IF j = 0 THEN Mapped(k + 1) ELSE M[0][j]
                  [] f = k + 1 ->
                       IF j = 1 THEN x ELSE IF j = 2 THEN Mapped(k + 2) ELSE ZeroWord
                  [] f = k + 2 -> IF j = 0 THEN Mapped(k + 3) ELSE ZeroWord
                  [] f = k + 3 -> IF j < n THEN Mapped(p + j) ELSE ZeroWord
                  [] f \in k + 4 .. k + 3 + n -> ZeroWord
                  [] OTHER -> M[f][j]
<1>1. T[f][j] = w
  BY DEF TaskMem
<1>2. CASE f = 0
  BY <1>1, <1>2
<1>3. CASE f = k + 1
  BY <1>1, <1>3
<1>4. CASE f = k + 2
  BY <1>1, <1>4
<1>5. CASE f = k + 3
  BY <1>1, <1>5
<1>6. CASE f \in k + 4 .. k + 3 + n
  BY <1>1, <1>6
<1>7. CASE f # 0 /\ f \notin k + 1 .. k + 3 + n
  BY <1>1, <1>7
<1> QED BY <1>2, <1>3, <1>4, <1>5, <1>6, <1>7

LEMMA TaskMemType ==
  ASSUME NEW M, NEW k, NEW x, NEW p, NEW n, Room(M, k, x, p, n)
  PROVE  TaskMem(M, k, x, p, n) \in Memory
<1> DEFINE T == TaskMem(M, k, x, p, n)
<1>1. k \in Nat /\ n \in Nat \ {0} /\ M \in Memory /\ x \in Entry /\ k + 3 + n <= PoolPages
  BY DEF Room
<1>2. ZeroWord \in Entry
  BY Entries0, Indices
<1>3. Mapped(k + 1) \in Entry /\ Mapped(k + 2) \in Entry /\ Mapped(k + 3) \in Entry
  BY <1>1, Entries0, Frames, Named, Sizes
<1>4. ASSUME NEW f \in Frame, NEW j \in Idx PROVE T[f][j] \in Entry
  <2> f \in Nat /\ j \in Nat
    BY Frames, Indices
  <2>1. M[f][j] \in Entry /\ M[0][j] \in Entry
    BY <1>1, Frames DEF Memory
  <2>2. j < n => Mapped(p + j) \in Entry
    BY <1>1, Entries0 DEF Room
  <2>3. /\ f = 0 => T[f][j] = IF j = 0 THEN Mapped(k + 1) ELSE M[0][j]
        /\ f = k + 1 =>
             T[f][j] = IF j = 1 THEN x ELSE IF j = 2 THEN Mapped(k + 2) ELSE ZeroWord
        /\ f = k + 2 => T[f][j] = IF j = 0 THEN Mapped(k + 3) ELSE ZeroWord
        /\ f = k + 3 => T[f][j] = IF j < n THEN Mapped(p + j) ELSE ZeroWord
        /\ f \in k + 4 .. k + 3 + n => T[f][j] = ZeroWord
        /\ f # 0 /\ f \notin k + 1 .. k + 3 + n => T[f][j] = M[f][j]
    BY TaskMemWords
  <2> HIDE DEF T
  <2> QED BY <1>1, <1>2, <1>3, <2>1, <2>2, <2>3
<1>5. T = [f \in Frame |-> [j \in Idx |-> T[f][j]]]
  BY DEF TaskMem
<1> HIDE DEF T
<1>6. T \in Memory
  BY <1>4, <1>5 DEF Memory
<1> QED BY <1>6 DEF T

\* After the first step of load_task(): the root has its new PML3.
Rooted(N, M, k, x) ==
  /\ N \in Memory
  /\ \A f \in Frame : \A j \in Idx :
       N[f][j] = IF f = 0 /\ j = 0 THEN Mapped(k + 1)
                 ELSE IF f = k + 1 THEN IF j = 1 THEN x ELSE ZeroWord
                 ELSE M[f][j]

\* The first page of a task takes two tables along.
LEMMA FirstPage ==
  ASSUME NEW M, NEW k, NEW x, NEW p, Room(M, k, x, p, 1),
         NEW N, Rooted(N, M, k, x), NEW u
  PROVE  MapPage(Standing(N, k + 1, u), 0, TaskPage(0), p) =
           Standing(TaskMem(M, k, x, p, 1), k + 4, k + 3)
<1>1. /\ N \in Memory /\ M \in Memory /\ k \in Nat /\ k + 4 <= PoolPages
      /\ p \in Frame /\ PoolPages \in Nat
  <2>1. p + 0 \in Frame /\ p \in Nat
    BY DEF Room
  <2> QED BY <2>1, Sizes DEF Room, Rooted
<1>2. {0, k + 1, k + 2, k + 3, k + 4} \subseteq Frame /\ {0, 1, 2} \subseteq Idx
  BY <1>1, Frames, Named, Indices
<1>3. PICK g1 \in Frame, g2 \in Frame, g3 \in Frame, g4 \in Frame :
        g1 = k + 1 /\ g2 = k + 2 /\ g3 = k + 3 /\ g4 = k + 4
  BY <1>2
<1>4. /\ g1 # 0 /\ g2 # 0 /\ g3 # 0 /\ g4 # 0 /\ g1 # g2 /\ g1 # g3 /\ g1 # g4
      /\ g2 # g3 /\ g2 # g4 /\ g3 # g4 /\ 0 \in Frame
  BY <1>1, <1>2, <1>3
<1> DEFINE N1 == Grow(N, g2, g1, 2, g2)
           N2 == Grow(N1, g3, g2, 0, g3)
           N3 == Grow(N2, g4, g3, 0, p)
<1>5. N1 \in Memory /\ N2 \in Memory /\ N3 \in Memory
  <2>1. N1 \in Memory
    BY <1>1, <1>2, GrownType
  <2> HIDE DEF N1
  <2>2. N2 \in Memory
    BY <1>2, <2>1, GrownType
  <2> HIDE DEF N2
  <2>3. N3 \in Memory
    BY <1>1, <1>2, <2>2, GrownType
  <2> QED BY <2>1, <2>2, <2>3
<1>6. \A f \in Frame : \A j \in Idx :
        N[f][j] = IF f = 0 /\ j = 0 THEN Mapped(g1)
                  ELSE IF f = g1 THEN IF j = 1 THEN x ELSE ZeroWord
                  ELSE M[f][j]
  BY <1>3 DEF Rooted
<1>7. ASSUME NEW f \in Frame, NEW j \in Idx
      PROVE  N1[f][j] = IF f = g2 THEN ZeroWord
                        ELSE IF f = g1 /\ j = 2 THEN Mapped(g2) ELSE N[f][j]
  <2>1. 2 \in Idx /\ g2 # g1 /\ N \in Memory
    BY <1>1, <1>2, <1>4
  <2> QED BY <2>1, Grown
<1>8. ASSUME NEW f \in Frame, NEW j \in Idx
      PROVE  N2[f][j] = IF f = g3 THEN ZeroWord
                        ELSE IF f = g2 /\ j = 0 THEN Mapped(g3) ELSE N1[f][j]
  <2>1. 0 \in Idx /\ g3 # g2 /\ N1 \in Memory
    BY <1>2, <1>4, <1>5
  <2> HIDE DEF N1
  <2> QED BY <2>1, Grown
<1>9. ASSUME NEW f \in Frame, NEW j \in Idx
      PROVE  N3[f][j] = IF f = g4 THEN ZeroWord
                        ELSE IF f = g3 /\ j = 0 THEN Mapped(p) ELSE N2[f][j]
  <2>1. 0 \in Idx /\ g4 # g3 /\ N2 \in Memory /\ p \in Frame
    BY <1>1, <1>2, <1>4, <1>5
  <2> HIDE DEF N1, N2
  <2> QED BY <2>1, Grown
<1>10. Descend(Standing(N, g1, 0), 0) = Standing(N, g1, g1)
  <2>1. N[0][0] = Mapped(g1)
    BY <1>2, <1>6
  <2> QED BY <2>1, DescendsPresent
<1>11. Descend(Standing(N, g1, g1), 2) = Standing(N1, g2, g2)
  <2>1. N[g1][2] = ZeroWord
    BY <1>2, <1>4, <1>6
  <2>2. g1 \in 0 .. PoolPages - 1 /\ g1 + 1 = g2 /\ g1 # g1 + 1
    BY <1>1, <1>3
  <2>3. Descend(Standing(N, g1, g1), 2) = Standing(Grow(N, g1 + 1, g1, 2, g1 + 1), g1 + 1, g1 + 1)
    BY <1>1, <1>2, <2>1, <2>2, DescendsAbsent
  <2> QED BY <2>2, <2>3
<1>12. Descend(Standing(N1, g2, g2), 0) = Standing(N2, g3, g3)
  <2>1. N1[g2][0] = ZeroWord
    BY <1>2, <1>7
  <2> HIDE DEF N1
  <2>2. g2 \in 0 .. PoolPages - 1 /\ g2 + 1 = g3 /\ g2 # g2 + 1
    BY <1>1, <1>3
  <2>3. Descend(Standing(N1, g2, g2), 0) = Standing(Grow(N1, g2 + 1, g2, 0, g2 + 1), g2 + 1, g2 + 1)
    BY <1>2, <1>5, <2>1, <2>2, DescendsAbsent
  <2> QED BY <2>2, <2>3
<1>13. TaskPage(0)[1] = 0 /\ TaskPage(0)[2] = 2 /\ TaskPage(0)[3] = 0 /\ TaskPage(0)[4] = 0
  BY DEF TaskPage
<1>14. MapPage(Standing(N, g1, u), 0, TaskPage(0), p) = Standing(N3, g4, g3)
  <2> DEFINE c == Standing(N, g1, u)
             v == TaskPage(0)
  <2>1. [c EXCEPT !.at = 0] = Standing(N, g1, 0)
    BY DEF Standing
  <2> HIDE DEF N1, c
  <2>2. N2[g3][0] = ZeroWord
    BY <1>2, <1>8
  <2> HIDE DEF N2, v
  <2>3. Descend(Descend(Descend([c EXCEPT !.at = 0], v[1]), v[2]), v[3]) = Standing(N2, g3, g3)
    BY <1>10, <1>11, <1>12, <1>13, <2>1, Zenon DEF v
  <2>4. g3 \in 0 .. PoolPages - 1 /\ g3 + 1 = g4 /\ v[4] = 0
    BY <1>1, <1>3, <1>13 DEF v
  <2>5. MapPage(c, 0, v, p) = Standing(Grow(N2, g3 + 1, g3, v[4], p), g3 + 1, g3)
    BY <1>5, <2>2, <2>3, <2>4, MapsLeaf
  <2> QED BY <2>4, <2>5 DEF c, v
<1> HIDE DEF N1, N2, N3
<1> DEFINE T == TaskMem(M, k, x, p, 1)
<1>15. T \in Memory
  BY TaskMemType
<1>16. ASSUME NEW f \in Frame, NEW j \in Idx PROVE N3[f][j] = T[f][j]
  <2>1. /\ f = 0 => T[f][j] = IF j = 0 THEN Mapped(k + 1) ELSE M[0][j]
        /\ f = k + 1 =>
             T[f][j] = IF j = 1 THEN x ELSE IF j = 2 THEN Mapped(k + 2) ELSE ZeroWord
        /\ f = k + 2 => T[f][j] = IF j = 0 THEN Mapped(k + 3) ELSE ZeroWord
        /\ f = k + 3 => T[f][j] = IF j < 1 THEN Mapped(p + j) ELSE ZeroWord
        /\ f \in k + 4 .. k + 3 + 1 => T[f][j] = ZeroWord
        /\ f # 0 /\ f \notin k + 1 .. k + 3 + 1 => T[f][j] = M[f][j]
    BY TaskMemWords
  <2> HIDE DEF T
  <2>2. j \in Nat /\ f \in Nat /\ p \in Nat
    BY Indices, Frames DEF Room
  <2>3. CASE f = 0
    BY <1>4, <1>6, <1>7, <1>8, <1>9, <1>3, <2>1, <2>3
  <2>4. CASE f = g1
    BY <1>4, <1>6, <1>7, <1>8, <1>9, <1>3, <2>1, <2>4
  <2>5. CASE f = g2
    BY <1>4, <1>7, <1>8, <1>9, <1>3, <2>1, <2>5
  <2>6. CASE f = g3
    <3>1. N3[f][j] = IF j = 0 THEN Mapped(p) ELSE ZeroWord
      BY <1>4, <1>8, <1>9, <2>6
    <3>2. T[f][j] = IF j < 1 THEN Mapped(p + j) ELSE ZeroWord
      BY <1>3, <2>1, <2>6
    <3>3. p + 0 = p /\ (j < 1 <=> j = 0)
      BY <2>2
    <3> QED BY <3>1, <3>2, <3>3
  <2>7. CASE f = g4
    <3>1. f \in k + 4 .. k + 3 + 1
      BY <1>1, <1>3, <2>7
    <3> QED BY <1>9, <2>1, <2>7, <3>1
  <2>8. CASE f \notin {0, g1, g2, g3, g4}
    <3>1. f \notin k + 1 .. k + 3 + 1
      BY <1>1, <1>3, <2>2, <2>8
    <3> QED BY <1>6, <1>7, <1>8, <1>9, <2>1, <2>8, <3>1
  <2> QED BY <2>3, <2>4, <2>5, <2>6, <2>7, <2>8
<1>17. N3 = T
  BY <1>5, <1>15, <1>16, SameMemory
<1> QED BY <1>3, <1>14, <1>17

\* Every further page finds the tables.
LEMMA NextPage ==
  ASSUME NEW M, NEW k, NEW x, NEW p, NEW n \in Nat \ {0}, Room(M, k, x, p, n + 1), NEW u
  PROVE  MapPage(Standing(TaskMem(M, k, x, p, n), k + 3 + n, u), 0, TaskPage(n), p + n) =
           Standing(TaskMem(M, k, x, p, n + 1), k + 3 + (n + 1), k + 3)
<1>1. /\ M \in Memory /\ k \in Nat /\ k + 3 + (n + 1) <= PoolPages
      /\ p + n \in Frame /\ p \in Nat /\ PoolPages \in Nat /\ n + 1 <= MaxPayload + MaxBss
  BY Sizes DEF Room
<1>2. Room(M, k, x, p, n)
  <2>1. n \in 1 .. n + 1
    OBVIOUS
  <2> QED BY <2>1, RoomForLess
<1>3. PICK g1 \in Frame, g2 \in Frame, g3 \in Frame, g4 \in Frame, l \in Nat :
        g1 = k + 1 /\ g2 = k + 2 /\ g3 = k + 3 /\ g4 = k + 3 + (n + 1) /\ l = k + 3 + n
  <2>1. \A f \in 1 .. PoolPages : f \in Frame
    BY <1>1, Frames, Named
  <2>2. {k + 1, k + 2, k + 3, k + 3 + (n + 1)} \subseteq 1 .. PoolPages
    BY <1>1
  <2>3. k + 3 + n \in Nat
    BY <1>1
  <2> QED BY <2>1, <2>2, <2>3
<1>4. /\ g1 # 0 /\ g2 # 0 /\ g3 # 0 /\ g1 # g2 /\ g1 # g3 /\ g2 # g3 /\ g4 # g3
      /\ g1 \in Nat /\ g2 \in Nat /\ g3 \in Nat /\ g4 \in Nat
      /\ 0 \in Frame /\ 0 \in Idx /\ 2 \in Idx /\ n \in Idx
  BY <1>1, <1>3, Frames, Indices, Sizes
<1> DEFINE T == TaskMem(M, k, x, p, n)
           U == TaskMem(M, k, x, p, n + 1)
           V == Grow(T, g4, g3, n, p + n)
<1>5. T \in Memory /\ U \in Memory
  BY <1>2, TaskMemType
<1>6. ASSUME NEW f \in Frame, NEW j \in Idx
      PROVE  /\ f = 0 => T[f][j] = IF j = 0 THEN Mapped(k + 1) ELSE M[0][j]
             /\ f = k + 1 =>
                  T[f][j] = IF j = 1 THEN x ELSE IF j = 2 THEN Mapped(k + 2) ELSE ZeroWord
             /\ f = k + 2 => T[f][j] = IF j = 0 THEN Mapped(k + 3) ELSE ZeroWord
             /\ f = k + 3 => T[f][j] = IF j < n THEN Mapped(p + j) ELSE ZeroWord
             /\ f \in k + 4 .. k + 3 + n => T[f][j] = ZeroWord
             /\ f # 0 /\ f \notin k + 1 .. k + 3 + n => T[f][j] = M[f][j]
  BY <1>2, TaskMemWords
<1>7. ASSUME NEW f \in Frame, NEW j \in Idx
      PROVE  /\ f = 0 => U[f][j] = IF j = 0 THEN Mapped(k + 1) ELSE M[0][j]
             /\ f = k + 1 =>
                  U[f][j] = IF j = 1 THEN x ELSE IF j = 2 THEN Mapped(k + 2) ELSE ZeroWord
             /\ f = k + 2 => U[f][j] = IF j = 0 THEN Mapped(k + 3) ELSE ZeroWord
             /\ f = k + 3 => U[f][j] = IF j < n + 1 THEN Mapped(p + j) ELSE ZeroWord
             /\ f \in k + 4 .. k + 3 + (n + 1) => U[f][j] = ZeroWord
             /\ f # 0 /\ f \notin k + 1 .. k + 3 + (n + 1) => U[f][j] = M[f][j]
  BY TaskMemWords
<1> HIDE DEF T, U
<1>8. V \in Memory
  BY <1>1, <1>4, <1>5, GrownType
<1>9. ASSUME NEW f \in Frame, NEW j \in Idx
      PROVE  V[f][j] = IF f = g4 THEN ZeroWord
                       ELSE IF f = g3 /\ j = n THEN Mapped(p + n) ELSE T[f][j]
  <2>1. g4 # g3 /\ n \in Idx /\ p + n \in Frame
    BY <1>1, <1>4
  <2>2. PICK a \in Frame : a = p + n
    BY <2>1
  <2>3. Grow(T, g4, g3, n, a)[f][j] = IF f = g4 THEN ZeroWord
                       ELSE IF f = g3 /\ j = n THEN Mapped(a) ELSE T[f][j]
    BY <1>5, <2>1, Grown
  <2> QED BY <2>2, <2>3
<1>10. V = U
  <2>1. ASSUME NEW f \in Frame, NEW j \in Idx PROVE V[f][j] = U[f][j]
    <3> j \in Nat /\ f \in Nat
      BY Indices, Frames
    <3> HIDE DEF V
    <3>1. CASE f = 0
      BY <1>4, <1>6, <1>7, <1>9, <1>3, <1>1, <3>1
    <3>2. CASE f = g1
      BY <1>4, <1>6, <1>7, <1>9, <1>3, <1>1, <3>2
    <3>3. CASE f = g2
      BY <1>4, <1>6, <1>7, <1>9, <1>3, <1>1, <3>3
    <3>4. CASE f = g3
      <4>1. V[f][j] = IF j = n THEN Mapped(p + n) ELSE T[f][j]
        BY <1>4, <1>9, <3>4
      <4>2. T[f][j] = IF j < n THEN Mapped(p + j) ELSE ZeroWord
        BY <1>3, <1>6, <3>4
      <4>3. U[f][j] = IF j < n + 1 THEN Mapped(p + j) ELSE ZeroWord
        BY <1>3, <1>7, <3>4
      <4>4. CASE j < n
        BY <4>1, <4>2, <4>3, <4>4
      <4>5. CASE j = n
        BY <4>1, <4>3, <4>5
      <4>6. CASE j > n
        BY <4>1, <4>2, <4>3, <4>6
      <4> QED BY <4>4, <4>5, <4>6
    <3>5. CASE f \in k + 4 .. k + 3 + n
      <4>1. f # g4 /\ f # g3 /\ f \in k + 4 .. k + 3 + (n + 1)
        BY <1>1, <1>3, <3>5
      <4> QED BY <1>6, <1>7, <1>9, <3>5, <4>1
    <3>6. CASE f = g4
      <4>1. f \in k + 4 .. k + 3 + (n + 1)
        BY <1>1, <1>3, <3>6
      <4> QED BY <1>7, <1>9, <3>6, <4>1
    <3>7. CASE f # 0 /\ f \notin k + 1 .. k + 3 + (n + 1)
      <4>1. f # g4 /\ f # g3 /\ f \notin k + 1 .. k + 3 + n
        BY <1>1, <1>3, <3>7
      <4> QED BY <1>6, <1>7, <1>9, <3>7, <4>1
    <3>8. \/ f = 0 \/ f = g1 \/ f = g2 \/ f = g3 \/ f \in k + 4 .. k + 3 + n
          \/ f = g4 \/ f \notin k + 1 .. k + 3 + (n + 1)
      BY <1>1, <1>3
    <3> QED BY <3>1, <3>2, <3>3, <3>4, <3>5, <3>6, <3>7, <3>8
  <2> HIDE DEF V
  <2> QED BY <1>5, <1>8, <2>1, SameMemory
<1>11. /\ TaskPage(n)[1] = 0 /\ TaskPage(n)[2] = 2 /\ TaskPage(n)[3] = 0
       /\ TaskPage(n)[4] = n
  BY DEF TaskPage
<1>12. T[0][0] = Mapped(g1) /\ T[g1][2] = Mapped(g2) /\ T[g2][0] = Mapped(g3)
  BY <1>3, <1>4, <1>6
<1>13. T[g3][n] = ZeroWord
  BY <1>3, <1>4, <1>6
<1>14. /\ Descend(Standing(T, l, 0), 0) = Standing(T, l, g1)
       /\ Descend(Standing(T, l, g1), 2) = Standing(T, l, g2)
       /\ Descend(Standing(T, l, g2), 0) = Standing(T, l, g3)
  BY <1>12, DescendsPresent
<1> DEFINE c == Standing(T, l, u)
           v == TaskPage(n)
<1>15. [c EXCEPT !.at = 0] = Standing(T, l, 0)
  BY DEF Standing
<1>16. l \in 0 .. PoolPages - 1 /\ l + 1 = g4 /\ v[4] = n
  BY <1>1, <1>3, <1>11
<1> HIDE DEF c, v
<1>17. Descend(Descend(Descend([c EXCEPT !.at = 0], v[1]), v[2]), v[3]) = Standing(T, l, g3)
  BY <1>11, <1>14, <1>15, Zenon DEF v
<1>18. T[g3][v[4]] = ZeroWord
  BY <1>13, <1>16
<1>19. MapPage(c, 0, v, p + n) = Standing(Grow(T, l + 1, g3, v[4], p + n), l + 1, g3)
  BY <1>5, <1>16, <1>17, <1>18, MapsLeaf
<1> HIDE DEF V
<1>20. MapPage(c, 0, v, p + n) = Standing(U, g4, g3)
  BY <1>10, <1>16, <1>19 DEF V
<1> QED BY <1>3, <1>20 DEF c, v, T, U

\* f takes the values of the recursion of LoadPages().
Loads(f, c, t, m) ==
  f = [n \in 0 .. m |->
         IF n = 0 THEN c
         ELSE MapPage(f[n - 1], t.pgt, TaskPage(n - 1), t.load_paddr + (n - 1))]

\* What holds of 0, and of l + 1 when it holds of l, holds up to n.
LEMMA UpInduction ==
  ASSUME NEW n \in Nat, NEW T, 0 \in T,
         \A l \in 0 .. n - 1 : l \in T => l + 1 \in T
  PROVE  \A l \in 0 .. n : l \in T
<1> DEFINE R == {ss \in Nat \X Nat : ss[1] < ss[2]}
           B == {k \in 0 .. n : k \notin T}
<1> SUFFICES ASSUME B # {} PROVE FALSE
  OBVIOUS
<1>1. IsWellFoundedOn(R, Nat)
  BY NatLessThanWellFounded DEF OpToRel
<1>2. PICK m \in B : \A k \in B : ~ (<<k, m>> \in R)
  <2> B \subseteq Nat
    OBVIOUS
  <2> HIDE DEF R, B
  <2> QED BY <1>1, WFMin
<1>3. m # 0 /\ m \in 0 .. n /\ m \notin T
  OBVIOUS
<1>4. m - 1 \in 0 .. n - 1 /\ <<m - 1, m>> \in R /\ (m - 1) + 1 = m
  BY <1>3
<1>5. m - 1 \in T
  <2>1. m - 1 \notin B
    BY <1>2, <1>4
  <2>2. m - 1 \in 0 .. n
    BY <1>4
  <2> QED BY <2>1, <2>2
<1> QED BY <1>3, <1>4, <1>5

\* Its value is what the pages of the task, one after the other, lead to.
LEMMA LoadsPages ==
  ASSUME NEW M, NEW k, NEW x, NEW N, Rooted(N, M, k, x), NEW t \in Task,
         Room(M, k, x, t.load_paddr, t.payload + t.bss)
  PROVE  LoadPages(Standing(N, k + 1, 0), t) =
           Standing(TaskMem(M, k, x, t.load_paddr, t.payload + t.bss),
                    k + 3 + (t.payload + t.bss), k + 3)
<1> DEFINE c == Standing(N, k + 1, 0)
           p == t.load_paddr
           After(n) == Standing(TaskMem(M, k, x, p, n), k + 3 + n, k + 3)
<1>1. PICK m \in Nat \ {0} : m = t.payload + t.bss
  <2>1. t.payload \in Nat \ {0} /\ t.bss \in Nat
    BY Sizes DEF Task
  <2> QED BY <2>1
<1>2. t.pgt = 0 /\ p \in Nat /\ k \in Nat
  BY DEF Task, Room
<1>3. \A n \in 1 .. m : Room(M, k, x, p, n)
  <2>1. Room(M, k, x, p, m)
    BY <1>1
  <2> QED BY <2>1, RoomForLess
<1>4. MapPage(c, 0, TaskPage(0), p) = After(1)
  <2>1. Room(M, k, x, p, 1)
    BY <1>3
  <2>2. MapPage(Standing(N, k + 1, 0), 0, TaskPage(0), p) =
          Standing(TaskMem(M, k, x, p, 1), k + 4, k + 3)
    BY <2>1, FirstPage
  <2>3. k + 3 + 1 = k + 4
    BY <1>2
  <2> QED BY <2>2, <2>3
<1>5. ASSUME NEW n \in 1 .. m - 1
      PROVE  MapPage(After(n), 0, TaskPage(n), p + n) = After(n + 1)
  <2>1. Room(M, k, x, p, n + 1) /\ n \in Nat \ {0}
    BY <1>3
  <2> QED BY <2>1, NextPage
<1> HIDE DEF c, p, After
<1> DEFINE F == [n \in 0 .. m |-> IF n = 0 THEN c ELSE After(n)]
<1>6. Loads(F, c, t, m)
  <2>1. ASSUME NEW n \in 0 .. m, n # 0
        PROVE  F[n] = MapPage(F[n - 1], t.pgt, TaskPage(n - 1), t.load_paddr + (n - 1))
    <3>1. CASE n = 1
      <4>1. F[n - 1] = c /\ F[n] = After(1) /\ n - 1 = 0 /\ t.load_paddr + (n - 1) = p
        BY <1>1, <1>2, <3>1 DEF p
      <4> HIDE DEF F
      <4> QED BY <1>2, <1>4, <4>1
    <3>2. CASE n # 1
      <4>1. PICK l \in 1 .. m - 1 : n = l + 1
        BY <2>1, <3>2
      <4>2. F[n - 1] = After(l) /\ F[n] = After(l + 1) /\ n - 1 = l
        BY <4>1
      <4> HIDE DEF F
      <4> QED BY <1>2, <1>5, <4>1, <4>2 DEF p
    <3> QED BY <3>1, <3>2
  <2>2. F[0] = c
    OBVIOUS
  <2>3. F = [n \in 0 .. m |-> F[n]]
    OBVIOUS
  <2> HIDE DEF F
  <2> QED BY <2>1, <2>2, <2>3 DEF Loads
<1>7. ASSUME NEW f, Loads(f, c, t, m) PROVE f[m] = F[m]
  <2> DEFINE S == {n \in 0 .. m : f[n] = F[n]}
  <2>1. \A n \in 0 .. m :
          /\ f[n] = IF n = 0 THEN c
                    ELSE MapPage(f[n - 1], t.pgt, TaskPage(n - 1), t.load_paddr + (n - 1))
          /\ F[n] = IF n = 0 THEN c
                    ELSE MapPage(F[n - 1], t.pgt, TaskPage(n - 1), t.load_paddr + (n - 1))
    <3> HIDE DEF F
    <3> QED BY <1>6, <1>7 DEF Loads
  <2> HIDE DEF F
  <2>2. 0 \in S
    BY <1>1, <2>1
  <2>3. ASSUME NEW n \in 0 .. m - 1, n \in S PROVE n + 1 \in S
    <3>1. n + 1 \in 0 .. m /\ n + 1 # 0 /\ (n + 1) - 1 = n
      BY <1>1
    <3>2. f[n + 1] = MapPage(f[n], t.pgt, TaskPage(n), t.load_paddr + n)
      BY <2>1, <3>1
    <3>3. F[n + 1] = MapPage(F[n], t.pgt, TaskPage(n), t.load_paddr + n)
      BY <2>1, <3>1
    <3> QED BY <2>3, <3>1, <3>2, <3>3
  <2> HIDE DEF S
  <2>4. \A n \in 0 .. m : n \in S
    BY <2>2, <2>3, UpInduction
  <2> QED BY <1>1, <2>4 DEF S
<1>8. LoadPages(c, t) = (CHOOSE f : Loads(f, c, t, m))[m]
  BY <1>1, Zenon DEF LoadPages, Loads
<1> HIDE DEF F
<1>9. Loads(CHOOSE f : Loads(f, c, t, m), c, t, m)
  BY <1>6, Zenon
<1>10. LoadPages(c, t) = F[m]
  BY <1>7, <1>8, <1>9
<1>11. F[m] = After(m)
  BY <1>1 DEF F
<1> QED BY <1>1, <1>10, <1>11 DEF c, p, After

-----------------------------------------------------------------------------
(* The invariant is one.                                                   *)

LEMMA InitIInv == Init => IInv
<1> SUFFICES ASSUME Init PROVE IInv
  OBVIOUS
<1> DEFINE page(f) == CASE f = K4   -> [ZeroPage EXCEPT ![0] = Word(K3, {"P", "W", "U"})]
                        [] f = K3   -> [ZeroPage EXCEPT ![0] = Word(K2, {"P", "W", "U"})]
                        [] f = K2   -> [ZeroPage EXCEPT ![0] = Word(0, {"P", "W", "PCD", "PS"}),
                                                        ![1] = Word(Apic, {"P", "W", "PCD"})]
                        [] f = Apic -> [ZeroPage EXCEPT ![0] = Word(ApicPage, {"P", "W", "PCD"})]
                        [] f = 0 \/ f \in Modules -> OtherPage
                        [] OTHER    -> ZeroPage
<1>1. mem = [f \in Frame |-> page(f)]
  BY DEF Init
<1>2. \A f \in {K4, K3, K2, Apic} : f # 0 /\ f \notin Modules
  BY Named, Sizes DEF Modules
<1>3. K4 # K3 /\ K4 # K2 /\ K4 # Apic /\ K3 # K2 /\ K3 # Apic /\ K2 # Apic
  BY Named
<1>4. /\ page(K4) = [ZeroPage EXCEPT ![0] = Word(K3, {"P", "W", "U"})]
      /\ page(K3) = [ZeroPage EXCEPT ![0] = Word(K2, {"P", "W", "U"})]
      /\ page(K2) = [ZeroPage EXCEPT ![0] = Word(0, {"P", "W", "PCD", "PS"}),
                                     ![1] = Word(Apic, {"P", "W", "PCD"})]
      /\ page(Apic) = [ZeroPage EXCEPT ![0] = Word(ApicPage, {"P", "W", "PCD"})]
  BY <1>2, <1>3
<1>5. \A f \in Frame \ {K4, K3, K2, Apic} : page(f) \in {OtherPage, ZeroPage}
  BY <1>2
<1>6. /\ \A a \in Frame, e \in SUBSET Flag : Word(a, e) \in Entry
      /\ {K3, K2, Apic, ApicPage, 0} \subseteq Frame
  BY Frames DEF Word, Entry
<1>7. OtherPage \in [Idx -> Entry] /\ ZeroPage \in [Idx -> Entry]
  BY <1>6, Entries0 DEF OtherPage, Other, Flag
<1> HIDE DEF page
<1>8. \A f \in {K4, K3, K2, Apic} : page(f) \in [Idx -> Entry]
  <2>1. {"P", "W", "U"} \in SUBSET Flag /\ {"P", "W", "PCD", "PS"} \in SUBSET Flag
        /\ {"P", "W", "PCD"} \in SUBSET Flag
    BY DEF Flag
  <2>2. /\ Word(K3, {"P", "W", "U"}) \in Entry /\ Word(K2, {"P", "W", "U"}) \in Entry
        /\ Word(0, {"P", "W", "PCD", "PS"}) \in Entry
        /\ Word(Apic, {"P", "W", "PCD"}) \in Entry /\ Word(ApicPage, {"P", "W", "PCD"}) \in Entry
    BY <1>6, <2>1
  <2>3. page(K2) = [[ZeroPage EXCEPT ![0] = Word(0, {"P", "W", "PCD", "PS"})]
                      EXCEPT ![1] = Word(Apic, {"P", "W", "PCD"})]
    BY <1>4
  <2>4. 0 \in Idx /\ 1 \in Idx
    BY Indices
  <2>5. page(K4) \in [Idx -> Entry]
    BY <1>4, <1>7, <2>2, <2>4
  <2>6. page(K3) \in [Idx -> Entry]
    BY <1>4, <1>7, <2>2, <2>4
  <2>7. page(Apic) \in [Idx -> Entry]
    BY <1>4, <1>7, <2>2, <2>4
  <2>8. page(K2) \in [Idx -> Entry]
    BY <1>7, <2>2, <2>3, <2>4
  <2> QED BY <2>5, <2>6, <2>7, <2>8
<1>9. mem \in Memory
  <2>1. \A f \in Frame : page(f) \in [Idx -> Entry]
    BY <1>5, <1>7, <1>8
  <2> QED BY <1>1, <2>1 DEF Memory
<1>10. KernelTables
  <2>1. /\ mem[K4] = page(K4) /\ mem[K3] = page(K3) /\ mem[K2] = page(K2)
        /\ mem[Apic] = page(Apic) /\ 0 \in Idx /\ 1 \in Idx /\ phase = "boot"
    BY <1>1, Frames, Indices DEF Init
  <2>2. ZeroPage[1] = ZeroWord
    BY Entries0, Indices
  <2> QED BY <1>4, <1>7, <2>1, <2>2 DEF KernelTables
<1>11. PoolOrder
  <2>1. used = 1 .. 0 /\ Len(tasks) = 0 /\ phase = "boot" /\ 0 \in 0 .. PoolPages
    BY Sizes DEF Init
  <2>2. 0 <= 2 + 0 * Share
    BY Sizes DEF Share
  <2> QED BY <2>1, <2>2 DEF PoolOrder
<1>12. TasksOK /\ PhaseOK /\ tasks = <<>>
  BY Sizes DEF Init, TasksOK, PhaseOK
<1> QED BY <1>9, <1>10, <1>11, <1>12 DEF IInv

\* What a step leaves of the kernel's tables: it writes to none of them but
\* that of main_multiboot2().
LEMMA KernelTablesStay ==
  ASSUME KernelTables, phase # "boot", phase' # "boot",
         \A f \in {K4, K3, K2, Apic} : \A j \in Idx : mem'[f][j] = mem[f][j]
  PROVE  KernelTables'
<1>1. 0 \in Idx /\ 1 \in Idx
  BY Indices
<1> QED BY <1>1 DEF KernelTables

\* main_multiboot2() maps page 1 of the pool, and page 2 is lost.
LEMMA MainMapIInv ==
  ASSUME PoolFits, IInv, MainMap
  PROVE  IInv'
<1>1. /\ phase = "boot" /\ phase' = "load" /\ tasks = <<>> /\ cr3 = K4 /\ cur = 0
      /\ cr3' = cr3 /\ tasks' = tasks /\ cur' = cur
  BY DEF MainMap, IInv, PhaseOK
<1>2. used = 1 .. 0
  BY <1>1 DEF IInv, PoolOrder
<1>3. PoolPages >= 2
  <2>1. MaxTasks * Share \in Nat
    BY MulNat, Sizes DEF Share
  <2> QED BY <2>1, Sizes DEF PoolFits, Share
<1>4. 0 \in 0 .. PoolPages - 1 /\ 1 \in 0 .. PoolPages - 1 /\ 0 + 1 = 1 /\ 1 + 1 = 2
  BY <1>3, Sizes
<1>5. State = Standing(mem, 0, 0)
  BY <1>2 DEF State, Standing
<1>6. FirstFree(State) = 1 /\ AllocPage(State) = Standing(mem, 1, 0)
  <2>1. FirstFree(Standing(mem, 0, 0)) = 0 + 1
    BY <1>4, NextFree
  <2>2. AllocPage(Standing(mem, 0, 0)) = Standing(mem, 0 + 1, 0)
    BY <1>4, NextFree
  <2> QED BY <1>4, <1>5, <2>1, <2>2
<1>7. /\ mem \in Memory /\ KernelTables
      /\ mem[K4][0] = Word(K3, {"P", "W", "U"})
      /\ mem[K3][0] = Word(K2, {"P", "W", "U"})
      /\ mem[K2][1] = Word(Apic, {"P", "W", "PCD"})
      /\ mem[Apic][1] = ZeroWord
  BY <1>1 DEF IInv, KernelTables
<1>8. ASSUME NEW t, NEW i, NEW a, NEW e, e # {}, mem[t][i] = Word(a, e)
      PROVE  Descend(Standing(mem, 1, t), i) = Standing(mem, 1, a)
  <2>1. mem[t][i] # ZeroWord /\ mem[t][i].a = a
    BY <1>8 DEF Word, ZeroWord
  <2>2. Standing(mem, 1, t).mem = mem /\ Standing(mem, 1, t).at = t
    BY DEF Standing
  <2>3. Descend(Standing(mem, 1, t), i) = [Standing(mem, 1, t) EXCEPT !.at = mem[t][i].a]
    BY <2>1, <2>2 DEF Descend
  <2> QED BY <2>1, <2>3 DEF Standing
<1>9. /\ Descend(Standing(mem, 1, K4), 0) = Standing(mem, 1, K3)
      /\ Descend(Standing(mem, 1, K3), 0) = Standing(mem, 1, K2)
      /\ Descend(Standing(mem, 1, K2), 1) = Standing(mem, 1, Apic)
  <2>1. {"P", "W", "U"} # {} /\ {"P", "W", "PCD"} # {}
    OBVIOUS
  <2> QED BY <1>7, <1>8, <2>1
<1> DEFINE c == Standing(mem, 1, 0)
           v == KernelValloc
           G == Grow(mem, 2, Apic, 1, 1)
<1>10. v[1] = 0 /\ v[2] = 0 /\ v[3] = 1 /\ v[4] = 1
  BY DEF KernelValloc
<1>11. [c EXCEPT !.at = K4] = Standing(mem, 1, K4)
  BY DEF Standing
<1> HIDE DEF c, v
<1>12. Descend(Descend(Descend([c EXCEPT !.at = K4], v[1]), v[2]), v[3]) = Standing(mem, 1, Apic)
  BY <1>9, <1>10, <1>11, Zenon
<1>13. MapPage(c, K4, v, 1) = Standing(Grow(mem, 1 + 1, Apic, v[4], 1), 1 + 1, Apic)
  BY <1>4, <1>7, <1>10, <1>12, MapsLeaf
<1>14. mem' = G /\ used' = 1 .. 2
  <2>1. Commit(MapPage(c, K4, v, 1))
    BY <1>1, <1>6 DEF MainMap, c, v
  <2>2. MapPage(c, K4, v, 1) = Standing(G, 2, Apic)
    BY <1>4, <1>10, <1>13
  <2> HIDE DEF G
  <2> QED BY <2>1, <2>2 DEF Commit, Standing
<1>15. 2 \in Frame /\ 1 \in Frame /\ Apic \in Frame /\ 1 \in Idx /\ 2 # Apic
  BY <1>3, Frames, Named, Indices
<1>16. mem' \in Memory
  BY <1>7, <1>14, <1>15, GrownType
<1>17. ASSUME NEW f \in Frame, NEW j \in Idx
       PROVE  mem'[f][j] = IF f = 2 THEN ZeroWord
                           ELSE IF f = Apic /\ j = 1 THEN Mapped(1) ELSE mem[f][j]
  BY <1>7, <1>14, <1>15, Grown
<1>18. KernelTables'
  <2>1. /\ K4 \in Frame /\ K3 \in Frame /\ K2 \in Frame /\ 0 \in Idx
        /\ K4 # 2 /\ K3 # 2 /\ K2 # 2 /\ K4 # Apic /\ K3 # Apic /\ K2 # Apic
    BY <1>3, Frames, Named, Indices
  <2>2. /\ mem'[K4][0] = mem[K4][0] /\ mem'[K3][0] = mem[K3][0] /\ mem'[K2][0] = mem[K2][0]
        /\ mem'[K2][1] = mem[K2][1] /\ mem'[Apic][0] = mem[Apic][0]
        /\ mem'[Apic][1] = Mapped(1)
    BY <1>15, <1>17, <2>1
  <2> QED BY <1>1, <1>7, <2>2 DEF KernelTables
<1>19. PoolOrder'
  <2>1. 2 \in 0 .. PoolPages /\ Len(tasks') = 0
    BY <1>1, <1>3, Sizes
  <2>2. 2 <= 2 + 0 * Share
    BY Sizes DEF Share
  <2> QED BY <1>1, <1>14, <2>1, <2>2 DEF PoolOrder
<1>20. TasksOK' /\ PhaseOK'
  BY <1>1 DEF IInv, TasksOK, PhaseOK
<1> QED BY <1>1, <1>16, <1>18, <1>19, <1>20 DEF IInv

\* The new PML3 below the root, with an entry of the kernel's.
LEMMA RootIsBuilt ==
  ASSUME IInv, phase = "load", NEW k \in 0 .. PoolPages - 1
  PROVE  \E N : /\ Rooted(N, mem, k, mem[K3][1])
                /\ NewRoot(Standing(mem, k, 0), 0) = Standing(N, k + 1, 0)
<1> DEFINE c == Standing(mem, k, 0)
           x == mem[K3][1]
<1>1. /\ mem \in Memory /\ cr3 = K4 /\ mem[K4][0] = Word(K3, {"P", "W", "U"})
  BY DEF IInv, PhaseOK, KernelTables
<1>2. PICK g \in Frame : g = k + 1
  BY Frames, Named
<1>3. /\ g # 0 /\ 0 \in Frame /\ 0 \in Idx /\ 1 \in Idx /\ K4 \in Frame /\ K3 \in Frame
      /\ K4 # g /\ K3 # g /\ K4 # 0 /\ K3 # 0
  BY <1>2, Frames, Named, Indices
<1> DEFINE G == Grow(mem, g, 0, 0, g)
           N == [G EXCEPT ![g][1] = x]
<1>4. SetEntry(AllocCleared(c), 0, 0, FirstFree(c)) = Standing(G, g, 0)
  <2>1. FirstFree(c) = g /\ AllocCleared(c) = Standing([mem EXCEPT ![g] = ZeroPage], g, 0)
    BY <1>2, NextFree
  <2>2. SetEntry(Standing([mem EXCEPT ![g] = ZeroPage], g, 0), 0, 0, g) =
          Standing([[mem EXCEPT ![g] = ZeroPage] EXCEPT ![0][0] = Mapped(g)], g, 0)
    BY DEF SetEntry, Standing, Mapped
  <2> QED BY <2>1, <2>2, Zenon DEF Grow
<1>5. G \in Memory
  BY <1>1, <1>3, GrownType
<1>6. ASSUME NEW f \in Frame, NEW j \in Idx
      PROVE  G[f][j] = IF f = g THEN ZeroWord
                       ELSE IF f = 0 /\ j = 0 THEN Mapped(g) ELSE mem[f][j]
  BY <1>1, <1>3, Grown
<1>7. G[K4][0].a = K3 /\ G[K3][1] = x
  <2>1. G[K4][0] = mem[K4][0] /\ G[K3][1] = mem[K3][1]
    BY <1>3, <1>6
  <2> QED BY <1>1, <2>1 DEF Word
<1> HIDE DEF G, x
<1>8. NewRoot(c, 0) = Standing(N, g, 0)
  <2> DEFINE d == Standing(G, g, 0)
  <2>1. d.mem = G
    BY DEF Standing
  <2> HIDE DEF d, c
  <2>2. FirstFree(c) = g
    BY <1>2, NextFree DEF c
  <2>3. NewRoot(c, 0) = [d EXCEPT !.mem[g][1] = d.mem[d.mem[cr3][0].a][1]]
    BY <1>4, <2>2, Zenon DEF NewRoot, d
  <2>4. d.mem[d.mem[cr3][0].a][1] = x
    BY <1>1, <1>7, <2>1
  <2>5. NewRoot(c, 0) = [d EXCEPT !.mem[g][1] = x]
    BY <2>3, <2>4
  <2> QED BY <2>5 DEF d, Standing
<1>9. x \in Entry
  BY <1>1, <1>3 DEF x, Memory
<1>10. N = [G EXCEPT ![g] = [G[g] EXCEPT ![1] = x]]
  OBVIOUS
<1>11. N \in Memory
  <2>1. [G[g] EXCEPT ![1] = x] \in [Idx -> Entry]
    BY <1>5, <1>9 DEF Memory
  <2> QED BY <1>5, <1>10, <2>1 DEF Memory
<1>12. ASSUME NEW f \in Frame, NEW j \in Idx
       PROVE  N[f][j] = IF f = g /\ j = 1 THEN x ELSE G[f][j]
  <2>1. DOMAIN G = Frame /\ DOMAIN G[g] = Idx
    BY <1>5 DEF Memory
  <2>2. CASE f = g
    BY <1>10, <2>1, <2>2
  <2>3. CASE f # g
    BY <1>10, <2>1, <2>3
  <2> QED BY <2>2, <2>3
<1> HIDE DEF N
<1>13. Rooted(N, mem, k, x)
  <2>1. ASSUME NEW f \in Frame, NEW j \in Idx
        PROVE  N[f][j] = IF f = 0 /\ j = 0 THEN Mapped(g)
                         ELSE IF f = g THEN IF j = 1 THEN x ELSE ZeroWord
                         ELSE mem[f][j]
    <3>1. CASE f = g
      BY <1>3, <1>6, <1>12, <3>1
    <3>2. CASE f # g
      BY <1>6, <1>12, <3>2
    <3> QED BY <3>1, <3>2
  <2> QED BY <1>2, <1>11, <2>1 DEF Rooted
<1> QED BY <1>2, <1>8, <1>13 DEF c, x

\* The modules lie behind each other, and the last pages of the bss of the
\* last one are still modelled.
LEMMA NextModulePlace ==
  ASSUME TasksOK, NEW b \in 0 .. MaxBss, NEW n \in 1 .. MaxPayload, NEW gap \in 0 .. MaxGap,
         Len(tasks) < MaxTasks
  PROVE  /\ NextModule \in Nat /\ NextModule >= LowestModule
         /\ NextModule + gap + n <=
              LowestModule + (Len(tasks) + 1) * (MaxPayload + MaxGap)
         /\ \A i \in 0 .. n + b - 1 : (NextModule + gap) + i \in Frame
<1> DEFINE B == MaxPayload + MaxGap
<1>1. PICK l \in Nat : l = Len(tasks)
  BY DEF TasksOK
<1>2. B \in Nat /\ l * B \in Nat /\ (l + 1) * B = l * B + B /\ l + 1 <= MaxTasks
  <2>1. B \in Nat
    BY Sizes
  <2> HIDE DEF B
  <2>2. l * B \in Nat
    BY <2>1, MulNat
  <2>3. (l + 1) * B = l * B + B
    BY <2>1, SMT
  <2> QED BY <1>1, <2>1, <2>2, <2>3, Sizes
<1>3. (l + 1) * B <= MaxTasks * B /\ MaxTasks * B \in Nat
  <2> HIDE DEF B
  <2> QED BY <1>2, Sizes, MulMonotone, MulNat
<1>4. NextModule \in Nat /\ NextModule >= LowestModule /\ NextModule <= LowestModule + l * B
  <2>1. CASE tasks = <<>>
    <3>1. NextModule = LowestModule
      BY <2>1 DEF NextModule
    <3> HIDE DEF B
    <3>2. LowestModule \in Nat
      BY Named
    <3> QED BY <1>2, <3>1, <3>2
  <2>2. CASE tasks # <<>>
    <3>1. l \in 1 .. l /\ tasks[l] \in Task
      BY <1>1, <2>2 DEF TasksOK
    <3>2. NextModule = tasks[l].load_paddr + tasks[l].payload
      BY <1>1, <2>2 DEF NextModule, Last
    <3>3. tasks[l].load_paddr \in Nat /\ tasks[l].payload \in Nat
      BY <3>1 DEF Task
    <3>4. /\ tasks[l].load_paddr >= LowestModule
          /\ tasks[l].load_paddr + tasks[l].payload <= LowestModule + l * B
      BY <1>1, <3>1 DEF TasksOK
    <3> HIDE DEF B
    <3> QED BY <3>2, <3>3, <3>4, Named
  <2> QED BY <2>1, <2>2
<1>5. gap + n <= B /\ gap \in Nat /\ n \in Nat /\ b \in Nat /\ b <= MaxBss
  BY Sizes
<1>6. Frame = 0 .. LowestModule + MaxTasks * B + MaxBss
  BY DEF Frame
<1> HIDE DEF B
<1>7. NextModule + gap + n <= LowestModule + (l + 1) * B
  BY <1>2, <1>4, <1>5, Named
<1>8. ASSUME NEW i \in 0 .. n + b - 1 PROVE (NextModule + gap) + i \in Frame
  BY <1>2, <1>3, <1>4, <1>5, <1>6, <1>7, Named, Sizes
<1> QED BY <1>1, <1>4, <1>7, <1>8 DEF B

\* load_task() takes pages that were free, and leaves a tree for the task.
LEMMA LoadTaskIInv ==
  ASSUME PoolFits, IInv, NEW n \in 1 .. MaxPayload, NEW b \in 0 .. MaxBss,
         NEW gap \in 0 .. MaxGap, LoadTask(n, b, gap)
  PROVE  IInv'
<1> DEFINE m == n + b
           x == mem[K3][1]
<1>0. PICK t : t = [pgt |-> 0, load_paddr |-> NextModule + gap, payload |-> n, bss |-> b]
  OBVIOUS
<1>1. /\ phase = "load" /\ phase' = "load" /\ Len(tasks) < MaxTasks
      /\ tasks' = Append(tasks, t) /\ cr3' = cr3 /\ cur' = cur
      /\ Commit(LoadPages(NewRoot(State, t.pgt), t))
  BY <1>0 DEF LoadTask
<1>2. /\ NextModule \in Nat /\ NextModule >= LowestModule
      /\ NextModule + gap + n <= LowestModule + (Len(tasks) + 1) * (MaxPayload + MaxGap)
      /\ \A i \in 0 .. m - 1 : (NextModule + gap) + i \in Frame
  BY <1>1, NextModulePlace DEF IInv
<1>3. /\ t \in Task /\ t.pgt = 0 /\ t.load_paddr = NextModule + gap
      /\ t.payload = n /\ t.bss = b /\ t.payload + t.bss = m
      /\ m \in Nat \ {0} /\ m <= MaxPayload + MaxBss
  BY <1>0, <1>2, Sizes DEF Task
<1>4. PICK k \in 0 .. PoolPages :
        /\ used = 1 .. k /\ k <= 2 + Len(tasks) * Share /\ k >= 2
  BY <1>1 DEF IInv, PoolOrder
<1>5. k + 3 + m <= PoolPages /\ k + 3 + m <= 2 + (Len(tasks) + 1) * Share
  <2>1. PICK l \in Nat : l = Len(tasks) /\ l + 1 <= MaxTasks
    BY <1>1, Sizes DEF IInv, TasksOK
  <2>2. Share \in Nat /\ 3 + m <= Share
    BY <1>3, Sizes DEF Share
  <2>3. PoolPages >= 2 + MaxTasks * Share
    BY DEF PoolFits, Share
  <2>4. (l + 1) * Share = l * Share + Share /\ l * Share \in Nat
    BY <2>2, MulNat, SMT
  <2>5. (l + 1) * Share <= MaxTasks * Share /\ MaxTasks * Share \in Nat
    BY <2>1, <2>2, Sizes, MulMonotone, MulNat
  <2>6. k \in Nat /\ k <= 2 + l * Share
    BY <1>4, <2>1
  <2> QED BY <1>3, <2>1, <2>2, <2>3, <2>4, <2>5, <2>6, Sizes
<1>6. State = Standing(mem, k, 0)
  BY <1>4 DEF State, Standing
<1>7. /\ mem \in Memory /\ KernelTables /\ x \in Entry
  BY Frames, Indices DEF IInv, Memory
<1>8. PICK N : Rooted(N, mem, k, x) /\ NewRoot(Standing(mem, k, 0), 0) = Standing(N, k + 1, 0)
  <2>1. k \in 0 .. PoolPages - 1
    BY <1>3, <1>5, Sizes
  <2> QED BY <1>1, <2>1, RootIsBuilt
<1> HIDE DEF m, x
<1>9. Room(mem, k, x, t.load_paddr, m)
  BY <1>2, <1>3, <1>4, <1>5, <1>7 DEF Room, Task
<1> DEFINE T == TaskMem(mem, k, x, t.load_paddr, m)
<1>10. LoadPages(Standing(N, k + 1, 0), t) = Standing(T, k + 3 + m, k + 3)
  BY <1>3, <1>8, <1>9, LoadsPages
<1>11. mem' = T /\ used' = 1 .. k + 3 + m
  <2>1. Commit(Standing(T, k + 3 + m, k + 3))
    BY <1>1, <1>3, <1>6, <1>8, <1>10
  <2> QED BY <2>1 DEF Commit, Standing
<1>12. mem' \in Memory
  BY <1>9, <1>11, TaskMemType
<1> HIDE DEF T
<1>13. ASSUME NEW f \in Frame, NEW j \in Idx
       PROVE  /\ f = 0 => T[f][j] = IF j = 0 THEN Mapped(k + 1) ELSE mem[0][j]
              /\ f = k + 1 =>
                   T[f][j] = IF j = 1 THEN x ELSE IF j = 2 THEN Mapped(k + 2) ELSE ZeroWord
              /\ f = k + 2 => T[f][j] = IF j = 0 THEN Mapped(k + 3) ELSE ZeroWord
              /\ f = k + 3 => T[f][j] = IF j < m THEN Mapped(t.load_paddr + j) ELSE ZeroWord
              /\ f # 0 /\ f \notin k + 1 .. k + 3 + m => T[f][j] = mem[f][j]
  BY <1>9, TaskMemWords DEF T
<1>14. KernelTables'
  <2>1. \A f \in {K4, K3, K2, Apic} : f \in Frame /\ f # 0 /\ f \notin k + 1 .. k + 3 + m
    BY <1>3, <1>4, <1>5, Frames, Named
  <2>2. \A f \in {K4, K3, K2, Apic} : \A j \in Idx : mem'[f][j] = mem[f][j]
    BY <1>11, <1>13, <2>1
  <2> QED BY <1>1, <1>7, <2>2, KernelTablesStay
<1>15. tasks' \in Seq(Task) /\ Len(tasks') = Len(tasks) + 1 /\ tasks'[Len(tasks')] = t
       /\ \A l \in 1 .. Len(tasks) : tasks'[l] = tasks[l]
  <2>1. tasks \in Seq(Task)
    BY DEF IInv, TasksOK
  <2> QED BY <1>1, <1>3, <2>1
<1>16. PoolOrder'
  <2>1. k + 3 + m \in 0 .. PoolPages /\ k + 3 + m >= 2
    BY <1>3, <1>4, <1>5, Sizes
  <2> QED BY <1>1, <1>5, <1>11, <1>15, <2>1 DEF PoolOrder
<1>17. TaskTree(t)'
  <2>1. PICK g1 \in Frame, g2 \in Frame, g3 \in Frame : g1 = k + 1 /\ g2 = k + 2 /\ g3 = k + 3
    <3>1. {k + 1, k + 2, k + 3} \subseteq 0 .. ApicPage
      BY <1>3, <1>4, <1>5, Named
    <3> QED BY <3>1, Frames
  <2>2. /\ 0 \in Frame /\ 0 \in Idx /\ 2 \in Idx /\ \A i \in 0 .. m - 1 : i \in Idx
    BY <1>3, Frames, Indices, Sizes
  <2>3. /\ mem'[0][0] = Mapped(g1) /\ mem'[g1][2] = Mapped(g2) /\ mem'[g2][0] = Mapped(g3)
    BY <1>11, <1>13, <2>1, <2>2
  <2>4. \A i \in 0 .. m - 1 : mem'[g3][i] = Mapped(t.load_paddr + i)
    BY <1>3, <1>11, <1>13, <2>1, <2>2
  <2>5. g1 \in 2 .. PoolPages /\ g2 = g1 + 1 /\ g3 = g1 + 2
    BY <1>3, <1>4, <1>5, <2>1, Sizes
  <2>6. {g1, g1 + 1, g1 + 2} \subseteq used'
    BY <1>3, <1>4, <1>11, <2>1
  <2> QED BY <1>3, <2>3, <2>4, <2>5, <2>6 DEF TaskTree
<1>18. TasksOK'
  <2>1. Len(tasks) \in Nat
    BY DEF IInv, TasksOK
  <2>2. Len(tasks') <= MaxTasks
    BY <1>1, <1>15, <2>1, Sizes
  <2>3. ASSUME NEW l \in 1 .. Len(tasks')
        PROVE  /\ tasks'[l].load_paddr >= LowestModule
               /\ tasks'[l].load_paddr + tasks'[l].payload <=
                    LowestModule + l * (MaxPayload + MaxGap)
    <3>1. CASE l = Len(tasks) + 1
      <4>1. tasks'[l] = t /\ NextModule + gap >= LowestModule
        BY <1>2, <1>15, <3>1, Sizes, Named
      <4> QED BY <1>2, <1>3, <3>1, <4>1
    <3>2. CASE l # Len(tasks) + 1
      <4>1. l \in 1 .. Len(tasks) /\ tasks'[l] = tasks[l]
        BY <1>15, <2>1, <3>2
      <4> QED BY <4>1 DEF IInv, TasksOK
    <3> QED BY <3>1, <3>2
  <2> QED BY <1>15, <2>2, <2>3 DEF TasksOK
<1>19. PhaseOK'
  BY <1>1 DEF IInv, PhaseOK
<1>20. (tasks # <<>> => TaskTree(tasks[Len(tasks)]))'
  BY <1>15, <1>17
<1> QED BY <1>12, <1>14, <1>16, <1>18, <1>19, <1>20 DEF IInv

\* set_task() writes to no table.
LEMMA SetTaskIInv ==
  ASSUME IInv, NEW k \in 1 .. Len(tasks), SetTask(k)
  PROVE  IInv'
<1>1. /\ phase # "boot" /\ phase' = "run" /\ cr3' = tasks[k].pgt /\ cur' = k
      /\ mem' = mem /\ used' = used /\ tasks' = tasks
  BY DEF SetTask
<1>2. tasks[k].pgt = 0
  <2>1. tasks[k] \in Task
    BY DEF IInv, TasksOK
  <2> QED BY <2>1 DEF Task
<1>3. mem' \in Memory /\ KernelTables' /\ PoolOrder' /\ TasksOK' /\ PhaseOK'
  BY <1>1, <1>2 DEF IInv, KernelTables, PoolOrder, TasksOK, PhaseOK
<1>4. (tasks # <<>> => TaskTree(tasks[Len(tasks)]))'
  BY <1>1 DEF IInv, TaskTree
<1> QED BY <1>3, <1>4 DEF IInv

LEMMA NextIInv == ASSUME PoolFits, IInv, [Next]_vars PROVE IInv'
<1>1. CASE MainMap
  BY <1>1, MainMapIInv
<1>2. ASSUME NEW n \in 1 .. MaxPayload, NEW b \in 0 .. MaxBss, NEW gap \in 0 .. MaxGap,
             LoadTask(n, b, gap)
      PROVE  IInv'
  BY <1>2, LoadTaskIInv
<1>3. ASSUME NEW k \in 1 .. Len(tasks), SetTask(k) PROVE IInv'
  BY <1>3, SetTaskIInv
<1>4. CASE UNCHANGED vars
  BY <1>4 DEF vars, IInv, KernelTables, PoolOrder, TaskTree, TasksOK, PhaseOK
<1> QED BY <1>1, <1>2, <1>3, <1>4 DEF Next

\* While the tasks that the boot loader leaves fit the pool, the invariant holds
\* after any loads and switches (memory.c:237).
THEOREM Invariance == ASSUME PoolFits PROVE Spec => []IInv
<1>1. IInv /\ [Next]_vars => IInv'
  BY NextIInv
<1> QED BY <1>1, InitIInv, PTL DEF Spec

-----------------------------------------------------------------------------
(* Walks.                                                                  *)

\* From an entry that refers to a table, the walk goes on.
LEMMA FollowsTable ==
  ASSUME NEW e, NEW i, "P" \in e.flags, "PS" \notin e.flags
  PROVE  Follow(e, i) = mem[e.a][i] /\ Target(e) = e
  BY DEF Follow, Target

\* The components of a tuple of four entries.
LEMMA Tuple ==
  ASSUME NEW a, NEW b, NEW c, NEW d, NEW w, w = <<a, b, c, d>>
  PROVE  w[1] = a /\ w[2] = b /\ w[3] = c /\ w[4] = d
OBVIOUS

\* The values of a function at those indices.
LEMMA FirstThree ==
  ASSUME NEW f
  PROVE  {f[n] : n \in 1 .. 3} = {f[1], f[2], f[3]}
OBVIOUS

\* The indices of those three.
LEMMA OneToThree == \A n : n \in 1 .. 3 <=> n = 1 \/ n = 2 \/ n = 3
OBVIOUS

\* The walk begins in the table at its root.
LEMMA FollowsRoot ==
  ASSUME NEW root, NEW i
  PROVE  Follow(Word(root, {"P"}), i) = mem[root][i]
<1>1. PICK e : e = Word(root, {"P"})
  OBVIOUS
<1>2. e.a = root /\ "P" \in e.flags /\ "PS" \notin e.flags
  BY <1>1 DEF Word
<1>3. Follow(e, i) = mem[root][i]
  BY <1>2 DEF Follow
<1> QED BY <1>1, <1>3, Zenon

\* A walk of four entries, each in the table that the one before refers to.
LEMMA WalksDown ==
  ASSUME NEW root, NEW v, NEW e1, NEW e2, NEW e3, NEW e4,
         e4 = mem[root][v[1]], e3 = mem[e4.a][v[2]], e2 = mem[e3.a][v[3]], e1 = mem[e2.a][v[4]],
         \A e \in {e1, e2, e3, e4} : "P" \in e.flags /\ "PS" \notin e.flags
  PROVE  /\ Walk(root, v) = e1
         /\ TablesOf(root, v) = {e4.a, e3.a, e2.a} \ {NotMapped.a, Identity}
<1>1. Follow(Word(root, {"P"}), v[1]) = e4
  BY FollowsRoot
<1>2. Follow(e4, v[2]) = e3 /\ Target(e4) = e4
  BY FollowsTable
<1>3. Follow(e3, v[3]) = e2 /\ Target(e3) = e3
  BY FollowsTable
<1>4. Follow(e2, v[4]) = e1 /\ Target(e2) = e2
  BY FollowsTable
<1>5. Target(e1) = e1
  BY FollowsTable
<1>6. Entries(root, v) = <<e4, e3, e2, e1>>
  BY <1>1, <1>2, <1>3, <1>4, Zenon DEF Entries
<1>7. /\ Entries(root, v)[1] = e4 /\ Entries(root, v)[2] = e3
      /\ Entries(root, v)[3] = e2 /\ Entries(root, v)[4] = e1
  <2>1. PICK w : w = Entries(root, v)
    OBVIOUS
  <2>2. w[1] = e4 /\ w[2] = e3 /\ w[3] = e2 /\ w[4] = e1
    <3>1. w = <<e4, e3, e2, e1>>
      BY <1>6, <2>1, Zenon
    <3> QED BY <3>1, Tuple
  <2> QED BY <2>1, <2>2, Zenon
<1>8. Walk(root, v) = e1
  BY <1>5, <1>7, Zenon DEF Walk
<1>9. {Target(Entries(root, v)[n]).a : n \in 1 .. 3} = {e4.a, e3.a, e2.a}
  <2>1. \A n : n \in 1 .. 3 <=> n = 1 \/ n = 2 \/ n = 3
    BY OneToThree, Zenon
  <2>2. /\ Target(Entries(root, v)[1]).a = e4.a /\ Target(Entries(root, v)[2]).a = e3.a
        /\ Target(Entries(root, v)[3]).a = e2.a
    BY <1>2, <1>3, <1>4, <1>7, Zenon
  <2>3. PICK f : f = [n \in 1 .. 3 |-> Target(Entries(root, v)[n]).a]
    OBVIOUS
  <2>4. f[1] = e4.a /\ f[2] = e3.a /\ f[3] = e2.a
    BY <2>1, <2>2, <2>3, Zenon
  <2>5. {f[n] : n \in 1 .. 3} = {e4.a, e3.a, e2.a}
    BY <2>4, FirstThree, Zenon
  <2>6. {Target(Entries(root, v)[n]).a : n \in 1 .. 3} = {f[n] : n \in 1 .. 3}
    BY <2>3
  <2> QED BY <2>5, <2>6, Zenon
<1> QED BY <1>8, <1>9, Zenon DEF TablesOf

\* The walks of the kernel to the APIC and to its page.
LEMMA KernelWalks ==
  ASSUME IInv
  PROVE  /\ Walk(K4, KernelText).a = Identity
         /\ Walk(K4, KernelApic).a = ApicPage
         /\ phase # "boot" => /\ Walk(K4, KernelValloc).a = 1
                              /\ TablesOf(K4, KernelValloc) = {K3, K2, Apic}
<1> DEFINE e4 == Word(K3, {"P", "W", "U"})
           e3 == Word(K2, {"P", "W", "U"})
           e2 == Word(Apic, {"P", "W", "PCD"})
           e1 == Word(ApicPage, {"P", "W", "PCD"})
           huge == Word(0, {"P", "W", "PCD", "PS"})
<1>1. /\ mem[K4][0] = e4 /\ mem[K3][0] = e3 /\ mem[K2][1] = e2 /\ mem[Apic][0] = e1
      /\ mem[K2][0] = huge
      /\ phase # "boot" => mem[Apic][1] = Mapped(1)
  BY DEF IInv, KernelTables
<1>2. /\ e4.a = K3 /\ e3.a = K2 /\ e2.a = Apic /\ e1.a = ApicPage
      /\ \A e \in {e1, e2, e3, e4} : "P" \in e.flags /\ "PS" \notin e.flags
      /\ "P" \in huge.flags /\ "PS" \in huge.flags
  BY DEF Word
<1> HIDE DEF e1, e2, e3, e4, huge
<1>3. Walk(K4, KernelApic).a = ApicPage
  <2> DEFINE v == KernelApic
  <2>1. v[1] = 0 /\ v[2] = 0 /\ v[3] = 1 /\ v[4] = 0
    BY DEF KernelApic
  <2> HIDE DEF v
  <2>2. Walk(K4, v) = e1
    BY <1>1, <1>2, <2>1, WalksDown
  <2> QED BY <1>2, <2>2 DEF v
<1>4. Walk(K4, KernelText).a = Identity
  <2> DEFINE v == KernelText
  <2>1. v[1] = 0 /\ v[2] = 0 /\ v[3] = 0 /\ v[4] = 1
    BY DEF KernelText
  <2> HIDE DEF v
  <2>2. Follow(Word(K4, {"P"}), 0) = e4
    BY <1>1, FollowsRoot
  <2>3. Follow(e4, 0) = e3 /\ Follow(e3, 0) = huge
    <3>1. Follow(e4, 0) = mem[e4.a][0] /\ Follow(e3, 0) = mem[e3.a][0]
      BY <1>2, FollowsTable
    <3> QED BY <1>1, <1>2, <3>1, Zenon
  <2>4. Follow(huge, 1) = huge /\ Target(huge) = [huge EXCEPT !.a = Identity]
    BY <1>2 DEF Follow, Target
  <2>5. Entries(K4, v) = <<e4, e3, huge, huge>>
    BY <2>1, <2>2, <2>3, <2>4, Zenon DEF Entries
  <2>6. Walk(K4, v) = [huge EXCEPT !.a = Identity]
    BY <2>4, <2>5 DEF Walk
  <2>7. [huge EXCEPT !.a = Identity].a = Identity
    BY DEF huge, Word
  <2> QED BY <2>6, <2>7, Zenon DEF v
<1>5. ASSUME phase # "boot"
      PROVE  Walk(K4, KernelValloc).a = 1 /\ TablesOf(K4, KernelValloc) = {K3, K2, Apic}
  <2> DEFINE v == KernelValloc
             f1 == Mapped(1)
  <2>1. v[1] = 0 /\ v[2] = 0 /\ v[3] = 1 /\ v[4] = 1
    BY DEF KernelValloc
  <2>2. /\ f1 = mem[Apic][1] /\ f1.a = 1 /\ "P" \in f1.flags /\ "PS" \notin f1.flags
    <3>1. f1.a = 1 /\ "P" \in f1.flags /\ "PS" \notin f1.flags
      BY Entries0
    <3>2. f1 = mem[Apic][1]
      BY <1>1, <1>5, Zenon
    <3> QED BY <3>1, <3>2, Zenon
  <2> HIDE DEF v, f1
  <2>3. /\ Walk(K4, v) = f1
        /\ TablesOf(K4, v) = {e4.a, e3.a, e2.a} \ {NotMapped.a, Identity}
    BY <1>1, <1>2, <2>1, <2>2, WalksDown
  <2>4. {K3, K2, Apic} \ {NotMapped.a, Identity} = {K3, K2, Apic}
    BY Named, Sizes DEF NotMapped, Identity
  <2> QED BY <1>2, <2>2, <2>3, <2>4 DEF v
<1> QED BY <1>3, <1>4, <1>5

\* The walk to a page of the task loaded last goes through three tables in a
\* row of the pool.
LEMMA TaskWalks ==
  ASSUME NEW t \in Task, NEW m \in 2 .. PoolPages, NEW i \in 0 .. t.payload + t.bss - 1,
         mem[0][0] = Mapped(m), mem[m][2] = Mapped(m + 1), mem[m + 1][0] = Mapped(m + 2),
         mem[m + 2][i] = Mapped(t.load_paddr + i)
  PROVE  /\ Walk(0, TaskPage(i)).a = t.load_paddr + i
         /\ TablesOf(0, TaskPage(i)) = m .. m + 2
<1> DEFINE v == TaskPage(i)
           a == t.load_paddr + i
           e4 == Mapped(m)
           e3 == Mapped(m + 1)
           e2 == Mapped(m + 2)
           e1 == Mapped(a)
<1>1. v[1] = 0 /\ v[2] = 2 /\ v[3] = 0 /\ v[4] = i
  BY DEF TaskPage
<1>2. /\ e4.a = m /\ e3.a = m + 1 /\ e2.a = m + 2 /\ e1.a = a
      /\ \A e \in {e1, e2, e3, e4} : "P" \in e.flags /\ "PS" \notin e.flags
  BY Entries0
<1>3. mem[0][0] = e4 /\ mem[m][2] = e3 /\ mem[m + 1][0] = e2 /\ mem[m + 2][i] = e1
  OBVIOUS
<1> HIDE DEF v, a, e4, e3, e2, e1
<1>4. /\ Walk(0, v) = e1
      /\ TablesOf(0, v) = {e4.a, e3.a, e2.a} \ {NotMapped.a, Identity}
  BY <1>1, <1>2, <1>3, WalksDown
<1>5. {m, m + 1, m + 2} \ {NotMapped.a, Identity} = m .. m + 2
  BY Sizes DEF NotMapped, Identity
<1> QED BY <1>2, <1>4, <1>5 DEF v, a

-----------------------------------------------------------------------------
(* The properties.                                                         *)

\* Every address in a table is one of physical memory that is modelled, and
\* alloc_page() marks pages of the pool alone.
THEOREM TypeCorrect == ASSUME PoolFits PROVE Spec => []TypeOK
<1>1. IInv => TypeOK
  <2> SUFFICES ASSUME IInv PROVE TypeOK
    OBVIOUS
  <2>1. mem \in [Frame -> [Idx -> [a : Frame, flags : SUBSET Flag]]]
    BY DEF IInv, Memory, Entry
  <2>2. used \subseteq Pool
    BY Sizes DEF IInv, PoolOrder, Pool
  <2>3. Len(tasks) \in Nat /\ Len(tasks) <= MaxTasks
    BY DEF IInv, TasksOK
  <2>4. cr3 \in {0, K4} /\ phase \in {"boot", "load", "run"} /\ cur \in 0 .. Len(tasks)
    BY <2>3 DEF IInv, PhaseOK
  <2> QED BY <2>1, <2>2, <2>3, <2>4 DEF TypeOK
<1> QED BY <1>1, Invariance, PTL

\* Whatever tasks are loaded, and although all of them are built below physical
\* page 0 with tables from the pool of the kernel, the kernel's own tree maps
\* its code, the APIC and the page of main_multiboot2() as before
\* (memory.c:237).
THEOREM KernelTreeStays == ASSUME PoolFits PROVE Spec => []KernelTreeIntact
<1>1. IInv => KernelTreeIntact
  BY KernelWalks DEF KernelTreeIntact
<1> QED BY <1>1, Invariance, PTL

\* The addresses of the task loaded last are translated, in order and however
\* many, to its module and the pages behind it (memory.c:287), below the root of
\* its structure and, once set_task() has installed it, below the root in use.
THEOREM LastTaskReached == ASSUME PoolFits PROVE Spec => []LastTaskMapped
<1>1. IInv => LastTaskMapped
  <2> SUFFICES ASSUME IInv, tasks # <<>>,
                      NEW root \in {Last(tasks).pgt}
                                      \cup (IF cur = Len(tasks) THEN {cr3} ELSE {}),
                      NEW i \in 0 .. Last(tasks).payload + Last(tasks).bss - 1
               PROVE  Walk(root, TaskPage(i)).a = Last(tasks).load_paddr + i
    BY DEF LastTaskMapped
  <2>1. PICK t \in Task : t = tasks[Len(tasks)] /\ t = Last(tasks)
    <3>1. tasks \in Seq(Task) /\ Len(tasks) \in 1 .. Len(tasks)
      BY DEF IInv, TasksOK
    <3> QED BY <3>1 DEF Last
  <2>2. root = 0
    <3>1. t.pgt = 0
      BY DEF Task
    <3>2. Len(tasks) # 0
      BY DEF IInv, TasksOK
    <3>3. cur # 0 => cr3 = 0
      BY DEF IInv, PhaseOK
    <3> QED BY <2>1, <3>1, <3>2, <3>3
  <2>3. PICK m \in 2 .. PoolPages :
          /\ mem[0][0] = Mapped(m) /\ mem[m][2] = Mapped(m + 1)
          /\ mem[m + 1][0] = Mapped(m + 2)
          /\ \A j \in 0 .. t.payload + t.bss - 1 : mem[m + 2][j] = Mapped(t.load_paddr + j)
    BY <2>1 DEF IInv, TaskTree
  <2>4. i \in 0 .. t.payload + t.bss - 1
    BY <2>1
  <2>5. Walk(0, TaskPage(i)).a = t.load_paddr + i
    BY <2>3, <2>4, TaskWalks
  <2> QED BY <2>1, <2>2, <2>5
<1> QED BY <1>1, Invariance, PTL

\* The three tables of the task loaded last are pages of the pool that are
\* marked as used, and none is a table or the page of the kernel (memory.c:33).
THEOREM TablesStayApart == ASSUME PoolFits PROVE Spec => []TablesApart
<1>1. IInv => TablesApart
  <2> SUFFICES ASSUME IInv, tasks # <<>> PROVE TablesApart
    BY DEF TablesApart
  <2>1. PICK t \in Task : t = tasks[Len(tasks)]
    <3>1. tasks \in Seq(Task) /\ Len(tasks) \in 1 .. Len(tasks)
      BY DEF IInv, TasksOK
    <3> QED BY <3>1
  <2>2. PICK m \in 2 .. PoolPages :
          /\ {m, m + 1, m + 2} \subseteq used
          /\ mem[0][0] = Mapped(m) /\ mem[m][2] = Mapped(m + 1)
          /\ mem[m + 1][0] = Mapped(m + 2)
          /\ \A j \in 0 .. t.payload + t.bss - 1 : mem[m + 2][j] = Mapped(t.load_paddr + j)
    BY <2>1 DEF IInv, TaskTree
  <2>3. TablesOf(0, TaskPage(0)) = m .. m + 2
    <3>1. 0 \in 0 .. t.payload + t.bss - 1
      BY Sizes DEF Task
    <3> QED BY <2>2, <3>1, TaskWalks
  <2>4. Cardinality(m .. m + 2) = 3
    <3>1. m \in Int /\ m + 2 \in Int /\ m <= m + 2
      OBVIOUS
    <3>2. Cardinality(m .. m + 2) = (m + 2) - m + 1
      BY <3>1, FS_Interval
    <3> QED BY <3>1, <3>2
  <2>5. m .. m + 2 \subseteq used
    <3>1. \A f \in m .. m + 2 : f \in {m, m + 1, m + 2}
      OBVIOUS
    <3> QED BY <2>2, <3>1
  <2>6. /\ Walk(K4, KernelValloc).a = 1 /\ TablesOf(K4, KernelValloc) = {K3, K2, Apic}
    <3>1. phase # "boot"
      BY DEF IInv, PhaseOK
    <3> QED BY <3>1, KernelWalks
  <2>7. m .. m + 2 \subseteq 2 .. PoolPages
    <3>1. used \subseteq 1 .. PoolPages
      BY Sizes DEF IInv, PoolOrder
    <3> QED BY <2>5, <3>1, Sizes
  <2>8. (m .. m + 2) \cap ({K4, 1} \cup {K3, K2, Apic}) = {}
    BY <2>7, Named
  <2> QED BY <2>3, <2>4, <2>5, <2>6, <2>8 DEF TablesApart
<1> QED BY <1>1, Invariance, PTL
=============================================================================
