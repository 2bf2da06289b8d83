-------------------------- MODULE JanusMonitorProofs --------------------------
(***************************************************************************)
(* Theorems about JanusMonitor, for every size of memory, every way in     *)
(* which a linker fills low memory and every kernel: the guest cannot      *)
(* write to the monitor, and the monitor finds itself as it was loaded,    *)
(* after any number of traps; and the image of the kernel is in memory as  *)
(* it was linked when the guest starts; and the listing of its page tables *)
(* is right below 2 GiB.                                                   *)
(*                                                                         *)
(* What has to be shown for the first two is that protect_low_memory() and *)
(* unprotect_low_memory() undo each other.  They work on mappings, the     *)
(* intervals that the host makes of neighbouring pages, so that most of    *)
(* the lemmas are about intervals: they cover every page of low memory     *)
(* that holds anything, and have the protection of each of their pages.    *)
(***************************************************************************)
EXTENDS JanusMonitor, FiniteSetTheorems, SequenceTheorems, WellFoundedInduction, TLAPS

\* The mappings that main() makes, and the guest's view of them.
Mapped == Flat(loaded)
LowSealedView == Protected(Mapped, Sealed(LowMaps(Mapped)))

\* The process has one of three views of its memory, depending on its phase.
\* From the first seal on, what was saved are the mappings of the second.
IInv ==
  /\ loaded \in Loaded
  /\ phase \in Phases
  /\ phase \in {"allocate", "map"} => host = loaded
  /\ phase \in {"parse", "extract", "load", "seal", "emulate", "exit", "abort"} =>
       host = Mapped
  /\ phase \in {"guest", "open"} =>
       host = LowSealedView /\ low_memory_maps = LowMaps(Mapped)
  /\ phase \in Lost => host \in {Mapped, LowSealedView}
  /\ low_memory_maps \in {{}, LowMaps(Mapped)}
  /\ guest_memory \in {{}, 0 .. ram - 1}

-----------------------------------------------------------------------------
(* The image that the host loads, and what set_flat_mapping() leaves of    *)
(* it.                                                                     *)

LEMMA PageNumbers ==
  /\ ram \in Nat /\ MAPS_LOW_LIMIT \in Nat /\ top_guest_1 \in Nat
  /\ bottom_guest_2 \in Nat /\ HostPages \in Nat
  /\ LowPages \subseteq Pages
  /\ top_guest_1 \in Pages \ LowPages
  BY MemoryAssumption DEF LowPages, Pages

\* The monitor is in low memory and at its bss; a low page without a part of
\* it has nothing.
LEMMA LoadedPages ==
  ASSUME NEW h \in Loaded
  PROVE  /\ h \in [Pages -> Page]
         /\ \A q \in Pages : h[q].of = "monitor" => q \in LowPages \/ q = top_guest_1
         /\ \A q \in LowPages : h[q].of = "none" => h[q].prot = {}
<1>1. PICK low \in LowImages :
        h = [q \in Pages |-> CASE q \in LowPages /\ low[q] # {} -> Monitor(q, low[q])
                               [] q = top_guest_1 -> Monitor(q, {"R", "W"})
                               [] OTHER -> Unmapped]
  BY DEF Loaded
<1>2. \A q \in LowPages : low[q] \in Prot
  BY <1>1, MemoryAssumption DEF LowPages, Prot
<1>3. \A q \in Pages : \/ q \in LowPages /\ low[q] # {} /\ h[q] = Monitor(q, low[q])
                       \/ q = top_guest_1 /\ h[q] = Monitor(q, {"R", "W"})
                       \/ h[q] = Unmapped
  <2> SUFFICES ASSUME NEW q \in Pages
               PROVE  \/ q \in LowPages /\ low[q] # {} /\ h[q] = Monitor(q, low[q])
                      \/ q = top_guest_1 /\ h[q] = Monitor(q, {"R", "W"})
                      \/ h[q] = Unmapped
    OBVIOUS
  <2>1. CASE q \in LowPages /\ low[q] # {}
    BY <1>1, <2>1, PageNumbers
  <2>2. CASE ~(q \in LowPages /\ low[q] # {}) /\ q = top_guest_1
    BY <1>1, <2>2
  <2>3. CASE ~(q \in LowPages /\ low[q] # {}) /\ q # top_guest_1
    BY <1>1, <2>3
  <2> QED BY <2>1, <2>2, <2>3
<1>4. ASSUME NEW q \in Pages, NEW prot \in Prot
      PROVE  /\ Monitor(q, prot) \in Page /\ Monitor(q, prot).of = "monitor"
             /\ Unmapped \in Page /\ Unmapped.of = "none" /\ Unmapped.prot = {}
  <2>1. q \in Nat
    BY DEF Pages
  <2>2. {} \in Prot
    BY DEF Prot
  <2> QED BY <2>1, <2>2 DEF Monitor, Unmapped, Page
<1>5. {"R", "W"} \in Prot
  BY DEF Prot
<1>6. \A q \in Pages : /\ h[q] \in Page
                       /\ h[q].of = "monitor" => q \in LowPages \/ q = top_guest_1
                       /\ h[q].of = "none" => h[q].prot = {}
  BY <1>2, <1>3, <1>4, <1>5
<1>7. h = [q \in Pages |-> h[q]]
  BY <1>1
<1> QED BY <1>6, <1>7, PageNumbers

LEMMA MapPageKeeps ==
  ASSUME NEW h \in [Pages -> Page], NEW v \in Nat, NEW len \in Nat
  PROVE  /\ MapPage(h, v, v, len) \in [Pages -> Page]
         /\ \A q \in Pages : q < v \/ q >= v + len => MapPage(h, v, v, len)[q] = h[q]
<1>1. ASSUME NEW q \in Pages, q \in v .. v + len - 1
      PROVE  [of |-> "backend", at |-> v + (q - v), prot |-> All] \in Page
  BY <1>1 DEF Page, All, Prot
<1> QED BY <1>1 DEF MapPage, Pages

\* None of the mappings for the guest replaces a page of the monitor: they
\* begin where low memory ends and leave out the page at 2 GiB.
LEMMA FlatKeeps ==
  ASSUME NEW h \in [Pages -> Page]
  PROVE  /\ Flat(h) \in [Pages -> Page]
         /\ \A q \in LowPages \cup {top_guest_1} : Flat(h)[q] = h[q]
<1>1. /\ MAPS_LOW_LIMIT < top_guest_1 /\ top_guest_1 < bottom_guest_2
      /\ \A q \in LowPages : q < MAPS_LOW_LIMIT
  BY MemoryAssumption DEF LowPages
<1>2. CASE ram < top_guest_1 - MAPS_LOW_LIMIT
  <2>1. Flat(h) = MapPage(h, MAPS_LOW_LIMIT, MAPS_LOW_LIMIT, ram)
    BY <1>2 DEF Flat
  <2>2. top_guest_1 >= MAPS_LOW_LIMIT + ram
    BY <1>2, PageNumbers
  <2> QED BY <1>1, <2>1, <2>2, PageNumbers, MapPageKeeps
<1>3. CASE ~(ram < top_guest_1 - MAPS_LOW_LIMIT)
  <2> DEFINE one == top_guest_1 - MAPS_LOW_LIMIT
             two == ram - (top_guest_1 - MAPS_LOW_LIMIT)
             g == MapPage(h, MAPS_LOW_LIMIT, MAPS_LOW_LIMIT, one)
  <2>1. one \in Nat /\ two \in Nat /\ MAPS_LOW_LIMIT + one = top_guest_1
    BY <1>1, <1>3, PageNumbers
  <2>2. Flat(h) = MapPage(g, bottom_guest_2, bottom_guest_2, two)
    BY <1>3, Zenon DEF Flat
  <2> HIDE DEF one, two
  <2>3. /\ g \in [Pages -> Page]
        /\ \A q \in Pages : q < MAPS_LOW_LIMIT \/ q >= top_guest_1 => g[q] = h[q]
    BY <2>1, PageNumbers, MapPageKeeps
  <2> HIDE DEF g
  <2>4. /\ Flat(h) \in [Pages -> Page]
        /\ \A q \in Pages : q < bottom_guest_2 => Flat(h)[q] = g[q]
    BY <2>1, <2>2, <2>3, PageNumbers, MapPageKeeps
  <2>5. \A q \in LowPages \cup {top_guest_1} :
          /\ q \in Pages /\ q < bottom_guest_2
          /\ q < MAPS_LOW_LIMIT \/ q >= top_guest_1
    BY <1>1, PageNumbers DEF LowPages
  <2> QED BY <2>3, <2>4, <2>5
<1> QED BY <1>2, <1>3

-----------------------------------------------------------------------------
(* The lines of /proc/self/maps.                                           *)

\* A set of naturals that is not empty has a least element.
LEMMA LeastOfNat ==
  ASSUME NEW T, T \subseteq Nat, T # {}
  PROVE  \E m \in T : \A k \in T : m <= k
<1> DEFINE R == {ss \in Nat \X Nat : ss[1] < ss[2]}
<1>1. IsWellFoundedOn(R, Nat)
  BY NatLessThanWellFounded DEF OpToRel
<1>2. PICK x \in T : \A y \in T : ~ (<<y, x>> \in R)
  <2> HIDE DEF R
  <2> QED BY <1>1, WFMin
<1>3. ASSUME NEW k \in T PROVE x <= k
  <2>1. <<k, x>> \notin R
    BY <1>2
  <2>2. <<k, x>> \in Nat \X Nat
    OBVIOUS
  <2>3. ~ (k < x)
    BY <2>1, <2>2
  <2> QED BY <2>3
<1> QED BY <1>3

\* What holds of 0, and of l + 1 when it holds of l, holds up to n.
LEMMA UpInduction ==
  ASSUME NEW n \in Nat, NEW S, 0 \in S,
         \A l \in 0 .. n - 1 : l \in S => l + 1 \in S
  PROVE  \A l \in 0 .. n : l \in S
<1> DEFINE B == {k \in 0 .. n : k \notin S}
<1> SUFFICES ASSUME B # {} PROVE FALSE
  OBVIOUS
<1>1. PICK m \in B : \A k \in B : m <= k
  <2> B \subseteq Nat
    OBVIOUS
  <2> HIDE DEF B
  <2> QED BY LeastOfNat
<1>2. m # 0 /\ m \in 0 .. n /\ m \notin S
  OBVIOUS
<1>3. m - 1 \in 0 .. n - 1 /\ m - 1 \notin B /\ (m - 1) + 1 = m
  BY <1>1, <1>2
<1>4. m - 1 \in S
  BY <1>3
<1> QED BY <1>2, <1>3, <1>4

LEMMA JoinedTransitive ==
  ASSUME NEW h \in [Pages -> Page], NEW p \in Pages, NEW q \in Pages, NEW r \in Pages
  PROVE  /\ Joined(h, p, p)
         /\ Joined(h, p, q) /\ Joined(h, q, r) => Joined(h, p, r)
         /\ Joined(h, p, r) /\ Joined(h, q, r) => Joined(h, p, q)
<1>1. h[p].at \in Nat /\ h[q].at \in Nat /\ h[r].at \in Nat
  BY DEF Page
<1>2. p \in Nat /\ q \in Nat /\ r \in Nat
  BY DEF Pages
<1> QED BY <1>1, <1>2 DEF Joined

\* A mapping ends, behind its last page.
LEMMA EndOfMapping ==
  ASSUME NEW h \in [Pages -> Page], NEW s \in Pages, h[s].of # "none"
  PROVE  /\ EndOf(h, s) \in s + 1 .. HostPages
         /\ \A q \in s .. EndOf(h, s) - 1 : h[q].of # "none" /\ Joined(h, s, q)
         /\ \/ EndOf(h, s) = HostPages
            \/ h[EndOf(h, s)].of = "none"
            \/ ~Joined(h, s, EndOf(h, s))
<1> DEFINE Out(e) == e = HostPages \/ h[e].of = "none" \/ ~Joined(h, s, e)
           E == {e \in s + 1 .. HostPages : Out(e)}
           Ends(e) == /\ \A q \in s .. e - 1 : h[q].of # "none" /\ Joined(h, s, q)
                      /\ Out(e)
<1>1. HostPages \in Nat /\ s \in Nat /\ s < HostPages
  BY PageNumbers DEF Pages
<1>2. HostPages \in E /\ E \subseteq Nat
  BY <1>1
<1>3. PICK e \in E : \A k \in E : e <= k
  <2> HIDE DEF E
  <2> QED BY <1>2, LeastOfNat
<1>4. ASSUME NEW q \in s .. e - 1
      PROVE  h[q].of # "none" /\ Joined(h, s, q)
  <2>1. CASE q = s
    BY <2>1, JoinedTransitive
  <2>2. CASE q # s
    <3>1. q \in s + 1 .. HostPages /\ q < e
      BY <1>1, <1>3, <2>2
    <3>2. ~Out(q)
      <4>1. q \notin E
        BY <1>1, <1>3, <3>1
      <4> HIDE DEF Out
      <4> QED BY <3>1, <4>1
    <3> QED BY <3>2
  <2> QED BY <2>1, <2>2
<1>5. e \in s + 1 .. HostPages /\ Ends(e)
  BY <1>3, <1>4
<1>6. EndOf(h, s) = CHOOSE x \in s + 1 .. HostPages : Ends(x)
  BY DEF EndOf
<1> HIDE DEF Ends
<1>7. EndOf(h, s) \in s + 1 .. HostPages /\ Ends(EndOf(h, s))
  BY <1>5, <1>6
<1> QED BY <1>7 DEF Ends

\* The pages of the mappings that begin in low memory.
Covered(h, q) == \E m \in LowMaps(h) : q \in m.start .. m.end - 1

\* What a line says of a page that it covers.
LEMMA LineOfPage ==
  ASSUME NEW h \in [Pages -> Page], NEW m \in LowMaps(h)
  PROVE  /\ m.start \in Pages /\ m.end \in m.start + 1 .. HostPages
         /\ m.prot = h[m.start].prot
         /\ m = [start |-> m.start, end |-> m.end, prot |-> m.prot]
         /\ \A q \in m.start .. m.end - 1 : m.prot = h[q].prot
<1>1. PICK s \in Starts(h) : m = [start |-> s, end |-> EndOf(h, s), prot |-> h[s].prot]
  BY DEF LowMaps
<1>2. s \in Pages /\ h[s].of # "none"
  BY <1>1 DEF Starts
<1>3. /\ EndOf(h, s) \in s + 1 .. HostPages
      /\ \A q \in s .. EndOf(h, s) - 1 : Joined(h, s, q)
  BY <1>2, EndOfMapping
<1>4. \A q \in s .. EndOf(h, s) - 1 : h[s].prot = h[q].prot
  BY <1>3 DEF Joined
<1> QED BY <1>1, <1>2, <1>3, <1>4

\* There is one of them for each page, at most.
LEMMA LowMapsFinite ==
  ASSUME NEW h
  PROVE  IsFiniteSet(LowMaps(h))
<1> DEFINE S == {t \in Starts(h) : t < MAPS_LOW_LIMIT}
           f == [s \in S |-> [start |-> s, end |-> EndOf(h, s), prot |-> h[s].prot]]
<1>1. IsFiniteSet(Pages)
  BY PageNumbers, FS_Interval DEF Pages
<1>2. S \subseteq Pages
  BY DEF Starts
<1>3. IsFiniteSet(S)
  BY <1>1, <1>2, FS_Subset
<1>4. f \in Surjection(S, LowMaps(h))
  BY DEF Surjection, LowMaps
<1> HIDE DEF S, f
<1> QED BY <1>3, <1>4, FS_Surjection

\* Every page of low memory with something in it is in one of them: it has a
\* first page to the left to which it is joined.
LEMMA LowPagesCovered ==
  ASSUME NEW h \in [Pages -> Page], NEW q \in LowPages, h[q].of # "none"
  PROVE  Covered(h, q)
<1> DEFINE T == {s \in 0 .. q : \A p \in s .. q : h[p].of # "none" /\ Joined(h, p, q)}
<1>1. /\ q \in Pages /\ q \in Nat /\ q < MAPS_LOW_LIMIT /\ q < HostPages
      /\ HostPages \in Nat
  BY PageNumbers DEF Pages, LowPages
<1>2. q \in T /\ T \subseteq Nat
  <2>1. \A p \in q .. q : p = q
    BY <1>1
  <2> QED BY <1>1, <2>1, JoinedTransitive
<1>3. PICK s \in T : \A k \in T : s <= k
  <2> HIDE DEF T
  <2> QED BY <1>2, LeastOfNat
<1>4. /\ s \in 0 .. q /\ s \in Pages
      /\ \A p \in s .. q : h[p].of # "none" /\ Joined(h, p, q)
  BY <1>1, <1>3 DEF Pages
<1>5. h[s].of # "none"
  BY <1>4
<1>6. s \in Starts(h)
  <2> SUFFICES ASSUME s # 0, Joined(h, s - 1, s) PROVE FALSE
    BY <1>4, <1>5 DEF Starts
  <2>1. s - 1 \in Pages /\ s - 1 \in 0 .. q
    BY <1>1, <1>4 DEF Pages
  <2>2. h[s - 1].of # "none"
    BY <1>5 DEF Joined
  <2>3. Joined(h, s - 1, q)
    <3>1. Joined(h, s, q)
      BY <1>4
    <3> QED BY <1>1, <1>4, <2>1, <3>1, JoinedTransitive
  <2>4. s - 1 \in T
    <3>1. \A p \in s - 1 .. q : p = s - 1 \/ p \in s .. q
      BY <1>4
    <3> QED BY <1>4, <2>1, <2>2, <2>3, <3>1
  <2>5. ~(s <= s - 1)
    BY <1>4
  <2> QED BY <1>3, <2>4, <2>5
<1> DEFINE e == EndOf(h, s)
<1>7. /\ e \in s + 1 .. HostPages
      /\ e = HostPages \/ h[e].of = "none" \/ ~Joined(h, s, e)
  BY <1>4, <1>5, EndOfMapping
<1> HIDE DEF e, T
<1>8. q < e
  <2> SUFFICES ASSUME e <= q PROVE FALSE
    BY <1>1, <1>4, <1>7
  <2>1. e \in s .. q /\ e \in Pages
    BY <1>1, <1>4, <1>7 DEF Pages
  <2>2. h[e].of # "none" /\ Joined(h, e, q) /\ Joined(h, s, q)
    BY <1>4, <2>1
  <2>3. Joined(h, s, e)
    BY <1>1, <1>4, <2>1, <2>2, JoinedTransitive
  <2> QED BY <1>1, <1>7, <2>1, <2>2, <2>3
<1> DEFINE m == [start |-> s, end |-> e, prot |-> h[s].prot]
<1>9. m \in LowMaps(h)
  <2>1. s < MAPS_LOW_LIMIT
    BY <1>1, <1>4, PageNumbers
  <2> QED BY <1>6, <2>1 DEF LowMaps, e
<1>10. q \in m.start .. m.end - 1
  BY <1>1, <1>4, <1>7, <1>8
<1> QED BY <1>9, <1>10 DEF Covered

-----------------------------------------------------------------------------
(* mprotect() of those mappings.                                           *)

\* protect_low_memory() takes the right to write from the pages that they
\* cover.
LEMMA SealedPages ==
  ASSUME NEW h \in [Pages -> Page], NEW q \in Pages
  PROVE  Protected(h, Sealed(LowMaps(h)))[q] =
           IF Covered(h, q) THEN [h[q] EXCEPT !.prot = h[q].prot \ {"W"}] ELSE h[q]
<1> DEFINE maps == Sealed(LowMaps(h))
           c == CHOOSE m \in maps : q \in m.start .. m.end - 1
<1>1. \A m \in LowMaps(h) :
        /\ [m EXCEPT !.prot = @ \ {"W"}].start = m.start
        /\ [m EXCEPT !.prot = @ \ {"W"}].end = m.end
        /\ [m EXCEPT !.prot = @ \ {"W"}].prot = m.prot \ {"W"}
  BY LineOfPage
<1>2. (\E m \in maps : q \in m.start .. m.end - 1) <=> Covered(h, q)
  BY <1>1 DEF Sealed, Covered
<1>3. ASSUME NEW m \in maps, q \in m.start .. m.end - 1
      PROVE  m.prot = h[q].prot \ {"W"}
  <2>1. PICK l \in LowMaps(h) : m = [l EXCEPT !.prot = @ \ {"W"}]
    BY DEF Sealed
  <2>2. m.start = l.start /\ m.end = l.end /\ m.prot = l.prot \ {"W"}
    BY <1>1, <2>1
  <2>3. l.prot = h[q].prot
    BY <1>3, <2>2, LineOfPage
  <2> QED BY <2>2, <2>3
<1> HIDE DEF maps
<1>4. CASE Covered(h, q)
  <2>1. c \in maps /\ q \in c.start .. c.end - 1
    BY <1>2, <1>4
  <2>2. c.prot = h[q].prot \ {"W"}
    BY <1>3, <2>1
  <2>3. Protected(h, maps)[q] = [h[q] EXCEPT !.prot = c.prot]
    BY <1>2, <1>4 DEF Protected
  <2> HIDE DEF c
  <2> QED BY <1>4, <2>2, <2>3 DEF maps
<1>5. CASE ~Covered(h, q)
  BY <1>2, <1>5 DEF Protected, maps
<1> QED BY <1>4, <1>5

\* unprotect_low_memory() gives the pages of the mappings in h the protection
\* that they have there, whatever it finds.
LEMMA OpenedPages ==
  ASSUME NEW h \in [Pages -> Page], NEW g, NEW q \in Pages
  PROVE  Protected(g, LowMaps(h))[q] =
           IF Covered(h, q) THEN [g[q] EXCEPT !.prot = h[q].prot] ELSE g[q]
<1> DEFINE c == CHOOSE m \in LowMaps(h) : q \in m.start .. m.end - 1
<1>1. CASE Covered(h, q)
  <2>1. c \in LowMaps(h) /\ q \in c.start .. c.end - 1
    BY <1>1 DEF Covered
  <2>2. c.prot = h[q].prot
    BY <2>1, LineOfPage
  <2>3. Protected(g, LowMaps(h))[q] = [g[q] EXCEPT !.prot = c.prot]
    BY <1>1 DEF Covered, Protected
  <2> HIDE DEF c
  <2> QED BY <1>1, <2>2, <2>3
<1>2. CASE ~Covered(h, q)
  BY <1>2 DEF Covered, Protected
<1> QED BY <1>1, <1>2

\* Sealed and opened again, memory is what it was.
LEMMA OpenUndoesSeal ==
  ASSUME NEW h \in [Pages -> Page]
  PROVE  Protected(Protected(h, Sealed(LowMaps(h))), LowMaps(h)) = h
<1> DEFINE g == Protected(h, Sealed(LowMaps(h)))
           o == Protected(g, LowMaps(h))
<1>1. ASSUME NEW q \in Pages PROVE o[q] = h[q]
  <2>1. g[q] = IF Covered(h, q) THEN [h[q] EXCEPT !.prot = h[q].prot \ {"W"}] ELSE h[q]
    BY SealedPages
  <2> HIDE DEF g
  <2>2. o[q] = IF Covered(h, q) THEN [g[q] EXCEPT !.prot = h[q].prot] ELSE g[q]
    BY OpenedPages
  <2> HIDE DEF o
  <2>3. h[q] = [of |-> h[q].of, at |-> h[q].at, prot |-> h[q].prot]
    <3>1. h[q] \in Page
      OBVIOUS
    <3> QED BY <3>1 DEF Page
  <2>4. CASE Covered(h, q)
    <3>1. g[q] = [of |-> h[q].of, at |-> h[q].at, prot |-> h[q].prot \ {"W"}]
      BY <2>1, <2>3, <2>4
    <3>2. o[q] = [of |-> h[q].of, at |-> h[q].at, prot |-> h[q].prot]
      BY <2>2, <2>4, <3>1
    <3> QED BY <2>3, <3>2
  <2>5. CASE ~Covered(h, q)
    BY <2>1, <2>2, <2>5
  <2> QED BY <2>4, <2>5
<1>2. o = [q \in Pages |-> o[q]]
  BY DEF Protected
<1>3. h = [q \in Pages |-> h[q]]
  OBVIOUS
<1> HIDE DEF o
<1>4. o = h
  BY <1>1, <1>2, <1>3
<1> QED BY <1>4 DEF o

-----------------------------------------------------------------------------
(* The invariant.                                                          *)

LEMMA MappedType ==
  ASSUME loaded \in Loaded
  PROVE  /\ Mapped \in [Pages -> Page]
         /\ \A q \in LowPages \cup {top_guest_1} : Mapped[q] = loaded[q]
  BY LoadedPages, FlatKeeps DEF Mapped

LEMMA InitIInv == Init => IInv
  BY DEF Init, MemoryInit, IInv, Phases, Lost

LEMMA NextIInv == IInv /\ [Next]_vars => IInv'
<1> SUFFICES ASSUME IInv, [Next]_vars PROVE IInv'
  OBVIOUS
<1> USE DEF IInv, Phases, Lost, Go
<1>m. loaded' = loaded => Mapped' = Mapped /\ LowSealedView' = LowSealedView
  BY DEF Mapped, LowSealedView
<1> HIDE DEF IInv
<1>1. CASE Allocate
  BY <1>1, <1>m DEF Allocate, AllocatePhysicalMemory, IInv
<1>2. CASE Map
  BY <1>2, <1>m DEF Map, SetFlatMapping, IInv, Mapped
<1>3. CASE Parse \/ ParseFails
  BY <1>3, <1>m DEF Parse, ParseFails, memvars, IInv
<1>4. CASE Extract \/ Extracted \/ ExtractDies
  BY <1>4, <1>m DEF Extract, Extracted, ExtractDies, memvars, IInv
<1>5. CASE Load \/ LoadFails \/ LoadOverMonitor
  BY <1>5, <1>m DEF Load, LoadFails, LoadOverMonitor, memvars, IInv
<1>6. CASE Open
  <2>1. /\ phase = "open" /\ phase' = "emulate" /\ loaded' = loaded
        /\ host' = Protected(host, low_memory_maps)
        /\ UNCHANGED <<guest_memory, low_memory_maps>>
    BY <1>6 DEF Open, UnprotectLowMemory
  <2>2. host' = Mapped
    BY <2>1, OpenUndoesSeal, MappedType DEF IInv, LowSealedView
  <2> QED BY <1>m, <2>1, <2>2 DEF IInv
<1>7. CASE Emulate \/ EmulateSetPageTable \/ EmulateBusError \/ EmulateExit
  BY <1>7, <1>m DEF Emulate, EmulateSetPageTable, EmulateBusError, EmulateExit, memvars, IInv
<1>8. CASE Seal
  <2>1. /\ phase = "seal" /\ phase' = "guest" /\ loaded' = loaded
        /\ host' = Protected(host, Sealed(LowMaps(host)))
        /\ low_memory_maps' = LowMaps(host)
        /\ UNCHANGED guest_memory
    BY <1>8 DEF Seal, ProtectLowMemory, Saved
  <2> QED BY <1>m, <2>1 DEF IInv, LowSealedView
<1>9. CASE SealFails \/ SealOverruns
  BY <1>9, <1>m DEF SealFails, SealOverruns, memvars, IInv
<1>10. CASE Trap \/ BusError
  BY <1>10, <1>m DEF Trap, BusError, memvars, IInv
<1>11. CASE Ended \/ UNCHANGED vars
  BY <1>11, <1>m DEF Ended, vars, memvars, IInv
<1> QED BY <1>1, <1>2, <1>3, <1>4, <1>5, <1>6, <1>7, <1>8, <1>9, <1>10, <1>11
        DEF Next, Boot, Handler

\* The invariant holds throughout main() and after any number of traps
\* (monitor.c, intercept.c).
THEOREM Invariance == Spec => []IInv
  BY InitIInv, NextIInv, PTL DEF Spec

-----------------------------------------------------------------------------
(* The properties.                                                         *)

\* While the guest runs, no page of low memory can be written, neither one of
\* the monitor nor, because nothing is mapped there, any other: every store
\* of the guest there traps (memory.c:155).
THEOREM GuestCannotWriteMonitor == Spec => []LowSealed
<1>1. IInv => LowSealed
  <2> SUFFICES ASSUME IInv, phase \in {"guest", "open"}, NEW q \in LowPages
               PROVE  ~Writable(q)
    BY DEF LowSealed
  <2>1. /\ Mapped \in [Pages -> Page]
        /\ q \in Pages /\ Mapped[q] = loaded[q]
    BY MappedType, PageNumbers DEF IInv
  <2>2. host[q] = IF Covered(Mapped, q)
                  THEN [Mapped[q] EXCEPT !.prot = Mapped[q].prot \ {"W"}] ELSE Mapped[q]
    BY <2>1, SealedPages DEF IInv, LowSealedView
  <2>3. CASE Covered(Mapped, q)
    <3>1. Mapped[q] \in Page
      BY <2>1
    <3>2. host[q].prot = Mapped[q].prot \ {"W"}
      BY <2>2, <2>3, <3>1 DEF Page
    <3> QED BY <3>2 DEF Writable
  <2>4. CASE ~Covered(Mapped, q)
    <3>1. Mapped[q].of = "none"
      BY <2>1, <2>4, LowPagesCovered
    <3>2. loaded[q].prot = {}
      BY <2>1, <3>1, LoadedPages DEF IInv
    <3> QED BY <2>1, <2>2, <2>4, <3>2 DEF Writable
  <2> QED BY <2>3, <2>4
<1> QED BY <1>1, Invariance, PTL

\* Whenever the monitor runs, all of its pages are those that the host loaded,
\* with the protection that they had then (memory.c:163).
THEOREM MonitorStaysIntact == Spec => []MonitorIntact
<1>1. IInv => MonitorIntact
  <2> SUFFICES ASSUME IInv, phase \notin {"guest", "open"} \cup Lost,
                      NEW q \in Pages, loaded[q].of = "monitor"
               PROVE  host[q] = loaded[q]
    BY DEF MonitorIntact
  <2>1. host \in {loaded, Mapped}
    BY DEF IInv, Phases, Lost
  <2>2. q \in LowPages \cup {top_guest_1}
    BY LoadedPages DEF IInv
  <2> QED BY <2>1, <2>2, MappedType DEF IInv
<1> QED BY <1>1, Invariance, PTL

\* Where a linker leaves fewer mappings in low memory than low_memory_maps can
\* keep, no seal after any number of traps writes behind it (memory.c:142): the
\* view that is sealed is always the one that was loaded.
THEOREM FewMapsSuffice == Spec => []FewMapsKept
<1>1. Init => FewMapsKept
  BY DEF Init, FewMapsKept
<1>2. IInv /\ FewMapsKept /\ [Next]_vars => FewMapsKept'
  <2> DEFINE Count(h) == Cardinality(LowMaps(Flat(h)))
  <2> SUFFICES ASSUME IInv, FewMapsKept, [Next]_vars, phase' = "overrun",
                      Count(loaded') < MAPS_MAX_SIZE
               PROVE  FALSE
    BY DEF FewMapsKept
  <2>1. SealOverruns \/ UNCHANGED vars
    BY DEF Next, Boot, Handler, Allocate, Map, Parse, ParseFails,
           Extract, ExtractDies, Extracted, Load, LoadFails, LoadOverMonitor, Seal,
           SealFails, SealOverruns, Trap, BusError, Open, Emulate, EmulateSetPageTable,
           EmulateBusError, EmulateExit, Ended, Go
  <2>2. loaded' = loaded
    BY <2>1 DEF SealOverruns, Go, vars
  <2>3. Count(loaded) < MAPS_MAX_SIZE
    BY <2>2
  <2>4. SealOverruns
    BY <2>1, <2>3 DEF FewMapsKept, vars
  <2>5. host = Flat(loaded) /\ loaded \in Loaded
    BY <2>4 DEF SealOverruns, Go, IInv, Mapped
  <2>6. Count(loaded) >= MAPS_MAX_SIZE
    BY <2>4, <2>5 DEF SealOverruns, TooManyMaps
  <2>7. Count(loaded) \in Nat /\ MAPS_MAX_SIZE \in Nat
    <3>1. IsFiniteSet(LowMaps(host))
      BY <2>5, LowMapsFinite
    <3> QED BY <2>5, <3>1, FS_CardinalityType, MemoryAssumption
  <2> HIDE DEF Count
  <2> QED BY <2>3, <2>6, <2>7
<1> QED BY <1>1, <1>2, Invariance, PTL DEF Spec

-----------------------------------------------------------------------------
(* The image of the kernel.  To show that it is as linked takes where the  *)
(* words of a kernel are in its file, which FlattenSeq() in Image hides,   *)
(* that the walk of extract_multiboot2() goes from tag to tag, and that    *)
(* what load_multiboot2() subtracts does not wrap around.                  *)

\* s is t followed by u.
Follows(s, t, u, T) ==
  /\ s \in Seq(T) /\ Len(s) = Len(t) + Len(u)
  /\ \A n \in 1 .. Len(t) : s[n] = t[n]
  /\ \A n \in 1 .. Len(u) : s[Len(t) + n] = u[n]

\* Appending is what Follows says.
LEMMA Appended ==
  ASSUME NEW T, NEW t \in Seq(T), NEW u \in Seq(T)
  PROVE  Follows(t \o u, t, u, T)
<1> DEFINE s == t \o u
<1>1. /\ s \in Seq(T) /\ Len(s) = Len(t) + Len(u) /\ Len(t) \in Nat /\ Len(u) \in Nat
      /\ \A n \in 1 .. Len(t) + Len(u) : s[n] = IF n <= Len(t) THEN t[n] ELSE u[n - Len(t)]
  BY ConcatProperties
<1> HIDE DEF s
<1>2. ASSUME NEW n \in 1 .. Len(t) PROVE s[n] = t[n]
  BY <1>1
<1>3. ASSUME NEW n \in 1 .. Len(u) PROVE s[Len(t) + n] = u[n]
  <2>1. /\ Len(t) + n \in 1 .. Len(t) + Len(u)
        /\ ~ (Len(t) + n <= Len(t)) /\ (Len(t) + n) - Len(t) = n
    BY <1>1
  <2> QED BY <1>1, <2>1
<1>4. Follows(s, t, u, T)
  BY <1>1, <1>2, <1>3 DEF Follows
<1> QED BY <1>4 DEF s

\* Where each of a sequence of sequences begins when they follow each other.
Offsets(off, ss, n) ==
  /\ off \in [1 .. n + 1 -> Nat] /\ off[1] = 0
  /\ \A m \in 1 .. n : off[m + 1] = off[m] + Len(ss[m])

\* w holds the first n of them.
Holds(w, off, ss, n) ==
  /\ Len(w) = off[n + 1]
  /\ \A m \in 1 .. n : \A j \in 1 .. Len(ss[m]) :
       off[m] + j \in 1 .. Len(w) /\ w[off[m] + j] = ss[m][j]

\* g computes them as FlattenSeq() does.
Flattens(g, off, ss, T, n) ==
  /\ g \in [1 .. n -> Seq(T)]
  /\ \A m \in 1 .. n : g[m] = IF m = 1 THEN ss[m] ELSE g[m - 1] \o ss[m]
  /\ Offsets(off, ss, n)
  /\ n # 0 => Holds(g[n], off, ss, n)

\* One more.
LEMMA FlattensNext ==
  ASSUME NEW T, NEW ss \in Seq(Seq(T)), NEW n \in 0 .. Len(ss) - 1,
         NEW g, NEW off, Flattens(g, off, ss, T, n)
  PROVE  \E h, o : Flattens(h, o, ss, T, n + 1)
<1> DEFINE u == ss[n + 1]
           w == IF n = 0 THEN u ELSE g[n] \o u
           h == [m \in 1 .. n + 1 |-> IF m = n + 1 THEN w ELSE g[m]]
           o == [m \in 1 .. n + 2 |-> IF m = n + 2 THEN off[n + 1] + Len(u) ELSE off[m]]
<1>1. n \in Nat /\ n + 1 \in 1 .. Len(ss) /\ u \in Seq(T) /\ Len(u) \in Nat
  BY LenProperties
<1>2. /\ g \in [1 .. n -> Seq(T)] /\ off \in [1 .. n + 1 -> Nat] /\ off[1] = 0
      /\ \A m \in 1 .. n : off[m + 1] = off[m] + Len(ss[m])
      /\ \A m \in 1 .. n : g[m] = IF m = 1 THEN ss[m] ELSE g[m - 1] \o ss[m]
      /\ n # 0 => Holds(g[n], off, ss, n)
  BY DEF Flattens, Offsets
<1>3. off[n + 1] \in Nat
  BY <1>1, <1>2
<1>4. /\ w \in Seq(T) /\ Len(w) = off[n + 1] + Len(u)
      /\ \A j \in 1 .. Len(u) : w[off[n + 1] + j] = u[j]
      /\ \A m \in 1 .. n : \A j \in 1 .. Len(ss[m]) :
           off[m] + j \in 1 .. off[n + 1] /\ w[off[m] + j] = ss[m][j]
  <2>1. CASE n = 0
    <3>1. w = u /\ off[n + 1] = 0
      BY <1>2, <2>1
    <3> HIDE DEF w, u
    <3>2. \A j \in 1 .. Len(u) : off[n + 1] + j = j
      BY <3>1
    <3> QED BY <1>1, <2>1, <3>1, <3>2
  <2>2. CASE n # 0
    <3>1. w = g[n] \o u /\ n \in 1 .. n
      <4>1. w = g[n] \o u
        BY <2>2, Zenon
      <4>2. n \in 1 .. n
        BY <1>1, <2>2
      <4> QED BY <4>1, <4>2
    <3>2. g[n] \in Seq(T)
      BY <1>2, <3>1
    <3>3. Follows(g[n] \o u, g[n], u, T)
      BY <1>1, <3>2, Appended
    <3>4. Follows(w, g[n], u, T)
      BY <3>1, <3>3, Zenon
    <3>5. /\ Len(g[n]) = off[n + 1]
          /\ \A m \in 1 .. n : \A j \in 1 .. Len(ss[m]) :
               off[m] + j \in 1 .. Len(g[n]) /\ g[n][off[m] + j] = ss[m][j]
      BY <1>2, <2>2 DEF Holds
    <3> HIDE DEF w, u
    <3> QED BY <3>4, <3>5 DEF Follows
  <2> QED BY <2>1, <2>2
<1> HIDE DEF w
<1>5. h \in [1 .. n + 1 -> Seq(T)]
  BY <1>1, <1>2, <1>4
<1>6. ASSUME NEW m \in 1 .. n + 1
      PROVE  h[m] = IF m = 1 THEN ss[m] ELSE h[m - 1] \o ss[m]
  <2>1. CASE m = n + 1
    <3>1. h[m] = w
      BY <2>1
    <3>2. CASE n = 0
      BY <2>1, <3>1, <3>2 DEF w
    <3>3. CASE n # 0
      <4>1. h[m - 1] = g[n] /\ m # 1 /\ ss[m] = u
        BY <1>1, <2>1, <3>3
      <4>2. w = g[n] \o u
        BY <3>3 DEF w
      <4> HIDE DEF h, u
      <4> QED BY <3>1, <4>1, <4>2, Zenon
    <3> QED BY <3>2, <3>3
  <2>2. CASE m # n + 1
    <3>1. m \in 1 .. n /\ h[m] = g[m] /\ (m # 1 => h[m - 1] = g[m - 1])
      BY <1>1, <2>2
    <3>2. g[m] = IF m = 1 THEN ss[m] ELSE g[m - 1] \o ss[m]
      BY <1>2, <3>1
    <3> HIDE DEF h
    <3> QED BY <3>1, <3>2, Zenon
  <2> QED BY <2>1, <2>2
<1>7. /\ o \in [1 .. n + 2 -> Nat] /\ o[n + 2] = off[n + 1] + Len(u)
      /\ \A m \in 1 .. n + 1 : o[m] = off[m]
  <2> HIDE DEF u, h
  <2>1. off[n + 1] + Len(u) \in Nat
    BY <1>1, <1>3
  <2>2. \A m \in 1 .. n + 2 : m # n + 2 => m \in 1 .. n + 1 /\ off[m] \in Nat
    BY <1>1, <1>2
  <2>3. o \in [1 .. n + 2 -> Nat]
    BY <2>1, <2>2
  <2>4. n + 2 \in 1 .. n + 2 /\ \A m \in 1 .. n + 1 : m \in 1 .. n + 2 /\ m # n + 2
    BY <1>1
  <2> QED BY <2>3, <2>4
<1>8. h[n + 1] = w
  BY <1>1
<1> HIDE DEF h, o
<1>9. Offsets(o, ss, n + 1)
  <2>1. ASSUME NEW m \in 1 .. n + 1 PROVE o[m + 1] = o[m] + Len(ss[m])
    <3>1. CASE m = n + 1
      BY <1>1, <1>7, <3>1
    <3>2. CASE m # n + 1
      <4>1. m \in 1 .. n /\ m + 1 \in 1 .. n + 1
        BY <1>1, <3>2
      <4> QED BY <1>2, <1>7, <4>1
    <3> QED BY <3>1, <3>2
  <2>2. o \in [1 .. (n + 1) + 1 -> Nat] /\ o[1] = 0
    <3>1. (n + 1) + 1 = n + 2 /\ 1 \in 1 .. n + 1
      BY <1>1
    <3> QED BY <1>2, <1>7, <3>1
  <2> QED BY <2>1, <2>2 DEF Offsets
<1>10. Holds(w, o, ss, n + 1)
  <2>1. Len(w) = o[(n + 1) + 1]
    <3>1. (n + 1) + 1 = n + 2
      BY <1>1
    <3> QED BY <1>4, <1>7, <3>1
  <2>2. ASSUME NEW m \in 1 .. n + 1, NEW j \in 1 .. Len(ss[m])
        PROVE  o[m] + j \in 1 .. Len(w) /\ w[o[m] + j] = ss[m][j]
    <3>1. CASE m = n + 1
      <4>1. o[m] = off[n + 1] /\ ss[m] = u /\ j \in 1 .. Len(u)
        BY <1>7, <3>1
      <4> HIDE DEF u
      <4> QED BY <1>1, <1>3, <1>4, <4>1
    <3>2. CASE m # n + 1
      <4>1. m \in 1 .. n /\ o[m] = off[m]
        BY <1>1, <1>7, <3>2
      <4>2. off[m] + j \in 1 .. off[n + 1] /\ w[off[m] + j] = ss[m][j]
        BY <1>4, <4>1
      <4>3. PICK e \in Nat, p \in Nat : e = off[n + 1] /\ p = off[m] + j
        BY <1>3, <4>2
      <4>4. p \in 1 .. e /\ p \in 1 .. e + Len(u) /\ w[p] = ss[m][j]
        BY <1>1, <4>2, <4>3
      <4> HIDE DEF u
      <4> QED BY <1>4, <4>1, <4>3, <4>4
    <3> QED BY <3>1, <3>2
  <2> QED BY <2>1, <2>2 DEF Holds
<1>11. Flattens(h, o, ss, T, n + 1)
  BY <1>5, <1>6, <1>8, <1>9, <1>10 DEF Flattens
<1> QED BY <1>11

\* They are laid out one behind the other.
LEMMA FlatLayout ==
  ASSUME NEW T, NEW ss \in Seq(Seq(T))
  PROVE  /\ FlattenSeq(ss) \in Seq(T)
         /\ \E off : Offsets(off, ss, Len(ss)) /\ Holds(FlattenSeq(ss), off, ss, Len(ss))
<1> DEFINE N == Len(ss)
           S == {n \in 0 .. N : \E g, off : Flattens(g, off, ss, T, n)}
<1>1. N \in Nat
  BY LenProperties
<1>2. CASE N = 0
  <2>1. ss = <<>> /\ FlattenSeq(ss) = ss
    BY <1>2, EmptySeq DEF FlattenSeq
  <2> DEFINE off == [m \in 1 .. 1 |-> 0]
  <2>2. Offsets(off, ss, 0) /\ Holds(ss, off, ss, 0)
    BY <1>2 DEF Offsets, Holds
  <2>3. ss \in Seq(T)
    BY <2>1
  <2> HIDE DEF off
  <2> QED BY <1>2, <2>1, <2>2, <2>3
<1>3. CASE N # 0
  <2>1. 0 \in S
    <3> DEFINE g == [m \in 1 .. 0 |-> ss]
               off == [m \in 1 .. 1 |-> 0]
    <3>1. g \in [1 .. 0 -> Seq(T)] /\ Offsets(off, ss, 0)
      BY DEF Offsets
    <3>2. Flattens(g, off, ss, T, 0)
      BY <3>1 DEF Flattens
    <3> HIDE DEF g, off
    <3> QED BY <1>1, <3>2
  <2>2. ASSUME NEW n \in 0 .. N - 1, n \in S PROVE n + 1 \in S
    <3>1. PICK g, off : Flattens(g, off, ss, T, n)
      BY <2>2
    <3>2. \E h, o : Flattens(h, o, ss, T, n + 1)
      BY <3>1, FlattensNext
    <3>3. n + 1 \in 0 .. N
      BY <1>1
    <3> QED BY <3>2, <3>3
  <2>3. N \in S
    <3> HIDE DEF S, N
    <3>1. \A n \in 0 .. N - 1 : n \in S => n + 1 \in S
      BY <2>2
    <3>2. \A n \in 0 .. N : n \in S
      BY <1>1, <2>1, <3>1, UpInduction
    <3> QED BY <1>1, <3>2
  <2>4. PICK g, off : Flattens(g, off, ss, T, N)
    BY <2>3
  <2> DEFINE Is(f) == f = [i_ \in 1 .. N |-> IF i_ = 1 THEN ss[i_] ELSE f[i_ - 1] \o ss[i_]]
             F == CHOOSE f : Is(f)
  <2>5. FlattenSeq(ss) = F[N]
    BY <1>3, Zenon DEF FlattenSeq
  <2>6. Is(g)
    <3>1. /\ g \in [1 .. N -> Seq(T)]
          /\ \A m \in 1 .. N : g[m] = IF m = 1 THEN ss[m] ELSE g[m - 1] \o ss[m]
      BY <2>4 DEF Flattens
    <3>2. g = [m \in 1 .. N |-> g[m]]
      BY <3>1
    <3>3. [m \in 1 .. N |-> g[m]] = [m \in 1 .. N |-> IF m = 1 THEN ss[m] ELSE g[m - 1] \o ss[m]]
      BY <3>1, Zenon
    <3> QED BY <3>2, <3>3, Zenon
  <2>7. Is(F)
    <3> HIDE DEF Is
    <3> QED BY <2>6, Zenon
  <2> HIDE DEF F
  <2>8. \A n \in 1 .. N : F[n] = IF n = 1 THEN ss[n] ELSE F[n - 1] \o ss[n]
    BY <2>7, Zenon
  <2>9. \A n \in 1 .. N : g[n] = IF n = 1 THEN ss[n] ELSE g[n - 1] \o ss[n]
    BY <2>6, Zenon
  <2> DEFINE Same == {n \in 0 .. N - 1 : F[n + 1] = g[n + 1]}
  <2>10. N - 1 \in Same
    <3>1. 0 \in Same
      <4>1. 0 \in 0 .. N - 1 /\ 0 + 1 = 1 /\ 1 \in 1 .. N
        BY <1>1, <1>3
      <4>2. F[1] = ss[1] /\ g[1] = ss[1]
        BY <2>8, <2>9, <4>1, Zenon
      <4> QED BY <4>1, <4>2
    <3>2. ASSUME NEW n \in 0 .. (N - 1) - 1, n \in Same PROVE n + 1 \in Same
      <4>1. /\ (n + 1) + 1 \in 1 .. N /\ (n + 1) + 1 # 1 /\ ((n + 1) + 1) - 1 = n + 1
            /\ n + 1 \in 0 .. N - 1
        BY <1>1
      <4>2. F[n + 1] = g[n + 1]
        BY <3>2
      <4>3. F[(n + 1) + 1] = F[n + 1] \o ss[(n + 1) + 1]
        BY <2>8, <4>1, Zenon
      <4>4. g[(n + 1) + 1] = g[n + 1] \o ss[(n + 1) + 1]
        BY <2>9, <4>1, Zenon
      <4>5. F[(n + 1) + 1] = g[(n + 1) + 1]
        BY <4>2, <4>3, <4>4, Zenon
      <4> QED BY <4>1, <4>5
    <3> HIDE DEF Same, N
    <3>3. N - 1 \in Nat
      BY <1>1, <1>3
    <3>4. \A n \in 0 .. (N - 1) - 1 : n \in Same => n + 1 \in Same
      BY <3>2
    <3>5. \A n \in 0 .. N - 1 : n \in Same
      BY <3>1, <3>3, <3>4, UpInduction
    <3> QED BY <3>3, <3>5
  <2>11. FlattenSeq(ss) = g[N]
    <3>1. (N - 1) + 1 = N
      BY <1>1
    <3> QED BY <2>5, <2>10, <3>1
  <2>12. N \in 1 .. N
    BY <1>1, <1>3
  <2> QED BY <1>3, <2>4, <2>11, <2>12 DEF Flattens
<1> QED BY <1>2, <1>3

\* A tag has an even number of words: its type, its size, its body, and
\* perhaps one more.
LEMMA WordsOfTag ==
  ASSUME 0 \in Word, NEW t \in KernelTag
  PROVE  /\ TagWords(t) \in Seq(Word) /\ Len(t.body) \in Nat
         /\ TagWords(t)[1] = t.type /\ TagWords(t)[2] = t.size
         /\ \A j \in 1 .. Len(t.body) : TagWords(t)[2 + j] = t.body[j]
         /\ Len(TagWords(t)) = IF Len(t.body) % 2 = 0 THEN 2 + Len(t.body) ELSE 3 + Len(t.body)
<1> DEFINE two == <<t.type, t.size>>
           ws == two \o t.body
           B == Len(t.body)
<1>1. /\ t.type \in Word /\ t.size \in Word /\ t.body \in Seq(Word) /\ B \in Nat
      /\ two \in Seq(Word) /\ Len(two) = 2 /\ two[1] = t.type /\ two[2] = t.size
  BY DEF KernelTag
<1>2. Follows(ws, two, t.body, Word)
  BY <1>1, Appended
<1>3. TagWords(t) = IF Len(ws) % 2 = 0 THEN ws ELSE Append(ws, 0)
  BY Zenon DEF TagWords
<1> HIDE DEF two, ws
<1>4. /\ ws \in Seq(Word) /\ Len(ws) = 2 + B /\ ws[1] = t.type /\ ws[2] = t.size
      /\ \A j \in 1 .. B : ws[2 + j] = t.body[j]
  BY <1>1, <1>2 DEF Follows
<1> HIDE DEF B
<1>5. (2 + B) % 2 = B % 2
  BY <1>1
<1>6. CASE B % 2 = 0
  <2>1. TagWords(t) = ws
    BY <1>3, <1>4, <1>5, <1>6
  <2> QED BY <1>1, <1>4, <1>6, <2>1 DEF B
<1>7. CASE B % 2 # 0
  <2>1. TagWords(t) = Append(ws, 0)
    BY <1>3, <1>4, <1>5, <1>7
  <2> DEFINE w == Append(ws, 0)
  <2>2. /\ w \in Seq(Word) /\ Len(w) = Len(ws) + 1
        /\ \A j \in 1 .. Len(ws) : w[j] = ws[j]
    BY <1>4, AppendProperties
  <2> HIDE DEF w
  <2>3. TagWords(t) = w
    BY <2>1 DEF w
  <2>4. Len(w) = 3 + B /\ \A j \in 1 .. 2 + B : w[j] = ws[j]
    BY <1>1, <1>4, <2>2
  <2>5. \A j \in 1 .. B : 2 + j \in 1 .. 2 + B
    BY <1>1
  <2>6. 1 \in 1 .. 2 + B /\ 2 \in 1 .. 2 + B
    BY <1>1
  <2>7. w[1] = t.type /\ w[2] = t.size /\ \A j \in 1 .. B : w[2 + j] = t.body[j]
    BY <1>4, <2>4, <2>5, <2>6
  <2> QED BY <1>1, <1>7, <2>2, <2>3, <2>4, <2>7 DEF B
<1> QED BY <1>6, <1>7

\* The tags are a sequence of words.
LEMMA TagsAreWords ==
  ASSUME 0 \in Word, NEW k, WellFormed(k)
  PROVE  Tags(k) \in Seq(Word)
<1> DEFINE ss == [n \in DOMAIN k.tags |-> TagWords(k.tags[n])]
<1>1. k.tags \in Seq(KernelTag)
  BY DEF WellFormed
<1>2. ss \in Seq(Seq(Word))
  <2>1. Len(k.tags) \in Nat /\ DOMAIN k.tags = 1 .. Len(k.tags)
    BY <1>1
  <2>2. ASSUME NEW n \in 1 .. Len(k.tags) PROVE TagWords(k.tags[n]) \in Seq(Word)
    <3>1. k.tags[n] \in KernelTag
      BY <1>1, <2>1
    <3> QED BY <3>1, WordsOfTag
  <2>3. ss \in [1 .. Len(k.tags) -> Seq(Word)]
    BY <2>1, <2>2
  <2> HIDE DEF ss
  <2> QED BY <2>1, <2>3
<1>3. Tags(k) = FlattenSeq(ss)
  BY Zenon DEF Tags
<1> HIDE DEF ss
<1> QED BY <1>2, <1>3, FlatLayout

\* A difference that has wrapped around once.
LEMMA WrapsOnce ==
  ASSUME NEW M \in Nat, M # 0, NEW d \in Int, d + M \in 0 .. M - 1
  PROVE  d % M = d + M
  OBVIOUS

\* One that has not.
LEMMA WrapsNot ==
  ASSUME NEW M \in Nat, M # 0, NEW d \in 0 .. M - 1
  PROVE  d % M = d
  OBVIOUS

\* The word of a byte.
LEMMA Quarter ==
  ASSUME NEW n \in Nat
  PROVE  n \div 4 \in Nat /\ 4 * (n \div 4) <= n /\ n < 4 * (n \div 4) + 4
  OBVIOUS

\* What the four words before the tags are does not matter, except for the
\* length.
LEMMA WordsOfFile ==
  ASSUME NEW k, k.before \in Seq(Word), k.after \in Seq(Word), Tags(k) \in Seq(Word)
  PROVE  /\ Len(k.before) \in Nat /\ Len(Tags(k)) \in Nat
         /\ Len(Image(k)) \in Nat /\ DOMAIN Image(k) = 1 .. Len(Image(k))
         /\ Len(k.before) + 4 + Len(Tags(k)) <= Len(Image(k))
         /\ Image(k)[Len(k.before) + 3] = HeaderLength(k)
         /\ \A n \in 1 .. Len(Tags(k)) : Image(k)[Len(k.before) + 4 + n] = Tags(k)[n]
<1> DEFINE c == (k.error - MULTIBOOT_MAGIC - HeaderLength(k)) % Modulus
           four == <<MULTIBOOT_MAGIC, 0, HeaderLength(k), c>>
           T == Word \cup {MULTIBOOT_MAGIC, 0, HeaderLength(k), c}
           b == k.before
           g == Tags(k)
           a == k.after
           h == four \o g
           f == b \o h
           w == f \o a
<1>1. four \in Seq(T) /\ Len(four) = 4 /\ four[3] = HeaderLength(k)
  <2> DEFINE m == MULTIBOOT_MAGIC
             l == HeaderLength(k)
  <2> HIDE DEF m, l, c
  <2>1. <<m, 0, l, c>> \in Seq(Word \cup {m, 0, l, c})
    OBVIOUS
  <2>2. Len(<<m, 0, l, c>>) = 4 /\ <<m, 0, l, c>>[3] = l
    OBVIOUS
  <2> QED BY <2>1, <2>2 DEF m, l
<1>2. b \in Seq(T) /\ g \in Seq(T) /\ a \in Seq(T)
  <2>1. Word \subseteq T
    OBVIOUS
  <2>2. \A s \in Seq(Word) : s \in Seq(T)
    <3> HIDE DEF T
    <3> QED BY <2>1
  <2> QED BY <2>2
<1>3. Image(k) = w
  BY Zenon DEF Image, Header
<1> HIDE DEF four, T, b, g, a
<1>4. Follows(h, four, g, T)
  BY <1>1, <1>2, Appended
<1> HIDE DEF h
<1>5. Follows(f, b, h, T)
  <2>1. h \in Seq(T)
    BY <1>4 DEF Follows
  <2> QED BY <1>2, <2>1, Appended
<1> HIDE DEF f
<1>6. Follows(w, f, a, T)
  <2>1. f \in Seq(T)
    BY <1>5 DEF Follows
  <2> QED BY <1>2, <2>1, Appended
<1> HIDE DEF w
<1>7. Len(b) \in Nat /\ Len(g) \in Nat /\ Len(a) \in Nat
  BY <1>2
<1>8. /\ Len(h) = 4 + Len(g) /\ Len(f) = Len(b) + Len(h) /\ Len(w) = Len(f) + Len(a)
      /\ w \in Seq(T)
  BY <1>1, <1>4, <1>5, <1>6 DEF Follows
<1>9. ASSUME NEW n \in 1 .. 4 + Len(g) PROVE w[Len(b) + n] = h[n]
  <2>1. Len(b) + n \in 1 .. Len(f) /\ n \in 1 .. Len(h)
    BY <1>7, <1>8
  <2> QED BY <1>5, <1>6, <2>1 DEF Follows
<1>10. w[Len(b) + 3] = HeaderLength(k)
  <2>1. 3 \in 1 .. 4 + Len(g) /\ 3 \in 1 .. Len(four)
    BY <1>1, <1>7
  <2> QED BY <1>1, <1>4, <1>9, <2>1 DEF Follows
<1>11. ASSUME NEW n \in 1 .. Len(g) PROVE w[Len(b) + 4 + n] = g[n]
  <2>1. 4 + n \in 1 .. 4 + Len(g) /\ Len(b) + (4 + n) = Len(b) + 4 + n
    BY <1>7
  <2>2. h[4 + n] = g[n]
    BY <1>1, <1>4 DEF Follows
  <2> QED BY <1>9, <2>1, <2>2
<1>12. DOMAIN w = 1 .. Len(w) /\ Len(w) \in Nat
  BY <1>8
<1>13. /\ Len(b) \in Nat /\ Len(g) \in Nat
       /\ Len(w) \in Nat /\ DOMAIN w = 1 .. Len(w)
       /\ Len(b) + 4 + Len(g) <= Len(w)
       /\ w[Len(b) + 3] = HeaderLength(k)
       /\ \A n \in 1 .. Len(g) : w[Len(b) + 4 + n] = g[n]
  <2>1. Len(b) + 4 + Len(g) <= Len(w)
    BY <1>7, <1>8
  <2> QED BY <1>7, <1>10, <1>11, <1>12, <2>1
<1> QED BY <1>3, <1>13, Zenon DEF b, g

\* The positions of the tags in the header, in bytes, and the words there.
Layout(k, p) ==
  /\ p \in [1 .. Len(k.tags) + 1 -> Nat] /\ p[1] = 16
  /\ p[Len(k.tags) + 1] = HeaderLength(k)
  /\ \A n \in 1 .. Len(k.tags) :
       /\ p[n] < HeaderLength(k) /\ p[n] % 8 = 0
       /\ NextTag(p[n], 8 + 4 * Len(k.tags[n].body)) = p[n + 1]
       /\ BufferWord(k, heap, 4 * Len(k.before) + p[n]) = k.tags[n].type
       /\ BufferWord(k, heap, 4 * Len(k.before) + p[n] + 4) = k.tags[n].size
       /\ \A j \in 1 .. Len(k.tags[n].body) :
            BufferWord(k, heap, 4 * Len(k.before) + p[n] + 4 + 4 * j) = k.tags[n].body[j]

\* The position after a tag of its size is a multiple of 8 behind all its words.
LEMMA NextIsBehind ==
  ASSUME NEW n \in Nat, n % 8 = 0, NEW B \in Nat
  PROVE  NextTag(n, 8 + 4 * B) = n + 4 * (IF B % 2 = 0 THEN 2 + B ELSE 3 + B)
<1> DEFINE m == n + (8 + 4 * B)
<1>1. PICK q \in Nat : n = 8 * q
  BY SMT
<1>2. CASE B % 2 = 0
  <2>1. PICK r \in Nat : B = 2 * r
    BY <1>2
  <2>2. m % 8 = 0
    BY <1>1, <2>1
  <2> QED BY <1>2, <2>2 DEF NextTag
<1>3. CASE B % 2 # 0
  <2>1. PICK r \in Nat : B = 2 * r + 1
    BY <1>3
  <2>2. m = 8 * (q + r + 1) + 4
    BY <1>1, <2>1
  <2>3. m % 8 # 0 /\ m \div 8 = q + r + 1
    BY <1>1, <2>1, <2>2
  <2>4. (m \div 8) * 8 + 8 = m + 4
    BY <1>1, <2>1, <2>2, <2>3
  <2>5. NextTag(n, 8 + 4 * B) = m + 4
    BY <2>3, <2>4 DEF NextTag
  <2>6. m + 4 = n + 4 * (3 + B)
    BY <1>1, <2>1
  <2> QED BY <1>3, <2>5, <2>6
<1> QED BY <1>2, <1>3

\* What parse_multiboot2() and extract_multiboot2() can rely on.
LEMMA LayoutOfKernel ==
  ASSUME 0 \in Word, NEW k, WellFormed(k), HeaderInZone(k)
  PROVE  /\ BufferWord(k, heap, 4 * Len(k.before) + 8) = HeaderLength(k)
         /\ \E p : Layout(k, p)
<1> DEFINE N == Len(k.tags)
           b == Len(k.before)
           ss == [n \in DOMAIN k.tags |-> TagWords(k.tags[n])]
           g == Tags(k)
           w == Image(k)
<1>1. /\ N \in Nat /\ k.before \in Seq(Word) /\ k.after \in Seq(Word)
      /\ DOMAIN k.tags = 1 .. N /\ \A n \in 1 .. N : k.tags[n] \in KernelTag
  <2>1. k.tags \in Seq(KernelTag) /\ k.before \in Seq(Word) /\ k.after \in Seq(Word)
    BY DEF WellFormed
  <2> QED BY <2>1
<1>2. ASSUME NEW n \in 1 .. N
      PROVE  /\ ss[n] = TagWords(k.tags[n]) /\ ss[n] \in Seq(Word)
             /\ Len(k.tags[n].body) \in Nat
             /\ ss[n][1] = k.tags[n].type /\ ss[n][2] = k.tags[n].size
             /\ \A j \in 1 .. Len(k.tags[n].body) : ss[n][2 + j] = k.tags[n].body[j]
             /\ Len(ss[n]) = IF Len(k.tags[n].body) % 2 = 0
                             THEN 2 + Len(k.tags[n].body) ELSE 3 + Len(k.tags[n].body)
  <2>1. ss[n] = TagWords(k.tags[n])
    BY <1>1
  <2>2. k.tags[n] \in KernelTag
    BY <1>1
  <2> HIDE DEF ss
  <2> QED BY <2>1, <2>2, WordsOfTag
<1>3. ss \in Seq(Seq(Word)) /\ Len(ss) = N
  <2>1. ss \in [1 .. N -> Seq(Word)]
    BY <1>1, <1>2
  <2> HIDE DEF ss
  <2> QED BY <1>1, <2>1
<1>4. g \in Seq(Word) /\ \E off : Offsets(off, ss, N) /\ Holds(g, off, ss, N)
  <2>1. g = FlattenSeq(ss)
    BY Zenon DEF Tags
  <2> HIDE DEF ss, g, N
  <2> QED BY <1>3, <2>1, FlatLayout
<1>5. PICK off : Offsets(off, ss, N) /\ Holds(g, off, ss, N)
  BY <1>4
<1>6. /\ b \in Nat /\ Len(g) \in Nat /\ Len(w) \in Nat
      /\ b + 4 + Len(g) <= Len(w)
      /\ w[b + 3] = HeaderLength(k)
      /\ \A n \in 1 .. Len(g) : w[b + 4 + n] = g[n]
  <2> HIDE DEF b, g, w
  <2> QED BY <1>1, <1>4, WordsOfFile DEF b, g, w
<1> HIDE DEF ss, N
<1>7. /\ off \in [1 .. N + 1 -> Nat] /\ off[1] = 0 /\ Len(g) = off[N + 1]
      /\ \A m \in 1 .. N : off[m + 1] = off[m] + Len(ss[m])
      /\ \A m \in 1 .. N : \A j \in 1 .. Len(ss[m]) :
           off[m] + j \in 1 .. Len(g) /\ g[off[m] + j] = ss[m][j]
  BY <1>5 DEF Offsets, Holds
<1>8. ASSUME NEW n \in Nat, n < b + 4 + Len(g) PROVE BufferWord(k, heap, 4 * n) = w[n + 1]
  <2>1. (4 * n) \div 4 = n /\ 4 * n < 4 * Len(w)
    BY <1>6, <1>8
  <2>2. 4 * n < SEARCH_ZONE_LEN
    <3>1. HeaderLength(k) = 16 + 4 * Len(g)
      BY DEF HeaderLength
    <3>2. 4 * b + HeaderLength(k) <= SEARCH_ZONE_LEN /\ SEARCH_ZONE_LEN \in Nat
      BY KernelAssumption DEF HeaderInZone
    <3> HIDE DEF b, g
    <3> QED BY <1>6, <1>8, <3>1, <3>2
  <2>3. 4 * n < BufferSize(k)
    BY <2>1, <2>2 DEF BufferSize, Size
  <2> HIDE DEF w
  <2> QED BY <2>1, <2>3, Zenon DEF BufferWord, FileWord, w
<1>9. BufferWord(k, heap, 4 * b + 8) = HeaderLength(k)
  <2>1. 4 * b + 8 = 4 * (b + 2) /\ (b + 2) + 1 = b + 3 /\ b + 2 < b + 4 + Len(g)
    BY <1>6
  <2>2. b + 2 \in Nat
    BY <1>6
  <2> HIDE DEF b, g, w
  <2> QED BY <1>6, <1>8, <2>1, <2>2
<1>10. ASSUME NEW n \in 1 .. N, NEW j \in 1 .. Len(ss[n])
       PROVE  BufferWord(k, heap, 4 * b + (16 + 4 * off[n]) + 4 * (j - 1)) = ss[n][j]
  <2>1. off[n] \in Nat /\ off[n] + j \in 1 .. Len(g) /\ g[off[n] + j] = ss[n][j]
    <3>1. n \in 1 .. N + 1
      BY <1>1 DEF N
    <3>2. off[n] \in Nat
      BY <1>7, <3>1
    <3> QED BY <1>7, <3>2
  <2>0. j \in Nat
    BY <1>2
  <2> DEFINE q == b + 3 + (off[n] + j)
  <2>2. /\ q \in Nat /\ q < b + 4 + Len(g) /\ q + 1 = b + 4 + (off[n] + j)
        /\ 4 * b + (16 + 4 * off[n]) + 4 * (j - 1) = 4 * q
    <3> HIDE DEF b, g, w
    <3>0. PICK c \in Nat, l \in Nat : c = b /\ l = Len(g)
      BY <1>6
    <3>1. q \in Nat /\ q < b + 4 + Len(g)
      <4>1. off[n] + j \in 1 .. l
        BY <2>1, <3>0
      <4>2. c + 3 + (off[n] + j) \in Nat /\ c + 3 + (off[n] + j) < c + 4 + l
        BY <2>0, <2>1, <4>1
      <4> QED BY <3>0, <4>2
    <3>2. /\ q + 1 = b + 4 + (off[n] + j)
          /\ 4 * b + (16 + 4 * off[n]) + 4 * (j - 1) = 4 * q
      <4>1. /\ (c + 3 + (off[n] + j)) + 1 = c + 4 + (off[n] + j)
            /\ 4 * c + (16 + 4 * off[n]) + 4 * (j - 1) = 4 * (c + 3 + (off[n] + j))
        <5> DEFINE o == off[n]
        <5>1. o \in Nat /\ j \in Nat /\ c \in Nat
          BY <2>0, <2>1, <3>0
        <5> HIDE DEF o
        <5>2. /\ (c + 3 + (o + j)) + 1 = c + 4 + (o + j)
              /\ 4 * c + (16 + 4 * o) + 4 * (j - 1) = 4 * (c + 3 + (o + j))
          BY <5>1
        <5> QED BY <5>2 DEF o
      <4> QED BY <3>0, <4>1
    <3> QED BY <3>1, <3>2
  <2> HIDE DEF q, b, g, w
  <2>3. BufferWord(k, heap, 4 * q) = w[q + 1]
    BY <1>8, <2>2
  <2>4. w[q + 1] = g[off[n] + j]
    BY <1>6, <2>1, <2>2
  <2> QED BY <2>1, <2>2, <2>3, <2>4
<1> DEFINE S == {n \in 0 .. N : off[n + 1] % 2 = 0}
<1>11. \A n \in 0 .. N : n \in S
  <2>1. 0 \in S
    BY <1>1, <1>7 DEF N
  <2>2. ASSUME NEW n \in 0 .. N - 1, n \in S PROVE n + 1 \in S
    <3>1. n + 1 \in 1 .. N /\ n + 1 \in 0 .. N
      BY <1>1 DEF N
    <3>2. off[(n + 1) + 1] = off[n + 1] + Len(ss[n + 1]) /\ off[n + 1] \in Nat
      BY <1>1, <1>7, <3>1 DEF N
    <3>3. Len(ss[n + 1]) \in Nat /\ Len(ss[n + 1]) % 2 = 0
      <4>1. PICK B \in Nat : Len(ss[n + 1]) = IF B % 2 = 0 THEN 2 + B ELSE 3 + B
        BY <1>2, <3>1
      <4> QED BY <4>1
    <3>4. off[n + 1] % 2 = 0
      BY <2>2
    <3>5. (off[n + 1] + Len(ss[n + 1])) % 2 = 0
      <4>1. PICK x \in Nat : off[n + 1] = 2 * x
        BY <3>2, <3>4
      <4>2. PICK y \in Nat : Len(ss[n + 1]) = 2 * y
        <5> DEFINE L == Len(ss[n + 1])
        <5>1. L \in Nat /\ L % 2 = 0
          BY <3>3
        <5> HIDE DEF L
        <5>2. \E y \in Nat : L = 2 * y
          BY <5>1
        <5> QED BY <5>2 DEF L
      <4> QED BY <4>1, <4>2
    <3> QED BY <3>1, <3>2, <3>5
  <2> HIDE DEF S
  <2> QED BY <1>1, <2>1, <2>2, UpInduction DEF N
<1> DEFINE p == [n \in 1 .. N + 1 |-> 16 + 4 * off[n]]
<1>12. p \in [1 .. N + 1 -> Nat] /\ p[1] = 16 /\ p[N + 1] = HeaderLength(k)
  <2>1. HeaderLength(k) = 16 + 4 * off[N + 1]
    BY <1>7 DEF HeaderLength
  <2>2. 1 \in 1 .. N + 1 /\ N + 1 \in 1 .. N + 1
    BY <1>1 DEF N
  <2> QED BY <1>7, <2>1, <2>2
<1>13. ASSUME NEW n \in 1 .. N
       PROVE  /\ p[n] < HeaderLength(k) /\ p[n] % 8 = 0
              /\ NextTag(p[n], 8 + 4 * Len(k.tags[n].body)) = p[n + 1]
              /\ BufferWord(k, heap, 4 * b + p[n]) = k.tags[n].type
              /\ BufferWord(k, heap, 4 * b + p[n] + 4) = k.tags[n].size
              /\ \A j \in 1 .. Len(k.tags[n].body) :
                   BufferWord(k, heap, 4 * b + p[n] + 4 + 4 * j) = k.tags[n].body[j]
  <2> DEFINE B == Len(k.tags[n].body)
             L == Len(ss[n])
  <2>1. /\ n \in 1 .. N + 1 /\ n + 1 \in 1 .. N + 1 /\ B \in Nat
        /\ L = IF B % 2 = 0 THEN 2 + B ELSE 3 + B
    <3>1. n \in 1 .. N + 1 /\ n + 1 \in 1 .. N + 1
      BY <1>1 DEF N
    <3>2. B \in Nat /\ L = IF B % 2 = 0 THEN 2 + B ELSE 3 + B
      BY <1>2, Zenon
    <3> QED BY <3>1, <3>2
  <2>2. p[n] = 16 + 4 * off[n] /\ p[n + 1] = 16 + 4 * off[n + 1]
    BY <2>1
  <2>3. off[n] \in Nat /\ off[n + 1] = off[n] + L
    BY <1>7, <2>1
  <2> HIDE DEF p, B
  <2>4. /\ L \in Nat /\ 1 \in 1 .. L /\ 2 \in 1 .. L
        /\ \A j \in 1 .. B : 2 + j \in 1 .. L
    BY <2>1
  <2>5. p[n] < HeaderLength(k)
    <3>1. off[n] + 1 \in 1 .. Len(g)
      BY <1>7, <2>4
    <3>2. HeaderLength(k) = 16 + 4 * Len(g)
      BY DEF HeaderLength
    <3> HIDE DEF g
    <3> QED BY <1>6, <2>2, <2>3, <3>1, <3>2
  <2>6. p[n] % 8 = 0
    <3>1. n - 1 \in 0 .. N /\ (n - 1) + 1 = n
      BY <1>1 DEF N
    <3>2. off[n] % 2 = 0
      <4>1. n - 1 \in S
        BY <1>11, <3>1
      <4> QED BY <3>1, <4>1
    <3> QED BY <2>2, <2>3, <3>2
  <2>7. NextTag(p[n], 8 + 4 * B) = p[n + 1]
    <3>1. p[n] \in Nat
      BY <2>2, <2>3
    <3>2. NextTag(p[n], 8 + 4 * B) = p[n] + 4 * L
      BY <2>1, <2>6, <3>1, NextIsBehind
    <3>3. p[n] + 4 * L = p[n + 1]
      BY <2>2, <2>3, <2>4
    <3> QED BY <3>2, <3>3
  <2>8. BufferWord(k, heap, 4 * b + p[n]) = k.tags[n].type
    <3>1. 4 * b + (16 + 4 * off[n]) + 4 * (1 - 1) = 4 * b + p[n]
      BY <1>6, <2>2, <2>3
    <3>2. BufferWord(k, heap, 4 * b + (16 + 4 * off[n]) + 4 * (1 - 1)) = ss[n][1]
      BY <1>10, <2>4
    <3> HIDE DEF b
    <3> QED BY <1>2, <3>1, <3>2
  <2>9. BufferWord(k, heap, 4 * b + p[n] + 4) = k.tags[n].size
    <3>1. 4 * b + (16 + 4 * off[n]) + 4 * (2 - 1) = 4 * b + p[n] + 4
      BY <1>6, <2>2, <2>3
    <3>2. BufferWord(k, heap, 4 * b + (16 + 4 * off[n]) + 4 * (2 - 1)) = ss[n][2]
      BY <1>10, <2>4
    <3> HIDE DEF b
    <3> QED BY <1>2, <3>1, <3>2
  <2>10. ASSUME NEW j \in 1 .. B
         PROVE  BufferWord(k, heap, 4 * b + p[n] + 4 + 4 * j) = k.tags[n].body[j]
    <3>1. 4 * b + (16 + 4 * off[n]) + 4 * ((2 + j) - 1) = 4 * b + p[n] + 4 + 4 * j
      <4>1. j \in Nat /\ b \in Nat /\ off[n] \in Nat
        BY <1>6, <2>1, <2>3
      <4> HIDE DEF b
      <4> QED BY <2>2, <4>1
    <3>2. BufferWord(k, heap, 4 * b + (16 + 4 * off[n]) + 4 * ((2 + j) - 1)) = ss[n][2 + j]
      BY <1>10, <2>4
    <3>3. ss[n][2 + j] = k.tags[n].body[j]
      BY <1>2 DEF B
    <3> HIDE DEF b
    <3> QED BY <3>1, <3>2, <3>3
  <2> QED BY <2>5, <2>6, <2>7, <2>8, <2>9, <2>10 DEF B
<1>14. Layout(k, p)
  <2> HIDE DEF p
  <2> QED BY <1>12, <1>13 DEF Layout, N
<1> QED BY <1>9, <1>14

-----------------------------------------------------------------------------
(* The walk of the tags.                                                   *)

\* Every field has a value, if only an undefined one.
IsInfo(inf) ==
  inf = [header_off |-> inf.header_off, header_addr |-> inf.header_addr,
         load_addr |-> inf.load_addr, load_end_addr |-> inf.load_end_addr,
         bss_end_addr |-> inf.bss_end_addr, entry_addr |-> inf.entry_addr]

\* No tag of the type of n is between n and m.
LastBefore(k, n, m) == \A l \in n + 1 .. m - 1 : k.tags[l].type # k.tags[n].type

\* What info holds when the tags before m have been read.
Upto(k, m, inf) ==
  \A n \in 1 .. m - 1 : LastBefore(k, n, m) =>
    /\ k.tags[n].type = MULTIBOOT_TAG_TYPE_ADDRESS =>
         /\ inf.header_addr = k.tags[n].body[1] /\ inf.load_addr = k.tags[n].body[2]
         /\ inf.load_end_addr = k.tags[n].body[3] /\ inf.bss_end_addr = k.tags[n].body[4]
    /\ k.tags[n].type = MULTIBOOT_TAG_TYPE_ENTRY => inf.entry_addr = k.tags[n].body[1]

\* What a tag puts into info is what it has.
LEMMA ReadOfTag ==
  ASSUME NEW k, WellFormed(k), NEW p, Layout(k, p), NEW m \in 1 .. Len(k.tags),
         NEW inf, IsInfo(inf), inf.header_off = 4 * Len(k.before),
         NEW j, j = Read(k, heap, inf.header_off + p[m], inf)
  PROVE  /\ IsInfo(j) /\ j.header_off = inf.header_off
         /\ IF k.tags[m].type = MULTIBOOT_TAG_TYPE_ADDRESS
            THEN /\ j.header_addr = k.tags[m].body[1] /\ j.load_addr = k.tags[m].body[2]
                 /\ j.load_end_addr = k.tags[m].body[3]
                 /\ j.bss_end_addr = k.tags[m].body[4]
            ELSE /\ j.header_addr = inf.header_addr /\ j.load_addr = inf.load_addr
                 /\ j.load_end_addr = inf.load_end_addr
                 /\ j.bss_end_addr = inf.bss_end_addr
         /\ j.entry_addr = IF k.tags[m].type = MULTIBOOT_TAG_TYPE_ENTRY
                           THEN k.tags[m].body[1] ELSE inf.entry_addr
<1> DEFINE t == k.tags[m]
           h == inf.header_off + p[m]
<1>1. /\ Len(k.tags) \in Nat /\ Len(k.before) \in Nat /\ p[m] \in Nat
      /\ t.type = MULTIBOOT_TAG_TYPE_ENTRY => Len(t.body) = 1
      /\ t.type = MULTIBOOT_TAG_TYPE_ADDRESS => Len(t.body) = 4
  <2>1. k.tags \in Seq(KernelTag) /\ k.before \in Seq(Word)
    BY DEF WellFormed
  <2>2. DOMAIN k.tags = 1 .. Len(k.tags) /\ Len(k.tags) \in Nat
    BY <2>1
  <2>3. p[m] \in Nat
    <3>1. p \in [1 .. Len(k.tags) + 1 -> Nat]
      BY DEF Layout
    <3>2. m \in 1 .. Len(k.tags) + 1
      BY <2>2
    <3> QED BY <3>1, <3>2
  <2> QED BY <2>1, <2>2, <2>3 DEF WellFormed
<1>2. BufferWord(k, heap, h + 0) = t.type
  <2>1. h + 0 = 4 * Len(k.before) + p[m]
    BY <1>1
  <2> QED BY <2>1 DEF Layout
<1>3. ASSUME NEW i_ \in 1 .. Len(t.body), Len(t.body) \in Nat
      PROVE  BufferWord(k, heap, h + (4 + 4 * i_)) = t.body[i_]
  <2>1. h + (4 + 4 * i_) = 4 * Len(k.before) + p[m] + 4 + 4 * i_
    BY <1>1, <1>3
  <2> QED BY <2>1 DEF Layout
<1>4. CASE t.type = MULTIBOOT_TAG_TYPE_ADDRESS
  <2>1. /\ BufferWord(k, heap, h + 8) = t.body[1] /\ BufferWord(k, heap, h + 12) = t.body[2]
        /\ BufferWord(k, heap, h + 16) = t.body[3] /\ BufferWord(k, heap, h + 20) = t.body[4]
    <3>1. Len(t.body) = 4
      BY <1>1, <1>4
    <3>2. /\ BufferWord(k, heap, h + (4 + 4 * 1)) = t.body[1] /\ BufferWord(k, heap, h + (4 + 4 * 2)) = t.body[2]
          /\ BufferWord(k, heap, h + (4 + 4 * 3)) = t.body[3] /\ BufferWord(k, heap, h + (4 + 4 * 4)) = t.body[4]
      BY <1>3, <3>1
    <3>3. 4 + 4 * 1 = 8 /\ 4 + 4 * 2 = 12 /\ 4 + 4 * 3 = 16 /\ 4 + 4 * 4 = 20
      OBVIOUS
    <3> HIDE DEF t, h
    <3> QED BY <3>2, <3>3
  <2>2. j = [header_off |-> inf.header_off, header_addr |-> t.body[1],
             load_addr |-> t.body[2], load_end_addr |-> t.body[3],
             bss_end_addr |-> t.body[4], entry_addr |-> inf.entry_addr]
    <3>1. j = [header_off |-> inf.header_off, header_addr |-> BufferWord(k, heap, h + 8),
               load_addr |-> BufferWord(k, heap, h + 12), load_end_addr |-> BufferWord(k, heap, h + 16),
               bss_end_addr |-> BufferWord(k, heap, h + 20), entry_addr |-> inf.entry_addr]
      BY <1>2, <1>4 DEF Read, MULTIBOOT_TAG_TYPE_ADDRESS, MULTIBOOT_TAG_TYPE_ENTRY
    <3> HIDE DEF t, h
    <3> QED BY <2>1, <3>1
  <2> QED BY <1>4, <2>2 DEF IsInfo, MULTIBOOT_TAG_TYPE_ADDRESS, MULTIBOOT_TAG_TYPE_ENTRY
<1>5. CASE t.type = MULTIBOOT_TAG_TYPE_ENTRY
  <2>1. BufferWord(k, heap, h + 8) = t.body[1]
    <3>1. Len(t.body) = 1
      BY <1>1, <1>5
    <3>2. BufferWord(k, heap, h + (4 + 4 * 1)) = t.body[1]
      BY <1>3, <3>1
    <3>3. 4 + 4 * 1 = 8
      OBVIOUS
    <3> HIDE DEF t, h
    <3> QED BY <3>2, <3>3
  <2>2. j = [inf EXCEPT !.entry_addr = t.body[1]]
    <3>1. j = [inf EXCEPT !.entry_addr = BufferWord(k, heap, h + 8)]
      BY <1>2, <1>5 DEF Read, MULTIBOOT_TAG_TYPE_ADDRESS, MULTIBOOT_TAG_TYPE_ENTRY
    <3> HIDE DEF t, h
    <3> QED BY <2>1, <3>1
  <2>3. j = [header_off |-> inf.header_off, header_addr |-> inf.header_addr,
             load_addr |-> inf.load_addr, load_end_addr |-> inf.load_end_addr,
             bss_end_addr |-> inf.bss_end_addr, entry_addr |-> t.body[1]]
    BY <2>2 DEF IsInfo
  <2> QED BY <1>5, <2>3 DEF IsInfo, MULTIBOOT_TAG_TYPE_ADDRESS, MULTIBOOT_TAG_TYPE_ENTRY
<1>6. CASE t.type \notin {MULTIBOOT_TAG_TYPE_ADDRESS, MULTIBOOT_TAG_TYPE_ENTRY}
  <2>1. j = inf
    BY <1>2, <1>6 DEF Read, MULTIBOOT_TAG_TYPE_ADDRESS, MULTIBOOT_TAG_TYPE_ENTRY
  <2> QED BY <1>6, <2>1
<1> QED BY <1>4, <1>5, <1>6

\* One more tag has been read.
LEMMA UptoNext ==
  ASSUME NEW k, WellFormed(k), NEW p, Layout(k, p), NEW m \in 1 .. Len(k.tags),
         NEW inf, IsInfo(inf), inf.header_off = 4 * Len(k.before), Upto(k, m, inf),
         NEW j, j = Read(k, heap, inf.header_off + p[m], inf)
  PROVE  Upto(k, m + 1, j)
<1> SUFFICES ASSUME NEW n \in 1 .. (m + 1) - 1, LastBefore(k, n, m + 1)
             PROVE
    /\ k.tags[n].type = MULTIBOOT_TAG_TYPE_ADDRESS =>
         /\ j.header_addr = k.tags[n].body[1] /\ j.load_addr = k.tags[n].body[2]
         /\ j.load_end_addr = k.tags[n].body[3] /\ j.bss_end_addr = k.tags[n].body[4]
    /\ k.tags[n].type = MULTIBOOT_TAG_TYPE_ENTRY => j.entry_addr = k.tags[n].body[1]
  BY DEF Upto
<1>1. m \in Nat
  <2>1. k.tags \in Seq(KernelTag)
    BY DEF WellFormed
  <2> QED BY <2>1
<1>2. CASE n = m
  <2>1. /\ k.tags[m].type = MULTIBOOT_TAG_TYPE_ADDRESS =>
             /\ j.header_addr = k.tags[m].body[1] /\ j.load_addr = k.tags[m].body[2]
             /\ j.load_end_addr = k.tags[m].body[3] /\ j.bss_end_addr = k.tags[m].body[4]
        /\ k.tags[m].type = MULTIBOOT_TAG_TYPE_ENTRY => j.entry_addr = k.tags[m].body[1]
    BY ReadOfTag
  <2> QED BY <1>2, <2>1
<1>3. CASE n # m
  <2>1. /\ n \in 1 .. m - 1 /\ m \in n + 1 .. (m + 1) - 1
        /\ \A l \in n + 1 .. m - 1 : l \in n + 1 .. (m + 1) - 1
    BY <1>1, <1>3
  <2>2. LastBefore(k, n, m) /\ k.tags[m].type # k.tags[n].type
    BY <2>1 DEF LastBefore
  <2>3. /\ k.tags[n].type = MULTIBOOT_TAG_TYPE_ADDRESS =>
             /\ inf.header_addr = k.tags[n].body[1] /\ inf.load_addr = k.tags[n].body[2]
             /\ inf.load_end_addr = k.tags[n].body[3] /\ inf.bss_end_addr = k.tags[n].body[4]
        /\ k.tags[n].type = MULTIBOOT_TAG_TYPE_ENTRY => inf.entry_addr = k.tags[n].body[1]
    BY <2>1, <2>2 DEF Upto
  <2> QED BY <2>2, <2>3, ReadOfTag
<1> QED BY <1>2, <1>3

\* A set of positions that is not empty has a last one.
LEMMA GreatestOf ==
  ASSUME NEW N \in Nat, NEW S, S \subseteq 1 .. N, S # {}
  PROVE  \E m \in S : \A l \in S : l <= m
<1> DEFINE R == {N - l : l \in S}
<1>1. R \subseteq Nat /\ R # {}
  <2>1. ASSUME NEW l \in S PROVE N - l \in Nat
    <3>1. l \in 1 .. N
      OBVIOUS
    <3> QED BY <3>1
  <2> QED BY <2>1
<1>2. PICK r \in R : \A q \in R : r <= q
  <2> HIDE DEF R
  <2> QED BY <1>1, LeastOfNat
<1>3. PICK m \in S : r = N - m
  BY <1>2
<1>4. ASSUME NEW l \in S PROVE l <= m
  <2>1. N - m <= N - l
    BY <1>2, <1>3
  <2> QED BY <2>1
<1> QED BY <1>4

\* The last tag of a type.
IsLastTag(k, type, n) ==
  /\ n \in 1 .. Len(k.tags) /\ k.tags[n].type = type
  /\ LastBefore(k, n, Len(k.tags) + 1)

LEMMA LastTagIs ==
  ASSUME NEW type, WellFormed(kernel), HasTag(type)
  PROVE  \E n : IsLastTag(kernel, type, n) /\ LastTag(type) = kernel.tags[n].body
<1> DEFINE N == Len(kernel.tags)
           S == {n \in DOMAIN kernel.tags : kernel.tags[n].type = type}
           c == CHOOSE n \in S : \A m \in S : m <= n
<1>1. N \in Nat /\ DOMAIN kernel.tags = 1 .. N
  <2>1. kernel.tags \in Seq(KernelTag)
    BY DEF WellFormed
  <2> QED BY <2>1
<1>2. S # {} /\ S \subseteq 1 .. N
  BY <1>1 DEF HasTag
<1>3. \E n \in S : \A m \in S : m <= n
  <2> HIDE DEF S, N
  <2> QED BY <1>1, <1>2, GreatestOf
<1>4. c \in S /\ \A m \in S : m <= c
  <2> HIDE DEF S
  <2> QED BY <1>3
<1>5. LastTag(type) = kernel.tags[c].body
  BY Zenon DEF LastTag
<1> HIDE DEF c
<1>6. c \in 1 .. N /\ kernel.tags[c].type = type
  BY <1>1, <1>4
<1>7. LastBefore(kernel, c, N + 1)
  <2> SUFFICES ASSUME NEW l \in c + 1 .. (N + 1) - 1, kernel.tags[l].type = type
               PROVE  FALSE
    BY <1>6 DEF LastBefore
  <2>1. l \in 1 .. N /\ ~ (l <= c)
    BY <1>1, <1>6
  <2>2. l \in S
    BY <1>1, <2>1
  <2> QED BY <1>4, <2>1, <2>2
<1> QED BY <1>5, <1>6, <1>7 DEF IsLastTag

-----------------------------------------------------------------------------
(* The copy.                                                               *)

\* AsLinked of a word, for an address tag of which tag is the body.
WordLinked(k, tag, word, n) ==
  LET Linked == (4 * n - tag[1] + 4 * Len(k.before)) \div 4 + 1
  IN  IF 4 * n >= tag[2] /\ 4 * n < tag[3]
      THEN Linked \in DOMAIN Image(k) /\ word = Image(k)[Linked]
      ELSE word = IF 4 * n >= tag[3] /\ 4 * n < tag[4] THEN 0 ELSE Old

\* A copy that neither leaves the file nor the guest's memory takes every word
\* from where it was linked: the subtractions of load_multiboot2() cannot have
\* wrapped around.
LEMMA CopyIsLinked ==
  ASSUME kernel \in Kernels, info.header_off = 4 * Len(kernel.before),
         NEW tag, {tag[1], tag[2], tag[3], tag[4]} \subseteq Word, Sound(tag),
         info.header_addr = tag[1], info.load_addr = tag[2],
         info.load_end_addr = tag[3], info.bss_end_addr = tag[4],
         ~ShortFile, ~OverMonitor, ~OutOfMemory, NEW n \in GuestWords,
         NEW word,
         word = CASE 4 * n \in Cleared -> 0
                  [] 4 * n \in Copied /\ 4 * n \notin Cleared ->
                       FileWord(kernel, Start + 4 * n - info.load_addr)
                  [] OTHER -> Old
  PROVE  WordLinked(kernel, tag, word, n)
<1> DEFINE M == Modulus
           off == 4 * Len(kernel.before)
           len == Len(Image(kernel))
           ha == tag[1]
           la == tag[2]
           le == tag[3]
           be == tag[4]
           a == 4 * n
<1>1. /\ M \in Nat /\ M # 0 /\ ha \in 0 .. M - 1 /\ la \in 0 .. M - 1 /\ le \in 0 .. M - 1
      /\ be \in 0 .. M - 1
      /\ la < le => la <= ha /\ ha <= le
  BY KernelAssumption DEF Word, Sound
<1>2. n \in Nat /\ a \in Nat /\ a + 4 < M /\ \A q \in GuestWords : q \in Nat /\ 4 * q + 4 < M
  BY KernelAssumption
<1>3. /\ off \in Nat /\ len \in Nat /\ off < 4 * len /\ 4 * len < M
      /\ DOMAIN Image(kernel) = 1 .. len
  <2>1. WellFormed(kernel) /\ Size(kernel) < M
    BY KernelAssumption
  <2>2. Tags(kernel) \in Seq(Word)
    <3>1. 0 \in Word
      BY KernelAssumption DEF Word
    <3> QED BY <2>1, <3>1, TagsAreWords
  <2>3. /\ Len(kernel.before) \in Nat /\ Len(Tags(kernel)) \in Nat /\ len \in Nat
        /\ DOMAIN Image(kernel) = 1 .. len
        /\ Len(kernel.before) + 4 + Len(Tags(kernel)) <= len
    BY <2>1, <2>2, WordsOfFile DEF WellFormed
  <2> HIDE DEF len
  <2>4. Size(kernel) = 4 * len
    BY DEF Size, len
  <2> QED BY <2>1, <2>3, <2>4
<1>4. /\ Length = (le - la) % M /\ Bss = (be - le) % M /\ Start = (off - (ha - la)) % M
      /\ Size(kernel) = 4 * len
  BY DEF Length, Bss, Start, Size
<1>5. /\ Copied = {x \in 0 .. M : x >= la /\ x < la + Length}
      /\ Cleared = {x \in 0 .. M : x >= le /\ x < le + Bss}
  BY DEF Copied, Cleared
<1> HIDE DEF M, off, len, ha, la, le, be
<1>6. M - 1 \notin Copied /\ M - 1 \notin Cleared
  <2> SUFFICES ASSUME M - 1 \in Copied \cup Cleared PROVE FALSE
    OBVIOUS
  <2> DEFINE q == (M - 1) \div 4
  <2>1. q \in GuestWords
    BY DEF OutOfMemory, OverMonitor, Touched
  <2>2. q \in Nat /\ 4 * q + 4 < M
    <3> HIDE DEF q
    <3> QED BY <1>2, <2>1
  <2>3. M - 1 < 4 * q + 4
    <3>1. M - 1 \in Nat
      BY <1>1
    <3> QED BY <3>1, Quarter
  <2> HIDE DEF q
  <2> QED BY <1>1, <2>2, <2>3
<1>7. la <= le
  <2> SUFFICES ASSUME le < la PROVE FALSE
    BY <1>1
  <2>1. le - la \in Int /\ (le - la) + M \in 0 .. M - 1
    BY <1>1
  <2>2. (le - la) % M = (le - la) + M
    BY <1>1, <2>1, WrapsOnce
  <2>3. la + Length = le + M
    BY <1>1, <1>4, <2>2
  <2>4. M - 1 \in 0 .. M /\ M - 1 >= la /\ M - 1 < le + M
    BY <1>1
  <2>5. M - 1 \in Copied
    BY <1>5, <2>3, <2>4
  <2> QED BY <1>6, <2>5
<1>8. Length = le - la
  <2>1. le - la \in 0 .. M - 1
    BY <1>1, <1>7
  <2>2. (le - la) % M = le - la
    BY <1>1, <2>1, WrapsNot
  <2> QED BY <1>4, <2>2
<1>9. la < le /\ la <= ha /\ ha <= le
  <2>1. Length # 0
    BY DEF ShortFile
  <2>2. la < le
    BY <1>1, <1>7, <1>8, <2>1
  <2> QED BY <1>1, <2>2
<1>10. Start + Length <= 4 * len
  <2>1. Start \in Int /\ Length \in Int /\ Size(kernel) \in Int
    <3>1. off - (ha - la) \in Int
      BY <1>1, <1>3
    <3>2. \A x \in Int : x % M \in Int
      BY <1>1
    <3>3. Start \in Int
      BY <1>4, <3>1, <3>2
    <3>4. le - la \in Int /\ 4 * len \in Int
      BY <1>1, <1>3
    <3>5. Length \in Int
      BY <1>8, <3>4
    <3>6. Size(kernel) \in Int
      BY <1>4, <3>4
    <3> QED BY <3>3, <3>5, <3>6
  <2>2. ~ (Start + Length > Size(kernel))
    BY DEF ShortFile
  <2> QED BY <1>4, <2>1, <2>2
<1>11. Start = off - (ha - la) /\ Start \in Nat
  <2>1. CASE ha - la <= off
    <3>1. off - (ha - la) \in 0 .. M - 1
      BY <1>1, <1>3, <1>9, <2>1
    <3>2. (off - (ha - la)) % M = off - (ha - la)
      BY <1>1, <3>1, WrapsNot
    <3> QED BY <1>4, <3>1, <3>2
  <2>2. CASE off < ha - la
    <3> DEFINE d == off - (ha - la)
    <3>1. d \in Int /\ d + M \in 0 .. M - 1 /\ d < 0
      BY <1>1, <1>3, <2>2
    <3>2. d % M = d + M
      <4> HIDE DEF d
      <4> QED BY <1>1, <3>1, WrapsOnce
    <3>3. off + M + (le - ha) <= 4 * len
      BY <1>1, <1>3, <1>4, <1>8, <1>10, <3>2
    <3> QED BY <1>1, <1>3, <1>9, <3>3
  <2> QED BY <1>1, <1>3, <2>1, <2>2
<1>12. le <= be => Bss = be - le
  <2> SUFFICES ASSUME le <= be PROVE Bss = be - le
    OBVIOUS
  <2>1. be - le \in 0 .. M - 1
    BY <1>1
  <2>2. (be - le) % M = be - le
    BY <1>1, <2>1, WrapsNot
  <2> QED BY <1>4, <2>2
<1>13. le <= be
  <2> SUFFICES ASSUME be < le PROVE FALSE
    BY <1>1
  <2>1. be - le \in Int /\ (be - le) + M \in 0 .. M - 1
    BY <1>1
  <2>2. (be - le) % M = (be - le) + M
    BY <1>1, <2>1, WrapsOnce
  <2>3. le + Bss = be + M
    BY <1>1, <1>4, <2>2
  <2>4. M - 1 \in 0 .. M /\ M - 1 >= le /\ M - 1 < be + M
    BY <1>1
  <2>5. M - 1 \in Cleared
    BY <1>5, <2>3, <2>4
  <2> QED BY <1>6, <2>5
<1>14. /\ a \in Copied <=> a >= la /\ a < le
       /\ a \in Cleared <=> a >= le /\ a < be
  <2>1. a \in 0 .. M /\ la + Length = le /\ le + Bss = be
    BY <1>1, <1>2, <1>8, <1>12, <1>13
  <2> HIDE DEF a
  <2> QED BY <1>5, <2>1
<1> DEFINE l == a - ha + off
<1>15. CASE a >= la /\ a < le
  <2>1. a \in Copied /\ a \notin Cleared
    BY <1>1, <1>2, <1>14, <1>15
  <2>2. Start + a - la = l /\ l \in Nat /\ l < 4 * len
    <3>1. a \in Nat /\ la \in Nat /\ ha \in Nat /\ le \in Nat
      BY <1>1, <1>2
    <3> HIDE DEF a
    <3>2. off - (ha - la) + (le - la) <= 4 * len
      BY <1>8, <1>10, <1>11
    <3>3. off - (ha - la) + a - la = a - ha + off
      BY <1>3, <3>1
    <3>4. a - ha + off \in Nat /\ a - ha + off < 4 * len
      <4>1. a - ha + off >= 0
        BY <1>3, <1>11, <1>15, <3>1
      <4>2. a - ha + off < 4 * len
        BY <1>3, <1>15, <3>1, <3>2
      <4> QED BY <1>3, <3>1, <4>1, <4>2
    <3> QED BY <1>11, <3>3, <3>4
  <2>3. word = FileWord(kernel, l)
    <3>1. word = FileWord(kernel, Start + a - la)
      BY <2>1 DEF la
    <3> HIDE DEF l
    <3> QED BY <2>2, <3>1
  <2> HIDE DEF l, a
  <2>4. l \div 4 < len /\ l \div 4 + 1 \in 1 .. len
    BY <1>3, <2>2
  <2>5. word = Image(kernel)[l \div 4 + 1]
    BY <2>3, <2>4 DEF FileWord, len
  <2> QED BY <1>3, <1>15, <2>4, <2>5 DEF WordLinked, l, a, ha, la, le, off
<1>16. CASE ~ (a >= la /\ a < le)
  <2>1. word = IF a >= le /\ a < be THEN 0 ELSE Old
    <3>1. a \notin Copied
      BY <1>14, <1>16
    <3> HIDE DEF a
    <3> QED BY <1>14, <3>1 DEF a
  <2> QED BY <1>16, <2>1 DEF WordLinked, a, la, le, be
<1> QED BY <1>15, <1>16

-----------------------------------------------------------------------------
(* The invariant.                                                          *)

\* The tags have been read up to the one that is next, or the one that is next
\* has no size and is read for ever.
Walking(k, p, m, inf, n) ==
  /\ m \in 1 .. Len(k.tags) + 1 /\ n = p[m]
  /\ \/ m <= Len(k.tags) /\ k.tags[m].size = 0
     \/ Upto(k, m, inf)

Parsed ==
  /\ IsInfo(info) /\ info.header_off = 4 * Len(kernel.before)

\* Until the copy nothing of the guest's memory has changed, the walk is at a
\* tag, and when it has ended all the tags have been read; after the copy the
\* image is as it was linked, and nothing changes it.
ZoneInv ==
  /\ phase \in {"allocate", "map", "parse", "extract", "load"} =>
       image = [n \in GuestWords |-> Old]
  /\ phase \in {"allocate", "map", "parse"} => IsInfo(info)
  /\ phase = "extract" =>
       Parsed /\ \E p, m : Layout(kernel, p) /\ Walking(kernel, p, m, info, i)
  /\ phase = "load" => Parsed /\ Upto(kernel, Len(kernel.tags) + 1, info)
  /\ phase \in {"seal", "guest", "open", "emulate"} =>
       /\ HasTag(MULTIBOOT_TAG_TYPE_ADDRESS) => AsLinked
       /\ HasTag(MULTIBOOT_TAG_TYPE_ENTRY) =>
            info.entry_addr = LastTag(MULTIBOOT_TAG_TYPE_ENTRY)[1]

\* What matters of a header that leaves the search zone is that it is there: of
\* the tags that are read in its place nothing is known.
LoadInv ==
  /\ kernel \in Kernels /\ heap \in Heaps
  /\ HeaderInZone(kernel) => ZoneInv

\* It holds of a file that has not been opened.
LEMMA InitLoadInv == Init => LoadInv
<1> SUFFICES ASSUME Init PROVE LoadInv
  OBVIOUS
<1>1. IsInfo(info)
  <2>1. PICK u \in Undefined :
          info = [f \in {"header_off", "header_addr", "load_addr", "load_end_addr",
                         "bss_end_addr", "entry_addr"} |-> u]
    BY DEF Init, LoaderInit
  <2>2. info = [header_off |-> u, header_addr |-> u, load_addr |-> u,
                load_end_addr |-> u, bss_end_addr |-> u, entry_addr |-> u]
    BY <2>1
  <2> QED BY <2>2 DEF IsInfo
<1> QED BY <1>1 DEF Init, LoaderInit, LoadInv, ZoneInv

\* The search finds the header: there is no other candidate.
LEMMA FoundIs ==
  ASSUME heap \in Heaps, NEW k \in Kernels, Candidates(k, heap) # {}
  PROVE  Found(k, heap) = 4 * Len(k.before)
<1> DEFINE S == Candidates(k, heap)
           b == 4 * Len(k.before)
<1>1. b \in Nat
  <2>1. k.before \in Seq(Word)
    BY KernelAssumption DEF WellFormed
  <2> QED BY <2>1
<1>2. S = {b}
  BY KernelAssumption
<1>3. Found(k, heap) = CHOOSE n \in S : \A o \in S : n <= o
  BY Zenon DEF Found
<1> HIDE DEF S, b
<1>4. b \in S /\ \A o \in S : b <= o
  BY <1>1, <1>2
<1> DEFINE c == CHOOSE n \in S : \A o \in S : n <= o
<1>5. c \in S
  BY <1>4
<1> HIDE DEF c
<1>6. c = b
  BY <1>2, <1>5
<1> QED BY <1>3, <1>6 DEF c, b

\* parse_multiboot2() leaves the walk before the first tag.
LEMMA FindStep ==
  ASSUME kernel \in Kernels, heap \in Heaps, HeaderInZone(kernel), IsInfo(info), FindHeader,
         NEW inf, inf = info', NEW n, n = i'
  PROVE  /\ IsInfo(inf) /\ inf.header_off = 4 * Len(kernel.before)
         /\ \E p, m : Layout(kernel, p) /\ Walking(kernel, p, m, inf, n)
<1>1. inf = [info EXCEPT !.header_off = 4 * Len(kernel.before)] /\ n = 16
  BY FoundIs DEF FindHeader, NoHeader
<1>2. inf = [header_off |-> 4 * Len(kernel.before), header_addr |-> info.header_addr,
             load_addr |-> info.load_addr, load_end_addr |-> info.load_end_addr,
             bss_end_addr |-> info.bss_end_addr, entry_addr |-> info.entry_addr]
  BY <1>1 DEF IsInfo
<1>3. IsInfo(inf) /\ inf.header_off = 4 * Len(kernel.before)
  BY <1>2 DEF IsInfo
<1>4. WellFormed(kernel) /\ 0 \in Word
  BY KernelAssumption DEF Word
<1>5. PICK p : Layout(kernel, p)
  BY <1>4, LayoutOfKernel
<1>6. Len(kernel.tags) \in Nat
  <2>1. kernel.tags \in Seq(KernelTag)
    BY <1>4 DEF WellFormed
  <2> QED BY <2>1
<1>7. Upto(kernel, 1, inf)
  BY DEF Upto
<1>8. Walking(kernel, p, 1, inf, n)
  BY <1>1, <1>5, <1>6, <1>7 DEF Walking, Layout
<1> QED BY <1>3, <1>5, <1>8

\* A turn of the loop of extract_multiboot2() reads a tag and goes to the next,
\* or stays for ever at one without a size.
LEMMA ExtractStep ==
  ASSUME kernel \in Kernels, HeaderInZone(kernel), Parsed, ExtractTag,
         NEW p, NEW m, Layout(kernel, p), Walking(kernel, p, m, info, i),
         NEW inf, inf = info', NEW n, n = i'
  PROVE  /\ IsInfo(inf) /\ inf.header_off = 4 * Len(kernel.before)
         /\ \E q : Walking(kernel, p, q, inf, n)
<1> DEFINE N == Len(kernel.tags)
           b == 4 * Len(kernel.before)
<1>1. /\ WellFormed(kernel) /\ 0 \in Word /\ N \in Nat /\ m \in 1 .. N + 1
      /\ p \in [1 .. N + 1 -> Nat] /\ IsInfo(info) /\ info.header_off = b
  <2>1. WellFormed(kernel) /\ 0 \in Word
    BY KernelAssumption DEF Word
  <2>2. kernel.tags \in Seq(KernelTag)
    BY <2>1 DEF WellFormed
  <2> QED BY <2>1, <2>2 DEF Walking, Layout, Parsed
<1>2. BufferWord(kernel, heap, b + 8) = HeaderLength(kernel)
  BY <1>1, LayoutOfKernel
<1>3. p[m] < HeaderLength(kernel) /\ i = p[m]
  BY <1>1, <1>2 DEF Walking, ExtractTag, MoreTags
<1>4. m \in 1 .. N
  <2>1. ~ (p[N + 1] < p[N + 1])
    BY <1>1
  <2>2. m # N + 1
    BY <1>3, <2>1 DEF Layout
  <2> HIDE DEF N
  <2> QED BY <1>1, <2>2
<1>5. /\ inf = Read(kernel, heap, info.header_off + p[m], info)
      /\ n = NextTag(p[m], BufferWord(kernel, heap, b + p[m] + 4))
  BY <1>1, <1>3 DEF ExtractTag
<1>6. IsInfo(inf) /\ inf.header_off = b
  <2>1. Layout(kernel, p) /\ inf = Read(kernel, heap, info.header_off + p[m], info)
    BY <1>5
  <2>2. IsInfo(inf) /\ inf.header_off = info.header_off
    <3>1. WellFormed(kernel) /\ m \in 1 .. Len(kernel.tags) /\ IsInfo(info)
      BY <1>1, <1>4
    <3>2. info.header_off = 4 * Len(kernel.before)
      BY <1>1
    <3> HIDE DEF N, b
    <3> QED BY <2>1, <3>1, <3>2, ReadOfTag
  <2> QED BY <1>1, <2>2
<1>7. BufferWord(kernel, heap, b + p[m] + 4) = kernel.tags[m].size /\ p[m] % 8 = 0
  BY <1>4 DEF Layout
<1>8. CASE kernel.tags[m].size = 0
  <2>1. n = p[m]
    <3>1. p[m] \in Nat
      BY <1>1
    <3>2. NextTag(p[m], 0) = p[m]
      BY <1>7, <3>1 DEF NextTag
    <3> QED BY <1>5, <1>7, <1>8, <3>2
  <2>2. m <= N
    BY <1>1, <1>4
  <2>3. Walking(kernel, p, m, inf, n)
    BY <1>1, <1>8, <2>1, <2>2 DEF Walking
  <2> QED BY <1>6, <2>3
<1>9. CASE kernel.tags[m].size # 0
  <2>1. kernel.tags[m].size = 8 + 4 * Len(kernel.tags[m].body)
    <3>1. m \in DOMAIN kernel.tags
      <4>1. kernel.tags \in Seq(KernelTag)
        BY <1>1 DEF WellFormed
      <4> QED BY <1>4, <4>1
    <3> QED BY <1>1, <1>9, <3>1 DEF WellFormed
  <2>2. n = p[m + 1]
    BY <1>4, <1>5, <1>7, <2>1 DEF Layout
  <2>3. Upto(kernel, m, info)
    BY <1>9 DEF Walking
  <2>4. Upto(kernel, m + 1, inf)
    BY <1>1, <1>4, <1>5, <2>3, UptoNext
  <2>5. m + 1 \in 1 .. N + 1
    BY <1>1, <1>4
  <2>6. Walking(kernel, p, m + 1, inf, n)
    BY <2>2, <2>4, <2>5 DEF Walking
  <2> QED BY <1>6, <2>6
<1> QED BY <1>8, <1>9

\* The walk ends behind the last tag.
LEMMA ExtractEnds ==
  ASSUME kernel \in Kernels, HeaderInZone(kernel), Parsed, ~MoreTags,
         NEW p, NEW m, Layout(kernel, p), Walking(kernel, p, m, info, i)
  PROVE  Upto(kernel, Len(kernel.tags) + 1, info)
<1> DEFINE N == Len(kernel.tags)
           b == 4 * Len(kernel.before)
<1>1. /\ WellFormed(kernel) /\ 0 \in Word /\ N \in Nat /\ m \in 1 .. N + 1
  <2>1. WellFormed(kernel) /\ 0 \in Word
    BY KernelAssumption DEF Word
  <2>2. kernel.tags \in Seq(KernelTag)
    BY <2>1 DEF WellFormed
  <2> QED BY <2>1, <2>2 DEF Walking
<1>2. BufferWord(kernel, heap, b + 8) = HeaderLength(kernel)
  BY <1>1, LayoutOfKernel
<1>3. ~ (p[m] < HeaderLength(kernel))
  BY <1>2 DEF Walking, MoreTags, Parsed
<1>4. m \notin 1 .. N
  BY <1>3 DEF Layout
<1>5. m = N + 1 /\ ~ (m <= N)
  <2> HIDE DEF N
  <2> QED BY <1>1, <1>4
<1> QED BY <1>5 DEF Walking

\* AsLinked of any memory.
MemoryLinked(k, tag, mem) == \A n \in GuestWords : WordLinked(k, tag, mem[n], n)

LEMMA AsLinkedIs ==
  AsLinked <=> MemoryLinked(kernel, LastTag(MULTIBOOT_TAG_TYPE_ADDRESS), image)
  BY Zenon DEF AsLinked, MemoryLinked, WordLinked

\* load_multiboot2() leaves the image as it was linked.
LEMMA LoadStep ==
  ASSUME kernel \in Kernels, Parsed, Upto(kernel, Len(kernel.tags) + 1, info),
         image = [n \in GuestWords |-> Old], LoadImage, NEW f, f = image',
         HasTag(MULTIBOOT_TAG_TYPE_ADDRESS)
  PROVE  MemoryLinked(kernel, LastTag(MULTIBOOT_TAG_TYPE_ADDRESS), f)
<1> DEFINE N == Len(kernel.tags)
<1>1. /\ WellFormed(kernel) /\ N \in Nat /\ kernel.tags \in Seq(KernelTag)
      /\ DOMAIN kernel.tags = 1 .. N
  <2>1. WellFormed(kernel)
    BY KernelAssumption
  <2>2. kernel.tags \in Seq(KernelTag)
    BY <2>1 DEF WellFormed
  <2> QED BY <2>1, <2>2
<1>2. PICK m : /\ IsLastTag(kernel, MULTIBOOT_TAG_TYPE_ADDRESS, m)
               /\ LastTag(MULTIBOOT_TAG_TYPE_ADDRESS) = kernel.tags[m].body
  BY <1>1, LastTagIs
<1> DEFINE tag == kernel.tags[m].body
<1>3. /\ m \in 1 .. N /\ kernel.tags[m].type = MULTIBOOT_TAG_TYPE_ADDRESS
      /\ LastBefore(kernel, m, N + 1)
  BY <1>2 DEF IsLastTag
<1>4. Len(tag) = 4 /\ Sound(tag)
  <2>1. ASSUME NEW l \in DOMAIN kernel.tags, l > m,
               kernel.tags[l].type = MULTIBOOT_TAG_TYPE_ADDRESS
        PROVE  FALSE
    <3>1. l \in m + 1 .. (N + 1) - 1
      BY <1>1, <1>3, <2>1
    <3> QED BY <1>3, <2>1, <3>1 DEF LastBefore
  <2> QED BY <1>1, <1>3, <2>1 DEF WellFormed
<1>5. {tag[1], tag[2], tag[3], tag[4]} \subseteq Word
  <2>1. tag \in Seq(Word)
    <3>1. kernel.tags[m] \in KernelTag
      BY <1>1, <1>3
    <3> QED BY <3>1 DEF KernelTag
  <2> QED BY <1>4, <2>1
<1>6. /\ info.header_addr = tag[1] /\ info.load_addr = tag[2]
      /\ info.load_end_addr = tag[3] /\ info.bss_end_addr = tag[4]
  <2>1. m \in 1 .. (N + 1) - 1
    BY <1>1, <1>3
  <2> QED BY <1>3, <2>1 DEF Upto
<1> HIDE DEF tag
<1>7. /\ ~ShortFile /\ ~OverMonitor /\ ~OutOfMemory
      /\ f = [n \in GuestWords |->
                CASE 4 * n \in Cleared -> 0
                  [] 4 * n \in Copied /\ 4 * n \notin Cleared ->
                       FileWord(kernel, Start + 4 * n - info.load_addr)
                  [] OTHER -> image[n]]
  BY Zenon DEF LoadImage
<1>8. ASSUME NEW n \in GuestWords PROVE WordLinked(kernel, tag, f[n], n)
  <2>1. f[n] = CASE 4 * n \in Cleared -> 0
                 [] 4 * n \in Copied /\ 4 * n \notin Cleared ->
                      FileWord(kernel, Start + 4 * n - info.load_addr)
                 [] OTHER -> image[n]
    BY <1>7, Zenon
  <2>2. image[n] = Old
    OBVIOUS
  <2>3. f[n] = CASE 4 * n \in Cleared -> 0
                 [] 4 * n \in Copied /\ 4 * n \notin Cleared ->
                      FileWord(kernel, Start + 4 * n - info.load_addr)
                 [] OTHER -> Old
    BY <2>1, <2>2, Zenon
  <2>4. info.header_off = 4 * Len(kernel.before)
    BY DEF Parsed
  <2> QED BY <1>4, <1>5, <1>6, <1>7, <2>3, <2>4, CopyIsLinked
<1> QED BY <1>2, <1>8 DEF MemoryLinked, tag

\* The entry is that of the last tag that has one.
LEMMA EntryIs ==
  ASSUME kernel \in Kernels, Upto(kernel, Len(kernel.tags) + 1, info),
         HasTag(MULTIBOOT_TAG_TYPE_ENTRY)
  PROVE  info.entry_addr = LastTag(MULTIBOOT_TAG_TYPE_ENTRY)[1]
<1> DEFINE N == Len(kernel.tags)
<1>1. WellFormed(kernel) /\ N \in Nat
  <2>1. WellFormed(kernel)
    BY KernelAssumption
  <2>2. kernel.tags \in Seq(KernelTag)
    BY <2>1 DEF WellFormed
  <2> QED BY <2>1, <2>2
<1>2. PICK m : /\ IsLastTag(kernel, MULTIBOOT_TAG_TYPE_ENTRY, m)
               /\ LastTag(MULTIBOOT_TAG_TYPE_ENTRY) = kernel.tags[m].body
  BY <1>1, LastTagIs
<1>3. /\ m \in 1 .. (N + 1) - 1 /\ kernel.tags[m].type = MULTIBOOT_TAG_TYPE_ENTRY
      /\ LastBefore(kernel, m, N + 1)
  BY <1>1, <1>2 DEF IsLastTag
<1> QED BY <1>2, <1>3 DEF Upto

\* Every step keeps it: of those that follow the copy none touches the image or
\* info.
LEMMA NextZoneInv ==
  ASSUME kernel \in Kernels, heap \in Heaps, HeaderInZone(kernel), ZoneInv, [Next]_vars
  PROVE  ZoneInv'
<1> DEFINE Linked == /\ HasTag(MULTIBOOT_TAG_TYPE_ADDRESS) => AsLinked
                     /\ HasTag(MULTIBOOT_TAG_TYPE_ENTRY) =>
                          info.entry_addr = LastTag(MULTIBOOT_TAG_TYPE_ENTRY)[1]
<1>1. CASE Parse
  <2>1. /\ phase = "parse" /\ phase' = "extract" /\ FindHeader
        /\ UNCHANGED <<kernel, heap, image>>
    BY <1>1 DEF Parse, Go, FindHeader
  <2>2. PICK inf, n : inf = info' /\ n = i'
    OBVIOUS
  <2>3. /\ IsInfo(inf) /\ inf.header_off = 4 * Len(kernel.before)
        /\ \E p, m : Layout(kernel, p) /\ Walking(kernel, p, m, inf, n)
    BY <2>1, <2>2, FindStep DEF ZoneInv
  <2>4. PICK p, m : Layout(kernel, p) /\ Walking(kernel, p, m, inf, n)
    BY <2>3
  <2>5. Parsed'
    BY <2>1, <2>2, <2>3 DEF Parsed, IsInfo
  <2>6. (\E q, l : Layout(kernel, q) /\ Walking(kernel, q, l, info, i))'
    <3>1. (Layout(kernel, p))'
      BY <2>1, <2>4, Zenon DEF Layout
    <3>2. (Walking(kernel, p, m, info, i))'
      BY <2>1, <2>2, <2>4, Zenon DEF Walking, Upto
    <3> QED BY <3>1, <3>2
  <2> QED BY <2>1, <2>5, <2>6 DEF ZoneInv
<1>2. CASE Extract
  <2>1. /\ phase = "extract" /\ phase' = "extract" /\ ExtractTag
        /\ UNCHANGED <<kernel, heap, image>>
    BY <1>2 DEF Extract, Go, ExtractTag
  <2>2. PICK inf, n : inf = info' /\ n = i'
    OBVIOUS
  <2>3. PICK p, m : Layout(kernel, p) /\ Walking(kernel, p, m, info, i)
    BY <2>1 DEF ZoneInv
  <2>4. /\ IsInfo(inf) /\ inf.header_off = 4 * Len(kernel.before)
        /\ \E q : Walking(kernel, p, q, inf, n)
    BY <2>1, <2>2, <2>3, ExtractStep DEF ZoneInv
  <2>5. PICK q : Walking(kernel, p, q, inf, n)
    BY <2>4
  <2>6. Parsed'
    BY <2>1, <2>2, <2>4 DEF Parsed, IsInfo
  <2>7. (\E r, l : Layout(kernel, r) /\ Walking(kernel, r, l, info, i))'
    <3>1. (Layout(kernel, p))'
      BY <2>1, <2>3, Zenon DEF Layout
    <3>2. (Walking(kernel, p, q, info, i))'
      BY <2>1, <2>2, <2>5, Zenon DEF Walking, Upto
    <3> QED BY <3>1, <3>2
  <2> QED BY <2>1, <2>6, <2>7 DEF ZoneInv
<1>3. CASE Extracted
  <2>1. /\ phase = "extract" /\ phase' = "load" /\ ~MoreTags
        /\ UNCHANGED <<kernel, heap, image, info, i>>
    BY <1>3 DEF Extracted, Go, loadvars
  <2>2. PICK p, m : Layout(kernel, p) /\ Walking(kernel, p, m, info, i)
    BY <2>1 DEF ZoneInv
  <2>3. Parsed /\ Upto(kernel, Len(kernel.tags) + 1, info)
    BY <2>1, <2>2, ExtractEnds DEF ZoneInv
  <2>4. (Parsed /\ Upto(kernel, Len(kernel.tags) + 1, info))'
    BY <2>1, <2>3 DEF Parsed, IsInfo, Upto
  <2> QED BY <2>1, <2>4 DEF ZoneInv
<1>4. CASE Load
  <2>1. /\ phase = "load" /\ phase' = "seal" /\ LoadImage
        /\ UNCHANGED <<kernel, heap, info>>
    BY <1>4 DEF Load, Go, LoadImage
  <2>2. PICK f : f = image'
    OBVIOUS
  <2>3. HasTag(MULTIBOOT_TAG_TYPE_ADDRESS) =>
          MemoryLinked(kernel, LastTag(MULTIBOOT_TAG_TYPE_ADDRESS), f)
    BY <2>1, <2>2, LoadStep DEF ZoneInv
  <2>4. HasTag(MULTIBOOT_TAG_TYPE_ENTRY) =>
          info.entry_addr = LastTag(MULTIBOOT_TAG_TYPE_ENTRY)[1]
    BY <2>1, EntryIs DEF ZoneInv
  <2>5. Linked'
    BY <2>1, <2>2, <2>3, <2>4, Zenon
       DEF MemoryLinked, WordLinked, AsLinked, HasTag, LastTag
  <2> QED BY <2>1, <2>5 DEF ZoneInv
<1>5. ASSUME UNCHANGED loadvars,
             \/ phase' = phase
             \/ /\ phase \in {"allocate", "map"}
                /\ phase' \in {"map", "parse"}
             \/ /\ phase \in {"seal", "guest", "open", "emulate"}
                /\ phase' \in {"seal", "guest", "open", "emulate"}
             \/ phase' \in {"exit", "abort"} \cup Lost
      PROVE  ZoneInv'
  <2>1. kernel' = kernel /\ heap' = heap /\ i' = i /\ info' = info /\ image' = image
    BY <1>5 DEF loadvars
  <2>2. Linked => Linked'
    BY <2>1, Zenon DEF AsLinked, HasTag, LastTag
  <2>3. ASSUME NEW p, NEW m, Layout(kernel, p) /\ Walking(kernel, p, m, info, i)
        PROVE  (\E q, l : Layout(kernel, q) /\ Walking(kernel, q, l, info, i))'
    <3>1. (Layout(kernel, p))'
      BY <2>1, <2>3, Zenon DEF Layout
    <3>2. (Walking(kernel, p, m, info, i))'
      BY <2>1, <2>3, Zenon DEF Walking, Upto
    <3> QED BY <3>1, <3>2
  <2>4. /\ IsInfo(info) => (IsInfo(info))'
        /\ Parsed => Parsed'
        /\ Upto(kernel, Len(kernel.tags) + 1, info) =>
             (Upto(kernel, Len(kernel.tags) + 1, info))'
    BY <2>1 DEF Parsed, IsInfo, Upto
  <2> QED BY <1>5, <2>1, <2>2, <2>3, <2>4 DEF ZoneInv, Lost
<1>6. CASE Allocate \/ Map \/ ParseFails \/ ExtractDies \/ LoadFails \/ LoadOverMonitor
  <2>1. UNCHANGED loadvars
    BY <1>6 DEF Allocate, Map, ParseFails, ExtractDies, LoadFails, LoadOverMonitor
  <2>2. \/ phase \in {"allocate", "map"} /\ phase' \in {"map", "parse"}
        \/ phase' \in {"exit"} \cup Lost
    BY <1>6 DEF Allocate, Map, ParseFails, ExtractDies, LoadFails, LoadOverMonitor, Lost, Go
  <2> QED BY <1>5, <2>1, <2>2
<1>7. CASE Handler \/ Trap \/ BusError
  <2>1. UNCHANGED loadvars
    BY <1>7 DEF Handler, Open, Emulate, EmulateSetPageTable, EmulateBusError, EmulateExit,
                Seal, SealFails, SealOverruns, Trap, BusError
  <2>2. \/ /\ phase \in {"seal", "guest", "open", "emulate"}
           /\ phase' \in {"seal", "guest", "open", "emulate"}
        \/ phase' \in {"exit", "abort"} \cup Lost
    BY <1>7 DEF Handler, Open, Emulate, EmulateSetPageTable, EmulateBusError, EmulateExit,
                Seal, SealFails, SealOverruns, Trap, BusError, Lost, Go
  <2> QED BY <1>5, <2>1, <2>2
<1>8. CASE Ended \/ UNCHANGED vars
  <2>1. UNCHANGED loadvars /\ phase' = phase
    BY <1>8 DEF Ended, vars
  <2> QED BY <1>5, <2>1
<1> QED BY <1>1, <1>2, <1>3, <1>4, <1>6, <1>7, <1>8 DEF Next, Boot

\* The file and the heap stay as they are.
LEMMA NextLoadInv == LoadInv /\ [Next]_vars => LoadInv'
<1> SUFFICES ASSUME LoadInv, [Next]_vars PROVE LoadInv'
  OBVIOUS
<1>1. kernel' = kernel /\ heap' = heap
  BY DEF Next, Boot, Handler, Allocate, Map, Parse, ParseFails, Extract, ExtractDies,
         Extracted, Load, LoadFails, LoadOverMonitor, Seal, SealFails, SealOverruns, Trap,
         BusError, Open, Emulate, EmulateSetPageTable, EmulateBusError, EmulateExit, Ended,
         FindHeader, ExtractTag, LoadImage, loadvars, vars
<1>2. HeaderInZone(kernel)' => HeaderInZone(kernel)
  BY <1>1, Zenon DEF HeaderInZone, HeaderLength
<1> QED BY <1>1, <1>2, NextZoneInv DEF LoadInv

\* When the guest starts, for every kernel of whatever length and tags with its
\* header whole in the search zone, whatever the heap holds, its image
\* is in memory as it was linked and the entry is that of its entry tag: the
\* arithmetic of 32 bits by which load_multiboot2() finds the image in the file
\* does not wrap around unless the load is refused (multiboot2.c:129).
THEOREM ImageAsLinked == Spec => []LoadedAsLinked
<1>1. LoadInv => LoadedAsLinked
  BY DEF LoadInv, ZoneInv, LoadedAsLinked
<1> QED BY <1>1, InitLoadInv, NextLoadInv, PTL DEF Spec

-----------------------------------------------------------------------------
(* The printing of page tables: recursion level by level, and the shifts   *)
(* of an int.                                                              *)

\* The powers of two are positive, and grow with the exponent.
LEMMA PowerOfTwo ==
  ASSUME NEW n \in Nat
  PROVE  2^n \in Nat \ {0}
<1>1. IsFiniteSet(1 .. n) /\ Cardinality(1 .. n) = n
  BY FS_Interval
<1>2. IsFiniteSet(SUBSET (1 .. n)) /\ Cardinality(SUBSET (1 .. n)) = 2^n
  BY <1>1, FS_SUBSET
<1>3. SUBSET (1 .. n) # {}
  OBVIOUS
<1>4. 2^n \in Nat
  BY <1>2, FS_CardinalityType
<1>5. 2^n # 0
  BY <1>2, <1>3, FS_EmptySet
<1> QED BY <1>4, <1>5

LEMMA PowersGrow ==
  ASSUME NEW m \in Nat, NEW n \in Nat, m <= n
  PROVE  2^m <= 2^n
<1>1. /\ Cardinality(1 .. m) = m /\ Cardinality(1 .. n) = n
      /\ IsFiniteSet(1 .. m) /\ IsFiniteSet(1 .. n)
  <2>1. \A k \in Nat : IsFiniteSet(1 .. k) /\ Cardinality(1 .. k) = k
    BY FS_Interval
  <2> QED BY <2>1
<1>2. /\ Cardinality(SUBSET (1 .. m)) = 2^m /\ Cardinality(SUBSET (1 .. n)) = 2^n
      /\ IsFiniteSet(SUBSET (1 .. n))
  BY <1>1, FS_SUBSET
<1>3. SUBSET (1 .. m) \subseteq SUBSET (1 .. n)
  OBVIOUS
<1>4. Cardinality(SUBSET (1 .. m)) <= Cardinality(SUBSET (1 .. n))
  BY <1>2, <1>3, FS_Subset
<1> QED BY <1>2, <1>4

\* f is computed from v, one application of the step G after the other.
Computes(f, N, v, G) ==
  /\ f[0] = v
  /\ \A n \in 1 .. N : f[n] = G[<<n, f[n - 1]>>]

\* Every recursive function on an interval exists.
LEMMA RecursionExists ==
  ASSUME NEW N \in Nat, NEW V, NEW v \in V, NEW G \in [(1 .. N) \X V -> V]
  PROVE  \E f \in [0 .. N -> V] : Computes(f, N, v, G)
<1> DEFINE S == {m \in 0 .. N : \E f \in [0 .. m -> V] : Computes(f, m, v, G)}
<1>1. 0 \in S
  <2> DEFINE g == [k \in 0 .. 0 |-> v]
  <2>1. g \in [0 .. 0 -> V] /\ Computes(g, 0, v, G)
    BY DEF Computes
  <2> HIDE DEF g
  <2> QED BY <2>1
<1>2. ASSUME NEW m \in 0 .. N - 1, m \in S
      PROVE  m + 1 \in S
  <2>1. PICK f \in [0 .. m -> V] : Computes(f, m, v, G)
    BY <1>2
  <2>2. G[<<m + 1, f[m]>>] \in V
    OBVIOUS
  <2> DEFINE g == [k \in 0 .. m + 1 |-> IF k = m + 1 THEN G[<<m + 1, f[m]>>] ELSE f[k]]
  <2>3. g \in [0 .. m + 1 -> V]
    BY <2>2
  <2>4. ASSUME NEW n \in 1 .. m + 1
        PROVE  g[n] = G[<<n, g[n - 1]>>]
    <3>1. CASE n = m + 1
      BY <3>1
    <3>2. CASE n # m + 1
      <4>1. n \in 1 .. m /\ n - 1 # m + 1
        BY <3>2
      <4> QED BY <2>1, <3>2, <4>1 DEF Computes
    <3> QED BY <3>1, <3>2
  <2>5. g[0] = v
    BY <2>1 DEF Computes
  <2> HIDE DEF g
  <2>6. Computes(g, m + 1, v, G)
    BY <2>4, <2>5 DEF Computes
  <2> QED BY <2>3, <2>6
<1> HIDE DEF S
<1>3. N \in S
  BY <1>1, <1>2, UpInduction
<1> QED BY <1>3 DEF S

\* The terms of the sum that is the address of a leaf.
Term(l, n) == l.index[n] * 2^Shift(Level(n))

LEMMA TermIsNat ==
  ASSUME NEW l, IsLeaf(l), NEW n \in 1 .. Len(l.index)
  PROVE  /\ l.index[n] \in Nat /\ Shift(Level(n)) \in Nat
         /\ Term(l, n) \in Nat
<1>1. l.index[n] \in Nat /\ Level(n) \in 1 .. 4
  <2>1. Len(l.index) \in 1 .. 4
    BY DEF IsLeaf
  <2>2. l.index[n] \in Nat
    BY ElementOfSeq DEF IsLeaf
  <2> QED BY <2>1, <2>2 DEF Level
<1>2. (Level(n) - 1) * IndexBits \in Nat
  <2>1. Level(n) - 1 \in Nat /\ IndexBits \in Nat
    BY <1>1, WalkAssumption
  <2> HIDE DEF Level
  <2> QED BY <2>1
<1>3. Shift(Level(n)) \in Nat
  BY <1>2, WalkAssumption DEF Shift
<1>4. 2^Shift(Level(n)) \in Nat
  BY <1>3, PowerOfTwo
<1> QED BY <1>1, <1>3, <1>4 DEF Term

\* What the processor translates, level by level.
Translates(f, l) ==
  /\ f \in [0 .. Len(l.index) -> Nat]
  /\ f[0] = 0
  /\ \A n \in 1 .. Len(l.index) : f[n] = f[n - 1] + Term(l, n)
  /\ Translated(l) = f[Len(l.index)]

LEMMA TranslatedSteps ==
  ASSUME NEW l, IsLeaf(l)
  PROVE  \E f : Translates(f, l)
<1> DEFINE N == Len(l.index)
           Is(g) == g = [n \in 0 .. N |->
                           IF n = 0 THEN 0 ELSE g[n - 1] + l.index[n] * 2^Shift(Level(n))]
           F == CHOOSE g : Is(g)
           G == [z \in (1 .. N) \X Nat |-> z[2] + Term(l, z[1])]
<1>1. N \in Nat
  BY LenProperties DEF IsLeaf
<1>2. G \in [(1 .. N) \X Nat -> Nat]
  <2>1. ASSUME NEW z \in (1 .. N) \X Nat PROVE z[2] + Term(l, z[1]) \in Nat
    <3>1. Term(l, z[1]) \in Nat
      BY TermIsNat
    <3> QED BY <3>1
  <2> QED BY <2>1
<1>3. PICK f \in [0 .. N -> Nat] : Computes(f, N, 0, G)
  <2> HIDE DEF G, N
  <2> QED BY <1>1, <1>2, RecursionExists
<1>4. ASSUME NEW n \in 1 .. N PROVE f[n] = f[n - 1] + Term(l, n)
  <2>1. n - 1 \in 0 .. N
    BY <1>1
  <2>2. f[n] = G[<<n, f[n - 1]>>]
    BY <1>3 DEF Computes
  <2>3. <<n, f[n - 1]>> \in (1 .. N) \X Nat
    BY <2>1
  <2> HIDE DEF N
  <2> QED BY <2>2, <2>3
<1>5. Is(f)
  <2>1. f = [n \in 0 .. N |-> f[n]]
    BY Zenon
  <2>2. f[0] = 0
    BY <1>3 DEF Computes
  <2>3. ASSUME NEW n \in 0 .. N
        PROVE  f[n] = IF n = 0 THEN 0 ELSE f[n - 1] + l.index[n] * 2^Shift(Level(n))
    <3>1. CASE n = 0
      BY <2>2, <3>1, Zenon
    <3>2. CASE n # 0
      <4>1. n \in 1 .. N
        BY <1>1, <3>2
      <4> QED BY <1>4, <3>2, <4>1, Zenon DEF Term
    <3> QED BY <3>1, <3>2
  <2>4. [n \in 0 .. N |-> f[n]] = [n \in 0 .. N |->
           IF n = 0 THEN 0 ELSE f[n - 1] + l.index[n] * 2^Shift(Level(n))]
    BY <2>3, Zenon
  <2> QED BY <2>1, <2>4, Zenon
<1>6. Is(F)
  <2> HIDE DEF Is
  <2> QED BY <1>5, Zenon
<1>7. Translated(l) = F[N]
  BY Zenon DEF Translated
<1> HIDE DEF F
<1>8. F \in [0 .. N -> Nat] /\ F[0] = 0
  <2>1. F[0] = 0 /\ \A n \in 1 .. N : F[n] = F[n - 1] + Term(l, n)
    <3>1. 0 \in 0 .. N /\ \A n \in 1 .. N : n \in 0 .. N /\ n # 0
      BY <1>1
    <3> HIDE DEF N
    <3> QED BY <1>6, <3>1, Zenon DEF Term
  <2> DEFINE S == {n \in 0 .. N : F[n] \in Nat}
  <2>2. 0 \in S
    BY <1>1, <2>1
  <2>3. ASSUME NEW n \in 0 .. N - 1, n \in S PROVE n + 1 \in S
    <3>1. n + 1 \in 1 .. N /\ (n + 1) - 1 = n
      BY <1>1
    <3>2. F[n + 1] = F[n] + Term(l, n + 1)
      BY <2>1, <3>1
    <3>3. Term(l, n + 1) \in Nat
      BY <3>1, TermIsNat
    <3> QED BY <2>3, <3>1, <3>2, <3>3
  <2> HIDE DEF S
  <2>4. \A n \in 0 .. N : n \in S
    BY <1>1, <2>2, <2>3, UpInduction
  <2>5. \A n \in 0 .. N : F[n] \in Nat
    BY <2>4 DEF S
  <2>6. F = [n \in 0 .. N |-> F[n]]
    <3> DEFINE R(n) == IF n = 0 THEN 0 ELSE F[n - 1] + l.index[n] * 2^Shift(Level(n))
    <3>1. F = [n \in 0 .. N |-> R(n)]
      BY <1>6, Zenon
    <3> HIDE DEF R, N
    <3> QED BY <3>1
  <2> HIDE DEF N
  <2> QED BY <2>1, <2>5, <2>6
<1>9. \A n \in 1 .. N : F[n] = F[n - 1] + Term(l, n)
  <2>1. \A n \in 1 .. N : n \in 0 .. N /\ n # 0
    BY <1>1
  <2> HIDE DEF N
  <2> QED BY <1>6, <2>1, Zenon DEF Term
<1>10. Translates(F, l)
  BY <1>7, <1>8, <1>9, Zenon DEF Translates
<1> QED BY <1>10

LEMMA ShiftedAreInts ==
  ASSUME NEW l, IsLeaf(l), NEW n \in 1 .. Len(l.index)
  PROVE  Shifted(l.index[n], Level(n)) \subseteq Int
<1>1. ASSUME NEW x \in Int PROVE Signed(x) \in Int
  <2>1. 2^IntBits \in Nat \ {0}
    BY WalkAssumption, PowerOfTwo
  <2>2. x % 2^IntBits \in Int
    BY <2>1
  <2> QED BY <2>1, <2>2 DEF Signed
<1> DEFINE ix == l.index[n]
           s == Shift(Level(n))
<1>2. ix \in Nat /\ s \in Nat
  BY TermIsNat
<1>3. s % IntBits \in Nat
  BY <1>2, WalkAssumption
<1>4. 2^s \in Nat /\ 2^(s % IntBits) \in Nat
  <2> HIDE DEF s
  <2> QED BY <1>2, <1>3, PowerOfTwo
<1>5. ix * 2^s \in Int /\ ix * 2^(s % IntBits) \in Int
  <2> HIDE DEF s, ix
  <2> QED BY <1>2, <1>4
<1>6. Signed(ix * 2^s) \in Int /\ Signed(ix * 2^(s % IntBits)) \in Int
  BY <1>1, <1>5
<1> QED BY <1>6 DEF Shifted

\* A term that fits an int is not changed by its shift, whatever the shift of
\* level 4 is compiled to: its index is then 0.
LEMMA ShiftFits ==
  ASSUME NEW l, IsLeaf(l), Translated(l) < 2^(IntBits - 1),
         NEW n \in 1 .. Len(l.index), Term(l, n) <= Translated(l)
  PROVE  Shifted(l.index[n], Level(n)) = {Term(l, n)}
<1> DEFINE ix == l.index[n]
           s == Shift(Level(n))
           half == 2^(IntBits - 1)
           full == 2^IntBits
<1>1. ix \in Nat /\ s \in Nat /\ Term(l, n) \in Nat /\ IntBits - 1 \in Nat /\ IntBits \in Nat
  BY TermIsNat, WalkAssumption
<1>2. half \in Nat \ {0} /\ full \in Nat \ {0} /\ half <= full
  BY <1>1, PowerOfTwo, PowersGrow
<1>3. Translated(l) \in Nat
  <2>1. PICK f : Translates(f, l)
    BY TranslatedSteps
  <2>2. Len(l.index) \in 0 .. Len(l.index)
    BY LenProperties DEF IsLeaf
  <2> QED BY <2>1, <2>2 DEF Translates
<1>4. Term(l, n) < half
  BY <1>1, <1>2, <1>3
<1>5. ASSUME NEW x \in Nat, x < half PROVE Signed(x) = x
  <2>1. x % full = x
    <3> HIDE DEF half, full
    <3> QED BY <1>2, <1>5
  <2> QED BY <1>5, <2>1 DEF Signed
<1>6. CASE s < IntBits
  <2>1. Signed(Term(l, n)) = Term(l, n)
    BY <1>1, <1>4, <1>5
  <2> QED BY <1>6, <2>1 DEF Shifted, Term
<1>7. CASE ~ (s < IntBits)
  <2>1. 2^s \in Nat /\ half <= 2^s
    <3> HIDE DEF s
    <3> QED BY <1>1, <1>7, PowerOfTwo, PowersGrow
  <2>2. ix = 0
    <3>1. ix * 2^s < half
      BY <1>4 DEF Term
    <3> HIDE DEF ix, s, half
    <3>2. ASSUME ix # 0 PROVE FALSE
      <4>1. 2^s <= ix * 2^s
        BY <1>1, <2>1, <3>2
      <4>2. ix * 2^s \in Nat
        BY <1>1, <2>1
      <4> QED BY <1>2, <2>1, <3>1, <4>1, <4>2
    <3> QED BY <3>2
  <2>3. s % IntBits \in Nat
    BY <1>1, WalkAssumption
  <2>4. 2^(s % IntBits) \in Nat
    BY <2>3, PowerOfTwo
  <2>5. ix * 2^(s % IntBits) = 0 /\ ix * 2^s = 0
    BY <2>1, <2>2, <2>4
  <2>6. Signed(0) = 0
    BY <1>2, <1>5
  <2> QED BY <1>7, <2>5, <2>6 DEF Shifted, Term
<1> QED BY <1>6, <1>7

\* The choices of parse_pml_lvl(), level by level.
SumsOf(f, l) ==
  /\ f[0] = {0}
  /\ \A n \in 1 .. Len(l.index) :
       f[n] = Plus(f[n - 1], Shifted(l.index[n], Level(n)))
  /\ Sums(l) = f[Len(l.index)]

LEMMA SumsSteps ==
  ASSUME NEW l, IsLeaf(l)
  PROVE  \E f : SumsOf(f, l)
<1> DEFINE N == Len(l.index)
           V == SUBSET Int
           Is(g) == g = [n \in 0 .. N |->
                           IF n = 0 THEN {0}
                           ELSE Plus(g[n - 1], Shifted(l.index[n], Level(n)))]
           F == CHOOSE g : Is(g)
           G == [z \in (1 .. N) \X V |->
                   Plus(z[2], Shifted(l.index[z[1]], Level(z[1])))]
<1>1. N \in Nat
  BY LenProperties DEF IsLeaf
<1>2. G \in [(1 .. N) \X V -> V]
  <2>1. ASSUME NEW z \in (1 .. N) \X V
        PROVE  Plus(z[2], Shifted(l.index[z[1]], Level(z[1]))) \in V
    <3>1. Shifted(l.index[z[1]], Level(z[1])) \subseteq Int
      <4>1. z[1] \in 1 .. Len(l.index)
        BY <2>1
      <4> HIDE DEF V, N
      <4> QED BY <4>1, ShiftedAreInts
    <3> QED BY <3>1 DEF Plus
  <2> QED BY <2>1
<1>3. PICK f \in [0 .. N -> V] : Computes(f, N, {0}, G)
  <2>1. {0} \in V
    OBVIOUS
  <2> HIDE DEF G, N, V
  <2> QED BY <1>1, <1>2, <2>1, RecursionExists
<1>4. ASSUME NEW n \in 1 .. N
      PROVE  f[n] = Plus(f[n - 1], Shifted(l.index[n], Level(n)))
  <2>1. n - 1 \in 0 .. N
    BY <1>1
  <2>2. f[n] = G[<<n, f[n - 1]>>]
    BY <1>3 DEF Computes
  <2>3. <<n, f[n - 1]>> \in (1 .. N) \X V
    BY <1>3, <2>1
  <2> HIDE DEF N, V
  <2> QED BY <2>2, <2>3
<1>5. Is(f)
  <2>1. f = [n \in 0 .. N |-> f[n]]
    BY Zenon
  <2>2. f[0] = {0}
    BY <1>3, Zenon DEF Computes
  <2>3. ASSUME NEW n \in 0 .. N
        PROVE  f[n] = IF n = 0 THEN {0}
                      ELSE Plus(f[n - 1], Shifted(l.index[n], Level(n)))
    <3>1. CASE n = 0
      BY <2>2, <3>1, Zenon
    <3>2. CASE n # 0
      <4>1. n \in 1 .. N
        BY <1>1, <3>2
      <4> QED BY <1>4, <3>2, <4>1, Zenon
    <3> QED BY <3>1, <3>2, Zenon
  <2>4. [n \in 0 .. N |-> f[n]] = [n \in 0 .. N |->
           IF n = 0 THEN {0}
           ELSE Plus(f[n - 1], Shifted(l.index[n], Level(n)))]
    BY <2>3, Zenon
  <2> QED BY <2>1, <2>4, Zenon
<1>6. Is(F)
  <2> HIDE DEF Is
  <2> QED BY <1>5, Zenon
<1>7. Sums(l) = F[N]
  BY Zenon DEF Sums
<1> HIDE DEF F
<1>8. F[0] = {0}
  <2>1. 0 \in 0 .. N
    BY <1>1
  <2> HIDE DEF N
  <2> QED BY <1>6, <2>1, Zenon
<1>9. \A n \in 1 .. N : F[n] = Plus(F[n - 1], Shifted(l.index[n], Level(n)))
  <2>1. \A n \in 1 .. N : n \in 0 .. N /\ n # 0
    BY <1>1
  <2> HIDE DEF N
  <2> QED BY <1>6, <2>1, Zenon
<1>10. SumsOf(F, l)
  BY <1>7, <1>8, <1>9, Zenon DEF SumsOf
<1> QED BY <1>10

\* Where the address fits an int, no partial sum is larger.
LEMMA PartialSums ==
  ASSUME NEW l, IsLeaf(l), NEW f, Translates(f, l), NEW n \in 1 .. Len(l.index)
  PROVE  /\ f[n - 1] \in Nat /\ f[n] \in Nat
         /\ Term(l, n) <= Translated(l)
<1> DEFINE N == Len(l.index)
           S == {k \in 0 .. N : \A j \in 0 .. k : f[j] <= f[k]}
<1>1. N \in Nat
  BY LenProperties DEF IsLeaf
<1>2. f \in [0 .. N -> Nat]
  BY DEF Translates
<1>3. 0 \in S
  BY <1>1, <1>2
<1>4. ASSUME NEW k \in 0 .. N - 1, k \in S PROVE k + 1 \in S
  <2>1. k + 1 \in 1 .. N /\ (k + 1) - 1 = k /\ k \in 0 .. N
    BY <1>1
  <2>2. f[k + 1] = f[k] + Term(l, k + 1)
    BY <2>1 DEF Translates
  <2>3. Term(l, k + 1) \in Nat
    BY <2>1, TermIsNat
  <2>4. f[k] \in Nat /\ f[k] <= f[k + 1]
    BY <1>2, <2>1, <2>2, <2>3
  <2>5. ASSUME NEW j \in 0 .. k + 1 PROVE f[j] <= f[k + 1]
    <3>1. CASE j = k + 1
      BY <2>2, <2>3, <2>4, <3>1
    <3>2. CASE j # k + 1
      <4>1. j \in 0 .. k /\ j \in 0 .. N
        BY <2>1, <3>2
      <4>2. f[j] <= f[k] /\ f[j] \in Nat /\ f[k + 1] \in Nat
        BY <1>2, <1>4, <2>1, <4>1
      <4> QED BY <2>4, <4>2
    <3> QED BY <3>1, <3>2
  <2> QED BY <2>1, <2>5
<1>5. N \in S
  <2>1. \A k \in 0 .. N - 1 : k \in S => k + 1 \in S
    BY <1>4
  <2> HIDE DEF S, N
  <2>2. \A k \in 0 .. N : k \in S
    BY <1>1, <1>3, <2>1, UpInduction
  <2> QED BY <1>1, <2>2
<1>6. f[n] <= f[N]
  BY <1>1, <1>5
<1>7. n - 1 \in 0 .. N /\ n \in 0 .. N /\ N \in 0 .. N
  BY <1>1
<1>8. f[n - 1] \in Nat /\ f[n] \in Nat /\ f[N] \in Nat
  BY <1>2, <1>7
<1>9. f[n] = f[n - 1] + Term(l, n) /\ Translated(l) = f[N]
  BY DEF Translates
<1>10. Term(l, n) \in Nat
  BY TermIsNat
<1> QED BY <1>6, <1>8, <1>9, <1>10

\* There is one choice, where the address fits an int.
LEMMA OneSum ==
  ASSUME NEW l, IsLeaf(l), Translated(l) < 2^(IntBits - 1)
  PROVE  Sums(l) = {Translated(l)}
<1>1. PICK f : Translates(f, l)
  BY TranslatedSteps
<1>2. PICK g : SumsOf(g, l)
  BY SumsSteps
<1> DEFINE N == Len(l.index)
           S == {k \in 0 .. N : g[k] = {f[k]}}
<1>3. N \in Nat
  BY LenProperties DEF IsLeaf
<1>4. 0 \in S
  BY <1>1, <1>2, <1>3 DEF Translates, SumsOf
<1>5. ASSUME NEW k \in 0 .. N - 1, k \in S PROVE k + 1 \in S
  <2>1. k + 1 \in 1 .. N /\ (k + 1) - 1 = k
    BY <1>3
  <2>2. g[k] = {f[k]}
    BY <1>5
  <2>3. Term(l, k + 1) <= Translated(l)
    <3>1. k + 1 \in 1 .. Len(l.index)
      BY <2>1
    <3> QED BY <1>1, <3>1, PartialSums
  <2>4. Shifted(l.index[k + 1], Level(k + 1)) = {Term(l, k + 1)}
    BY <2>1, <2>3, ShiftFits
  <2>5. g[k + 1] = Plus(g[k], Shifted(l.index[k + 1], Level(k + 1)))
    BY <1>2, <2>1 DEF SumsOf
  <2>6. f[k + 1] = f[k] + Term(l, k + 1)
    BY <1>1, <2>1 DEF Translates
  <2>7. g[k + 1] = {f[k + 1]}
    <3> HIDE DEF N, S
    <3> QED BY <2>2, <2>4, <2>5, <2>6 DEF Plus
  <2> QED BY <2>1, <2>7
<1>6. N \in S
  <2> HIDE DEF S, N
  <2> QED BY <1>3, <1>4, <1>5, UpInduction
<1> QED BY <1>1, <1>2, <1>6 DEF Translates, SumsOf

-----------------------------------------------------------------------------
(* What has been printed is the listing of one of the guest's tables.      *)

ListInv == listed = NoListing \/ \E t \in GuestTables : listed \in Listings(t.leaves)

LEMMA NextListInv == ListInv /\ [Next]_vars => ListInv'
<1> SUFFICES ASSUME ListInv, [Next]_vars PROVE ListInv'
  OBVIOUS
<1>1. CASE listed' = listed
  BY <1>1 DEF ListInv
<1>2. CASE EmulateSetPageTable
  BY <1>2 DEF EmulateSetPageTable, ListInv
<1>3. listed' = listed \/ EmulateSetPageTable
  BY DEF Next, Boot, Handler, Allocate, Map, Parse, ParseFails, Extract, Extracted, Load,
         ExtractDies, LoadFails, LoadOverMonitor, Seal, SealFails, SealOverruns, Trap, BusError,
         Open, Emulate, EmulateBusError, EmulateExit, Ended, vars
<1> QED BY <1>1, <1>2, <1>3

\* A listing has the sums of one choice for each level of its leaves.
LEMMA ListingOfLeaf ==
  ASSUME NEW t \in GuestTables, NEW s \in Listings(t.leaves), NEW l \in DOMAIN s
  PROVE  /\ IsLeaf(l)
         /\ \E v \in Sums(l) : s[l] = [vaddr |-> v, paddr |-> l.paddr]
<1>1. PICK f : /\ \A k \in t.leaves : f[k] \in Sums(k)
               /\ s = [k \in t.leaves |-> [vaddr |-> f[k], paddr |-> k.paddr]]
  BY Zenon DEF Listings
<1>2. l \in t.leaves
  BY <1>1
<1>3. IsLeaf(l)
  BY <1>2, MonitorAssumption
<1>4. s[l] = [vaddr |-> f[l], paddr |-> l.paddr] /\ f[l] \in Sums(l)
  BY <1>1, <1>2
<1> QED BY <1>3, <1>4

\* Whatever the tables of the guest are, parse_pml_lvl() prints for each of
\* their mappings below 2 GiB the address that the processor translates, and
\* that of the entry (shadow.c:77): the shifts of its int lose nothing.
THEOREM LowMappingsListed == Spec => []ListsLowMappings
<1>1. Init => ListInv
  BY DEF Init, ListInv
<1>2. ListInv => ListsLowMappings
  <2> SUFFICES ASSUME ListInv, listed # NoListing,
                      NEW l \in DOMAIN listed, Translated(l) < 2^(IntBits - 1)
               PROVE  listed[l] = [vaddr |-> Translated(l), paddr |-> l.paddr]
    BY DEF ListsLowMappings
  <2>1. PICK t \in GuestTables : listed \in Listings(t.leaves)
    BY DEF ListInv
  <2>2. IsLeaf(l)
    BY <2>1, ListingOfLeaf
  <2>3. PICK v \in Sums(l) : listed[l] = [vaddr |-> v, paddr |-> l.paddr]
    BY <2>1, ListingOfLeaf
  <2>4. Sums(l) = {Translated(l)}
    BY <2>2, OneSum
  <2> QED BY <2>3, <2>4
<1> QED BY <1>1, <1>2, NextListInv, PTL DEF Spec
=============================================================================
