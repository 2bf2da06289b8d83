----------------------------- MODULE JanusMemory -----------------------------
(***************************************************************************)
(* The memory of the process in which monitor and guest live together      *)
(* (monitor/memory.c, and set_flat_mapping() of monitor/shadow.c).         *)
(*                                                                         *)
(* The physical memory of the guest is a file, the backend, mapped at the  *)
(* addresses that the guest uses.  The code and the data of the monitor    *)
(* are linked below 1 MiB, its bss at 2 GiB, where the first part of the   *)
(* guest's memory ends (Makefile).  While the guest runs the low pages are *)
(* write protected; while the monitor runs they have the protection they   *)
(* were loaded with.  The unit is the page.                                *)
(***************************************************************************)
EXTENDS Integers, FiniteSets

CONSTANTS
  ram,             \* pages of the backend, PHYSICAL_MEMORY of monitor.c
  MAPS_LOW_LIMIT,  \* 1 MiB, also bottom_guest_1
  top_guest_1,     \* 2 GiB
  bottom_guest_2,  \* 4 GiB
  HostPages,       \* bound: the pages that are modelled, from 0
  MAPS_MAX_SIZE,   \* mappings that low_memory_maps can hold
  LowImages        \* bound: how a linker fills low memory

ASSUME MemoryAssumption ==
  /\ {ram, MAPS_LOW_LIMIT, top_guest_1, bottom_guest_2, HostPages} \subseteq Nat
  /\ MAPS_MAX_SIZE \in Nat
  /\ 0 < MAPS_LOW_LIMIT
  /\ MAPS_LOW_LIMIT < top_guest_1
  /\ top_guest_1 < bottom_guest_2
  /\ bottom_guest_2 + ram < HostPages
  /\ LowImages \subseteq [0 .. MAPS_LOW_LIMIT - 1 -> {{}, {"R", "X"}, {"R"}, {"R", "W"}}]

VARIABLES
  host,             \* what the host has at each page of the process
  guest_memory,     \* the pages of the backend
  low_memory_maps   \* the mappings below 1 MiB, as they were read last

memvars == <<host, guest_memory, low_memory_maps>>

Pages == 0 .. HostPages - 1
LowPages == 0 .. MAPS_LOW_LIMIT - 1

Prot == SUBSET {"R", "W", "X"}
All == {"R", "W", "X"}

\* A page of the process: nothing, a page of the monitor's own image, or a
\* page of the backend.
Unmapped == [of |-> "none", at |-> 0, prot |-> {}]
Page == [of : {"none", "monitor", "backend"}, at : Nat, prot : Prot]
Monitor(q, prot) == [of |-> "monitor", at |-> q, prot |-> prot]

\* The pages of the monitor as the host loads it: code, constants and data in
\* low memory with a hole wherever the linker leaves one, the bss at 2 GiB.
Loaded ==
  {[q \in Pages |-> CASE q \in LowPages /\ low[q] # {} -> Monitor(q, low[q])
                     [] q = top_guest_1 -> Monitor(q, {"R", "W"})
                     [] OTHER -> Unmapped] :
     low \in LowImages}

-----------------------------------------------------------------------------
(* The lines of /proc/self/maps: the host joins neighbouring pages of one  *)
(* origin and one protection.                                              *)

Joined(h, p, q) ==
  /\ h[p].of = h[q].of /\ h[p].prot = h[q].prot
  /\ h[q].at - h[p].at = q - p

\* The first pages of the mappings.
Starts(h) ==
  {q \in Pages : h[q].of # "none" /\ (q = 0 \/ ~Joined(h, q - 1, q))}

\* The page behind a mapping that starts at s.
EndOf(h, s) ==
  CHOOSE e \in s + 1 .. HostPages :
    /\ \A q \in s .. e - 1 : h[q].of # "none" /\ Joined(h, s, q)
    /\ e = HostPages \/ h[e].of = "none" \/ ~Joined(h, s, e)

\* Seeded fault: the last page of low memory is left out.
FaultyLowMaps(h) ==
  {[start |-> s, end |-> EndOf(h, s), prot |-> h[s].prot] :
     s \in {t \in Starts(h) : t < MAPS_LOW_LIMIT - 1}}

\* read_host_mapping(), for the mappings that protect_low_memory() keeps.
LowMaps(h) ==
  {[start |-> s, end |-> EndOf(h, s), prot |-> h[s].prot] :
     s \in {t \in Starts(h) : t < MAPS_LOW_LIMIT}}

\* mprotect() of every mapping of a set, with the protection it has there.
Protected(h, maps) ==
  [q \in Pages |->
     IF \E m \in maps : q \in m.start .. m.end - 1
     THEN [h[q] EXCEPT !.prot = (CHOOSE m \in maps : q \in m.start .. m.end - 1).prot]
     ELSE h[q]]

-----------------------------------------------------------------------------
MemoryInit ==
  /\ host \in Loaded
  /\ guest_memory = {}
  /\ low_memory_maps = {}

\* allocate_physical_memory()
AllocatePhysicalMemory ==
  /\ guest_memory' = 0 .. ram - 1
  /\ UNCHANGED <<host, low_memory_maps>>

\* map_page(vaddr, paddr, len): MAP_FIXED, so that what was there is lost.
MapPage(h, vaddr, paddr, len) ==
  [q \in Pages |->
     IF q \in vaddr .. vaddr + len - 1
     THEN [of |-> "backend", at |-> paddr + (q - vaddr), prot |-> All]
     ELSE h[q]]

\* The two mappings, or the one, that set_flat_mapping() makes.
Flat(h) ==
  IF ram < top_guest_1 - MAPS_LOW_LIMIT
  THEN MapPage(h, MAPS_LOW_LIMIT, MAPS_LOW_LIMIT, ram)
  ELSE MapPage(MapPage(h, MAPS_LOW_LIMIT, MAPS_LOW_LIMIT,
                       top_guest_1 - MAPS_LOW_LIMIT),
               bottom_guest_2, bottom_guest_2, ram - (top_guest_1 - MAPS_LOW_LIMIT))

\* set_flat_mapping()
SetFlatMapping ==
  /\ host' = Flat(host)
  /\ UNCHANGED <<guest_memory, low_memory_maps>>

\* What the guest may do with the mappings: read and execute.
Sealed(maps) == {[m EXCEPT !.prot = @ \ {"W"}] : m \in maps}

\* Seeded fault: the protection that is saved is the one that is set.
FaultySaved(maps) == Sealed(maps)

\* What is kept of the mappings for unprotect_low_memory().
Saved(maps) == maps

\* The loop of protect_low_memory() fills the array, and has the next line
\* still to look at, which is behind the lines that were read.
TooManyMaps == Cardinality(LowMaps(host)) >= MAPS_MAX_SIZE

\* protect_low_memory(), when it does not come to that.
ProtectLowMemory ==
  /\ ~TooManyMaps
  /\ host' = Protected(host, Sealed(LowMaps(host)))
  /\ low_memory_maps' = Saved(LowMaps(host))
  /\ UNCHANGED guest_memory

\* Seeded fault: only the first page of a mapping gets its protection back.
FaultyUnprotectLowMemory ==
  /\ host' = Protected(host, {[m EXCEPT !.end = m.start + 1] : m \in low_memory_maps})
  /\ UNCHANGED <<guest_memory, low_memory_maps>>

\* unprotect_low_memory()
UnprotectLowMemory ==
  /\ host' = Protected(host, low_memory_maps)
  /\ UNCHANGED <<guest_memory, low_memory_maps>>

-----------------------------------------------------------------------------
\* What an access of the process to a page finds.
Writable(q) == "W" \in host[q].prot

\* A page of the file's mapping that lies behind the end of the file.
BehindBackend(q) == host[q].of = "backend" /\ host[q].at \notin guest_memory

\* Types.
MemoryTypeOK ==
  /\ host \in [Pages -> Page]
  /\ guest_memory \subseteq Nat
  /\ \A m \in low_memory_maps :
       m.start \in Pages /\ m.end \in m.start + 1 .. HostPages /\ m.prot \in Prot
=============================================================================
