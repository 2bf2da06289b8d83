----------------------------- MODULE JanusMonitor -----------------------------
(***************************************************************************)
(* The monitor as a process, from main() (monitor/monitor.c) to the signal *)
(* handler (monitor/intercept.c): it makes the guest's memory, loads the   *)
(* kernel, seals its own low memory and jumps to the guest.  From then on  *)
(* the guest runs until an instruction traps, and the handler opens low    *)
(* memory, emulates and seals it again.                                    *)
(*                                                                         *)
(* What an instruction does to the emulated processor is in JanusCpu.      *)
(* There is one thread: while the handler runs, the guest stands still,    *)
(* and a signal that comes within the handler ends the process.            *)
(***************************************************************************)
EXTENDS JanusMemory, JanusLoader, JanusWalk

CONSTANTS
  GuestTables,   \* bound: the page tables that the guest may install
  NoListing

\* The walk goes down from level 4, an entry of a table at a time.
ASSUME MonitorAssumption == \A t \in GuestTables : \A l \in t.leaves : IsLeaf(l)

VARIABLES
  phase,    \* where the process is
  loaded,   \* the host's mappings when main() begins, for the properties
  listed    \* what set_page_table() printed last

vars == <<memvars, loadvars, phase, loaded, listed>>

Init ==
  /\ MemoryInit
  /\ LoaderInit
  /\ phase = "allocate"
  /\ loaded = host
  /\ listed = NoListing

Go(from, to) ==
  /\ phase = from
  /\ phase' = to
  /\ UNCHANGED loaded

-----------------------------------------------------------------------------
(* main()                                                                  *)

Allocate ==
  /\ Go("allocate", "map")
  /\ AllocatePhysicalMemory
  /\ UNCHANGED <<loadvars, listed>>

Map ==
  /\ Go("map", "parse")
  /\ SetFlatMapping
  /\ UNCHANGED <<loadvars, listed>>

Parse ==
  /\ Go("parse", "extract")
  /\ FindHeader
  /\ UNCHANGED <<memvars, listed>>

\* error("invalid kernel operand")
ParseFails ==
  /\ Go("parse", "exit")
  /\ NoHeader
  /\ UNCHANGED <<memvars, loadvars, listed>>

Extract ==
  /\ Go("extract", "extract")
  /\ ExtractTag
  /\ UNCHANGED <<memvars, listed>>

\* The walk has left the buffer, and the heap ends.
ExtractDies ==
  /\ Go("extract", "killed")
  /\ MoreTags /\ BehindBuffer
  /\ UNCHANGED <<memvars, loadvars, listed>>

Extracted ==
  /\ Go("extract", "load")
  /\ ~MoreTags
  /\ UNCHANGED <<memvars, loadvars, listed>>

Load ==
  /\ Go("load", "seal")
  /\ LoadImage
  /\ UNCHANGED <<memvars, listed>>

\* error("unable to load kernel"), or the death of the process.
LoadFails ==
  /\ Go("load", "exit")
  /\ ShortFile \/ OutOfMemory
  /\ UNCHANGED <<memvars, loadvars, listed>>

\* The kernel is loaded over the monitor's data or bss.  What the process does
\* from here on depends on what it has become, and is not modelled.
LoadOverMonitor ==
  /\ Go("load", "overwritten")
  /\ OverMonitor
  /\ UNCHANGED <<memvars, loadvars, listed>>

-----------------------------------------------------------------------------
(* Between the guest and the handler.                                      *)

\* protect_low_memory(), by main() before it jumps to the guest and by the
\* handler before it returns to it.
Seal ==
  /\ Go("seal", "guest")
  /\ ProtectLowMemory
  /\ UNCHANGED <<loadvars, listed>>

\* "unexpected low memory areas": what is behind the lines that were read looks
\* like a mapping that is not in low memory, and the count is MAPS_MAX_SIZE.
SealFails ==
  /\ Go("seal", "abort")
  /\ TooManyMaps
  /\ UNCHANGED <<memvars, loadvars, listed>>

\* It looks like one that is: it is written behind low_memory_maps, before the
\* count is compared.  What this overwrites, and what follows, is not modelled.
SealOverruns ==
  /\ Go("seal", "overrun")
  /\ TooManyMaps
  /\ UNCHANGED <<memvars, loadvars, listed>>

\* A privileged instruction, a load from a page with nothing in it or a store
\* to one that is sealed: SIGSEGV.
Trap ==
  /\ Go("guest", "open")
  /\ UNCHANGED <<memvars, loadvars, listed>>

\* An access behind the end of the backend: SIGBUS, for which
\* setup_interception() installs nothing.
BusError ==
  /\ Go("guest", "killed")
  /\ \E q \in Pages : BehindBackend(q)
  /\ UNCHANGED <<memvars, loadvars, listed>>

Open ==
  /\ Go("open", "emulate")
  /\ UnprotectLowMemory
  /\ UNCHANGED <<loadvars, listed>>

Emulate ==
  /\ Go("emulate", "seal")
  /\ UNCHANGED <<memvars, loadvars, listed>>

\* A write of CR0 that enables paging: set_page_table() reads every table with
\* read_physical() and prints what they map.
EmulateSetPageTable ==
  /\ Go("emulate", "seal")
  /\ \E t \in GuestTables :
       /\ t.at \subseteq guest_memory
       /\ \E s \in Listings(t.leaves) : listed' = s
  /\ UNCHANGED <<memvars, loadvars>>

\* One of the tables is not in the backend: a bus error within the handler.
EmulateBusError ==
  /\ Go("emulate", "killed")
  /\ \E t \in GuestTables : ~(t.at \subseteq guest_memory)
  /\ UNCHANGED <<memvars, loadvars, listed>>

\* hlt, or an instruction or an access that is not implemented.
EmulateExit ==
  /\ Go("emulate", "exit")
  /\ UNCHANGED <<memvars, loadvars, listed>>

Lost == {"killed", "overwritten", "overrun"}

Ended == phase \in {"exit", "abort"} \cup Lost /\ UNCHANGED vars

Boot ==
  \/ Allocate \/ Map \/ Parse \/ ParseFails \/ Extract \/ Extracted
  \/ ExtractDies \/ Load \/ LoadFails \/ LoadOverMonitor

Handler ==
  \/ Open \/ Emulate \/ EmulateSetPageTable \/ EmulateBusError \/ EmulateExit
  \/ Seal \/ SealFails \/ SealOverruns

Next == Boot \/ Handler \/ Trap \/ BusError \/ Ended

\* The process is scheduled by its host; nothing makes the guest trap.
Spec == Init /\ [][Next]_vars /\ WF_vars(Boot) /\ WF_vars(Handler)

-----------------------------------------------------------------------------
(* Properties.                                                             *)

Phases == {"allocate", "map", "parse", "extract", "load", "seal", "guest",
           "open", "emulate", "exit", "abort"} \cup Lost

\* Types.
TypeOK ==
  /\ MemoryTypeOK
  /\ info \in Info /\ i \in Nat
  /\ phase \in Phases

\* While the guest runs it cannot change the code or the data of the monitor
\* in low memory: every store there traps (memory.c:155).
LowSealed == phase \in {"guest", "open"} => \A q \in LowPages : ~Writable(q)

\* Whenever the monitor's own code runs, each of its pages is mapped as the host
\* loaded it: no mapping of the guest's memory has replaced one, data can be
\* written and code cannot, after any number of traps (memory.c:163).  Nothing
\* is promised from where a load or a count has written over its data.
MonitorIntact ==
  phase \notin {"guest", "open"} \cup Lost =>
    \A q \in Pages : loaded[q].of = "monitor" => host[q] = loaded[q]

\* When the guest starts, its image is in memory as it was linked, and the
\* jump goes to the address of its entry tag, wherever in the search zone the
\* header is and whatever the order of its tags (multiboot2.c:129).
LoadedAsLinked ==
  phase = "guest" /\ HeaderInZone(kernel) =>
    /\ HasTag(MULTIBOOT_TAG_TYPE_ADDRESS) => AsLinked
    /\ HasTag(MULTIBOOT_TAG_TYPE_ENTRY) =>
         info.entry_addr = LastTag(MULTIBOOT_TAG_TYPE_ENTRY)[1]

SizedTags ==
  /\ \A n \in DOMAIN kernel.tags : kernel.tags[n].size > 0
  /\ HeaderInZone(kernel)

\* The walk of the tags ends: the kernel is started or refused.  The exceptions
\* are a tag of size zero (multiboot2.c:80) and a header that leaves the search
\* zone, in whose place the walk reads the heap (multiboot2.c:64).
ParsingEnds == SizedTags ~> phase \notin {"parse", "extract"}

\* Each seal counts the mappings again, and the host joins and splits them as
\* the protections of neighbours become equal or differ (memory.c:139): if there
\* is room for those that the monitor was loaded with, then after any number of
\* traps there are never more, and nothing is written behind low_memory_maps.
FewMapsKept ==
  Cardinality(LowMaps(Flat(loaded))) < MAPS_MAX_SIZE => phase # "overrun"

\* The listing of a page table gives the address that the processor translates
\* for every mapping below 2 GiB, where no shift of an int overflows
\* (shadow.c:77).
ListsLowMappings ==
  listed # NoListing =>
    \A l \in DOMAIN listed :
      Translated(l) < 2^(IntBits - 1) =>
        listed[l] = [vaddr |-> Translated(l), paddr |-> l.paddr]
=============================================================================
