----------------------------- MODULE AddressSpace -----------------------------
(***************************************************************************)
(* What the memory manager of the Janus guest promises to its clients,     *)
(* without tables, frames or translation caches: pages with contents, a    *)
(* map from virtual addresses to pages, and stores that reach the page     *)
(* that the map names and no other.  The promise ends when a request finds *)
(* no page left.                                                           *)
(***************************************************************************)
EXTENDS Functions

CONSTANTS
  VAddr,     \* virtual addresses of pages
  Page,      \* pages
  Idx,       \* words of a page
  Word,      \* contents of a word
  ZeroWord   \* what memset() leaves

VARIABLES
  map,       \* the page of each mapped address
  content,   \* the contents of each page in use
  ok         \* no request has found the memory exhausted

asvars == <<map, content, ok>>

Mapped == DOMAIN map
InUse  == DOMAIN content

ZeroPage == [i \in Idx |-> ZeroWord]

With(f, x, y) == [z \in DOMAIN f \cup {x} |-> IF z = x THEN y ELSE f[z]]
Without(f, x) == Restrict(f, DOMAIN f \ {x})

-----------------------------------------------------------------------------
Init ==
  /\ map = [v \in {} |-> 0]
  /\ content = [p \in {} |-> 0]
  /\ ok = TRUE

\* A page that nobody uses, with whatever it holds.
Alloc(p) ==
  /\ p \notin InUse
  /\ p \in DOMAIN content'
  /\ content' = With(content, p, content'[p])
  /\ UNCHANGED map

\* A page that no address maps may be given back.
Release(p) ==
  /\ p \in InUse \ Range(map)
  /\ content' = Without(content, p)
  /\ UNCHANGED map

Map(v, p) ==
  /\ v \notin Mapped
  /\ p \in InUse
  /\ map' = With(map, v, p)
  /\ UNCHANGED content

Unmap(v) ==
  /\ v \in Mapped
  /\ map' = Without(map, v)
  /\ UNCHANGED content

\* A page of zeros that nobody else uses.
Mmap(v, p) ==
  /\ v \notin Mapped
  /\ p \notin InUse
  /\ map' = With(map, v, p)
  /\ content' = With(content, p, ZeroPage)

Munmap(v) ==
  /\ v \in Mapped
  /\ \A u \in Mapped \ {v} : map[u] # map[v]
  /\ map' = Without(map, v)
  /\ content' = Without(content, map[v])

Store(v, i, w) ==
  /\ v \in Mapped
  /\ content' = [content EXCEPT ![map[v]][i] = w]
  /\ UNCHANGED map

Promise ==
  \/ \E p \in Page : Alloc(p) \/ Release(p)
  \/ \E v \in VAddr : Unmap(v) \/ Munmap(v)
  \/ \E v \in VAddr, p \in Page : Map(v, p) \/ Mmap(v, p)
  \/ \E v \in VAddr, i \in Idx, w \in Word : Store(v, i, w)

Next ==
  \/ ok /\ ok' /\ Promise
  \/ ~ok'

Spec == Init /\ [][Next]_asvars
=============================================================================
