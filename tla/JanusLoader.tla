----------------------------- MODULE JanusLoader -----------------------------
(***************************************************************************)
(* The loading of a guest kernel (monitor/multiboot2.c).  The monitor      *)
(* looks for a Multiboot2 header in the first bytes of the file, walks its *)
(* tags, and copies the part of the file that the address tag names to the *)
(* guest's memory.                                                         *)
(*                                                                         *)
(* A file is given as what a linker makes of a kernel: words before the    *)
(* header, the header with its tags, words after it.  Image(k) is its      *)
(* sequence of 32-bit words, which is all that the loader sees.  Positions *)
(* and sizes are in bytes, four to a word.  The search reads the file into *)
(* a buffer from malloc(), so that behind what was read it finds whatever  *)
(* the heap holds.                                                         *)
(***************************************************************************)
EXTENDS Integers, Sequences, SequencesExt, FiniteSets

CONSTANTS
  Kernels,             \* bound: the kernels that are loaded
  SEARCH_ZONE_LEN,     \* bytes in which the header is searched
  MULTIBOOT_MAGIC,
  Modulus,             \* a word counts modulo 2^32
  GuestWords,          \* the words of guest memory that a kernel may be loaded to
  MonitorWords,        \* the words of the monitor's own data and bss
  Heaps,               \* bound: the words that malloc() may find
  Old,                 \* what guest memory held before
  Undefined            \* values of an uninitialised field of info

MULTIBOOT_TAG_TYPE_END == 0
MULTIBOOT_TAG_TYPE_ADDRESS == 2
MULTIBOOT_TAG_TYPE_ENTRY == 3

Word == 0 .. Modulus - 1

Info == [header_off : Word, header_addr : Word, load_addr : Word,
         load_end_addr : Word, bss_end_addr : Word, entry_addr : Word]

VARIABLES
  kernel,    \* the kernel in the file
  heap,      \* the words from the buffer of the search on, before it is filled
  i,         \* extract_multiboot2(): position in the header
  info,
  image      \* the words of guest memory

loadvars == <<kernel, heap, i, info, image>>

-----------------------------------------------------------------------------
(* Files.                                                                  *)

\* The words of a tag, with its padding to eight bytes.  "body" is what
\* follows its type and its size.  The 16 bits of flags that share a word with
\* the type are zero.
TagWords(t) ==
  LET ws == <<t.type, t.size>> \o t.body
  IN  IF Len(ws) % 2 = 0 THEN ws ELSE Append(ws, 0)

Tags(k) == FlattenSeq([n \in DOMAIN k.tags |-> TagWords(k.tags[n])])

HeaderLength(k) == 16 + 4 * Len(Tags(k))

Header(k) ==
  <<MULTIBOOT_MAGIC, 0, HeaderLength(k),
    (k.error - MULTIBOOT_MAGIC - HeaderLength(k)) % Modulus>> \o Tags(k)

Image(k) == k.before \o Header(k) \o k.after

\* A word of the file, by its position in bytes.
FileWord(k, n) == Image(k)[n \div 4 + 1]

Size(k) == 4 * Len(Image(k))
BufferSize(k) == IF Size(k) < SEARCH_ZONE_LEN THEN Size(k) ELSE SEARCH_ZONE_LEN

\* What parse_multiboot2() finds in its buffer, or behind it: nothing checks
\* that a header, or a tag, ends where the file was read to.
BufferWord(k, h, n) == IF n < BufferSize(k) THEN FileWord(k, n) ELSE h[n \div 4]

\* The header is whole in the search zone, as Multiboot2 demands.
HeaderInZone(k) == 4 * Len(k.before) + HeaderLength(k) <= SEARCH_ZONE_LEN

-----------------------------------------------------------------------------
(* parse_multiboot2()                                                      *)

\* The test of the search: the magic number, and four words that sum to zero.
IsHeader(k, h, n) ==
  LET Field(f) == BufferWord(k, h, n + f)
  IN  /\ Field(0) = MULTIBOOT_MAGIC
      /\ (Field(0) + Field(4) + Field(8) + Field(12)) % Modulus = 0

Candidates(k, h) ==
  {n \in 0 .. BufferSize(k) - 1 : n % 4 = 0 /\ IsHeader(k, h, n)}

KernelTag == [type : Word, size : Word, body : Seq(Word)]

\* What an address tag names, if it names anything, holds the header.
Sound(body) == body[2] < body[3] => body[2] <= body[1] /\ body[1] <= body[3]

\* A tag has its size, or none.  The last address tag is the one that counts.
WellFormed(k) ==
  /\ k.before \in Seq(Word) /\ k.tags \in Seq(KernelTag) /\ k.after \in Seq(Word)
  /\ \A n \in DOMAIN k.tags :
       LET t == k.tags[n]
       IN  /\ t.size \in {0, 8 + 4 * Len(t.body)}
           /\ t.type = MULTIBOOT_TAG_TYPE_ENTRY => Len(t.body) = 1
           /\ t.type = MULTIBOOT_TAG_TYPE_ADDRESS => Len(t.body) = 4
           /\ \/ t.type # MULTIBOOT_TAG_TYPE_ADDRESS
              \/ Sound(t.body)
              \/ \E m \in DOMAIN k.tags :
                   m > n /\ k.tags[m].type = MULTIBOOT_TAG_TYPE_ADDRESS

\* Files are smaller than 4 GiB, and nothing in them but the header looks like
\* one.  The guest's memory that has 32-bit addresses ends before 4 GiB.
ASSUME KernelAssumption ==
  /\ Modulus \in Nat \ {0} /\ SEARCH_ZONE_LEN \in Nat /\ Undefined \subseteq Word
  /\ \A n \in GuestWords : n \in Nat /\ 4 * n + 4 < Modulus
  /\ MonitorWords \cap GuestWords = {}
  /\ Heaps \subseteq [0 .. Modulus -> Word]
  /\ \A k \in Kernels :
       /\ WellFormed(k)
       /\ Size(k) < Modulus
       /\ \A h \in Heaps : Candidates(k, h) \subseteq {4 * Len(k.before)}

\* The first one.
Found(k, h) == CHOOSE n \in Candidates(k, h) : \A o \in Candidates(k, h) : n <= o

\* Seeded fault: the next tag is looked for at the preceding multiple of 8.
FaultyNextTag(n, size) == ((n + size) \div 8) * 8

\* i += tag->size, and up to a multiple of 8.
NextTag(n, size) ==
  LET m == n + size IN IF m % 8 = 0 THEN m ELSE (m \div 8) * 8 + 8

\* What a tag at position n puts into info.
Read(k, h, n, old) ==
  LET Field(f) == BufferWord(k, h, n + f)
  IN  CASE Field(0) = MULTIBOOT_TAG_TYPE_ADDRESS ->
             [header_off |-> old.header_off, header_addr |-> Field(8),
              load_addr |-> Field(12), load_end_addr |-> Field(16),
              bss_end_addr |-> Field(20), entry_addr |-> old.entry_addr]
        [] Field(0) = MULTIBOOT_TAG_TYPE_ENTRY -> [old EXCEPT !.entry_addr = Field(8)]
        [] OTHER -> old

LoaderInit ==
  /\ kernel \in Kernels
  /\ heap \in Heaps
  /\ i = 0
  /\ info \in {[f \in {"header_off", "header_addr", "load_addr", "load_end_addr",
                        "bss_end_addr", "entry_addr"} |-> u] : u \in Undefined}
  /\ image = [n \in GuestWords |-> Old]

NoHeader == Candidates(kernel, heap) = {}

\* The search ends at a header, and extract_multiboot2() begins.
FindHeader ==
  /\ ~NoHeader
  /\ info' = [info EXCEPT !.header_off = Found(kernel, heap)]
  /\ i' = 16
  /\ UNCHANGED <<kernel, heap, image>>

\* while (i < header->header_length)
MoreTags == i < BufferWord(kernel, heap, info.header_off + 8)

\* A tag that is read ends behind the memory that malloc() has given out.
BehindBuffer == info.header_off + i + 24 > SEARCH_ZONE_LEN

\* One turn of that loop.  A tag of size zero leaves i where it is.
ExtractTag ==
  /\ MoreTags
  /\ info' = Read(kernel, heap, info.header_off + i, info)
  /\ i' = NextTag(i, BufferWord(kernel, heap, info.header_off + i + 4))
  /\ UNCHANGED <<kernel, heap, image>>

-----------------------------------------------------------------------------
(* load_multiboot2()                                                       *)

\* Seeded fault: the image starts where the header does.
FaultyStart == info.header_off

\* Where the image begins in the file, a 32-bit number.
Start == (info.header_off - (info.header_addr - info.load_addr)) % Modulus

Length == (info.load_end_addr - info.load_addr) % Modulus

Bss == (info.bss_end_addr - info.load_end_addr) % Modulus

\* fread() of one item: none is read when it is empty or the file is short.
ShortFile == Length = 0 \/ Start + Length > Size(kernel)

\* The words that the copy and the clearing of the bss write.
Copied == {a \in 0 .. Modulus : a >= info.load_addr /\ a < info.load_addr + Length}
Cleared == {a \in 0 .. Modulus : a >= info.load_end_addr /\ a < info.load_end_addr + Bss}

\* What is written of that: of a short file no more than there is, and then
\* nothing is cleared.
Touched ==
  IF ShortFile
  THEN {a \in Copied : Start + (a - info.load_addr) < Size(kernel)}
  ELSE Copied \cup Cleared

\* No address is checked: the image may be copied over the monitor's own data,
\* which can be written until low memory is sealed.
OverMonitor == \E a \in Touched : a \div 4 \in MonitorWords

\* An address that has no memory: fread() fails or the process dies.
OutOfMemory == \E a \in Touched : a \div 4 \notin GuestWords \cup MonitorWords

LoadImage ==
  /\ ~ShortFile
  /\ ~OverMonitor /\ ~OutOfMemory
  /\ image' = [n \in GuestWords |->
                 CASE 4 * n \in Cleared -> 0
                   [] 4 * n \in Copied /\ 4 * n \notin Cleared ->
                        FileWord(kernel, Start + 4 * n - info.load_addr)
                   [] OTHER -> image[n]]
  /\ UNCHANGED <<kernel, heap, i, info>>

-----------------------------------------------------------------------------
(* What the kernel asks for, read off its parts.                           *)

HasTag(type) == \E n \in DOMAIN kernel.tags : kernel.tags[n].type = type

\* The last tag of a type counts.
LastTag(type) ==
  LET N == {n \in DOMAIN kernel.tags : kernel.tags[n].type = type}
  IN  kernel.tags[CHOOSE n \in N : \A m \in N : m <= n].body

\* The header is at the address that the address tag gives it, everything else
\* of the image is at the same distance from it as in the file, the bss is
\* clear, and nothing else has changed.  header_addr, load_addr, load_end_addr
\* and bss_end_addr are the first to the fourth word of the tag.
AsLinked ==
  LET tag == LastTag(MULTIBOOT_TAG_TYPE_ADDRESS)
      off == 4 * Len(kernel.before)
      Linked(n) == (4 * n - tag[1] + off) \div 4 + 1
  IN  \A n \in GuestWords :
        IF 4 * n >= tag[2] /\ 4 * n < tag[3]
        THEN /\ Linked(n) \in DOMAIN Image(kernel)
             /\ image[n] = Image(kernel)[Linked(n)]
        ELSE image[n] = IF 4 * n >= tag[3] /\ 4 * n < tag[4] THEN 0 ELSE Old
=============================================================================
