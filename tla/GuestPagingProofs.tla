-------------------------- MODULE GuestPagingProofs --------------------------
(***************************************************************************)
(* Proofs about GuestPaging, for every size of the pool, number of levels  *)
(* and set of addresses: the tables form a tree, addresses reach pages of  *)
(* their own, cached translations agree with the tables, no page leaks,    *)
(* and the whole implements AddressSpace.  All but the types rest on one   *)
(* condition, EvenData: the words that the program stores are even.        *)
(*                                                                         *)
(* First what Path and TablesAt, which recurse from the root down, amount  *)
(* to; then what a write to memory does to them; then the invariant, one   *)
(* lemma for each kind of step; last the properties and the refinement.    *)
(***************************************************************************)
EXTENDS GuestPaging, FiniteSetTheorems, WellFoundedInduction, TLAPS

(* Induction and recursion that go down from n to 0, as the walk of a tree  *)
(* goes down from the root.  The induction theorems of the library take a   *)
(* predicate; these take a set, so that they can be cited.                  *)

\* A set of naturals that is not empty has a least element.
LEMMA LeastOfNat ==
  ASSUME NEW T, T \subseteq Nat, T # {}
  PROVE  \E m \in T : \A k \in T : m <= k
<1> DEFINE R == {ss \in Nat \X Nat : ss[1] < ss[2]}
<1>1. IsWellFoundedOn(R, Nat)
  BY NatLessThanWellFounded DEF OpToRel
<1>2. PICK x \in T : \A y \in T : ~ (<<y, x>> \in R)
  <2> HIDE DEF R
  <2> QED BY <1>1, WFMin
<1>3. ASSUME NEW k \in T PROVE x <= k
  <2>1. <<k, x>> \notin R
    BY <1>2
  <2>2. <<k, x>> \in Nat \X Nat
    OBVIOUS
  <2>3. ~ (k < x)
    BY <2>1, <2>2
  <2> QED BY <2>3
<1> QED BY <1>3

\* What holds of n, and of l when it holds of l + 1, holds down to 0.
LEMMA DownInduction ==
  ASSUME NEW n \in Nat, NEW S, n \in S,
         \A l \in 0 .. n - 1 : l + 1 \in S => l \in S
  PROVE  \A l \in 0 .. n : l \in S
<1> DEFINE B == {k \in Nat : k <= n /\ n - k \notin S}
<1> SUFFICES ASSUME B # {} PROVE FALSE
  <2> SUFFICES ASSUME NEW l \in 0 .. n, l \notin S PROVE n - l \in B
    OBVIOUS
  <2>1. n - l \in Nat /\ n - l <= n /\ n - (n - l) = l
    OBVIOUS
  <2> QED BY <2>1
<1>1. PICK m \in B : \A k \in B : m <= k
  <2> B \subseteq Nat
    OBVIOUS
  <2> HIDE DEF B
  <2> QED BY LeastOfNat
<1>2. m # 0 /\ m \in Nat /\ m <= n /\ n - m \notin S
  <2>1. n - 0 = n
    OBVIOUS
  <2> QED BY <2>1
<1>3. m - 1 \in Nat /\ m - 1 <= n /\ m - 1 \notin B
  BY <1>1, <1>2
<1>4. n - (m - 1) \in S /\ n - (m - 1) = (n - m) + 1 /\ n - m \in 0 .. n - 1
  BY <1>2, <1>3
<1> QED BY <1>2, <1>4

\* t takes the value a at n, and at each l < n the value that H gives for l
\* and the value of t at l + 1.
Descends(t, n, D, a, H) ==
  /\ t \in [0 .. n -> D]
  /\ t[n] = a
  /\ \A l \in 0 .. n - 1 : t[l] = H[<<l, t[l + 1]>>]

\* Such a function exists.
LEMMA DownRecursion ==
  ASSUME NEW n \in Nat, NEW D, NEW a \in D, NEW H \in [(0 .. n) \X D -> D]
  PROVE  \E t : Descends(t, n, D, a, H)
<1> DEFINE From(k, t) == /\ t \in [k .. n -> D]
                         /\ t[n] = a
                         /\ \A l \in k .. n - 1 : t[l] = H[<<l, t[l + 1]>>]
           S == {k \in 0 .. n : \E t : From(k, t)}
<1>1. n \in S
  <2>1. From(n, [l \in n .. n |-> a])
    OBVIOUS
  <2> QED BY <2>1
<1>2. ASSUME NEW k \in 0 .. n - 1, k + 1 \in S PROVE k \in S
  <2>1. PICK t : From(k + 1, t)
    BY <1>2
  <2> DEFINE u == [l \in k .. n |-> IF l = k THEN H[<<k, t[k + 1]>>] ELSE t[l]]
  <2>2. t[k + 1] \in D /\ k \in 0 .. n /\ k # n
    BY <2>1
  <2>3. u \in [k .. n -> D]
    BY <2>1, <2>2
  <2>4. u[n] = a
    BY <2>1, <2>2
  <2>5. ASSUME NEW l \in k .. n - 1 PROVE u[l] = H[<<l, u[l + 1]>>]
    <3>1. u[l + 1] = t[l + 1]
      OBVIOUS
    <3>2. CASE l = k
      <4>1. u[l] = H[<<l, t[l + 1]>>]
        BY <3>2
      <4> HIDE DEF u
      <4> QED BY <4>1, <3>1
    <3>3. CASE l # k
      <4>1. l \in k + 1 .. n - 1 /\ u[l] = t[l]
        BY <3>3
      <4> QED BY <4>1, <3>1, <2>1
    <3> QED BY <3>2, <3>3
  <2>6. From(k, u)
    BY <2>3, <2>4, <2>5
  <2> QED BY <2>2, <2>6
<1>3. 0 \in S
  <2> HIDE DEF S
  <2> QED BY <1>1, <1>2, DownInduction
<1> QED BY <1>3 DEF Descends

-----------------------------------------------------------------------------
(* The recursive definitions.                                              *)

\* The level of the root.
Top == Levels - 1

MemType == mem \in [Frame -> [Idx -> Word]]

\* The recursion equation of Path(v).
IsPath(t, v) ==
  /\ t \in [0 .. Top -> Frame \cup {NoFrame}]
  /\ t[Top] = Root
  /\ \A l \in 0 .. Top - 1 : t[l] = Entries(t[l + 1], v[l + 1])

-----------------------------------------------------------------------------
\* The parts of the inductive invariant.  A table is at one level only.
LevelsApart == \A l, m \in 0 .. Top : l # m => TablesAt[l] \cap TablesAt[m] = {}

\* A table is reached by one entry only.
OneEntry == \A d, e \in Branches : mem[d[1]][d[2]].a = mem[e[1]][e[2]].a => d = e

\* A page in use is a data page or a table, and never both.
FramesSplit ==
  /\ used = owned \cup (Tables \ {Root})
  /\ owned \cap Tables = {}

\* A page that is no table holds no word that could be read as an entry: the
\* next table taken from the pool is therefore empty.
DataEven == \A f \in Frame \ Tables, i \in Idx : mem[f][i].p = 0

\* What an address translates to is a data page that a client holds.
WalksOwned == \A v \in VAddr : Walk(v) # NoFrame => Walk(v) \in owned

\* The loop of map_page() stands on the path of its address, which is not
\* mapped; the page that mmap() is about to map is clean and nobody's.
CallOnPath ==
  call.at = "map" =>
    /\ call.pgt = Path(call.v)[call.lvl]
    /\ Walk(call.v) = NoFrame
    /\ call.pa \in owned
    /\ call.zeroed => /\ mem[call.pa] = ZeroPage
                      /\ \A u \in VAddr : Walk(u) # call.pa

\* What holds until the pool is exhausted.
Sound ==
  /\ LevelsApart
  /\ OneEntry
  /\ FramesSplit
  /\ DataEven
  /\ WalksOwned
  /\ CallOnPath

\* The inductive invariant: after the exhaustion only the cached translations
\* matter, and they stay right.
IInv ==
  /\ TypeOK
  /\ TlbCoherent
  /\ call # BadFree
  /\ ~oom => Sound

-----------------------------------------------------------------------------
\* What the assumptions on the constants say of the frames and the levels.
LEMMA ConstantTypes ==
  /\ Top \in Nat /\ Top >= 1 /\ Top = Levels - 1 /\ Top \in 0 .. Top /\ 0 \in 0 .. Top
  /\ Root \in Frame /\ Root \notin Pool /\ Pool \subseteq Frame
  /\ Frame \subseteq Nat /\ 0 \in Frame /\ 0 \notin Pool /\ 0 # Root
  /\ NoFrame \notin Frame
  /\ VAddr \subseteq [0 .. Top -> Idx]
  /\ \A v \in VAddr, l \in 0 .. Top : v[l] \in Idx
  BY PagingAssumption DEF Top, Root, Frame, Pool

\* One step of the walk ends in a frame, or nowhere.
LEMMA EntriesType ==
  ASSUME MemType
  PROVE  \A f \in Frame \cup {NoFrame}, i \in Idx : Entries(f, i) \in Frame \cup {NoFrame}
  BY DEF Entries, Word, MemType

\* The walk to v satisfies its recursion equation.
LEMMA PathDef ==
  ASSUME MemType, NEW v \in VAddr
  PROVE  IsPath(Path(v), v)
<1> DEFINE D == Frame \cup {NoFrame}
           R(t) == [l \in 0 .. Levels - 1 |->
                      IF l = Levels - 1 THEN Root ELSE Entries(t[l + 1], v[l + 1])]
           H == [x \in (0 .. Top) \X D |-> IF x[1] = Top THEN Root ELSE Entries(x[2], v[x[1] + 1])]
<1>1. Top \in Nat /\ Top = Levels - 1 /\ Root \in D /\ \A l \in 0 .. Top : v[l] \in Idx
  BY ConstantTypes
<1>2. \A f \in D, i \in Idx : Entries(f, i) \in D
  BY EntriesType
<1>3. H \in [(0 .. Top) \X D -> D]
  <2> SUFFICES ASSUME NEW x \in (0 .. Top) \X D, x[1] # Top
               PROVE  Entries(x[2], v[x[1] + 1]) \in D
    BY <1>1
  <2>1. v[x[1] + 1] \in Idx
    BY <1>1
  <2> QED BY <2>1, <1>2
<1>4. \E t : Descends(t, Top, D, Root, H)
  <2> HIDE DEF H, D
  <2> QED BY <1>1, <1>3, DownRecursion
<1>5. PICK t : Descends(t, Top, D, Root, H)
  BY <1>4
<1>6. t = R(t)
  <2>1. ASSUME NEW l \in 0 .. Top - 1 PROVE t[l] = Entries(t[l + 1], v[l + 1])
    <3>1. l \in 0 .. Top /\ l # Top /\ t[l + 1] \in D
      BY <1>1, <1>5 DEF Descends
    <3>2. H[<<l, t[l + 1]>>] = Entries(t[l + 1], v[l + 1])
      BY <3>1
    <3> HIDE DEF H
    <3> QED BY <3>2, <1>5 DEF Descends
  <2> HIDE DEF H, D
  <2> QED BY <2>1, <1>5, <1>1 DEF Descends
<1>7. Path(v) = CHOOSE s : s = R(s)
  BY DEF Path
<1>8. Path(v) = R(Path(v))
  <2> HIDE DEF R
  <2> QED BY <1>6, <1>7
<1> DEFINE s == Path(v)
<1> HIDE DEF s
<1>9. /\ s[Top] = Root
      /\ \A l \in 0 .. Top - 1 : s[l] = Entries(s[l + 1], v[l + 1])
      /\ s = [l \in 0 .. Top |-> s[l]]
  <2>1. s = R(s)
    <3> HIDE DEF R
    <3> QED BY <1>8 DEF s
  <2>2. s = [l \in 0 .. Top |-> IF l = Top THEN Root ELSE Entries(s[l + 1], v[l + 1])]
    BY <2>1, <1>1
  <2>3. ASSUME NEW l \in 0 .. Top - 1 PROVE s[l] = Entries(s[l + 1], v[l + 1])
    <3>1. l \in 0 .. Top /\ l # Top
      BY <1>1
    <3> QED BY <3>1, <2>2
  <2>4. s[Top] = Root
    BY <2>2, <1>1
  <2>5. s = [l \in 0 .. Top |-> s[l]]
    BY <2>2
  <2> QED BY <2>3, <2>4, <2>5
<1>10. \A l \in 0 .. Top : l \in {k \in 0 .. Top : s[k] \in D}
  <2> DEFINE S == {k \in 0 .. Top : s[k] \in D}
  <2>1. Top \in S
    BY <1>1, <1>9
  <2>2. \A l \in 0 .. Top - 1 : l + 1 \in S => l \in S
    <3> SUFFICES ASSUME NEW l \in 0 .. Top - 1, s[l + 1] \in D PROVE s[l] \in D
      BY <1>1
    <3>1. s[l] = Entries(s[l + 1], v[l + 1])
      BY <1>9
    <3>2. v[l + 1] \in Idx
      BY <1>1
    <3> HIDE DEF D
    <3> QED BY <3>1, <3>2, <1>2
  <2> HIDE DEF S
  <2>3. \A l \in 0 .. Top : l \in S
    BY <1>1, <2>1, <2>2, DownInduction
  <2> QED BY <2>3 DEF S
<1>11. s \in [0 .. Top -> D]
  BY <1>9, <1>10
<1> QED BY <1>9, <1>11 DEF IsPath, s

-----------------------------------------------------------------------------
\* The tables that the entries of the tables of S lead to.
Below(S) == {mem[e[1]][e[2]].a : e \in {d \in S \X Idx : mem[d[1]][d[2]].p = 1}}

\* The recursion equation of TablesAt.
IsTables(t) ==
  /\ t \in [0 .. Top -> SUBSET Frame]
  /\ t[Top] = {Root}
  /\ \A l \in 0 .. Top - 1 : t[l] = Below(t[l + 1])

\* Tables lead to frames.
LEMMA BelowType ==
  ASSUME MemType
  PROVE  \A S \in SUBSET Frame : Below(S) \in SUBSET Frame
<1> SUFFICES ASSUME NEW S \in SUBSET Frame, NEW e \in S \X Idx PROVE mem[e[1]][e[2]].a \in Frame
  BY DEF Below
<1>1. e[1] \in Frame /\ e[2] \in Idx
  OBVIOUS
<1> QED BY <1>1 DEF Word, MemType

\* A frame lies below S if an entry of a table of S that is present names it.
LEMMA BelowMembers ==
  ASSUME NEW S, NEW g
  PROVE  g \in Below(S) <=> \E f \in S, i \in Idx : mem[f][i].p = 1 /\ g = mem[f][i].a
<1>1. ASSUME g \in Below(S) PROVE \E f \in S, i \in Idx : mem[f][i].p = 1 /\ g = mem[f][i].a
  <2>1. PICK e \in S \X Idx : mem[e[1]][e[2]].p = 1 /\ g = mem[e[1]][e[2]].a
    BY <1>1 DEF Below
  <2>2. e[1] \in S /\ e[2] \in Idx
    OBVIOUS
  <2> QED BY <2>1, <2>2
<1>2. ASSUME NEW f \in S, NEW i \in Idx, mem[f][i].p = 1, g = mem[f][i].a PROVE g \in Below(S)
  <2>1. <<f, i>> \in S \X Idx /\ <<f, i>>[1] = f /\ <<f, i>>[2] = i
    OBVIOUS
  <2>2. <<f, i>> \in {d \in S \X Idx : mem[d[1]][d[2]].p = 1}
    BY <2>1, <1>2
  <2> QED BY <2>1, <2>2, <1>2 DEF Below
<1> QED BY <1>1, <1>2

\* The tables of the levels satisfy their recursion equation.
LEMMA TablesDef ==
  ASSUME MemType
  PROVE  IsTables(TablesAt)
<1> DEFINE D == SUBSET Frame
           R(t) == [l \in 0 .. Levels - 1 |-> IF l = Levels - 1 THEN {Root} ELSE Below(t[l + 1])]
           H == [x \in (0 .. Top) \X D |-> Below(x[2])]
<1>1. Top \in Nat /\ Top = Levels - 1 /\ Top \in 0 .. Top /\ {Root} \in D
  BY ConstantTypes
<1>2. \A S \in D : Below(S) \in D
  BY BelowType
<1>3. H \in [(0 .. Top) \X D -> D]
  <2> SUFFICES ASSUME NEW x \in (0 .. Top) \X D PROVE Below(x[2]) \in D
    OBVIOUS
  <2>1. x[2] \in D
    OBVIOUS
  <2> HIDE DEF D
  <2> QED BY <2>1, <1>2
<1>4. PICK t : Descends(t, Top, D, {Root}, H)
  <2> HIDE DEF H, D
  <2> QED BY <1>1, <1>3, DownRecursion
<1>5. t = R(t)
  <2>1. ASSUME NEW l \in 0 .. Top - 1 PROVE t[l] = Below(t[l + 1])
    <3>1. l \in 0 .. Top /\ l # Top /\ t[l + 1] \in D
      BY <1>1, <1>4 DEF Descends
    <3>2. H[<<l, t[l + 1]>>] = Below(t[l + 1])
      BY <3>1
    <3> HIDE DEF H
    <3> QED BY <3>2, <1>4 DEF Descends
  <2> HIDE DEF H, D
  <2> QED BY <2>1, <1>4, <1>1 DEF Descends
<1>6. TablesAt = CHOOSE s : s = R(s)
  BY DEF TablesAt, Below
<1>7. TablesAt = R(TablesAt)
  <2> HIDE DEF R
  <2> QED BY <1>5, <1>6
<1> DEFINE s == TablesAt
<1> HIDE DEF s
<1>8. /\ s[Top] = {Root}
      /\ \A l \in 0 .. Top - 1 : s[l] = Below(s[l + 1])
      /\ s = [l \in 0 .. Top |-> s[l]]
  <2>1. s = R(s)
    <3> HIDE DEF R
    <3> QED BY <1>7 DEF s
  <2>2. s = [l \in 0 .. Top |-> IF l = Top THEN {Root} ELSE Below(s[l + 1])]
    BY <2>1, <1>1
  <2>3. ASSUME NEW l \in 0 .. Top - 1 PROVE s[l] = Below(s[l + 1])
    <3>1. l \in 0 .. Top /\ l # Top
      BY <1>1
    <3> QED BY <3>1, <2>2
  <2>4. s[Top] = {Root}
    BY <2>2, <1>1
  <2>5. s = [l \in 0 .. Top |-> s[l]]
    BY <2>2
  <2> QED BY <2>3, <2>4, <2>5
<1>9. \A l \in 0 .. Top : s[l] \in D
  <2> DEFINE S == {k \in 0 .. Top : s[k] \in D}
  <2>1. Top \in S
    <3> HIDE DEF D
    <3> QED BY <1>1, <1>8
  <2>2. \A l \in 0 .. Top - 1 : l + 1 \in S => l \in S
    <3> SUFFICES ASSUME NEW l \in 0 .. Top - 1, s[l + 1] \in D PROVE s[l] \in D
      BY <1>1
    <3>1. s[l] = Below(s[l + 1])
      BY <1>8
    <3> HIDE DEF D
    <3> QED BY <3>1, <1>2
  <2> HIDE DEF S
  <2>3. \A l \in 0 .. Top : l \in S
    BY <1>1, <2>1, <2>2, DownInduction
  <2> QED BY <2>3 DEF S
<1>10. s \in [0 .. Top -> D]
  BY <1>8, <1>9
<1> QED BY <1>8, <1>10 DEF IsTables, s

\* A table is a table of some level.
LEMMA TablesMembers ==
  ASSUME MemType
  PROVE  /\ Tables \subseteq Frame
         /\ \A f : f \in Tables <=> \E l \in 0 .. Top : f \in TablesAt[l]
<1>1. IsTables(TablesAt)
  BY TablesDef
<1>2. Range(TablesAt) = {TablesAt[l] : l \in 0 .. Top}
  BY <1>1 DEF IsTables, Range
<1> QED BY <1>1, <1>2 DEF Tables, IsTables

\* A branch is a present entry of a table that is not of the last level.
LEMMA BranchesMembers ==
  ASSUME MemType
  PROVE  \A f, i : <<f, i>> \in Branches
            <=> i \in Idx /\ mem[f][i].p = 1 /\ \E l \in 1 .. Top : f \in TablesAt[l]
<1> SUFFICES ASSUME NEW f, NEW i
             PROVE <<f, i>> \in Branches
                     <=> i \in Idx /\ mem[f][i].p = 1 /\ \E l \in 1 .. Top : f \in TablesAt[l]
  OBVIOUS
<1>1. f \in UNION {TablesAt[l] : l \in 1 .. Levels - 1} <=> \E l \in 1 .. Top : f \in TablesAt[l]
  BY DEF Top
<1>2. <<f, i>>[1] = f /\ <<f, i>>[2] = i
  OBVIOUS
<1> QED BY <1>1, <1>2 DEF Branches

-----------------------------------------------------------------------------
\* The table of each level on the way to an address is a table of that level.
LEMMA PathInTables ==
  ASSUME MemType, NEW v \in VAddr
  PROVE  \A l \in 0 .. Top : Path(v)[l] # NoFrame => Path(v)[l] \in TablesAt[l]
<1> DEFINE S == {l \in 0 .. Top : Path(v)[l] # NoFrame => Path(v)[l] \in TablesAt[l]}
<1>1. Top \in Nat /\ Top \in 0 .. Top
  BY ConstantTypes
<1>2. IsPath(Path(v), v) /\ IsTables(TablesAt)
  BY PathDef, TablesDef DEF MemType
<1>3. Top \in S
  BY <1>1, <1>2 DEF IsPath, IsTables
<1>4. ASSUME NEW l \in 0 .. Top - 1, l + 1 \in S PROVE l \in S
  <2> SUFFICES ASSUME Path(v)[l] # NoFrame PROVE Path(v)[l] \in TablesAt[l]
    BY <1>1
  <2>1. Path(v)[l] = Entries(Path(v)[l + 1], v[l + 1]) /\ TablesAt[l] = Below(TablesAt[l + 1])
    BY <1>2 DEF IsPath, IsTables
  <2>2. /\ Path(v)[l + 1] # NoFrame
        /\ mem[Path(v)[l + 1]][v[l + 1]].p = 1
        /\ Path(v)[l] = mem[Path(v)[l + 1]][v[l + 1]].a
    BY <2>1 DEF Entries
  <2>3. Path(v)[l + 1] \in TablesAt[l + 1] /\ v[l + 1] \in Idx
    BY <1>4, <2>2, ConstantTypes
  <2> QED BY <2>1, <2>2, <2>3, BelowMembers
<1> HIDE DEF S
<1>5. \A l \in 0 .. Top : l \in S
  BY <1>1, <1>3, <1>4, DownInduction
<1> QED BY <1>5 DEF S

\* What an address that translates rests on: a last table, and a present
\* entry of it.
LEMMA WalkEntry ==
  ASSUME MemType, NEW v \in VAddr
  PROVE  /\ Walk(v) \in Frame \cup {NoFrame}
         /\ LeafTable(v) \in Frame \cup {NoFrame}
         /\ LeafTable(v) # NoFrame => LeafTable(v) \in TablesAt[0] /\ LeafTable(v) \in Tables
         /\ Walk(v) # NoFrame => /\ LeafTable(v) # NoFrame
                                 /\ mem[LeafTable(v)][v[0]].p = 1
                                 /\ Walk(v) = mem[LeafTable(v)][v[0]].a
<1>1. IsPath(Path(v), v) /\ v[0] \in Idx /\ 0 \in 0 .. Top
  BY PathDef, ConstantTypes DEF MemType
<1>2. LeafTable(v) \in Frame \cup {NoFrame}
  BY <1>1 DEF IsPath, LeafTable
<1>3. Walk(v) \in Frame \cup {NoFrame}
  BY <1>1, <1>2, EntriesType DEF Walk, MemType
<1>4. LeafTable(v) # NoFrame => LeafTable(v) \in TablesAt[0] /\ LeafTable(v) \in Tables
  BY <1>1, PathInTables, TablesMembers DEF LeafTable, MemType
<1> QED BY <1>2, <1>3, <1>4 DEF Walk, Entries

\* Two addresses share a table only if they share all indices above it.
LEMMA PathInjective ==
  ASSUME MemType, OneEntry, NEW u \in VAddr, NEW v \in VAddr,
         LeafTable(u) = LeafTable(v), LeafTable(v) # NoFrame, u[0] = v[0]
  PROVE  u = v
<1> DEFINE Same(l) == Path(u)[l] = Path(v)[l] /\ Path(v)[l] # NoFrame
           S == {l \in 0 .. Top : Same(l) => \A k \in l + 1 .. Top : u[k] = v[k]}
<1>1. Top \in Nat /\ Top \in 0 .. Top
  BY ConstantTypes
<1>2. IsPath(Path(u), u) /\ IsPath(Path(v), v)
  BY PathDef DEF MemType
<1>3. Top \in S
  BY <1>1
<1>4. ASSUME NEW l \in 0 .. Top - 1, l + 1 \in S PROVE l \in S
  <2> SUFFICES ASSUME Same(l) PROVE \A k \in l + 1 .. Top : u[k] = v[k]
    BY <1>1
  <2>0. l + 1 \in 1 .. Top /\ l + 1 \in 0 .. Top /\ u[l + 1] \in Idx /\ v[l + 1] \in Idx
    BY ConstantTypes
  <2>1. /\ Path(u)[l] = Entries(Path(u)[l + 1], u[l + 1])
        /\ Path(v)[l] = Entries(Path(v)[l + 1], v[l + 1])
    BY <1>2 DEF IsPath
  <2> DEFINE d == <<Path(u)[l + 1], u[l + 1]>>
             e == <<Path(v)[l + 1], v[l + 1]>>
  <2>2. /\ Path(u)[l + 1] # NoFrame /\ mem[d[1]][d[2]].p = 1 /\ Path(u)[l] = mem[d[1]][d[2]].a
        /\ Path(v)[l + 1] # NoFrame /\ mem[e[1]][e[2]].p = 1 /\ Path(v)[l] = mem[e[1]][e[2]].a
    BY <2>1 DEF Entries
  <2>3. Path(u)[l + 1] \in TablesAt[l + 1] /\ Path(v)[l + 1] \in TablesAt[l + 1]
    BY <2>0, <2>2, PathInTables
  <2>4. d \in Branches /\ e \in Branches
    BY <2>0, <2>2, <2>3, BranchesMembers DEF MemType
  <2>5. d = e
    <3> HIDE DEF d, e
    <3> QED BY <2>2, <2>4 DEF OneEntry
  <2>6. Same(l + 1) /\ u[l + 1] = v[l + 1]
    BY <2>5, <2>2
  <2>7. \A k \in l + 2 .. Top : u[k] = v[k]
    BY <1>4, <2>6, <2>0
  <2> QED BY <2>6, <2>7
<1> HIDE DEF S
<1>5. \A l \in 0 .. Top : l \in S
  BY <1>1, <1>3, <1>4, DownInduction
<1>6. \A k \in 1 .. Top : u[k] = v[k]
  <2>1. 0 \in S /\ Same(0)
    BY <1>1, <1>5 DEF LeafTable
  <2> QED BY <2>1 DEF S
<1>7. \A k \in 0 .. Top : u[k] = v[k]
  BY <1>6
<1> QED BY <1>7, ConstantTypes

-----------------------------------------------------------------------------
\* The facts above together, to be used of a state and of the next.
Tree ==
  /\ TablesAt \in [0 .. Top -> SUBSET Frame]
  /\ TablesAt[Top] = {Root}
  /\ \A l \in 0 .. Top - 1 : \A g : g \in TablesAt[l] <=>
       \E f \in TablesAt[l + 1], i \in Idx : mem[f][i].p = 1 /\ g = mem[f][i].a
  /\ Tables \subseteq Frame
  /\ \A f : f \in Tables <=> \E l \in 0 .. Top : f \in TablesAt[l]
  /\ \A f, i : <<f, i>> \in Branches
       <=> i \in Idx /\ mem[f][i].p = 1 /\ \E l \in 1 .. Top : f \in TablesAt[l]
  /\ \A v \in VAddr :
       /\ Path(v) \in [0 .. Top -> Frame \cup {NoFrame}]
       /\ Path(v)[Top] = Root
       /\ \A l \in 0 .. Top - 1 : Path(v)[l] = Entries(Path(v)[l + 1], v[l + 1])
       /\ \A l \in 0 .. Top : Path(v)[l] # NoFrame => Path(v)[l] \in TablesAt[l]

\* They hold whenever memory has its type.
LEMMA TreeHolds == MemType => Tree
<1> SUFFICES ASSUME MemType PROVE Tree
  OBVIOUS
<1>1. IsTables(TablesAt)
  BY TablesDef DEF MemType
<1>2. \A l \in 0 .. Top - 1 : \A g : g \in TablesAt[l] <=>
       \E f \in TablesAt[l + 1], i \in Idx : mem[f][i].p = 1 /\ g = mem[f][i].a
  BY <1>1, BelowMembers DEF IsTables
<1>3. \A v \in VAddr : IsPath(Path(v), v)
  BY PathDef DEF MemType
<1>4. \A v \in VAddr, l \in 0 .. Top : Path(v)[l] # NoFrame => Path(v)[l] \in TablesAt[l]
  BY PathInTables
<1>5. Tables \subseteq Frame /\ \A f : f \in Tables <=> \E l \in 0 .. Top : f \in TablesAt[l]
  BY TablesMembers DEF MemType
<1>6. \A f, i : <<f, i>> \in Branches
       <=> i \in Idx /\ mem[f][i].p = 1 /\ \E l \in 1 .. Top : f \in TablesAt[l]
  BY BranchesMembers DEF MemType
<1> QED BY <1>1, <1>2, <1>3, <1>4, <1>5, <1>6 DEF Tree, IsTables, IsPath

\* They hold of the next state too.
LEMMA TreeHoldsNext == MemType' => Tree'
  BY TreeHolds, PTL

\* A write that spares the upper tables changes neither tables nor paths.
LEMMA SameTables ==
  ASSUME MemType, MemType',
         \A l \in 1 .. Top : \A f \in TablesAt[l] : mem'[f] = mem[f]
  PROVE  /\ TablesAt' = TablesAt
         /\ Tables' = Tables
         /\ Branches' = Branches
         /\ \A v \in VAddr : Path(v)' = Path(v)
<1>0. Top \in Nat /\ Top \in 0 .. Top
  BY ConstantTypes
<1>1. Tree /\ Tree'
  BY TreeHolds, TreeHoldsNext
<1>2. TablesAt' = TablesAt
  <2> DEFINE S == {l \in 0 .. Top : TablesAt'[l] = TablesAt[l]}
  <2>1. Top \in S
    BY <1>0, <1>1 DEF Tree
  <2>2. ASSUME NEW l \in 0 .. Top - 1, l + 1 \in S PROVE l \in S
    <3>1. \A f \in TablesAt[l + 1] : mem'[f] = mem[f]
      BY <1>0
    <3>2. ASSUME NEW g PROVE g \in TablesAt'[l] <=> g \in TablesAt[l]
      BY <1>1, <2>2, <3>1 DEF Tree
    <3>3. TablesAt'[l] = TablesAt[l]
      <4>1. TablesAt'[l] \subseteq Frame /\ TablesAt[l] \subseteq Frame
        BY <1>1, <1>0 DEF Tree
      <4> QED BY <3>2, <4>1
    <3> QED BY <3>3, <1>0
  <2> HIDE DEF S
  <2>3. \A l \in 0 .. Top : l \in S
    BY <1>0, <2>1, <2>2, DownInduction
  <2>4. TablesAt = [l \in 0 .. Top |-> TablesAt[l]] /\ TablesAt' = [l \in 0 .. Top |-> TablesAt'[l]]
    BY <1>1 DEF Tree
  <2> QED BY <2>3, <2>4 DEF S
<1>3. Tables' = Tables
  BY <1>1, <1>2 DEF Tree
<1>4. Branches' = Branches
  <2>1. ASSUME NEW e \in (UNION {TablesAt[l] : l \in 1 .. Levels - 1}) \X Idx
        PROVE  mem'[e[1]] = mem[e[1]]
    <3>1. PICK l \in 1 .. Top : e[1] \in TablesAt[l]
      BY DEF Top
    <3> QED BY <3>1
  <2> DEFINE B == (UNION {TablesAt[l] : l \in 1 .. Levels - 1}) \X Idx
  <2>2. Branches = {e \in B : mem[e[1]][e[2]].p = 1}
    BY DEF Branches
  <2>3. Branches' = {e \in B : mem'[e[1]][e[2]].p = 1}
    BY <1>2 DEF Branches
  <2> HIDE DEF B
  <2>4. \A e \in B : mem'[e[1]] = mem[e[1]]
    BY <2>1 DEF B
  <2> QED BY <2>2, <2>3, <2>4
<1>5. ASSUME NEW v \in VAddr PROVE Path(v)' = Path(v)
  <2> DEFINE S == {l \in 0 .. Top : Path(v)'[l] = Path(v)[l]}
  <2>1. Top \in S
    BY <1>0, <1>1 DEF Tree
  <2>2. ASSUME NEW l \in 0 .. Top - 1, l + 1 \in S PROVE l \in S
    <3>1. /\ Path(v)[l] = Entries(Path(v)[l + 1], v[l + 1])
          /\ Path(v)'[l] = Entries(Path(v)[l + 1], v[l + 1])'
      BY <1>1 DEF Tree
    <3>2. l + 1 \in 1 .. Top /\ l + 1 \in 0 .. Top /\ Path(v)'[l + 1] = Path(v)[l + 1]
      BY <1>0, <2>2
    <3>3. Path(v)[l + 1] # NoFrame => mem'[Path(v)[l + 1]] = mem[Path(v)[l + 1]]
      BY <1>1, <3>2 DEF Tree
    <3>4. Path(v)'[l] = Path(v)[l]
      BY <3>1, <3>2, <3>3 DEF Entries
    <3> QED BY <1>0, <3>2, <3>4
  <2> HIDE DEF S
  <2>3. \A l \in 0 .. Top : l \in S
    BY <1>0, <2>1, <2>2, DownInduction
  <2>5. Path(v) = [l \in 0 .. Top |-> Path(v)[l]] /\ Path(v)' = [l \in 0 .. Top |-> Path(v)'[l]]
    BY <1>1 DEF Tree
  <2> QED BY <2>3, <2>5 DEF S
<1> QED BY <1>2, <1>3, <1>4, <1>5

\* Present entries that stay, stay translations.
LEMMA Grow ==
  ASSUME MemType, MemType',
         \A f \in Frame, i \in Idx : mem[f][i].p = 1 => mem'[f][i] = mem[f][i],
         NEW v \in VAddr
  PROVE  /\ \A l \in 0 .. Top : Path(v)[l] # NoFrame => Path(v)'[l] = Path(v)[l]
         /\ Walk(v) # NoFrame => Walk(v)' = Walk(v)
<1>0. Top \in Nat /\ Top \in 0 .. Top /\ 0 \in 0 .. Top /\ NoFrame \notin Frame
  BY ConstantTypes
<1>1. Tree /\ Tree'
  BY TreeHolds, TreeHoldsNext
<1> DEFINE S == {l \in 0 .. Top : Path(v)[l] # NoFrame => Path(v)'[l] = Path(v)[l]}
<1>2. Top \in S
  BY <1>0, <1>1 DEF Tree
<1>3. \A f \in Frame \cup {NoFrame}, i \in Idx :
        Entries(f, i) # NoFrame => Entries(f, i)' = Entries(f, i)
  BY DEF Entries
<1>4. ASSUME NEW l \in 0 .. Top - 1, l + 1 \in S PROVE l \in S
  <2> SUFFICES ASSUME Path(v)[l] # NoFrame PROVE Path(v)'[l] = Path(v)[l]
    BY <1>0
  <2>1. l + 1 \in 0 .. Top
    BY <1>0
  <2>2. Path(v)[l + 1] \in Frame \cup {NoFrame} /\ v[l + 1] \in Idx
    <3>1. Path(v) \in [0 .. Top -> Frame \cup {NoFrame}]
      BY <1>1 DEF Tree
    <3> QED BY <2>1, <3>1, ConstantTypes
  <2>3. /\ Path(v)[l] = Entries(Path(v)[l + 1], v[l + 1])
        /\ Path(v)'[l] = Entries(Path(v)[l + 1], v[l + 1])'
    BY <1>1 DEF Tree
  <2>4. Path(v)'[l + 1] = Path(v)[l + 1]
    BY <1>4, <2>1, <2>3 DEF Entries
  <2> QED BY <2>2, <2>3, <2>4, <1>3 DEF Entries
<1> HIDE DEF S
<1>5. \A l \in 0 .. Top : l \in S
  BY <1>0, <1>2, <1>4, DownInduction
<1>6. Walk(v) # NoFrame => Walk(v)' = Walk(v)
  <2>1. LeafTable(v) \in Frame \cup {NoFrame} /\ v[0] \in Idx
    BY <1>0, WalkEntry, ConstantTypes
  <2>2. LeafTable(v) # NoFrame => LeafTable(v)' = LeafTable(v)
    BY <1>0, <1>5 DEF S, LeafTable
  <2> QED BY <2>1, <2>2, <1>3 DEF Walk, Entries
<1> QED BY <1>5, <1>6 DEF S

\* map_page() hangs an empty page below an entry that was clear: one table
\* more, one level down, and no address translates otherwise.
LEMMA NewTable ==
  ASSUME MemType, MemType', LevelsApart, OneEntry,
         NEW k \in 1 .. Top, NEW g \in TablesAt[k], NEW i \in Idx,
         NEW f \in Frame \ Tables,
         mem[g][i].p = 0, \A j \in Idx : mem[f][j].p = 0,
         mem' = [mem EXCEPT ![g][i] = Entry(f)]
  PROVE  /\ Tables' = Tables \cup {f}
         /\ LevelsApart' /\ OneEntry'
         /\ \A v \in VAddr : Walk(v)' = Walk(v)
         /\ \A v \in VAddr, l \in 0 .. Top : Path(v)[l] # NoFrame => Path(v)'[l] = Path(v)[l]
<1>0. Top \in Nat /\ Top \in 0 .. Top /\ 0 \in 0 .. Top /\ NoFrame \notin Frame
  BY ConstantTypes
<1>1. Tree /\ Tree'
  BY TreeHolds, TreeHoldsNext
<1>2. g \in Frame /\ g \in Tables /\ f # g /\ k \in 0 .. Top /\ k - 1 \in 0 .. Top
  <2>1. k \in 0 .. Top /\ k - 1 \in 0 .. Top
    BY <1>0
  <2>2. g \in Tables
    BY <2>1, <1>1 DEF Tree
  <2> QED BY <2>1, <2>2, <1>1 DEF Tree
<1>3. \A h \in Frame, j \in Idx :
        mem'[h][j] = IF h = g /\ j = i THEN Entry(f) ELSE mem[h][j]
  BY <1>2 DEF MemType
<1>4. Entry(f).p = 1 /\ Entry(f).a = f
  BY DEF Entry
<1>5. \A l \in 0 .. Top : f \notin TablesAt[l]
  BY <1>1 DEF Tree
<1>6. \A l \in 0 .. Top : l # k => g \notin TablesAt[l]
  BY <1>2 DEF LevelsApart
<1>7. \A l \in 0 .. Top : TablesAt'[l] = IF l = k - 1 THEN TablesAt[l] \cup {f} ELSE TablesAt[l]
  <2> DEFINE S == {l \in 0 .. Top : TablesAt'[l] = IF l = k - 1 THEN TablesAt[l] \cup {f}
                                                               ELSE TablesAt[l]}
  <2>1. Top \in S
    <3>1. TablesAt'[Top] = TablesAt[Top] /\ Top # k - 1
      BY <1>0, <1>1 DEF Tree
    <3> QED BY <1>0, <3>1
  <2>2. ASSUME NEW l \in 0 .. Top - 1, l + 1 \in S PROVE l \in S
    <3>1. l \in 0 .. Top /\ l + 1 \in 0 .. Top
      BY <1>0
    <3>2. TablesAt[l + 1] \subseteq Frame /\ TablesAt'[l + 1] \subseteq Frame
      BY <3>1, <1>1 DEF Tree
    <3>3. /\ \A h : h \in TablesAt[l] <=>
                \E x \in TablesAt[l + 1], j \in Idx : mem[x][j].p = 1 /\ h = mem[x][j].a
          /\ \A h : h \in TablesAt'[l] <=>
                \E x \in TablesAt'[l + 1], j \in Idx : mem'[x][j].p = 1 /\ h = mem'[x][j].a
      BY <1>1 DEF Tree
    <3>4. CASE l = k - 1
      <4>1. TablesAt'[l + 1] = TablesAt[l + 1] /\ g \in TablesAt[l + 1]
        BY <2>2, <3>4
      <4>2. \A h : h \in TablesAt'[l] <=> h = f \/ h \in TablesAt[l]
        <5>1. ASSUME NEW h, h \in TablesAt'[l] PROVE h = f \/ h \in TablesAt[l]
          BY <5>1, <4>1, <3>2, <3>3, <1>3, <1>4
        <5>2. f \in TablesAt'[l]
          BY <4>1, <3>2, <3>3, <1>3, <1>4
        <5>3. ASSUME NEW h, h \in TablesAt[l] PROVE h \in TablesAt'[l]
          <6>1. PICK x \in TablesAt[l + 1], j \in Idx : mem[x][j].p = 1 /\ h = mem[x][j].a
            BY <5>3, <3>3
          <6>2. mem'[x][j] = mem[x][j]
            BY <6>1, <3>2, <1>3
          <6> QED BY <6>1, <6>2, <4>1, <3>3
        <5> QED BY <5>1, <5>2, <5>3
      <4>3. TablesAt'[l] = TablesAt[l] \cup {f}
        BY <4>2
      <4> QED BY <4>3, <3>1, <3>4
    <3>5. CASE l # k - 1
      <4>1. g \notin TablesAt[l + 1]
        BY <3>1, <3>5, <1>2, <1>6
      <4>2. \A x \in TablesAt[l + 1], j \in Idx : mem'[x][j] = mem[x][j]
        BY <4>1, <3>2, <1>3
      <4>3. \A j \in Idx : mem'[f][j].p = 0
        BY <1>2, <1>3
      <4>4. \A x : x \in TablesAt'[l + 1] => x = f \/ x \in TablesAt[l + 1]
        BY <2>2
      <4>5. TablesAt[l + 1] \subseteq TablesAt'[l + 1]
        BY <2>2
      <4>6. \A h : h \in TablesAt'[l] <=> h \in TablesAt[l]
        <5>1. ASSUME NEW h, h \in TablesAt'[l] PROVE h \in TablesAt[l]
          <6>1. PICK x \in TablesAt'[l + 1], j \in Idx : mem'[x][j].p = 1 /\ h = mem'[x][j].a
            BY <5>1, <3>3
          <6>2. x \in TablesAt[l + 1]
            BY <6>1, <4>3, <4>4
          <6> QED BY <6>1, <6>2, <4>2, <3>3
        <5>2. ASSUME NEW h, h \in TablesAt[l] PROVE h \in TablesAt'[l]
          <6>1. PICK x \in TablesAt[l + 1], j \in Idx : mem[x][j].p = 1 /\ h = mem[x][j].a
            BY <5>2, <3>3
          <6> QED BY <6>1, <4>2, <4>5, <3>3
        <5> QED BY <5>1, <5>2
      <4>7. TablesAt'[l] = TablesAt[l]
        BY <4>6
      <4> QED BY <4>7, <3>1, <3>5
    <3> QED BY <3>4, <3>5
  <2> HIDE DEF S
  <2>3. \A l \in 0 .. Top : l \in S
    BY <1>0, <2>1, <2>2, DownInduction
  <2> QED BY <2>3 DEF S
<1>8. Tables' = Tables \cup {f}
  <2>1. /\ \A h : h \in Tables <=> \E l \in 0 .. Top : h \in TablesAt[l]
        /\ \A h : h \in Tables' <=> \E l \in 0 .. Top : h \in TablesAt'[l]
    BY <1>1 DEF Tree
  <2>2. \A h : h \in Tables' <=> h = f \/ h \in Tables
    <3>1. ASSUME NEW h, h \in Tables' PROVE h = f \/ h \in Tables
      <4>1. PICK l \in 0 .. Top : h \in TablesAt'[l]
        BY <3>1, <2>1
      <4>2. h = f \/ h \in TablesAt[l]
        BY <4>1, <1>7
      <4> QED BY <4>2, <2>1
    <3>2. ASSUME NEW h, h \in Tables PROVE h \in Tables'
      BY <3>2, <2>1, <1>7
    <3>3. f \in TablesAt'[k - 1]
      BY <1>2, <1>7
    <3>4. f \in Tables'
      BY <3>3, <2>1, <1>2
    <3> QED BY <3>1, <3>2, <3>4
  <2> QED BY <2>2
<1>9. LevelsApart'
  <2> SUFFICES ASSUME NEW l \in 0 .. Top, NEW m \in 0 .. Top, l # m, NEW h,
                      h \in TablesAt'[l], h \in TablesAt'[m]
               PROVE  FALSE
    BY DEF LevelsApart
  <2>1. CASE h = f
    <3>1. l = k - 1 /\ m = k - 1
      BY <2>1, <1>5, <1>7
    <3> QED BY <3>1
  <2>2. CASE h # f
    <3>1. h \in TablesAt[l] /\ h \in TablesAt[m]
      BY <2>2, <1>7
    <3> QED BY <3>1 DEF LevelsApart
  <2> QED BY <2>1, <2>2
<1>10. OneEntry'
  <2> SUFFICES ASSUME NEW d \in Branches', NEW e \in Branches',
                      mem'[d[1]][d[2]].a = mem'[e[1]][e[2]].a
               PROVE  d = e
    BY DEF OneEntry
  <2>1. \A x, j : <<x, j>> \in Branches' =>
          \/ x = g /\ j = i
          \/ /\ <<x, j>> \in Branches /\ mem'[x][j] = mem[x][j] /\ mem[x][j].a # f
    <3> SUFFICES ASSUME NEW x, NEW j, <<x, j>> \in Branches', ~ (x = g /\ j = i)
                 PROVE <<x, j>> \in Branches /\ mem'[x][j] = mem[x][j] /\ mem[x][j].a # f
      OBVIOUS
    <3>1. PICK l \in 1 .. Top : x \in TablesAt'[l] /\ j \in Idx /\ mem'[x][j].p = 1
      BY <1>1 DEF Tree
    <3>2. l \in 0 .. Top /\ l - 1 \in 0 .. Top - 1 /\ (l - 1) + 1 = l /\ l - 1 \in 0 .. Top
      BY <1>0
    <3>3. x \in TablesAt[l] \/ x = f
      BY <3>1, <3>2, <1>7
    <3>4. x \in Frame /\ mem'[x][j] = mem[x][j]
      <4>1. TablesAt'[l] \subseteq Frame
        BY <3>2, <1>1 DEF Tree
      <4> QED BY <4>1, <3>1, <1>3
    <3>5. x \in TablesAt[l]
      BY <3>1, <3>3, <3>4
    <3>6. mem[x][j].a \in TablesAt[l - 1]
      BY <3>1, <3>2, <3>4, <3>5, <1>1 DEF Tree
    <3>7. mem[x][j].a # f
      BY <3>2, <3>6, <1>5
    <3>8. <<x, j>> \in Branches
      BY <3>1, <3>4, <3>5, <1>1 DEF Tree
    <3> QED BY <3>4, <3>7, <3>8
  <2>2. d = <<d[1], d[2]>> /\ e = <<e[1], e[2]>>
    BY DEF Branches
  <2>3. mem'[g][i].a = f
    BY <1>2, <1>3, <1>4
  <2>4. CASE d[1] = g /\ d[2] = i
    BY <2>1, <2>2, <2>3, <2>4
  <2>5. CASE e[1] = g /\ e[2] = i
    BY <2>1, <2>2, <2>3, <2>5
  <2>6. CASE ~ (d[1] = g /\ d[2] = i) /\ ~ (e[1] = g /\ e[2] = i)
    <3>1. d \in Branches /\ e \in Branches /\ mem[d[1]][d[2]].a = mem[e[1]][e[2]].a
      BY <2>1, <2>2, <2>6
    <3> QED BY <3>1 DEF OneEntry
  <2> QED BY <2>4, <2>5, <2>6
<1>11. ASSUME NEW v \in VAddr
       PROVE  /\ \A l \in 0 .. Top : Path(v)[l] # NoFrame => Path(v)'[l] = Path(v)[l]
              /\ Walk(v) # NoFrame => Walk(v)' = Walk(v)
  <2>1. \A h \in Frame, j \in Idx : mem[h][j].p = 1 => mem'[h][j] = mem[h][j]
    BY <1>3
  <2> QED BY <2>1, Grow
<1>12. ASSUME NEW v \in VAddr, Walk(v)' # NoFrame PROVE Walk(v) # NoFrame
  <2> DEFINE S == {l \in 0 .. Top :
                     Path(v)'[l] # NoFrame => Path(v)'[l] = f \/ Path(v)'[l] = Path(v)[l]}
  <2>0. \A h \in Frame, j \in Idx : h = f => mem'[h][j].p # 1
    BY <1>2, <1>3
  <2>1. Top \in S
    BY <1>0, <1>1 DEF Tree
  <2>2. ASSUME NEW l \in 0 .. Top - 1, l + 1 \in S PROVE l \in S
    <3> SUFFICES ASSUME Path(v)'[l] # NoFrame PROVE Path(v)'[l] = f \/ Path(v)'[l] = Path(v)[l]
      BY <1>0
    <3>1. l + 1 \in 0 .. Top /\ v[l + 1] \in Idx
      BY <1>0, ConstantTypes
    <3>2. /\ Path(v)[l] = Entries(Path(v)[l + 1], v[l + 1])
          /\ Path(v)'[l] = Entries(Path(v)[l + 1], v[l + 1])'
          /\ Path(v)'[l + 1] \in Frame \cup {NoFrame}
      BY <3>1, <1>1 DEF Tree
    <3>3. /\ Path(v)'[l + 1] # NoFrame
          /\ mem'[Path(v)'[l + 1]][v[l + 1]].p = 1
          /\ Path(v)'[l] = mem'[Path(v)'[l + 1]][v[l + 1]].a
      BY <3>2 DEF Entries
    <3>4. Path(v)'[l + 1] = Path(v)[l + 1] /\ Path(v)[l + 1] \in Frame
      BY <2>0, <2>2, <3>1, <3>2, <3>3
    <3> QED BY <3>1, <3>2, <3>3, <3>4, <1>3, <1>4 DEF Entries
  <2>3. 0 \in S
    <3> HIDE DEF S
    <3> QED BY <1>0, <2>1, <2>2, DownInduction
  <2>4. /\ Path(v)'[0] # NoFrame
        /\ mem'[Path(v)'[0]][v[0]].p = 1
        /\ Walk(v)' = mem'[Path(v)'[0]][v[0]].a
    BY <1>12 DEF Walk, LeafTable, Entries
  <2>5. Path(v)'[0] \in Frame \cup {NoFrame} /\ v[0] \in Idx
    BY <1>0, <1>1, ConstantTypes DEF Tree
  <2>6. Path(v)'[0] = Path(v)[0] /\ Path(v)[0] \in Frame
    BY <2>0, <2>3, <2>4, <2>5
  <2>7. Path(v)[0] # g
    <3>1. Path(v)[0] \in TablesAt[0]
      BY <1>0, <1>1, <2>6 DEF Tree
    <3> QED BY <3>1, <1>0, <1>6
  <2>8. mem'[Path(v)[0]][v[0]] = mem[Path(v)[0]][v[0]]
    BY <2>5, <2>6, <2>7, <1>3
  <2>9. mem[Path(v)[0]][v[0]].a \in Frame
    BY <2>5, <2>6 DEF MemType, Word
  <2> QED BY <2>4, <2>6, <2>8, <2>9, <1>0 DEF Walk, LeafTable, Entries
<1> QED BY <1>8, <1>9, <1>10, <1>11, <1>12

-----------------------------------------------------------------------------
\* A step that leaves the tables as they are changes no translation.
LEMMA TablesKept ==
  ASSUME MemType, MemType', LevelsApart, OneEntry,
         \A f \in Tables : mem'[f] = mem[f]
  PROVE  /\ Tables' = Tables
         /\ LevelsApart' /\ OneEntry'
         /\ \A v \in VAddr : Path(v)' = Path(v) /\ Walk(v)' = Walk(v)
<1>1. \A l \in 1 .. Top : \A f \in TablesAt[l] : mem'[f] = mem[f]
  BY TreeHolds DEF Tree
<1>2. /\ TablesAt' = TablesAt
      /\ Tables' = Tables
      /\ Branches' = Branches
      /\ \A v \in VAddr : Path(v)' = Path(v)
  BY <1>1, SameTables
<1>3. LevelsApart'
  BY <1>2 DEF LevelsApart
<1>4. OneEntry'
  <2>1. ASSUME NEW e \in Branches PROVE mem'[e[1]] = mem[e[1]]
    <3>1. PICK l \in 1 .. Top : e[1] \in TablesAt[l]
      BY DEF Branches, Top
    <3> QED BY <3>1, <1>1
  <2> QED BY <1>2, <2>1 DEF OneEntry
<1>5. ASSUME NEW v \in VAddr PROVE Walk(v)' = Walk(v)
  <2>1. LeafTable(v)' = LeafTable(v)
    BY <1>2 DEF LeafTable
  <2>2. LeafTable(v) # NoFrame => mem'[LeafTable(v)] = mem[LeafTable(v)]
    BY WalkEntry
  <2> QED BY <2>1, <2>2 DEF Walk, Entries
<1> QED BY <1>2, <1>3, <1>4, <1>5

\* A step that writes one entry of a last table changes the translation of
\* the addresses that end in this entry, and no other.
LEMMA LeafWritten ==
  ASSUME MemType, MemType', LevelsApart, OneEntry,
         NEW g \in TablesAt[0], NEW i \in Idx, NEW w \in Word,
         mem' = [mem EXCEPT ![g][i] = w]
  PROVE  /\ Tables' = Tables
         /\ LevelsApart' /\ OneEntry'
         /\ \A v \in VAddr :
              Walk(v)' = IF LeafTable(v) = g /\ v[0] = i
                         THEN IF w.p = 1 THEN w.a ELSE NoFrame
                         ELSE Walk(v)
<1>0. Top \in Nat /\ 0 \in 0 .. Top /\ NoFrame \notin Frame
  BY ConstantTypes
<1>1. g \in Frame
  BY <1>0, TreeHolds DEF Tree
<1>2. \A h \in Frame, j \in Idx : mem'[h][j] = IF h = g /\ j = i THEN w ELSE mem[h][j]
  BY <1>1 DEF MemType
<1>3. \A l \in 1 .. Top : \A f \in TablesAt[l] : mem'[f] = mem[f]
  <2> SUFFICES ASSUME NEW l \in 1 .. Top, NEW f \in TablesAt[l] PROVE mem'[f] = mem[f]
    OBVIOUS
  <2>1. l \in 0 .. Top /\ l # 0
    BY <1>0
  <2>2. f # g
    BY <2>1, <1>0 DEF LevelsApart
  <2> QED BY <2>2
<1>4. /\ TablesAt' = TablesAt
      /\ Tables' = Tables
      /\ Branches' = Branches
      /\ \A v \in VAddr : Path(v)' = Path(v)
  BY <1>3, SameTables
<1>5. LevelsApart'
  BY <1>4 DEF LevelsApart
<1>6. OneEntry'
  <2>1. ASSUME NEW e \in Branches PROVE mem'[e[1]] = mem[e[1]]
    <3>1. PICK l \in 1 .. Top : e[1] \in TablesAt[l]
      BY DEF Branches, Top
    <3> QED BY <3>1, <1>3
  <2> QED BY <1>4, <2>1 DEF OneEntry
<1>7. ASSUME NEW v \in VAddr
      PROVE  Walk(v)' = IF LeafTable(v) = g /\ v[0] = i
                        THEN IF w.p = 1 THEN w.a ELSE NoFrame
                        ELSE Walk(v)
  <2>1. LeafTable(v)' = LeafTable(v)
    BY <1>4 DEF LeafTable
  <2>2. LeafTable(v) \in Frame \cup {NoFrame} /\ v[0] \in Idx
    BY <1>0, WalkEntry, ConstantTypes
  <2> QED BY <1>0, <1>1, <1>2, <2>1, <2>2 DEF Walk, Entries
<1> QED BY <1>4, <1>5, <1>6, <1>7

\* alloc_page() returns a page of the pool that is not in use, or 0.
LEMMA FirstFreeIsFree ==
  /\ FreeFrames # {} => FirstFree \in FreeFrames
  /\ FreeFrames = {} => FirstFree = 0
  /\ FirstFree \in Frame
  /\ FirstFree # 0 => FirstFree \in Pool \ used
<1>1. FreeFrames \subseteq Nat
  BY ConstantTypes DEF FreeFrames
<1>2. FreeFrames # {} => \E f \in FreeFrames : \A g \in FreeFrames : f <= g
  BY <1>1, LeastOfNat
<1> QED BY <1>2, ConstantTypes DEF FirstFree, FreeFrames

-----------------------------------------------------------------------------
\* A map_page() in progress.
MapCall == [at : {"map"}, v : VAddr, pa : Frame, lvl : 0 .. Levels - 1,
            pgt : Frame, zeroed : BOOLEAN]

\* Every step keeps the types.
LEMMA TypeStep ==
  ASSUME TypeOK, [Next]_vars
  PROVE  TypeOK'
<1> USE DEF TypeOK, MapCall
<1>0. /\ FirstFree \in Frame
      /\ FirstFree # 0 => FirstFree \in Pool
      /\ Root \in Frame /\ Levels - 1 \in 0 .. Levels - 1
  BY FirstFreeIsFree, ConstantTypes DEF Top
<1>1. /\ ZeroWord \in Word /\ ZeroPage \in [Idx -> Word]
      /\ \A f \in Frame : Entry(f) \in Word
  BY ConstantTypes DEF ZeroWord, ZeroPage, Word, Entry
<1>2. ASSUME NEW v \in VAddr
      PROVE  /\ Walk(v) \in Frame \cup {NoFrame} /\ v[0] \in Idx
             /\ Walk(v) # NoFrame => LeafTable(v) \in Frame
  BY WalkEntry, ConstantTypes DEF MemType
<1>3. CASE MapTable
  <2>1. call \in MapCall /\ call.lvl - 1 \in 0 .. Levels - 1 /\ call.v[call.lvl] \in Idx
    BY <1>3, ConstantTypes DEF MapTable, Ready, Segfault, BadFree, Top
  <2>2. CASE mem[call.pgt][call.v[call.lvl]].p = 1
    <3>1. mem[call.pgt][call.v[call.lvl]].a \in Frame
      BY <2>1 DEF Word
    <3> QED BY <1>3, <2>1, <2>2, <3>1 DEF MapTable, InMap
  <2>3. CASE mem[call.pgt][call.v[call.lvl]].p # 1
    <3>1. mem' \in [Frame -> [Idx -> Word]]
      <4>1. mem' = [mem EXCEPT ![call.pgt][call.v[call.lvl]] = Entry(FirstFree)]
        BY <1>3, <2>3 DEF MapTable
      <4>2. Entry(FirstFree) \in Word /\ call.pgt \in Frame
        BY <1>0, <1>1, <2>1
      <4> QED BY <4>1, <4>2, <2>1
    <3> QED BY <1>0, <1>3, <2>1, <2>3, <3>1 DEF MapTable, InMap, AllocPage
  <2> QED BY <2>2, <2>3
<1>4. CASE MapLeaf
  <2>1. call \in MapCall /\ call.v[0] \in Idx
    BY <1>4, ConstantTypes DEF MapLeaf, Ready, Segfault, BadFree
  <2> QED BY <1>1, <1>4, <2>1 DEF MapLeaf
<1>5. CASE CallAllocPage
  BY <1>0, <1>5 DEF CallAllocPage, AllocPage
<1>6. ASSUME NEW f \in Pool, CallFreePage(f) PROVE TypeOK'
  BY <1>6 DEF CallFreePage, FreePage
<1>7. ASSUME NEW v \in VAddr, Mmap(v) PROVE TypeOK'
  <2>1. mem' \in [Frame -> [Idx -> Word]]
    BY <1>0, <1>1, <1>7 DEF Mmap
  <2> QED BY <1>0, <1>7, <2>1 DEF Mmap, AllocPage, InMap
<1>8. ASSUME NEW v \in VAddr, NEW f \in Pool, CallMapPage(v, f) PROVE TypeOK'
  BY <1>0, <1>8, ConstantTypes DEF CallMapPage, InMap
<1>9. ASSUME NEW v \in VAddr, UnmapPage(v), Walk(v) # NoFrame
      PROVE  mem' \in [Frame -> [Idx -> Word]] /\ tlb' \in [VAddr -> Frame \cup {NoFrame}]
  <2>1. LeafTable(v) \in Frame /\ v[0] \in Idx
    BY <1>2, <1>9
  <2> QED BY <1>1, <1>9, <2>1 DEF UnmapPage
<1>10. ASSUME NEW v \in VAddr, CallUnmapPage(v) PROVE TypeOK'
  BY <1>9, <1>10 DEF CallUnmapPage
<1>11. ASSUME NEW v \in VAddr, CallMunmap(v) PROVE TypeOK'
  BY <1>9, <1>11 DEF CallMunmap, FreePage
<1>12. ASSUME NEW v \in VAddr, NEW i \in StoreIdx, NEW w \in DataWords, Store(v, i, w) PROVE TypeOK'
  <2>1. i \in Idx /\ w \in Word
    BY PagingAssumption
  <2>2. Translation(v) \in Frame
    BY <1>2, <1>12 DEF Store, Translation
  <2>3. mem' \in [Frame -> [Idx -> Word]] /\ tlb' \in [VAddr -> Frame \cup {NoFrame}]
    BY <1>12, <2>1, <2>2 DEF Store
  <2> QED BY <1>12, <2>3 DEF Store
<1>13. ASSUME NEW v \in VAddr, Evict(v) PROVE TypeOK'
  BY <1>13 DEF Evict
<1>14. ASSUME NEW v \in VAddr, FaultManual(v) PROVE TypeOK'
  BY <1>14 DEF FaultManual
<1>15. CASE UNCHANGED vars
  BY <1>15 DEF vars
<1> QED
  BY <1>3, <1>4, <1>5, <1>6, <1>7, <1>8, <1>10, <1>11, <1>12, <1>13, <1>14, <1>15
  DEF Next, CallMmap, FaultAuto, Stopped

-----------------------------------------------------------------------------
\* What the program stores is no entry by accident: its words are even.
EvenData == \A w \in DataWords : w.p = 0

\* The page that alloc_page() returns is no table and nobody's.
LEMMA FreshPage ==
  ASSUME TypeOK, Sound
  PROVE  /\ FirstFree \notin Tables /\ FirstFree \notin owned
         /\ Root \in Tables /\ 0 \notin Tables
         /\ owned \subseteq used /\ owned \subseteq Frame
<1>1. FirstFree \in Frame /\ (FirstFree # 0 => FirstFree \in Pool \ used)
  BY FirstFreeIsFree
<1>2. Root \in Tables
  BY TreeHolds, ConstantTypes DEF Tree, TypeOK, MemType
<1>3. Tables \subseteq used \cup {Root} /\ owned \subseteq used /\ used \subseteq Pool
  BY DEF Sound, FramesSplit, TypeOK
<1> QED BY <1>1, <1>2, <1>3, ConstantTypes

\* mmap() takes a clear page, which no address reaches yet.
LEMMA MmapStep ==
  ASSUME IInv, TypeOK', ~oom, NEW v \in VAddr, Walk(v) = NoFrame, Mmap(v)
  PROVE  IInv' /\ \A u \in VAddr : Walk(u)' = Walk(u)
<1>1. MemType /\ MemType' /\ Sound /\ TypeOK /\ TlbCoherent
  BY DEF IInv, TypeOK, MemType
<1>2. /\ FirstFree \notin Tables /\ FirstFree \notin owned
      /\ Root \in Tables /\ 0 \notin Tables /\ owned \subseteq used /\ owned \subseteq Frame
  BY <1>1, FreshPage
<1>3. FirstFree \in Frame /\ (FirstFree # 0 => FirstFree \in Pool \ used)
  BY FirstFreeIsFree
<1>4. /\ mem' = [mem EXCEPT ![FirstFree] = ZeroPage]
      /\ used' = used \cup ({FirstFree} \ {0})
      /\ oom' = (FirstFree = 0)
      /\ call' = InMap(v, FirstFree, Levels - 1, Root, TRUE)
      /\ owned' = owned \cup ({FirstFree} \ {0})
      /\ tlb' = tlb
  BY DEF Mmap, AllocPage
<1>5. \A f \in Frame : mem'[f] = IF f = FirstFree THEN ZeroPage ELSE mem[f]
  BY <1>1, <1>4 DEF MemType
<1>6. /\ Tables' = Tables
      /\ LevelsApart' /\ OneEntry'
      /\ \A u \in VAddr : Path(u)' = Path(u) /\ Walk(u)' = Walk(u)
  <2>1. \A f \in Tables : mem'[f] = mem[f]
    BY <1>1, <1>2, <1>5, TreeHolds DEF Tree
  <2> QED BY <1>1, <2>1, TablesKept DEF Sound
<1>7. TlbCoherent'
  BY <1>1, <1>4, <1>6 DEF TlbCoherent
<1>8. call' # BadFree
  BY <1>4 DEF InMap, BadFree
<1>9. ASSUME ~oom' PROVE Sound'
  <2>1. FirstFree # 0 /\ FirstFree \in Pool \ used
    BY <1>3, <1>4, <1>9
  <2>2. FramesSplit'
    BY <1>1, <1>2, <1>4, <1>6, <2>1 DEF Sound, FramesSplit
  <2>3. DataEven'
    BY <1>1, <1>5, <1>6 DEF Sound, DataEven, ZeroPage, ZeroWord
  <2>4. WalksOwned'
    BY <1>1, <1>4, <1>6 DEF Sound, WalksOwned
  <2>5. CallOnPath'
    <3>1. /\ call'.v = v /\ call'.pa = FirstFree /\ call'.lvl = Top /\ call'.pgt = Root
      BY <1>4 DEF InMap, Top
    <3>2. Root = Path(v)'[Top]
      BY <1>1, <1>6, TreeHolds DEF Tree
    <3>3. Walk(v)' = NoFrame
      BY <1>6
    <3>4. mem'[FirstFree] = ZeroPage
      BY <1>3, <1>5
    <3>5. \A u \in VAddr : Walk(u)' # FirstFree
      BY <1>1, <1>2, <1>3, <1>6, ConstantTypes DEF Sound, WalksOwned
    <3>6. FirstFree \in owned'
      BY <1>4, <2>1
    <3> QED BY <3>1, <3>2, <3>3, <3>4, <3>5, <3>6 DEF CallOnPath, ZeroPage
  <2> QED BY <1>6, <2>2, <2>3, <2>4, <2>5 DEF Sound
<1> QED BY <1>6, <1>7, <1>8, <1>9 DEF IInv

\* One turn of the loop of map_page() goes one level down the path of its
\* address, through the table it finds or the one it hangs there.
LEMMA MapTableStep ==
  ASSUME IInv, TypeOK', MapTable
  PROVE  IInv' /\ (~oom' => \A u \in VAddr : Walk(u)' = Walk(u))
<1>1. MemType /\ MemType' /\ Sound /\ TypeOK /\ TlbCoherent /\ call.at = "map" /\ ~oom
  BY DEF IInv, TypeOK, MemType, MapTable
<1>2. call \in MapCall /\ call.lvl > 0
  BY <1>1 DEF TypeOK, MapCall, Ready, Segfault, BadFree, MapTable
<1>3. PICK v \in VAddr, k \in 1 .. Top, g \in Frame, i \in Idx, pa \in Frame :
        /\ call.v = v /\ call.lvl = k /\ call.pgt = g /\ v[k] = i /\ call.pa = pa
  <2>1. call.lvl \in 1 .. Top
    BY <1>2, ConstantTypes DEF MapCall
  <2>2. call.v[call.lvl] \in Idx
    BY <1>2, <2>1, ConstantTypes DEF MapCall
  <2> QED BY <1>2, <2>1, <2>2 DEF MapCall
<1>4. /\ k \in 0 .. Top /\ k - 1 \in 0 .. Top - 1 /\ (k - 1) + 1 = k
      /\ k - 1 \in 0 .. Top /\ 0 \in 0 .. Top /\ NoFrame \notin Frame
  BY ConstantTypes
<1>5. /\ g = Path(v)[k] /\ Walk(v) = NoFrame
      /\ pa \in owned
      /\ call.zeroed => mem[pa] = ZeroPage /\ \A u \in VAddr : Walk(u) # pa
  BY <1>1, <1>3 DEF Sound, CallOnPath
<1>6. g \in TablesAt[k] /\ g \in Tables
  BY <1>1, <1>4, <1>5, TreeHolds DEF Tree
<1>7. /\ Path(v)[k - 1] = Entries(g, i)
      /\ Path(v)'[k] = g => Path(v)'[k - 1] = Entries(g, i)'
  <2>1. Path(v)[k - 1] = Entries(Path(v)[k], v[k])
    BY <1>1, <1>4, TreeHolds DEF Tree
  <2>2. Path(v)'[k - 1] = Entries(Path(v)[k], v[k])'
    BY <1>1, <1>4, TreeHoldsNext DEF Tree
  <2> QED BY <1>3, <1>5, <2>1, <2>2 DEF Entries
<1>8. CASE mem[g][i].p = 1
  <2>1. /\ call' = InMap(v, pa, k - 1, mem[g][i].a, call.zeroed)
        /\ UNCHANGED <<mem, used, oom, tlb, owned>>
    BY <1>3, <1>8 DEF MapTable
  <2>2. /\ Tables' = Tables
        /\ LevelsApart' /\ OneEntry'
        /\ \A u \in VAddr : Path(u)' = Path(u) /\ Walk(u)' = Walk(u)
    BY <1>1, <2>1, TablesKept DEF Sound
  <2>3. TlbCoherent' /\ call' # BadFree
    BY <1>1, <2>1, <2>2 DEF TlbCoherent, InMap, BadFree
  <2>4. FramesSplit' /\ DataEven' /\ WalksOwned'
    BY <1>1, <2>1, <2>2 DEF Sound, FramesSplit, DataEven, WalksOwned
  <2>5. CallOnPath'
    <3>1. mem[g][i].a = Path(v)'[k - 1]
      BY <1>4, <1>7, <1>8, <2>2 DEF Entries
    <3>2. /\ call'.v = v /\ call'.pa = pa /\ call'.lvl = k - 1 /\ call'.pgt = mem[g][i].a
          /\ call'.zeroed = call.zeroed
      BY <2>1 DEF InMap
    <3> QED BY <1>5, <2>1, <2>2, <3>1, <3>2 DEF CallOnPath, ZeroPage
  <2> QED BY <2>2, <2>3, <2>4, <2>5 DEF IInv, Sound
<1>9. CASE mem[g][i].p # 1
  <2>1. /\ call' = InMap(v, pa, k - 1, FirstFree, call.zeroed)
        /\ mem' = [mem EXCEPT ![g][i] = Entry(FirstFree)]
        /\ used' = used \cup ({FirstFree} \ {0})
        /\ oom' = (FirstFree = 0)
        /\ UNCHANGED <<tlb, owned>>
    BY <1>3, <1>9 DEF MapTable, AllocPage
  <2>2. mem[g][i].p = 0
    BY <1>1, <1>3, <1>9 DEF MemType, Word
  <2>3. TlbCoherent' /\ call' # BadFree
    <3>1. \A h \in Frame, j \in Idx : mem[h][j].p = 1 => mem'[h][j] = mem[h][j]
      BY <1>1, <2>1, <2>2 DEF MemType
    <3>2. \A u \in VAddr : Walk(u) # NoFrame => Walk(u)' = Walk(u)
      BY <1>1, <3>1, Grow
    <3> QED BY <1>1, <2>1, <3>2 DEF TlbCoherent, InMap, BadFree
  <2>4. ASSUME ~oom' PROVE Sound' /\ \A u \in VAddr : Walk(u)' = Walk(u)
    <3>1. /\ FirstFree \in Pool \ used /\ FirstFree # 0 /\ FirstFree \in Frame \ Tables
          /\ FirstFree \notin owned /\ owned \subseteq used
      BY <1>1, <2>1, <2>4, FirstFreeIsFree, FreshPage
    <3>2. PICK f \in Frame : f = FirstFree
      BY <3>1
    <3>3. \A j \in Idx : mem[f][j].p = 0
      BY <1>1, <3>1, <3>2 DEF Sound, DataEven
    <3>4. /\ Tables' = Tables \cup {f}
          /\ LevelsApart' /\ OneEntry'
          /\ \A u \in VAddr : Walk(u)' = Walk(u)
          /\ \A u \in VAddr, l \in 0 .. Top : Path(u)[l] # NoFrame => Path(u)'[l] = Path(u)[l]
      BY <1>1, <1>6, <2>1, <2>2, <3>1, <3>2, <3>3, NewTable DEF Sound
    <3>5. /\ \A h \in Frame : h # g => mem'[h] = mem[h]
          /\ mem'[g][i] = Entry(f)
      BY <1>1, <2>1, <3>2 DEF MemType
    <3>6. FramesSplit'
      BY <1>1, <2>1, <3>1, <3>2, <3>4, ConstantTypes DEF Sound, FramesSplit
    <3>7. DataEven'
      BY <1>1, <1>6, <3>4, <3>5 DEF Sound, DataEven
    <3>8. WalksOwned'
      BY <1>1, <2>1, <3>4 DEF Sound, WalksOwned
    <3>9. CallOnPath'
      <4>1. /\ call'.v = v /\ call'.pa = pa /\ call'.lvl = k - 1 /\ call'.pgt = f
            /\ call'.zeroed = call.zeroed
        BY <2>1, <3>2 DEF InMap
      <4>2. Path(v)'[k] = g
        BY <1>3, <1>4, <1>5, <3>4
      <4>3. Path(v)'[k - 1] = f
        BY <1>3, <1>4, <1>7, <3>5, <4>2 DEF Entries, Entry
      <4>4. mem'[pa] = mem[pa]
        BY <1>1, <1>3, <1>5, <1>6, <3>5 DEF Sound, FramesSplit
      <4> QED BY <1>5, <2>1, <3>4, <4>1, <4>3, <4>4 DEF CallOnPath, ZeroPage
    <3> QED BY <3>4, <3>6, <3>7, <3>8, <3>9 DEF Sound
  <2> QED BY <2>3, <2>4 DEF IInv
<1> QED BY <1>8, <1>9

\* The last statement of map_page() maps its address, and no other.
LEMMA MapLeafStep ==
  ASSUME IInv, TypeOK', MapLeaf
  PROVE  IInv' /\ \A u \in VAddr : Walk(u)' = IF u = call.v THEN call.pa ELSE Walk(u)
<1>1. MemType /\ MemType' /\ Sound /\ TypeOK /\ TlbCoherent /\ call.at = "map" /\ ~oom
  BY DEF IInv, TypeOK, MemType, MapLeaf
<1>2. call \in MapCall /\ call.lvl = 0
  BY <1>1 DEF TypeOK, MapCall, Ready, Segfault, BadFree, MapLeaf
<1>3. PICK v \in VAddr, g \in Frame, i \in Idx, pa \in Frame :
        call.v = v /\ call.pgt = g /\ v[0] = i /\ call.pa = pa
  BY <1>2, ConstantTypes DEF MapCall
<1>4. g = LeafTable(v) /\ g # NoFrame /\ Walk(v) = NoFrame /\ pa \in owned
  BY <1>1, <1>2, <1>3, ConstantTypes DEF Sound, CallOnPath, LeafTable
<1>5. g \in TablesAt[0] /\ g \in Tables
  BY <1>1, <1>4, WalkEntry
<1>6. /\ mem' = [mem EXCEPT ![g][i] = Entry(pa)]
      /\ call' = Ready
      /\ UNCHANGED <<used, tlb, owned, oom>>
  BY <1>3 DEF MapLeaf
<1>7. Entry(pa) \in Word /\ Entry(pa).p = 1 /\ Entry(pa).a = pa
  BY DEF Entry, Word
<1>8. /\ Tables' = Tables
      /\ LevelsApart' /\ OneEntry'
      /\ \A u \in VAddr : Walk(u)' = IF LeafTable(u) = g /\ u[0] = i THEN pa ELSE Walk(u)
  BY <1>1, <1>5, <1>6, <1>7, LeafWritten DEF Sound
<1>9. TlbCoherent'
  <2>1. \A u \in VAddr : LeafTable(u) = g /\ u[0] = i => Walk(u) = NoFrame
    BY <1>3, <1>4 DEF Walk
  <2> QED BY <1>1, <1>6, <1>8, <2>1 DEF TlbCoherent
<1>10. FramesSplit'
  BY <1>1, <1>6, <1>8 DEF Sound, FramesSplit
<1>11. DataEven'
  <2>1. \A h \in Frame : h # g => mem'[h] = mem[h]
    BY <1>1, <1>6 DEF MemType
  <2> QED BY <1>1, <1>5, <1>8, <2>1 DEF Sound, DataEven
<1>12. WalksOwned'
  BY <1>1, <1>4, <1>6, <1>8 DEF Sound, WalksOwned
<1>13. CallOnPath' /\ call' # BadFree
  BY <1>6 DEF CallOnPath, Ready, BadFree
<1>14. \A u \in VAddr : LeafTable(u) = g /\ u[0] = i <=> u = v
  BY <1>1, <1>3, <1>4, PathInjective DEF Sound
<1>15. \A u \in VAddr : Walk(u)' = IF u = call.v THEN call.pa ELSE Walk(u)
  BY <1>3, <1>8, <1>14
<1> QED BY <1>8, <1>9, <1>10, <1>11, <1>12, <1>13, <1>15 DEF IInv, Sound

\* unmap_page(): the translation of v goes, and that of every other address
\* stays.
LEMMA Unmapped ==
  ASSUME IInv, TypeOK', ~oom, NEW v \in VAddr, Walk(v) # NoFrame, UnmapPage(v)
  PROVE  /\ Tables' = Tables
         /\ LevelsApart' /\ OneEntry'
         /\ \A u \in VAddr : Walk(u)' = IF u = v THEN NoFrame ELSE Walk(u)
         /\ TlbCoherent'
         /\ DataEven'
         /\ \A f \in Frame \ Tables : mem'[f] = mem[f]
<1>1. MemType /\ MemType' /\ Sound /\ TypeOK /\ TlbCoherent
  BY DEF IInv, TypeOK, MemType
<1>2. PICK g \in TablesAt[0], i \in Idx : g = LeafTable(v) /\ i = v[0] /\ g # NoFrame /\ g \in Tables
  BY <1>1, WalkEntry, ConstantTypes
<1>3. /\ mem' = [mem EXCEPT ![g][i] = ZeroWord]
      /\ tlb' = [tlb EXCEPT ![v] = NoFrame]
  BY <1>2 DEF UnmapPage
<1>4. ZeroWord \in Word /\ ZeroWord.p = 0
  BY ConstantTypes DEF ZeroWord, Word
<1>5. /\ Tables' = Tables
      /\ LevelsApart' /\ OneEntry'
      /\ \A u \in VAddr :
           Walk(u)' = IF LeafTable(u) = g /\ u[0] = i THEN NoFrame ELSE Walk(u)
  <2>1. PICK w \in Word : w = ZeroWord
    BY <1>4
  <2>2. mem' = [mem EXCEPT ![g][i] = w] /\ w.p # 1
    BY <1>3, <1>4, <2>1
  <2> QED BY <1>1, <2>2, LeafWritten DEF Sound
<1>6. \A u \in VAddr : LeafTable(u) = g /\ u[0] = i <=> u = v
  BY <1>1, <1>2, PathInjective DEF Sound
<1>7. TlbCoherent'
  BY <1>1, <1>3, <1>5, <1>6 DEF TlbCoherent, TypeOK
<1>8. \A f \in Frame \ Tables : mem'[f] = mem[f]
  BY <1>1, <1>2, <1>3 DEF MemType
<1>9. DataEven'
  BY <1>1, <1>5, <1>8 DEF Sound, DataEven
<1> QED BY <1>5, <1>6, <1>7, <1>8, <1>9

\* A store reaches a data page, never a table.
LEMMA StoreStep ==
  ASSUME EvenData, IInv, TypeOK',
         NEW v \in VAddr, NEW i \in StoreIdx, NEW w \in DataWords, Store(v, i, w)
  PROVE  /\ IInv' /\ \A u \in VAddr : Walk(u)' = Walk(u)
         /\ Translation(v) = Walk(v) /\ Walk(v) \in owned
<1>1. MemType /\ MemType' /\ Sound /\ TypeOK /\ TlbCoherent /\ call = Ready /\ ~oom
  BY DEF IInv, TypeOK, MemType, Store, Idle
<1>2. i \in Idx /\ w \in Word /\ w.p = 0
  BY PagingAssumption DEF EvenData
<1>3. Walk(v) # NoFrame /\ Translation(v) = Walk(v)
  BY <1>1 DEF Store, Translation, TlbCoherent
<1>4. PICK f \in Frame : f = Walk(v) /\ f \in owned /\ f \notin Tables
  BY <1>1, <1>3, WalkEntry DEF Sound, WalksOwned, FramesSplit
<1>5. /\ mem' = [mem EXCEPT ![f][i] = w]
      /\ tlb' = [tlb EXCEPT ![v] = f]
      /\ UNCHANGED <<used, call, owned, oom>>
  BY <1>3, <1>4 DEF Store
<1>6. \A h \in Frame : h # f => mem'[h] = mem[h]
  BY <1>1, <1>5 DEF MemType
<1>7. /\ Tables' = Tables
      /\ LevelsApart' /\ OneEntry'
      /\ \A u \in VAddr : Path(u)' = Path(u) /\ Walk(u)' = Walk(u)
  <2>1. \A h \in Tables : mem'[h] = mem[h]
    BY <1>1, <1>4, <1>6, TreeHolds DEF Tree
  <2> QED BY <1>1, <2>1, TablesKept DEF Sound
<1>8. TlbCoherent'
  BY <1>1, <1>4, <1>5, <1>7 DEF TlbCoherent, TypeOK
<1>9. FramesSplit' /\ WalksOwned'
  BY <1>1, <1>5, <1>7 DEF Sound, FramesSplit, WalksOwned
<1>10. DataEven'
  <2>1. \A j \in Idx : mem'[f][j] = IF j = i THEN w ELSE mem[f][j]
    BY <1>1, <1>2, <1>5 DEF MemType
  <2> QED BY <1>1, <1>2, <1>6, <1>7, <2>1 DEF Sound, DataEven
<1>11. CallOnPath' /\ call' # BadFree
  BY <1>1, <1>5 DEF CallOnPath, Ready, BadFree
<1> QED BY <1>3, <1>4, <1>7, <1>8, <1>9, <1>10, <1>11 DEF IInv, Sound

\* The invariant holds at first: the tree is the root.
LEMMA IInvInit == Init => IInv
<1> SUFFICES ASSUME Init PROVE IInv
  OBVIOUS
<1>1. TypeOK
  BY ConstantTypes DEF Init, TypeOK, ZeroPage, ZeroWord, Word
<1>2. \A f \in Frame, i \in Idx : mem[f][i].p = 0
  BY DEF Init, ZeroPage, ZeroWord
<1>3. MemType /\ Tree
  BY <1>1, TreeHolds DEF TypeOK, MemType
<1>4. \A l \in 0 .. Top - 1 : TablesAt[l] = {}
  <2> SUFFICES ASSUME NEW l \in 0 .. Top - 1, NEW h \in TablesAt[l] PROVE FALSE
    OBVIOUS
  <2>1. PICK f \in TablesAt[l + 1], i \in Idx : mem[f][i].p = 1
    BY <1>3 DEF Tree
  <2>2. TablesAt[l + 1] \subseteq Frame
    BY <1>3, ConstantTypes DEF Tree
  <2> QED BY <1>2, <2>1, <2>2
<1>5. Tables = {Root}
  <2>1. \A f : f \in Tables <=> \E l \in 0 .. Top : f \in TablesAt[l]
    BY <1>3 DEF Tree
  <2>2. /\ TablesAt[Top] = {Root} /\ Top \in 0 .. Top
        /\ \A l \in 0 .. Top : l = Top \/ l \in 0 .. Top - 1
    BY <1>3, ConstantTypes DEF Tree
  <2> QED BY <1>4, <2>1, <2>2
<1>6. \A v \in VAddr : Walk(v) = NoFrame
  <2> SUFFICES ASSUME NEW v \in VAddr, Walk(v) # NoFrame PROVE FALSE
    OBVIOUS
  <2>1. LeafTable(v) \in Frame /\ v[0] \in Idx /\ mem[LeafTable(v)][v[0]].p = 1
    BY <1>3, WalkEntry, ConstantTypes
  <2> QED BY <2>1, <1>2
<1>7. LevelsApart
  <2>1. \A l \in 0 .. Top : l = Top \/ l \in 0 .. Top - 1
    BY ConstantTypes
  <2> QED BY <1>4, <2>1 DEF LevelsApart
<1>8. OneEntry
  <2>1. Branches = {}
    <3> SUFFICES ASSUME NEW e \in Branches PROVE FALSE
      OBVIOUS
    <3>1. PICK l \in 1 .. Top : e[1] \in TablesAt[l] /\ e[2] \in Idx /\ mem[e[1]][e[2]].p = 1
      BY DEF Branches, Top
    <3>2. e[1] \in Frame
      BY <1>3, <3>1, ConstantTypes DEF Tree
    <3> QED BY <1>2, <3>1, <3>2
  <2> QED BY <2>1 DEF OneEntry
<1>9. FramesSplit /\ DataEven /\ WalksOwned /\ CallOnPath
  BY <1>2, <1>5, <1>6 DEF Init, FramesSplit, DataEven, WalksOwned, CallOnPath, Ready
<1>10. TlbCoherent /\ call # BadFree
  BY DEF Init, TlbCoherent, Ready, BadFree
<1> QED BY <1>1, <1>7, <1>8, <1>9, <1>10 DEF IInv, Sound

\* Every step keeps the invariant.
LEMMA IInvStep ==
  ASSUME EvenData, IInv, [Next]_vars
  PROVE  IInv'
<1>0. TypeOK' /\ TypeOK /\ TlbCoherent /\ MemType /\ MemType'
  BY TypeStep DEF IInv, TypeOK, MemType
<1>1. CASE MapTable
  BY <1>0, <1>1, MapTableStep
<1>2. CASE MapLeaf
  BY <1>0, <1>2, MapLeafStep
<1>3. ASSUME UNCHANGED mem, Sound
      PROVE  /\ Tables' = Tables
             /\ LevelsApart' /\ OneEntry' /\ DataEven'
             /\ \A u \in VAddr : Path(u)' = Path(u) /\ Walk(u)' = Walk(u)
  <2>1. /\ Tables' = Tables
        /\ LevelsApart' /\ OneEntry'
        /\ \A u \in VAddr : Path(u)' = Path(u) /\ Walk(u)' = Walk(u)
    BY <1>0, <1>3, TablesKept DEF Sound
  <2> QED BY <1>3, <2>1 DEF Sound, DataEven
<1>4. CASE CallAllocPage
  <2>1. /\ Sound /\ ~oom /\ call = Ready /\ call' = Ready /\ UNCHANGED <<mem, tlb>>
        /\ used' = used \cup ({FirstFree} \ {0})
        /\ owned' = owned \cup ({FirstFree} \ {0})
    BY <1>4 DEF CallAllocPage, AllocPage, Idle, IInv
  <2>2. FirstFree \notin Tables
    BY <1>0, <2>1, FreshPage
  <2>3. TlbCoherent' /\ call' # BadFree /\ CallOnPath'
    BY <1>0, <1>3, <2>1 DEF TlbCoherent, BadFree, Ready, CallOnPath
  <2>4. FramesSplit' /\ WalksOwned'
    BY <1>3, <2>1, <2>2 DEF Sound, FramesSplit, WalksOwned
  <2> QED BY <1>0, <1>3, <2>1, <2>3, <2>4 DEF IInv, Sound
<1>5. ASSUME NEW f \in Pool, CallFreePage(f) PROVE IInv'
  <2>1. Sound /\ ~oom /\ f \in owned /\ UNCHANGED <<mem, tlb>> /\ owned' = owned \ {f}
        /\ \A u \in VAddr : Walk(u) # f
    BY <1>5 DEF CallFreePage, Idle, IInv
  <2>2. f \in used /\ f \notin Tables
    BY <2>1 DEF Sound, FramesSplit
  <2>3. used' = used \ {f} /\ call' = Ready
    BY <1>5, <2>2 DEF CallFreePage, FreePage
  <2>4. TlbCoherent' /\ call' # BadFree /\ CallOnPath'
    BY <1>0, <1>3, <2>1, <2>3 DEF TlbCoherent, BadFree, Ready, CallOnPath
  <2>5. FramesSplit' /\ WalksOwned'
    BY <1>3, <2>1, <2>2, <2>3 DEF Sound, FramesSplit, WalksOwned
  <2> QED BY <1>0, <1>3, <2>1, <2>4, <2>5 DEF IInv, Sound
<1>6. ASSUME NEW v \in VAddr, CallMmap(v) \/ FaultAuto(v) PROVE IInv'
  <2>1. Mmap(v) /\ ~oom /\ Walk(v) = NoFrame
    BY <1>6 DEF CallMmap, FaultAuto, Translation, Idle
  <2> QED BY <1>0, <2>1, MmapStep
<1>7. ASSUME NEW v \in VAddr, NEW f \in Pool, CallMapPage(v, f) PROVE IInv'
  <2>1. /\ Sound /\ ~oom /\ f \in owned /\ Walk(v) = NoFrame
        /\ UNCHANGED <<mem, used, tlb, owned, oom>>
        /\ call' = InMap(v, f, Levels - 1, Root, FALSE)
    BY <1>7 DEF CallMapPage, Idle, IInv
  <2>2. TlbCoherent' /\ call' # BadFree
    BY <1>0, <1>3, <2>1 DEF TlbCoherent, BadFree, InMap
  <2>3. FramesSplit' /\ WalksOwned'
    BY <1>3, <2>1 DEF Sound, FramesSplit, WalksOwned
  <2>4. CallOnPath'
    <3>1. /\ call'.v = v /\ call'.pa = f /\ call'.lvl = Top /\ call'.pgt = Root
          /\ call'.zeroed = FALSE
      BY <2>1 DEF InMap, Top
    <3>2. Root = Path(v)'[Top]
      BY <1>0, <1>3, <2>1, TreeHolds DEF Tree
    <3> QED BY <1>3, <2>1, <3>1, <3>2 DEF CallOnPath
  <2> QED BY <1>0, <1>3, <2>1, <2>2, <2>3, <2>4 DEF IInv, Sound
<1>8. ASSUME NEW v \in VAddr, CallUnmapPage(v) PROVE IInv'
  <2>1. /\ Sound /\ ~oom /\ call' = Ready /\ Walk(v) # NoFrame /\ UnmapPage(v)
        /\ UNCHANGED <<used, owned, oom>>
    BY <1>8 DEF CallUnmapPage, Idle, IInv
  <2>2. /\ Tables' = Tables
        /\ LevelsApart' /\ OneEntry'
        /\ \A u \in VAddr : Walk(u)' = IF u = v THEN NoFrame ELSE Walk(u)
        /\ TlbCoherent' /\ DataEven'
    BY <1>0, <2>1, Unmapped
  <2>3. FramesSplit' /\ WalksOwned' /\ CallOnPath' /\ call' # BadFree
    BY <2>1, <2>2 DEF Sound, FramesSplit, WalksOwned, CallOnPath, Ready, BadFree
  <2> QED BY <1>0, <2>2, <2>3 DEF IInv, Sound
<1>9. ASSUME NEW v \in VAddr, CallMunmap(v) PROVE IInv'
  <2>1. /\ Sound /\ ~oom /\ Walk(v) # NoFrame /\ UnmapPage(v)
        /\ owned' = owned \ {Walk(v)} /\ FreePage(Walk(v))
        /\ \A u \in VAddr \ {v} : Walk(u) # Walk(v)
    BY <1>9 DEF CallMunmap, Idle, IInv
  <2>2. Walk(v) \in owned /\ Walk(v) \in used /\ Walk(v) \notin Tables
    BY <2>1 DEF Sound, WalksOwned, FramesSplit
  <2>3. used' = used \ {Walk(v)} /\ call' = Ready
    BY <2>1, <2>2 DEF FreePage
  <2>4. /\ Tables' = Tables
        /\ LevelsApart' /\ OneEntry'
        /\ \A u \in VAddr : Walk(u)' = IF u = v THEN NoFrame ELSE Walk(u)
        /\ TlbCoherent' /\ DataEven'
    BY <1>0, <2>1, Unmapped
  <2>5. FramesSplit'
    BY <2>1, <2>2, <2>3, <2>4 DEF Sound, FramesSplit
  <2>6. WalksOwned' /\ CallOnPath' /\ call' # BadFree
    BY <2>1, <2>3, <2>4 DEF Sound, WalksOwned, CallOnPath, Ready, BadFree
  <2> QED BY <1>0, <2>4, <2>5, <2>6 DEF IInv, Sound
<1>10. ASSUME NEW v \in VAddr, NEW i \in StoreIdx, NEW w \in DataWords, Store(v, i, w)
       PROVE  IInv'
  BY <1>0, <1>10, StoreStep
<1>11. ASSUME NEW v \in VAddr, Evict(v) \/ FaultManual(v) PROVE IInv'
  <2>1. Sound /\ ~oom /\ UNCHANGED <<mem, used, owned, oom>> /\ call' \in {Ready, Segfault}
    BY <1>11 DEF Evict, FaultManual, Idle, IInv
  <2>2. \A u \in VAddr : tlb'[u] # NoFrame => tlb'[u] = tlb[u]
    BY <1>0, <1>11 DEF Evict, FaultManual, TypeOK
  <2>3. TlbCoherent'
    BY <1>0, <1>3, <2>1, <2>2 DEF TlbCoherent
  <2>4. FramesSplit' /\ WalksOwned' /\ CallOnPath' /\ call' # BadFree
    BY <1>3, <2>1 DEF Sound, FramesSplit, WalksOwned, CallOnPath, Ready, Segfault, BadFree
  <2> QED BY <1>0, <1>3, <2>1, <2>3, <2>4 DEF IInv, Sound
<1>12. CASE UNCHANGED vars
  <2>1. UNCHANGED <<mem, used, tlb, call, owned, oom>>
    BY <1>12 DEF vars
  <2>2. \A u \in VAddr : Walk(u) # NoFrame => Walk(u)' = Walk(u)
    BY <1>0, <2>1, Grow
  <2>3. TlbCoherent' /\ call' # BadFree
    BY <1>0, <2>1, <2>2 DEF TlbCoherent, IInv
  <2>4. ASSUME ~oom' PROVE Sound'
    <3>1. Sound
      BY <2>1, <2>4 DEF IInv
    <3>2. FramesSplit' /\ WalksOwned'
      BY <1>3, <2>1, <3>1 DEF Sound, FramesSplit, WalksOwned
    <3>3. CallOnPath'
      <4>1. call.at = "map" => call.v \in VAddr /\ call.pa \in Frame
        BY <1>0 DEF TypeOK, MapCall, Ready, Segfault, BadFree
      <4> QED BY <1>3, <2>1, <3>1, <4>1 DEF Sound, CallOnPath, ZeroPage
    <3> QED BY <1>3, <2>1, <3>1, <3>2, <3>3 DEF Sound
  <2> QED BY <1>0, <2>3, <2>4 DEF IInv
<1> QED
  BY <1>1, <1>2, <1>4, <1>5, <1>6, <1>7, <1>8, <1>9, <1>10, <1>11, <1>12
  DEF Next, Stopped

\* The inductive invariant of guest/memory.c holds in every state.
THEOREM Invariance == ASSUME EvenData PROVE Spec => []IInv
<1>1. Init => IInv
  BY IInvInit
<1>2. IInv /\ [Next]_vars => IInv'
  BY IInvStep
<1> QED BY <1>1, <1>2, PTL DEF Spec

-----------------------------------------------------------------------------
\* Each table but the root hangs below exactly one entry.
LEMMA TreeCardinality ==
  ASSUME TypeOK, LevelsApart, OneEntry
  PROVE  Cardinality(Tables) = Cardinality(Branches) + 1
<1> DEFINE T == Tables \ {Root}
           f == [e \in Branches |-> mem[e[1]][e[2]].a]
<1>1. MemType /\ Tree /\ Top \in Nat /\ Top \in 0 .. Top
  BY TreeHolds, ConstantTypes DEF TypeOK, MemType
<1>2. Root \in Tables /\ \A l \in 0 .. Top : l # Top => Root \notin TablesAt[l]
  BY <1>1 DEF Tree, LevelsApart
<1>3. f \in [Branches -> T]
  <2> SUFFICES ASSUME NEW e \in Branches PROVE mem[e[1]][e[2]].a \in T
    OBVIOUS
  <2>1. PICK l \in 1 .. Top : e[1] \in TablesAt[l] /\ e[2] \in Idx /\ mem[e[1]][e[2]].p = 1
    BY DEF Branches, Top
  <2>2. l - 1 \in 0 .. Top - 1 /\ (l - 1) + 1 = l /\ l - 1 \in 0 .. Top /\ l - 1 # Top
    BY <1>1
  <2>3. mem[e[1]][e[2]].a \in TablesAt[l - 1]
    BY <1>1, <2>1, <2>2 DEF Tree
  <2>4. mem[e[1]][e[2]].a \in Tables
    BY <1>1, <2>2, <2>3 DEF Tree
  <2> QED BY <1>2, <2>2, <2>3, <2>4
<1>4. f \in Injection(Branches, T)
  BY <1>3 DEF Injection, IsInjective, OneEntry
<1>5. f \in Surjection(Branches, T)
  <2> SUFFICES ASSUME NEW h \in T PROVE \E e \in Branches : f[e] = h
    BY <1>3 DEF Surjection
  <2>1. PICK l \in 0 .. Top : h \in TablesAt[l]
    BY <1>1 DEF Tree
  <2>2. l # Top
    BY <1>1, <2>1 DEF Tree
  <2>3. l \in 0 .. Top - 1 /\ l + 1 \in 1 .. Top
    BY <1>1, <2>2
  <2>4. PICK g \in TablesAt[l + 1], i \in Idx : mem[g][i].p = 1 /\ h = mem[g][i].a
    BY <1>1, <2>1, <2>3 DEF Tree
  <2>5. <<g, i>> \in Branches
    BY <1>1, <2>3, <2>4 DEF Tree
  <2>6. f[<<g, i>>] = h
    BY <2>4, <2>5
  <2> QED BY <2>5, <2>6
<1>6. IsFiniteSet(Tables)
  <2>1. IsFiniteSet(Frame)
    BY PagingAssumption, FS_Interval DEF Frame
  <2>2. Tables \in SUBSET Frame
    BY <1>1 DEF Tree
  <2> QED BY <2>1, <2>2, FS_Subset
<1>7. IsFiniteSet(T) /\ Cardinality(T) = Cardinality(Tables) - 1
  BY <1>2, <1>6, FS_RemoveElement
<1>8. Cardinality(Branches) = Cardinality(T)
  <2> HIDE DEF f, T
  <2> QED BY <1>4, <1>5, <1>7, FS_Injection
<1>9. Cardinality(Tables) \in Nat
  BY <1>6, FS_CardinalityType
<1> QED BY <1>7, <1>8, <1>9

\* The variables keep their types, whatever the program stores.
THEOREM TypeCorrect == Spec => []TypeOK
<1>1. Init => TypeOK
  BY IInvInit DEF IInv
<1>2. TypeOK /\ [Next]_vars => TypeOK'
  BY TypeStep
<1> QED BY <1>1, <1>2, PTL DEF Spec

\* Every address that map_page() has mapped reaches a page that a client
\* holds: never a table, a page given back or device memory.
THEOREM PagesReached == ASSUME EvenData PROVE Spec => []MappedPagesOwned
<1>1. IInv => MappedPagesOwned
  BY DEF IInv, Sound, WalksOwned, FramesSplit, MappedPagesOwned
<1> QED BY <1>1, Invariance, PTL

\* What the processor has cached is what the tables say: every change of a
\* last entry that could matter is followed by its invlpg.
THEOREM TlbAgrees == ASSUME EvenData PROVE Spec => []TlbCoherent
<1>1. IInv => TlbCoherent
  BY DEF IInv
<1> QED BY <1>1, Invariance, PTL

\* alloc_page() and free_page() balance: a page in use is a table or will be
\* given back, and free_page() never meets a page that is free.
THEOREM NoLeakNoDoubleFree == ASSUME EvenData PROVE Spec => []PagesAccounted
<1>1. IInv => PagesAccounted
  BY DEF IInv, Sound, FramesSplit, PagesAccounted
<1> QED BY <1>1, Invariance, PTL

\* "Automatic mapping" (guest/memory.c:70) holds of programs that store even
\* words; the run guest_paging_stale shows that it fails for odd ones.
THEOREM AutomaticPages == ASSUME EvenData PROVE Spec => []AutomaticMapping
<1>1. IInv => AutomaticMapping
  BY PagingAssumption DEF IInv, Sound, WalksOwned, AutomaticMapping
<1> QED BY <1>1, Invariance, PTL

\* map_page() builds a tree: every table but the root hangs below one entry.
THEOREM TablesAreATree == ASSUME EvenData PROVE Spec => []TablesFormTree
<1>1. IInv => TablesFormTree
  BY TreeCardinality DEF IInv, Sound, TablesFormTree
<1> QED BY <1>1, Invariance, PTL

-----------------------------------------------------------------------------
\* The refinement mapping of AS.
Mapping  == [v \in {u \in VAddr : Walk(u) # NoFrame} |-> Walk(v)]
Contents == Restrict(mem, owned \ Pending)

\* A step that changes no translation keeps the abstract map.
LEMMA MappingKept ==
  ASSUME \A u \in VAddr : Walk(u)' = Walk(u)
  PROVE  Mapping' = Mapping
  BY DEF Mapping

\* A step that writes to no page of a client keeps the abstract contents.
LEMMA ContentsKept ==
  ASSUME owned' \ Pending' = owned \ Pending,
         \A f \in owned \ Pending : mem'[f] = mem[f]
  PROVE  Contents' = Contents
  BY DEF Contents, Restrict

\* The refinement maps the initial states to the initial state of AS.
LEMMA RefinesInit == Init => AS!Init
<1> SUFFICES ASSUME Init PROVE AS!Init
  OBVIOUS
<1>1. IInv
  BY IInvInit
<1>2. \A v \in VAddr : Walk(v) = NoFrame
  BY <1>1 DEF IInv, Init, Sound, WalksOwned
<1> QED BY <1>2 DEF Init, AS!Init, AS!Restrict, Restrict, Pending, Ready

\* A step that keeps the map and the contents is a stutter.
LEMMA Stutters ==
  ASSUME ~oom, ~oom', Mapping' = Mapping, Contents' = Contents
  PROVE  UNCHANGED AS!asvars
  BY DEF Mapping, Contents, Restrict, AS!asvars, AS!Restrict

\* A page that is given back leaves the abstract contents.
LEMMA ContentsWithout ==
  ASSUME NEW f, owned' \ Pending' = (owned \ Pending) \ {f},
         \A h \in owned \ Pending : mem'[h] = mem[h]
  PROVE  Contents' = AS!Without(Contents, f)
  BY DEF Contents, Restrict, AS!Without, AS!Restrict

\* An address that no longer translates leaves the abstract map.
LEMMA MappingWithout ==
  ASSUME NEW v \in VAddr, NoFrame \notin Frame,
         \A u \in VAddr : Walk(u)' = IF u = v THEN NoFrame ELSE Walk(u)
  PROVE  Mapping' = AS!Without(Mapping, v)
<1>1. DOMAIN Mapping = {u \in VAddr : Walk(u) # NoFrame}
  BY DEF Mapping
<1>2. {u \in VAddr : Walk(u) # NoFrame}' = DOMAIN Mapping \ {v}
  BY <1>1
<1>3. Mapping' = [u \in DOMAIN Mapping \ {v} |-> Walk(u)]
  BY <1>1, <1>2 DEF Mapping
<1>4. AS!Without(Mapping, v) = [u \in DOMAIN Mapping \ {v} |-> Walk(u)]
  BY <1>1 DEF Mapping, AS!Without, AS!Restrict
<1> QED BY <1>3, <1>4

\* An address that now translates enters it.
LEMMA MappingWith ==
  ASSUME NEW v \in VAddr, NEW f, f # NoFrame,
         \A u \in VAddr : Walk(u)' = IF u = v THEN f ELSE Walk(u)
  PROVE  Mapping' = AS!With(Mapping, v, f)
<1>1. DOMAIN Mapping = {u \in VAddr : Walk(u) # NoFrame}
  BY DEF Mapping
<1>2. {u \in VAddr : Walk(u) # NoFrame}' = DOMAIN Mapping \cup {v}
  BY <1>1
<1>3. Mapping' = [u \in DOMAIN Mapping \cup {v} |-> IF u = v THEN f ELSE Walk(u)]
  BY <1>1, <1>2 DEF Mapping
<1>4. AS!With(Mapping, v, f) = [u \in DOMAIN Mapping \cup {v} |-> IF u = v THEN f ELSE Walk(u)]
  BY <1>1 DEF Mapping, AS!With
<1> QED BY <1>3, <1>4

\* Every step is one of AS, or a stutter.
LEMMA RefinesStep ==
  ASSUME EvenData, IInv, IInv', [Next]_vars
  PROVE  [AS!Next]_(AS!asvars)
<1> SUFFICES ASSUME ~oom' PROVE [AS!Next]_(AS!asvars)
  BY DEF AS!Next
<1>0. TypeOK /\ TypeOK' /\ MemType /\ MemType' /\ (~oom => Sound) /\ Sound' /\ NoFrame \notin Frame
  BY ConstantTypes DEF IInv, TypeOK, MemType
<1>1. CASE MapTable
  <2>1. \A u \in VAddr : Walk(u)' = Walk(u)
    BY <1>0, <1>1, MapTableStep
  <2>2. ~oom /\ Sound /\ owned' = owned /\ call' # Ready
    BY <1>0, <1>1 DEF MapTable, InMap, Ready
  <2>3. Pending' = Pending
    BY <1>1 DEF MapTable, InMap, Pending
  <2>4. \A f \in owned : mem'[f] = mem[f]
    <3>1. call \in MapCall /\ call.lvl \in 1 .. Top /\ call.lvl \in 0 .. Top
      BY <1>0, <1>1, ConstantTypes DEF MapTable, TypeOK, MapCall, Ready, Segfault, BadFree
    <3>2. call.pgt \in Tables
      <4>1. call.pgt = Path(call.v)[call.lvl] /\ call.v \in VAddr /\ call.pgt \in Frame
        BY <1>1, <2>2, <3>1 DEF Sound, CallOnPath, MapTable, MapCall
      <4>2. call.pgt \in TablesAt[call.lvl]
        BY <1>0, <3>1, <4>1, TreeHolds DEF Tree
      <4> QED BY <1>0, <3>1, <4>2, TreeHolds DEF Tree
    <3>3. call.pgt \notin owned
      BY <2>2, <3>2 DEF Sound, FramesSplit
    <3>4. \A f \in Frame : f # call.pgt => mem'[f] = mem[f]
      BY <1>0, <1>1 DEF MapTable, MemType
    <3> QED BY <1>0, <2>2, <3>3, <3>4, FreshPage
  <2>5. Contents' = Contents
    BY <2>2, <2>3, <2>4, ContentsKept
  <2> QED BY <2>1, <2>2, <2>5, MappingKept, Stutters
<1>2. CASE MapLeaf
  <2>1. \A u \in VAddr : Walk(u)' = IF u = call.v THEN call.pa ELSE Walk(u)
    BY <1>0, <1>2, MapLeafStep
  <2>2. ~oom /\ Sound /\ owned' = owned /\ call' = Ready /\ call.at = "map"
        /\ call.lvl = 0 /\ mem' = [mem EXCEPT ![call.pgt][call.v[0]] = Entry(call.pa)]
    BY <1>0, <1>2 DEF MapLeaf
  <2>3. PICK v \in VAddr, f \in Pool : v = call.v /\ f = call.pa /\ f \in owned /\ f # NoFrame
    <3>1. call \in MapCall
      BY <1>0, <2>2 DEF TypeOK, MapCall, Ready, Segfault, BadFree
    <3>2. call.v \in VAddr /\ call.pa \in owned
      BY <2>2, <3>1 DEF Sound, CallOnPath, MapCall
    <3>3. owned \subseteq Pool
      BY <1>0 DEF TypeOK
    <3> QED BY <3>2, <3>3, ConstantTypes
  <2>4. call.pgt \in Tables
    <3>1. call.pgt = LeafTable(v) /\ call.pgt \in Frame
      BY <1>0, <2>2, <2>3
      DEF Sound, CallOnPath, LeafTable, TypeOK, MapCall, Ready, Segfault, BadFree
    <3> QED BY <1>0, <3>1, WalkEntry
  <2>5. \A h \in owned : mem'[h] = mem[h]
    <3>1. call.pgt \notin owned
      BY <2>2, <2>4 DEF Sound, FramesSplit
    <3> QED BY <1>0, <2>2, <3>1, FreshPage DEF MemType
  <2>6. Walk(v) = NoFrame /\ Mapping' = AS!With(Mapping, v, f)
    <3>1. Walk(v) = NoFrame
      BY <2>2, <2>3 DEF Sound, CallOnPath
    <3>2. \A u \in VAddr : Walk(u)' = IF u = v THEN f ELSE Walk(u)
      BY <2>1, <2>3
    <3> QED BY <2>3, <3>1, <3>2, MappingWith
  <2>7. Pending' = {}
    BY <2>2 DEF Pending, Ready
  <2>8. CASE call.zeroed
    <3>1. Pending = {f} /\ mem[f] = ZeroPage
      BY <2>2, <2>3, <2>8 DEF Pending, Sound, CallOnPath
    <3>2. Contents' = AS!With(Contents, f, AS!ZeroPage)
      BY <2>2, <2>3, <2>5, <2>7, <3>1
      DEF Contents, Restrict, AS!With, AS!ZeroPage, ZeroPage
    <3>3. AS!Mmap(v, f)
      BY <2>6, <3>1, <3>2 DEF AS!Mmap, AS!Mapped, AS!InUse, Mapping, Contents, AS!Restrict, Restrict
    <3> QED BY <2>2, <2>3, <3>3 DEF AS!Next, AS!Promise
  <2>9. CASE ~call.zeroed
    <3>1. Pending = {}
      BY <2>9 DEF Pending
    <3>2. Contents' = Contents
      BY <2>2, <2>5, <2>7, <3>1, ContentsKept
    <3>3. AS!Map(v, f)
      BY <2>3, <2>6, <3>1, <3>2 DEF AS!Map, AS!Mapped, AS!InUse, Mapping, Contents, AS!Restrict, Restrict
    <3> QED BY <2>2, <2>3, <3>3 DEF AS!Next, AS!Promise
  <2> QED BY <2>8, <2>9
<1>4. CASE CallAllocPage
  <2>1. /\ ~oom /\ Sound /\ call = Ready /\ call' = Ready /\ UNCHANGED mem
        /\ owned' = owned \cup ({FirstFree} \ {0}) /\ FirstFree # 0
    BY <1>0, <1>4 DEF CallAllocPage, AllocPage, Idle
  <2>2. PICK f \in Pool : f = FirstFree /\ f \notin owned /\ owned' = owned \cup {f}
    BY <1>0, <2>1, FreshPage, FirstFreeIsFree
  <2>3. Pending = {} /\ Pending' = {}
    BY <2>1 DEF Pending, Ready
  <2>4. Mapping' = Mapping
    <3>1. \A u \in VAddr : Walk(u)' = Walk(u)
      BY <1>0, <2>1, TablesKept DEF Sound
    <3> QED BY <3>1, MappingKept
  <2>5. /\ Contents' = AS!With(Contents, f, Contents'[f])
        /\ f \notin DOMAIN Contents /\ f \in DOMAIN Contents'
    BY <2>1, <2>2, <2>3 DEF Contents, Restrict, AS!With
  <2>6. AS!Alloc(f)
    BY <2>4, <2>5 DEF AS!Alloc, AS!InUse, Mapping, Contents, AS!Restrict, Restrict
  <2> QED BY <2>1, <2>2, <2>6 DEF AS!Next, AS!Promise
<1>5. ASSUME NEW f \in Pool, CallFreePage(f) PROVE [AS!Next]_(AS!asvars)
  <2>1. /\ ~oom /\ Sound /\ call = Ready /\ UNCHANGED mem /\ f \in owned
        /\ owned' = owned \ {f} /\ \A u \in VAddr : Walk(u) # f
    BY <1>0, <1>5 DEF CallFreePage, Idle
  <2>2. Pending = {} /\ Pending' = {}
    BY <1>5, <2>1 DEF CallFreePage, FreePage, Pending, Ready, BadFree
  <2>3. Mapping' = Mapping
    <3>1. \A u \in VAddr : Walk(u)' = Walk(u)
      BY <1>0, <2>1, TablesKept DEF Sound
    <3> QED BY <3>1, MappingKept
  <2>4. Contents' = AS!Without(Contents, f)
    BY <2>1, <2>2, ContentsWithout
  <2>5. AS!Release(f)
    <3>1. f \in DOMAIN Contents
      BY <2>1, <2>2 DEF Contents, Restrict
    <3>2. f \notin AS!Range(Mapping)
      BY <2>1 DEF Mapping, AS!Range
    <3> QED BY <2>3, <2>4, <3>1, <3>2
            DEF AS!Release, AS!InUse, Mapping, Contents, AS!Restrict, Restrict
  <2> QED BY <2>1, <2>5 DEF AS!Next, AS!Promise
<1>6. ASSUME NEW v \in VAddr, CallMmap(v) \/ FaultAuto(v) PROVE [AS!Next]_(AS!asvars)
  <2>1. Mmap(v) /\ ~oom /\ Walk(v) = NoFrame /\ call = Ready
    BY <1>6 DEF CallMmap, FaultAuto, Translation, Idle
  <2>2. \A u \in VAddr : Walk(u)' = Walk(u)
    BY <1>0, <2>1, MmapStep
  <2>3. FirstFree \notin owned /\ FirstFree \in Pool
    BY <1>0, <2>1, FreshPage, FirstFreeIsFree DEF Mmap, AllocPage
  <2>4. /\ mem' = [mem EXCEPT ![FirstFree] = ZeroPage]
        /\ owned' = owned \cup {FirstFree}
        /\ Pending = {} /\ Pending' = {FirstFree}
    BY <2>1, <2>3, ConstantTypes DEF Mmap, Pending, InMap, Ready
  <2>5. Contents' = Contents
    BY <1>0, <2>3, <2>4, ContentsKept
  <2> QED BY <2>1, <2>2, <2>5, MappingKept, Stutters
<1>7. ASSUME NEW v \in VAddr, NEW f \in Pool, CallMapPage(v, f) PROVE [AS!Next]_(AS!asvars)
  <2>1. /\ ~oom /\ Sound /\ UNCHANGED <<mem, owned>>
        /\ call = Ready /\ call' = InMap(v, f, Levels - 1, Root, FALSE)
    BY <1>0, <1>7 DEF CallMapPage, Idle
  <2>2. Pending = {} /\ Pending' = {}
    BY <2>1 DEF Pending, Ready, InMap
  <2>3. \A u \in VAddr : Walk(u)' = Walk(u)
    BY <1>0, <2>1, TablesKept DEF Sound
  <2>4. Contents' = Contents
    BY <2>1, <2>2, ContentsKept
  <2> QED BY <2>1, <2>3, <2>4, MappingKept, Stutters
<1>8. ASSUME NEW v \in VAddr, CallUnmapPage(v) PROVE [AS!Next]_(AS!asvars)
  <2>1. /\ ~oom /\ Sound /\ owned' = owned /\ call = Ready /\ call' = Ready
        /\ Walk(v) # NoFrame /\ UnmapPage(v)
    BY <1>0, <1>8 DEF CallUnmapPage, Idle
  <2>2. /\ \A u \in VAddr : Walk(u)' = IF u = v THEN NoFrame ELSE Walk(u)
        /\ \A h \in Frame \ Tables : mem'[h] = mem[h]
    BY <1>0, <2>1, Unmapped
  <2>3. Pending = {} /\ Pending' = {} /\ owned \subseteq Frame \ Tables
    BY <1>0, <2>1, FreshPage DEF Pending, Ready, Sound, FramesSplit
  <2>4. Contents' = Contents
    BY <2>1, <2>2, <2>3, ContentsKept
  <2>5. Mapping' = AS!Without(Mapping, v)
    BY <1>0, <2>2, MappingWithout
  <2>6. AS!Unmap(v)
    BY <2>1, <2>4, <2>5 DEF AS!Unmap, AS!Mapped, Mapping, Contents, AS!Restrict, Restrict
  <2> QED BY <2>1, <2>6 DEF AS!Next, AS!Promise
<1>9. ASSUME NEW v \in VAddr, CallMunmap(v) PROVE [AS!Next]_(AS!asvars)
  <2>1. /\ ~oom /\ Sound /\ owned' = owned \ {Walk(v)} /\ call = Ready /\ call' \in {Ready, BadFree}
        /\ Walk(v) # NoFrame /\ UnmapPage(v)
        /\ \A u \in VAddr \ {v} : Walk(u) # Walk(v)
    BY <1>0, <1>9 DEF CallMunmap, Idle, FreePage
  <2>2. /\ \A u \in VAddr : Walk(u)' = IF u = v THEN NoFrame ELSE Walk(u)
        /\ \A h \in Frame \ Tables : mem'[h] = mem[h]
    BY <1>0, <2>1, Unmapped
  <2>3. Pending = {} /\ Pending' = {} /\ owned \subseteq Frame \ Tables
    BY <1>0, <2>1, FreshPage DEF Pending, Ready, BadFree, Sound, FramesSplit
  <2>4. PICK f \in Frame : f = Walk(v)
    BY <1>0, <2>1, WalkEntry
  <2>5. Contents' = AS!Without(Contents, f)
    BY <2>1, <2>2, <2>3, <2>4, ContentsWithout
  <2>6. Mapping' = AS!Without(Mapping, v)
    BY <1>0, <2>2, MappingWithout
  <2>7. /\ v \in DOMAIN Mapping /\ Mapping[v] = f
        /\ \A u \in DOMAIN Mapping \ {v} : Mapping[u] # Mapping[v]
    BY <2>1, <2>4 DEF Mapping
  <2>8. AS!Munmap(v)
    BY <2>5, <2>6, <2>7 DEF AS!Munmap, AS!Mapped, Mapping, Contents, AS!Restrict, Restrict
  <2> QED BY <2>1, <2>8 DEF AS!Next, AS!Promise
<1>10. ASSUME NEW v \in VAddr, NEW i \in StoreIdx, NEW w \in DataWords, Store(v, i, w)
       PROVE  [AS!Next]_(AS!asvars)
  <2>1. ~oom /\ Sound /\ UNCHANGED <<owned, call>> /\ call = Ready
        /\ mem' = [mem EXCEPT ![Translation(v)][i] = w] /\ Translation(v) # NoFrame
    BY <1>0, <1>10 DEF Store, Idle
  <2>2. /\ \A u \in VAddr : Walk(u)' = Walk(u)
        /\ Translation(v) = Walk(v) /\ Walk(v) \in owned
    BY <1>0, <1>10, StoreStep
  <2>3. PICK f \in owned : f = Walk(v)
    BY <2>2
  <2>4. Pending = {} /\ Pending' = {} /\ owned \subseteq Frame
    BY <1>0, <2>1, FreshPage DEF Pending, Ready
  <2>5. Contents' = [Contents EXCEPT ![f][i] = w]
    BY <1>0, <2>1, <2>2, <2>3, <2>4 DEF Contents, Restrict, MemType
  <2>6. v \in DOMAIN Mapping /\ Mapping[v] = f
    BY <2>1, <2>2, <2>3 DEF Mapping
  <2>7. AS!Store(v, i, w)
    BY <2>2, <2>5, <2>6, MappingKept DEF AS!Store, AS!Mapped, Mapping, Contents, AS!Restrict, Restrict
  <2>8. i \in Idx /\ w \in Word
    BY PagingAssumption
  <2> QED BY <2>1, <2>7, <2>8 DEF AS!Next, AS!Promise
<1>11. ASSUME NEW v \in VAddr, Evict(v) \/ FaultManual(v) PROVE [AS!Next]_(AS!asvars)
  <2>1. ~oom /\ Sound /\ UNCHANGED <<mem, owned>> /\ call = Ready /\ call' \in {Ready, Segfault}
    BY <1>0, <1>11 DEF Evict, FaultManual, Idle
  <2>2. Pending = {} /\ Pending' = {}
    BY <2>1 DEF Pending, Ready, Segfault
  <2>3. \A u \in VAddr : Walk(u)' = Walk(u)
    BY <1>0, <2>1, TablesKept DEF Sound
  <2>4. Contents' = Contents
    BY <2>1, <2>2, ContentsKept
  <2> QED BY <2>1, <2>3, <2>4, MappingKept, Stutters
<1>12. CASE UNCHANGED vars
  <2>1. ~oom /\ Sound /\ UNCHANGED <<mem, owned, call>>
    BY <1>0, <1>12 DEF vars
  <2>2. Pending' = Pending
    BY <2>1 DEF Pending
  <2>3. \A u \in VAddr : Walk(u)' = Walk(u)
    BY <1>0, <2>1, TablesKept DEF Sound
  <2>4. Contents' = Contents
    BY <2>1, <2>2, ContentsKept
  <2> QED BY <2>1, <2>3, <2>4, MappingKept, Stutters
<1> QED
  BY <1>1, <1>2, <1>4, <1>5, <1>6, <1>7, <1>8, <1>9, <1>10, <1>11, <1>12
  DEF Next, Stopped

\* The memory manager keeps the promise of AddressSpace: an operation on one
\* address changes no other, mmap() gives clean pages, a store reaches the
\* mapped page and nothing else.
THEOREM ImplementsAddressSpace == ASSUME EvenData PROVE Spec => Refinement
<1>1. Init => AS!Init
  BY RefinesInit
<1>2. IInv /\ IInv' /\ [Next]_vars => [AS!Next]_(AS!asvars)
  BY RefinesStep
<1> QED BY <1>1, <1>2, Invariance, PTL DEF Spec, Refinement, AS!Spec
=============================================================================
