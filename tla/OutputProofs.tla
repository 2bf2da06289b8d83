---------------------------- MODULE OutputProofs ----------------------------
(***************************************************************************)
(* Theorems about what the two kernels print and where it appears.  About  *)
(* VgaConsole, for every size of the screen and every alphabet: the cursor *)
(* stays on the screen, and the console implements the terminal.  About    *)
(* Printk, for every width of an int and of a long and every list of calls *)
(* of the kernel, whatever their formats, their arguments and the sizes of *)
(* their buffers: each prints what its items show, and no format is read   *)
(* past its end.  About SieveTask, for every MAX_SEARCH and every size of  *)
(* a page: the array holds what the primes sieved so far leave, and the    *)
(* task says that it found the primes.                                     *)
(***************************************************************************)
EXTENDS VgaConsole, SieveTask, FiniteSetTheorems, SequenceTheorems, WellFoundedInduction, TLAPS

-----------------------------------------------------------------------------
(* Quotients and remainders.                                               *)

LEMMA DivMod ==
  ASSUME NEW n \in Nat, NEW c \in Nat \ {0}
  PROVE  /\ n \div c \in Nat
         /\ n % c \in 0 .. c - 1
         /\ n = (n \div c) * c + (n % c)
  BY SMTT(20)

LEMMA DivUnique ==
  ASSUME NEW c \in Nat \ {0}, NEW q \in Nat, NEW r \in 0 .. c - 1
  PROVE  (q * c + r) \div c = q /\ (q * c + r) % c = r
  BY SMTT(20)

LEMMA MulMonotone ==
  ASSUME NEW a \in Nat, NEW b \in Nat, NEW c \in Nat, a <= b
  PROVE  a * c <= b * c
  BY SMT

\* Column k of row r is a cell, and every cell is one of those.
LEMMA CellOfRow ==
  ASSUME NEW r \in 0 .. Lines - 1, NEW k \in 0 .. Columns - 1
  PROVE  r * Columns + k \in Cell
<1>1. r * Columns <= (Lines - 1) * Columns
  BY MulMonotone, ConsoleAssumption
<1>2. (Lines - 1) * Columns = Size - Columns
  BY ConsoleAssumption DEF Size
<1>3. r * Columns \in Nat /\ Size \in Nat
  BY ConsoleAssumption DEF Size
<1> QED BY <1>1, <1>2, <1>3, ConsoleAssumption DEF Cell

LEMMA RowOfCell ==
  ASSUME NEW n \in Cell
  PROVE  /\ n \div Columns \in 0 .. Lines - 1
         /\ n % Columns \in 0 .. Columns - 1
         /\ n = (n \div Columns) * Columns + (n % Columns)
<1>1. n \in Nat /\ Columns \in Nat \ {0} /\ Size \in Nat /\ n < Size
  BY ConsoleAssumption DEF Cell, Size
<1>2. n \div Columns \in Nat /\ n % Columns \in 0 .. Columns - 1
      /\ n = (n \div Columns) * Columns + (n % Columns)
  BY <1>1, DivMod
<1>3. n \div Columns < Lines
  <2> SUFFICES ASSUME Lines <= n \div Columns PROVE FALSE
    BY <1>2, ConsoleAssumption
  <2>1. Lines * Columns <= (n \div Columns) * Columns
    BY <1>2, MulMonotone, ConsoleAssumption
  <2> QED BY <1>1, <1>2, <2>1 DEF Size
<1> QED BY <1>2, <1>3, ConsoleAssumption

-----------------------------------------------------------------------------
(* Where putc() moves the cursor.                                          *)

Input == Char \cup {"\n", "\r", "\t"}

\* Before it checks for the end of the screen, putc() is less than one line
\* past it.
LEMMA AfterBound ==
  ASSUME NEW n \in Cell, NEW c \in Input
  PROVE  After(n, c) \in Nat /\ After(n, c) < Size + Columns
<1>1. n \in Nat /\ Size \in Nat /\ n < Size /\ Columns \in Nat \ {0} /\ Tab \in Nat \ {0}
      /\ Tab < Columns
  BY ConsoleAssumption DEF Cell, Size
<1>2. CASE c = "\n"
  <2>1. After(n, c) = ((n + Columns) \div Columns) * Columns
    BY <1>2 DEF After
  <2>2. PICK q \in Nat, r \in 0 .. Columns - 1 :
          q = (n + Columns) \div Columns /\ n + Columns = q * Columns + r
    <3>1. n + Columns \in Nat
      BY <1>1
    <3> QED BY <1>1, <3>1, DivMod, Zenon
  <2>3. After(n, c) = q * Columns
    BY <2>1, <2>2, Zenon
  <2> QED BY <1>1, <2>2, <2>3
<1>3. CASE c = "\r"
  <2>1. After(n, c) = (n \div Columns) * Columns
    BY <1>3 DEF After
  <2>2. /\ n \div Columns \in Nat
        /\ n % Columns \in 0 .. Columns - 1
        /\ n = (n \div Columns) * Columns + (n % Columns)
    BY <1>1, DivMod
  <2> QED BY <1>1, <2>1, <2>2
<1>4. CASE c = "\t"
  <2>1. After(n, c) = ((n + 1) \div Tab) * Tab + Tab
    BY <1>4 DEF After
  <2>2. PICK q \in Nat, r \in 0 .. Tab - 1 :
          q = (n + 1) \div Tab /\ n + 1 = q * Tab + r
    <3>1. n + 1 \in Nat
      BY <1>1
    <3> QED BY <1>1, <3>1, DivMod, Zenon
  <2>3. After(n, c) = q * Tab + Tab
    BY <2>1, <2>2, Zenon
  <2> QED BY <1>1, <2>2, <2>3
<1>5. CASE c \in Char
  <2>1. After(n, c) = n + 1
    BY <1>5, ConsoleAssumption DEF After
  <2> QED BY <1>1, <2>1
<1> QED BY <1>2, <1>3, <1>4, <1>5 DEF Input

LEMMA ScrollType ==
  ASSUME NEW s \in [Cell -> Char \cup {Blank}]
  PROVE  Scroll(s) \in [Cell -> Char \cup {Blank}]
<1>1. ASSUME NEW i \in Cell, i < Size - Columns
      PROVE  i + Columns \in Cell
  BY <1>1, ConsoleAssumption DEF Cell, Size
<1> QED BY <1>1 DEF Scroll

LEMMA WrittenType ==
  ASSUME TypeOK, NEW c \in Input
  PROVE  Written(cursor, c) \in [Cell -> Char \cup {Blank}]
  BY DEF TypeOK, Written

-----------------------------------------------------------------------------
\* putc() writes at the cursor without a check (vga.c:77), and scrolls by one
\* line at the most (vga.c:81): the cursor never leaves the screen.
THEOREM TypeCorrect == Spec => []TypeOK
<1>1. Init => TypeOK
  <2> SUFFICES ASSUME Init PROVE TypeOK
    OBVIOUS
  <2>1. 0 \in 0 .. Lines - 1 /\ 0 \in 0 .. Columns - 1 /\ 0 * Columns + 0 = 0
    BY ConsoleAssumption
  <2>2. 0 \in Cell
    BY <2>1, CellOfRow
  <2> QED BY <2>2 DEF Init, TypeOK
<1>2. TypeOK /\ [Next]_vars => TypeOK'
  <2> SUFFICES ASSUME TypeOK, [Next]_vars PROVE TypeOK'
    OBVIOUS
  <2>1. CASE Clear
    <3>1. 0 \in 0 .. Lines - 1 /\ 0 \in 0 .. Columns - 1 /\ 0 * Columns + 0 = 0
      BY ConsoleAssumption
    <3>2. 0 \in Cell
      BY <3>1, CellOfRow
    <3> QED BY <2>1, <3>2 DEF Clear, TypeOK
  <2>2. ASSUME NEW c \in Input, Putc(c) PROVE TypeOK'
    <3> DEFINE n == After(cursor, c)
    <3>1. n \in Nat /\ n < Size + Columns
      BY AfterBound DEF TypeOK
    <3>2. Written(cursor, c) \in [Cell -> Char \cup {Blank}]
      BY WrittenType
    <3>3. Scroll(Written(cursor, c)) \in [Cell -> Char \cup {Blank}]
      BY <3>2, ScrollType
    <3>4. Size \in Nat /\ Columns \in Nat /\ Size >= Columns
      <4>1. 1 * Columns <= Lines * Columns
        BY MulMonotone, ConsoleAssumption
      <4> QED BY <4>1, ConsoleAssumption DEF Size
    <3>5. screen' \in [Cell -> Char \cup {Blank}]
      BY <2>2, <3>2, <3>3 DEF Putc
    <3>6. cursor' \in Cell
      <4> HIDE DEF n
      <4>1. cursor' = IF n >= Size THEN n - Columns ELSE n
        BY <2>2 DEF Putc, n
      <4> QED BY <3>1, <3>4, <4>1 DEF Cell
    <3> QED BY <3>5, <3>6 DEF TypeOK
  <2>3. CASE UNCHANGED vars
    BY <2>3 DEF vars, TypeOK
  <2> QED BY <2>1, <2>2, <2>3 DEF Next, Input
<1> QED BY <1>1, <1>2, PTL DEF Spec

-----------------------------------------------------------------------------
(* The screen as the page of the terminal.                                 *)

Page(s) == [r \in 0 .. Lines - 1 |-> [k \in 0 .. Columns - 1 |-> s[r * Columns + k]]]

LEMMA PageType ==
  ASSUME NEW s \in [Cell -> Char \cup {Blank}]
  PROVE  Page(s) \in [0 .. Lines - 1 -> TM!Row]
  BY CellOfRow DEF Page, TM!Row

\* Scrolling moves the page up.
LEMMA PageScroll ==
  ASSUME NEW s \in [Cell -> Char \cup {Blank}]
  PROVE  Page(Scroll(s)) = TM!MoveUp(Page(s))
<1> SUFFICES ASSUME NEW r \in 0 .. Lines - 1
             PROVE  Page(Scroll(s))[r] = TM!MoveUp(Page(s))[r]
  BY DEF Page, TM!MoveUp
<1> DEFINE up == IF r < Lines - 1 THEN Page(s)[r + 1] ELSE TM!BlankRow
<1>1. TM!MoveUp(Page(s))[r] = up
  BY DEF TM!MoveUp
<1>2. ASSUME NEW k \in 0 .. Columns - 1
      PROVE  Page(Scroll(s))[r][k] = up[k]
  <2>1. r * Columns + k \in Cell
    BY CellOfRow
  <2>2. Page(Scroll(s))[r][k] =
          IF r * Columns + k < Size - Columns THEN s[(r * Columns + k) + Columns] ELSE Blank
    BY <2>1 DEF Page, Scroll
  <2>3. CASE r < Lines - 1
    <3>1. r + 1 \in 0 .. Lines - 1 /\ (r + 1) * Columns = r * Columns + Columns
      BY <2>3, ConsoleAssumption
    <3>2. (r + 1) * Columns + k \in Cell
      BY <3>1, CellOfRow
    <3>3. r * Columns + k < Size - Columns
      BY <2>1, <3>1, <3>2, ConsoleAssumption DEF Cell, Size
    <3>4. up[k] = s[(r + 1) * Columns + k]
      BY <2>3, <3>1 DEF Page
    <3>5. (r * Columns + k) + Columns = (r + 1) * Columns + k
      BY <2>1, <3>1, ConsoleAssumption DEF Cell
    <3> QED BY <2>2, <3>3, <3>4, <3>5
  <2>4. CASE ~(r < Lines - 1)
    <3>1. r = Lines - 1
      BY <2>4, ConsoleAssumption
    <3>2. r * Columns = Size - Columns
      BY <3>1, ConsoleAssumption DEF Size
    <3>3. ~(r * Columns + k < Size - Columns)
      BY <2>1, <3>2, ConsoleAssumption DEF Cell, Size
    <3>4. up[k] = Blank
      BY <2>4 DEF TM!BlankRow
    <3> QED BY <2>2, <3>3, <3>4
  <2> QED BY <2>3, <2>4
<1>3. Page(Scroll(s))[r] = [k \in 0 .. Columns - 1 |-> Page(Scroll(s))[r][k]]
  BY DEF Page
<1>4. up = [k \in 0 .. Columns - 1 |-> up[k]]
  <2>1. CASE r < Lines - 1
    <3>1. r + 1 \in 0 .. Lines - 1
      BY <2>1, ConsoleAssumption
    <3>2. up = [k \in 0 .. Columns - 1 |-> s[(r + 1) * Columns + k]]
      BY <2>1, <3>1 DEF Page
    <3> QED BY <3>2
  <2>2. CASE ~(r < Lines - 1)
    <3>1. up = [k \in 0 .. Columns - 1 |-> Blank]
      BY <2>2 DEF TM!BlankRow
    <3> QED BY <3>1
  <2> QED BY <2>1, <2>2
<1> HIDE DEF up
<1> QED BY <1>1, <1>2, <1>3, <1>4

\* The cell n is the one of its row and column, and no other.
LEMMA SameCell ==
  ASSUME NEW n \in Cell, NEW r \in 0 .. Lines - 1, NEW k \in 0 .. Columns - 1
  PROVE  r * Columns + k = n <=> r = n \div Columns /\ k = n % Columns
<1>1. n = (n \div Columns) * Columns + (n % Columns)
  BY RowOfCell
<1>2. ASSUME r = n \div Columns, k = n % Columns PROVE r * Columns + k = n
  BY <1>1, <1>2, Zenon
<1>3. ASSUME r * Columns + k = n PROVE r = n \div Columns /\ k = n % Columns
  <2>1. (r * Columns + k) \div Columns = r /\ (r * Columns + k) % Columns = k
    BY DivUnique, ConsoleAssumption
  <2> QED BY <1>3, <2>1, Zenon
<1> QED BY <1>2, <1>3, Zenon

-----------------------------------------------------------------------------
(* Every step of the console is one of the terminal.                       *)

\* MoveTo(p, r, k) of the terminal, from what it leads to: page q, row i,
\* column j.
Moved(p, r, k, q, i, j) ==
  LET below == IF k >= Columns THEN 1 ELSE 0
      over  == r + below = Lines
  IN  /\ q = IF over THEN TM!MoveUp(p) ELSE p
      /\ i = IF over THEN r ELSE r + below
      /\ j = k - below * Columns

\* Moving to k cells after the beginning of row r, with text s.
LEMMA Arrive ==
  ASSUME NEW s \in [Cell -> Char \cup {Blank}], NEW r \in 0 .. Lines - 1,
         NEW k \in 0 .. 2 * Columns - 1, NEW n, n = r * Columns + k,
         screen' = IF n >= Size THEN Scroll(s) ELSE s,
         cursor' = IF n >= Size THEN n - Columns ELSE n
  PROVE  Moved(Page(s), r, k, Page(screen'), cursor' \div Columns, cursor' % Columns)
<1> DEFINE below == IF k >= Columns THEN 1 ELSE 0
           over  == r + below = Lines
<1>1. /\ r * Columns \in Nat /\ Columns \in Nat \ {0} /\ Size \in Nat
      /\ Size = (Lines - 1) * Columns + Columns
  BY ConsoleAssumption DEF Size
<1>2. n >= Size <=> over
  <2>1. CASE r = Lines - 1
    BY <1>1, <2>1, ConsoleAssumption
  <2>2. CASE r < Lines - 1
    <3>1. (r + 1) * Columns <= (Lines - 1) * Columns
      BY <2>2, MulMonotone, ConsoleAssumption
    <3>2. (r + 1) * Columns = r * Columns + Columns
      BY ConsoleAssumption
    <3> QED BY <1>1, <2>2, <3>1, <3>2, ConsoleAssumption
  <2> QED BY <2>1, <2>2, ConsoleAssumption
<1>3. \A q \in Nat : \A e \in 0 .. Columns - 1 :
        (q * Columns + e) \div Columns = q /\ (q * Columns + e) % Columns = e
  BY <1>1, DivUnique
<1>4. Moved(Page(s), r, k, Page(screen'), cursor' \div Columns, cursor' % Columns) <=>
        /\ Page(screen') = IF over THEN TM!MoveUp(Page(s)) ELSE Page(s)
        /\ cursor' \div Columns = IF over THEN r ELSE r + below
        /\ cursor' % Columns = k - below * Columns
  BY Zenon DEF Moved
<1>5. CASE over
  <2>1. below = 1 /\ k - below * Columns \in 0 .. Columns - 1
    BY <1>1, <1>5, ConsoleAssumption
  <2>2. cursor' = r * Columns + (k - below * Columns)
    BY <1>1, <1>2, <1>5, <2>1
  <2>3. cursor' \div Columns = r /\ cursor' % Columns = k - below * Columns
    <3>1. r \in Nat
      BY ConsoleAssumption
    <3> HIDE DEF below
    <3> QED BY <1>3, <2>1, <2>2, <3>1, Zenon
  <2>4. Page(screen') = TM!MoveUp(Page(s))
    <3>1. screen' = Scroll(s)
      BY <1>2, <1>5, Zenon
    <3> QED BY <3>1, PageScroll, Zenon
  <2> HIDE DEF below, over
  <2> QED BY <1>4, <1>5, <2>3, <2>4, Zenon
<1>6. CASE ~over
  <2>1. screen' = s /\ cursor' = r * Columns + k
    BY <1>2, <1>6
  <2>2. r + below \in Nat /\ k - below * Columns \in 0 .. Columns - 1
    BY <1>1, ConsoleAssumption
  <2>3. cursor' = (r + below) * Columns + (k - below * Columns)
    BY <1>1, <2>1, ConsoleAssumption
  <2>4. cursor' \div Columns = r + below /\ cursor' % Columns = k - below * Columns
    <3> HIDE DEF below
    <3> QED BY <1>3, <2>2, <2>3, Zenon
  <2> HIDE DEF below, over
  <2> QED BY <1>4, <1>6, <2>1, <2>4, Zenon
<1> QED BY <1>5, <1>6

\* A step of putc(), in terms of the position that it moves to.
LEMMA PutcMoves ==
  ASSUME TypeOK, NEW c \in Input, Putc(c),
         NEW r \in 0 .. Lines - 1, NEW k \in 0 .. 2 * Columns - 1,
         After(cursor, c) = r * Columns + k
  PROVE  Moved(Page(Written(cursor, c)), r, k,
               Page(screen'), cursor' \div Columns, cursor' % Columns)
<1>1. Written(cursor, c) \in [Cell -> Char \cup {Blank}]
  BY WrittenType
<1>2. /\ screen' = IF After(cursor, c) >= Size THEN Scroll(Written(cursor, c))
                   ELSE Written(cursor, c)
      /\ cursor' = IF After(cursor, c) >= Size THEN After(cursor, c) - Columns
                   ELSE After(cursor, c)
  BY Zenon DEF Putc
<1> QED BY <1>1, <1>2, Arrive, Zenon

\* Every character has the effect that the terminal promises, with the page
\* moved up by one row exactly when the text goes past the last one.
LEMMA PutcRefines ==
  ASSUME TypeOK, NEW c \in Input, Putc(c)
  PROVE  TM!TNext
<1> DEFINE r == cursor \div Columns
           d == cursor % Columns
<1>1. r \in 0 .. Lines - 1 /\ d \in 0 .. Columns - 1 /\ cursor = r * Columns + d
  BY RowOfCell, Zenon DEF TypeOK
<1> HIDE DEF r, d
<1>2. /\ r * Columns \in Nat /\ Columns \in Nat \ {0} /\ Tab \in Nat \ {0}
      /\ Tab < Columns /\ cursor \in Nat
  BY <1>1, ConsoleAssumption
<1>3. CASE c = "\n"
  <2>1. (cursor + Columns) \div Columns = r + 1
    <3>1. cursor + Columns = (r + 1) * Columns + d
      BY <1>1, <1>2
    <3>2. r + 1 \in Nat
      BY <1>1
    <3>3. ((r + 1) * Columns + d) \div Columns = r + 1
      BY <1>1, <1>2, <3>2, DivUnique
    <3> QED BY <3>1, <3>3, Zenon
  <2>2. After(cursor, c) = (r + 1) * Columns
    BY <1>3, <2>1, Zenon DEF After
  <2>3. After(cursor, c) = r * Columns + Columns /\ Columns \in 0 .. 2 * Columns - 1
    BY <1>1, <1>2, <2>2
  <2>4. Written(cursor, c) = screen
    BY <1>3, ConsoleAssumption DEF Written
  <2>5. Moved(Page(screen), r, Columns,
             Page(screen'), cursor' \div Columns, cursor' % Columns)
    BY <1>1, <2>3, <2>4, PutcMoves
  <2>6. TM!NewLine
    BY <2>5, Zenon DEF TM!NewLine, TM!MoveTo, Moved, Page, r
  <2> QED BY <2>6, Zenon DEF TM!TNext
<1>4. CASE c = "\r"
  <2>1. After(cursor, c) = r * Columns
    BY <1>4, Zenon DEF After, r
  <2>2. After(cursor, c) = r * Columns + 0 /\ 0 \in 0 .. 2 * Columns - 1
    BY <1>2, <2>1
  <2>3. Written(cursor, c) = screen
    BY <1>4, ConsoleAssumption DEF Written
  <2>4. Moved(Page(screen), r, 0,
             Page(screen'), cursor' \div Columns, cursor' % Columns)
    BY <1>1, <2>2, <2>3, PutcMoves
  <2>5. TM!Return
    BY <2>4, Zenon DEF TM!Return, TM!MoveTo, Moved, Page, r
  <2> QED BY <2>5, Zenon DEF TM!TNext
<1>5. CASE c = "\t"
  <2>1. PICK q \in Nat, e \in 0 .. Tab - 1 :
          q = (cursor + 1) \div Tab /\ cursor + 1 = q * Tab + e
    <3>1. cursor + 1 \in Nat
      BY <1>2
    <3> QED BY <1>2, <3>1, DivMod, Zenon
  <2> DEFINE k == Tab + 1 - e
  <2>2. k \in 1 .. Tab + 1 /\ d + k \in 0 .. 2 * Columns - 1
    BY <1>1, <1>2, <2>1
  <2>3. After(cursor, c) = q * Tab + Tab
    BY <1>5, <2>1, Zenon DEF After
  <2>4. After(cursor, c) = r * Columns + (d + k)
    BY <1>1, <1>2, <2>1, <2>3
  <2>5. (r * Columns + d + k) % Tab = 0
    <3>1. r * Columns + d + k = (q + 1) * Tab + 0
      BY <1>1, <1>2, <2>1
    <3>2. q + 1 \in Nat /\ 0 \in 0 .. Tab - 1
      BY <1>2, <2>1
    <3>3. ((q + 1) * Tab + 0) % Tab = 0
      BY <1>2, <3>2, DivUnique
    <3> QED BY <3>1, <3>3, Zenon
  <2>6. Written(cursor, c) = screen
    BY <1>5, ConsoleAssumption DEF Written
  <2> HIDE DEF k
  <2>7. Moved(Page(screen), r, d + k,
             Page(screen'), cursor' \div Columns, cursor' % Columns)
    BY <1>1, <2>2, <2>4, <2>6, PutcMoves
  <2>8. TM!Tabulate
    BY <2>2, <2>5, <2>7, Zenon DEF TM!Tabulate, TM!MoveTo, Moved, Page, r, d
  <2> QED BY <2>8, Zenon DEF TM!TNext
<1>6. CASE c \in Char
  <2>1. After(cursor, c) = cursor + 1
    BY <1>6, ConsoleAssumption DEF After
  <2>2. After(cursor, c) = r * Columns + (d + 1) /\ d + 1 \in 0 .. 2 * Columns - 1
    BY <1>1, <1>2, <2>1
  <2>3. Written(cursor, c) = [screen EXCEPT ![cursor] = c]
    BY <1>6 DEF Written
  <2>4. Page(Written(cursor, c)) = [Page(screen) EXCEPT ![r][d] = c]
    <3> DEFINE q == [i \in 0 .. Lines - 1 |-> [j \in 0 .. Columns - 1 |->
                       IF i = r /\ j = d THEN c ELSE screen[i * Columns + j]]]
    <3>1. ASSUME NEW i \in 0 .. Lines - 1, NEW j \in 0 .. Columns - 1
          PROVE  Written(cursor, c)[i * Columns + j] =
                   IF i = r /\ j = d THEN c ELSE screen[i * Columns + j]
      <4>1. i * Columns + j = cursor <=> i = r /\ j = d
        BY SameCell, Zenon DEF TypeOK, r, d
      <4>2. i * Columns + j \in Cell
        BY CellOfRow
      <4> QED BY <2>3, <4>1, <4>2 DEF TypeOK
    <3>2. Page(Written(cursor, c)) = q
      BY <3>1 DEF Page
    <3>3. [Page(screen) EXCEPT ![r][d] = c] = q
      BY <1>1 DEF Page
    <3> HIDE DEF q
    <3> QED BY <3>2, <3>3, Zenon
  <2>5. Moved([Page(screen) EXCEPT ![r][d] = c], r, d + 1,
             Page(screen'), cursor' \div Columns, cursor' % Columns)
    BY <1>1, <2>2, <2>4, PutcMoves
  <2>6. TM!Show(c)
    BY <2>5, Zenon DEF TM!Show, TM!MoveTo, Moved, Page, r, d
  <2> QED BY <1>6, <2>6, Zenon DEF TM!TNext
<1> QED BY <1>3, <1>4, <1>5, <1>6 DEF Input

\* The console is the terminal that its users see (vga.c:62), for every size
\* of the screen.
THEOREM ConsoleImplementsTerminal == Spec => Refinement
<1>1. 0 \div Columns = 0 /\ 0 % Columns = 0
  BY ConsoleAssumption, SMT
<1>2. 0 \in 0 .. Lines - 1 /\ 0 \in 0 .. Columns - 1
  BY ConsoleAssumption
<1>3. Init => TM!TInit
  <2> SUFFICES ASSUME Init PROVE TM!TInit
    OBVIOUS
  <2>1. screen \in [Cell -> Char \cup {Blank}] /\ cursor = 0
    BY DEF Init
  <2>2. Page(screen) \in [0 .. Lines - 1 -> TM!Row]
    BY <2>1, PageType
  <2> QED BY <1>1, <2>1, <2>2, Zenon DEF TM!TInit, Page
<1>4. TypeOK /\ [Next]_vars => [TM!TNext]_TM!tvars
  <2> SUFFICES ASSUME TypeOK, [Next]_vars PROVE [TM!TNext]_TM!tvars
    OBVIOUS
  <2>1. CASE Clear
    <3>1. screen' = [i \in Cell |-> Blank] /\ cursor' = 0
      BY <2>1 DEF Clear
    <3>2. Page(screen') = [r \in 0 .. Lines - 1 |-> TM!BlankRow]
      BY <3>1, CellOfRow DEF Page, TM!BlankRow
    <3>3. TM!Erase
      BY <1>1, <3>1, <3>2, Zenon DEF TM!Erase, Page
    <3> QED BY <3>3, Zenon DEF TM!TNext
  <2>2. ASSUME NEW c \in Input, Putc(c) PROVE TM!TNext
    BY <2>2, PutcRefines
  <2>3. CASE UNCHANGED vars
    BY <2>3, Zenon DEF vars, TM!tvars
  <2> QED BY <2>1, <2>2, <2>3, Zenon DEF Next, Input
<1> QED BY <1>3, <1>4, TypeCorrect, PTL DEF Spec, Refinement, TM!TSpec

-----------------------------------------------------------------------------
(* Induction, and functions that are defined by it.                        *)

\* A set of naturals that is not empty has a least element.
LEMMA LeastOfNat ==
  ASSUME NEW T, T \subseteq Nat, T # {}
  PROVE  \E m \in T : \A k \in T : m <= k
<1> DEFINE R == {ss \in Nat \X Nat : ss[1] < ss[2]}
<1>1. IsWellFoundedOn(R, Nat)
  BY NatLessThanWellFounded DEF OpToRel
<1>2. PICK x \in T : \A y \in T : ~ (<<y, x>> \in R)
  <2> HIDE DEF R
  <2> QED BY <1>1, WFMin
<1>3. ASSUME NEW k \in T PROVE x <= k
  <2>1. <<k, x>> \notin R
    BY <1>2
  <2>2. <<k, x>> \in Nat \X Nat
    OBVIOUS
  <2>3. ~ (k < x)
    BY <2>1, <2>2
  <2> QED BY <2>3
<1> QED BY <1>3

\* What holds of 0, and of l + 1 when it holds of l, holds up to n.
LEMMA UpInduction ==
  ASSUME NEW n \in Nat, NEW S, 0 \in S,
         \A l \in 0 .. n - 1 : l \in S => l + 1 \in S
  PROVE  \A l \in 0 .. n : l \in S
<1> DEFINE B == {k \in 0 .. n : k \notin S}
<1> SUFFICES ASSUME B # {} PROVE FALSE
  OBVIOUS
<1>1. PICK m \in B : \A k \in B : m <= k
  <2> B \subseteq Nat
    OBVIOUS
  <2> HIDE DEF B
  <2> QED BY LeastOfNat
<1>2. m # 0 /\ m \in 0 .. n /\ m \notin S
  OBVIOUS
<1>3. m - 1 \in 0 .. n - 1 /\ m - 1 \notin B /\ (m - 1) + 1 = m
  BY <1>1, <1>2
<1>4. m - 1 \in S
  BY <1>3
<1> QED BY <1>2, <1>3, <1>4

\* f[n] is computed from the f[h[n]] below it, or given.
Follows(f, N, D, h, G, v) ==
  \A n \in 0 .. N : f[n] = IF n \in D THEN G[<<n, f[h[n]]>>] ELSE v[n]

\* Every recursive function on an interval exists.
LEMMA RecursionExists ==
  ASSUME NEW N \in Nat, NEW V, NEW D, NEW h,
         \A n \in 0 .. N : n \in D => n # 0 /\ h[n] \in 0 .. n - 1,
         NEW G, \A n \in 0 .. N : \A x \in V : n \in D => G[<<n, x>>] \in V,
         NEW v, \A n \in 0 .. N : n \notin D => v[n] \in V
  PROVE  \E f \in [0 .. N -> V] : Follows(f, N, D, h, G, v)
<1> DEFINE S == {m \in 0 .. N : \E f \in [0 .. m -> V] : Follows(f, m, D, h, G, v)}
<1>1. 0 \in S
  <2> DEFINE g == [k \in 0 .. 0 |-> v[0]]
  <2>1. 0 \in 0 .. N /\ 0 \notin D
    OBVIOUS
  <2>2. g \in [0 .. 0 -> V]
    BY <2>1
  <2>3. Follows(g, 0, D, h, G, v)
    BY <2>1 DEF Follows
  <2> HIDE DEF g
  <2> QED BY <2>1, <2>2, <2>3
<1>2. ASSUME NEW m \in 0 .. N - 1, m \in S
      PROVE  m + 1 \in S
  <2>1. PICK f \in [0 .. m -> V] : Follows(f, m, D, h, G, v)
    BY <1>2
  <2> DEFINE new == IF m + 1 \in D THEN G[<<m + 1, f[h[m + 1]]>>] ELSE v[m + 1]
             g == [k \in 0 .. m + 1 |-> IF k = m + 1 THEN new ELSE f[k]]
  <2>2. new \in V
    <3>1. m + 1 \in 0 .. N
      OBVIOUS
    <3>2. CASE m + 1 \in D
      <4>1. h[m + 1] \in 0 .. m
        BY <3>1, <3>2
      <4>2. f[h[m + 1]] \in V
        BY <4>1
      <4> QED BY <3>1, <3>2, <4>2
    <3>3. CASE m + 1 \notin D
      BY <3>1, <3>3
    <3> QED BY <3>2, <3>3
  <2>3. g \in [0 .. m + 1 -> V]
    <3> HIDE DEF new
    <3> QED BY <2>2
  <2>4. ASSUME NEW n \in 0 .. m + 1
        PROVE  g[n] = IF n \in D THEN G[<<n, g[h[n]]>>] ELSE v[n]
    <3>1. n \in D => h[n] \in 0 .. n - 1 /\ h[n] # m + 1 /\ h[n] \in 0 .. m + 1
      OBVIOUS
    <3>2. n \in D => g[h[n]] = f[h[n]]
      <4> HIDE DEF new
      <4> QED BY <3>1
    <3>3. CASE n = m + 1
      <4>1. g[n] = new
        BY <3>3
      <4> HIDE DEF g
      <4> QED BY <3>2, <3>3, <4>1
    <3>4. CASE n # m + 1
      <4>1. n \in 0 .. m /\ g[n] = f[n]
        <5> HIDE DEF new
        <5> QED BY <3>4
      <4>2. f[n] = IF n \in D THEN G[<<n, f[h[n]]>>] ELSE v[n]
        BY <2>1, <4>1 DEF Follows
      <4> HIDE DEF g
      <4> QED BY <3>2, <4>1, <4>2
    <3> QED BY <3>3, <3>4
  <2> HIDE DEF g
  <2>5. Follows(g, m + 1, D, h, G, v)
    BY <2>4 DEF Follows
  <2> QED BY <2>3, <2>5
<1> HIDE DEF S
<1>3. N \in S
  <2>1. \A l \in 0 .. N - 1 : l \in S => l + 1 \in S
    BY <1>2
  <2>2. \A l \in 0 .. N : l \in S
    BY <1>1, <2>1, UpInduction
  <2> QED BY <2>2
<1> QED BY <1>3 DEF S

-----------------------------------------------------------------------------
\* Sequences one behind the other, from the left or from the right.
LEMMA Associative ==
  ASSUME NEW T, NEW s \in Seq(T), NEW t \in Seq(T), NEW u \in Seq(T)
  PROVE  (s \o t) \o u = s \o (t \o u)
OBVIOUS

(* Sequences one behind the other.                                         *)

\* f[n] is made of the first n sequences.
Flattens(f, ss) ==
  /\ f[1] = ss[1]
  /\ \A n \in 1 .. Len(ss) : n # 1 => f[n] = f[n - 1] \o ss[n]

\* FlattenSeq() of sequences over T, one sequence after the other.
LEMMA FlattenSteps ==
  ASSUME NEW T, NEW ss \in Seq(Seq(T)), ss # <<>>
  PROVE  \E f \in [1 .. Len(ss) -> Seq(T)] : Flattens(f, ss) /\ FlattenSeq(ss) = f[Len(ss)]
<1> DEFINE N == Len(ss)
           V == Seq(T)
           Is(g) == g = [i \in 1 .. N |-> IF i = 1 THEN ss[i] ELSE g[i - 1] \o ss[i]]
           F == CHOOSE g : Is(g)
           h == [n \in 0 .. N |-> n - 1]
           G == [z \in (1 .. N) \X V |-> z[2] \o ss[z[1]]]
           v == [n \in 0 .. N |-> <<>>]
<1>1. N \in Nat \ {0}
  BY LenProperties, EmptySeq
<1>2. PICK f \in [0 .. N -> V] : Follows(f, N, 1 .. N, h, G, v)
  <2>1. \A n \in 0 .. N : n \in 1 .. N => n # 0 /\ h[n] \in 0 .. n - 1
    BY <1>1
  <2>2. ASSUME NEW n \in 0 .. N, NEW x \in V, n \in 1 .. N PROVE G[<<n, x>>] \in V
    <3>1. ss[n] \in V
      BY <2>2, ElementOfSeq
    <3>2. x \o ss[n] \in V
      BY <3>1, ConcatProperties
    <3>3. G[<<n, x>>] = x \o ss[n]
      <4> HIDE DEF N, V
      <4> QED BY <2>2
    <3> QED BY <3>2, <3>3
  <2>3. \A n \in 0 .. N : n \notin 1 .. N => v[n] \in V
    BY EmptySeq
  <2> HIDE DEF N, V, h, G, v
  <2>4. \A n \in 0 .. N : \A x \in V : n \in 1 .. N => G[<<n, x>>] \in V
    BY <2>2
  <2> QED BY <1>1, <2>1, <2>3, <2>4, RecursionExists
<1>3. ASSUME NEW n \in 1 .. N
      PROVE  f[n] = IF n = 1 THEN ss[n] ELSE f[n - 1] \o ss[n]
  <2>1. n \in 0 .. N /\ n - 1 \in 0 .. N
    BY <1>1
  <2>2. f[n] = G[<<n, f[h[n]]>>] /\ f[0] = v[0]
    <3>1. 0 \in 0 .. N /\ 0 \notin 1 .. N
      BY <1>1
    <3> HIDE DEF N, V, h, G, v
    <3> QED BY <1>2, <2>1, <3>1 DEF Follows
  <2>3. h[n] = n - 1 /\ f[n - 1] \in V /\ v[0] = <<>>
    BY <1>1, <1>2, <2>1
  <2>4. f[n] = f[n - 1] \o ss[n]
    <3>1. <<n, f[n - 1]>> \in (1 .. N) \X V
      BY <2>3
    <3> HIDE DEF N, V, h
    <3> QED BY <2>2, <2>3, <3>1
  <2>5. n = 1 => f[n - 1] = <<>>
    BY <2>2, <2>3
  <2>6. ss[n] \in Seq(T)
    BY ElementOfSeq
  <2>7. <<>> \o ss[n] = ss[n]
    BY <2>6, ConcatEmptySeq
  <2> HIDE DEF N
  <2> QED BY <2>4, <2>5, <2>7, Zenon
<1> DEFINE e == [n \in 1 .. N |-> f[n]]
<1>4. Is(e)
  <2>1. ASSUME NEW n \in 1 .. N PROVE e[n] = IF n = 1 THEN ss[n] ELSE e[n - 1] \o ss[n]
    <3>1. n # 1 => n - 1 \in 1 .. N
      BY <1>1
    <3> HIDE DEF N
    <3> QED BY <1>3, <3>1, Zenon
  <2> QED BY <2>1, Zenon
<1>5. Is(F)
  <2> HIDE DEF Is, e
  <2> QED BY <1>4, Zenon
<1>6. FlattenSeq(ss) = F[N]
  BY <1>1, Zenon DEF FlattenSeq
<1> HIDE DEF F, e
<1>7. \A n \in 1 .. N : F[n] = IF n = 1 THEN ss[n] ELSE F[n - 1] \o ss[n]
  <2> HIDE DEF N
  <2> QED BY <1>5, Zenon
<1>8. F[1] = ss[1]
  <2>1. 1 \in 1 .. N
    BY <1>1
  <2> HIDE DEF N
  <2> QED BY <1>7, <2>1, Zenon
<1>9. Flattens(F, ss)
  BY <1>7, <1>8, Zenon DEF Flattens
<1>10. F \in [1 .. N -> Seq(T)]
  <2> DEFINE S == {n \in 0 .. N - 1 : F[n + 1] \in Seq(T)}
  <2>1. 0 \in S
    <3>1. ss[1] \in Seq(T)
      BY <1>1, ElementOfSeq
    <3> QED BY <1>1, <1>8, <3>1
  <2>2. ASSUME NEW n \in 0 .. (N - 1) - 1, n \in S PROVE n + 1 \in S
    <3>1. /\ (n + 1) + 1 \in 1 .. N /\ (n + 1) + 1 # 1 /\ ((n + 1) + 1) - 1 = n + 1
          /\ n + 1 \in 0 .. N - 1
      BY <1>1
    <3>2. F[(n + 1) + 1] = F[n + 1] \o ss[(n + 1) + 1]
      BY <1>7, <3>1, Zenon
    <3>3. F[n + 1] \in Seq(T) /\ ss[(n + 1) + 1] \in Seq(T)
      BY <2>2, <3>1, ElementOfSeq
    <3>4. F[n + 1] \o ss[(n + 1) + 1] \in Seq(T)
      BY <3>3, ConcatProperties
    <3> HIDE DEF N
    <3> QED BY <3>1, <3>2, <3>4
  <2>3. N - 1 \in Nat
    BY <1>1
  <2> HIDE DEF S
  <2>4. \A n \in 0 .. N - 1 : n \in S
    <3>1. \A n \in 0 .. (N - 1) - 1 : n \in S => n + 1 \in S
      BY <2>2
    <3> HIDE DEF N
    <3> QED BY <2>1, <2>3, <3>1, UpInduction
  <2>5. ASSUME NEW n \in 1 .. N PROVE F[n] \in Seq(T)
    <3>1. n - 1 \in 0 .. N - 1 /\ (n - 1) + 1 = n
      BY <1>1
    <3>2. F[(n - 1) + 1] \in Seq(T)
      BY <2>4, <3>1 DEF S
    <3> QED BY <3>1, <3>2
  <2>6. F = [n \in 1 .. N |-> F[n]]
    <3> DEFINE R(n) == IF n = 1 THEN ss[n] ELSE F[n - 1] \o ss[n]
    <3>1. F = [n \in 1 .. N |-> R(n)]
      BY <1>5, Zenon
    <3> HIDE DEF R, N
    <3> QED BY <3>1
  <2> HIDE DEF N
  <2> QED BY <2>5, <2>6
<1> QED BY <1>6, <1>9, <1>10

\* What it makes is a sequence over T.
LEMMA FlattenIsSeq ==
  ASSUME NEW T, NEW ss \in Seq(Seq(T))
  PROVE  FlattenSeq(ss) \in Seq(T)
<1>1. CASE ss = <<>>
  <2>1. FlattenSeq(ss) = <<>>
    BY <1>1, EmptySeq DEF FlattenSeq
  <2> QED BY <2>1, EmptySeq
<1>2. CASE ss # <<>>
  <2>1. PICK f \in [1 .. Len(ss) -> Seq(T)] : FlattenSeq(ss) = f[Len(ss)]
    BY <1>2, FlattenSteps
  <2>2. Len(ss) \in Nat \ {0}
    BY <1>2, EmptySeq
  <2>3. Len(ss) \in 1 .. Len(ss)
    BY <2>2
  <2> QED BY <2>1, <2>3
<1> QED BY <1>1, <1>2

\* The first sequence comes first.
LEMMA FlattenFirst ==
  ASSUME NEW T, NEW x \in Seq(T), NEW ss \in Seq(Seq(T))
  PROVE  FlattenSeq(<<x>> \o ss) = x \o FlattenSeq(ss)
<1>1. \A a, c \in Seq(T) : (x \o a) \o c = x \o (a \o c)
  BY Associative
<1> DEFINE tt == <<x>> \o ss
           N == Len(ss)
<1>11. /\ tt \in Seq(Seq(T)) /\ Len(tt) = N + 1 /\ N \in Nat
      /\ tt[1] = x /\ \A n \in 1 .. N : tt[n + 1] = ss[n]
  <2>1. <<x>> \in Seq(Seq(T)) /\ Len(<<x>>) = 1 /\ <<x>>[1] = x
    OBVIOUS
  <2>2. N \in Nat
    BY LenProperties
  <2>3. tt \in Seq(Seq(T)) /\ Len(tt) = 1 + N
    BY <2>1, ConcatProperties
  <2>4. \A i \in 1 .. 1 + N : tt[i] = IF i <= 1 THEN <<x>>[i] ELSE ss[i - 1]
    BY <2>1, ConcatProperties
  <2> HIDE DEF tt, N
  <2>5. ASSUME NEW n \in 1 .. N PROVE tt[n + 1] = ss[n]
    <3>1. n + 1 \in 1 .. 1 + N /\ ~ (n + 1 <= 1) /\ (n + 1) - 1 = n
      BY <2>2
    <3> QED BY <2>4, <3>1
  <2> QED BY <2>1, <2>2, <2>3, <2>4, <2>5
<1>2. tt # <<>>
  <2> HIDE DEF tt
  <2> QED BY <1>11, EmptySeq
<1>3. PICK g \in [1 .. N + 1 -> Seq(T)] : Flattens(g, tt) /\ FlattenSeq(tt) = g[N + 1]
  <2> HIDE DEF tt
  <2> QED BY <1>11, <1>2, FlattenSteps
<1>4. CASE ss = <<>>
  <2>1. N = 0 /\ FlattenSeq(ss) = <<>>
    BY <1>4, EmptySeq DEF FlattenSeq
  <2>2. FlattenSeq(tt) = x
    <3> HIDE DEF tt, N
    <3> QED BY <1>11, <1>3, <2>1 DEF Flattens
  <2> QED BY <2>1, <2>2, ConcatEmptySeq
<1>5. CASE ss # <<>>
  <2>1. PICK f \in [1 .. N -> Seq(T)] : Flattens(f, ss) /\ FlattenSeq(ss) = f[N]
    BY <1>5, FlattenSteps
  <2>2. N # 0
    BY <1>5, EmptySeq
  <2> DEFINE S == {n \in 0 .. N - 1 : g[n + 2] = x \o f[n + 1]}
  <2> HIDE DEF tt
  <2>3. g[1] = x
    BY <1>11, <1>3 DEF Flattens
  <2>4. 0 \in S
    <3>1. g[2] = g[1] \o tt[2]
      <4>1. 2 \in 1 .. Len(tt) /\ 2 # 1 /\ 2 - 1 = 1
        BY <1>11, <2>2
      <4> QED BY <1>3, <4>1 DEF Flattens
    <3>2. tt[1 + 1] = ss[1] /\ f[1] = ss[1]
      BY <1>11, <2>1, <2>2 DEF Flattens
    <3>3. g[2] = x \o f[1]
      <4>1. 1 + 1 = 2 /\ 1 \in 1 .. N
        BY <1>11, <2>2
      <4>2. tt[2] = f[1]
        BY <3>2, <4>1
      <4> QED BY <2>3, <3>1, <4>2, Zenon
    <3>4. 0 \in 0 .. N - 1 /\ 0 + 2 = 2 /\ 0 + 1 = 1
      BY <1>11, <2>2
    <3> QED BY <3>3, <3>4, Zenon
  <2>5. ASSUME NEW n \in 0 .. (N - 1) - 1, n \in S PROVE n + 1 \in S
    <3>1. /\ n + 3 \in 1 .. Len(tt) /\ n + 3 # 1 /\ (n + 3) - 1 = n + 2 /\ n + 3 = (n + 2) + 1
          /\ n + 2 \in 1 .. N /\ n + 2 # 1 /\ (n + 2) - 1 = n + 1 /\ n + 1 \in 1 .. N
          /\ n + 1 \in 0 .. N - 1 /\ (n + 1) + 2 = n + 3 /\ (n + 1) + 1 = n + 2
      BY <1>11
    <3>2. g[n + 3] = g[n + 2] \o tt[n + 3]
      BY <1>3, <3>1 DEF Flattens
    <3>3. tt[n + 3] = ss[n + 2]
      BY <1>11, <3>1
    <3>4. f[n + 2] = f[n + 1] \o ss[n + 2]
      BY <2>1, <3>1 DEF Flattens
    <3>5. g[n + 2] = x \o f[n + 1]
      BY <2>5
    <3>6. f[n + 1] \in Seq(T) /\ ss[n + 2] \in Seq(T)
      BY <3>1, <2>1, ElementOfSeq
    <3>7. (x \o f[n + 1]) \o ss[n + 2] = x \o (f[n + 1] \o ss[n + 2])
      BY <1>1, <3>6, Zenon
    <3>8. g[n + 3] = x \o f[n + 2]
      BY <3>2, <3>3, <3>4, <3>5, <3>7, Zenon
    <3> HIDE DEF N
    <3> QED BY <3>1, <3>8
  <2>6. N - 1 \in S
    <3> HIDE DEF S
    <3>1. \A n \in 0 .. (N - 1) - 1 : n \in S => n + 1 \in S
      BY <2>5
    <3>2. N - 1 \in Nat
      BY <1>11, <2>2
    <3> HIDE DEF N
    <3>3. \A n \in 0 .. N - 1 : n \in S
      BY <2>4, <3>1, <3>2, UpInduction
    <3> QED BY <3>2, <3>3
  <2>7. (N - 1) + 2 = N + 1 /\ (N - 1) + 1 = N
    BY <1>11
  <2>8. g[N + 1] = x \o f[N]
    <3> HIDE DEF N
    <3> QED BY <2>6, <2>7
  <2>9. FlattenSeq(tt) = x \o FlattenSeq(ss)
    BY <1>3, <2>1, <2>8, Zenon
  <2> QED BY <2>9 DEF tt
<1> QED BY <1>4, <1>5

\* What holds of n when it holds of everything below, holds up to N.
LEMMA StrongInduction ==
  ASSUME NEW N \in Nat, NEW S,
         \A n \in 0 .. N : (\A m \in 0 .. n - 1 : m \in S) => n \in S
  PROVE  \A n \in 0 .. N : n \in S
<1> DEFINE R == {n \in 0 .. N : \A m \in 0 .. n : m \in S}
<1>1. 0 \in R
  <2>1. 0 \in 0 .. N /\ \A m \in 0 .. 0 - 1 : m \in S
    OBVIOUS
  <2>2. 0 \in S
    BY <2>1
  <2> QED BY <2>1, <2>2
<1>2. ASSUME NEW n \in 0 .. N - 1, n \in R PROVE n + 1 \in R
  <2>1. n + 1 \in 0 .. N /\ (n + 1) - 1 = n
    OBVIOUS
  <2>2. \A m \in 0 .. n : m \in S
    BY <1>2
  <2>3. n + 1 \in S
    BY <2>1, <2>2
  <2> QED BY <2>1, <2>2, <2>3
<1> HIDE DEF R
<1>3. \A n \in 0 .. N : n \in R
  BY <1>1, <1>2, UpInduction
<1> QED BY <1>3 DEF R

-----------------------------------------------------------------------------
(* Quotients by a base.                                                    *)

\* The quotient by a base is less, and the remainder is a digit.
LEMMA QuotientBelow ==
  ASSUME NEW k \in Nat, NEW b \in Nat, 2 <= b, b <= k
  PROVE  k \div b \in 0 .. k - 1 /\ k % b \in 0 .. b - 1
<1>1. k \div b \in Nat /\ k % b \in 0 .. b - 1 /\ k = (k \div b) * b + (k % b)
  <2>1. b \in Nat \ {0}
    OBVIOUS
  <2> QED BY <2>1, DivMod
<1>2. PICK q \in Nat : q = k \div b
  BY <1>1
<1>3. q # 0
  BY <1>1, <1>2
<1>4. q * 2 <= q * b
  BY MulMonotone, <1>2
<1>5. q * b <= k
  BY <1>1, <1>2
<1>6. q < k
  BY <1>3, <1>4, <1>5
<1> QED BY <1>1, <1>2, <1>6

\* A digit of a number is the one below it of its quotient by the base.
LEMMA DigitShift ==
  ASSUME NEW n \in Nat, NEW b \in Nat \ {0}, NEW r \in Nat \ {0}
  PROVE  (n % ((r * b) * b)) \div (r * b) = ((n \div b) % (r * b)) \div r
<1>1. PICK m \in Nat, d \in 0 .. b - 1 : m = n \div b /\ n = m * b + d
  BY DivMod
<1>2. PICK c \in Nat \ {0} : c = r * b
  OBVIOUS
<1>3. PICK u \in Nat, v \in 0 .. c - 1 : v = m % c /\ m = u * c + v
  <2>1. m \div c \in Nat /\ m % c \in 0 .. c - 1 /\ m = (m \div c) * c + (m % c)
    BY DivMod
  <2> QED BY <2>1
<1>4. PICK w \in Nat, z \in 0 .. r - 1 : w = v \div r /\ v = w * r + z
  BY DivMod
<1>5. n % (c * b) = v * b + d
  <2>1. n = u * (c * b) + (v * b + d)
    <3>1. m * b = (u * c) * b + v * b
      BY <1>3
    <3>2. (u * c) * b = u * (c * b)
      OBVIOUS
    <3> QED BY <1>1, <3>1, <3>2
  <2>2. v * b <= (c - 1) * b
    BY <1>3, MulMonotone
  <2>3. (c - 1) * b = c * b - b
    OBVIOUS
  <2>4. c * b \in Nat \ {0} /\ v * b \in Nat
    OBVIOUS
  <2>5. v * b + d \in 0 .. c * b - 1
    BY <2>2, <2>3, <2>4
  <2> QED BY <2>1, <2>4, <2>5, DivUnique
<1>6. (v * b + d) \div c = w
  <2>1. v * b + d = w * c + (z * b + d)
    <3>1. v * b = (w * r) * b + z * b
      <4>1. PICK x \in Nat : x = w * r
        OBVIOUS
      <4>2. (x + z) * b = x * b + z * b
        OBVIOUS
      <4> QED BY <1>4, <4>1, <4>2
    <3>2. (w * r) * b = w * (r * b)
      OBVIOUS
    <3> QED BY <1>2, <3>1, <3>2
  <2>2. z * b <= (r - 1) * b
    BY <1>4, MulMonotone
  <2>3. (r - 1) * b = c - b
    BY <1>2
  <2>4. z * b \in Nat
    OBVIOUS
  <2>5. z * b + d \in 0 .. c - 1
    BY <2>2, <2>3, <2>4
  <2> QED BY <2>1, <2>5, DivUnique
<1> QED BY <1>1, <1>2, <1>3, <1>4, <1>5, <1>6

-----------------------------------------------------------------------------
(* The recursive functions of the printing of numbers.                     *)

\* The last digit of k is written behind the others.
NumeralOf(f, n, b, digits) ==
  /\ f \in [0 .. n -> Seq(Characters)]
  /\ \A k \in 0 .. n : f[k] = IF k < b THEN <<digits[k + 1]>>
                                       ELSE Append(f[k \div b], digits[(k % b) + 1])
  /\ Numeral(n, b, digits) = f[n]

\* The numeral of every number is written, digit by digit.
LEMMA NumeralSteps ==
  ASSUME NEW n \in Nat, NEW b, NEW digits, 2 <= b, b \in Nat,
         \A d \in 1 .. b : digits[d] \in Characters
  PROVE  \E f : NumeralOf(f, n, b, digits)
<1> DEFINE V == Seq(Characters)
           Is(g) == g = [k \in 0 .. n |-> IF k < b THEN <<digits[k + 1]>>
                                          ELSE Append(g[k \div b], digits[(k % b) + 1])]
           F == CHOOSE g : Is(g)
           D == {k \in 0 .. n : b <= k}
           h == [k \in 0 .. n |-> k \div b]
           G == [z \in (0 .. n) \X V |-> Append(z[2], digits[(z[1] % b) + 1])]
           v == [k \in 0 .. n |-> <<digits[k + 1]>>]
<1>1. ASSUME NEW k \in 0 .. n, k \in D
      PROVE  k # 0 /\ h[k] \in 0 .. k - 1 /\ k \div b \in 0 .. k - 1
  <2>1. k \in Nat /\ b <= k
    BY <1>1
  <2>2. k \div b \in 0 .. k - 1
    BY <2>1, QuotientBelow
  <2> QED BY <2>1, <2>2
<1>2. ASSUME NEW k \in 0 .. n, NEW x \in V, k \in D
      PROVE  G[<<k, x>>] = Append(x, digits[(k % b) + 1]) /\ G[<<k, x>>] \in V
  <2>1. (k % b) + 1 \in 1 .. b
    BY <1>2, QuotientBelow
  <2>2. Append(x, digits[(k % b) + 1]) \in V
    BY <2>1, AppendProperties
  <2>3. G[<<k, x>>] = Append(x, digits[(k % b) + 1])
    <3> HIDE DEF V
    <3> QED OBVIOUS
  <2> HIDE DEF G
  <2> QED BY <2>2, <2>3
<1>3. \A k \in 0 .. n : k \notin D => v[k] \in V
  OBVIOUS
<1>4. PICK f \in [0 .. n -> V] : Follows(f, n, D, h, G, v)
  <2>1. \A k \in 0 .. n : k \in D => k # 0 /\ h[k] \in 0 .. k - 1
    BY <1>1
  <2>2. \A k \in 0 .. n : \A x \in V : k \in D => G[<<k, x>>] \in V
    BY <1>2
  <2> HIDE DEF V, D, h, G, v
  <2> QED BY <1>3, <2>1, <2>2, RecursionExists
<1>5. ASSUME NEW k \in 0 .. n
      PROVE  f[k] = IF k < b THEN <<digits[k + 1]>>
                             ELSE Append(f[k \div b], digits[(k % b) + 1])
  <2>1. f[k] = IF k \in D THEN G[<<k, f[h[k]]>>] ELSE v[k]
    BY <1>4, Zenon DEF Follows
  <2>2. CASE k < b
    <3>1. k \notin D
      BY <2>2
    <3>2. v[k] = <<digits[k + 1]>>
      OBVIOUS
    <3> HIDE DEF D, G, h, v
    <3> QED BY <2>1, <2>2, <3>1, <3>2
  <2>3. CASE ~ (k < b)
    <3>1. k \in D /\ h[k] = k \div b
      BY <2>3
    <3>2. f[k \div b] \in V
      <4>1. k \div b \in 0 .. n
        <5>1. k \div b \in 0 .. k - 1
          BY <1>1, <3>1
        <5> QED BY <5>1
      <4> HIDE DEF V
      <4> QED BY <4>1
    <3>3. G[<<k, f[k \div b]>>] = Append(f[k \div b], digits[(k % b) + 1])
      BY <1>2, <3>1, <3>2
    <3> HIDE DEF D, G, h, v
    <3> QED BY <2>1, <2>3, <3>1, <3>3
  <2> QED BY <2>2, <2>3
<1>6. Is(f)
  <2>1. f = [k \in 0 .. n |-> f[k]]
    BY Zenon
  <2> QED BY <1>5, <2>1, Zenon
<1>7. Is(F)
  <2> HIDE DEF Is
  <2> QED BY <1>6, Zenon
<1>8. Numeral(n, b, digits) = F[n]
  BY Zenon DEF Numeral
<1> HIDE DEF F
<1>9. F[n] = f[n]
  <2> DEFINE S == {k \in 0 .. n : F[k] = f[k]}
  <2>1. ASSUME NEW k \in 0 .. n, \A m \in 0 .. k - 1 : m \in S PROVE k \in S
    <3>1. F[k] = IF k < b THEN <<digits[k + 1]>>
                          ELSE Append(F[k \div b], digits[(k % b) + 1])
      BY <1>7, Zenon
    <3>2. ~ (k < b) => k \div b \in 0 .. k - 1
      <4>1. ~ (k < b) => k \in D
        OBVIOUS
      <4> QED BY <1>1, <4>1
    <3>3. ~ (k < b) => F[k \div b] = f[k \div b]
      BY <2>1, <3>2
    <3>4. F[k] = f[k]
      BY <1>5, <3>1, <3>3, Zenon
    <3> QED BY <3>4
  <2> HIDE DEF S
  <2>2. \A k \in 0 .. n : k \in S
    BY <2>1, StrongInduction
  <2>3. n \in 0 .. n
    OBVIOUS
  <2> QED BY <2>2, <2>3 DEF S
<1> QED BY <1>5, <1>8, <1>9, Zenon DEF NumeralOf

\* number_length() counts the turns of its loop.
LengthOf(f, n, b) ==
  /\ f \in [0 .. n -> Nat \ {0}]
  /\ \A k \in 0 .. n : f[k] = IF k < b THEN 1 ELSE f[k \div b] + 1
  /\ number_length(n, b) = f[n]

\* vhprintk_number_length() counts the digits of every number.
LEMMA LengthSteps ==
  ASSUME NEW n \in Nat, NEW b, 2 <= b, b \in Nat
  PROVE  \E f : LengthOf(f, n, b)
<1> DEFINE V == Nat \ {0}
           Is(g) == g = [k \in 0 .. n |-> IF k < b THEN 1 ELSE g[k \div b] + 1]
           F == CHOOSE g : Is(g)
           D == {k \in 0 .. n : b <= k}
           h == [k \in 0 .. n |-> k \div b]
           G == [z \in (0 .. n) \X V |-> z[2] + 1]
           v == [k \in 0 .. n |-> 1]
<1>1. ASSUME NEW k \in 0 .. n, k \in D
      PROVE  k # 0 /\ h[k] \in 0 .. k - 1 /\ k \div b \in 0 .. k - 1
  <2>1. k \in Nat /\ b <= k
    BY <1>1
  <2>2. k \div b \in 0 .. k - 1
    BY <2>1, QuotientBelow
  <2> QED BY <2>1, <2>2
<1>2. ASSUME NEW k \in 0 .. n, NEW x \in V
      PROVE  G[<<k, x>>] = x + 1 /\ G[<<k, x>>] \in V
  OBVIOUS
<1>3. \A k \in 0 .. n : k \notin D => v[k] \in V
  OBVIOUS
<1>4. PICK f \in [0 .. n -> V] : Follows(f, n, D, h, G, v)
  <2>1. \A k \in 0 .. n : k \in D => k # 0 /\ h[k] \in 0 .. k - 1
    BY <1>1
  <2>2. \A k \in 0 .. n : \A x \in V : k \in D => G[<<k, x>>] \in V
    BY <1>2
  <2> HIDE DEF V, D, h, G, v
  <2> QED BY <1>3, <2>1, <2>2, RecursionExists
<1>5. ASSUME NEW k \in 0 .. n
      PROVE  f[k] = IF k < b THEN 1 ELSE f[k \div b] + 1
  <2>1. f[k] = IF k \in D THEN G[<<k, f[h[k]]>>] ELSE v[k]
    BY <1>4, Zenon DEF Follows
  <2>2. CASE k < b
    <3>1. k \notin D
      BY <2>2
    <3>2. v[k] = 1
      OBVIOUS
    <3> HIDE DEF D, G, h, v
    <3> QED BY <2>1, <2>2, <3>1, <3>2
  <2>3. CASE ~ (k < b)
    <3>1. k \in D /\ h[k] = k \div b
      BY <2>3
    <3>2. f[k \div b] \in V
      <4>1. k \div b \in 0 .. n
        <5>1. k \div b \in 0 .. k - 1
          BY <1>1, <3>1
        <5> QED BY <5>1
      <4> HIDE DEF V
      <4> QED BY <4>1
    <3>3. G[<<k, f[k \div b]>>] = f[k \div b] + 1
      BY <1>2, <3>2
    <3> HIDE DEF D, G, h, v
    <3> QED BY <2>1, <2>3, <3>1, <3>3
  <2> QED BY <2>2, <2>3
<1>6. Is(f)
  <2>1. f = [k \in 0 .. n |-> f[k]]
    BY Zenon
  <2> QED BY <1>5, <2>1, Zenon
<1>7. Is(F)
  <2> HIDE DEF Is
  <2> QED BY <1>6, Zenon
<1>8. number_length(n, b) = F[n]
  BY Zenon DEF number_length
<1> HIDE DEF F
<1>9. F[n] = f[n]
  <2> DEFINE S == {k \in 0 .. n : F[k] = f[k]}
  <2>1. ASSUME NEW k \in 0 .. n, \A m \in 0 .. k - 1 : m \in S PROVE k \in S
    <3>1. F[k] = IF k < b THEN 1 ELSE F[k \div b] + 1
      BY <1>7, Zenon
    <3>2. ~ (k < b) => k \div b \in 0 .. k - 1
      <4>1. ~ (k < b) => k \in D
        OBVIOUS
      <4> QED BY <1>1, <4>1
    <3>3. ~ (k < b) => F[k \div b] = f[k \div b]
      BY <2>1, <3>2
    <3>4. F[k] = f[k]
      BY <1>5, <3>1, <3>3, Zenon
    <3> QED BY <3>4
  <2> HIDE DEF S
  <2>2. \A k \in 0 .. n : k \in S
    BY <2>1, StrongInduction
  <2>3. n \in 0 .. n
    OBVIOUS
  <2> QED BY <2>2, <2>3 DEF S
<1> QED BY <1>5, <1>8, <1>9, Zenon DEF LengthOf

\* The divisor of vhprintk_print_radical() is multiplied by the base.
Divisors(P, more, b) ==
  /\ P \in [0 .. more -> Nat \ {0}]
  /\ P[0] = 1
  /\ \A j \in 1 .. more : P[j] = P[j - 1] * b

\* The digits that are printed of k.
DigitsWith(P, k, more, digits) ==
  [j \in 1 .. more |-> digits[((k % P[more - j + 1]) \div P[more - j]) + 1]]

\* The divisors of vhprintk_print_radical() are the powers of the base.
LEMMA RadicalSteps ==
  ASSUME NEW n \in Nat, NEW b, NEW digits, 2 <= b, b \in Nat
  PROVE  \E P : /\ Divisors(P, number_length(n, b), b)
                /\ print_radical(n, b, digits) = DigitsWith(P, n, number_length(n, b), digits)
<1> DEFINE l == number_length(n, b)
<1>1. l \in Nat
  <2>1. PICK f : LengthOf(f, n, b)
    BY LengthSteps
  <2>2. n \in 0 .. n
    OBVIOUS
  <2>3. f[n] \in Nat
    BY <2>1, <2>2 DEF LengthOf
  <2> QED BY <2>1, <2>3 DEF LengthOf
<1> HIDE DEF l
<1> DEFINE V == Nat \ {0}
           Is(g) == g = [j \in 0 .. l |-> IF j = 0 THEN 1 ELSE g[j - 1] * b]
           F == CHOOSE g : Is(g)
           h == [j \in 0 .. l |-> j - 1]
           G == [z \in (0 .. l) \X V |-> z[2] * b]
           v == [j \in 0 .. l |-> 1]
<1>2. PICK f \in [0 .. l -> V] : Follows(f, l, 1 .. l, h, G, v)
  <2>1. \A j \in 0 .. l : j \in 1 .. l => j # 0 /\ h[j] \in 0 .. j - 1
    BY <1>1
  <2>2. \A j \in 0 .. l : j \notin 1 .. l => v[j] \in V
    BY <1>1
  <2>3. \A j \in 0 .. l : \A x \in V : j \in 1 .. l => G[<<j, x>>] \in V
    BY <1>1
  <2> HIDE DEF V, h, G, v
  <2> QED BY <1>1, <2>1, <2>2, <2>3, RecursionExists
<1>3. ASSUME NEW j \in 0 .. l
      PROVE  f[j] = IF j = 0 THEN 1 ELSE f[j - 1] * b
  <2>1. f[j] = IF j \in 1 .. l THEN G[<<j, f[h[j]]>>] ELSE v[j]
    BY <1>2, Zenon DEF Follows
  <2>2. CASE j = 0
    BY <2>1, <2>2
  <2>3. CASE j # 0
    <3>1. j \in 1 .. l /\ h[j] = j - 1 /\ j - 1 \in 0 .. l
      BY <1>1, <2>3
    <3>2. f[j - 1] \in V
      BY <3>1
    <3>3. G[<<j, f[j - 1]>>] = f[j - 1] * b
      BY <3>2
    <3> HIDE DEF G, h, v
    <3> QED BY <2>1, <2>3, <3>1, <3>3
  <2> QED BY <2>2, <2>3
<1>4. Is(f)
  <2>1. f = [j \in 0 .. l |-> f[j]]
    BY Zenon
  <2> QED BY <1>3, <2>1, Zenon
<1>5. Is(F)
  <2> HIDE DEF Is
  <2> QED BY <1>4, Zenon
<1>6. print_radical(n, b, digits) = DigitsWith(F, n, l, digits)
  BY Zenon DEF print_radical, DigitsWith, l
<1> HIDE DEF F
<1>7. ASSUME NEW j \in 0 .. l PROVE F[j] = f[j]
  <2> DEFINE S == {k \in 0 .. l : F[k] = f[k]}
  <2>1. 0 \in S
    <3>1. 0 \in 0 .. l
      BY <1>1
    <3>2. F[0] = 1 /\ f[0] = 1
      BY <1>3, <1>5, <3>1, Zenon
    <3> QED BY <3>1, <3>2
  <2>2. ASSUME NEW k \in 0 .. l - 1, k \in S PROVE k + 1 \in S
    <3>1. k + 1 \in 0 .. l /\ k + 1 # 0 /\ (k + 1) - 1 = k
      BY <1>1
    <3>2. F[k + 1] = F[(k + 1) - 1] * b /\ f[k + 1] = f[(k + 1) - 1] * b
      BY <1>3, <1>5, <3>1, Zenon
    <3>3. F[k] = f[k]
      BY <2>2
    <3>4. F[k + 1] = f[k + 1]
      BY <3>1, <3>2, <3>3, Zenon
    <3> QED BY <3>1, <3>4
  <2> HIDE DEF S
  <2>3. \A k \in 0 .. l : k \in S
    BY <1>1, <2>1, <2>2, UpInduction
  <2> QED BY <2>3 DEF S
<1>8. Divisors(f, l, b)
  <2>1. f[0] = 1
    BY <1>1, <1>3
  <2>2. ASSUME NEW j \in 1 .. l PROVE f[j] = f[j - 1] * b
    <3>1. j \in 0 .. l /\ j # 0
      BY <1>1
    <3> QED BY <1>3, <3>1, Zenon
  <2> QED BY <2>1, <2>2 DEF Divisors
<1>9. DigitsWith(F, n, l, digits) = DigitsWith(f, n, l, digits)
  <2>1. ASSUME NEW j \in 1 .. l
        PROVE  digits[((n % F[l - j + 1]) \div F[l - j]) + 1]
                 = digits[((n % f[l - j + 1]) \div f[l - j]) + 1]
    <3>1. l - j + 1 \in 0 .. l /\ l - j \in 0 .. l
      BY <1>1
    <3> QED BY <1>7, <3>1, Zenon
  <2> QED BY <2>1, Zenon DEF DigitsWith
<1> QED BY <1>6, <1>8, <1>9, Zenon DEF l

\* The loop that reads minimum_size.
NumberOf(f, s) ==
  /\ f \in [0 .. Len(s) -> Nat]
  /\ f[0] = 0
  /\ \A k \in 1 .. Len(s) : f[k] = f[k - 1] * 10 + DigitOf(s[k])
  /\ Number(s) = f[Len(s)]

\* The digits of a width are read, one after the other.
LEMMA NumberSteps ==
  ASSUME NEW s \in Seq(Digits), \A c \in Digits : DigitOf(c) \in 0 .. 9
  PROVE  \E f : NumberOf(f, s)
<1> DEFINE l == Len(s)
           Is(g) == g = [k \in 0 .. l |-> IF k = 0 THEN 0 ELSE g[k - 1] * 10 + DigitOf(s[k])]
           F == CHOOSE g : Is(g)
           h == [k \in 0 .. l |-> k - 1]
           G == [z \in (1 .. l) \X Nat |-> z[2] * 10 + DigitOf(s[z[1]])]
           v == [k \in 0 .. l |-> 0]
<1>1. l \in Nat
  BY LenProperties
<1>2. ASSUME NEW k \in 1 .. l, NEW x \in Nat
      PROVE  G[<<k, x>>] = x * 10 + DigitOf(s[k]) /\ G[<<k, x>>] \in Nat
  <2>1. s[k] \in Digits
    BY ElementOfSeq
  <2>2. DigitOf(s[k]) \in Nat
    BY <2>1
  <2>3. G[<<k, x>>] = x * 10 + DigitOf(s[k])
    <3> HIDE DEF l
    <3> QED OBVIOUS
  <2> HIDE DEF G
  <2> QED BY <2>2, <2>3
<1>3. PICK f \in [0 .. l -> Nat] : Follows(f, l, 1 .. l, h, G, v)
  <2>1. \A k \in 0 .. l : k \in 1 .. l => k # 0 /\ h[k] \in 0 .. k - 1
    BY <1>1
  <2>2. \A k \in 0 .. l : k \notin 1 .. l => v[k] \in Nat
    OBVIOUS
  <2>3. \A k \in 0 .. l : \A x \in Nat : k \in 1 .. l => G[<<k, x>>] \in Nat
    BY <1>2
  <2> HIDE DEF l, h, G, v
  <2> QED BY <1>1, <2>1, <2>2, <2>3, RecursionExists
<1>4. ASSUME NEW k \in 0 .. l
      PROVE  f[k] = IF k = 0 THEN 0 ELSE f[k - 1] * 10 + DigitOf(s[k])
  <2>1. f[k] = IF k \in 1 .. l THEN G[<<k, f[h[k]]>>] ELSE v[k]
    BY <1>3, Zenon DEF Follows
  <2>2. CASE k = 0
    BY <2>1, <2>2
  <2>3. CASE k # 0
    <3>1. k \in 1 .. l /\ h[k] = k - 1 /\ k - 1 \in 0 .. l
      BY <1>1, <2>3
    <3>2. f[k - 1] \in Nat
      BY <3>1
    <3>3. G[<<k, f[k - 1]>>] = f[k - 1] * 10 + DigitOf(s[k])
      BY <1>2, <3>1, <3>2
    <3> HIDE DEF G, h, v, l
    <3> QED BY <2>1, <2>3, <3>1, <3>3
  <2> QED BY <2>2, <2>3
<1>5. Is(f)
  <2>1. f = [k \in 0 .. l |-> f[k]]
    BY Zenon
  <2> QED BY <1>4, <2>1, Zenon
<1>6. Is(F)
  <2> HIDE DEF Is
  <2> QED BY <1>5, Zenon
<1>7. Number(s) = F[l]
  BY Zenon DEF Number
<1> HIDE DEF F
<1>8. F[l] = f[l]
  <2> DEFINE S == {k \in 0 .. l : F[k] = f[k]}
  <2>1. 0 \in S
    <3>1. 0 \in 0 .. l
      BY <1>1
    <3>2. F[0] = 0 /\ f[0] = 0
      BY <1>4, <1>6, <3>1, Zenon
    <3> QED BY <3>1, <3>2
  <2>2. ASSUME NEW k \in 0 .. l - 1, k \in S PROVE k + 1 \in S
    <3>1. k + 1 \in 0 .. l /\ k + 1 # 0 /\ (k + 1) - 1 = k
      BY <1>1
    <3>2. /\ F[k + 1] = F[(k + 1) - 1] * 10 + DigitOf(s[k + 1])
          /\ f[k + 1] = f[(k + 1) - 1] * 10 + DigitOf(s[k + 1])
      BY <1>4, <1>6, <3>1, Zenon
    <3>3. F[k] = f[k]
      BY <2>2
    <3>4. F[k + 1] = f[k + 1]
      BY <3>1, <3>2, <3>3, Zenon
    <3> QED BY <3>1, <3>4
  <2> HIDE DEF S
  <2>3. \A k \in 0 .. l : k \in S
    <3> HIDE DEF l
    <3> QED BY <1>1, <2>1, <2>2, UpInduction
  <2>4. l \in 0 .. l
    BY <1>1
  <2> QED BY <2>3, <2>4 DEF S
<1>9. f[0] = 0
  BY <1>1, <1>4
<1>10. ASSUME NEW k \in 1 .. l PROVE f[k] = f[k - 1] * 10 + DigitOf(s[k])
  <2>1. k \in 0 .. l /\ k # 0
    BY <1>1
  <2> HIDE DEF l
  <2> QED BY <1>4, <2>1, Zenon
<1> QED BY <1>7, <1>8, <1>9, <1>10, Zenon DEF NumberOf

\* One digit more is printed of a number than of its quotient, the last one.
LEMMA OneDigitMore ==
  ASSUME NEW b \in Nat, 2 <= b, NEW digits, \A d \in 1 .. b : digits[d] \in Characters,
         NEW k \in Nat, b <= k, NEW more \in Nat \ {0}, NEW P, NEW top \in Nat,
         Divisors(P, top, b), more + 1 <= top
  PROVE  DigitsWith(P, k, more + 1, digits)
           = Append(DigitsWith(P, k \div b, more, digits), digits[(k % b) + 1])
<1> DEFINE m == k \div b
           s == DigitsWith(P, k, more + 1, digits)
           t == DigitsWith(P, m, more, digits)
<1>1. /\ P \in [0 .. top -> Nat \ {0}] /\ P[0] = 1
      /\ \A j \in 1 .. top : P[j] = P[j - 1] * b
  BY DEF Divisors
<1>2. m \in Nat /\ k % b \in 0 .. b - 1
  <2>1. k \div b \in 0 .. k - 1 /\ k % b \in 0 .. b - 1
    BY QuotientBelow
  <2> QED BY <2>1
<1>3. ASSUME NEW j \in 1 .. more
      PROVE  (k % P[(more + 1) - j + 1]) \div P[(more + 1) - j]
               = (m % P[more - j + 1]) \div P[more - j]
  <2>1. /\ more - j \in 0 .. top /\ more - j + 1 \in 1 .. top /\ more - j + 2 \in 1 .. top
        /\ (more + 1) - j = more - j + 1 /\ (more + 1) - j + 1 = more - j + 2
        /\ (more - j + 1) - 1 = more - j /\ (more - j + 2) - 1 = more - j + 1
    OBVIOUS
  <2>2. PICK r \in Nat \ {0} : r = P[more - j]
    BY <1>1, <2>1
  <2>3. P[more - j + 1] = r * b
    BY <1>1, <2>1, <2>2
  <2>4. P[more - j + 2] = (r * b) * b
    BY <1>1, <2>1, <2>3
  <2>5. (k % ((r * b) * b)) \div (r * b) = (m % (r * b)) \div r
    <3>1. b \in Nat \ {0}
      OBVIOUS
    <3> QED BY <3>1, DigitShift
  <2> HIDE DEF m
  <2> QED BY <2>1, <2>2, <2>3, <2>4, <2>5, Zenon
<1>4. (k % P[(more + 1) - (more + 1) + 1]) \div P[(more + 1) - (more + 1)] = k % b
  <2>1. (more + 1) - (more + 1) + 1 = 1 /\ (more + 1) - (more + 1) = 0 /\ 1 \in 1 .. top
    OBVIOUS
  <2>2. P[1] = b /\ P[0] = 1
    BY <1>1, <2>1
  <2>3. \A x \in Nat : x \div 1 = x
    OBVIOUS
  <2>4. k % b \in Nat
    BY <1>2
  <2> QED BY <2>1, <2>2, <2>3, <2>4
<1>5. ASSUME NEW j \in 1 .. more
      PROVE  (m % P[more - j + 1]) \div P[more - j] + 1 \in 1 .. b
  <2>1. /\ more - j \in 0 .. top /\ more - j + 1 \in 1 .. top
        /\ (more - j + 1) - 1 = more - j
    OBVIOUS
  <2>2. PICK r \in Nat \ {0} : r = P[more - j]
    BY <1>1, <2>1
  <2>3. P[more - j + 1] = r * b
    BY <1>1, <2>1, <2>2
  <2>4. PICK c \in Nat \ {0} : c = r * b
    OBVIOUS
  <2> HIDE DEF m
  <2>5. PICK y \in Nat : y = m
    BY <1>2
  <2>6. PICK x \in 0 .. c - 1 : x = y % c
    <3>1. y \div c \in Nat /\ y % c \in 0 .. c - 1 /\ y = (y \div c) * c + (y % c)
      BY DivMod
    <3> QED BY <3>1
  <2>7. x \div r \in Nat /\ x = (x \div r) * r + (x % r) /\ x % r \in 0 .. r - 1
    <3>1. x \in Nat /\ r \in Nat \ {0}
      BY <2>6
    <3> QED BY <3>1, DivMod
  <2>8. PICK q \in Nat : q = x \div r
    BY <2>7
  <2>9. q < b
    <3> SUFFICES ASSUME b <= q PROVE FALSE
      OBVIOUS
    <3>1. b * r <= q * r
      BY MulMonotone
    <3>2. b * r = c /\ q * r \in Nat
      BY <2>4
    <3> QED BY <2>6, <2>7, <2>8, <3>1, <3>2
  <2>10. (m % P[more - j + 1]) \div P[more - j] = q
    BY <2>2, <2>3, <2>4, <2>5, <2>6, <2>8, Zenon
  <2> QED BY <2>9, <2>10
<1>6. /\ t \in Seq(Characters) /\ Len(t) = more
      /\ \A j \in 1 .. more : t[j] = digits[((m % P[more - j + 1]) \div P[more - j]) + 1]
  <2> HIDE DEF m
  <2>1. t \in [1 .. more -> Characters]
    BY <1>5 DEF DigitsWith
  <2> QED BY <2>1 DEF DigitsWith
<1>7. /\ s = [j \in 1 .. more + 1 |-> s[j]]
      /\ \A j \in 1 .. more + 1 :
           s[j] = digits[((k % P[(more + 1) - j + 1]) \div P[(more + 1) - j]) + 1]
  BY Zenon DEF DigitsWith
<1>8. digits[(k % b) + 1] \in Characters
  <2>1. (k % b) + 1 \in 1 .. b
    BY <1>2
  <2> QED BY <2>1
<1> HIDE DEF s, t, m
<1>9. PICK a \in Seq(Characters) : a = Append(t, digits[(k % b) + 1])
  BY <1>6, <1>8, AppendProperties
<1>10. Len(a) = more + 1 /\ a[more + 1] = digits[(k % b) + 1] /\ \A j \in 1 .. more : a[j] = t[j]
  BY <1>6, <1>8, <1>9, AppendProperties
<1>11. ASSUME NEW j \in 1 .. more + 1 PROVE s[j] = a[j]
  <2>1. s[j] = digits[((k % P[(more + 1) - j + 1]) \div P[(more + 1) - j]) + 1]
    BY <1>7
  <2>2. CASE j = more + 1
    BY <1>4, <1>10, <2>1, <2>2, Zenon
  <2>3. CASE j # more + 1
    <3>1. j \in 1 .. more
      BY <2>3
    <3> QED BY <1>3, <1>6, <1>10, <2>1, <3>1, Zenon
  <2> QED BY <2>2, <2>3
<1>12. a = [j \in 1 .. more + 1 |-> a[j]]
  BY <1>10
<1>13. s = a
  BY <1>7, <1>11, <1>12, Zenon
<1> QED BY <1>9, <1>13 DEF s, t, m

\* vhprintk_print_radical() prints the digits of a number in its base.
LEMMA RadicalIsNumeral ==
  ASSUME NEW n \in Nat, NEW b \in Nat, NEW digits, 2 <= b,
         \A d \in 1 .. b : digits[d] \in Characters
  PROVE  /\ print_radical(n, b, digits) = Numeral(n, b, digits)
         /\ Numeral(n, b, digits) \in Seq(Characters)
<1>1. PICK f : NumeralOf(f, n, b, digits)
  BY NumeralSteps
<1>2. PICK L : LengthOf(L, n, b)
  BY LengthSteps
<1>3. PICK P : /\ Divisors(P, number_length(n, b), b)
               /\ print_radical(n, b, digits) = DigitsWith(P, n, number_length(n, b), digits)
  BY RadicalSteps
<1>4. n \in 0 .. n
  OBVIOUS
<1>5. L \in [0 .. n -> Nat \ {0}] /\ L[n] \in Nat \ {0}
  BY <1>2, <1>4 DEF LengthOf
<1>6. Divisors(P, L[n], b) /\ print_radical(n, b, digits) = DigitsWith(P, n, L[n], digits)
  BY <1>2, <1>3, Zenon DEF LengthOf
<1> DEFINE S == {k \in 0 .. n : L[k] <= L[n] => DigitsWith(P, k, L[k], digits) = f[k]}
<1>7. ASSUME NEW k \in 0 .. n, \A m \in 0 .. k - 1 : m \in S, L[k] <= L[n]
      PROVE  DigitsWith(P, k, L[k], digits) = f[k]
  <2>1. CASE k < b
    <3>1. L[k] = 1 /\ f[k] = <<digits[k + 1]>>
      BY <1>1, <1>2, <2>1 DEF LengthOf, NumeralOf
    <3>2. P[0] = 1 /\ P[1] = b
      <4>1. 1 \in 1 .. L[n] /\ 1 - 1 = 0
        BY <1>5
      <4> QED BY <1>6, <4>1 DEF Divisors
    <3>3. (k % P[1 - 1 + 1]) \div P[1 - 1] = k
      <4>1. 1 - 1 = 0 /\ 0 + 1 = 1
        OBVIOUS
      <4>2. \A x \in Nat : x \div 1 = x
        OBVIOUS
      <4>3. k % b = k
        BY <2>1
      <4> QED BY <3>2, <4>1, <4>2, <4>3
    <3>4. ASSUME NEW j \in 1 .. 1
          PROVE  digits[((k % P[1 - j + 1]) \div P[1 - j]) + 1] = digits[k + 1]
      <4>1. j = 1
        OBVIOUS
      <4> QED BY <3>3, <4>1, Zenon
    <3>5. DigitsWith(P, k, 1, digits) = [j \in 1 .. 1 |-> digits[k + 1]]
      BY <3>4, Zenon DEF DigitsWith
    <3>6. [j \in 1 .. 1 |-> digits[k + 1]] = <<digits[k + 1]>>
      OBVIOUS
    <3> QED BY <3>1, <3>5, <3>6, Zenon
  <2>2. CASE ~ (k < b)
    <3>1. k \in Nat /\ b <= k
      BY <2>2
    <3>2. k \div b \in 0 .. k - 1
      BY <3>1, QuotientBelow
    <3>3. k \div b \in 0 .. n
      BY <3>2
    <3>4. PICK more \in Nat \ {0} : more = L[k \div b]
      BY <1>5, <3>3
    <3>5. L[k] = more + 1 /\ f[k] = Append(f[k \div b], digits[(k % b) + 1])
      BY <1>1, <1>2, <2>2, <3>4 DEF LengthOf, NumeralOf
    <3>6. L[k \div b] <= L[n]
      BY <1>5, <1>7, <3>4, <3>5
    <3>7. DigitsWith(P, k \div b, more, digits) = f[k \div b]
      <4>1. k \div b \in S
        BY <1>7, <3>2
      <4> QED BY <3>4, <3>6, <4>1
    <3>8. DigitsWith(P, k, more + 1, digits)
            = Append(DigitsWith(P, k \div b, more, digits), digits[(k % b) + 1])
      <4>1. PICK top \in Nat : top = L[n]
        BY <1>5
      <4>2. Divisors(P, top, b) /\ more + 1 <= top
        BY <1>6, <1>7, <3>5, <4>1
      <4> HIDE DEF S
      <4> QED BY <3>1, <4>2, OneDigitMore
    <3> QED BY <3>5, <3>7, <3>8, Zenon
  <2> QED BY <2>1, <2>2
<1>8. \A k \in 0 .. n : (\A m \in 0 .. k - 1 : m \in S) => k \in S
  BY <1>7
<1> HIDE DEF S
<1>9. n \in S
  BY <1>4, <1>8, StrongInduction
<1>10. DigitsWith(P, n, L[n], digits) = f[n]
  BY <1>5, <1>9 DEF S
<1> QED BY <1>1, <1>4, <1>6, <1>10 DEF NumeralOf

-----------------------------------------------------------------------------
(* What is written as a width is read as that width.                       *)

\* Each of the ten digits is read as the number that it stands for.
LEMMA DigitsAreRead ==
  /\ \A d \in 0 .. 9 : Lower[d + 1] \in Digits /\ DigitOf(Lower[d + 1]) = d
  /\ \A c \in Digits : DigitOf(c) \in 0 .. 9 /\ c \in Characters
  /\ \A d \in 1 .. 9 : Lower[d + 1] # "0"
<1>1. /\ Lower[1] = "0" /\ Lower[2] = "1" /\ Lower[3] = "2" /\ Lower[4] = "3" /\ Lower[5] = "4"
      /\ Lower[6] = "5" /\ Lower[7] = "6" /\ Lower[8] = "7" /\ Lower[9] = "8" /\ Lower[10] = "9"
  BY DEF Lower
<1>2. ASSUME NEW d \in 0 .. 9, NEW e \in 0 .. 9, Lower[d + 1] = Lower[e + 1] PROVE d = e
  <2> HIDE DEF Lower
  <2>1. d \in {0, 1, 2, 3, 4, 5, 6, 7, 8, 9} /\ e \in {0, 1, 2, 3, 4, 5, 6, 7, 8, 9}
    OBVIOUS
  <2> QED BY <1>1, <1>2, <2>1
<1>3. ASSUME NEW d \in 0 .. 9 PROVE DigitOf(Lower[d + 1]) = d
  <2>1. \A e \in 0 .. 9 : Lower[e + 1] = Lower[d + 1] <=> e = d
    BY <1>2
  <2> QED BY <2>1 DEF DigitOf
<1>4. ASSUME NEW d \in 0 .. 9 PROVE Lower[d + 1] \in Digits
  <2>1. d + 1 \in 1 .. 10
    OBVIOUS
  <2> QED BY <2>1, Zenon DEF Digits
<1>5. ASSUME NEW c \in Digits PROVE DigitOf(c) \in 0 .. 9 /\ c \in Characters
  <2>1. PICK k \in 1 .. 10 : c = Lower[k]
    BY DEF Digits
  <2>2. k - 1 \in 0 .. 9 /\ (k - 1) + 1 = k
    OBVIOUS
  <2>3. DigitOf(c) = k - 1
    BY <1>3, <2>1, <2>2
  <2>5. Lower[k] \in Characters
    <3>1. k \in 1 .. 16
      OBVIOUS
    <3> QED BY <3>1, CharactersAssumption, Zenon
  <2> QED BY <2>1, <2>2, <2>3, <2>5
<1>6. ASSUME NEW d \in 1 .. 9 PROVE Lower[d + 1] # "0"
  BY <1>1, <1>2
<1> QED BY <1>3, <1>4, <1>5, <1>6

\* One digit more is read behind the others.
LEMMA NumberAppend ==
  ASSUME NEW s \in Seq(Digits), NEW c \in Digits
  PROVE  Number(Append(s, c)) = Number(s) * 10 + DigitOf(c) /\ Number(s) \in Nat
<1> DEFINE t == Append(s, c)
           l == Len(s)
<1>1. /\ t \in Seq(Digits) /\ Len(t) = l + 1 /\ t[l + 1] = c /\ l \in Nat
      /\ \A k \in 1 .. l : t[k] = s[k]
  BY AppendProperties, LenProperties
<1>2. PICK f : NumberOf(f, s)
  BY NumberSteps, DigitsAreRead
<1>3. PICK g : NumberOf(g, t)
  <2> HIDE DEF t
  <2> QED BY <1>1, NumberSteps, DigitsAreRead
<1> HIDE DEF t
<1> DEFINE S == {k \in 0 .. l : g[k] = f[k]}
<1>4. 0 \in S
  BY <1>1, <1>2, <1>3 DEF NumberOf
<1>5. ASSUME NEW k \in 0 .. l - 1, k \in S PROVE k + 1 \in S
  <2>1. k + 1 \in 1 .. l /\ k + 1 \in 1 .. Len(t) /\ (k + 1) - 1 = k /\ k + 1 \in 0 .. l
    BY <1>1
  <2>2. g[k + 1] = g[k] * 10 + DigitOf(t[k + 1])
    BY <1>3, <2>1 DEF NumberOf
  <2>3. f[k + 1] = f[k] * 10 + DigitOf(s[k + 1])
    BY <1>2, <2>1 DEF NumberOf
  <2>4. t[k + 1] = s[k + 1] /\ g[k] = f[k]
    BY <1>1, <1>5, <2>1
  <2>5. g[k + 1] = f[k + 1]
    BY <2>2, <2>3, <2>4, Zenon
  <2> QED BY <2>1, <2>5
<1>6. g[l] = f[l]
  <2> HIDE DEF S
  <2>1. \A k \in 0 .. l : k \in S
    <3> HIDE DEF l
    <3> QED BY <1>1, <1>4, <1>5, UpInduction
  <2>2. l \in 0 .. l
    BY <1>1
  <2> QED BY <2>1, <2>2 DEF S
<1>7. g[l + 1] = g[l] * 10 + DigitOf(c)
  <2>1. l + 1 \in 1 .. Len(t) /\ (l + 1) - 1 = l
    BY <1>1
  <2> QED BY <1>1, <1>3, <2>1 DEF NumberOf
<1>8. f[l] \in Nat
  BY <1>1, <1>2 DEF NumberOf
<1>9. Number(t) = g[l + 1] /\ Number(s) = f[l]
  BY <1>1, <1>2, <1>3 DEF NumberOf
<1> HIDE DEF l
<1> QED BY <1>6, <1>7, <1>8, <1>9 DEF t

\* The numeral of a width is read back as that width, and begins with no zero:
\* a zero would be a flag.
LEMMA NumeralIsRead ==
  ASSUME NEW w \in Nat
  PROVE  LET s == Numeral(w, 10, Lower)
         IN  /\ s \in Seq(Digits) /\ s # <<>>
             /\ Number(s) = w
             /\ w # 0 => s[1] # "0"
<1>1. \A d \in 1 .. 10 : Lower[d] \in Characters
  <2> SUFFICES ASSUME NEW d \in 1 .. 10 PROVE Lower[d] \in Characters
    OBVIOUS
  <2>1. d - 1 \in 0 .. 9 /\ (d - 1) + 1 = d
    OBVIOUS
  <2> QED BY <2>1, DigitsAreRead
<1>2. PICK f : NumeralOf(f, w, 10, Lower)
  BY <1>1, NumeralSteps
<1> DEFINE Reads(k) == /\ f[k] \in Seq(Digits) /\ f[k] # <<>> /\ Number(f[k]) = k
                       /\ k # 0 => f[k][1] # "0"
           S == {k \in 0 .. w : Reads(k)}
<1>3. ASSUME NEW k \in 0 .. w, \A m \in 0 .. k - 1 : m \in S PROVE k \in S
  <2>1. CASE k < 10
    <3>1. f[k] = <<Lower[k + 1]>>
      BY <1>2, <2>1 DEF NumeralOf
    <3>2. k \in 0 .. 9
      BY <2>1
    <3>3. PICK c \in Digits : c = Lower[k + 1] /\ DigitOf(c) = k /\ (k # 0 => c # "0")
      BY <3>2, DigitsAreRead
    <3>4. <<c>> \in Seq(Digits) /\ <<c>> # <<>> /\ <<c>>[1] = c
      OBVIOUS
    <3>5. Number(<<c>>) = k
      <4>1. PICK g : NumberOf(g, <<c>>)
        BY <3>4, NumberSteps, DigitsAreRead
      <4>2. Len(<<c>>) = 1 /\ 1 \in 1 .. 1 /\ 1 - 1 = 0
        OBVIOUS
      <4>3. g[1] = g[0] * 10 + DigitOf(c) /\ g[0] = 0 /\ Number(<<c>>) = g[1]
        BY <3>4, <4>1, <4>2 DEF NumberOf
      <4>4. g[1] = 0 * 10 + k
        BY <3>3, <4>3, Zenon
      <4>5. 0 * 10 + k = k
        OBVIOUS
      <4> QED BY <4>3, <4>4, <4>5
    <3> QED BY <3>1, <3>3, <3>4, <3>5
  <2>2. CASE ~ (k < 10)
    <3>1. k \in Nat /\ 10 <= k
      BY <2>2
    <3>2. k \div 10 \in 0 .. k - 1 /\ k % 10 \in 0 .. 9 /\ k = (k \div 10) * 10 + (k % 10)
      BY <3>1
    <3>3. f[k] = Append(f[k \div 10], Lower[(k % 10) + 1])
      BY <1>2, <2>2 DEF NumeralOf
    <3>4. PICK q \in 0 .. k - 1 : q = k \div 10
      BY <3>2
    <3>5. q \in S
      BY <1>3
    <3>6. PICK c \in Digits : c = Lower[(k % 10) + 1] /\ DigitOf(c) = k % 10
      BY <3>2, DigitsAreRead
    <3>7. PICK s \in Seq(Digits) : s = f[q] /\ s # <<>> /\ Number(s) = q /\ (q # 0 => s[1] # "0")
      BY <3>5
    <3>8. /\ Append(s, c) \in Seq(Digits) /\ Append(s, c) # <<>>
          /\ Append(s, c)[1] = s[1]
      <4>1. 1 \in 1 .. Len(s)
        BY <3>7, EmptySeq
      <4> QED BY <4>1, AppendProperties
    <3>9. Number(Append(s, c)) = q * 10 + (k % 10)
      <4>1. Number(Append(s, c)) = Number(s) * 10 + DigitOf(c)
        BY NumberAppend
      <4> QED BY <3>6, <3>7, <4>1
    <3>10. q # 0
      BY <3>1, <3>2, <3>4
    <3>11. f[k] = Append(s, c)
      BY <3>3, <3>4, <3>6, <3>7, Zenon
    <3>12. q * 10 + (k % 10) = k
      <4>1. PICK r \in 0 .. 9 : r = k % 10
        BY <3>2
      <4>2. k = q * 10 + r
        BY <3>2, <3>4, <4>1
      <4> QED BY <4>1, <4>2
    <3> QED BY <3>7, <3>8, <3>9, <3>10, <3>11, <3>12
  <2> QED BY <2>1, <2>2
<1> HIDE DEF S
<1>4. w \in S
  <2>1. w \in 0 .. w
    OBVIOUS
  <2> QED BY <1>3, <2>1, StrongInduction
<1>5. Numeral(w, 10, Lower) = f[w]
  BY <1>2 DEF NumeralOf
<1> QED BY <1>4, <1>5 DEF S

\* The powers of two, from the subsets of an interval.
LEMMA PowerOfTwo ==
  ASSUME NEW n \in Nat
  PROVE  2^n \in Nat \ {0}
<1>1. IsFiniteSet(1 .. n) /\ Cardinality(1 .. n) = n
  BY FS_Interval
<1>2. IsFiniteSet(SUBSET (1 .. n)) /\ Cardinality(SUBSET (1 .. n)) = 2^n
  BY <1>1, FS_SUBSET
<1>3. SUBSET (1 .. n) # {}
  OBVIOUS
<1>4. 2^n \in Nat
  BY <1>2, FS_CardinalityType
<1>5. 2^n # 0
  BY <1>2, <1>3, FS_EmptySet
<1> QED BY <1>4, <1>5

\* A greater exponent makes a greater power.
LEMMA PowersGrow ==
  ASSUME NEW m \in Nat, NEW n \in Nat, m <= n
  PROVE  2^m <= 2^n
<1>1. /\ Cardinality(1 .. m) = m /\ Cardinality(1 .. n) = n
      /\ IsFiniteSet(1 .. m) /\ IsFiniteSet(1 .. n)
  <2>1. \A k \in Nat : IsFiniteSet(1 .. k) /\ Cardinality(1 .. k) = k
    BY FS_Interval
  <2> QED BY <2>1
<1>2. /\ Cardinality(SUBSET (1 .. m)) = 2^m /\ Cardinality(SUBSET (1 .. n)) = 2^n
      /\ IsFiniteSet(SUBSET (1 .. n))
  BY <1>1, FS_SUBSET
<1>3. SUBSET (1 .. m) \subseteq SUBSET (1 .. n)
  OBVIOUS
<1>4. Cardinality(SUBSET (1 .. m)) <= Cardinality(SUBSET (1 .. n))
  BY <1>2, <1>3, FS_Subset
<1> QED BY <1>2, <1>4

\* The low part of a number of either sign.
LEMMA IntMod ==
  ASSUME NEW n \in Int, NEW c \in Nat \ {0}
  PROVE  n % c \in 0 .. c - 1
  BY SMTT(20)

\* A number that fits is its low part.
LEMMA SmallMod ==
  ASSUME NEW c \in Nat \ {0}, NEW n \in 0 .. c - 1
  PROVE  n % c = n
<1>1. (0 * c + n) % c = n
  BY DivUnique
<1>2. 0 * c + n = n
  OBVIOUS
<1> QED BY <1>1, <1>2

-----------------------------------------------------------------------------
(* Fields.                                                                 *)

\* Fill characters, none of them when there is nothing to fill.
LEMMA RepeatIsSeq ==
  ASSUME NEW T, NEW c \in T, NEW n \in Int
  PROVE  Repeat(c, n) \in Seq(T) /\ Len(Repeat(c, n)) = IF n >= 0 THEN n ELSE 0
<1>1. CASE n >= 0
  <2>1. n \in Nat
    BY <1>1
  <2>2. [k \in 1 .. n |-> c] \in Seq(T) /\ Len([k \in 1 .. n |-> c]) = n
    BY <2>1
  <2> QED BY <1>1, <2>2 DEF Repeat
<1>2. CASE ~ (n >= 0)
  <2>1. 1 .. n = 1 .. 0
    BY <1>2
  <2>2. [k \in 1 .. n |-> c] = [k \in 1 .. 0 |-> c]
    BY <2>1, Zenon
  <2>3. [k \in 1 .. 0 |-> c] \in Seq(T) /\ Len([k \in 1 .. 0 |-> c]) = 0
    OBVIOUS
  <2> QED BY <1>2, <2>2, <2>3 DEF Repeat
<1> QED BY <1>1, <1>2

\* vhprintk_print_number() shows the prefix and the number in their field.
LEMMA NumberInField ==
  ASSUME NEW f, f.width \in Int, NEW n \in Nat, NEW b \in Nat, 2 <= b, NEW digits,
         \A d \in 1 .. b : digits[d] \in Characters, NEW prefix \in Seq(Characters)
  PROVE  /\ print_number(f, n, b, prefix, digits)
              = Field(f.flags, f.width, prefix, Numeral(n, b, digits))
         /\ Field(f.flags, f.width, prefix, Numeral(n, b, digits)) \in Seq(Characters)
<1>1. PICK body \in Seq(Characters) :
        body = Numeral(n, b, digits) /\ body = print_radical(n, b, digits)
  BY RadicalIsNumeral
<1>2. PICK pad \in Int : pad = f.width - Len(prefix) - Len(body)
  BY LenProperties
<1>3. " " \in Characters /\ "0" \in Characters
  BY CharactersAssumption DEF Flags
<1>4. PICK blanks \in Seq(Characters) : blanks = Repeat(" ", pad)
  BY <1>3, RepeatIsSeq
<1>5. PICK zeros \in Seq(Characters) : zeros = Repeat("0", pad)
  BY <1>3, RepeatIsSeq
<1> DEFINE left == "-" \notin f.flags
           zero == "0" \in f.flags
           shown == (IF left /\ ~zero THEN blanks ELSE <<>>) \o prefix
                    \o (IF left /\ zero THEN zeros ELSE <<>>) \o body
                    \o (IF left THEN <<>> ELSE blanks)
           field == CASE "-" \in f.flags -> prefix \o body \o blanks
                      [] "-" \notin f.flags /\ "0" \in f.flags -> prefix \o zeros \o body
                      [] OTHER -> blanks \o prefix \o body
<1>6. print_number(f, n, b, prefix, digits) = shown
  BY <1>1, <1>2, <1>4, <1>5, Zenon DEF print_number
<1>7. Field(f.flags, f.width, prefix, Numeral(n, b, digits)) = field
  BY <1>1, <1>2, <1>4, <1>5, Zenon DEF Field
<1>8. \A x \in Seq(Characters) : <<>> \o x = x /\ x \o <<>> = x
  BY ConcatEmptySeq
<1>9. \A x, y \in Seq(Characters) : x \o y \in Seq(Characters)
  BY ConcatProperties
<1>10. CASE ~left
  <2>1. field = prefix \o body \o blanks
    BY <1>10, Zenon
  <2>2. shown = <<>> \o prefix \o <<>> \o body \o blanks
    BY <1>10, Zenon
  <2>3. shown = field
    BY <1>8, <2>1, <2>2, Zenon
  <2>4. field \in Seq(Characters)
    BY <1>9, <2>1, Zenon
  <2> HIDE DEF shown, field
  <2> QED BY <1>6, <1>7, <2>3, <2>4, Zenon
<1>11. CASE left /\ zero
  <2>1. field = prefix \o zeros \o body
    BY <1>11, Zenon
  <2>2. shown = <<>> \o prefix \o zeros \o body \o <<>>
    BY <1>11, Zenon
  <2>3. shown = field
    <3>1. prefix \o zeros \o body \in Seq(Characters)
      BY <1>9, Zenon
    <3> QED BY <1>8, <2>1, <2>2, <3>1, Zenon
  <2>4. field \in Seq(Characters)
    BY <1>9, <2>1, Zenon
  <2> HIDE DEF shown, field
  <2> QED BY <1>6, <1>7, <2>3, <2>4, Zenon
<1>12. CASE left /\ ~zero
  <2>1. field = blanks \o prefix \o body
    BY <1>12, Zenon
  <2>2. shown = blanks \o prefix \o <<>> \o body \o <<>>
    BY <1>12, Zenon
  <2>3. shown = field
    <3>1. blanks \o prefix \o body \in Seq(Characters) /\ blanks \o prefix \in Seq(Characters)
      BY <1>9, Zenon
    <3> QED BY <1>8, <2>1, <2>2, <3>1, Zenon
  <2>4. field \in Seq(Characters)
    BY <1>9, <2>1, Zenon
  <2> HIDE DEF shown, field
  <2> QED BY <1>6, <1>7, <2>3, <2>4, Zenon
<1> QED BY <1>10, <1>11, <1>12

\* Text, in its field, is never filled with zeros.
LEMMA TextInField ==
  ASSUME NEW f, f.width \in Nat, NEW s \in Seq(Characters)
  PROVE  /\ print_text(f, s, 0) = Field(f.flags \ {"0"}, f.width, <<>>, s)
         /\ Field(f.flags \ {"0"}, f.width, <<>>, s) \in Seq(Characters)
<1>1. /\ " " \in Characters /\ Len(s) \in Nat /\ f.width \in Int /\ f.width - Len(s) \in Int
  <2>1. Len(s) \in Nat
    BY LenProperties
  <2>2. " " \in Characters
    BY CharactersAssumption DEF Flags
  <2>3. f.width \in Int
    OBVIOUS
  <2>4. f.width - Len(s) \in Int
    BY <2>1, <2>3
  <2> QED BY <2>1, <2>2, <2>3, <2>4
<1>2. f.width - Len(<<>>) - Len(s) = f.width - Len(s)
  <2>1. Len(<<>>) = 0
    OBVIOUS
  <2>2. f.width - 0 = f.width
    <3>1. \A w \in Int : w - 0 = w
      OBVIOUS
    <3> QED BY <1>1, <3>1, Zenon
  <2> QED BY <2>1, <2>2, Zenon
<1> DEFINE pad == Repeat(" ", f.width - Len(s))
<1>3. pad \in Seq(Characters)
  BY <1>1, RepeatIsSeq
<1>4. pad = Repeat(" ", IF f.width > Len(s) THEN f.width - Len(s) ELSE 0)
  <2>1. CASE f.width > Len(s)
    BY <2>1, Zenon
  <2>2. CASE ~ (f.width > Len(s))
    <3>1. PICK w \in Int, l \in Nat : w = f.width /\ l = Len(s)
      BY <1>1
    <3>2. 1 .. w - l = 1 .. 0
      BY <2>2, <3>1
    <3> QED BY <2>2, <3>1, <3>2, Zenon DEF Repeat
  <2> QED BY <2>1, <2>2
<1> HIDE DEF pad
<1> DEFINE shown == IF "-" \in f.flags THEN s \o pad ELSE pad \o s
<1>5. print_text(f, s, 0) = shown
  BY <1>4, Zenon DEF print_text
<1>6. \A x \in Seq(Characters) : <<>> \o x = x /\ x \o <<>> = x
  BY ConcatEmptySeq
<1>7. \A x, y \in Seq(Characters) : x \o y \in Seq(Characters)
  BY ConcatProperties
<1>8. ("-" \in f.flags \ {"0"} <=> "-" \in f.flags) /\ "0" \notin f.flags \ {"0"}
  OBVIOUS
<1>9. Field(f.flags \ {"0"}, f.width, <<>>, s)
        = IF "-" \in f.flags THEN <<>> \o s \o pad ELSE pad \o <<>> \o s
  BY <1>2, <1>8, Zenon DEF Field, pad
<1>10. Field(f.flags \ {"0"}, f.width, <<>>, s) = shown
  BY <1>3, <1>6, <1>9, Zenon
<1>11. Field(f.flags \ {"0"}, f.width, <<>>, s) \in Seq(Characters)
  BY <1>3, <1>7, <1>10, Zenon
<1> HIDE DEF shown
<1>12. print_text(f, s, 0) = Field(f.flags \ {"0"}, f.width, <<>>, s)
  BY <1>5, <1>10, Zenon
<1> QED BY <1>11, <1>12, Zenon

\* What vhprintk_read_format() makes of a conversion.
Read(i) == [flags |-> Range(i.flags), width |-> i.width, long |-> i.long, type |-> i.type]

IsConversion(i) == i \in Item /\ i.kind = "conversion"

\* The fields of a conversion.
LEMMA ConversionType ==
  ASSUME NEW i, IsConversion(i)
  PROVE  /\ i.flags \in Seq(Flags) /\ i.width \in Nat /\ i.long \in BOOLEAN
         /\ i.type \in Characters \ (Flags \cup Digits \cup {"l", "%"})
         /\ i.arg \in Argument
<1> DEFINE A == Seq(Flags)
           C == Characters \ (Flags \cup Digits \cup {"l", "%"})
           D == Seq(Characters \ {"%"}) \ {<<>>}
<1>1. i \in [kind : {"plain"}, chars : D] \cup {Percent}
              \cup [kind : {"conversion"}, flags : A, width : Nat, long : BOOLEAN,
                    type : C, arg : Argument]
  BY Zenon DEF Item, IsConversion
<1>2. i.kind = "conversion"
  BY DEF IsConversion
<1> HIDE DEF A, C, D
<1>3. i \notin [kind : {"plain"}, chars : D]
  BY <1>2
<1>4. i # Percent
  BY <1>2 DEF Percent
<1>5. i \in [kind : {"conversion"}, flags : A, width : Nat, long : BOOLEAN,
             type : C, arg : Argument]
  BY <1>1, <1>3, <1>4, Zenon
<1>6. i.flags \in A /\ i.width \in Nat /\ i.long \in BOOLEAN /\ i.type \in C /\ i.arg \in Argument
  BY <1>5
<1> QED BY <1>6 DEF A, C

\* The number that an argument stands for, in the width of its type.
LEMMA ValueInWidth ==
  ASSUME NEW i, IsConversion(i)
  PROVE  /\ ValueBits(i) \in Nat \ {0} /\ ValueBits(i) <= LongBits
         /\ 2^ValueBits(i) \in Nat \ {0} /\ 2^ValueBits(i) <= 2^LongBits
         /\ Value(i) \in 0 .. 2^ValueBits(i) - 1
<1>1. ValueBits(i) \in Nat \ {0} /\ ValueBits(i) <= LongBits /\ LongBits \in Nat
  BY FormattingAssumption DEF ValueBits
<1>2. 2^ValueBits(i) \in Nat \ {0}
  BY <1>1, PowerOfTwo
<1>3. 2^ValueBits(i) <= 2^LongBits
  BY <1>1, PowersGrow
<1>4. i.arg.num \in Int
  BY ConversionType DEF Argument
<1>5. Value(i) \in 0 .. 2^ValueBits(i) - 1
  BY <1>2, <1>4, IntMod DEF Value
<1> QED BY <1>1, <1>2, <1>3, <1>5

\* The digits of every base.
LEMMA BasesHaveDigits ==
  \A b \in {2, 8, 10, 16} : /\ b \in Nat /\ 2 <= b
                            /\ \A d \in 1 .. b : Lower[d] \in Characters
                            /\ \A d \in 1 .. b : Upper[d] \in Characters
<1>1. \A b \in {2, 8, 10, 16} : b \in Nat /\ 2 <= b /\ \A d \in 1 .. b : d \in 1 .. 16
  OBVIOUS
<1> QED BY <1>1, CharactersAssumption, Zenon

\* Prefixes, signs and the text of a null pointer are short sequences.
LEMMA ShortSeqs ==
  ASSUME NEW T
  PROVE  /\ <<>> \in Seq(T)
         /\ \A a \in T : <<a>> \in Seq(T)
         /\ \A a, b \in T : <<a, b>> \in Seq(T)
         /\ \A a, b, c, d, e, f \in T : <<a, b, c, d, e, f>> \in Seq(T)
OBVIOUS

\* Every prefix and every sign is made of characters.
LEMMA SignIsSeq ==
  ASSUME NEW i
  PROVE  /\ Plus(i) \in Seq(Characters)
         /\ \A s \in {<<>>, <<"-">>, <<"0">>, <<"0", "x">>, <<"0", "b">>} : s \in Seq(Characters)
         /\ <<"(", "n", "u", "l", "l", ")">> \in Seq(Characters)
<1>1. /\ " " \in Characters /\ "+" \in Characters /\ "-" \in Characters /\ "0" \in Characters
      /\ "(" \in Characters /\ "n" \in Characters /\ "u" \in Characters /\ "l" \in Characters
      /\ ")" \in Characters /\ "x" \in Characters
  BY CharactersAssumption DEF Flags
<1>2. "b" \in Characters
  <2>1. Lower[12] = "b" /\ 12 \in 1 .. 16
    BY DEF Lower
  <2> QED BY <2>1, CharactersAssumption, Zenon
<1>3. /\ <<>> \in Seq(Characters) /\ <<" ">> \in Seq(Characters) /\ <<"+">> \in Seq(Characters)
      /\ <<"-">> \in Seq(Characters) /\ <<"0">> \in Seq(Characters)
  BY <1>1, ShortSeqs, Zenon
<1>4. <<"0", "x">> \in Seq(Characters) /\ <<"0", "b">> \in Seq(Characters)
  BY <1>1, <1>2, ShortSeqs, Zenon
<1>5. <<"(", "n", "u", "l", "l", ")">> \in Seq(Characters)
  BY <1>1, ShortSeqs, Zenon
<1>6. Plus(i) \in Seq(Characters)
  BY <1>3, Zenon DEF Plus
<1> QED BY <1>3, <1>4, <1>5, <1>6, Zenon

\* What va_arg() takes is the value of the conversion, in its width.
LEMMA ArgumentIsTaken ==
  ASSUME NEW i, IsConversion(i), Head(args) = i.arg
  PROVE  /\ i.type # "p" => Bits(Read(i)) = ValueBits(i) /\ VaArg(Read(i)) = Value(i)
         /\ i.type = "p" => VaArg(Pointer(Read(i))) = Value(i)
<1>1. Read(i).long = i.long /\ Read(i).type = i.type
  BY DEF Read
<1>2. i.type # "p" => Bits(Read(i)) = ValueBits(i)
  BY <1>1, Zenon DEF Bits, ValueBits
<1>3. i.type = "p" => Pointer(Read(i)).long = TRUE
  BY <1>1 DEF Pointer
<1>4. i.type = "p" => Bits(Pointer(Read(i))) = ValueBits(i)
  BY <1>3, Zenon DEF Bits, ValueBits
<1> QED BY <1>2, <1>4, Zenon DEF VaArg, Value

\* vhprintk_print_signed(): the opposite of a negative int, extended to a long,
\* does not wrap on its way to its digits.
LEMMA SignedIsShown ==
  ASSUME NEW i, IsConversion(i), Head(args) = i.arg, i.type # "p"
  PROVE  print_signed(Read(i)) = Decimal(i) /\ Decimal(i) \in Seq(Characters)
<1>1. PICK N \in Nat \ {0} : N = 2^ValueBits(i)
  BY ValueInWidth
<1>2. PICK M \in Nat \ {0} : M = 2^LongBits
  BY PowerOfTwo, FormattingAssumption
<1>3. PICK v \in 0 .. N - 1 : v = Value(i)
  BY <1>1, ValueInWidth
<1>4. N <= M
  BY <1>1, <1>2, ValueInWidth
<1>5. Bits(Read(i)) = ValueBits(i) /\ VaArg(Read(i)) = v
  BY <1>3, ArgumentIsTaken
<1>6. /\ Read(i).flags = Range(i.flags) /\ Read(i).width = i.width /\ i.width \in Int
      /\ SignOf(Read(i)) = Plus(i)
  <2>1. Read(i).flags = Range(i.flags) /\ Read(i).width = i.width /\ i.width \in Nat
    BY ConversionType DEF Read
  <2> QED BY <2>1 DEF SignOf, Plus
<1>7. ASSUME NEW n \in Nat, NEW sign \in Seq(Characters)
      PROVE  /\ print_number(Read(i), n, 10, sign, Lower)
                  = NumberField(i, sign, Numeral(n, 10, Lower))
             /\ NumberField(i, sign, Numeral(n, 10, Lower)) \in Seq(Characters)
  <2>1. /\ print_number(Read(i), n, 10, sign, Lower)
             = Field(Read(i).flags, Read(i).width, sign, Numeral(n, 10, Lower))
        /\ Field(Read(i).flags, Read(i).width, sign, Numeral(n, 10, Lower)) \in Seq(Characters)
    BY <1>6, BasesHaveDigits, NumberInField
  <2> QED BY <1>6, <2>1 DEF NumberField
<1>8. PICK half : half = 2^(ValueBits(i) - 1)
  OBVIOUS
<1>9. CASE v >= half
  <2>1. print_signed(Read(i)) = print_number(Read(i), (-(v - N)) % M, 10, <<"-">>, Lower)
    BY <1>1, <1>2, <1>5, <1>8, <1>9, Zenon DEF print_signed
  <2>2. PICK n \in 0 .. M : n = N - v
    BY <1>4
  <2>3. -(v - N) = N - v
    BY <1>1, <1>3
  <2>4. n % M = n
    <3>1. half # 0 /\ half \in Nat
      <4>1. ValueBits(i) - 1 \in Nat
        BY ValueInWidth
      <4> QED BY <1>8, <4>1, PowerOfTwo
    <3>2. n \in 0 .. M - 1
      BY <1>4, <1>9, <2>2, <3>1
    <3> QED BY <3>2, SmallMod
  <2>5. print_signed(Read(i)) = print_number(Read(i), n, 10, <<"-">>, Lower)
    BY <2>1, <2>2, <2>3, <2>4, Zenon
  <2>6. Decimal(i) = NumberField(i, <<"-">>, Numeral(n, 10, Lower))
    BY <1>1, <1>3, <1>8, <1>9, <2>2, Zenon DEF Decimal
  <2>7. n \in Nat /\ <<"-">> \in Seq(Characters)
    BY SignIsSeq
  <2> QED BY <1>7, <2>5, <2>6, <2>7, Zenon
<1>10. CASE ~ (v >= half)
  <2>1. print_signed(Read(i)) = print_number(Read(i), v % M, 10, Plus(i), Lower)
    BY <1>2, <1>5, <1>6, <1>8, <1>10, Zenon DEF print_signed
  <2>2. v % M = v
    <3>1. v \in 0 .. M - 1
      BY <1>4
    <3> QED BY <3>1, SmallMod
  <2>3. Decimal(i) = NumberField(i, Plus(i), Numeral(v, 10, Lower))
    BY <1>3, <1>8, <1>10, Zenon DEF Decimal
  <2>4. v \in Nat /\ Plus(i) \in Seq(Characters)
    BY SignIsSeq
  <2> QED BY <1>7, <2>1, <2>2, <2>3, <2>4, Zenon
<1> QED BY <1>9, <1>10

\* vhprintk_print_unsigned(), and a pointer.
LEMMA UnsignedIsShown ==
  ASSUME NEW i, IsConversion(i), Head(args) = i.arg, i.type \in {"X", "x", "u", "o", "b"}
  PROVE  print_unsigned(Read(i)) = ConversionShown(i) /\ ConversionShown(i) \in Seq(Characters)
<1>1. PICK v \in Nat : v = Value(i)
  <2>1. Value(i) \in Nat
    BY ValueInWidth
  <2> QED BY <2>1
<1>2. VaArg(Read(i)) = v
  BY <1>1, ArgumentIsTaken
<1>3. /\ Read(i).flags = Range(i.flags) /\ Read(i).width = i.width /\ i.width \in Int
      /\ SignOf(Read(i)) = Plus(i) /\ Read(i).type = i.type
  <2>1. /\ Read(i).flags = Range(i.flags) /\ Read(i).width = i.width /\ i.width \in Nat
        /\ Read(i).type = i.type
    BY ConversionType DEF Read
  <2> QED BY <2>1 DEF SignOf, Plus
<1>4. /\ Base["X"] = 16 /\ Base["x"] = 16 /\ Base["u"] = 10 /\ Base["o"] = 8 /\ Base["b"] = 2
  BY DEF Base
<1>5. ASSUME NEW b \in {2, 8, 10, 16}, NEW sign \in Seq(Characters), NEW digits \in {Lower, Upper}
      PROVE  /\ print_number(Read(i), v, b, sign, digits)
                  = NumberField(i, sign, Numeral(v, b, digits))
             /\ NumberField(i, sign, Numeral(v, b, digits)) \in Seq(Characters)
  <2>1. b \in Nat /\ 2 <= b /\ \A d \in 1 .. b : digits[d] \in Characters
    <3>1. \A d \in 1 .. b : Lower[d] \in Characters /\ Upper[d] \in Characters
      BY BasesHaveDigits
    <3>2. b \in Nat /\ 2 <= b
      OBVIOUS
    <3>3. digits = Lower \/ digits = Upper
      OBVIOUS
    <3> QED BY <3>1, <3>2, <3>3, Zenon
  <2>2. /\ print_number(Read(i), v, b, sign, digits)
             = Field(Read(i).flags, Read(i).width, sign, Numeral(v, b, digits))
        /\ Field(Read(i).flags, Read(i).width, sign, Numeral(v, b, digits)) \in Seq(Characters)
    BY <1>3, <2>1, NumberInField
  <2> QED BY <1>3, <2>2 DEF NumberField
<1> DEFINE Prefix(s) == IF "#" \in Range(i.flags) THEN s ELSE <<>>
<1>6. \A s \in {<<"0">>, <<"0", "x">>, <<"0", "b">>} : Prefix(s) \in Seq(Characters)
  BY SignIsSeq, Zenon
<1> DEFINE alternate == [X |-> <<"0", "x">>, x |-> <<"0", "x">>, o |-> <<"0">>, b |-> <<"0", "b">>]
<1>7. /\ alternate["X"] = <<"0", "x">> /\ alternate["x"] = <<"0", "x">>
      /\ alternate["o"] = <<"0">> /\ alternate["b"] = <<"0", "b">>
  OBVIOUS
<1>8. print_unsigned(Read(i))
        = print_number(Read(i), v, Base[i.type],
                       IF i.type = "u" THEN SignOf(Read(i))
                       ELSE IF "#" \in Range(i.flags) THEN alternate[i.type] ELSE <<>>,
                       IF i.type = "X" THEN Upper ELSE Lower)
  BY <1>2, <1>3, Zenon DEF print_unsigned
<1> HIDE DEF alternate
<1>9. CASE i.type = "u"
  <2>1. print_unsigned(Read(i)) = print_number(Read(i), v, 10, Plus(i), Lower)
    <3> DEFINE prefix == IF i.type = "u" THEN SignOf(Read(i))
                         ELSE IF "#" \in Range(i.flags) THEN alternate[i.type] ELSE <<>>
    <3>1. i.type # "X" /\ Base[i.type] = 10
      BY <1>4, <1>9
    <3>2. prefix = Plus(i)
      BY <1>3, <1>9
    <3>3. print_unsigned(Read(i)) = print_number(Read(i), v, Base[i.type], prefix, Lower)
      BY <1>8, <3>1, Zenon
    <3> HIDE DEF prefix
    <3> QED BY <3>1, <3>2, <3>3, Zenon
  <2>2. ConversionShown(i) = NumberField(i, Plus(i), Numeral(v, 10, Lower))
    BY <1>1, <1>9 DEF ConversionShown
  <2>3. Plus(i) \in Seq(Characters)
    BY SignIsSeq
  <2> QED BY <1>5, <2>1, <2>2, <2>3
<1>10. CASE i.type = "X"
  <2>1. print_unsigned(Read(i)) = print_number(Read(i), v, 16, Prefix(<<"0", "x">>), Upper)
    BY <1>4, <1>7, <1>8, <1>10
  <2>2. ConversionShown(i) = NumberField(i, Prefix(<<"0", "x">>), Numeral(v, 16, Upper))
    BY <1>1, <1>10 DEF ConversionShown, Radical
  <2> HIDE DEF Prefix
  <2> QED BY <1>5, <1>6, <2>1, <2>2
<1>11. CASE i.type = "x"
  <2>1. print_unsigned(Read(i)) = print_number(Read(i), v, 16, Prefix(<<"0", "x">>), Lower)
    BY <1>4, <1>7, <1>8, <1>11
  <2>2. ConversionShown(i) = NumberField(i, Prefix(<<"0", "x">>), Numeral(v, 16, Lower))
    BY <1>1, <1>11 DEF ConversionShown, Radical
  <2> HIDE DEF Prefix
  <2> QED BY <1>5, <1>6, <2>1, <2>2
<1>12. CASE i.type = "o"
  <2>1. print_unsigned(Read(i)) = print_number(Read(i), v, 8, Prefix(<<"0">>), Lower)
    BY <1>4, <1>7, <1>8, <1>12
  <2>2. ConversionShown(i) = NumberField(i, Prefix(<<"0">>), Numeral(v, 8, Lower))
    BY <1>1, <1>12 DEF ConversionShown, Radical
  <2> HIDE DEF Prefix
  <2> QED BY <1>5, <1>6, <2>1, <2>2
<1>13. CASE i.type = "b"
  <2>1. print_unsigned(Read(i)) = print_number(Read(i), v, 2, Prefix(<<"0", "b">>), Lower)
    BY <1>4, <1>7, <1>8, <1>13
  <2>2. ConversionShown(i) = NumberField(i, Prefix(<<"0", "b">>), Numeral(v, 2, Lower))
    BY <1>1, <1>13 DEF ConversionShown, Radical
  <2> HIDE DEF Prefix
  <2> QED BY <1>5, <1>6, <2>1, <2>2
<1> QED BY <1>9, <1>10, <1>11, <1>12, <1>13

\* A pointer is printed as the long number in base 16 that it is.
LEMMA PointerIsShown ==
  ASSUME NEW i, IsConversion(i), Head(args) = i.arg, i.type = "p"
  PROVE  /\ print_unsigned(Pointer(Read(i))) = ConversionShown(i)
         /\ Pointer(Read(i)).type = "x"
         /\ ConversionShown(i) \in Seq(Characters)
<1>1. PICK v \in Nat : v = Value(i)
  <2>1. Value(i) \in Nat
    BY ValueInWidth
  <2> QED BY <2>1
<1>2. PICK f : f = Pointer(Read(i))
  OBVIOUS
<1>3. /\ f.flags = Range(i.flags) \cup {"#"} /\ f.width = i.width /\ f.type = "x"
      /\ i.width \in Int
  <2>1. i.width \in Nat
    BY ConversionType
  <2> QED BY <1>2, <2>1 DEF Pointer, Read
<1>4. VaArg(f) = v
  BY <1>1, <1>2, ArgumentIsTaken
<1>5. print_unsigned(f) = print_number(f, v, 16, <<"0", "x">>, Lower)
  <2>1. Base[f.type] = 16 /\ f.type # "X" /\ f.type # "u" /\ "#" \in f.flags
    BY <1>3 DEF Base
  <2> DEFINE alternate ==
               [X |-> <<"0", "x">>, x |-> <<"0", "x">>, o |-> <<"0">>, b |-> <<"0", "b">>]
  <2>2. alternate[f.type] = <<"0", "x">>
    BY <1>3
  <2> HIDE DEF alternate
  <2>3. print_unsigned(f)
          = print_number(f, VaArg(f), Base[f.type],
                         IF f.type = "u" THEN SignOf(f)
                         ELSE IF "#" \in f.flags THEN alternate[f.type] ELSE <<>>,
                         IF f.type = "X" THEN Upper ELSE Lower)
    BY Zenon DEF print_unsigned, alternate
  <2> QED BY <1>4, <2>1, <2>2, <2>3, Zenon
<1>6. <<"0", "x">> \in Seq(Characters)
  BY SignIsSeq, Zenon
<1>7. /\ print_number(f, v, 16, <<"0", "x">>, Lower)
           = Field(f.flags, f.width, <<"0", "x">>, Numeral(v, 16, Lower))
      /\ Field(f.flags, f.width, <<"0", "x">>, Numeral(v, 16, Lower)) \in Seq(Characters)
  <2>1. 16 \in Nat /\ 2 <= 16 /\ \A d \in 1 .. 16 : Lower[d] \in Characters
    BY BasesHaveDigits
  <2> QED BY <1>3, <1>6, <2>1, NumberInField
<1>8. ConversionShown(i) = Field(Range(i.flags), i.width, <<"0", "x">>, Numeral(v, 16, Lower))
  BY <1>1 DEF ConversionShown, NumberField
<1>9. ("-" \in f.flags <=> "-" \in Range(i.flags)) /\ ("0" \in f.flags <=> "0" \in Range(i.flags))
  BY <1>3
<1>10. \A s : Field(f.flags, i.width, <<"0", "x">>, s)
                = Field(Range(i.flags), i.width, <<"0", "x">>, s)
  BY <1>9, Zenon DEF Field
<1> QED BY <1>2, <1>3, <1>5, <1>7, <1>8, <1>10, Zenon

\* vhprintk_print_char() and vhprintk_print_string().
LEMMA TextIsShown ==
  ASSUME NEW i, IsConversion(i), Head(args) = i.arg
  PROVE  /\ print_text(Read(i), i.arg.chars, 0) = Words(i, i.arg.chars)
         /\ Words(i, i.arg.chars) \in Seq(Characters)
         /\ print_string(Read(i)) = Quoted(i)
         /\ Quoted(i) \in Seq(Characters)
<1>1. Read(i).flags = Range(i.flags) /\ Read(i).width = i.width /\ i.width \in Nat
  BY ConversionType DEF Read
<1>2. ASSUME NEW s \in Seq(Characters)
      PROVE  print_text(Read(i), s, 0) = Words(i, s) /\ Words(i, s) \in Seq(Characters)
  <2>1. /\ print_text(Read(i), s, 0) = Field(Read(i).flags \ {"0"}, Read(i).width, <<>>, s)
        /\ Field(Read(i).flags \ {"0"}, Read(i).width, <<>>, s) \in Seq(Characters)
    BY <1>1, TextInField
  <2> QED BY <1>1, <2>1, Zenon DEF Words
<1>3. i.arg.chars \in Seq(Characters)
  BY ConversionType DEF Argument
<1> DEFINE null == <<"(", "n", "u", "l", "l", ")">>
           s == IF i.arg = Null THEN null ELSE i.arg.chars
<1>4. null \in Seq(Characters) /\ null # <<>>
  BY SignIsSeq, Zenon
<1> HIDE DEF null
<1>5. print_string(Read(i))
        = print_text(Read(i), s, IF s = <<>> /\ " " \in Range(i.flags) THEN 1 ELSE 0)
  BY <1>1, Zenon DEF print_string, null
<1>6. CASE i.arg = Null
  <2>1. s = null
    BY <1>6
  <2>2. print_string(Read(i)) = print_text(Read(i), null, 0)
    BY <1>4, <1>5, <2>1, Zenon
  <2>3. Quoted(i) = Words(i, null)
    BY <1>6, Zenon DEF Quoted, null
  <2> QED BY <1>2, <1>3, <1>4, <2>2, <2>3, Zenon
<1>7. CASE i.arg # Null /\ ~ (i.arg.chars = <<>> /\ " " \in Range(i.flags))
  <2>1. s = i.arg.chars
    BY <1>7
  <2>2. print_string(Read(i)) = print_text(Read(i), i.arg.chars, 0)
    BY <1>5, <1>7, <2>1, Zenon
  <2>3. Quoted(i) = Words(i, i.arg.chars)
    BY <1>7, Zenon DEF Quoted
  <2> QED BY <1>2, <1>3, <2>2, <2>3, Zenon
<1>8. CASE i.arg # Null /\ i.arg.chars = <<>> /\ " " \in Range(i.flags)
  <2>1. print_string(Read(i)) = print_text(Read(i), <<>>, 1)
    BY <1>5, <1>8, Zenon
  <2>2. Len(<<>>) = 0 /\ <<>> \in Seq(Characters)
    OBVIOUS
  <2>3. CASE i.width = 0
    <3>1. Repeat(" ", 1) = <<" ">>
      <4>1. \A c : [k \in 1 .. 1 |-> c] = <<c>>
        OBVIOUS
      <4> QED BY <4>1, Zenon DEF Repeat
    <3>2. Read(i).width > Len(<<>>) <=> FALSE
      BY <1>1, <2>2, <2>3
    <3>3. print_text(Read(i), <<>>, 1)
            = IF "-" \in Range(i.flags) THEN <<>> \o <<" ">> ELSE <<" ">> \o <<>>
      BY <1>1, <3>1, <3>2, Zenon DEF print_text
    <3>4. <<>> \o <<" ">> = <<" ">> /\ <<" ">> \o <<>> = <<" ">>
      OBVIOUS
    <3>5. Quoted(i) = <<" ">>
      BY <1>8, <2>3, Zenon DEF Quoted
    <3>6. <<" ">> \in Seq(Characters)
      <4>1. " " \in Characters
        BY CharactersAssumption DEF Flags
      <4> QED BY <4>1, ShortSeqs, Zenon
    <3> QED BY <1>2, <1>3, <2>1, <3>3, <3>4, <3>5, <3>6, Zenon
  <2>4. CASE i.width # 0
    <3>1. Read(i).width > Len(<<>>) <=> TRUE
      BY <1>1, <2>2, <2>4
    <3>2. print_text(Read(i), <<>>, 1) = print_text(Read(i), <<>>, 0)
      BY <3>1, Zenon DEF print_text
    <3>3. Quoted(i) = Words(i, <<>>)
      BY <1>8, <2>4, Zenon DEF Quoted
    <3> QED BY <1>2, <1>3, <2>1, <2>2, <3>2, <3>3, Zenon
  <2> QED BY <2>3, <2>4
<1> QED BY <1>6, <1>7, <1>8

\* What vhprintk() prints for a conversion is what the conversion shows.
LEMMA ConversionIsPrinted ==
  ASSUME NEW i, IsConversion(i), i.type \in Types => Head(args) = i.arg
  PROVE  /\ Converted(Pointer(Read(i))) = ConversionShown(i)
         /\ ConversionShown(i) \in Seq(Characters)
<1>1. Read(i).type = i.type /\ (i.type # "p" => Pointer(Read(i)) = Read(i))
  BY DEF Pointer, Read
<1>2. DOMAIN Base = {"X", "x", "u", "o", "b"}
  BY DEF Base
<1>3. CASE i.type = "p"
  <2>1. Head(args) = i.arg
    BY <1>3 DEF Types
  <2>2. /\ print_unsigned(Pointer(Read(i))) = ConversionShown(i)
        /\ Pointer(Read(i)).type = "x"
        /\ ConversionShown(i) \in Seq(Characters)
    BY <1>3, <2>1, PointerIsShown
  <2>3. "x" \in DOMAIN Base
    BY <1>2
  <2>4. Converted(Pointer(Read(i))) = print_unsigned(Pointer(Read(i)))
    BY <2>2, <2>3 DEF Converted
  <2> QED BY <2>2, <2>4
<1>4. CASE i.type \in {"X", "x", "u", "o", "b"}
  <2>1. Head(args) = i.arg /\ i.type # "p"
    BY <1>4 DEF Types
  <2>2. Converted(Read(i)) = print_unsigned(Read(i))
    BY <1>1, <1>2, <1>4 DEF Converted
  <2> QED BY <1>1, <1>4, <2>1, <2>2, UnsignedIsShown
<1>5. CASE i.type \in {"d", "i"}
  <2>1. Head(args) = i.arg /\ i.type # "p"
    BY <1>5 DEF Types
  <2>2. Converted(Read(i)) = print_signed(Read(i)) /\ ConversionShown(i) = Decimal(i)
    BY <1>1, <1>2, <1>5 DEF Converted, ConversionShown
  <2> QED BY <1>1, <2>1, <2>2, SignedIsShown
<1>6. CASE i.type = "c"
  <2>1. Head(args) = i.arg /\ i.type # "p"
    BY <1>6 DEF Types
  <2>2. /\ Converted(Read(i)) = print_text(Read(i), i.arg.chars, 0)
        /\ ConversionShown(i) = Words(i, i.arg.chars)
    BY <1>1, <1>2, <1>6, <2>1 DEF Converted, ConversionShown
  <2> QED BY <1>1, <2>1, <2>2, TextIsShown
<1>7. CASE i.type = "s"
  <2>1. Head(args) = i.arg /\ i.type # "p"
    BY <1>7 DEF Types
  <2>2. Converted(Read(i)) = print_string(Read(i)) /\ ConversionShown(i) = Quoted(i)
    BY <1>1, <1>2, <1>7 DEF Converted, ConversionShown
  <2> QED BY <1>1, <2>1, <2>2, TextIsShown
<1>8. CASE i.type \notin Types
  <2>1. Converted(Read(i)) = <<>> /\ ConversionShown(i) = <<>> /\ i.type # "p"
    BY <1>1, <1>2, <1>8 DEF Converted, ConversionShown, Types
  <2> QED BY <1>1, <2>1
<1> QED BY <1>3, <1>4, <1>5, <1>6, <1>7, <1>8 DEF Types

\* The places of five texts one behind the other.
LEMMA PlacesOfTwo ==
  ASSUME NEW T, NEW u \in Seq(T), NEW v \in Seq(T),
         NEW m \in Nat, m = Len(u), NEW n \in Nat, n = Len(v)
  PROVE  /\ u \o v \in Seq(T) /\ Len(u \o v) = m + n
         /\ \A j \in 1 .. m : (u \o v)[j] = u[j]
         /\ \A j \in 1 .. n : (u \o v)[m + j] = v[j]
OBVIOUS

Places(s, T, t1, t2, t3, t4, t5) ==
  /\ s \in Seq(T)
  /\ Len(s) = Len(t1) + Len(t2) + Len(t3) + Len(t4) + Len(t5)
  /\ \A j \in 1 .. Len(t1) : s[j] = t1[j]
  /\ \A j \in 1 .. Len(t2) : s[Len(t1) + j] = t2[j]
  /\ \A j \in 1 .. Len(t3) : s[Len(t1) + Len(t2) + j] = t3[j]
  /\ \A j \in 1 .. Len(t4) : s[Len(t1) + Len(t2) + Len(t3) + j] = t4[j]
  /\ \A j \in 1 .. Len(t5) : s[Len(t1) + Len(t2) + Len(t3) + Len(t4) + j] = t5[j]

\* The places of the characters of five texts.
LEMMA PlacesOfFive ==
  ASSUME NEW T, NEW t1 \in Seq(T), NEW t2 \in Seq(T), NEW t3 \in Seq(T), NEW t4 \in Seq(T),
         NEW t5 \in Seq(T)
  PROVE  Places(t1 \o t2 \o t3 \o t4 \o t5, T, t1, t2, t3, t4, t5)
<1> DEFINE s == t1 \o t2 \o t3 \o t4 \o t5
<1>1. PICK n1 \in Nat, n2 \in Nat, n3 \in Nat, n4 \in Nat, n5 \in Nat :
        n1 = Len(t1) /\ n2 = Len(t2) /\ n3 = Len(t3) /\ n4 = Len(t4) /\ n5 = Len(t5)
  BY LenProperties
<1> DEFINE a == t1 \o t2
           b == a \o t3
           c == b \o t4
<1>2. /\ a \in Seq(T) /\ Len(a) = n1 + n2
      /\ \A j \in 1 .. n1 : a[j] = t1[j]
      /\ \A j \in 1 .. n2 : a[n1 + j] = t2[j]
  BY <1>1, PlacesOfTwo
<1> HIDE DEF a
<1>3. /\ b \in Seq(T) /\ Len(b) = n1 + n2 + n3
      /\ \A j \in 1 .. n1 + n2 : b[j] = a[j]
      /\ \A j \in 1 .. n3 : b[n1 + n2 + j] = t3[j]
  <2>1. PICK m \in Nat : m = n1 + n2
    OBVIOUS
  <2>2. m = Len(a) /\ n3 = Len(t3)
    BY <1>1, <1>2, <2>1
  <2>3. /\ a \o t3 \in Seq(T) /\ Len(a \o t3) = m + n3
        /\ \A j \in 1 .. m : (a \o t3)[j] = a[j]
        /\ \A j \in 1 .. n3 : (a \o t3)[m + j] = t3[j]
    <3>1. a \in Seq(T)
      BY <1>2
    <3> QED BY <2>2, <3>1, PlacesOfTwo
  <2> QED BY <2>1, <2>3
<1> HIDE DEF b
<1>4. /\ c \in Seq(T) /\ Len(c) = n1 + n2 + n3 + n4
      /\ \A j \in 1 .. n1 + n2 + n3 : c[j] = b[j]
      /\ \A j \in 1 .. n4 : c[n1 + n2 + n3 + j] = t4[j]
  <2>1. PICK m \in Nat : m = n1 + n2 + n3
    OBVIOUS
  <2>2. m = Len(b) /\ n4 = Len(t4)
    BY <1>1, <1>3, <2>1
  <2>3. /\ b \o t4 \in Seq(T) /\ Len(b \o t4) = m + n4
        /\ \A j \in 1 .. m : (b \o t4)[j] = b[j]
        /\ \A j \in 1 .. n4 : (b \o t4)[m + j] = t4[j]
    <3>1. b \in Seq(T)
      BY <1>3
    <3> QED BY <2>2, <3>1, PlacesOfTwo
  <2> QED BY <2>1, <2>3
<1> HIDE DEF c
<1>5. /\ c \o t5 \in Seq(T) /\ Len(c \o t5) = n1 + n2 + n3 + n4 + n5
      /\ \A j \in 1 .. n1 + n2 + n3 + n4 : (c \o t5)[j] = c[j]
      /\ \A j \in 1 .. n5 : (c \o t5)[n1 + n2 + n3 + n4 + j] = t5[j]
  <2>1. PICK m \in Nat : m = n1 + n2 + n3 + n4
    OBVIOUS
  <2>2. m = Len(c) /\ n5 = Len(t5)
    BY <1>1, <1>4, <2>1
  <2>3. /\ c \o t5 \in Seq(T) /\ Len(c \o t5) = m + n5
        /\ \A j \in 1 .. m : (c \o t5)[j] = c[j]
        /\ \A j \in 1 .. n5 : (c \o t5)[m + j] = t5[j]
    <3>1. c \in Seq(T)
      BY <1>4
    <3> QED BY <2>2, <3>1, PlacesOfTwo
  <2> QED BY <2>1, <2>3
<1>6. s = c \o t5
  BY Zenon DEF a, b, c
<1> HIDE DEF s
<1>7. /\ s \in Seq(T) /\ Len(s) = n1 + n2 + n3 + n4 + n5
      /\ \A j \in 1 .. n1 + n2 + n3 + n4 : s[j] = c[j]
      /\ \A j \in 1 .. n5 : s[n1 + n2 + n3 + n4 + j] = t5[j]
  BY <1>5, <1>6, Zenon
<1>8. ASSUME NEW j \in 1 .. n1 PROVE s[j] = t1[j]
  <2>1. j \in 1 .. n1 + n2 /\ j \in 1 .. n1 + n2 + n3 /\ j \in 1 .. n1 + n2 + n3 + n4
    OBVIOUS
  <2>2. s[j] = c[j] /\ c[j] = b[j] /\ b[j] = a[j] /\ a[j] = t1[j]
    BY <1>2, <1>3, <1>4, <1>7, <2>1
  <2> QED BY <2>2
<1>9. ASSUME NEW j \in 1 .. n2 PROVE s[n1 + j] = t2[j]
  <2>1. /\ n1 + j \in 1 .. n1 + n2 /\ n1 + j \in 1 .. n1 + n2 + n3
        /\ n1 + j \in 1 .. n1 + n2 + n3 + n4
    OBVIOUS
  <2>2. /\ s[n1 + j] = c[n1 + j] /\ c[n1 + j] = b[n1 + j]
        /\ b[n1 + j] = a[n1 + j] /\ a[n1 + j] = t2[j]
    BY <1>2, <1>3, <1>4, <1>7, <2>1
  <2> QED BY <2>2
<1>10. ASSUME NEW j \in 1 .. n3 PROVE s[n1 + n2 + j] = t3[j]
  <2>1. n1 + n2 + j \in 1 .. n1 + n2 + n3 /\ n1 + n2 + j \in 1 .. n1 + n2 + n3 + n4
    OBVIOUS
  <2> QED BY <1>3, <1>4, <1>7, <2>1, Zenon
<1>11. ASSUME NEW j \in 1 .. n4 PROVE s[n1 + n2 + n3 + j] = t4[j]
  <2>1. n1 + n2 + n3 + j \in 1 .. n1 + n2 + n3 + n4
    OBVIOUS
  <2> QED BY <1>4, <1>7, <2>1, Zenon
<1>12. Places(s, T, t1, t2, t3, t4, t5)
  BY <1>1, <1>7, <1>8, <1>9, <1>10, <1>11, Zenon DEF Places
<1> QED BY <1>12 DEF s

-----------------------------------------------------------------------------
(* A conversion is read back.                                              *)

\* Span() is the number of characters before the first that is not in S.
LEMMA SpanIs ==
  ASSUME NEW T, NEW s \in Seq(T), NEW k \in Nat, NEW n \in Nat, NEW S, k + n <= Len(s),
         \A j \in k + 1 .. k + n : s[j] \in S,
         k + n < Len(s) => s[k + n + 1] \notin S
  PROVE  Span(s, k, S) = n
<1> DEFINE Is(m) == /\ \A j \in k + 1 .. k + m : s[j] \in S
                    /\ k + m < Len(s) => s[k + m + 1] \notin S
<1>1. PICK l \in Nat : l = Len(s)
  BY LenProperties
<1>2. n \in 0 .. l - k
  BY <1>1
<1>3. ASSUME NEW m \in 0 .. l - k, Is(m) PROVE m = n
  <2>1. CASE m < n
    <3>1. k + m < l /\ k + m + 1 \in k + 1 .. k + n
      BY <1>1, <2>1
    <3>2. s[k + m + 1] \in S
      BY <3>1
    <3> QED BY <1>1, <1>3, <3>1, <3>2
  <2>2. CASE n < m
    <3>1. k + n < l /\ k + n + 1 \in k + 1 .. k + m
      BY <1>1, <2>2
    <3>2. s[k + n + 1] \in S
      BY <1>3, <3>1
    <3> QED BY <1>1, <3>1, <3>2
  <2> QED BY <2>1, <2>2
<1>4. Is(n)
  OBVIOUS
<1>5. Span(s, k, S) = CHOOSE m \in 0 .. l - k : Is(m)
  BY <1>1, Zenon DEF Span
<1> HIDE DEF Is
<1> QED BY <1>2, <1>3, <1>4, <1>5

\* No mark of a conversion can be taken for one of those before it.
LEMMA MarksAreDistinct ==
  /\ \A c \in Digits : c # "0" => c \notin Flags
  /\ "l" \notin Flags /\ "l" \notin Digits
  /\ "%" \notin Flags /\ "%" \notin Digits
<1>1. /\ Lower[1] = "0" /\ Lower[2] = "1" /\ Lower[3] = "2" /\ Lower[4] = "3" /\ Lower[5] = "4"
      /\ Lower[6] = "5" /\ Lower[7] = "6" /\ Lower[8] = "7" /\ Lower[9] = "8" /\ Lower[10] = "9"
  BY DEF Lower
<1>2. ASSUME NEW c \in Digits PROVE c \in {"0", "1", "2", "3", "4", "5", "6", "7", "8", "9"}
  <2>1. PICK k \in 1 .. 10 : c = Lower[k]
    BY DEF Digits
  <2>2. k \in {1, 2, 3, 4, 5, 6, 7, 8, 9, 10}
    OBVIOUS
  <2> HIDE DEF Lower
  <2> QED BY <1>1, <2>1, <2>2
<1> QED BY <1>2 DEF Flags

\* A part of a sequence, by its places.
LEMMA SliceIs ==
  ASSUME NEW T, NEW s \in Seq(T), NEW a \in Nat, NEW c \in Nat, a + c <= Len(s)
  PROVE  SubSeq(s, a + 1, a + c) = [j \in 1 .. c |-> s[a + j]]
<1>1. SubSeq(s, a + 1, a + c) = [j \in 1 .. (a + c) - (a + 1) + 1 |-> s[j + (a + 1) - 1]]
  OBVIOUS
<1>2. (a + c) - (a + 1) + 1 = c /\ \A j \in 1 .. c : j + (a + 1) - 1 = a + j
  OBVIOUS
<1> QED BY <1>1, <1>2

\* What follows the percent sign of a conversion.
WidthText(i) == IF i.width = 0 THEN <<>> ELSE Numeral(i.width, 10, Lower)
LongText(i) == IF i.long THEN <<"l">> ELSE <<>>
Body(i) == i.flags \o WidthText(i) \o LongText(i) \o <<i.type>>

\* The flags, the width, the length mark and the type of a conversion.
LEMMA BodyParts ==
  ASSUME NEW i, IsConversion(i)
  PROVE  /\ i.flags \in Seq(Characters) /\ WidthText(i) \in Seq(Characters)
         /\ LongText(i) \in Seq(Characters) /\ <<i.type>> \in Seq(Characters)
         /\ Body(i) \in Seq(Characters)
         /\ WidthText(i) \in Seq(Digits) /\ Number(WidthText(i)) = i.width
         /\ WidthText(i) # <<>> => WidthText(i)[1] # "0"
<1>1. /\ i.flags \in Seq(Flags) /\ i.width \in Nat /\ i.long \in BOOLEAN
      /\ i.type \in Characters
  BY ConversionType
<1>2. Flags \subseteq Characters /\ Digits \subseteq Characters /\ "l" \in Characters
  <2>1. Digits \subseteq Characters
    BY DigitsAreRead
  <2> QED BY <2>1, CharactersAssumption
<1>3. \A T : T \subseteq Characters => Seq(T) \subseteq Seq(Characters)
  OBVIOUS
<1>4. /\ WidthText(i) \in Seq(Digits) /\ Number(WidthText(i)) = i.width
      /\ WidthText(i) # <<>> => WidthText(i)[1] # "0"
  <2>1. CASE i.width = 0
    <3>1. WidthText(i) = <<>>
      BY <2>1 DEF WidthText
    <3>2. <<>> \in Seq(Digits) /\ Len(<<>>) = 0
      OBVIOUS
    <3>3. Number(<<>>) = 0
      <4>1. PICK g : NumberOf(g, <<>>)
        BY <3>2, NumberSteps, DigitsAreRead
      <4> QED BY <3>2, <4>1 DEF NumberOf
    <3> QED BY <2>1, <3>1, <3>2, <3>3
  <2>2. CASE i.width # 0
    <3>1. WidthText(i) = Numeral(i.width, 10, Lower)
      BY <2>2 DEF WidthText
    <3> QED BY <1>1, <2>2, <3>1, NumeralIsRead
  <2> QED BY <2>1, <2>2
<1>5. LongText(i) \in Seq(Characters) /\ <<i.type>> \in Seq(Characters)
  BY <1>1, <1>2, ShortSeqs, Zenon DEF LongText
<1>6. i.flags \in Seq(Characters) /\ WidthText(i) \in Seq(Characters)
  BY <1>1, <1>2, <1>3, <1>4
<1>7. \A x, y \in Seq(Characters) : x \o y \in Seq(Characters)
  BY ConcatProperties
<1> QED BY <1>4, <1>5, <1>6, <1>7, Zenon DEF Body

\* vhprintk_read_format() reads a conversion and nothing of what follows it.
LEMMA FormatIsRead ==
  ASSUME NEW i, IsConversion(i), NEW rest \in Seq(Characters), NEW s, s = Body(i) \o rest
  PROVE  /\ ReadFormat(s).flags = Range(i.flags) /\ ReadFormat(s).width = i.width
         /\ ReadFormat(s).long = i.long /\ ReadFormat(s).type = i.type
         /\ ReadFormat(s).read \in 1 .. Len(s)
         /\ SubSeq(s, ReadFormat(s).read + 1, Len(s)) = rest
         /\ s \in Seq(Characters) /\ s # <<>> /\ Head(s) # "%"
<1> DEFINE t1 == i.flags
           t2 == WidthText(i)
           t3 == LongText(i)
           t4 == <<i.type>>
<1>1. /\ t1 \in Seq(Characters) /\ t2 \in Seq(Characters)
      /\ t3 \in Seq(Characters) /\ t4 \in Seq(Characters)
  BY BodyParts
<1>2. s = t1 \o t2 \o t3 \o t4 \o rest
  BY Zenon DEF Body
<1>3. PICK a \in Nat, c \in Nat, e \in Nat, r \in Nat :
        a = Len(t1) /\ c = Len(t2) /\ e = Len(t3) /\ r = Len(rest)
  BY <1>1, LenProperties
<1>4. Len(t4) = 1 /\ t4[1] = i.type
  OBVIOUS
<1>5. /\ s \in Seq(Characters) /\ Len(s) = a + c + e + 1 + r
      /\ \A j \in 1 .. a : s[j] = t1[j]
      /\ \A j \in 1 .. c : s[a + j] = t2[j]
      /\ \A j \in 1 .. e : s[a + c + j] = t3[j]
      /\ \A j \in 1 .. 1 : s[a + c + e + j] = t4[j]
      /\ \A j \in 1 .. r : s[a + c + e + 1 + j] = rest[j]
  <2> HIDE DEF t1, t2, t3, t4
  <2>1. Places(t1 \o t2 \o t3 \o t4 \o rest, Characters, t1, t2, t3, t4, rest)
    BY <1>1, PlacesOfFive
  <2>2. Places(s, Characters, t1, t2, t3, t4, rest)
    BY <1>2, <2>1, Zenon
  <2> QED BY <1>3, <1>4, <2>2, Zenon DEF Places
<1>6. s[a + c + e + 1] = i.type
  <2>1. 1 \in 1 .. 1
    OBVIOUS
  <2> QED BY <1>4, <1>5, <2>1
<1>7. IF i.long THEN e = 1 /\ s[a + c + 1] = "l" ELSE e = 0 /\ s[a + c + 1] = i.type
  <2>1. CASE i.long
    <3>1. t3 = <<"l">>
      BY <2>1, Zenon DEF LongText
    <3>2. Len(<<"l">>) = 1 /\ <<"l">>[1] = "l" /\ 1 \in 1 .. 1
      OBVIOUS
    <3>3. e = 1 /\ t3[1] = "l"
      BY <1>3, <3>1, <3>2, Zenon
    <3> HIDE DEF t3
    <3> QED BY <1>5, <2>1, <3>2, <3>3, Zenon
  <2>2. CASE ~ i.long
    <3>1. t3 = <<>> /\ Len(<<>>) = 0
      BY <2>2 DEF LongText
    <3>2. e = 0
      BY <1>3, <3>1, Zenon
    <3>3. a + c + 0 + 1 = a + c + 1
      OBVIOUS
    <3> QED BY <1>6, <2>2, <3>2, <3>3, Zenon
  <2> QED BY <2>1, <2>2
<1>8. /\ i.type \notin Flags /\ i.type \notin Digits /\ i.type # "l" /\ i.type # "%"
      /\ i.long \in BOOLEAN
  BY ConversionType
<1>9. /\ t1 \in Seq(Flags) /\ t2 \in Seq(Digits) /\ Number(t2) = i.width
      /\ t2 # <<>> => t2[1] # "0"
  BY ConversionType, BodyParts
<1> HIDE DEF t1, t2, t3, t4
<1>10. s[a + c + 1] \notin Flags /\ s[a + c + 1] \notin Digits /\ s[a + c + 1] # "%"
  BY <1>7, <1>8, MarksAreDistinct
<1>11. s[a + 1] \notin Flags
  <2>1. CASE c = 0
    <3>1. a + c + 1 = a + 1
      BY <2>1
    <3> QED BY <1>10, <3>1
  <2>2. CASE c # 0
    <3>1. 1 \in 1 .. c /\ t2 # <<>>
      BY <1>3, <1>9, <2>2, EmptySeq
    <3>2. s[a + 1] = t2[1]
      BY <1>5, <3>1
    <3>3. t2[1] \in Digits
      BY <1>3, <1>9, <3>1, ElementOfSeq
    <3> QED BY <1>9, <3>1, <3>2, <3>3, MarksAreDistinct
  <2> QED BY <2>1, <2>2
<1>12. Span(s, 0, Flags) = a
  <2>1. ASSUME NEW j \in 0 + 1 .. 0 + a PROVE s[j] \in Flags
    <3>1. j \in 1 .. a
      OBVIOUS
    <3>2. t1[j] \in Flags
      BY <1>3, <1>9, <3>1, ElementOfSeq
    <3> QED BY <1>5, <3>1, <3>2
  <2>2. 0 + a <= Len(s) /\ 0 + a + 1 = a + 1
    BY <1>5
  <2>3. s[0 + a + 1] \notin Flags
    BY <1>11, <2>2, Zenon
  <2>4. s \in Seq(Characters) /\ 0 \in Nat
    BY <1>5
  <2> QED BY <2>1, <2>2, <2>3, <2>4, SpanIs
<1>13. Span(s, a, Digits) = c
  <2>1. ASSUME NEW j \in a + 1 .. a + c PROVE s[j] \in Digits
    <3>1. j - a \in 1 .. c /\ a + (j - a) = j
      OBVIOUS
    <3>2. t2[j - a] \in Digits
      BY <1>3, <1>9, <3>1, ElementOfSeq
    <3>3. s[a + (j - a)] = t2[j - a]
      BY <1>5, <3>1
    <3> QED BY <3>1, <3>2, <3>3
  <2>2. a + c <= Len(s)
    BY <1>5
  <2>3. s \in Seq(Characters)
    BY <1>5
  <2> QED BY <1>10, <2>1, <2>2, <2>3, SpanIs
<1>14. {s[k] : k \in 1 .. a} = Range(i.flags)
  <2>1. Range(t1) = {t1[k] : k \in 1 .. a}
    <3>1. DOMAIN t1 = 1 .. a
      BY <1>3, <1>9
    <3> QED BY <3>1, Zenon DEF Range
  <2>2. {s[k] : k \in 1 .. a} = {t1[k] : k \in 1 .. a}
    <3>1. \A k \in 1 .. a : s[k] = t1[k]
      BY <1>5
    <3> QED BY <3>1, Zenon
  <2> QED BY <2>1, <2>2 DEF t1
<1>15. SubSeq(s, a + 1, a + c) = t2
  <2>1. SubSeq(s, a + 1, a + c) = [j \in 1 .. c |-> s[a + j]]
    <3>1. s \in Seq(Characters) /\ a + c <= Len(s)
      BY <1>5
    <3> QED BY <3>1, SliceIs
  <2>2. t2 = [j \in 1 .. c |-> t2[j]]
    BY <1>3, <1>9
  <2> QED BY <1>5, <2>1, <2>2
<1>16. At(s, a + c + 1) = s[a + c + 1]
  <2>1. a + c + 1 <= Len(s)
    BY <1>5
  <2> QED BY <2>1 DEF At
<1>17. (At(s, a + c + 1) = "l") = i.long
  BY <1>7, <1>8, <1>16
<1> DEFINE w == a + c
           n == IF i.long THEN 2 ELSE 1
<1>18. ReadFormat(s) = [flags |-> {s[k] : k \in 1 .. a},
                        width |-> Number(SubSeq(s, a + 1, a + c)), long |-> i.long,
                        type |-> At(s, w + n), read |-> w + n]
  BY <1>12, <1>13, <1>17, Zenon DEF ReadFormat
<1>19. w + n = a + c + e + 1 /\ w + n \in 1 .. Len(s)
  BY <1>5, <1>7, <1>8
<1> HIDE DEF w, n
<1>20. At(s, w + n) = i.type
  <2>1. w + n <= Len(s)
    BY <1>5, <1>19
  <2> QED BY <1>6, <1>19, <2>1, Zenon DEF At
<1>21. SubSeq(s, (w + n) + 1, Len(s)) = rest
  <2>1. PICK m \in Nat : m = a + c + e + 1
    OBVIOUS
  <2>2. Len(s) = m + r /\ \A j \in 1 .. r : s[m + j] = rest[j]
    BY <1>5, <2>1
  <2>3. SubSeq(s, m + 1, m + r) = [j \in 1 .. r |-> s[m + j]]
    <3>1. s \in Seq(Characters) /\ m + r <= Len(s)
      BY <1>5, <2>2
    <3> QED BY <3>1, SliceIs
  <2>4. rest = [j \in 1 .. r |-> rest[j]]
    BY <1>3
  <2>5. SubSeq(s, m + 1, m + r) = rest
    BY <2>2, <2>3, <2>4
  <2> QED BY <1>19, <2>1, <2>2, <2>5, Zenon
<1>22. s # <<>> /\ Head(s) = s[1]
  BY <1>5
<1>23. s[1] # "%"
  <2>1. CASE a # 0
    <3>1. 1 \in 1 .. a
      BY <2>1
    <3>2. s[1] = t1[1] /\ t1[1] \in Flags
      BY <1>3, <1>5, <1>9, <3>1, ElementOfSeq
    <3> QED BY <3>2, MarksAreDistinct
  <2>2. CASE a = 0 /\ c # 0
    <3>1. 1 \in 1 .. c /\ a + 1 = 1
      BY <2>2
    <3>2. s[1] = t2[1] /\ t2[1] \in Digits
      BY <1>3, <1>5, <1>9, <3>1, ElementOfSeq
    <3> QED BY <3>2, MarksAreDistinct
  <2>3. CASE a = 0 /\ c = 0
    <3>1. a + c + 1 = 1
      BY <2>3
    <3> QED BY <1>10, <3>1
  <2> QED BY <2>1, <2>2, <2>3
<1> DEFINE record == [flags |-> {s[k] : k \in 1 .. a},
                      width |-> Number(SubSeq(s, a + 1, a + c)), long |-> i.long,
                      type |-> At(s, w + n), read |-> w + n]
<1>25. /\ record.flags = {s[k] : k \in 1 .. a}
       /\ record.width = Number(SubSeq(s, a + 1, a + c))
       /\ record.long = i.long /\ record.type = At(s, w + n) /\ record.read = w + n
  OBVIOUS
<1> HIDE DEF record
<1>26. ReadFormat(s) = record
  BY <1>18 DEF record
<1>24. /\ ReadFormat(s).flags = Range(i.flags) /\ ReadFormat(s).width = i.width
       /\ ReadFormat(s).long = i.long /\ ReadFormat(s).type = i.type
       /\ ReadFormat(s).read = w + n
  BY <1>9, <1>14, <1>15, <1>20, <1>25, <1>26
<1> QED BY <1>5, <1>19, <1>21, <1>22, <1>23, <1>24, Zenon

\* What is computed from each item, one behind the other.
Each(X, s) == [k \in DOMAIN s |-> X[s[k]]]

\* What is computed from the first item comes first.
LEMMA EachFirst ==
  ASSUME NEW T, NEW V, NEW X \in [T -> V], NEW i \in T, NEW s \in Seq(T)
  PROVE  /\ Each(X, <<i>> \o s) = <<X[i]>> \o Each(X, s)
         /\ Each(X, s) \in Seq(V)
<1> DEFINE u == <<i>> \o s
<1>1. PICK n \in Nat : n = Len(s)
  BY LenProperties
<1>2. <<i>> \in Seq(T) /\ Len(<<i>>) = 1 /\ <<i>>[1] = i
  OBVIOUS
<1>3. u \in Seq(T) /\ Len(u) = 1 + n /\ u[1] = i /\ \A j \in 1 .. n : u[1 + j] = s[j]
  <2>1. 1 \in 1 .. 1 /\ 1 \in Nat
    OBVIOUS
  <2>2. /\ u \in Seq(T) /\ Len(u) = 1 + n
        /\ \A j \in 1 .. 1 : u[j] = <<i>>[j]
        /\ \A j \in 1 .. n : u[1 + j] = s[j]
    BY <1>1, <1>2, <2>1, PlacesOfTwo
  <2> HIDE DEF u
  <2> QED BY <1>2, <2>1, <2>2
<1> HIDE DEF u
<1>4. DOMAIN u = 1 .. 1 + n /\ DOMAIN s = 1 .. n
  BY <1>1, <1>3
<1>5. ASSUME NEW k \in 1 .. n PROVE s[k] \in T /\ X[s[k]] \in V
  <2>1. s[k] \in T
    BY <1>1, ElementOfSeq
  <2> QED BY <2>1
<1>6. Each(X, s) \in Seq(V) /\ Len(Each(X, s)) = n /\ \A k \in 1 .. n : Each(X, s)[k] = X[s[k]]
  <2>1. Each(X, s) = [k \in 1 .. n |-> X[s[k]]]
    BY <1>4 DEF Each
  <2>2. Each(X, s) \in [1 .. n -> V]
    BY <1>5, <2>1
  <2> QED BY <2>1, <2>2
<1> DEFINE e == Each(X, s)
           w == <<X[i]>> \o e
<1>7. <<X[i]>> \in Seq(V) /\ Len(<<X[i]>>) = 1 /\ <<X[i]>>[1] = X[i]
  OBVIOUS
<1>8. w \in Seq(V) /\ Len(w) = 1 + n /\ w[1] = X[i] /\ \A j \in 1 .. n : w[1 + j] = e[j]
  <2>1. 1 \in 1 .. 1 /\ 1 \in Nat
    OBVIOUS
  <2> HIDE DEF e
  <2>2. e \in Seq(V) /\ Len(e) = n
    BY <1>6 DEF e
  <2>3. /\ w \in Seq(V) /\ Len(w) = 1 + n
        /\ \A j \in 1 .. 1 : w[j] = <<X[i]>>[j]
        /\ \A j \in 1 .. n : w[1 + j] = e[j]
    <3> DEFINE x == <<X[i]>>
    <3>1. x \in Seq(V) /\ 1 = Len(x)
      BY <1>7
    <3>2. e \in Seq(V) /\ n = Len(e)
      BY <2>2
    <3> HIDE DEF x, w
    <3>3. PICK m \in Nat : m = 1
      OBVIOUS
    <3>4. m = Len(x)
      BY <3>1, <3>3
    <3>5. /\ x \o e \in Seq(V) /\ Len(x \o e) = m + n
          /\ \A j \in 1 .. m : (x \o e)[j] = x[j]
          /\ \A j \in 1 .. n : (x \o e)[m + j] = e[j]
      BY <3>1, <3>2, <3>4, PlacesOfTwo
    <3> QED BY <3>3, <3>5, Zenon DEF x, w
  <2> HIDE DEF w
  <2> QED BY <1>7, <2>1, <2>3
<1>9. ASSUME NEW k \in 1 .. 1 + n PROVE X[u[k]] = w[k]
  <2> HIDE DEF w
  <2>1. CASE k = 1
    BY <1>3, <1>8, <2>1
  <2>2. CASE k # 1
    <3>1. k - 1 \in 1 .. n /\ 1 + (k - 1) = k
      BY <2>2
    <3>2. u[1 + (k - 1)] = s[k - 1] /\ w[1 + (k - 1)] = X[s[k - 1]]
      BY <1>3, <1>6, <1>8, <3>1
    <3> QED BY <3>1, <3>2
  <2> QED BY <2>1, <2>2
<1>10. Each(X, u) = [k \in 1 .. 1 + n |-> w[k]]
  <2> HIDE DEF w
  <2> QED BY <1>4, <1>9, Zenon DEF Each
<1>11. w = [k \in 1 .. 1 + n |-> w[k]]
  <2> HIDE DEF w
  <2> QED BY <1>8
<1>12. Each(X, u) = w
  BY <1>10, <1>11, Zenon
<1> QED BY <1>6, <1>12 DEF u

\* What a conversion shows is made of characters.
LEMMA ConversionShownType ==
  ASSUME NEW i, IsConversion(i)
  PROVE  ConversionShown(i) \in Seq(Characters)
<1>1. ASSUME NEW n \in Nat, NEW b \in {2, 8, 10, 16}, NEW sign \in Seq(Characters),
             NEW digits \in {Lower, Upper}
      PROVE  NumberField(i, sign, Numeral(n, b, digits)) \in Seq(Characters)
  <2>1. \A d \in 1 .. b : Lower[d] \in Characters /\ Upper[d] \in Characters
    BY BasesHaveDigits
  <2>2. b \in Nat /\ 2 <= b /\ (digits = Lower \/ digits = Upper)
    OBVIOUS
  <2>3. \A d \in 1 .. b : digits[d] \in Characters
    BY <2>1, <2>2, Zenon
  <2>4. Read(i).flags = Range(i.flags) /\ Read(i).width = i.width /\ i.width \in Int
    BY ConversionType DEF Read
  <2>5. Field(Read(i).flags, Read(i).width, sign, Numeral(n, b, digits)) \in Seq(Characters)
    BY <2>2, <2>3, <2>4, NumberInField
  <2> QED BY <2>4, <2>5, Zenon DEF NumberField
<1>2. PICK v \in Nat : v = Value(i)
  <2>1. Value(i) \in Nat
    BY ValueInWidth
  <2> QED BY <2>1
<1>3. 2^ValueBits(i) - v \in Nat
  BY <1>2, ValueInWidth
<1>4. /\ 2 \in {2, 8, 10, 16} /\ 8 \in {2, 8, 10, 16} /\ 10 \in {2, 8, 10, 16}
      /\ 16 \in {2, 8, 10, 16} /\ Lower \in {Lower, Upper} /\ Upper \in {Lower, Upper}
  OBVIOUS
<1>5. /\ Plus(i) \in Seq(Characters) /\ <<>> \in Seq(Characters) /\ <<"-">> \in Seq(Characters)
      /\ <<"0">> \in Seq(Characters) /\ <<"0", "x">> \in Seq(Characters)
      /\ <<"0", "b">> \in Seq(Characters)
  BY SignIsSeq, Zenon
<1>6. Decimal(i) \in Seq(Characters)
  BY <1>1, <1>2, <1>3, <1>4, <1>5, Zenon DEF Decimal
<1>7. ASSUME NEW b \in {2, 8, 10, 16}, NEW sign \in Seq(Characters), NEW digits \in {Lower, Upper}
      PROVE  Radical(i, sign, b, digits) \in Seq(Characters)
  BY <1>1, <1>2, <1>5, Zenon DEF Radical
<1>8. Words(i, i.arg.chars) \in Seq(Characters) /\ Quoted(i) \in Seq(Characters)
  <2>1. Read(i).flags = Range(i.flags) /\ Read(i).width = i.width /\ i.width \in Nat
    BY ConversionType DEF Read
  <2>2. ASSUME NEW s \in Seq(Characters) PROVE Words(i, s) \in Seq(Characters)
    <3>1. Field(Read(i).flags \ {"0"}, Read(i).width, <<>>, s) \in Seq(Characters)
      BY <2>1, TextInField
    <3> QED BY <2>1, <3>1, Zenon DEF Words
  <2>3. i.arg.chars \in Seq(Characters)
    BY ConversionType DEF Argument
  <2>4. <<" ">> \in Seq(Characters)
    <3>1. " " \in Characters
      BY CharactersAssumption DEF Flags
    <3> QED BY <3>1, ShortSeqs, Zenon
  <2> QED BY <2>2, <2>3, <2>4, SignIsSeq, Zenon DEF Quoted
<1>9. CASE i.type \in {"d", "i"}
  BY <1>6, <1>9 DEF ConversionShown
<1>10. CASE i.type = "u"
  <2>1. ConversionShown(i) = NumberField(i, Plus(i), Numeral(v, 10, Lower))
    BY <1>2, <1>10 DEF ConversionShown
  <2> QED BY <1>1, <1>4, <1>5, <2>1, Zenon
<1>11. CASE i.type = "x"
  <2>1. ConversionShown(i) = Radical(i, <<"0", "x">>, 16, Lower)
    BY <1>11 DEF ConversionShown
  <2> QED BY <1>4, <1>5, <1>7, <2>1, Zenon
<1>12. CASE i.type = "p"
  <2>1. ConversionShown(i) = NumberField(i, <<"0", "x">>, Numeral(v, 16, Lower))
    BY <1>2, <1>12 DEF ConversionShown
  <2> QED BY <1>1, <1>4, <1>5, <2>1, Zenon
<1>13. CASE i.type = "X"
  <2>1. ConversionShown(i) = Radical(i, <<"0", "x">>, 16, Upper)
    BY <1>13 DEF ConversionShown
  <2> QED BY <1>4, <1>5, <1>7, <2>1, Zenon
<1>14. CASE i.type = "o"
  <2>1. ConversionShown(i) = Radical(i, <<"0">>, 8, Lower)
    BY <1>14 DEF ConversionShown
  <2> QED BY <1>4, <1>5, <1>7, <2>1, Zenon
<1>15. CASE i.type = "b"
  <2>1. ConversionShown(i) = Radical(i, <<"0", "b">>, 2, Lower)
    BY <1>15 DEF ConversionShown
  <2> QED BY <1>4, <1>5, <1>7, <2>1, Zenon
<1>16. CASE i.type = "c"
  <2>1. ConversionShown(i) = Words(i, i.arg.chars)
    BY <1>16 DEF ConversionShown
  <2> QED BY <1>8, <2>1
<1>17. CASE i.type = "s"
  <2>1. ConversionShown(i) = Quoted(i)
    BY <1>17 DEF ConversionShown
  <2> QED BY <1>8, <2>1
<1>18. CASE i.type \notin Types
  <2>1. ConversionShown(i) = <<>>
    BY <1>18 DEF ConversionShown, Types
  <2> QED BY <1>5, <2>1
<1> QED BY <1>9, <1>10, <1>11, <1>12, <1>13, <1>14, <1>15, <1>16, <1>17, <1>18 DEF Types

-----------------------------------------------------------------------------
(* Items, one behind the other.                                            *)

\* An item is plain text, a percent sign or a conversion.
LEMMA ItemKinds ==
  ASSUME NEW i \in Item
  PROVE  \/ i.kind = "plain" /\ i.chars \in Seq(Characters \ {"%"}) /\ i.chars # <<>>
         \/ i = Percent /\ i.kind = "percent"
         \/ i.kind = "conversion" /\ IsConversion(i)
<1> DEFINE A == [kind : {"plain"}, chars : Seq(Characters \ {"%"}) \ {<<>>}]
           B == [kind : {"conversion"}, flags : Seq(Flags), width : Nat, long : BOOLEAN,
                 type : Characters \ (Flags \cup Digits \cup {"l", "%"}), arg : Argument]
<1>1. i \in A \/ i = Percent \/ i \in B
  BY Zenon DEF Item
<1>2. CASE i \in A
  BY <1>2
<1>3. CASE i = Percent
  BY <1>3 DEF Percent
<1>4. CASE i \in B
  <2>1. i.kind = "conversion"
    BY <1>4
  <2> QED BY <2>1 DEF IsConversion
<1> QED BY <1>1, <1>2, <1>3, <1>4

\* What an item is written as, takes and shows.
LEMMA ItemTypes ==
  ASSUME NEW i \in Item
  PROVE  /\ ItemText(i) \in Seq(Characters) /\ ItemText(i) # <<>>
         /\ ArgumentOf(i) \in Seq(Argument)
         /\ ItemShown(i) \in Seq(Characters)
         /\ i.kind = "plain" => /\ ItemText(i) = i.chars /\ ItemShown(i) = i.chars
                                /\ ArgumentOf(i) = <<>>
         /\ i.kind = "percent" => /\ ItemText(i) = <<"%">> \o <<"%">> /\ ItemShown(i) = <<"%">>
                                  /\ ArgumentOf(i) = <<>>
         /\ i.kind = "conversion" => /\ ItemText(i) = <<"%">> \o Body(i)
                                     /\ ItemShown(i) = ConversionShown(i)
<1>1. "%" \in Characters
  BY CharactersAssumption
<1>2. <<"%">> \in Seq(Characters) /\ <<"%", "%">> \in Seq(Characters) /\ <<>> \in Seq(Argument)
  BY <1>1, ShortSeqs, Zenon
<1>3. CASE i.kind = "plain"
  <2>1. i.chars \in Seq(Characters) /\ i.chars # <<>>
    <3>1. i.chars \in Seq(Characters \ {"%"}) /\ i.chars # <<>>
      BY <1>3, ItemKinds
    <3>2. \A T : T \subseteq Characters => Seq(T) \subseteq Seq(Characters)
      OBVIOUS
    <3>3. Characters \ {"%"} \subseteq Characters
      OBVIOUS
    <3> QED BY <3>1, <3>2, <3>3, Zenon
  <2>2. ItemText(i) = i.chars /\ ItemShown(i) = i.chars /\ ArgumentOf(i) = <<>>
    BY <1>3 DEF ItemText, ItemShown, ArgumentOf
  <2> QED BY <1>2, <1>3, <2>1, <2>2
<1>4. CASE i.kind = "percent"
  <2>1. ItemText(i) = <<"%", "%">> /\ ItemShown(i) = <<"%">> /\ ArgumentOf(i) = <<>>
    BY <1>4 DEF ItemText, ItemShown, ArgumentOf
  <2>2. <<"%", "%">> = <<"%">> \o <<"%">> /\ <<"%", "%">> # <<>>
    OBVIOUS
  <2> QED BY <1>2, <1>4, <2>1, <2>2
<1>5. CASE i.kind = "conversion"
  <2>1. IsConversion(i)
    BY <1>5 DEF IsConversion
  <2> DEFINE t1 == i.flags
             t2 == WidthText(i)
             t3 == LongText(i)
             t4 == <<i.type>>
             p  == <<"%">>
  <2>2. /\ t1 \in Seq(Characters) /\ t2 \in Seq(Characters)
        /\ t3 \in Seq(Characters) /\ t4 \in Seq(Characters)
        /\ Body(i) = t1 \o t2 \o t3 \o t4 /\ Body(i) \in Seq(Characters)
    BY <2>1, BodyParts, Zenon DEF Body
  <2>3. ItemText(i) = p \o t1 \o t2 \o t3 \o t4
    BY <1>5 DEF ItemText, WidthText, LongText
  <2> HIDE DEF t1, t2, t3, t4
  <2>4. ItemText(i) = p \o Body(i)
    <3>1. p \in Seq(Characters)
      BY <1>2
    <3> HIDE DEF p
    <3>2. \A x, y \in Seq(Characters) : (p \o x) \o y = p \o (x \o y) /\ x \o y \in Seq(Characters)
      BY <3>1, Associative, ConcatProperties
    <3>3. p \o t1 \o t2 \o t3 \o t4 = p \o (t1 \o t2) \o t3 \o t4 /\ t1 \o t2 \in Seq(Characters)
      BY <2>2, <3>2, Zenon
    <3>4. /\ p \o (t1 \o t2) \o t3 \o t4 = p \o (t1 \o t2 \o t3) \o t4
          /\ t1 \o t2 \o t3 \in Seq(Characters)
      BY <2>2, <3>2, <3>3, Zenon
    <3>5. p \o (t1 \o t2 \o t3) \o t4 = p \o (t1 \o t2 \o t3 \o t4)
      BY <2>2, <3>2, <3>4, Zenon
    <3> QED BY <2>2, <2>3, <3>3, <3>4, <3>5, Zenon
  <2>5. ItemText(i) \in Seq(Characters) /\ ItemText(i) # <<>>
    <3>1. \A x \in Seq(Characters) : p \o x \in Seq(Characters) /\ p \o x # <<>>
      BY <1>1
    <3> HIDE DEF p
    <3> QED BY <2>2, <2>4, <3>1, Zenon
  <2>6. ItemShown(i) = ConversionShown(i)
    BY <1>5 DEF ItemShown
  <2>7. ConversionShown(i) \in Seq(Characters)
    BY <2>1, ConversionShownType
  <2>8. ArgumentOf(i) \in Seq(Argument)
    BY <1>2, <2>1, ConversionType, ShortSeqs, Zenon DEF ArgumentOf
  <2> QED BY <1>5, <2>4, <2>5, <2>6, <2>7, <2>8
<1> QED BY <1>3, <1>4, <1>5, ItemKinds

\* The first item is written, takes its argument and is shown before the others.
LEMMA ItemsFirst ==
  ASSUME NEW i \in Item, NEW rem \in Seq(Item)
  PROVE  /\ Text(<<i>> \o rem) = ItemText(i) \o Text(rem)
         /\ Arguments(<<i>> \o rem) = ArgumentOf(i) \o Arguments(rem)
         /\ AllShown(<<i>> \o rem) = ItemShown(i) \o AllShown(rem)
         /\ Text(rem) \in Seq(Characters) /\ Arguments(rem) \in Seq(Argument)
         /\ AllShown(rem) \in Seq(Characters)
<1> DEFINE C == Seq(Characters)
           A == Seq(Argument)
           X == [j \in Item |-> ItemText(j)]
           Y == [j \in Item |-> ArgumentOf(j)]
           Z == [j \in Item |-> ItemShown(j)]
<1>1. X \in [Item -> C] /\ Y \in [Item -> A] /\ Z \in [Item -> C]
  BY ItemTypes
<1>2. X[i] = ItemText(i) /\ Y[i] = ArgumentOf(i) /\ Z[i] = ItemShown(i)
  OBVIOUS
<1>3. ASSUME NEW s \in Seq(Item)
      PROVE  /\ Text(s) = FlattenSeq(Each(X, s))
             /\ Arguments(s) = FlattenSeq(Each(Y, s))
             /\ AllShown(s) = FlattenSeq(Each(Z, s))
  <2>1. \A k \in DOMAIN s : s[k] \in Item
    OBVIOUS
  <2>2. /\ [k \in DOMAIN s |-> ItemText(s[k])] = Each(X, s)
        /\ [k \in DOMAIN s |-> ArgumentOf(s[k])] = Each(Y, s)
        /\ [k \in DOMAIN s |-> ItemShown(s[k])] = Each(Z, s)
    BY <2>1, Zenon DEF Each
  <2> QED BY <2>2, Zenon DEF Text, Arguments, AllShown
<1> HIDE DEF X, Y, Z
<1>4. <<i>> \o rem \in Seq(Item)
  OBVIOUS
<1>5. /\ Each(X, <<i>> \o rem) = <<X[i]>> \o Each(X, rem) /\ Each(X, rem) \in Seq(C)
      /\ Each(Y, <<i>> \o rem) = <<Y[i]>> \o Each(Y, rem) /\ Each(Y, rem) \in Seq(A)
      /\ Each(Z, <<i>> \o rem) = <<Z[i]>> \o Each(Z, rem) /\ Each(Z, rem) \in Seq(C)
  <2> HIDE DEF A, C
  <2>1. ASSUME NEW V, NEW F \in [Item -> V]
        PROVE  Each(F, <<i>> \o rem) = <<F[i]>> \o Each(F, rem) /\ Each(F, rem) \in Seq(V)
    BY EachFirst
  <2> QED BY <1>1, <2>1, Zenon
<1>6. X[i] \in C /\ Y[i] \in A /\ Z[i] \in C
  BY <1>1
<1>7. /\ FlattenSeq(<<X[i]>> \o Each(X, rem)) = X[i] \o FlattenSeq(Each(X, rem))
      /\ FlattenSeq(<<Y[i]>> \o Each(Y, rem)) = Y[i] \o FlattenSeq(Each(Y, rem))
      /\ FlattenSeq(<<Z[i]>> \o Each(Z, rem)) = Z[i] \o FlattenSeq(Each(Z, rem))
  BY <1>5, <1>6, FlattenFirst, Zenon
<1>8. /\ FlattenSeq(Each(X, rem)) \in C /\ FlattenSeq(Each(Y, rem)) \in A
      /\ FlattenSeq(Each(Z, rem)) \in C
  BY <1>5, FlattenIsSeq, Zenon
<1> QED BY <1>2, <1>3, <1>4, <1>5, <1>7, <1>8, Zenon

\* Without an item there is no text, no argument and nothing to show.
LEMMA NoItems ==
  /\ Text(<<>>) = <<>> /\ Arguments(<<>>) = <<>> /\ AllShown(<<>>) = <<>>
<1>1. /\ [k \in DOMAIN <<>> |-> ItemText(<<>>[k])] = <<>>
      /\ [k \in DOMAIN <<>> |-> ArgumentOf(<<>>[k])] = <<>>
      /\ [k \in DOMAIN <<>> |-> ItemShown(<<>>[k])] = <<>>
  OBVIOUS
<1>2. FlattenSeq(<<>>) = <<>>
  <2>1. Len(<<>>) = 0
    OBVIOUS
  <2> QED BY <2>1, Zenon DEF FlattenSeq
<1> QED BY <1>1, <1>2, Zenon DEF Text, Arguments, AllShown

\* As long as something is left of the format, an item is.
LEMMA SomethingLeft ==
  ASSUME NEW rem \in Seq(Item)
  PROVE  \/ rem = <<>>
         \/ \E i \in Item, r \in Seq(Item) : rem = <<i>> \o r
<1> SUFFICES ASSUME rem # <<>> PROVE \E i \in Item, r \in Seq(Item) : rem = <<i>> \o r
  OBVIOUS
<1>1. Head(rem) \in Item /\ Tail(rem) \in Seq(Item)
  OBVIOUS
<1>2. rem = <<Head(rem)>> \o Tail(rem)
  OBVIOUS
<1> QED BY <1>1, <1>2, Zenon

-----------------------------------------------------------------------------
(* What a call has printed, and what is left of its format.                *)

\* What the items show is what has been printed and then rest.
Owes(rest) ==
  /\ AllShown(call.items) = out \o rest
  /\ call.size = Unlimited \/ Len(out) <= call.size

\* The call stands between two items.
Between(rem) ==
  /\ fmt = FALSE /\ format = NoFormat
  /\ input = Text(rem) /\ args = Arguments(rem)
  /\ Owes(AllShown(rem))

\* It has read the percent sign of i.
AfterPercent(i, rem) ==
  /\ i.kind # "plain" /\ fmt = TRUE /\ format = NoFormat
  /\ input = Tail(ItemText(i)) \o Text(rem) /\ args = ArgumentOf(i) \o Arguments(rem)
  /\ Owes(ItemShown(i) \o AllShown(rem))

\* It has read all of the conversion i, and has not printed it.
Converting(i, rem) ==
  /\ IsConversion(i) /\ format = Read(i)
  /\ input = Text(rem) /\ args = ArgumentOf(i) \o Arguments(rem)
  /\ Owes(ItemShown(i) \o AllShown(rem))

Goes ==
  \E rem \in Seq(Item) : \/ Between(rem)
                         \/ \E i \in Item : AfterPercent(i, rem) \/ Converting(i, rem)

\* The handler has refused a character: the buffer is full.
Stopped ==
  /\ format = NoFormat
  /\ call.size \in Nat /\ Len(AllShown(call.items)) > call.size
  /\ out = SubSeq(AllShown(call.items), 1, call.size)

Rests == input = <<>> /\ args = <<>> /\ fmt = FALSE /\ stop = FALSE /\ format = NoFormat

PrintkType ==
  /\ call.items \in Seq(Item) /\ call.size \in Nat \cup {Unlimited}
  /\ out \in Seq(Characters) /\ stop \in BOOLEAN
  /\ astray = FALSE

PrintkInv ==
  /\ PrintkType
  /\ call = Idle => Rests
  /\ call # Idle /\ stop => Stopped
  /\ call # Idle /\ ~stop => Goes

\* A conversion that has been read is one, and the format is never read twice.
LEMMA NotNoFormat ==
  ASSUME NEW i, IsConversion(i)
  PROVE  Read(i) # NoFormat
<1>1. i.type # "none"
  BY ConversionType, CharactersAssumption
<1>2. Read(i).type = i.type /\ NoFormat.type = "none"
  BY DEF Read, NoFormat
<1> QED BY <1>1, <1>2

\* Some item exists.
LEMMA PercentIsItem == Percent \in Item
BY DEF Item

\* A text of which room characters fit is cut there, and what is shown with it.
LEMMA AppendAll ==
  ASSUME NEW T, NEW u \in Seq(T), NEW v \in Seq(T), NEW w \in Seq(T),
         NEW room \in Nat, NEW size \in Nat, size = Len(u) + room, room < Len(v)
  PROVE  /\ u \o SubSeq(v, 1, room) = SubSeq(u \o (v \o w), 1, size)
         /\ u \o SubSeq(v, 1, room) \in Seq(T)
         /\ Len(u \o (v \o w)) > size
<1>1. PICK a \in Nat, b \in Nat, c \in Nat : a = Len(u) /\ b = Len(v) /\ c = Len(w)
  BY LenProperties
<1> DEFINE x == SubSeq(v, 1, room)
           y == v \o w
           z == u \o y
<1>2. x \in Seq(T) /\ Len(x) = room /\ \A j \in 1 .. room : x[j] = v[j]
  BY <1>1
<1>3. y \in Seq(T) /\ Len(y) = b + c /\ \A j \in 1 .. b : y[j] = v[j]
  BY <1>1, PlacesOfTwo
<1> HIDE DEF x, y
<1>4. /\ z \in Seq(T) /\ Len(z) = a + (b + c) /\ \A j \in 1 .. a : z[j] = u[j]
      /\ \A j \in 1 .. b + c : z[a + j] = y[j]
  <2>1. PICK d \in Nat : d = b + c
    OBVIOUS
  <2>2. y \in Seq(T) /\ d = Len(y) /\ a = Len(u)
    BY <1>1, <1>3, <2>1
  <2>3. /\ z \in Seq(T) /\ Len(z) = a + d /\ \A j \in 1 .. a : z[j] = u[j]
        /\ \A j \in 1 .. d : z[a + j] = y[j]
    BY <2>2, PlacesOfTwo
  <2> HIDE DEF z
  <2> QED BY <2>1, <2>3
<1> DEFINE p == u \o x
<1>5. /\ p \in Seq(T) /\ Len(p) = a + room /\ \A j \in 1 .. a : p[j] = u[j]
      /\ \A j \in 1 .. room : p[a + j] = x[j]
  <2>1. x \in Seq(T) /\ room = Len(x) /\ a = Len(u)
    BY <1>1, <1>2
  <2> QED BY <2>1, PlacesOfTwo
<1> HIDE DEF p, z
<1>6. Len(z) > size /\ size = a + room /\ room <= b
  BY <1>1, <1>4
<1>7. ASSUME NEW j \in 1 .. size PROVE p[j] = z[j]
  <2>1. CASE j <= a
    <3>1. j \in 1 .. a
      BY <1>1, <2>1
    <3> QED BY <1>4, <1>5, <3>1
  <2>2. CASE ~ (j <= a)
    <3>1. j - a \in 1 .. room /\ j - a \in 1 .. b /\ j - a \in 1 .. b + c /\ a + (j - a) = j
      BY <1>6, <2>2
    <3>2. p[a + (j - a)] = x[j - a]
      BY <1>5, <3>1, Zenon
    <3>4. z[a + (j - a)] = y[j - a]
      BY <1>4, <3>1, Zenon
    <3>3. x[j - a] = v[j - a] /\ y[j - a] = v[j - a]
      BY <1>2, <1>3, <3>1
    <3> QED BY <3>1, <3>2, <3>3, <3>4
  <2> QED BY <2>1, <2>2
<1>8. SubSeq(z, 1, size) = [j \in 1 .. size |-> z[j]]
  BY <1>4, <1>6
<1>9. p = [j \in 1 .. size |-> p[j]]
  BY <1>5, <1>6
<1>10. p = SubSeq(z, 1, size)
  BY <1>7, <1>8, <1>9
<1> QED BY <1>5, <1>6, <1>10 DEF p, x, y, z

\* vhprintk_print_one() for each character of s: all of them, or as many as
\* the buffer holds.
LEMMA PrintEach ==
  ASSUME NEW s \in Seq(Characters), NEW rest \in Seq(Characters), PrintkType,
         Owes(s \o rest), stop = FALSE, print_each(s), call' = call, format' = NoFormat
  PROVE  /\ out' \in Seq(Characters) /\ stop' \in BOOLEAN
         /\ stop' => Stopped'
         /\ ~stop' => Owes(rest)'
<1>1. PICK u \in Seq(Characters) : u = out
  BY DEF PrintkType
<1>2. PICK a \in Nat, b \in Nat : a = Len(u) /\ b = Len(s)
  BY LenProperties
<1>3. AllShown(call.items) = u \o (s \o rest) /\ (call.size = Unlimited \/ a <= call.size)
  BY <1>1, <1>2 DEF Owes
<1>4. AllShown(call.items)' = AllShown(call.items) /\ call.size' = call.size
  <2>1. call.items' = call.items
    OBVIOUS
  <2> QED BY <2>1
<1> DEFINE room == IF call.size = Unlimited THEN b ELSE call.size - a
<1>5. /\ out' = u \o SubSeq(s, 1, IF b <= room THEN b ELSE room)
      /\ stop' = (stop \/ b > room)
  <2>1. room = IF call.size = Unlimited THEN Len(s) ELSE call.size - Len(out)
    BY <1>1, <1>2
  <2>2. /\ out' = out \o SubSeq(s, 1, IF Len(s) <= room THEN Len(s) ELSE room)
        /\ stop' = (stop \/ Len(s) > room)
    <3> HIDE DEF room
    <3> QED BY <2>1, Zenon DEF print_each
  <2> HIDE DEF room
  <2> QED BY <1>1, <1>2, <2>2, Zenon
<1>6. room \in Nat /\ (call.size # Unlimited => call.size \in Nat)
  BY <1>3 DEF PrintkType, Unlimited
<1>7. CASE b <= room
  <2>1. stop' = FALSE
    <3>1. ~ (b > room)
      BY <1>6, <1>7
    <3> HIDE DEF room
    <3> QED BY <1>5, <3>1, Zenon
  <2>2. SubSeq(s, 1, b) = s
    BY <1>2
  <2>3. out' = u \o s
    BY <1>5, <1>7, <2>2, Zenon
  <2>4. (u \o s) \o rest = u \o (s \o rest)
    BY Associative
  <2>5. u \o s \in Seq(Characters) /\ Len(u \o s) = a + b
    BY <1>2, PlacesOfTwo
  <2>6. call.size = Unlimited \/ a + b <= call.size
    BY <1>2, <1>6, <1>7
  <2>7. Owes(rest)'
    BY <1>3, <1>4, <2>3, <2>4, <2>5, <2>6, Zenon DEF Owes
  <2> QED BY <2>1, <2>3, <2>5, <2>7
<1>8. CASE ~ (b <= room)
  <2>1. stop' = TRUE /\ room < b
    <3>1. b > room /\ room < b
      BY <1>6, <1>8
    <3> HIDE DEF room
    <3> QED BY <1>5, <3>1, Zenon
  <2>2. call.size \in Nat /\ call.size = a + room
    BY <1>6, <1>8
  <2>3. out' = u \o SubSeq(s, 1, room)
    BY <1>5, <1>8, Zenon
  <2> HIDE DEF room
  <2>4. /\ u \o SubSeq(s, 1, room) = SubSeq(u \o (s \o rest), 1, call.size)
        /\ u \o SubSeq(s, 1, room) \in Seq(Characters)
        /\ Len(u \o (s \o rest)) > call.size
    BY <1>2, <1>6, <2>1, <2>2, AppendAll
  <2>5. Stopped'
    BY <1>3, <1>4, <2>2, <2>3, <2>4, Zenon DEF Stopped
  <2> QED BY <2>1, <2>3, <2>4, <2>5
<1> QED BY <1>7, <1>8

\* A sequence that begins with x.
LEMMA FirstOf ==
  ASSUME NEW T, NEW x \in T, NEW t \in Seq(T)
  PROVE  /\ Head(<<x>> \o t) = x /\ Tail(<<x>> \o t) = t
         /\ <<x>> \o t # <<>> /\ <<x>> \o t \in Seq(T)
OBVIOUS

\* A sequence is its first character and the others.
LEMMA SplitFirst ==
  ASSUME NEW T, NEW s \in Seq(T), s # <<>>
  PROVE  /\ Head(s) \in T /\ Tail(s) \in Seq(T) /\ s = <<Head(s)>> \o Tail(s)
         /\ <<Head(s)>> \in Seq(T)
OBVIOUS

\* The format begins with a percent sign, or with a character of a plain item.
LEMMA PercentStep ==
  ASSUME PrintkInv, PercentRead
  PROVE  PrintkInv'
<1>1. PICK rem \in Seq(Item) : Between(rem)
  <2>1. PICK rem \in Seq(Item) : \/ Between(rem)
                                \/ \E i \in Item : AfterPercent(i, rem) \/ Converting(i, rem)
    BY DEF PrintkInv, PercentRead, Turning, Goes
  <2>2. format = NoFormat /\ fmt = FALSE
    BY DEF PercentRead, Turning
  <2>3. \A i \in Item : ~ AfterPercent(i, rem)
    BY <2>2 DEF AfterPercent
  <2>4. \A i \in Item : ~ Converting(i, rem)
    BY <2>2, NotNoFormat DEF Converting
  <2> QED BY <2>1, <2>3, <2>4
<1>2. PICK i \in Item, r \in Seq(Item) : rem = <<i>> \o r
  <2>1. rem # <<>>
    BY <1>1, NoItems DEF Between, PercentRead, Turning
  <2> QED BY <2>1, SomethingLeft
<1>3. /\ input = ItemText(i) \o Text(r) /\ args = ArgumentOf(i) \o Arguments(r)
      /\ Owes(ItemShown(i) \o AllShown(r)) /\ Text(r) \in Seq(Characters)
  BY <1>1, <1>2, ItemsFirst DEF Between
<1>4. ItemText(i) \in Seq(Characters) /\ ItemText(i) # <<>>
  BY ItemTypes
<1>5. /\ Head(input) = Head(ItemText(i))
      /\ Tail(input) = Tail(ItemText(i)) \o Text(r)
  BY <1>3, <1>4
<1>6. i.kind # "plain"
  <2> SUFFICES ASSUME i.kind = "plain" PROVE FALSE
    OBVIOUS
  <2>1. ItemText(i) = i.chars /\ i.chars \in Seq(Characters \ {"%"}) /\ i.chars # <<>>
    BY ItemTypes, ItemKinds
  <2>2. Head(i.chars) # "%"
    BY <2>1
  <2> QED BY <1>5, <2>1, <2>2 DEF PercentRead
<1>7. AfterPercent(i, r)'
  BY <1>3, <1>5, <1>6 DEF AfterPercent, PercentRead, Turning, Owes
<1>8. Goes'
  BY <1>7 DEF Goes
<1> QED BY <1>8 DEF PrintkInv, PrintkType, PercentRead, Turning

\* A plain character, or the second percent sign, is printed.
LEMMA PlainStep ==
  ASSUME PrintkInv, PlainRead
  PROVE  PrintkInv'
<1>1. /\ PrintkType /\ stop = FALSE /\ call # Idle /\ format = NoFormat /\ Goes
      /\ input # <<>> /\ call' = call /\ format' = NoFormat /\ astray' = FALSE
      /\ fmt' = FALSE /\ input' = Tail(input) /\ args' = args
      /\ print_each(<<Head(input)>>) /\ (Head(input) = "%") = fmt
  BY DEF PrintkInv, PlainRead, Turning, PrintkType
<1>2. PICK rem \in Seq(Item) : \/ Between(rem)
                              \/ \E i \in Item : AfterPercent(i, rem) \/ Converting(i, rem)
  BY <1>1 DEF Goes
<1>3. ASSUME NEW c \in Characters, Head(input) = c, NEW left \in Seq(Item),
             Owes(<<c>> \o AllShown(left)), Tail(input) = Text(left), args = Arguments(left)
      PROVE  PrintkInv'
  <2>1. <<c>> \in Seq(Characters) /\ AllShown(left) \in Seq(Characters)
    BY ItemsFirst, PercentIsItem, ShortSeqs
  <2>2. print_each(<<c>>)
    BY <1>1, <1>3
  <2>3. /\ out' \in Seq(Characters) /\ stop' \in BOOLEAN
        /\ stop' => Stopped'
        /\ ~stop' => Owes(AllShown(left))'
    BY <1>1, <1>3, <2>1, <2>2, PrintEach
  <2>4. ~stop' => Between(left)'
    BY <1>1, <1>3, <2>3 DEF Between
  <2>5. ~stop' => Goes'
    BY <2>4 DEF Goes
  <2>6. PrintkType'
    BY <1>1, <2>3 DEF PrintkType
  <2> QED BY <1>1, <2>3, <2>5, <2>6 DEF PrintkInv
<1>4. CASE Between(rem)
  <2>1. PICK i \in Item, r \in Seq(Item) : rem = <<i>> \o r
    <3>1. rem # <<>>
      BY <1>1, <1>4, NoItems DEF Between
    <3> QED BY <3>1, SomethingLeft
  <2>2. /\ input = ItemText(i) \o Text(r) /\ args = ArgumentOf(i) \o Arguments(r)
        /\ Owes(ItemShown(i) \o AllShown(r)) /\ fmt = FALSE
        /\ Text(r) \in Seq(Characters) /\ AllShown(r) \in Seq(Characters)
        /\ Arguments(r) \in Seq(Argument)
    BY <1>4, <2>1, ItemsFirst DEF Between
  <2>3. Head(input) = Head(ItemText(i)) /\ Tail(input) = Tail(ItemText(i)) \o Text(r)
    BY <2>2, ItemTypes
  <2>4. i.kind = "plain"
    <3> SUFFICES ASSUME i.kind # "plain" PROVE FALSE
      OBVIOUS
    <3>1. PICK t \in Seq(Characters) : ItemText(i) = <<"%">> \o t
      <4>1. i.kind = "percent" \/ (i.kind = "conversion" /\ IsConversion(i))
        <5>1. \/ i.kind = "plain" /\ i.chars \in Seq(Characters \ {"%"}) /\ i.chars # <<>>
              \/ i = Percent /\ i.kind = "percent"
              \/ i.kind = "conversion" /\ IsConversion(i)
          BY ItemKinds
        <5> QED BY <5>1, Zenon
      <4>2. <<"%">> \in Seq(Characters)
        BY CharactersAssumption, ShortSeqs
      <4>3. IsConversion(i) => Body(i) \in Seq(Characters)
        BY BodyParts
      <4> QED BY <4>1, <4>2, <4>3, ItemTypes
    <3>2. Head(ItemText(i)) = "%"
      <4>1. "%" \in Characters
        BY CharactersAssumption
      <4> QED BY <3>1, <4>1, FirstOf
    <3> QED BY <1>1, <2>2, <2>3, <3>2
  <2>5. /\ ItemText(i) = i.chars /\ ItemShown(i) = i.chars /\ ArgumentOf(i) = <<>>
        /\ i.chars \in Seq(Characters) /\ i.chars # <<>>
        /\ i.chars \in Seq(Characters \ {"%"})
    BY <2>4, ItemTypes, ItemKinds
  <2>6. PICK c \in Characters, t \in Seq(Characters \ {"%"}) :
          /\ i.chars = <<c>> \o t /\ c = Head(i.chars) /\ t = Tail(i.chars)
          /\ t \in Seq(Characters)
    <3>1. /\ Head(i.chars) \in Characters /\ Tail(i.chars) \in Seq(Characters)
          /\ i.chars = <<Head(i.chars)>> \o Tail(i.chars)
      BY <2>5, SplitFirst
    <3>2. Tail(i.chars) \in Seq(Characters \ {"%"})
      BY <2>5, SplitFirst
    <3> QED BY <3>1, <3>2
  <2>7. Head(input) = c /\ Tail(input) = t \o Text(r)
    BY <2>3, <2>5, <2>6
  <2>8. args = Arguments(r)
    BY <2>2, <2>5, ConcatEmptySeq
  <2>9. Owes(<<c>> \o (t \o AllShown(r)))
    <3>1. <<c>> \in Seq(Characters)
      BY ShortSeqs
    <3>2. (<<c>> \o t) \o AllShown(r) = <<c>> \o (t \o AllShown(r))
      BY <2>2, <2>6, <3>1, Associative
    <3> QED BY <2>2, <2>5, <2>6, <3>2, Zenon
  <2>10. CASE t = <<>>
    <3>1. t \o Text(r) = Text(r) /\ t \o AllShown(r) = AllShown(r)
      BY <2>2, <2>10, ConcatEmptySeq
    <3> QED BY <1>3, <2>7, <2>8, <2>9, <3>1
  <2>11. CASE t # <<>>
    <3>1. Plain(t) \in Item /\ Plain(t).kind = "plain" /\ Plain(t).chars = t
      BY <2>6, <2>11 DEF Plain, Item
    <3>2. /\ ItemText(Plain(t)) = t /\ ItemShown(Plain(t)) = t
          /\ ArgumentOf(Plain(t)) = <<>>
      BY <3>1, ItemTypes
    <3> DEFINE left == <<Plain(t)>> \o r
    <3>3. left \in Seq(Item)
      BY <3>1, FirstOf
    <3>4. /\ Text(left) = ItemText(Plain(t)) \o Text(r)
          /\ Arguments(left) = ArgumentOf(Plain(t)) \o Arguments(r)
          /\ AllShown(left) = ItemShown(Plain(t)) \o AllShown(r)
      BY <3>1, ItemsFirst, Zenon
    <3>5. <<>> \o Arguments(r) = Arguments(r)
      BY <2>2, ConcatEmptySeq
    <3>6. /\ Text(left) = t \o Text(r) /\ AllShown(left) = t \o AllShown(r)
          /\ Arguments(left) = Arguments(r)
      BY <3>2, <3>4, <3>5, Zenon
    <3> HIDE DEF left
    <3> QED BY <1>3, <2>7, <2>8, <2>9, <3>3, <3>6
  <2> QED BY <2>10, <2>11
<1>5. ASSUME NEW i \in Item, AfterPercent(i, rem) PROVE PrintkInv'
  <2>1. /\ i.kind # "plain" /\ fmt = TRUE /\ input = Tail(ItemText(i)) \o Text(rem)
        /\ args = ArgumentOf(i) \o Arguments(rem)
        /\ Owes(ItemShown(i) \o AllShown(rem)) /\ Text(rem) \in Seq(Characters)
        /\ Arguments(rem) \in Seq(Argument)
    BY <1>5, ItemsFirst DEF AfterPercent
  <2>2. CASE i.kind = "conversion"
    <3>1. IsConversion(i) /\ ItemText(i) = <<"%">> \o Body(i) /\ Body(i) \in Seq(Characters)
      BY <2>2, ItemTypes, BodyParts DEF IsConversion
    <3>2. Tail(ItemText(i)) = Body(i)
      <4>1. "%" \in Characters
        BY CharactersAssumption
      <4> QED BY <3>1, <4>1, FirstOf
    <3>3. Head(input) # "%"
      BY <2>1, <3>1, <3>2, FormatIsRead
    <3> QED BY <1>1, <2>1, <3>3
  <2>3. CASE i.kind = "percent"
    <3>1. ItemText(i) = <<"%">> \o <<"%">> /\ ItemShown(i) = <<"%">> /\ ArgumentOf(i) = <<>>
      BY <2>3, ItemTypes
    <3>2. "%" \in Characters /\ <<"%">> \in Seq(Characters)
      BY CharactersAssumption, ShortSeqs
    <3>3. input = <<"%">> \o Text(rem)
      BY <2>1, <3>1, <3>2, FirstOf
    <3>4. Head(input) = "%" /\ Tail(input) = Text(rem)
      BY <2>1, <3>2, <3>3, FirstOf
    <3>5. args = Arguments(rem)
      BY <2>1, <3>1, ConcatEmptySeq
    <3>6. Owes(<<"%">> \o AllShown(rem))
      BY <2>1, <3>1, Zenon
    <3> QED BY <1>3, <3>2, <3>4, <3>5, <3>6
  <2> QED BY <2>1, <2>2, <2>3, ItemKinds
<1>6. \A i \in Item : ~ Converting(i, rem)
  BY <1>1, NotNoFormat DEF Converting
<1> QED BY <1>2, <1>4, <1>5, <1>6

\* vhprintk_read_format() reads the conversion whose percent sign has gone by.
LEMMA FormatStep ==
  ASSUME PrintkInv, FormatRead
  PROVE  PrintkInv'
<1>1. /\ PrintkType /\ stop = FALSE /\ call # Idle /\ format = NoFormat /\ Goes
      /\ Head(input) # "%" /\ fmt = TRUE
      /\ call' = call /\ args' = args /\ fmt' = fmt /\ out' = out /\ stop' = stop
  BY DEF PrintkInv, FormatRead, Turning
<1>2. PICK rem \in Seq(Item) : \/ Between(rem)
                              \/ \E i \in Item : AfterPercent(i, rem) \/ Converting(i, rem)
  BY <1>1 DEF Goes
<1>3. ~ Between(rem) /\ \A i \in Item : ~ Converting(i, rem)
  <2>1. ~ Between(rem)
    BY <1>1 DEF Between
  <2>2. \A i \in Item : ~ Converting(i, rem)
    BY <1>1, NotNoFormat DEF Converting
  <2> QED BY <2>1, <2>2
<1>4. PICK i \in Item : AfterPercent(i, rem)
  BY <1>2, <1>3
<1>5. /\ i.kind # "plain" /\ input = Tail(ItemText(i)) \o Text(rem)
      /\ args = ArgumentOf(i) \o Arguments(rem)
      /\ Owes(ItemShown(i) \o AllShown(rem)) /\ Text(rem) \in Seq(Characters)
  BY <1>4, ItemsFirst DEF AfterPercent
<1>6. i.kind # "percent"
  <2> SUFFICES ASSUME i.kind = "percent" PROVE FALSE
    OBVIOUS
  <2>1. ItemText(i) = <<"%">> \o <<"%">>
    BY ItemTypes
  <2>2. "%" \in Characters /\ <<"%">> \in Seq(Characters)
    BY CharactersAssumption, ShortSeqs
  <2>3. input = <<"%">> \o Text(rem)
    BY <1>5, <2>1, <2>2, FirstOf
  <2>4. Head(input) = "%"
    BY <1>5, <2>2, <2>3, FirstOf
  <2> QED BY <1>1, <2>4
<1>7. IsConversion(i) /\ ItemText(i) = <<"%">> \o Body(i)
  <2>1. i.kind = "conversion"
    <3>1. \/ i.kind = "plain" /\ i.chars \in Seq(Characters \ {"%"}) /\ i.chars # <<>>
          \/ i = Percent /\ i.kind = "percent"
          \/ i.kind = "conversion" /\ IsConversion(i)
      BY ItemKinds
    <3> QED BY <1>5, <1>6, <3>1, Zenon
  <2> QED BY <2>1, ItemTypes DEF IsConversion
<1>8. input = Body(i) \o Text(rem)
  <2>1. "%" \in Characters /\ Body(i) \in Seq(Characters)
    BY <1>7, CharactersAssumption, BodyParts
  <2>2. Tail(ItemText(i)) = Body(i)
    BY <1>7, <2>1, FirstOf
  <2> QED BY <1>5, <2>2
<1> DEFINE f == ReadFormat(input)
<1>9. /\ f.flags = Range(i.flags) /\ f.width = i.width /\ f.long = i.long /\ f.type = i.type
      /\ f.read \in 1 .. Len(input)
      /\ SubSeq(input, f.read + 1, Len(input)) = Text(rem)
      /\ input \in Seq(Characters)
  BY <1>5, <1>7, <1>8, FormatIsRead
<1>10. /\ format' = [flags |-> f.flags, width |-> f.width, long |-> f.long, type |-> f.type]
       /\ input' = SubSeq(input, f.read + 1, Len(input))
       /\ astray' = (f.read > Len(input))
  BY DEF FormatRead
<1> HIDE DEF f
<1>11. format' = Read(i)
  BY <1>9, <1>10, Zenon DEF Read
<1>12. astray' = FALSE
  <2>1. Len(input) \in Nat
    BY <1>9, LenProperties
  <2>2. ~ (f.read > Len(input))
    BY <1>9, <2>1
  <2>3. (f.read > Len(input)) = FALSE
    BY <2>2
  <2> QED BY <1>10, <2>3, Zenon
<1>13. Owes(ItemShown(i) \o AllShown(rem))'
  BY <1>1, <1>5 DEF Owes
<1>14. Converting(i, rem)'
  BY <1>1, <1>5, <1>7, <1>9, <1>10, <1>11, <1>13, Zenon DEF Converting
<1>15. Goes'
  BY <1>14 DEF Goes
<1>16. PrintkType'
  BY <1>1, <1>12 DEF PrintkType
<1> QED BY <1>1, <1>15, <1>16 DEF PrintkInv

\* The argument is printed, and the next item begins.
LEMMA ConvertStep ==
  ASSUME PrintkInv, Convert
  PROVE  PrintkInv'
<1>1. /\ PrintkType /\ format # NoFormat
      /\ print_each(Converted(Pointer(format)))
      /\ args' = (IF format.type \in Types THEN Tail(args) ELSE args)
      /\ call' = call /\ input' = input /\ fmt' = FALSE /\ format' = NoFormat
      /\ astray' = FALSE
  BY DEF PrintkInv, PrintkType, Convert
<1>2. call # Idle /\ stop = FALSE /\ Goes
  BY <1>1 DEF PrintkInv, PrintkType, Rests, Stopped
<1>3. PICK rem \in Seq(Item), i \in Item : Converting(i, rem)
  <2>1. \A rem \in Seq(Item) : ~ Between(rem)
    BY <1>1 DEF Between
  <2>2. \A rem \in Seq(Item), i \in Item : ~ AfterPercent(i, rem)
    BY <1>1 DEF AfterPercent
  <2> QED BY <1>2, <2>1, <2>2 DEF Goes
<1>4. /\ IsConversion(i) /\ format = Read(i) /\ input = Text(rem)
      /\ args = ArgumentOf(i) \o Arguments(rem)
      /\ Owes(ItemShown(i) \o AllShown(rem))
      /\ Arguments(rem) \in Seq(Argument) /\ AllShown(rem) \in Seq(Characters)
  BY <1>3, ItemsFirst DEF Converting
<1>5. format.type = i.type /\ i.kind = "conversion" /\ i.arg \in Argument
  BY <1>4, ConversionType DEF Read, IsConversion
<1>6. i.type \in Types => Head(args) = i.arg /\ Tail(args) = Arguments(rem)
  <2> SUFFICES ASSUME i.type \in Types PROVE Head(args) = i.arg /\ Tail(args) = Arguments(rem)
    OBVIOUS
  <2>1. ArgumentOf(i) = <<i.arg>>
    BY <1>5 DEF ArgumentOf
  <2>2. args = <<i.arg>> \o Arguments(rem)
    BY <1>4, <2>1
  <2> QED BY <1>4, <1>5, <2>2, FirstOf
<1>7. i.type \notin Types => args = Arguments(rem)
  <2> SUFFICES ASSUME i.type \notin Types PROVE args = Arguments(rem)
    OBVIOUS
  <2>1. ArgumentOf(i) = <<>>
    BY DEF ArgumentOf
  <2> QED BY <1>4, <2>1, ConcatEmptySeq
<1>8. args' = Arguments(rem)
  BY <1>1, <1>5, <1>6, <1>7, Zenon
<1>9. ItemShown(i) = ConversionShown(i) /\ ConversionShown(i) \in Seq(Characters)
  BY <1>4, <1>5, ItemTypes, ConversionShownType
<1>10. print_each(ItemShown(i))
  <2>1. Converted(Pointer(Read(i))) = ConversionShown(i)
    BY <1>4, <1>6, ConversionIsPrinted
  <2> QED BY <1>1, <1>4, <1>9, <2>1, Zenon
<1>11. /\ out' \in Seq(Characters) /\ stop' \in BOOLEAN
       /\ stop' => Stopped'
       /\ ~stop' => Owes(AllShown(rem))'
  BY <1>1, <1>2, <1>4, <1>9, <1>10, PrintEach
<1>12. ~stop' => Between(rem)'
  BY <1>1, <1>4, <1>8, <1>11 DEF Between
<1>13. ~stop' => Goes'
  BY <1>12 DEF Goes
<1>14. PrintkType'
  BY <1>1, <1>11 DEF PrintkType
<1> QED BY <1>1, <1>2, <1>11, <1>13, <1>14 DEF PrintkInv

\* Nothing of a call is left when it returns.
LEMMA ReturnStep ==
  ASSUME PrintkInv, Returns
  PROVE  PrintkInv'
<1>1. call' = Idle /\ out' = out /\ astray' = astray
  BY DEF Returns
<1>2. Rests'
  BY DEF Rests, Returns
<1>3. Idle.items \in Seq(Item) /\ Idle.size \in Nat \cup {Unlimited}
  BY DEF Idle
<1>4. PrintkType'
  BY <1>1, <1>2, <1>3 DEF PrintkInv, PrintkType, Rests
<1> QED BY <1>1, <1>2, <1>4 DEF PrintkInv

\* A call begins with all of its items left.
LEMMA CallBegins ==
  ASSUME PrintkInv, NEW items \in Seq(Item), NEW size \in Nat \cup {Unlimited},
         Printk(items, size)
  PROVE  PrintkInv'
<1>1. /\ PrintkType /\ Rests
      /\ call' = [items |-> items, size |-> size] /\ input' = Text(items)
      /\ args' = Arguments(items) /\ out' = <<>>
      /\ fmt' = FALSE /\ stop' = FALSE /\ format' = NoFormat /\ astray' = FALSE
  BY DEF PrintkInv, PrintkType, Rests, Printk
<1>2. call'.items = items /\ call'.size = size
  BY <1>1
<1>3. PrintkType'
  <2>1. <<>> \in Seq(Characters)
    OBVIOUS
  <2>2. call.items' = items /\ call.size' = size
    BY <1>2
  <2> QED BY <1>1, <2>1, <2>2 DEF PrintkType
<1>4. Owes(AllShown(items))'
  <2>1. AllShown(items) \in Seq(Characters)
    BY ItemsFirst, PercentIsItem
  <2>2. <<>> \o AllShown(items) = AllShown(items)
    BY <2>1, ConcatEmptySeq
  <2>3. Len(<<>>) = 0 /\ (size = Unlimited \/ 0 <= size)
    OBVIOUS
  <2> QED BY <1>1, <1>2, <2>2, <2>3 DEF Owes
<1>5. Between(items)'
  BY <1>1, <1>4 DEF Between
<1>6. Goes'
  BY <1>5 DEF Goes
<1>7. CASE call' = Idle
  <2>1. items = <<>>
    BY <1>2, <1>7 DEF Idle
  <2>2. input' = <<>> /\ args' = <<>>
    BY <1>1, <2>1, NoItems
  <2>3. Rests'
    BY <1>1, <2>2 DEF Rests
  <2> QED BY <1>1, <1>3, <1>6, <2>3 DEF PrintkInv
<1>8. CASE call' # Idle
  BY <1>1, <1>3, <1>6, <1>8 DEF PrintkInv
<1> QED BY <1>7, <1>8

\* Nothing else happens to a call.
LEMMA PrintkStutters ==
  ASSUME PrintkInv, UNCHANGED printvars
  PROVE  PrintkInv'
<1>1. /\ call' = call /\ input' = input /\ args' = args /\ fmt' = fmt /\ format' = format
      /\ out' = out /\ stop' = stop /\ astray' = astray
  BY DEF printvars
<1>2. \A rem \in Seq(Item) : Between(rem) => Between(rem)'
  BY <1>1, Zenon DEF Between, Owes
<1>3. \A rem \in Seq(Item), i \in Item :
        /\ AfterPercent(i, rem) => AfterPercent(i, rem)'
        /\ Converting(i, rem) => Converting(i, rem)'
  BY <1>1, Zenon DEF AfterPercent, Converting, Owes
<1>4. Goes => Goes'
  BY <1>2, <1>3, Zenon DEF Goes
<1>5. (Stopped => Stopped') /\ (PrintkType => PrintkType') /\ (Rests => Rests')
  BY <1>1, Zenon DEF Stopped, PrintkType, Rests
<1> QED BY <1>1, <1>4, <1>5, Zenon DEF PrintkInv

\* The beginning of a text is the beginning of what the buffer holds of it.
LEMMA PrefixOfSlice ==
  ASSUME NEW T, NEW s \in Seq(T), NEW t \in Seq(T), NEW n \in Nat,
         Len(s) <= n, n <= Len(s \o t)
  PROVE  IsPrefix(s, SubSeq(s \o t, 1, n))
<1>1. PICK a \in Nat, b \in Nat : a = Len(s) /\ b = Len(t)
  BY LenProperties
<1> DEFINE u == s \o t
           v == SubSeq(u, 1, n)
<1>2. u \in Seq(T) /\ Len(u) = a + b /\ \A j \in 1 .. a : u[j] = s[j]
  BY <1>1, PlacesOfTwo
<1> HIDE DEF u
<1>3. n <= Len(u)
  BY DEF u
<1>4. v \in Seq(T) /\ Len(v) = n /\ \A j \in 1 .. n : v[j] = u[j]
  BY <1>2, <1>3
<1> HIDE DEF v
<1>5. Len(s) <= Len(v)
  BY <1>4
<1>6. SubSeq(s, 1, a) = s
  BY <1>1
<1>7. SubSeq(v, 1, a) = [j \in 1 .. a |-> v[j]]
  BY <1>1, <1>4
<1>8. s = [j \in 1 .. a |-> s[j]]
  BY <1>1
<1>9. \A j \in 1 .. a : v[j] = s[j]
  BY <1>1, <1>2, <1>4
<1>10. SubSeq(v, 1, a) = s
  BY <1>7, <1>8, <1>9
<1>11. IsPrefix(s, v)
  BY <1>1, <1>5, <1>6, <1>10, Zenon DEF IsPrefix
<1> QED BY <1>11 DEF u, v

\* What the invariant says of the output: it is the beginning of what the
\* items show, and once there is nothing more to read all that fits.
LEMMA PrintkInvMeans ==
  ASSUME PrintkInv
  PROVE  PrintsAsFormatted /\ StaysInFormat
<1>1. StaysInFormat
  BY DEF StaysInFormat, PrintkInv, PrintkType
<1> DEFINE all == AllShown(call.items)
           shown == Shown(call.items, call.size)
<1>2. ASSUME call # Idle
      PROVE  /\ IsPrefix(out, shown)
             /\ format = NoFormat /\ (input = <<>> \/ stop) => out = shown /\ (stop \/ args = <<>>)
  <2>1. out \in Seq(Characters) /\ Len(out) \in Nat /\ stop \in BOOLEAN
    BY LenProperties DEF PrintkInv, PrintkType
  <2>2. shown = IF call.size = Unlimited \/ Len(all) <= call.size THEN all
                ELSE SubSeq(all, 1, call.size)
    BY Zenon DEF Shown
  <2>3. all \in Seq(Characters)
    BY ItemsFirst, PercentIsItem DEF PrintkInv, PrintkType
  <2> HIDE DEF all, shown
  <2>4. CASE stop
    <3>1. call.size \in Nat /\ Len(all) > call.size /\ out = SubSeq(all, 1, call.size)
      BY <1>2, <2>4 DEF PrintkInv, Stopped, all
    <3>2. out = shown
      <4>1. call.size # Unlimited /\ ~ (Len(all) <= call.size)
        <5>1. Len(all) \in Nat
          BY <2>3, LenProperties
        <5> QED BY <3>1, <5>1 DEF Unlimited
      <4> QED BY <2>2, <3>1, <4>1, Zenon
    <3>3. IsPrefix(out, out)
      BY <2>1 DEF IsPrefix
    <3> QED BY <2>4, <3>2, <3>3
  <2>5. CASE ~stop
    <3>1. PICK rem \in Seq(Item) : \/ Between(rem)
                                  \/ \E i \in Item : AfterPercent(i, rem) \/ Converting(i, rem)
      BY <1>2, <2>5 DEF PrintkInv, Goes
    <3>2. AllShown(rem) \in Seq(Characters) /\ Text(rem) \in Seq(Characters)
      BY ItemsFirst, PercentIsItem
    <3>3. PICK rest \in Seq(Characters) : Owes(rest)
      <4>1. \A i \in Item : ItemShown(i) \o AllShown(rem) \in Seq(Characters)
        BY <3>2, ItemTypes, ConcatProperties
      <4> QED BY <3>1, <3>2, <4>1 DEF Between, AfterPercent, Converting
    <3>4. all = out \o rest /\ (call.size = Unlimited \/ Len(out) <= call.size)
      BY <3>3 DEF Owes, all
    <3>5. IsPrefix(out, shown)
      <4>1. CASE call.size = Unlimited \/ Len(all) <= call.size
        <5>1. shown = out \o rest
          BY <2>2, <3>4, <4>1, Zenon
        <5>2. IsPrefix(out, out \o rest)
          BY <2>1 DEF IsPrefix
        <5> QED BY <5>1, <5>2
      <4>2. CASE ~ (call.size = Unlimited \/ Len(all) <= call.size)
        <5>1. shown = SubSeq(out \o rest, 1, call.size) /\ Len(out) <= call.size
          BY <2>2, <3>4, <4>2, Zenon
        <5>2. call.size \in Nat /\ call.size <= Len(out \o rest)
          <6>1. call.size \in Nat
            BY <4>2 DEF PrintkInv, PrintkType
          <6>2. Len(all) \in Nat
            BY <2>3, LenProperties
          <6>3. call.size <= Len(all)
            BY <4>2, <6>1, <6>2
          <6> QED BY <3>4, <6>1, <6>3
        <5>3. IsPrefix(out, SubSeq(out \o rest, 1, call.size))
          BY <2>1, <5>1, <5>2, PrefixOfSlice
        <5> QED BY <5>1, <5>3
      <4> QED BY <4>1, <4>2
    <3>6. ASSUME format = NoFormat, input = <<>>
          PROVE  out = shown /\ args = <<>>
      <4>1. Between(rem)
        <5>1. \A i \in Item : ~ Converting(i, rem)
          BY <3>6, NotNoFormat DEF Converting
        <5>2. ASSUME NEW i \in Item, AfterPercent(i, rem) PROVE FALSE
          <6>1. i.kind # "plain" /\ <<>> = Tail(ItemText(i)) \o Text(rem)
            BY <3>6, <5>2 DEF AfterPercent
          <6>2. PICK t \in Seq(Characters) : ItemText(i) = <<"%">> \o t /\ t # <<>>
            <7>1. \/ i.kind = "plain" /\ i.chars \in Seq(Characters \ {"%"}) /\ i.chars # <<>>
                  \/ i = Percent /\ i.kind = "percent"
                  \/ i.kind = "conversion" /\ IsConversion(i)
              BY ItemKinds
            <7>2. <<"%">> \in Seq(Characters) /\ <<"%">> # <<>>
              BY CharactersAssumption, ShortSeqs
            <7>3. IsConversion(i) => Body(i) \in Seq(Characters) /\ Body(i) # <<>>
              <8> SUFFICES ASSUME IsConversion(i)
                           PROVE  Body(i) \in Seq(Characters) /\ Body(i) # <<>>
                OBVIOUS
              <8>1. Body(i) \in Seq(Characters)
                BY BodyParts
              <8>2. <<>> \in Seq(Characters)
                OBVIOUS
              <8>3. Body(i) \o <<>> # <<>>
                BY <8>2, FormatIsRead
              <8> QED BY <8>1, <8>3, ConcatEmptySeq
            <7> QED BY <6>1, <7>1, <7>2, <7>3, ItemTypes
          <6>3. Tail(ItemText(i)) = t
            <7>1. "%" \in Characters
              BY CharactersAssumption
            <7> QED BY <6>2, <7>1, FirstOf
          <6>4. t \o Text(rem) # <<>>
            BY <3>2, <6>2
          <6> QED BY <6>1, <6>3, <6>4
        <5> QED BY <3>1, <5>1, <5>2
      <4>2. rem = <<>>
        <5> SUFFICES ASSUME NEW i \in Item, NEW r \in Seq(Item), rem = <<i>> \o r PROVE FALSE
          BY SomethingLeft
        <5>1. Text(rem) = ItemText(i) \o Text(r) /\ Text(r) \in Seq(Characters)
          BY ItemsFirst
        <5>2. ItemText(i) \in Seq(Characters) /\ ItemText(i) # <<>>
          BY ItemTypes
        <5>3. Text(rem) # <<>>
          BY <5>1, <5>2
        <5> QED BY <3>6, <4>1, <5>3 DEF Between
      <4>3. args = <<>> /\ all = out /\ (call.size = Unlimited \/ Len(all) <= call.size)
        <5>1. args = <<>> /\ all = out \o <<>> /\ (call.size = Unlimited \/ Len(out) <= call.size)
          BY <4>1, <4>2, NoItems DEF Between, Owes, all
        <5> QED BY <2>1, <5>1, ConcatEmptySeq
      <4> QED BY <2>2, <4>3, Zenon
    <3> QED BY <2>5, <3>5, <3>6
  <2> QED BY <2>1, <2>4, <2>5
<1>3. PrintsAsFormatted
  BY <1>2, Zenon DEF PrintsAsFormatted
<1> QED BY <1>1, <1>3

-----------------------------------------------------------------------------
(* Every step of the kernel and of the task.                               *)

\* At the beginning there is no call.
LEMMA SieveInitInv == SieveInit => PrintkInv
<1> SUFFICES ASSUME SieveInit PROVE PrintkInv
  OBVIOUS
<1>1. /\ call = Idle /\ input = <<>> /\ args = <<>> /\ fmt = FALSE /\ stop = FALSE
      /\ astray = FALSE /\ out = <<>> /\ format = NoFormat
  BY DEF SieveInit, PrintkInit
<1>2. Idle.items \in Seq(Item) /\ Idle.size \in Nat \cup {Unlimited}
  BY DEF Idle
<1>3. <<>> \in Seq(Characters)
  OBVIOUS
<1>4. PrintkType
  BY <1>1, <1>2, <1>3, Zenon DEF PrintkType
<1> QED BY <1>1, <1>4 DEF PrintkInv, Rests

\* The type of SYSCALL_PRINT is no digit.
LEMMA LetterIsNoDigit == "s" \notin Digits
<1>1. /\ Lower[1] = "0" /\ Lower[2] = "1" /\ Lower[3] = "2" /\ Lower[4] = "3" /\ Lower[5] = "4"
      /\ Lower[6] = "5" /\ Lower[7] = "6" /\ Lower[8] = "7" /\ Lower[9] = "8" /\ Lower[10] = "9"
  BY DEF Lower
<1>2. ASSUME NEW k \in 1 .. 10 PROVE Lower[k] # "s"
  <2>1. k \in {1, 2, 3, 4, 5, 6, 7, 8, 9, 10}
    OBVIOUS
  <2> QED BY <1>1, <2>1
<1> QED BY <1>2 DEF Digits

\* What the task says is a format that a caller may write.
LEMMA SayPrints ==
  ASSUME PrintkInv, NEW message \in Seq(Characters), Say(message)
  PROVE  PrintkInv'
<1> DEFINE i == Conversion(<<>>, 0, FALSE, "s", Str(message))
<1>1. i \in Item
  <2>1. "s" \in Characters \ (Flags \cup Digits \cup {"l", "%"})
    <3>1. "s" \in Characters /\ "s" \notin Flags
      BY SieveAssumption DEF Flags
    <3>2. "s" \notin Digits
      BY LetterIsNoDigit
    <3> QED BY <3>1, <3>2
  <2>2. Str(message) \in Argument
    BY DEF Str, Argument
  <2>3. <<>> \in Seq(Flags)
    OBVIOUS
  <2> QED BY <2>1, <2>2, <2>3 DEF Item, Conversion
<1>2. Printk(<<i>>, Unlimited)
  BY DEF Say
<1> HIDE DEF i
<1>3. <<i>> \in Seq(Item) /\ Unlimited \in Nat \cup {Unlimited}
  BY <1>1
<1> QED BY <1>2, <1>3, CallBegins

\* Every step of the kernel, of printk() and of the task keeps PrintkInv.
LEMMA SieveStepInv == PrintkInv /\ [SieveNext]_sievevars => PrintkInv'
<1> SUFFICES ASSUME PrintkInv, [SieveNext]_sievevars PROVE PrintkInv'
  OBVIOUS
<1>1. CASE Greet
  <2>1. PICK k \in KernelCalls : Printk(k.items, k.size)
    BY <1>1 DEF Greet
  <2>2. k.items \in Seq(Item) /\ k.size \in Nat \cup {Unlimited}
    BY SieveAssumption
  <2> QED BY <2>1, <2>2, CallBegins
<1>2. CASE Enter
  <2>1. <<"s">> \in Seq(Characters)
    <3>1. "s" \in Characters
      BY SieveAssumption
    <3> QED BY <3>1, ShortSeqs
  <2> QED BY <1>2, <2>1, SayPrints DEF Enter
<1>3. CASE Allocate
  BY <1>3, PrintkStutters DEF Allocate
<1>4. CASE Sieve
  BY <1>4, PrintkStutters DEF Sieve
<1>5. CASE Count
  <2>1. <<"o", "k">> \in Seq(Characters) /\ <<"n", "o">> \in Seq(Characters)
    <3>1. "o" \in Characters /\ "k" \in Characters /\ "n" \in Characters
      BY SieveAssumption
    <3> QED BY <3>1, ShortSeqs
  <2>2. \E b \in BOOLEAN : Say(IF b THEN <<"o", "k">> ELSE <<"n", "o">>)
    BY <1>5 DEF Count
  <2>3. Say(<<"o", "k">>) \/ Say(<<"n", "o">>)
    BY <2>2, Zenon
  <2> QED BY <2>1, <2>3, SayPrints
<1>6. CASE PrintTurn
  BY <1>6, PercentStep, PlainStep, FormatStep, ConvertStep, ReturnStep DEF PrintTurn, Turn
<1>7. CASE UNCHANGED sievevars
  <2>1. UNCHANGED printvars
    BY <1>7 DEF sievevars
  <2> QED BY <2>1, PrintkStutters
<1> QED BY <1>1, <1>2, <1>3, <1>4, <1>5, <1>6, <1>7 DEF SieveNext

\* Every call prints what its items show (PrintsAsFormatted).
THEOREM PrintkIsFaithful == SieveSpec => []PrintsAsFormatted
<1>1. PrintkInv => PrintsAsFormatted
  BY PrintkInvMeans
<1> QED BY <1>1, SieveInitInv, SieveStepInv, PTL DEF SieveSpec

\* No format is read past its end (StaysInFormat).
THEOREM PrintkStaysInFormat == SieveSpec => []StaysInFormat
<1>1. PrintkInv => StaysInFormat
  BY PrintkInvMeans
<1> QED BY <1>1, SieveInitInv, SieveStepInv, PTL DEF SieveSpec

-----------------------------------------------------------------------------
(* Numbers in order.                                                       *)

\* f holds, in order, the n members of S.
Enumerates(f, n, S) ==
  /\ n = Cardinality(S)
  /\ {f[i] : i \in 0 .. n - 1} = S
  /\ \A i \in 1 .. n - 1 : f[i - 1] < f[i]

\* The members of S below x.
Under(S, x) == {y \in S : y < x}

\* Numbers that grow from each to the next are in order.
LEMMA Increasing ==
  ASSUME NEW n \in Nat, NEW f, \A i \in 0 .. n - 1 : f[i] \in Nat,
         \A i \in 1 .. n - 1 : f[i - 1] < f[i]
  PROVE  \A i, j \in 0 .. n - 1 : i < j => f[i] < f[j]
<1> SUFFICES ASSUME NEW i \in 0 .. n - 1 PROVE \A j \in 0 .. n - 1 : i < j => f[i] < f[j]
  OBVIOUS
<1> DEFINE G == {k \in Nat : (i + 1) + k <= n - 1 => f[i] < f[(i + 1) + k]}
<1>1. 0 \in G
  <2> SUFFICES ASSUME (i + 1) + 0 <= n - 1 PROVE f[i] < f[(i + 1) + 0]
    OBVIOUS
  <2>1. i + 1 \in 1 .. n - 1 /\ (i + 1) - 1 = i /\ (i + 1) + 0 = i + 1
    OBVIOUS
  <2> QED BY <2>1
<1>2. ASSUME NEW k \in 0 .. n - 1, k \in G PROVE k + 1 \in G
  <2> SUFFICES ASSUME (i + 1) + (k + 1) <= n - 1 PROVE f[i] < f[(i + 1) + (k + 1)]
    OBVIOUS
  <2>1. /\ (i + 1) + (k + 1) \in 1 .. n - 1 /\ ((i + 1) + (k + 1)) - 1 = (i + 1) + k
        /\ (i + 1) + k \in 0 .. n - 1 /\ (i + 1) + k <= n - 1
    OBVIOUS
  <2>2. f[(i + 1) + k] < f[(i + 1) + (k + 1)] /\ f[i] < f[(i + 1) + k]
    BY <1>2, <2>1
  <2>3. f[i] \in Nat /\ f[(i + 1) + k] \in Nat /\ f[(i + 1) + (k + 1)] \in Nat
    BY <2>1
  <2> QED BY <2>2, <2>3
<1>3. \A k \in 0 .. n : k \in G
  <2> HIDE DEF G
  <2> QED BY <1>1, <1>2, UpInduction
<1>4. ASSUME NEW j \in 0 .. n - 1, i < j PROVE f[i] < f[j]
  <2>1. j - (i + 1) \in 0 .. n /\ (i + 1) + (j - (i + 1)) = j /\ j <= n - 1
    BY <1>4
  <2> QED BY <1>3, <2>1
<1> QED BY <1>4

\* There are n numbers from 0 to n - 1.
LEMMA CountBelow ==
  ASSUME NEW n \in Nat
  PROVE  IsFiniteSet(0 .. n - 1) /\ Cardinality(0 .. n - 1) = n
<1>1. 0 \in Int /\ n - 1 \in Int /\ (IF 0 > n - 1 THEN 0 ELSE (n - 1) - 0 + 1) = n
  OBVIOUS
<1> QED BY <1>1, FS_Interval

\* The place of a number is how many are below it.
LEMMA PlaceIsRank ==
  ASSUME NEW n \in Nat, NEW S, S \subseteq Nat, NEW f, Enumerates(f, n, S)
  PROVE  /\ \A i \in 0 .. n - 1 : f[i] \in S
         /\ \A i, j \in 0 .. n - 1 : i < j => f[i] < f[j]
         /\ \A j \in 0 .. n - 1 : Cardinality(Under(S, f[j])) = j
<1>1. \A i \in 0 .. n - 1 : f[i] \in S /\ f[i] \in Nat
  BY DEF Enumerates
<1>2. \A i, j \in 0 .. n - 1 : i < j => f[i] < f[j]
  BY <1>1, Increasing DEF Enumerates
<1>3. ASSUME NEW j \in 0 .. n - 1 PROVE Cardinality(Under(S, f[j])) = j
  <2> DEFINE g == [i \in 0 .. j - 1 |-> f[i]]
             U == Under(S, f[j])
  <2>1. g \in [0 .. j - 1 -> U]
    <3>1. ASSUME NEW i \in 0 .. j - 1 PROVE f[i] \in U
      <4>1. i \in 0 .. n - 1 /\ i < j
        OBVIOUS
      <4> QED BY <4>1, <1>1, <1>2 DEF Under
    <3> QED BY <3>1
  <2>2. \A a, b \in 0 .. j - 1 : g[a] = g[b] => a = b
    <3> SUFFICES ASSUME NEW a \in 0 .. j - 1, NEW b \in 0 .. j - 1, a # b PROVE f[a] # f[b]
      OBVIOUS
    <3>1. a \in 0 .. n - 1 /\ b \in 0 .. n - 1 /\ (a < b \/ b < a)
      OBVIOUS
    <3>2. f[a] < f[b] \/ f[b] < f[a]
      BY <3>1, <1>2
    <3> QED BY <3>1, <3>2, <1>1
  <2>3. \A y \in U : \E i \in 0 .. j - 1 : g[i] = y
    <3> SUFFICES ASSUME NEW y \in U PROVE \E i \in 0 .. j - 1 : f[i] = y
      OBVIOUS
    <3>1. PICK i \in 0 .. n - 1 : f[i] = y
      BY DEF Under, Enumerates
    <3>2. ~ (j < i) /\ i # j
      <4>1. f[i] < f[j] /\ f[i] \in Nat /\ f[j] \in Nat
        BY <3>1, <1>1 DEF Under
      <4>2. ~ (f[j] < f[i]) /\ f[i] # f[j]
        BY <4>1
      <4> QED BY <4>2, <1>2
    <3>3. i \in 0 .. j - 1
      BY <3>2
    <3> QED BY <3>1, <3>3
  <2>4. g \in Bijection(0 .. j - 1, U)
    BY <2>1, <2>2, <2>3 DEF Bijection, Injection, Surjection, IsInjective
  <2>5. IsFiniteSet(0 .. j - 1) /\ Cardinality(0 .. j - 1) = j
    BY CountBelow
  <2>6. ExistsBijection(0 .. j - 1, U)
    BY <2>4 DEF ExistsBijection
  <2> QED BY <2>5, <2>6, FS_Bijection
<1> QED BY <1>1, <1>2, <1>3

\* Below a greater number there are more.
LEMMA RankRises ==
  ASSUME NEW S, IsFiniteSet(S), S \subseteq Nat, NEW x \in S, NEW y \in Nat, x < y
  PROVE  Cardinality(Under(S, x)) < Cardinality(Under(S, y))
<1>1. IsFiniteSet(Under(S, y))
  BY FS_Subset DEF Under
<1>2. Under(S, x) \in SUBSET Under(S, y) /\ x \in Under(S, y) /\ x \notin Under(S, x)
  <2>1. x \in Nat /\ \A z \in S : z \in Nat
    OBVIOUS
  <2>2. ~ (x < x) /\ \A z \in S : z < x => z < y
    BY <2>1
  <2> QED BY <2>2 DEF Under
<1>3. Under(S, x) # Under(S, y)
  BY <1>2
<1>4. /\ IsFiniteSet(Under(S, x))
      /\ Cardinality(Under(S, x)) <= Cardinality(Under(S, y))
      /\ Cardinality(Under(S, x)) # Cardinality(Under(S, y))
  BY <1>1, <1>2, <1>3, FS_Subset
<1>5. Cardinality(Under(S, x)) \in Nat /\ Cardinality(Under(S, y)) \in Nat
  BY <1>1, <1>4, FS_CardinalityType
<1> QED BY <1>4, <1>5

\* Nth() goes through the numbers of a set in order.
LEMMA NthIsInOrder ==
  ASSUME NEW S, IsFiniteSet(S), S \subseteq Nat
  PROVE  /\ Cardinality(S) \in Nat
         /\ \A n \in 0 .. Cardinality(S) - 1 : Nth(S, n) \in S
         /\ \A n \in 1 .. Cardinality(S) - 1 : Nth(S, n - 1) < Nth(S, n)
         /\ \A i \in S : \E n \in 0 .. Cardinality(S) - 1 : Nth(S, n) = i
<1> DEFINE c == Cardinality(S)
           R == [i \in S |-> Cardinality(Under(S, i))]
<1>1. c \in Nat
  BY FS_CardinalityType
<1>2. ASSUME NEW i \in S, NEW k \in S, i < k PROVE R[i] < R[k]
  BY <1>2, RankRises
<1>3. R \in [S -> 0 .. c - 1]
  <2>1. ASSUME NEW i \in S PROVE Cardinality(Under(S, i)) \in 0 .. c - 1
    <3>1. Under(S, i) \in SUBSET S /\ i \notin Under(S, i)
      BY DEF Under
    <3>2. Under(S, i) # S
      BY <3>1
    <3>3. /\ IsFiniteSet(Under(S, i))
          /\ Cardinality(Under(S, i)) <= c
          /\ Cardinality(Under(S, i)) # c
      BY <3>1, <3>2, FS_Subset
    <3>4. Cardinality(Under(S, i)) \in Nat
      BY <3>3, FS_CardinalityType
    <3> HIDE DEF c
    <3> QED BY <3>3, <3>4, <1>1
  <2> QED BY <2>1
<1>4. \A i, k \in S : R[i] = R[k] => i = k
  <2> SUFFICES ASSUME NEW i \in S, NEW k \in S, i # k PROVE R[i] # R[k]
    OBVIOUS
  <2>1. i < k \/ k < i
    OBVIOUS
  <2>2. R[i] \in 0 .. c - 1 /\ R[k] \in 0 .. c - 1
    BY <1>3
  <2>3. R[i] < R[k] \/ R[k] < R[i]
    BY <2>1, <1>2
  <2> HIDE DEF R, c
  <2> QED BY <2>2, <2>3, <1>1
<1>5. R \in Injection(S, 0 .. c - 1)
  BY <1>3, <1>4 DEF Injection, IsInjective
<1>6. IsFiniteSet(0 .. c - 1) /\ Cardinality(0 .. c - 1) = c
  <2> HIDE DEF c
  <2> QED BY <1>1, CountBelow
<1>7. \A n \in 0 .. c - 1 : \E i \in S : R[i] = n
  <2>1. R \in Surjection(S, 0 .. c - 1)
    BY <1>5, <1>6, FS_Injection
  <2> QED BY <2>1 DEF Surjection
<1>8. ASSUME NEW n \in 0 .. c - 1 PROVE Nth(S, n) \in S /\ R[Nth(S, n)] = n
  <2>1. \E i \in S : Cardinality({j \in S : j < i}) = n
    BY <1>7 DEF Under
  <2>2. Nth(S, n) \in S /\ Cardinality({j \in S : j < Nth(S, n)}) = n
    BY <2>1 DEF Nth
  <2> QED BY <2>2 DEF Under
<1>9. ASSUME NEW n \in 1 .. c - 1 PROVE Nth(S, n - 1) < Nth(S, n)
  <2>1. n \in 0 .. c - 1 /\ n - 1 \in 0 .. c - 1 /\ ~ (n < n - 1) /\ n # n - 1
    BY <1>1
  <2>2. /\ Nth(S, n) \in S /\ R[Nth(S, n)] = n
        /\ Nth(S, n - 1) \in S /\ R[Nth(S, n - 1)] = n - 1
    BY <2>1, <1>8
  <2>3. ~ (Nth(S, n) < Nth(S, n - 1)) /\ Nth(S, n) # Nth(S, n - 1)
    <3> HIDE DEF R
    <3> QED BY <2>1, <2>2, <1>2
  <2>4. Nth(S, n) \in Nat /\ Nth(S, n - 1) \in Nat
    BY <2>2
  <2> QED BY <2>3, <2>4
<1>10. ASSUME NEW i \in S PROVE \E n \in 0 .. c - 1 : Nth(S, n) = i
  <2>1. R[i] \in 0 .. c - 1
    BY <1>3
  <2>2. Nth(S, R[i]) \in S /\ R[Nth(S, R[i])] = R[i]
    <3> HIDE DEF R
    <3> QED BY <2>1, <1>8
  <2>3. Nth(S, R[i]) = i
    <3> HIDE DEF R
    <3> QED BY <2>2, <1>4
  <2> QED BY <2>1, <2>3
<1> QED BY <1>1, <1>8, <1>9, <1>10

-----------------------------------------------------------------------------
(* Primes, and the numbers that the first ones leave.                      *)

\* A divisor of a divisor is a divisor.
LEMMA DividesThrough ==
  ASSUME NEW x \in Nat, NEW d \in Nat \ {0}, NEW e \in Nat \ {0}, x % d = 0, d % e = 0
  PROVE  x % e = 0
<1>1. x \div d \in Nat /\ x = (x \div d) * d + 0
  BY DivMod
<1>2. d \div e \in Nat /\ d = (d \div e) * e + 0
  BY DivMod
<1>3. (x \div d) * (d \div e) \in Nat /\ x = ((x \div d) * (d \div e)) * e + 0
  <2> DEFINE a == x \div d
             b == d \div e
  <2>1. a \in Nat /\ b \in Nat /\ x = a * d /\ d = b * e
    <3>1. a \in Nat /\ b \in Nat /\ x = a * d + 0 /\ d = b * e + 0
      BY <1>1, <1>2
    <3> HIDE DEF a, b
    <3>2. a * d \in Nat /\ b * e \in Nat
      BY <3>1, SMT
    <3> QED BY <3>1, <3>2
  <2> HIDE DEF a, b
  <2>2. a * b \in Nat /\ a * (b * e) = (a * b) * e /\ (a * b) * e \in Nat
    BY <2>1, SMT
  <2>3. a * b \in Nat /\ x = (a * b) * e + 0
    BY <2>1, <2>2
  <2> QED BY <2>3 DEF a, b
<1>4. 0 \in 0 .. e - 1
  OBVIOUS
<1> DEFINE q == (x \div d) * (d \div e)
<1>5. q \in Nat /\ x = q * e + 0
  BY <1>3
<1> HIDE DEF q
<1>6. (q * e + 0) % e = 0
  BY <1>4, <1>5, DivUnique
<1> QED BY <1>5, <1>6

\* Primes are greater than 1, and there are finitely many below MAX_SEARCH.
LEMMA PrimeType ==
  /\ Primes \subseteq 2 .. MaxSearch - 1
  /\ \A p \in Primes : p \in Nat \ {0, 1}
  /\ IsFiniteSet(Primes)
<1>1. MaxSearch \in Nat
  BY SieveAssumption
<1>2. Primes \subseteq 2 .. MaxSearch - 1
  BY DEF Primes
<1>3. IsFiniteSet(2 .. MaxSearch - 1)
  <2>1. 2 \in Int /\ MaxSearch - 1 \in Int
    BY <1>1
  <2> QED BY <2>1, FS_Interval
<1>4. IsFiniteSet(Primes)
  BY <1>2, <1>3, FS_Subset
<1>5. \A k \in 2 .. MaxSearch - 1 : k \in Nat \ {0, 1}
  BY <1>1
<1> QED BY <1>2, <1>4, <1>5

\* A number that is not prime has a smaller prime that divides it.
LEMMA PrimeDivisor ==
  ASSUME NEW x \in 2 .. MaxSearch - 1, x \notin Primes
  PROVE  \E p \in Primes : p < x /\ x % p = 0
<1> DEFINE T == {d \in 2 .. x - 1 : x % d = 0}
<1>1. MaxSearch \in Nat
  BY SieveAssumption
<1>2. T # {} /\ T \subseteq Nat
  <2>1. \E d \in 2 .. x - 1 : ~ (x % d # 0)
    BY DEF Primes
  <2>2. \A d \in 2 .. x - 1 : d \in Nat
    BY <1>1
  <2> QED BY <2>1, <2>2
<1>3. PICK p \in T : \A d \in T : p <= d
  <2> HIDE DEF T
  <2> QED BY <1>2, LeastOfNat
<1>4. /\ x \in Nat /\ p \in Nat \ {0} /\ p \in 2 .. MaxSearch - 1 /\ p < x /\ x % p = 0
      /\ p \in 2 .. x - 1
  BY <1>1, <1>3
<1>5. ASSUME NEW d \in 2 .. p - 1 PROVE p % d # 0
  <2> SUFFICES ASSUME p % d = 0 PROVE FALSE
    OBVIOUS
  <2>1. d \in Nat \ {0} /\ d \in 2 .. x - 1 /\ ~ (p <= d)
    BY <1>4
  <2>2. x % d = 0
    BY <2>1, <1>4, DividesThrough
  <2> QED BY <2>1, <2>2, <1>3
<1>6. p \in Primes
  BY <1>4, <1>5 DEF Primes
<1> QED BY <1>4, <1>6

\* How many primes are below a number, and that it is one more from the next on.
LEMMA RankOfPrimes ==
  /\ \A p \in Nat : Rank(p) \in Nat /\ IsFiniteSet(Under(Primes, p))
  /\ \A p \in Primes, q \in Nat : p < q => Rank(p) < Rank(q)
<1>1. IsFiniteSet(Primes) /\ Primes \subseteq Nat
  BY PrimeType
<1>2. \A p : Rank(p) = Cardinality(Under(Primes, p))
  BY DEF Rank, Under
<1>3. ASSUME NEW p \in Nat PROVE Rank(p) \in Nat /\ IsFiniteSet(Under(Primes, p))
  <2>1. Under(Primes, p) \in SUBSET Primes
    BY DEF Under
  <2>2. IsFiniteSet(Under(Primes, p))
    BY <1>1, <2>1, FS_Subset
  <2> QED BY <2>2, <1>2, FS_CardinalityType
<1>4. ASSUME NEW p \in Primes, NEW q \in Nat, p < q PROVE Rank(p) < Rank(q)
  BY <1>1, <1>2, <1>4, RankRises
<1> QED BY <1>3, <1>4

\* 0, 1 and the primes are always left.
LEMMA AlwaysLeft ==
  ASSUME NEW n \in Nat
  PROVE  /\ Left(n) \subseteq 0 .. MaxSearch - 1
         /\ Left(n) \subseteq Nat
         /\ IsFiniteSet(Left(n))
         /\ {0, 1} \cup Primes \subseteq Left(n)
<1>1. MaxSearch \in Nat /\ MaxSearch > 2
  BY SieveAssumption
<1>2. Left(n) \subseteq 0 .. MaxSearch - 1
  BY DEF Left
<1>3. 0 .. MaxSearch - 1 \subseteq Nat /\ IsFiniteSet(0 .. MaxSearch - 1)
  BY <1>1, CountBelow
<1>4. \A p \in Earlier(n) : p \in Primes /\ p \in Nat \ {0, 1}
  BY PrimeType DEF Earlier
<1>5. ASSUME NEW x \in {0, 1} PROVE x \in Left(n)
  <2>1. x \in 0 .. MaxSearch - 1 /\ \A p \in Nat \ {0, 1} : x <= p
    BY <1>1
  <2> QED BY <2>1, <1>4 DEF Left
<1>6. ASSUME NEW x \in Primes PROVE x \in Left(n)
  <2>1. x \in 0 .. MaxSearch - 1 /\ x \in Nat
    BY <1>1, PrimeType
  <2>2. ASSUME NEW p \in Earlier(n) PROVE x <= p \/ x % p # 0
    <3>1. p \in Nat \ {0, 1}
      BY <1>4
    <3>2. CASE x <= p
      BY <3>2
    <3>3. CASE ~ (x <= p)
      <4>1. p \in 2 .. x - 1
        BY <3>1, <3>3, <2>1
      <4> QED BY <4>1 DEF Primes
    <3> QED BY <3>2, <3>3
  <2> QED BY <2>1, <2>2 DEF Left
<1> QED BY <1>2, <1>3, <1>5, <1>6, FS_Subset

\* 0, 1 and the primes below a number that is greater.
LEMMA CountWithPrimes ==
  ASSUME NEW x \in Nat
  PROVE  /\ IsFiniteSet({0, 1} \cup Under(Primes, x))
         /\ Cardinality({0, 1} \cup Under(Primes, x)) = Rank(x) + 2
<1> DEFINE U == Under(Primes, x)
<1>1. IsFiniteSet(U) /\ Cardinality(U) \in Nat /\ Rank(x) = Cardinality(U)
  BY RankOfPrimes, FS_CardinalityType DEF Rank, Under
<1>2. 0 \notin U /\ 1 \notin U
  BY PrimeType DEF Under
<1> HIDE DEF U
<1>3. IsFiniteSet(U \cup {0}) /\ Cardinality(U \cup {0}) = Cardinality(U) + 1
  BY <1>1, <1>2, FS_AddElement
<1>4. 1 \notin U \cup {0}
  BY <1>2
<1>5. /\ IsFiniteSet((U \cup {0}) \cup {1})
      /\ Cardinality((U \cup {0}) \cup {1}) = Cardinality(U \cup {0}) + 1
  BY <1>3, <1>4, FS_AddElement
<1>6. (U \cup {0}) \cup {1} = {0, 1} \cup U
  OBVIOUS
<1>7. IsFiniteSet({0, 1} \cup U) /\ Cardinality({0, 1} \cup U) = Rank(x) + 2
  <2>1. (Cardinality(U) + 1) + 1 = Rank(x) + 2
    BY <1>1
  <2> QED BY <1>3, <1>5, <1>6, <2>1
<1> QED BY <1>7 DEF U

\* What is left at one of the first n places is prime: the numbers that the
\* first n - 3 primes leave and that are not prime come later.
LEMMA FirstAreNotComposite ==
  ASSUME NEW n \in Nat, NEW x \in Left(n), x >= 2, Cardinality(Under(Left(n), x)) < n
  PROVE  x \in Primes
<1> SUFFICES ASSUME x \notin Primes PROVE FALSE
  OBVIOUS
<1>1. /\ MaxSearch \in Nat /\ x \in 0 .. MaxSearch - 1 /\ x \in Nat
      /\ x \in 2 .. MaxSearch - 1
  BY SieveAssumption, AlwaysLeft
<1>2. PICK p \in Primes : p < x /\ x % p = 0
  BY <1>1, PrimeDivisor
<1>3. p \in Nat \ {0, 1} /\ Rank(p) \in Nat
  BY PrimeType, RankOfPrimes
<1>4. ~ (Rank(p) < n - 3)
  <2>1. ~ (x <= p)
    BY <1>1, <1>2, <1>3
  <2>2. p \notin Earlier(n)
    BY <1>2, <2>1 DEF Left
  <2> QED BY <2>2 DEF Earlier
<1> DEFINE B == {0, 1} \cup Under(Primes, p)
<1>5. IsFiniteSet(B) /\ Cardinality(B) = Rank(p) + 2
  BY <1>3, CountWithPrimes
<1>6. p \notin B
  BY <1>3 DEF Under
<1>7. IsFiniteSet(B \cup {p}) /\ Cardinality(B \cup {p}) = (Rank(p) + 2) + 1
  <2> HIDE DEF B
  <2> QED BY <1>5, <1>6, FS_AddElement
<1>8. B \cup {p} \in SUBSET Under(Left(n), x)
  <2>1. 0 < x /\ 1 < x
    BY <1>1
  <2>2. \A q \in Under(Primes, p) : q < x
    <3> SUFFICES ASSUME NEW q \in Under(Primes, p) PROVE q < x
      OBVIOUS
    <3>1. q \in Nat /\ q < p
      BY PrimeType DEF Under
    <3> QED BY <3>1, <1>1, <1>2, <1>3
  <2>3. {0, 1} \cup Primes \subseteq Left(n)
    BY AlwaysLeft
  <2> QED BY <1>2, <2>1, <2>2, <2>3 DEF Under
<1>9. /\ IsFiniteSet(Under(Left(n), x))
      /\ Cardinality(Under(Left(n), x)) \in Nat
  <2>1. IsFiniteSet(Left(n)) /\ Under(Left(n), x) \in SUBSET Left(n)
    BY AlwaysLeft DEF Under
  <2> QED BY <2>1, FS_Subset, FS_CardinalityType
<1>10. (Rank(p) + 2) + 1 <= Cardinality(Under(Left(n), x))
  BY <1>7, <1>8, <1>9, FS_Subset
<1> QED BY <1>3, <1>4, <1>9, <1>10

\* It is at the place of a prime: behind 0, 1 and the smaller ones.
LEMMA FirstArePrimes ==
  ASSUME NEW n \in Nat, NEW x \in Left(n), x >= 2, Cardinality(Under(Left(n), x)) < n
  PROVE  x \in Primes /\ Cardinality(Under(Left(n), x)) = Rank(x) + 2
<1>1. x \in Primes /\ x \in Nat
  BY FirstAreNotComposite, AlwaysLeft
<1>2. /\ IsFiniteSet(Left(n)) /\ Left(n) \subseteq Nat /\ {0, 1} \cup Primes \subseteq Left(n)
  BY AlwaysLeft
<1>3. ASSUME NEW y \in Under(Left(n), x) PROVE y \in {0, 1} \cup Under(Primes, x)
  <2>1. y \in Left(n) /\ y \in Nat /\ y < x
    BY <1>2 DEF Under
  <2>2. CASE y >= 2
    <3>1. Cardinality(Under(Left(n), y)) < Cardinality(Under(Left(n), x))
      BY <1>1, <1>2, <2>1, RankRises
    <3>2. Cardinality(Under(Left(n), y)) \in Nat /\ Cardinality(Under(Left(n), x)) \in Nat
      <4>1. /\ Under(Left(n), y) \in SUBSET Left(n)
            /\ Under(Left(n), x) \in SUBSET Left(n)
        BY DEF Under
      <4> QED BY <4>1, <1>2, FS_Subset, FS_CardinalityType
    <3>3. Cardinality(Under(Left(n), y)) < n
      BY <3>1, <3>2
    <3>4. y \in Primes
      BY <2>1, <2>2, <3>3, FirstAreNotComposite
    <3> QED BY <3>4, <2>1 DEF Under
  <2>3. CASE ~ (y >= 2)
    BY <2>1, <2>3
  <2> QED BY <2>2, <2>3
<1>4. ASSUME NEW y \in {0, 1} \cup Under(Primes, x) PROVE y \in Under(Left(n), x)
  <2>1. 0 < x /\ 1 < x
    BY <1>1
  <2> QED BY <2>1, <1>2 DEF Under
<1>5. Under(Left(n), x) = {0, 1} \cup Under(Primes, x)
  BY <1>3, <1>4
<1> QED BY <1>1, <1>5, CountWithPrimes

-----------------------------------------------------------------------------
(* filter()                                                                *)

\* The numbers that filter() divides by are at the beginning of the array.
LEMMA FirstPlaces ==
  ASSUME NEW n \in Nat, NEW m \in Nat, n <= m, NEW f, Enumerates(f, m, Left(n))
  PROVE  /\ \A i \in 0 .. m - 1 : f[i] \in Left(n) /\ f[i] \in Nat
         /\ \A i, j \in 0 .. m - 1 : i < j => f[i] < f[j]
         /\ \A i \in 0 .. n - 1 : f[i] >= 2 => f[i] \in Primes /\ Rank(f[i]) + 2 = i
         /\ \A i \in 2 .. n - 1 : f[i] >= 2
<1>1. Left(n) \subseteq Nat
  BY AlwaysLeft
<1>2. /\ \A i \in 0 .. m - 1 : f[i] \in Left(n)
      /\ \A i, j \in 0 .. m - 1 : i < j => f[i] < f[j]
      /\ \A i \in 0 .. m - 1 : Cardinality(Under(Left(n), f[i])) = i
  BY <1>1, PlaceIsRank
<1>3. \A i \in 0 .. m - 1 : f[i] \in Nat
  BY <1>1, <1>2
<1>4. ASSUME NEW i \in 0 .. n - 1, f[i] >= 2 PROVE f[i] \in Primes /\ Rank(f[i]) + 2 = i
  <2>1. i \in 0 .. m - 1 /\ i < n
    OBVIOUS
  <2>2. f[i] \in Left(n) /\ Cardinality(Under(Left(n), f[i])) = i
    BY <2>1, <1>2
  <2>3. Cardinality(Under(Left(n), f[i])) < n
    BY <2>1, <2>2
  <2> QED BY <2>2, <2>3, <1>4, FirstArePrimes
<1>5. ASSUME NEW i \in 2 .. n - 1 PROVE f[i] >= 2
  <2>1. 0 \in 0 .. m - 1 /\ 1 \in 0 .. m - 1 /\ i \in 0 .. m - 1 /\ 0 < 1 /\ 1 < i
    OBVIOUS
  <2>2. f[0] < f[1] /\ f[1] < f[i]
    BY <2>1, <1>2
  <2>3. f[0] \in Nat /\ f[1] \in Nat /\ f[i] \in Nat
    BY <2>1, <1>3
  <2> QED BY <2>2, <2>3
<1> QED BY <1>2, <1>3, <1>4, <1>5

\* They are the first primes, one more than the last time.
LEMMA DivisorsAreEarlier ==
  ASSUME NEW n \in Nat, NEW m \in Nat, n <= m, NEW f, Enumerates(f, m, Left(n))
  PROVE  {f[j] : j \in 2 .. n - 1} = Earlier(n + 1)
<1>1. \A p : p \in Earlier(n + 1) <=> p \in Primes /\ Rank(p) < n - 2
  <2>1. (n + 1) - 3 = n - 2
    OBVIOUS
  <2> QED BY <2>1 DEF Earlier
<1>2. ASSUME NEW j \in 2 .. n - 1 PROVE f[j] \in Earlier(n + 1)
  <2>1. j \in 0 .. n - 1
    OBVIOUS
  <2>2. f[j] \in Primes /\ Rank(f[j]) + 2 = j
    BY <2>1, FirstPlaces
  <2>3. Rank(f[j]) \in Nat
    BY <2>2, PrimeType, RankOfPrimes
  <2>4. Rank(f[j]) < n - 2
    BY <2>2, <2>3
  <2> QED BY <1>1, <2>2, <2>4
<1>3. ASSUME NEW p \in Earlier(n + 1) PROVE \E j \in 2 .. n - 1 : f[j] = p
  <2>1. p \in Primes /\ Rank(p) < n - 2 /\ p \in Nat /\ p >= 2 /\ Rank(p) \in Nat
    <3>1. p \in Primes /\ Rank(p) < n - 2
      BY <1>1
    <3>2. p \in Nat \ {0, 1} /\ Rank(p) \in Nat
      BY <3>1, PrimeType, RankOfPrimes
    <3> QED BY <3>1, <3>2
  <2>2. PICK i \in 0 .. m - 1 : f[i] = p
    <3>1. p \in Left(n)
      BY <2>1, AlwaysLeft
    <3> QED BY <3>1 DEF Enumerates
  <2>3. ~ (i >= n)
    <3> SUFFICES ASSUME i >= n PROVE FALSE
      OBVIOUS
    <3>1. n - 1 \in 2 .. n - 1 /\ n - 1 \in 0 .. n - 1 /\ n - 1 \in 0 .. m - 1 /\ n - 1 < i
      BY <2>1
    <3>2. f[n - 1] \in Primes /\ Rank(f[n - 1]) + 2 = n - 1
      BY <3>1, FirstPlaces
    <3>3. f[n - 1] < p
      BY <3>1, <2>2, FirstPlaces
    <3>4. Rank(f[n - 1]) < Rank(p) /\ Rank(f[n - 1]) \in Nat
      BY <3>2, <3>3, <2>1, PrimeType, RankOfPrimes
    <3> QED BY <3>2, <3>4, <2>1
  <2>4. i \in 0 .. n - 1
    BY <2>3
  <2>5. Rank(p) + 2 = i
    BY <2>1, <2>2, <2>4, FirstPlaces
  <2>6. i \in 2 .. n - 1
    BY <2>1, <2>4, <2>5
  <2> QED BY <2>2, <2>6
<1> QED BY <1>2, <1>3

\* What is kept is what one prime more leaves.
LEMMA KeptIsLeft ==
  ASSUME index \in Nat, len \in Nat, index <= len, NEW f, Enumerates(f, len, Left(index))
  PROVE  {f[i] : i \in Kept(f)} = Left(index + 1)
<1> DEFINE E == Earlier(index + 1)
<1>1. {f[j] : j \in 2 .. index - 1} = E
  BY DivisorsAreEarlier
<1>2. /\ \A i \in 0 .. len - 1 : f[i] \in Left(index) /\ f[i] \in Nat
      /\ \A i, j \in 0 .. len - 1 : i < j => f[i] < f[j]
      /\ \A i \in 0 .. index - 1 : f[i] >= 2 => f[i] \in Primes
  BY FirstPlaces
<1>3. \A p \in E : p \in Primes /\ p \in Nat \ {0, 1}
  BY PrimeType DEF Earlier
<1>4. \A x : x \in Left(index + 1)
             <=> x \in 0 .. MaxSearch - 1 /\ \A p \in E : x <= p \/ x % p # 0
  BY DEF Left
<1>5. \A i : i \in Kept(f) <=> /\ i \in 0 .. len - 1
                               /\ i < index \/ \A p \in E : f[i] % p # 0
  <2>1. \A i : (\A j \in 2 .. index - 1 : f[i] % f[j] # 0) <=> (\A p \in E : f[i] % p # 0)
    <3> HIDE DEF E
    <3> QED BY <1>1
  <2> HIDE DEF E
  <2> QED BY <2>1 DEF Kept
<1> HIDE DEF E
<1>6. ASSUME NEW i \in Kept(f) PROVE f[i] \in Left(index + 1)
  <2>1. i \in 0 .. len - 1 /\ (i < index \/ \A p \in E : f[i] % p # 0)
    BY <1>5
  <2>2. f[i] \in 0 .. MaxSearch - 1 /\ f[i] \in Nat
    BY <2>1, <1>2, AlwaysLeft
  <2>3. ASSUME NEW p \in E PROVE f[i] <= p \/ f[i] % p # 0
    <3>1. CASE i < index
      <4>1. i \in 0 .. index - 1 /\ p \in Nat \ {0, 1}
        BY <2>1, <3>1, <1>3
      <4>2. CASE f[i] >= 2 /\ ~ (f[i] <= p)
        <5>1. f[i] \in Primes /\ p \in 2 .. f[i] - 1
          BY <4>1, <4>2, <1>2, <2>2
        <5> QED BY <5>1 DEF Primes
      <4>3. CASE ~ (f[i] >= 2)
        BY <4>1, <4>3, <2>2
      <4> QED BY <4>2, <4>3
    <3>2. CASE \A q \in E : f[i] % q # 0
      BY <3>2
    <3> QED BY <2>1, <3>1, <3>2
  <2> QED BY <2>2, <2>3, <1>4
<1>7. ASSUME NEW x \in Left(index + 1) PROVE \E i \in Kept(f) : f[i] = x
  <2>1. x \in 0 .. MaxSearch - 1 /\ \A p \in E : x <= p \/ x % p # 0
    BY <1>4
  <2>2. x \in Left(index)
    <3>1. ASSUME NEW p \in Earlier(index) PROVE p \in E
      <4>1. p \in Primes /\ Rank(p) < index - 3 /\ Rank(p) \in Nat
        BY PrimeType, RankOfPrimes DEF Earlier
      <4>2. Rank(p) < (index + 1) - 3
        BY <4>1
      <4> QED BY <4>1, <4>2 DEF E, Earlier
    <3> QED BY <2>1, <3>1 DEF Left
  <2>3. PICK i \in 0 .. len - 1 : f[i] = x
    BY <2>2 DEF Enumerates
  <2>4. i \in Kept(f)
    <3>1. CASE i < index
      BY <3>1, <1>5
    <3>2. CASE ~ (i < index)
      <4>1. ASSUME NEW p \in E PROVE f[i] % p # 0
        <5>1. PICK j \in 2 .. index - 1 : f[j] = p
          BY <1>1
        <5>2. j \in 0 .. len - 1 /\ j < i
          BY <3>2
        <5>3. f[j] < f[i] /\ f[i] \in Nat /\ p \in Nat
          BY <5>2, <1>2, <1>3
        <5>4. ~ (x <= p)
          BY <5>1, <5>3, <2>3
        <5> QED BY <5>4, <2>1, <2>3
      <4> QED BY <4>1, <1>5
    <3> QED BY <3>1, <3>2
  <2> QED BY <2>3, <2>4
<1> QED BY <1>6, <1>7

\* A set is as large as an enumeration of it is long.
LEMMA Counted ==
  ASSUME NEW n \in Nat, NEW S, S \subseteq Nat, NEW f, {f[i] : i \in 0 .. n - 1} = S,
         \A i \in 1 .. n - 1 : f[i - 1] < f[i]
  PROVE  Enumerates(f, n, S)
<1>1. \A i \in 0 .. n - 1 : f[i] \in S /\ f[i] \in Nat
  OBVIOUS
<1>2. \A i, j \in 0 .. n - 1 : i < j => f[i] < f[j]
  BY <1>1, Increasing
<1> DEFINE g == [i \in 0 .. n - 1 |-> f[i]]
<1>3. g \in [0 .. n - 1 -> S] /\ \A y \in S : \E i \in 0 .. n - 1 : g[i] = y
  BY <1>1
<1>4. \A i, j \in 0 .. n - 1 : g[i] = g[j] => i = j
  <2> SUFFICES ASSUME NEW i \in 0 .. n - 1, NEW j \in 0 .. n - 1, i # j PROVE f[i] # f[j]
    OBVIOUS
  <2>1. i < j \/ j < i
    OBVIOUS
  <2>2. f[i] < f[j] \/ f[j] < f[i]
    BY <2>1, <1>2
  <2> QED BY <2>2, <1>1
<1>5. g \in Bijection(0 .. n - 1, S)
  BY <1>3, <1>4 DEF Bijection, Injection, Surjection, IsInjective
<1>6. ExistsBijection(0 .. n - 1, S)
  BY <1>5 DEF ExistsBijection
<1>7. IsFiniteSet(0 .. n - 1) /\ Cardinality(0 .. n - 1) = n
  BY CountBelow
<1>8. Cardinality(S) = n
  BY <1>6, <1>7, FS_Bijection
<1> QED BY <1>8 DEF Enumerates

\* filter() leaves, in order, what one prime more leaves.
LEMMA FilterLeaves ==
  ASSUME index \in Nat, len \in Nat, index <= len, NEW f, Enumerates(f, len, Left(index))
  PROVE  /\ Cardinality(DOMAIN Filter(f)) \in Nat
         /\ Cardinality(DOMAIN Filter(f)) <= MaxSearch
         /\ Enumerates(Filter(f), Cardinality(DOMAIN Filter(f)), Left(index + 1))
<1> DEFINE K == Kept(f)
           c == Cardinality(K)
<1>1. IsFiniteSet(K) /\ K \subseteq 0 .. len - 1 /\ K \subseteq Nat
  <2>1. K \subseteq 0 .. len - 1
    BY DEF Kept
  <2>2. IsFiniteSet(0 .. len - 1) /\ 0 .. len - 1 \subseteq Nat
    BY CountBelow
  <2> QED BY <2>1, <2>2, FS_Subset
<1>2. /\ c \in Nat
      /\ \A n \in 0 .. c - 1 : Nth(K, n) \in K
      /\ \A n \in 1 .. c - 1 : Nth(K, n - 1) < Nth(K, n)
      /\ \A i \in K : \E n \in 0 .. c - 1 : Nth(K, n) = i
  <2> HIDE DEF K
  <2> QED BY <1>1, NthIsInOrder
<1>3. Filter(f) = [n \in 0 .. c - 1 |-> f[Nth(K, n)]]
  BY DEF Filter
<1>4. DOMAIN Filter(f) = 0 .. c - 1 /\ Cardinality(DOMAIN Filter(f)) = c
  <2>1. DOMAIN Filter(f) = 0 .. c - 1
    BY <1>3
  <2> HIDE DEF c
  <2> QED BY <2>1, <1>2, CountBelow
<1>5. \A i, j \in 0 .. len - 1 : i < j => f[i] < f[j]
  BY FirstPlaces
<1>6. {f[i] : i \in K} = Left(index + 1)
  BY KeptIsLeft
<1>7. {Filter(f)[n] : n \in 0 .. c - 1} = Left(index + 1)
  <2>1. \A n \in 0 .. c - 1 : Filter(f)[n] = f[Nth(K, n)]
    BY <1>3
  <2> HIDE DEF c, K
  <2> QED BY <2>1, <1>2, <1>6
<1>8. ASSUME NEW n \in 1 .. c - 1 PROVE Filter(f)[n - 1] < Filter(f)[n]
  <2>1. n \in 0 .. c - 1 /\ n - 1 \in 0 .. c - 1
    BY <1>2
  <2>2. Filter(f)[n] = f[Nth(K, n)] /\ Filter(f)[n - 1] = f[Nth(K, n - 1)]
    BY <2>1, <1>3
  <2>3. Nth(K, n) \in 0 .. len - 1 /\ Nth(K, n - 1) \in 0 .. len - 1
    BY <2>1, <1>1, <1>2
  <2>4. Nth(K, n - 1) < Nth(K, n)
    BY <1>2
  <2> HIDE DEF K, c
  <2> QED BY <2>2, <2>3, <2>4, <1>5
<1>9. Left(index + 1) \subseteq Nat /\ Left(index + 1) \subseteq 0 .. MaxSearch - 1
  BY AlwaysLeft
<1>10. Enumerates(Filter(f), c, Left(index + 1))
  <2> HIDE DEF c, K
  <2> QED BY <1>2, <1>7, <1>8, <1>9, Counted
<1>11. c <= MaxSearch
  <2>1. MaxSearch \in Nat
    BY SieveAssumption
  <2>2. IsFiniteSet(0 .. MaxSearch - 1) /\ Cardinality(0 .. MaxSearch - 1) = MaxSearch
    BY <2>1, CountBelow
  <2>3. c = Cardinality(Left(index + 1))
    BY <1>10 DEF Enumerates
  <2> HIDE DEF c
  <2> QED BY <2>2, <2>3, <1>9, FS_Subset
<1> HIDE DEF c
<1> QED BY <1>2, <1>4, <1>10, <1>11

-----------------------------------------------------------------------------
(* The arrays in their pages.                                              *)

\* A word of an array is in one of its pages.
LEMMA PlaceOfWord ==
  /\ ArrayPages \in Nat
  /\ \A i \in 0 .. MaxSearch - 1 :
       /\ i \div PageWords \in 0 .. ArrayPages - 1
       /\ i % PageWords \in 0 .. PageWords - 1
       /\ (i \div PageWords) * PageWords + (i % PageWords) = i
<1> DEFINE W == PageWords
           M == MaxSearch
<1>1. W \in Nat \ {0} /\ M \in Nat /\ M + W - 1 \in Nat
  BY SieveAssumption
<1> HIDE DEF W, M
<1>2. /\ (M + W - 1) \div W \in Nat /\ (M + W - 1) % W \in 0 .. W - 1
      /\ M + W - 1 = ((M + W - 1) \div W) * W + ((M + W - 1) % W)
  BY <1>1, DivMod
<1> DEFINE A == (M + W - 1) \div W
           Z == A * W
<1>3. A \in Nat /\ Z \in Nat
  <2>1. A \in Nat
    BY <1>2
  <2> HIDE DEF A
  <2> QED BY <2>1, <1>1, SMT
<1>4. M <= Z
  <2>1. M + W - 1 = Z + ((M + W - 1) % W)
    BY <1>2
  <2> HIDE DEF A, Z
  <2> QED BY <2>1, <1>1, <1>2, <1>3
<1>5. ASSUME NEW i \in 0 .. M - 1
      PROVE  i \div W \in 0 .. A - 1 /\ i % W \in 0 .. W - 1 /\ (i \div W) * W + (i % W) = i
  <2>1. i \in Nat /\ i < M
    BY <1>1
  <2>2. i \div W \in Nat /\ i % W \in 0 .. W - 1 /\ i = (i \div W) * W + (i % W)
    BY <1>1, <2>1, DivMod
  <2> DEFINE q == i \div W
             Y == q * W
  <2>3. q \in Nat /\ Y \in Nat
    <3>1. q \in Nat
      BY <2>2
    <3> HIDE DEF q
    <3> QED BY <3>1, <1>1, SMT
  <2>4. Y <= i
    <3>1. i = Y + (i % W)
      BY <2>2
    <3> HIDE DEF q, Y
    <3> QED BY <3>1, <2>2, <2>3, <1>1
  <2>5. q < A
    <3> SUFFICES ASSUME A <= q PROVE FALSE
      <4> HIDE DEF q, A
      <4> QED BY <2>3, <1>3
    <3>1. Z <= Y
      <4> HIDE DEF q, A
      <4> QED BY <2>3, <1>3, <1>1, MulMonotone
    <3> HIDE DEF q, A, Y, Z
    <3> QED BY <3>1, <2>1, <2>3, <2>4, <1>1, <1>3, <1>4
  <2>6. q \in 0 .. A - 1
    <3> HIDE DEF q, A
    <3> QED BY <2>3, <2>5, <1>3
  <2> QED BY <2>2, <2>6
<1>6. ArrayPages = A
  BY DEF ArrayPages, A, M, W
<1> QED BY <1>3, <1>5, <1>6 DEF M, W

\* What is stored in an array is read back, and nothing else changes.
LEMMA StoredIsLoaded ==
  ASSUME NEW ps, NEW base \in Nat, NEW f, NEW n \in Nat, PagesOf(base) \subseteq DOMAIN ps
  PROVE  \A i \in 0 .. MaxSearch - 1 :
           Load(Stored(ps, base, f, n), base)[i] = IF i < n THEN f[i] ELSE Load(ps, base)[i]
<1>1. \A p \in DOMAIN ps, w \in 0 .. PageWords - 1 :
        Stored(ps, base, f, n)[p][w]
          = IF p \in PagesOf(base) /\ (p - base) * PageWords + w < n
            THEN f[(p - base) * PageWords + w] ELSE ps[p][w]
  BY DEF Stored
<1>2. ASSUME NEW i \in 0 .. MaxSearch - 1
      PROVE  Load(Stored(ps, base, f, n), base)[i] = IF i < n THEN f[i] ELSE Load(ps, base)[i]
  <2> DEFINE q == i \div PageWords
             w == i % PageWords
             p == base + q
  <2>1. /\ ArrayPages \in Nat /\ q \in 0 .. ArrayPages - 1 /\ w \in 0 .. PageWords - 1
        /\ q * PageWords + w = i
    BY PlaceOfWord
  <2>2. p \in PagesOf(base) /\ p - base = q
    <3> HIDE DEF q, w
    <3> QED BY <2>1 DEF PagesOf
  <2>3. p \in DOMAIN ps /\ (p - base) * PageWords + w = i
    BY <2>1, <2>2
  <2>4. Stored(ps, base, f, n)[p][w] = IF i < n THEN f[i] ELSE ps[p][w]
    <3> HIDE DEF p, q, w
    <3> QED BY <1>1, <2>1, <2>2, <2>3
  <2>5. \A pp : Load(pp, base)[i] = pp[p][w]
    BY DEF Load
  <2> HIDE DEF p, q, w
  <2> QED BY <2>4, <2>5
<1> QED BY <1>2

\* An array is read from its own pages.
LEMMA LoadedFromPages ==
  ASSUME NEW ps, NEW qs, NEW base \in Nat, \A p \in PagesOf(base) :
           \A w \in 0 .. PageWords - 1 : ps[p][w] = qs[p][w]
  PROVE  \A i \in 0 .. MaxSearch - 1 : Load(ps, base)[i] = Load(qs, base)[i]
<1> SUFFICES ASSUME NEW i \in 0 .. MaxSearch - 1 PROVE Load(ps, base)[i] = Load(qs, base)[i]
  OBVIOUS
<1> DEFINE q == i \div PageWords
           w == i % PageWords
<1>1. ArrayPages \in Nat /\ q \in 0 .. ArrayPages - 1 /\ w \in 0 .. PageWords - 1
  BY PlaceOfWord
<1>2. base + q \in PagesOf(base)
  <2> HIDE DEF q, w
  <2> QED BY <1>1 DEF PagesOf
<1>3. \A pp : Load(pp, base)[i] = pp[base + q][w]
  BY DEF Load
<1> HIDE DEF q, w
<1> QED BY <1>1, <1>2, <1>3

\* Storing in one array does not change the other.
LEMMA OtherArray ==
  ASSUME NEW ps, NEW base \in Nat, NEW f, NEW n \in Nat, NEW other \in Nat,
         PagesOf(other) \subseteq DOMAIN ps, PagesOf(base) \cap PagesOf(other) = {}
  PROVE  \A i \in 0 .. MaxSearch - 1 :
           Load(Stored(ps, base, f, n), other)[i] = Load(ps, other)[i]
<1>1. \A p \in PagesOf(other) : \A w \in 0 .. PageWords - 1 :
        Stored(ps, base, f, n)[p][w] = ps[p][w]
  <2> SUFFICES ASSUME NEW p \in PagesOf(other), NEW w \in 0 .. PageWords - 1
               PROVE  Stored(ps, base, f, n)[p][w] = ps[p][w]
    OBVIOUS
  <2>1. p \in DOMAIN ps /\ p \notin PagesOf(base)
    OBVIOUS
  <2> QED BY <2>1 DEF Stored
<1> QED BY <1>1, LoadedFromPages

\* Pages that have been mapped again are zeros.
LEMMA MappedIsZero ==
  ASSUME NEW ps, NEW S, NEW base \in Nat, PagesOf(base) \subseteq S
  PROVE  \A i \in 0 .. MaxSearch - 1 : Load(Mapped(ps, S), base)[i] = 0
<1> SUFFICES ASSUME NEW i \in 0 .. MaxSearch - 1 PROVE Load(Mapped(ps, S), base)[i] = 0
  OBVIOUS
<1> DEFINE q == i \div PageWords
           w == i % PageWords
<1>1. ArrayPages \in Nat /\ q \in 0 .. ArrayPages - 1 /\ w \in 0 .. PageWords - 1
  BY PlaceOfWord
<1>2. Load(Mapped(ps, S), base)[i] = Mapped(ps, S)[base + q][w]
  BY DEF Load
<1> HIDE DEF q, w
<1>3. base + q \in S
  <2>1. base + q \in PagesOf(base)
    BY <1>1 DEF PagesOf
  <2> QED BY <2>1
<1>4. Mapped(ps, S)[base + q] = ZeroPage
  BY <1>3 DEF Mapped
<1> QED BY <1>1, <1>2, <1>4 DEF ZeroPage

\* The other pages are as they were.
LEMMA MappedElsewhere ==
  ASSUME NEW ps, NEW S, NEW base \in Nat, PagesOf(base) \subseteq DOMAIN ps,
         PagesOf(base) \cap S = {}
  PROVE  \A i \in 0 .. MaxSearch - 1 : Load(Mapped(ps, S), base)[i] = Load(ps, base)[i]
<1>1. \A p \in PagesOf(base) : Mapped(ps, S)[p] = ps[p]
  BY DEF Mapped
<1> QED BY <1>1, LoadedFromPages

\* The two arrays have pages of their own.
LEMMA PagesApart == PagesOf(0) \cap PagesOf(ArrayPages) = {}
<1>1. ArrayPages \in Nat
  BY PlaceOfWord
<1>2. \A p \in PagesOf(0) : p <= ArrayPages - 1 /\ p \in Int
  BY <1>1 DEF PagesOf
<1>3. \A p \in PagesOf(ArrayPages) : p >= ArrayPages
  BY <1>1 DEF PagesOf
<1>4. ASSUME NEW p \in PagesOf(0), p \in PagesOf(ArrayPages) PROVE FALSE
  BY <1>1, <1>2, <1>3, <1>4
<1> QED BY <1>4

\* Only the first n places matter.
LEMMA EnumeratesSame ==
  ASSUME NEW n \in Nat, NEW S, NEW f, NEW g, Enumerates(f, n, S),
         \A i \in 0 .. n - 1 : g[i] = f[i]
  PROVE  Enumerates(g, n, S)
<1>1. {g[i] : i \in 0 .. n - 1} = S
  BY DEF Enumerates
<1>2. \A i \in 1 .. n - 1 : i \in 0 .. n - 1 /\ i - 1 \in 0 .. n - 1
  OBVIOUS
<1>3. \A i \in 1 .. n - 1 : g[i - 1] < g[i]
  BY <1>2 DEF Enumerates
<1> QED BY <1>1, <1>3 DEF Enumerates

-----------------------------------------------------------------------------
(* The sieve.                                                              *)

\* The array at one base holds what the first n - 3 primes leave, then zeros;
\* the other array is all zeros.
Sieved(ps, base, other, n, m) ==
  /\ n \in Nat /\ m \in Nat /\ m <= MaxSearch
  /\ <<base, other>> \in {<<0, ArrayPages>>, <<ArrayPages, 0>>}
  /\ PagesOf(base) \cup PagesOf(other) \subseteq DOMAIN ps
  /\ Enumerates(Load(ps, base), m, Left(n))
  /\ \A i \in m .. MaxSearch - 1 : Load(ps, base)[i] = 0
  /\ \A i \in 0 .. MaxSearch - 1 : Load(ps, other)[i] = 0

SieveInv ==
  /\ pc \in {"loaded", "greeted", "allocate", "sieve", "exit"}
  /\ pc \in {"loaded", "greeted", "allocate"} => heap = 0 /\ index = 0 /\ len = MaxSearch
  /\ pc \in {"loaded", "greeted"} => said = <<>>
  /\ pc \in {"allocate", "sieve"} => said = <<<<"s">>>>
  /\ pc = "sieve" => Sieved(pages, flip, flop, index, len)
  /\ pc = "exit" => said = <<<<"s">>, <<"o", "k">>>>

\* number_array(), twice
LEMMA AllocateStep ==
  ASSUME SieveInv, Allocate
  PROVE  Sieved(pages', flip', flop', index', len')
<1>1. /\ pc = "allocate" /\ heap = 0 /\ index = 0 /\ len = MaxSearch
      /\ index' = 0 /\ len' = MaxSearch
  BY DEF SieveInv, Allocate
<1> DEFINE A == ArrayPages
           second == heap + A
           numbers == [i \in 0 .. MaxSearch - 1 |-> i]
           ps == Mapped(pages, PagesOf(heap) \cup PagesOf(second))
<1>2. A \in Nat /\ MaxSearch \in Nat
  BY PlaceOfWord, SieveAssumption
<1>3. second = A
  BY <1>1, <1>2
<1>4. ps = Mapped(pages, PagesOf(0) \cup PagesOf(A))
  BY <1>1, <1>3
<1>5. pages' = Stored(ps, 0, numbers, MaxSearch) /\ flip' = 0 /\ flop' = A
  BY <1>1, <1>3 DEF Allocate
<1> HIDE DEF A, second, ps
<1>6. /\ PagesOf(0) \cup PagesOf(A) \subseteq DOMAIN ps
      /\ \A i \in 0 .. MaxSearch - 1 : Load(ps, A)[i] = 0
  <2>1. DOMAIN ps = DOMAIN pages \cup (PagesOf(0) \cup PagesOf(A))
    BY <1>4 DEF Mapped
  <2>2. PagesOf(A) \subseteq PagesOf(0) \cup PagesOf(A)
    OBVIOUS
  <2>3. \A i \in 0 .. MaxSearch - 1 : Load(ps, A)[i] = 0
    BY <1>2, <1>4, <2>2, MappedIsZero
  <2> QED BY <2>1, <2>3
<1>7. 0 \in Nat /\ PagesOf(0) \subseteq DOMAIN ps /\ PagesOf(A) \subseteq DOMAIN ps
  BY <1>6
<1>8. /\ DOMAIN pages' = DOMAIN ps
      /\ \A i \in 0 .. MaxSearch - 1 :
           Load(pages', 0)[i] = IF i < MaxSearch THEN numbers[i] ELSE Load(ps, 0)[i]
  <2> HIDE DEF numbers
  <2>1. DOMAIN pages' = DOMAIN ps
    BY <1>5 DEF Stored
  <2>2. \A i \in 0 .. MaxSearch - 1 :
          Load(Stored(ps, 0, numbers, MaxSearch), 0)[i]
            = IF i < MaxSearch THEN numbers[i] ELSE Load(ps, 0)[i]
    BY <1>2, <1>7, StoredIsLoaded
  <2> QED BY <2>1, <2>2, <1>5
<1>9. \A i \in 0 .. MaxSearch - 1 : Load(pages', 0)[i] = i
  BY <1>2, <1>8
<1>10. \A i \in 0 .. MaxSearch - 1 : Load(pages', A)[i] = 0
  <2>1. PagesOf(0) \cap PagesOf(A) = {}
    BY PagesApart DEF A
  <2>2. \A i \in 0 .. MaxSearch - 1 : Load(pages', A)[i] = Load(ps, A)[i]
    <3> HIDE DEF numbers
    <3> QED BY <2>1, <1>2, <1>5, <1>7, OtherArray
  <2> QED BY <2>2, <1>6
<1>11. Left(0) = 0 .. MaxSearch - 1
  <2>1. \A p \in Primes : ~ (Rank(p) < 0 - 3)
    <3> SUFFICES ASSUME NEW p \in Primes PROVE ~ (Rank(p) < 0 - 3)
      OBVIOUS
    <3>1. Rank(p) \in Nat
      BY PrimeType, RankOfPrimes
    <3> QED BY <3>1
  <2>2. Earlier(0) = {}
    BY <2>1 DEF Earlier
  <2> QED BY <2>2 DEF Left
<1>12. Enumerates(Load(pages', 0), MaxSearch, Left(0))
  <2>1. \A i \in 1 .. MaxSearch - 1 : i \in 0 .. MaxSearch - 1 /\ i - 1 \in 0 .. MaxSearch - 1
    BY <1>2
  <2>2. ASSUME NEW i \in 1 .. MaxSearch - 1
        PROVE  Load(pages', 0)[i - 1] < Load(pages', 0)[i]
    <3>1. Load(pages', 0)[i - 1] = i - 1 /\ Load(pages', 0)[i] = i
      BY <2>1, <1>9
    <3> QED BY <3>1
  <2>3. {Load(pages', 0)[i] : i \in 0 .. MaxSearch - 1} = 0 .. MaxSearch - 1
    BY <1>9
  <2>4. Cardinality(0 .. MaxSearch - 1) = MaxSearch
    BY <1>2, CountBelow
  <2> QED BY <2>2, <2>3, <2>4, <1>11 DEF Enumerates
<1>13. \A i \in MaxSearch .. MaxSearch - 1 : Load(pages', 0)[i] = 0
  BY <1>2
<1>14. <<0, A>> \in {<<0, ArrayPages>>, <<ArrayPages, 0>>}
  BY DEF A
<1>15. 0 \in Nat /\ MaxSearch <= MaxSearch
  BY <1>2
<1> QED BY <1>1, <1>2, <1>5, <1>6, <1>8, <1>10, <1>12, <1>13, <1>14, <1>15 DEF Sieved

\* One turn of the loop
LEMMA SieveTurn ==
  ASSUME SieveInv, Sieve
  PROVE  Sieved(pages', flip', flop', index', len')
<1>1. Sieved(pages, flip, flop, index, len) /\ index < len
  BY DEF SieveInv, Sieve
<1> DEFINE from == Load(pages, flip)
           to == Filter(from)
           n == Cardinality(DOMAIN to)
           ps == Stored(pages, flop, to, n)
<1>2. /\ pages' = Mapped(ps, PagesOf(flip)) /\ len' = n /\ index' = index + 1
      /\ flip' = flop /\ flop' = flip
  BY DEF Sieve
<1>3. /\ index \in Nat /\ len \in Nat /\ index <= len /\ MaxSearch \in Nat
      /\ ArrayPages \in Nat /\ flip \in Nat /\ flop \in Nat
      /\ PagesOf(flip) \cap PagesOf(flop) = {}
      /\ PagesOf(flip) \subseteq DOMAIN pages /\ PagesOf(flop) \subseteq DOMAIN pages
      /\ <<flop, flip>> \in {<<0, ArrayPages>>, <<ArrayPages, 0>>}
  <2>1. ArrayPages \in Nat /\ MaxSearch \in Nat
    BY PlaceOfWord, SieveAssumption
  <2>2. index \in Nat /\ len \in Nat /\ index <= len
    BY <1>1 DEF Sieved
  <2>3. (flip = 0 /\ flop = ArrayPages) \/ (flip = ArrayPages /\ flop = 0)
    BY <1>1 DEF Sieved
  <2>4. PagesOf(flip) \cap PagesOf(flop) = {}
    BY <2>3, PagesApart
  <2> QED BY <2>1, <2>2, <2>3, <2>4, <1>1 DEF Sieved
<1>4. n \in Nat /\ n <= MaxSearch /\ Enumerates(to, n, Left(index + 1))
  <2>1. Enumerates(from, len, Left(index))
    BY <1>1 DEF Sieved
  <2> HIDE DEF from
  <2> QED BY <2>1, <1>3, FilterLeaves
<1> HIDE DEF from, to, n
<1>5. /\ DOMAIN ps = DOMAIN pages
      /\ \A i \in 0 .. MaxSearch - 1 :
           Load(ps, flop)[i] = IF i < n THEN to[i] ELSE Load(pages, flop)[i]
  <2>1. DOMAIN ps = DOMAIN pages
    BY DEF Stored
  <2>2. \A i \in 0 .. MaxSearch - 1 :
          Load(Stored(pages, flop, to, n), flop)[i]
            = IF i < n THEN to[i] ELSE Load(pages, flop)[i]
    <3>1. flop \in Nat /\ n \in Nat /\ PagesOf(flop) \subseteq DOMAIN pages
      BY <1>3, <1>4
    <3> QED BY <3>1, StoredIsLoaded
  <2> QED BY <2>1, <2>2
<1>6. \A i \in 0 .. MaxSearch - 1 : Load(pages, flop)[i] = 0
  BY <1>1 DEF Sieved
<1> HIDE DEF ps
<1>7. /\ DOMAIN pages' = DOMAIN ps \cup PagesOf(flip)
      /\ \A i \in 0 .. MaxSearch - 1 : Load(pages', flop)[i] = Load(ps, flop)[i]
      /\ \A i \in 0 .. MaxSearch - 1 : Load(pages', flip)[i] = 0
  <2>1. PagesOf(flop) \subseteq DOMAIN ps /\ PagesOf(flop) \cap PagesOf(flip) = {}
    BY <1>3, <1>5
  <2>2. DOMAIN pages' = DOMAIN ps \cup PagesOf(flip)
    BY <1>2 DEF Mapped
  <2>3. \A i \in 0 .. MaxSearch - 1 : Load(pages', flop)[i] = Load(ps, flop)[i]
    BY <2>1, <1>2, <1>3, MappedElsewhere
  <2>4. PagesOf(flip) \subseteq PagesOf(flip)
    OBVIOUS
  <2>5. \A i \in 0 .. MaxSearch - 1 : Load(pages', flip)[i] = 0
    BY <2>4, <1>2, <1>3, MappedIsZero
  <2> QED BY <2>2, <2>3, <2>5
<1>8. \A i \in 0 .. MaxSearch - 1 : Load(pages', flop)[i] = IF i < n THEN to[i] ELSE 0
  BY <1>5, <1>6, <1>7
<1>9. Enumerates(Load(pages', flop), n, Left(index + 1))
  <2>1. \A i \in 0 .. n - 1 : i \in 0 .. MaxSearch - 1 /\ i < n
    BY <1>3, <1>4
  <2>2. \A i \in 0 .. n - 1 : Load(pages', flop)[i] = to[i]
    BY <2>1, <1>8
  <2> QED BY <2>2, <1>4, EnumeratesSame
<1>10. \A i \in n .. MaxSearch - 1 : Load(pages', flop)[i] = 0
  <2>1. \A i \in n .. MaxSearch - 1 : i \in 0 .. MaxSearch - 1 /\ ~ (i < n)
    BY <1>3, <1>4
  <2> QED BY <2>1, <1>8
<1>11. PagesOf(flop) \cup PagesOf(flip) \subseteq DOMAIN pages'
  BY <1>3, <1>5, <1>7
<1>12. index + 1 \in Nat
  BY <1>3
<1> QED BY <1>2, <1>3, <1>4, <1>7, <1>9, <1>10, <1>11, <1>12 DEF Sieved

\* When the sieving number has passed the last place, only primes are left.
LEMMA AllArePrimes ==
  ASSUME NEW n \in Nat, NEW m \in Nat, m <= n, NEW f, Enumerates(f, m, Left(n))
  PROVE  m = Cardinality(Primes) + 2
<1>1. Left(n) \subseteq Nat /\ {0, 1} \cup Primes \subseteq Left(n)
  BY AlwaysLeft
<1>2. /\ \A i \in 0 .. m - 1 : f[i] \in Left(n)
      /\ \A i \in 0 .. m - 1 : Cardinality(Under(Left(n), f[i])) = i
  BY <1>1, PlaceIsRank
<1>3. ASSUME NEW x \in Left(n) PROVE x \in {0, 1} \cup Primes
  <2>1. PICK i \in 0 .. m - 1 : f[i] = x
    BY DEF Enumerates
  <2>2. Cardinality(Under(Left(n), x)) = i /\ i < n /\ x \in Nat
    BY <1>1, <1>2, <2>1
  <2>3. CASE x >= 2
    BY <2>2, <2>3, FirstAreNotComposite
  <2>4. CASE ~ (x >= 2)
    BY <2>2, <2>4
  <2> QED BY <2>3, <2>4
<1>4. Under(Primes, MaxSearch) = Primes /\ MaxSearch \in Nat
  <2>1. MaxSearch \in Nat /\ Primes \subseteq 2 .. MaxSearch - 1
    BY SieveAssumption, PrimeType
  <2>2. \A p \in 2 .. MaxSearch - 1 : p < MaxSearch
    BY <2>1
  <2> QED BY <2>1, <2>2 DEF Under
<1>5. Left(n) = {0, 1} \cup Under(Primes, MaxSearch)
  BY <1>1, <1>3, <1>4
<1>6. Rank(MaxSearch) = Cardinality(Primes)
  BY <1>4 DEF Rank, Under
<1> QED BY <1>4, <1>5, <1>6, CountWithPrimes DEF Enumerates

\* The count: every number that is left but 0 is counted, and nothing else.
LEMMA CountStep ==
  ASSUME SieveInv, Count
  PROVE  said' = <<<<"s">>, <<"o", "k">>>>
<1>1. /\ Sieved(pages, flip, flop, index, len) /\ ~ (index < len) /\ said = <<<<"s">>>>
      /\ index \in Nat /\ len \in Nat /\ len <= MaxSearch /\ MaxSearch \in Nat
  <2>1. pc = "sieve" /\ index >= len
    BY DEF Count
  <2>2. Sieved(pages, flip, flop, index, len) /\ said = <<<<"s">>>>
    BY <2>1 DEF SieveInv
  <2>3. index \in Nat /\ len \in Nat /\ len <= MaxSearch
    BY <2>2 DEF Sieved
  <2> QED BY <2>1, <2>2, <2>3, SieveAssumption
<1> DEFINE found == Load(pages, flip)
           counted == {i \in DOMAIN found : found[i] # 0}
<1>2. /\ Enumerates(found, len, Left(index))
      /\ \A i \in len .. MaxSearch - 1 : found[i] = 0
  BY <1>1 DEF Sieved
<1>3. DOMAIN found = 0 .. MaxSearch - 1
  BY DEF Load
<1>4. len = Cardinality(Primes) + 2
  <2> HIDE DEF found
  <2> QED BY <1>1, <1>2, AllArePrimes
<1>5. len - 1 \in Nat /\ Cardinality(Primes) \in Nat
  <2>1. Cardinality(Primes) \in Nat
    BY PrimeType, FS_CardinalityType
  <2> QED BY <2>1, <1>4
<1>6. counted = 1 .. len - 1
  <2>1. Left(index) \subseteq Nat /\ 0 \in Left(index)
    BY <1>1, AlwaysLeft
  <2>2. /\ \A i \in 0 .. len - 1 : found[i] \in Nat
        /\ \A i, j \in 0 .. len - 1 : i < j => found[i] < found[j]
    <3> HIDE DEF found
    <3>1. /\ \A i \in 0 .. len - 1 : found[i] \in Left(index)
          /\ \A i, j \in 0 .. len - 1 : i < j => found[i] < found[j]
      BY <1>1, <1>2, <2>1, PlaceIsRank
    <3> QED BY <2>1, <3>1
  <2>3. PICK z \in 0 .. len - 1 : found[z] = 0
    BY <1>2, <2>1 DEF Enumerates
  <2> HIDE DEF found
  <2>4. 0 \in 0 .. len - 1
    BY <1>5
  <2>5. z = 0
    <3> SUFFICES ASSUME z # 0 PROVE FALSE
      OBVIOUS
    <3>1. found[0] < 0 /\ found[0] \in Nat
      BY <2>2, <2>3, <2>4
    <3> QED BY <3>1
  <2>6. ASSUME NEW i \in 1 .. len - 1 PROVE i \in 0 .. MaxSearch - 1 /\ found[i] # 0
    <3>1. i \in 0 .. len - 1 /\ i \in 0 .. MaxSearch - 1 /\ 0 < i
      BY <1>1
    <3>2. found[0] < found[i]
      BY <2>2, <2>4, <3>1
    <3> QED BY <3>1, <3>2, <2>3, <2>5
  <2>7. ASSUME NEW i \in 0 .. MaxSearch - 1, found[i] # 0 PROVE i \in 1 .. len - 1
    <3>1. i # 0
      BY <2>3, <2>5, <2>7
    <3>2. i \notin len .. MaxSearch - 1
      BY <1>2, <2>7
    <3> QED BY <3>1, <3>2, <1>1
  <2> QED BY <1>3, <2>6, <2>7
<1>7. Cardinality(counted) = len - 1
  <2>1. 1 \in Int /\ len - 1 \in Int /\ (IF 1 > len - 1 THEN 0 ELSE (len - 1) - 1 + 1) = len - 1
    BY <1>5
  <2> HIDE DEF counted
  <2> QED BY <1>6, <2>1, FS_Interval
<1>8. Cardinality(counted) = 1 + Cardinality(Primes)
  BY <1>4, <1>5, <1>7
<1>9. said' = Append(said, IF Cardinality(counted) = 1 + Cardinality(Primes)
                           THEN <<"o", "k">> ELSE <<"n", "o">>)
  BY DEF Count, Say
<1>10. said' = Append(<<<<"s">>>>, <<"o", "k">>)
  <2> HIDE DEF counted
  <2> QED BY <1>1, <1>8, <1>9
<1>11. ASSUME NEW a, NEW b PROVE Append(<<a>>, b) = <<a, b>>
  <2> DEFINE T == {a, b}
  <2>1. a \in T /\ b \in T
    OBVIOUS
  <2> HIDE DEF T
  <2> DEFINE u == Append(<<a>>, b)
             v == <<a, b>>
  <2>2. u \in Seq(T) /\ Len(u) = 2 /\ u[1] = a /\ u[2] = b
    BY <2>1
  <2>3. v \in Seq(T) /\ Len(v) = 2 /\ v[1] = a /\ v[2] = b
    BY <2>1
  <2> HIDE DEF u, v
  <2>4. \A k \in 1 .. Len(u) : u[k] = v[k]
    BY <2>2, <2>3
  <2>5. u = v
    BY <2>2, <2>3, <2>4, SeqEqual
  <2> QED BY <2>5 DEF u, v
<1> DEFINE first == <<"s">>
           second == <<"o", "k">>
<1>12. said' = Append(<<first>>, second)
  BY <1>10
<1> HIDE DEF first, second
<1>13. said' = <<first, second>>
  BY <1>11, <1>12
<1> QED BY <1>13 DEF first, second

\* At the beginning the task has not run.
LEMMA SieveInitSieved == SieveInit => SieveInv
BY DEF SieveInit, SieveInv

\* Every step of the kernel, of printk() and of the task keeps SieveInv.
LEMMA SieveStepSieved == SieveInv /\ [SieveNext]_sievevars => SieveInv'
<1> SUFFICES ASSUME SieveInv, [SieveNext]_sievevars PROVE SieveInv'
  OBVIOUS
<1>1. CASE Greet
  BY <1>1 DEF SieveInv, Greet
<1>2. CASE Enter
  <2>1. pc = "greeted" /\ pc' = "allocate" /\ said = <<>> /\ said' = Append(said, <<"s">>)
    BY <1>2 DEF SieveInv, Enter, Say
  <2>2. said' = <<<<"s">>>>
    BY <2>1
  <2>3. heap' = 0 /\ index' = 0 /\ len' = MaxSearch
    BY <1>2, <2>1 DEF SieveInv, Enter
  <2> QED BY <2>1, <2>2, <2>3 DEF SieveInv
<1>3. CASE Allocate
  <2>1. Sieved(pages', flip', flop', index', len')
    BY <1>3, AllocateStep
  <2>2. pc' = "sieve" /\ said' = <<<<"s">>>>
    BY <1>3 DEF SieveInv, Allocate
  <2> QED BY <2>1, <2>2 DEF SieveInv
<1>4. CASE Sieve
  <2>1. Sieved(pages', flip', flop', index', len')
    BY <1>4, SieveTurn
  <2>2. pc' = "sieve" /\ said' = <<<<"s">>>>
    BY <1>4 DEF SieveInv, Sieve
  <2> QED BY <2>1, <2>2 DEF SieveInv
<1>5. CASE Count
  <2>1. pc' = "exit" /\ said' = <<<<"s">>, <<"o", "k">>>>
    BY <1>5, CountStep DEF Count
  <2> QED BY <2>1 DEF SieveInv
<1>6. CASE PrintTurn \/ UNCHANGED sievevars
  <2>1. UNCHANGED <<pc, pages, heap, flip, flop, index, len, said>>
    BY <1>6 DEF PrintTurn, taskvars, sievevars
  <2> QED BY <2>1 DEF SieveInv
<1> QED BY <1>1, <1>2, <1>3, <1>4, <1>5, <1>6 DEF SieveNext

\* After each turn of entry() (sieve.c:89) the array holds what the primes
\* sieved so far leave, for every MAX_SEARCH and size of a page.
THEOREM SieveLeavesPrimes == SieveSpec => []SievedSoFar
<1>1. SieveInv => SievedSoFar
  <2> SUFFICES ASSUME SieveInv, pc = "sieve" PROVE SievedSoFar
    BY DEF SievedSoFar
  <2>1. Sieved(pages, flip, flop, index, len)
    BY DEF SieveInv
  <2> QED BY <2>1 DEF Sieved, Enumerates, SievedSoFar
<1> QED BY <1>1, SieveInitSieved, SieveStepSieved, PTL DEF SieveSpec

\* A task that has ended has said that it found the primes (sieve.c:107), and
\* nothing else: the safety part of SieveSucceeds.
THEOREM SieveSaysOk == SieveSpec => [](pc = "exit" => said = <<<<"s">>, <<"o", "k">>>>)
<1>1. SieveInv => (pc = "exit" => said = <<<<"s">>, <<"o", "k">>>>)
  BY DEF SieveInv
<1> QED BY <1>1, SieveInitSieved, SieveStepSieved, PTL DEF SieveSpec
=============================================================================
