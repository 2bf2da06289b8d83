------------------------------ MODULE VgaConsole ------------------------------
(***************************************************************************)
(* The text console of the two kernels (kernel/vga.c of Rackdoll and       *)
(* guest/vga.c of Janus, the same file): a cursor, and the cells of the    *)
(* screen in video memory.  clear() and putc() run to completion before    *)
(* anything else writes to the screen.                                     *)
(***************************************************************************)
EXTENDS Integers

CONSTANTS
  Lines,     \* VGA_SCREEN_LINES
  Columns,   \* VGA_SCREEN_COLUMNS
  Tab,       \* cells between two tabulations, 8
  Char,      \* the characters that are not control characters
  Blank      \* a cell with VGA_COLOR_DEFAULT and no character

\* The page is at least as wide as the furthest jump of a tabulation.
ASSUME ConsoleAssumption ==
  /\ Lines \in Nat \ {0}
  /\ Tab \in Nat \ {0}
  /\ Columns \in Nat
  /\ Columns > Tab
  /\ Char \cap {"\n", "\r", "\t", Blank} = {}

Size == Lines * Columns
Cell == 0 .. Size - 1

VARIABLES
  screen,    \* the cells from VGA_SCREEN_ADDRESS on
  cursor     \* the cell of the next character

vars == <<screen, cursor>>

-----------------------------------------------------------------------------
\* Seeded fault: the cell is copied from the line itself.
FaultyScroll(s) == [i \in Cell |-> IF i < Size - Columns THEN s[i] ELSE Blank]

\* scroll(): every line takes the next one, the last one is blank.
Scroll(s) == [i \in Cell |-> IF i < Size - Columns THEN s[i + Columns] ELSE Blank]

\* The position after c at n, before the check for the end of the screen.
After(n, c) ==
  CASE c = "\n" -> ((n + Columns) \div Columns) * Columns
    [] c = "\r" -> (n \div Columns) * Columns
    [] c = "\t" -> ((n + 1) \div Tab) * Tab + Tab
    [] OTHER    -> n + 1

Written(n, c) == IF c \in Char THEN [screen EXCEPT ![n] = c] ELSE screen

-----------------------------------------------------------------------------
\* The screen is what the firmware left, and the cursor is 0.
Init ==
  /\ screen \in {[i \in Cell |-> x] : x \in Char \cup {Blank}}
  /\ cursor = 0

\* clear()
Clear ==
  /\ screen' = [i \in Cell |-> Blank]
  /\ cursor' = 0

\* Seeded fault: the last cell of the screen does not count as on it.
FaultyPutc(c) ==
  LET n == After(cursor, c)
  IN  IF n > Size
      THEN screen' = Scroll(Written(cursor, c)) /\ cursor' = n - Columns
      ELSE screen' = Written(cursor, c) /\ cursor' = n

\* putc()
Putc(c) ==
  LET n == After(cursor, c)
  IN  IF n >= Size
      THEN screen' = Scroll(Written(cursor, c)) /\ cursor' = n - Columns
      ELSE screen' = Written(cursor, c) /\ cursor' = n

Next == Clear \/ \E c \in Char \cup {"\n", "\r", "\t"} : Putc(c)

Spec == Init /\ [][Next]_vars

-----------------------------------------------------------------------------
\* Types; the cursor is a cell of the screen: putc() writes at it unchecked
\* (vga.c:77), and one line of scrolling is always enough to bring it back.
TypeOK ==
  /\ screen \in [Cell -> Char \cup {Blank}]
  /\ cursor \in Cell

\* The console is the terminal that its users see, for any text.
TM == INSTANCE Terminal WITH
        page <- [r \in 0 .. Lines - 1 |-> [c \in 0 .. Columns - 1 |-> screen[r * Columns + c]]],
        row  <- cursor \div Columns,
        col  <- cursor % Columns

Refinement == TM!TSpec
=============================================================================
