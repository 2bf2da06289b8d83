------------------------------- MODULE Terminal -------------------------------
(***************************************************************************)
(* What the users of the console rely on: a page of Lines rows, written    *)
(* from left to right and from top to bottom, that moves up by one row     *)
(* when the text goes past the last one.                                   *)
(***************************************************************************)
EXTENDS Integers

CONSTANTS Lines, Columns, Tab, Char, Blank

VARIABLES
  page,   \* page[r][c]: the character in row r, column c
  row, col

tvars == <<page, row, col>>

Row == [0 .. Columns - 1 -> Char \cup {Blank}]
BlankRow == [c \in 0 .. Columns - 1 |-> Blank]

\* The page p without its first row, and a blank one at the end.
MoveUp(p) == [r \in 0 .. Lines - 1 |-> IF r < Lines - 1 THEN p[r + 1] ELSE BlankRow]

TInit ==
  /\ page \in [0 .. Lines - 1 -> Row]
  /\ row = 0 /\ col = 0

\* A fresh page.
Erase ==
  /\ page' = [r \in 0 .. Lines - 1 |-> BlankRow]
  /\ row' = 0 /\ col' = 0

\* The page p, with the cursor k columns after the beginning of row r: on the
\* row itself, or on the one below it.
MoveTo(p, r, k) ==
  LET below == IF k >= Columns THEN 1 ELSE 0
      over  == r + below = Lines
  IN  /\ page' = IF over THEN MoveUp(p) ELSE p
      /\ row' = IF over THEN r ELSE r + below
      /\ col' = k - below * Columns

Show(c) == MoveTo([page EXCEPT ![row][col] = c], row, col + 1)
NewLine  == MoveTo(page, row, Columns)
Return   == MoveTo(page, row, 0)

\* A multiple of the tabulation, counted from the top of the page, among the
\* cells that follow the cursor, the next Tab + 1 of them.
Tabulate ==
  \E k \in 1 .. Tab + 1 :
    /\ (row * Columns + col + k) % Tab = 0
    /\ MoveTo(page, row, col + k)

TNext == Erase \/ NewLine \/ Return \/ Tabulate \/ \E c \in Char : Show(c)

TSpec == TInit /\ [][TNext]_tvars
=============================================================================
