----------------------------- MODULE MCVgaConsole -----------------------------
(***************************************************************************)
(* VgaConsole on three lines of three cells: a line that is first, last    *)
(* or neither, every content of the page with two characters, and a        *)
(* tabulation that does not divide the line.                               *)
(***************************************************************************)
EXTENDS VgaConsole
=============================================================================
