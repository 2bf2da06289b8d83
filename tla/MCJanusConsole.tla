---------------------------- MODULE MCJanusConsole ----------------------------
(***************************************************************************)
(* JanusConsole on two lines of three cells.                               *)
(***************************************************************************)
EXTENDS JanusConsole
=============================================================================
