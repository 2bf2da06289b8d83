------------------------------ MODULE MCRackdoll ------------------------------
(***************************************************************************)
(* RackdollPaging with three tasks, the number that the Makefile builds.   *)
(* The pool is the smallest in which the largest of them fit: every page   *)
(* mapped takes a page of the pool, and every task three tables.           *)
(***************************************************************************)
EXTENDS RackdollPaging

ASSUME PoolFitsAssumption == PoolFits
=============================================================================
