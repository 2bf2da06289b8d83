----------------------------- MODULE MCScheduler -----------------------------
(***************************************************************************)
(* Small instances of Scheduler.  Three slots are enough for a first, a    *)
(* middle and a last slot; the kernel has 32.                              *)
(***************************************************************************)
EXTENDS Scheduler

CONSTANTS t1, t2, t3, r1, r2

Ids3 == {t1, t2, t3}
=============================================================================
