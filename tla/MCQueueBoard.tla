---------------------------- MODULE MCQueueBoard ----------------------------
(***************************************************************************)
(* Instance of QueueBoard for TLC: two tabs, two runs, and two slugs that  *)
(* are retries of one task.                                                *)
(***************************************************************************)
EXTENDS QueueBoard

CONSTANTS r1, r2, x, y

Packages == {<<r1, {x}>>, <<r2, {y}>>}
OneTask(t, u) == TRUE
=============================================================================
