----------------------------- MODULE MCTaskFlow -----------------------------
(***************************************************************************)
(* Instance of TaskFlow for TLC: two tasks, which are alike until one of   *)
(* them acts.  None of the properties is about liveness, so that their     *)
(* symmetry may be used.                                                   *)
(***************************************************************************)
EXTENDS TaskFlow, TLC

CONSTANTS a, b

Slugs == Permutations(Task)
=============================================================================
