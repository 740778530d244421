------------------------------ MODULE TaskLife ------------------------------
(***************************************************************************)
(* What the managed task flow promises about an agent's work, with         *)
(* branches, worktrees and records left out.  A patch that has been made   *)
(* is held somewhere until the remote has it; it may be lost only if its   *)
(* task has been given up; and a task is reported as successful only when  *)
(* none of its patches is held any more.                                     *)
(***************************************************************************)
EXTENDS FiniteSets

CONSTANTS Task,
          Patch   \* pairs <<task, number>>

VARIABLES held,       \* patches in some branch or worktree of this machine
          delivered,  \* patches on the remote's base branch
          lost,       \* patches that are nowhere any more
          asked,      \* tasks that have been given up
          said        \* tasks reported as successful
vars == <<held, delivered, lost, asked, said>>

Made == held \cup delivered \cup lost
Of(t) == {p \in Made : p[1] = t}

Init == held = {} /\ delivered = {} /\ lost = {} /\ asked = {} /\ said = {}

Make(p) ==
    /\ p \notin Made
    /\ held' = held \cup {p}
    /\ UNCHANGED <<delivered, lost, asked, said>>

Deliver ==
    /\ \E S \in SUBSET held : held' = held \ S /\ delivered' = delivered \cup S
    /\ UNCHANGED <<lost, asked, said>>

(* A task is given up, or work of one that has been is discarded.             *)
GiveUp ==
    /\ \E T \in SUBSET Task : asked' = asked \cup T
    /\ \E S \in SUBSET {p \in held : p[1] \in asked'} : held' = held \ S /\ lost' = lost \cup S
    /\ UNCHANGED <<delivered, said>>

Report(t) ==
    /\ Of(t) \cap held = {}
    /\ said' = said \cup {t}
    /\ UNCHANGED <<held, delivered, lost, asked>>

Next == Deliver \/ GiveUp \/ (\E p \in Patch : Make(p)) \/ (\E t \in Task : Report(t))

Spec == Init /\ [][Next]_vars
=============================================================================
