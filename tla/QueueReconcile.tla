--------------------------- MODULE QueueReconcile ---------------------------
(***************************************************************************)
(* Reconciliation of one queue row against changing evidence.              *)
(*                                                                         *)
(* The run worker's tick calls reconcile_queue_task_statuses over and over *)
(* while the row's task record, its executor and the remote sync change on *)
(* their own.  The initial states are all rows and all surroundings that   *)
(* can coexist (Consistent): the rows the workers, the operator and        *)
(* earlier versions of the daemon leave behind.  QueueExecution produces   *)
(* local rows step by step; this module covers all three kinds of host.    *)
(***************************************************************************)
EXTENDS QueueStatus

VARIABLES row,     \* the row in web_queue_items
          world,   \* what the next pass will see of record, sync and executor
          fresh    \* has anything changed since the last pass (history)
vars == <<row, world, fresh>>

(* Surroundings that can occur with a consistent row.                        *)
Consistent(r, w) ==
    /\ r.agent = NoAgent => ~w.live
    /\ r.host = "unreachable" => ~w.live
    /\ r.message \in {"launch", "exited"} => ~w.live \/ w.prompt
    /\ w.prompt => w.live
    /\ w.syncFails => r.host = "remote"

Init ==
    /\ row \in {r \in Row : ConsistentRow(r)}
    /\ world \in {w \in World : Consistent(row, w)}
    /\ fresh = TRUE

(* One turn of the run worker for this row; cleanup stops the executor.      *)
Pass == ReconcileItem(row, row, world)

Reconcile ==
    /\ row' = Pass.row
    /\ world' = IF Pass.kills THEN [world EXCEPT !.live = FALSE, !.prompt = FALSE]
                              ELSE world
    /\ fresh' = Pass.kills

(* The executor and its task flow: external to the queue.                    *)
NextRecord(s) ==
    CASE s = "none" -> {"open"}
      [] s \in {"open", "active", "paused"} -> {"open", "active", "paused"} \cup ClosedRecord
      [] s = "failed-closeout" -> ClosedRecord
      [] OTHER -> {}

RecordMoves ==
    /\ world.live
    /\ \E s \in NextRecord(world.record) : world' = [world EXCEPT !.record = s]
    /\ fresh' = TRUE
    /\ UNCHANGED row

ExecutorDies ==
    /\ world.live
    /\ world' = [world EXCEPT !.live = FALSE, !.prompt = FALSE]
    /\ fresh' = TRUE
    /\ UNCHANGED row

PromptShows ==
    /\ world.live /\ ~world.prompt /\ row.host = "local"
    /\ world' = [world EXCEPT !.prompt = TRUE]
    /\ fresh' = TRUE
    /\ UNCHANGED row

SyncFlips ==
    /\ row.host = "remote"
    /\ world' = [world EXCEPT !.syncFails = ~@]
    /\ fresh' = TRUE
    /\ UNCHANGED row

(* The retry delay passes.                                                   *)
TimerFires ==
    /\ row.timer = "armed"
    /\ row' = [row EXCEPT !.timer = "none"]
    /\ fresh' = TRUE
    /\ UNCHANGED world

Next == Reconcile \/ RecordMoves \/ ExecutorDies \/ PromptShows \/ SyncFlips \/ TimerFires

Spec == Init /\ [][Next]_vars

---------------------------------------------------------------------------
(* A pass leaves a row that the code's other readers expect: a retry time    *)
(* only on a waiting row, no agent on a pending one, an agent only of an     *)
(* iteration that was charged, a marker message only where it is looked for. *)
TypeOK ==
    /\ row \in Row /\ ConsistentRow(row)
    /\ world \in World
    /\ fresh \in BOOLEAN

Executing == AgentRuns(row, world) /\ ~world.prompt
FailedRecord == world.record \in AutoRecoverable \cup {"closed:blocked"}

(* Repeating a pass over unchanged evidence is free: it charges no budget,   *)
(* gives up no item and drops no executor, and a local row it leaves exactly *)
(* as it was (docs/queue-state-model.md, target invariant 4).  A remote row  *)
(* with an open record takes one more step, from waiting for its retry to    *)
(* pending.  During a sync outage even the budgets may change: the first     *)
(* pass, which must sync, sees a vanished launch, and the second, which need *)
(* not, the failed record behind it.                                         *)
RepeatIsFree ==
    [][~fresh /\ ~fresh' /\ ~world.syncFails
       => /\ row'.attempts = row.attempts /\ row'.recoveries = row.recoveries
          /\ row'.agent = row.agent
          /\ row'.status \in Terminal => row.status \in Terminal
          /\ row.host = "local" => row' = row]_vars

(* A failure is paid for once, and budgets decide about giving up: a pass    *)
(* takes at most one unit of one of the two budgets, a semantic iteration    *)
(* only if the record says the execution failed or no executor is working on *)
(* it; and it fails an item only for a reason that no budget covers: its     *)
(* record is blocked, or the budget its failure draws on is used up, or it   *)
(* has no launcher left.                                                     *)
OneFailureOneUnit ==
    [][/\ row'.recoveries - row.recoveries + row'.attempts - row.attempts \in {0, 1}
       /\ row'.recoveries # row.recoveries => FailedRecord \/ ~Executing
       /\ row'.status = "failed" /\ row.status # "failed"
            => \/ world.record = "closed:blocked"
               \/ row.host = "unreachable"
               \/ row.recoveries + 1 >= MaxIterations
               \/ row.attempts >= MaxRetries]_vars

(* "A sync failure is evidence freshness loss, not task failure. It becomes  *)
(* `StaleUnknown` ... instead of consuming a retry budget." (docs/queue-     *)
(* status-reducer-architecture.md:19-21): while the sync of the record       *)
(* fails, the launch budget is not touched.  The reducer checks for a        *)
(* vanished session before it checks for the sync error, and a relaunch      *)
(* draws on that budget.                                                     *)
SyncFailureKeepsLaunchBudget ==
    [][CollectEvidence(row, world).syncError => row'.attempts = row.attempts]_vars
=============================================================================
