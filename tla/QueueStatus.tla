---------------------------- MODULE QueueStatus ----------------------------
(***************************************************************************)
(* How the queue decides what a queue row's status really is, and what one *)
(* pass of reconciliation does to the row.                                 *)
(*                                                                         *)
(* Three layers of the code, as operators without state:                   *)
(*   - Evidence: the facts collected about a row (queue_task_status and    *)
(*     collect_queue_status_evidence);                                     *)
(*   - Reduce: reduce_queue_status, the pure decision table;               *)
(*   - ReconcileItem: the body of the loop of                              *)
(*     reconcile_queue_task_statuses, which executes the allowed action.   *)
(*                                                                         *)
(* Every writer of the code writes from a snapshot `snap' of the row it    *)
(* loaded earlier onto the row `db' that is in SQLite now, so the          *)
(* operators take both.  Times are abstracted: a row's next_attempt_at is  *)
(* "armed" (in the future) or "none" (absent or reached).  Messages are    *)
(* the classes some code compares a message with.                          *)
(***************************************************************************)
EXTENDS Integers

CONSTANTS MaxRetries,      \* length of WEB_QUEUE_RETRY_DELAYS
          MaxIterations,   \* WEB_QUEUE_SEMANTIC_ITERATIONS_PER_ITEM
          NoAgent          \* agent_id is null

ASSUME BudgetAssumption ==
    /\ MaxRetries \in Nat
    /\ MaxIterations \in Nat \ {0}
    /\ NoAgent \notin Nat

ItemStatus == {"pending", "waiting", "starting", "running", "stopping",
               "stopped", "paused", "success", "failed", "blocked"}
Terminal == {"success", "failed", "blocked"}
FailedOrBlocked == {"failed", "blocked"}
StartingOrRunning == {"starting", "running"}
StoppedOrPaused == {"stopped", "paused"}
RelaunchableStatus == StartingOrRunning \cup {"waiting"}

(* "local": a tmux agent; "remote": a session on a remote host; "unreachable": *)
(* a remote-native row without a remote launcher.                              *)
Host == {"local", "remote", "unreachable"}

(* QUEUE_CONTINUE_PENDING, REMOTE_NATIVE_DISCONNECTED_OPEN,                    *)
(* LOCAL_OPEN_RECORD_STOPPED, a "sync failed" error, a launch-recoverable and  *)
(* an auto-recoverable failure; "plain" is any other text.                     *)
Message == {"plain", "continue", "disconnected", "openstopped", "syncfailed",
            "launch", "exited"}

(* "active" stands for any status the code compares with nothing.              *)
RecordStatus == {"none", "open", "active", "paused", "closed:success",
                 "closed:failed", "failed-closeout", "closed:blocked"}
AutoRecoverable == {"closed:failed", "failed-closeout"}
ClosedRecord == AutoRecoverable \cup {"closed:success", "closed:blocked"}

(* The row of web_queue_items; agents are numbered by the recovery attempt in  *)
(* their id (queue_agent_id).                                                  *)
Agent == 0..(MaxIterations - 1)
Row == [status: ItemStatus, message: Message, host: Host,
        agent: Agent \cup {NoAgent}, attempts: 0..MaxRetries,
        recoveries: 0..(MaxIterations - 1), timer: {"none", "armed"}]

(* The rows the code stores.  A row may still name the agent of an earlier     *)
(* iteration, written by a worker that did not see the recovery.               *)
ConsistentRow(r) ==
    /\ r.timer = "armed" => r.status = "waiting"
    /\ r.status = "pending" => r.agent = NoAgent
    /\ r.agent # NoAgent => r.agent <= r.recoveries
    /\ r.message = "continue" => r.status = "pending"
    /\ r.message = "disconnected" => r.status \in StoppedOrPaused /\ r.host # "local"
    /\ r.message = "openstopped" => r.status = "stopped" /\ r.host = "local"
    /\ r.message = "syncfailed" => r.status \in FailedOrBlocked /\ r.host # "local"
    /\ r.message \in {"launch", "exited"} => r.status \in FailedOrBlocked

(* What the outside looks like while the evidence of one row is collected: the *)
(* task record, whether the remote sync fails, whether the row's agent runs,   *)
(* whether it sits at a failed-closeout prompt, whether a worker holds the row. *)
World == [record: RecordStatus, syncFails: BOOLEAN, live: BOOLEAN,
          prompt: BOOLEAN, worker: BOOLEAN]

---------------------------------------------------------------------------
RemoteNative(row) == row.host # "local"
AgentRuns(row, w) == row.agent # NoAgent /\ w.live
LocalLive(row, w) == ~RemoteNative(row) /\ AgentRuns(row, w)
RemoteLive(row, w) == RemoteNative(row) /\ AgentRuns(row, w)

RecoveryLive(row, w) == row.recoveries > 0 /\ LocalLive(row, w) /\ ~w.prompt

(* Mutant: a scheduled iteration without an agent yet is not recovering.        *)
RecoveryWaitingIfLive(row, w) == row.recoveries > 0 /\ RecoveryLive(row, w)

RecoveryWaiting(row, w) ==
    /\ row.recoveries > 0
    /\ \/ RecoveryLive(row, w)
       \/ row.status \notin Terminal /\ row.agent = NoAgent

RecoveryActiveOrPending(row, w) ==
    row.recoveries > 0 /\ (row.status \notin Terminal \/ RecoveryLive(row, w))

(* The record the row sees: a remote failed closeout whose session still runs  *)
(* counts as no record at all.                                                 *)
LocalRecord(row, w) ==
    IF w.record = "failed-closeout" /\ RemoteLive(row, w) THEN "none" ELSE w.record

SyncRequired(row, w) ==
    /\ row.host = "remote"
    /\ row.status \in StartingOrRunning
    /\ LocalRecord(row, w) # "closed:success"

(* What is still believed when the required sync fails; "error" otherwise.     *)
FallbackRecord(row, w) ==
    IF w.record \in RecordStatus \ (ClosedRecord \cup {"none"}) THEN w.record
    ELSE IF w.record \in AutoRecoverable
            /\ \/ w.record = "failed-closeout" /\ RemoteLive(row, w)
               \/ RecoveryActiveOrPending(row, w)
         THEN "none" ELSE "error"

TaskStatus(row, w) ==
    IF w.syncFails /\ SyncRequired(row, w) THEN FallbackRecord(row, w)
                                           ELSE LocalRecord(row, w)

CollectEvidence(row, w) ==
    LET task == TaskStatus(row, w)
    IN  [record     |-> IF task = "error" THEN "none" ELSE task,
         syncError  |-> task = "error",
         status     |-> row.status,
         message    |-> row.message,
         remote     |-> RemoteNative(row),
         hasAgent   |-> row.agent # NoAgent,
         localLive  |-> LocalLive(row, w),
         remoteLive |-> RemoteLive(row, w)
                        /\ task \in AutoRecoverable \cup {"none", "error", "open"},
         prompt     |-> LocalLive(row, w) /\ w.prompt,
         launching  |-> row.status \in StartingOrRunning /\ row.agent = NoAgent /\ w.worker,
         recovering |-> RecoveryWaiting(row, w),
         recoveryLive |-> RecoveryLive(row, w)]

---------------------------------------------------------------------------
(* reduce_queue_status: the effective status, the one allowed action, and      *)
(* whether the evidence settles the row.                                       *)
Decide(status, action, handled) ==
    [effective |-> status, action |-> action, handled |-> handled]

ReduceMissing(e) ==
    IF e.hasAgent /\ ~e.localLive /\ ~e.remoteLive /\ e.status \in RelaunchableStatus
    THEN Decide("LaunchFailed", "BoundedRelaunch", FALSE)
    ELSE IF e.syncError THEN Decide("StaleUnknown", "RefreshEvidence", TRUE)
    ELSE Decide("WaitingForRecord", "None", e.remote /\ e.remoteLive)

RemoteShouldRelaunch(e) ==
    \/ e.status \in RelaunchableStatus
    \/ e.status \in StoppedOrPaused /\ e.message = "disconnected"
    \/ e.status \in FailedOrBlocked /\ e.message = "syncfailed"

Covered(e) ==
    \/ e.launching
    \/ e.recovering
    \/ e.status = "pending" /\ e.message = "continue"

LocalOpenRecoverable(e) ==
    /\ e.status \notin {"success", "paused"}
    /\ e.status = "stopped" => e.message = "openstopped"

ReduceRemoteOpen(e) ==
    IF e.remoteLive THEN Decide("Running", "MarkRunning", TRUE)
    ELSE IF RemoteShouldRelaunch(e) THEN Decide("DisconnectedOpenRecord", "RelaunchRemote", TRUE)
    ELSE Decide("DisconnectedOpenRecord", "None", FALSE)

(* Mutant: the table does not ask whether the session runs.                    *)
LocalOpenIgnoresSession(e) ==
    IF Covered(e) THEN Decide("Running", "None", TRUE)
                  ELSE Decide("ExecutionFailed", "RecoverExecution", TRUE)

ReduceLocalOpen(e) ==
    IF e.prompt THEN Decide("CloseoutFailedButSessionLive", "RecoverExecution", TRUE)
    ELSE IF e.localLive \/ Covered(e) THEN Decide("Running", "None", TRUE)
    ELSE IF LocalOpenRecoverable(e) THEN Decide("ExecutionFailed", "RecoverExecution", TRUE)
    ELSE Decide("DisconnectedOpenRecord", "None", FALSE)

ReduceOpen(e) == IF e.remote THEN ReduceRemoteOpen(e) ELSE ReduceLocalOpen(e)

ReduceFailure(e) ==
    IF e.remote /\ e.remoteLive
    THEN Decide("CloseoutFailedButSessionLive", "MarkRunning", TRUE)
    ELSE IF e.recoveryLive THEN Decide("Running", "MarkRunning", TRUE)
    ELSE IF e.recovering THEN Decide("Running", "None", TRUE)
    ELSE Decide("ExecutionFailed", "RecoverExecution", TRUE)

(* Mutant: every closed record is a success.                                   *)
ReduceAnyClosed(e) ==
    CASE e.record = "none"         -> ReduceMissing(e)
      [] e.record = "open"         -> ReduceOpen(e)
      [] e.record = "paused"       -> Decide("Paused", "MarkPaused", TRUE)
      [] e.record = "active"       -> Decide("Running", "None", TRUE)
      [] e.record \in ClosedRecord -> Decide("ClosedSuccess", "MarkSuccess", TRUE)

Reduce(e) ==
    CASE e.record = "none"            -> ReduceMissing(e)
      [] e.record = "closed:success"  -> Decide("ClosedSuccess", "MarkSuccess", TRUE)
      [] e.record = "paused"          -> Decide("Paused", "MarkPaused", TRUE)
      [] e.record = "open"            -> ReduceOpen(e)
      [] e.record \in AutoRecoverable -> ReduceFailure(e)
      [] e.record = "closed:blocked"  -> Decide("TerminalFailure", "MarkFailed", TRUE)
      [] e.record = "active"          -> Decide("Running", "None", TRUE)

---------------------------------------------------------------------------
(* The statements that write a row.  agent = NoAgent keeps the stored agent    *)
(* (coalesce), except in the two statements that null it.                      *)
WriteItem(db, status, message, agent, attempts, timer) ==
    [db EXCEPT !.status = status, !.message = message, !.attempts = attempts,
               !.timer = timer, !.agent = IF agent = NoAgent THEN db.agent ELSE agent]

Settle(db, snap, status, message) ==
    WriteItem(db, status, message, snap.agent, snap.attempts, "none")

(* Mutant: the statement forgets to null the agent.                            *)
ScheduleRecoveryKeepsAgent(db, recoveries) ==
    [db EXCEPT !.status = "pending", !.message = "plain", !.recoveries = recoveries,
               !.timer = "none"]

ScheduleRecoveryWrite(db, recoveries) ==
    [db EXCEPT !.status = "pending", !.message = "plain", !.agent = NoAgent,
               !.recoveries = recoveries, !.timer = "none"]

RelaunchWrite(db, status, attempts, timer) ==
    [db EXCEPT !.status = status, !.message = "plain", !.agent = NoAgent,
               !.attempts = attempts, !.timer = timer]

(* The result of one writer: the new row, whether it counts as a change, how   *)
(* the run ends ("no", "failed", "stopped"), whether the run row is written    *)
(* "running", and whether the executor is cleaned up.                          *)
Result(row, changed, end, runs, kills) ==
    [row |-> row, changed |-> changed, end |-> end, runs |-> runs, kills |-> kills]
Untouched(db) == Result(db, FALSE, "no", FALSE, FALSE)

(* Mutants: the stored row is not consulted; the running iteration is counted  *)
(* twice.                                                                      *)
IterationsInSnapshot(db, snap) == 1 + snap.recoveries
IterationsCountedTwice(db, snap) == 2 + snap.recoveries

(* web_queue_item_semantic_iterations_started: the ledger has one row for each *)
(* iteration the stored row has been in, so its size is the stored iteration.  *)
IterationsStarted(db, snap) ==
    1 + (IF db.recoveries > snap.recoveries THEN db.recoveries ELSE snap.recoveries)

CanRecover(db, snap) == IterationsStarted(db, snap) < MaxIterations

RecoverOrFail(db, snap, message) ==
    IF CanRecover(db, snap)
    THEN Result(ScheduleRecoveryWrite(db, IterationsStarted(db, snap)), TRUE, "no", TRUE, FALSE)
    ELSE Result(Settle(db, snap, "failed", message), TRUE, "failed", FALSE, FALSE)

BoundedRelaunch(db, snap, attempts) ==
    IF snap.host # "unreachable" /\ attempts < MaxRetries
    THEN Result(RelaunchWrite(db, "waiting", attempts + 1, "armed"), TRUE, "no", TRUE, FALSE)
    ELSE Result(WriteItem(db, "failed", "plain", snap.agent, attempts, "none"),
                TRUE, "failed", FALSE, FALSE)

(* The writes of execute_queue_status_reduction.                               *)
MarkSuccess(db, snap, w) ==
    IF snap.status # "success" \/ LocalLive(snap, w)
    THEN Result(Settle(db, snap, "success", "plain"), TRUE, "no", FALSE, snap.agent # NoAgent)
    ELSE Untouched(db)

MarkPaused(db, snap) ==
    IF snap.status # "paused"
    THEN Result(Settle(db, snap, "paused", "plain"), TRUE, "stopped", FALSE, FALSE)
    ELSE Result(db, FALSE, "stopped", FALSE, FALSE)

MarkRunning(db, snap) ==
    IF snap.status # "running" \/ snap.message # "plain"
    THEN Result(Settle(db, snap, "running", "plain"), TRUE, "no", TRUE, FALSE)
    ELSE Result(db, FALSE, "no", TRUE, FALSE)

MarkFailed(db, snap) ==
    IF snap.status = "success" THEN Untouched(db)
    ELSE Result(Settle(db, snap, "failed", "plain"), TRUE, "failed", FALSE, FALSE)

(* Rows without a visible task record.                                         *)
RefreshEvidence(db, snap) ==
    IF snap.status \in StartingOrRunning /\ db.status \notin Terminal
    THEN Result(Settle(db, snap, "running", "plain"), FALSE, "no", FALSE, FALSE)
    ELSE Untouched(db)

ExecuteReduction(db, snap, w, action) ==
    CASE action = "MarkSuccess"      -> MarkSuccess(db, snap, w)
      [] action = "MarkPaused"       -> MarkPaused(db, snap)
      [] action = "MarkRunning"      -> MarkRunning(db, snap)
      [] action = "RelaunchRemote"   ->
            Result(RelaunchWrite(db, "pending", snap.attempts, "none"), TRUE, "no", TRUE, FALSE)
      [] action = "RecoverExecution" -> RecoverOrFail(db, snap, "plain")
      [] action = "MarkFailed"       -> MarkFailed(db, snap)
      [] action = "BoundedRelaunch"  -> BoundedRelaunch(db, snap, snap.attempts)
      [] action = "RefreshEvidence"  -> RefreshEvidence(db, snap)
      [] action = "None"             -> Untouched(db)

(* reconcile_queue_item_fallback_status, for rows the reduction left open.     *)
AgentFailed(snap, w) ==
    /\ snap.status \in StartingOrRunning
    /\ ~RemoteNative(snap)
    /\ snap.agent # NoAgent
    /\ ~w.live \/ w.prompt

Fallback(db, snap, w) ==
    IF snap.status \in FailedOrBlocked /\ snap.message = "launch"
    THEN BoundedRelaunch(db, snap, snap.attempts)
    ELSE IF snap.status \in FailedOrBlocked /\ snap.message = "exited" /\ CanRecover(db, snap)
    THEN RecoverOrFail(db, snap, "exited")
    ELSE IF AgentFailed(snap, w) THEN RecoverOrFail(db, snap, "exited")
    ELSE IF snap.status = "success" /\ LocalLive(snap, w)
    THEN MarkSuccess(db, snap, w)
    ELSE Untouched(db)

(* One turn of the loop of reconcile_queue_task_statuses.                      *)
ReconcileItem(db, snap, w) ==
    LET e == CollectEvidence(snap, w)
        d == Reduce(e)
        settled == IF e.record = "none" THEN d.action \in {"BoundedRelaunch", "RefreshEvidence"}
                                        ELSE d.handled
    IN  IF settled THEN ExecuteReduction(db, snap, w, d.action)
        ELSE IF snap.status \in FailedOrBlocked /\ RemoteLive(snap, w)
        THEN Result(Settle(db, snap, "running", "plain"), TRUE, "no", FALSE, FALSE)
        ELSE IF d.handled THEN Untouched(db)
        ELSE Fallback(db, snap, w)
=============================================================================
