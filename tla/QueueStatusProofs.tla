-------------------------- MODULE QueueStatusProofs --------------------------
(***************************************************************************)
(* What the decisions and the writes of QueueStatus guarantee, for every   *)
(* row, every snapshot a worker may hold of it and all surroundings.  The  *)
(* proofs about QueueExecution and QueueReconcile rest on these lemmas.    *)
(***************************************************************************)
EXTENDS QueueStatus, TLAPS

Action == {"None", "MarkSuccess", "MarkPaused", "MarkRunning", "RelaunchRemote",
           "RecoverExecution", "MarkFailed", "BoundedRelaunch", "RefreshEvidence"}

(* A snapshot a worker may hold of the row db: older than it, and never of an  *)
(* agent of an iteration that db has not been charged for.                     *)
SnapshotOf(db, snap) ==
    /\ snap \in Row
    /\ snap.host = db.host
    /\ snap.agent # NoAgent => snap.agent <= db.recoveries

(* What every writer makes of the row db.                                      *)
GoodRow(db, r) ==
    /\ r \in Row
    /\ ConsistentRow(r)
    /\ r.host = db.host
    /\ r.recoveries >= db.recoveries

GoodResult(db, r) ==
    /\ GoodRow(db, r.row)
    /\ r.changed \in BOOLEAN /\ r.runs \in BOOLEAN /\ r.kills \in BOOLEAN
    /\ r.end \in {"no", "failed", "stopped"}

LEMMA Decided ==
    ASSUME NEW status, NEW action, NEW handled
    PROVE  /\ Decide(status, action, handled).effective = status
           /\ Decide(status, action, handled).action = action
           /\ Decide(status, action, handled).handled = handled
BY DEF Decide

(* A decision that is allowed and does not call the row successful.            *)
Unsuccessful(d) ==
    /\ d.action \in Action \ {"MarkSuccess"}
    /\ d.handled \in BOOLEAN
    /\ d.effective # "ClosedSuccess"

LEMMA UnsuccessfulDecision ==
    ASSUME NEW status, status # "ClosedSuccess", NEW action \in Action \ {"MarkSuccess"},
           NEW handled \in BOOLEAN
    PROVE  Unsuccessful(Decide(status, action, handled))
BY Decided DEF Unsuccessful

LEMMA MissingSound ==
    ASSUME NEW e, e.remote \in BOOLEAN, e.remoteLive \in BOOLEAN
    PROVE  Unsuccessful(ReduceMissing(e))
<1>1. Unsuccessful(Decide("LaunchFailed", "BoundedRelaunch", FALSE))
  BY UnsuccessfulDecision DEF Action
<1>2. Unsuccessful(Decide("StaleUnknown", "RefreshEvidence", TRUE))
  BY UnsuccessfulDecision DEF Action
<1>3. Unsuccessful(Decide("WaitingForRecord", "None", e.remote /\ e.remoteLive))
  BY UnsuccessfulDecision DEF Action
<1> QED BY <1>1, <1>2, <1>3, Zenon DEF ReduceMissing

LEMMA OpenSound ==
    ASSUME NEW e
    PROVE  Unsuccessful(ReduceOpen(e))
<1>1. Unsuccessful(Decide("Running", "MarkRunning", TRUE))
  BY UnsuccessfulDecision DEF Action
<1>2. Unsuccessful(Decide("DisconnectedOpenRecord", "RelaunchRemote", TRUE))
  BY UnsuccessfulDecision DEF Action
<1>3. Unsuccessful(Decide("DisconnectedOpenRecord", "None", FALSE))
  BY UnsuccessfulDecision DEF Action
<1>4. Unsuccessful(Decide("CloseoutFailedButSessionLive", "RecoverExecution", TRUE))
  BY UnsuccessfulDecision DEF Action
<1>5. Unsuccessful(Decide("Running", "None", TRUE))
  BY UnsuccessfulDecision DEF Action
<1>6. Unsuccessful(Decide("ExecutionFailed", "RecoverExecution", TRUE))
  BY UnsuccessfulDecision DEF Action
<1> QED
  BY <1>1, <1>2, <1>3, <1>4, <1>5, <1>6, Zenon
     DEF ReduceOpen, ReduceRemoteOpen, ReduceLocalOpen

(* The decision table is total, and it calls a row successful for one reason   *)
(* only.                                                                       *)
LEMMA ReduceSound ==
    ASSUME NEW e, e.record \in RecordStatus, e.remote \in BOOLEAN, e.remoteLive \in BOOLEAN
    PROVE  /\ Reduce(e).action \in Action
           /\ Reduce(e).handled \in BOOLEAN
           /\ Reduce(e).action = "MarkSuccess" <=> e.record = "closed:success"
           /\ Reduce(e).effective = "ClosedSuccess" <=> e.record = "closed:success"
<1>1. CASE e.record = "none"
  <2>1. Reduce(e) = ReduceMissing(e) BY <1>1 DEF Reduce, AutoRecoverable
  <2> QED BY <1>1, <2>1, MissingSound DEF Unsuccessful
<1>2. CASE e.record = "open"
  <2>1. Reduce(e) = ReduceOpen(e) BY <1>2 DEF Reduce, AutoRecoverable
  <2> QED BY <1>2, <2>1, OpenSound DEF Unsuccessful
<1>3. CASE e.record \in AutoRecoverable
  BY <1>3 DEF Reduce, ReduceFailure, AutoRecoverable, Decide, Action
<1>4. CASE e.record \in {"closed:success", "paused", "closed:blocked", "active"}
  BY <1>4 DEF Reduce, AutoRecoverable, Decide, Action
<1> QED BY <1>1, <1>2, <1>3, <1>4 DEF RecordStatus, AutoRecoverable

(* The evidence about a row is complete.                                       *)
LEMMA EvidenceSound ==
    ASSUME NEW snap \in Row, NEW w \in World
    PROVE  LET e == CollectEvidence(snap, w)
           IN  /\ e.record \in RecordStatus
               /\ e.remote \in BOOLEAN /\ e.remoteLive \in BOOLEAN
               /\ e.record = "closed:success" => w.record = "closed:success"
<1>1. TaskStatus(snap, w) \in RecordStatus \cup {"error"}
  BY DEF TaskStatus, FallbackRecord, LocalRecord, Row, World, RecordStatus
<1>2. TaskStatus(snap, w) = "closed:success" => w.record = "closed:success"
  BY DEF TaskStatus, FallbackRecord, LocalRecord, Row, World, RecordStatus, ClosedRecord
<1> QED BY <1>1, <1>2 DEF CollectEvidence, RecordStatus, RemoteNative, RemoteLive

(* A statement that does not move the iteration and writes a status a worker   *)
(* ends or goes on with.                                                       *)
LEMMA WriteItemSound ==
    ASSUME NEW db \in Row, ConsistentRow(db),
           NEW status \in ItemStatus \ {"pending"}, NEW message \in {"plain", "exited"},
           NEW agent \in Agent \cup {NoAgent}, NEW attempts \in 0..MaxRetries,
           NEW timer \in {"none", "armed"},
           agent # NoAgent => agent <= db.recoveries,
           message = "exited" => status \in FailedOrBlocked,
           timer = "armed" => status = "waiting"
    PROVE  /\ GoodRow(db, WriteItem(db, status, message, agent, attempts, timer))
           /\ WriteItem(db, status, message, agent, attempts, timer).status = status
           /\ WriteItem(db, status, message, agent, attempts, timer).recoveries = db.recoveries
<1> DEFINE r == WriteItem(db, status, message, agent, attempts, timer)
<1>1. /\ r \in Row /\ r.status = status /\ r.message = message /\ r.host = db.host
      /\ r.timer = timer /\ r.recoveries = db.recoveries
      /\ r.agent = IF agent = NoAgent THEN db.agent ELSE agent
  BY DEF WriteItem, Row, Message
<1>2. db.recoveries \in Int BY DEF Row
<1> QED BY <1>1, <1>2 DEF GoodRow, ConsistentRow

LEMMA SettleSound ==
    ASSUME NEW db \in Row, ConsistentRow(db), NEW snap, SnapshotOf(db, snap),
           NEW status \in ItemStatus \ {"pending"}, NEW message \in {"plain", "exited"},
           message = "exited" => status \in FailedOrBlocked
    PROVE  /\ GoodRow(db, Settle(db, snap, status, message))
           /\ Settle(db, snap, status, message).status = status
           /\ Settle(db, snap, status, message).recoveries = db.recoveries
<1>1. /\ snap.agent \in Agent \cup {NoAgent} /\ snap.attempts \in 0..MaxRetries
      /\ snap.agent # NoAgent => snap.agent <= db.recoveries
  BY DEF SnapshotOf, Row
<1> QED BY <1>1, WriteItemSound DEF Settle

LEMMA KeptSound ==
    ASSUME NEW db \in Row, ConsistentRow(db), NEW changed \in BOOLEAN, NEW runs \in BOOLEAN,
           NEW end \in {"no", "failed", "stopped"}
    PROVE  /\ GoodResult(db, Result(db, changed, end, runs, FALSE))
           /\ Result(db, changed, end, runs, FALSE).row = db
<1>1. db.recoveries \in Int BY DEF Row
<1> QED BY <1>1 DEF GoodResult, GoodRow, Result

LEMMA UntouchedSound ==
    ASSUME NEW db \in Row, ConsistentRow(db)
    PROVE  GoodResult(db, Untouched(db)) /\ Untouched(db).row = db
<1>1. Untouched(db) = Result(db, FALSE, "no", FALSE, FALSE) BY DEF Untouched
<1> QED BY <1>1, KeptSound

(* A semantic recovery charges one iteration more than the stored row and the  *)
(* snapshot have seen, or fails the item.                                      *)
LEMMA RecoverSound ==
    ASSUME NEW db \in Row, ConsistentRow(db), NEW snap, SnapshotOf(db, snap),
           NEW message \in {"plain", "exited"}
    PROVE  /\ GoodResult(db, RecoverOrFail(db, snap, message))
           /\ RecoverOrFail(db, snap, message).row.status \in {"pending", "failed"}
<1> DEFINE n == IterationsStarted(db, snap)
           x == ScheduleRecoveryWrite(db, n)
<1>0. db.recoveries \in 0..(MaxIterations - 1) /\ snap.recoveries \in 0..(MaxIterations - 1)
  BY DEF Row, SnapshotOf
<1>1. n \in Int /\ n >= db.recoveries /\ n >= 0 BY <1>0, BudgetAssumption DEF IterationsStarted
<1>2. ASSUME CanRecover(db, snap)
      PROVE  GoodRow(db, x) /\ x.status = "pending"
  <2>1. n \in 0..(MaxIterations - 1) BY <1>1, <1>2, BudgetAssumption DEF CanRecover
  <2> HIDE DEF n
  <2>2. /\ x \in Row /\ x.status = "pending" /\ x.message = "plain" /\ x.host = db.host
        /\ x.timer = "none" /\ x.recoveries = n /\ x.agent = NoAgent
    BY <2>1 DEF ScheduleRecoveryWrite, Row, ItemStatus, Message
  <2> QED BY <1>1, <2>2 DEF GoodRow, ConsistentRow
<1>3. GoodRow(db, Settle(db, snap, "failed", message))
      /\ Settle(db, snap, "failed", message).status = "failed"
  BY SettleSound DEF ItemStatus, FailedOrBlocked
<1> QED BY <1>2, <1>3 DEF RecoverOrFail, GoodResult, Result

LEMMA RelaunchSound ==
    ASSUME NEW db \in Row, ConsistentRow(db), NEW snap, SnapshotOf(db, snap),
           NEW attempts \in 0..MaxRetries
    PROVE  /\ GoodResult(db, BoundedRelaunch(db, snap, attempts))
           /\ BoundedRelaunch(db, snap, attempts).row.status \in {"waiting", "failed"}
<1> DEFINE x == RelaunchWrite(db, "waiting", attempts + 1, "armed")
           y == WriteItem(db, "failed", "plain", snap.agent, attempts, "none")
<1>1. ASSUME attempts < MaxRetries
      PROVE  GoodRow(db, x) /\ x.status = "waiting"
  <2>1. attempts + 1 \in 0..MaxRetries BY <1>1, BudgetAssumption
  <2>2. /\ x \in Row /\ x.status = "waiting" /\ x.message = "plain" /\ x.host = db.host
        /\ x.timer = "armed" /\ x.recoveries = db.recoveries /\ x.agent = NoAgent
    BY <2>1 DEF RelaunchWrite, Row, ItemStatus, Message
  <2>3. db.recoveries \in Int BY DEF Row
  <2> QED BY <2>2, <2>3 DEF GoodRow, ConsistentRow
<1>2. GoodRow(db, y) /\ y.status = "failed"
  <2>1. /\ snap.agent \in Agent \cup {NoAgent}
        /\ snap.agent # NoAgent => snap.agent <= db.recoveries
    BY DEF SnapshotOf, Row
  <2> QED BY <2>1, WriteItemSound DEF ItemStatus
<1> QED BY <1>1, <1>2 DEF BoundedRelaunch, GoodResult, Result

LEMMA RelaunchRemoteSound ==
    ASSUME NEW db \in Row, ConsistentRow(db), NEW snap \in Row
    PROVE  LET r == RelaunchWrite(db, "pending", snap.attempts, "none")
           IN  GoodRow(db, r) /\ r.status = "pending"
<1> DEFINE r == RelaunchWrite(db, "pending", snap.attempts, "none")
<1>1. /\ r \in Row /\ r.status = "pending" /\ r.message = "plain" /\ r.host = db.host
      /\ r.timer = "none" /\ r.recoveries = db.recoveries /\ r.agent = NoAgent
  BY DEF RelaunchWrite, Row, ItemStatus, Message
<1>2. db.recoveries \in Int BY DEF Row
<1> QED BY <1>1, <1>2 DEF GoodRow, ConsistentRow

---------------------------------------------------------------------------
(* Executing an allowed action: the row it leaves is one the other readers of  *)
(* the code expect, and only "MarkSuccess" makes a row successful.             *)
SuccessJustified(db, snap, w, r) ==
    r.row.status = "success"
    => db.status = "success" \/ snap.status = "success" \/ w.record = "closed:success"

LEMMA MarksSound ==
    ASSUME NEW db \in Row, ConsistentRow(db), NEW snap, SnapshotOf(db, snap), NEW w \in World
    PROVE  /\ GoodResult(db, MarkSuccess(db, snap, w))
           /\ GoodResult(db, MarkPaused(db, snap))
           /\ MarkPaused(db, snap).row.status = "success" => db.status = "success"
           /\ GoodResult(db, MarkRunning(db, snap))
           /\ MarkRunning(db, snap).row.status = "success" => db.status = "success"
           /\ GoodResult(db, MarkFailed(db, snap))
           /\ MarkFailed(db, snap).row.status = "success" => db.status = "success"
           /\ GoodResult(db, RefreshEvidence(db, snap))
           /\ RefreshEvidence(db, snap).row.status = "success" => db.status = "success"
<1> DEFINE put(s) == Settle(db, snap, s, "plain")
<1>1. \A s \in ItemStatus \ {"pending"} : GoodRow(db, put(s)) /\ put(s).status = s
  BY SettleSound
<1>2. /\ GoodResult(db, Untouched(db)) /\ Untouched(db).row = db
      /\ GoodResult(db, Result(db, FALSE, "stopped", FALSE, FALSE))
      /\ Result(db, FALSE, "stopped", FALSE, FALSE).row = db
      /\ GoodResult(db, Result(db, FALSE, "no", TRUE, FALSE))
      /\ Result(db, FALSE, "no", TRUE, FALSE).row = db
  BY KeptSound, UntouchedSound
<1>3. \A s \in ItemStatus \ {"pending"} :
        \A changed, runs, kills \in BOOLEAN, end \in {"no", "failed", "stopped"} :
          /\ GoodResult(db, Result(put(s), changed, end, runs, kills))
          /\ Result(put(s), changed, end, runs, kills).row.status = s
  BY <1>1 DEF Result, GoodResult
<1>5. {"success", "paused", "running", "failed"} \subseteq ItemStatus \ {"pending"}
  BY DEF ItemStatus
<1> HIDE DEF put
<1>6. (snap.agent # NoAgent) \in BOOLEAN OBVIOUS
<1>7. GoodResult(db, MarkSuccess(db, snap, w))
  BY <1>2, <1>3, <1>5, <1>6 DEF MarkSuccess, put
<1>8. GoodResult(db, MarkPaused(db, snap))
      /\ (MarkPaused(db, snap).row.status = "success" => db.status = "success")
  BY <1>2, <1>3, <1>5 DEF MarkPaused, put
<1>9. GoodResult(db, MarkRunning(db, snap))
      /\ (MarkRunning(db, snap).row.status = "success" => db.status = "success")
  BY <1>2, <1>3, <1>5 DEF MarkRunning, put
<1>10. GoodResult(db, MarkFailed(db, snap))
      /\ (MarkFailed(db, snap).row.status = "success" => db.status = "success")
  BY <1>2, <1>3, <1>5 DEF MarkFailed, put
<1>11. GoodResult(db, RefreshEvidence(db, snap))
      /\ (RefreshEvidence(db, snap).row.status = "success" => db.status = "success")
  BY <1>2, <1>3, <1>5 DEF RefreshEvidence, put
<1> QED BY <1>7, <1>8, <1>9, <1>10, <1>11

LEMMA ExecuteSound ==
    ASSUME NEW db \in Row, ConsistentRow(db), NEW snap, SnapshotOf(db, snap), NEW w \in World,
           NEW action \in Action
    PROVE  LET r == ExecuteReduction(db, snap, w, action)
           IN  /\ GoodResult(db, r)
               /\ r.row.status = "success" => db.status = "success" \/ action = "MarkSuccess"
<1> DEFINE r == ExecuteReduction(db, snap, w, action)
<1>1. CASE action = "RelaunchRemote"
  <2> DEFINE x == RelaunchWrite(db, "pending", snap.attempts, "none")
  <2>1. r = Result(x, TRUE, "no", TRUE, FALSE) BY <1>1 DEF ExecuteReduction
  <2>2. snap \in Row BY DEF SnapshotOf
  <2>3. GoodRow(db, x) /\ x.status = "pending" BY <2>2, RelaunchRemoteSound
  <2> HIDE DEF x, r
  <2>4. r.row = x /\ r.changed /\ r.runs /\ r.kills = FALSE /\ r.end = "no" BY <2>1 DEF Result
  <2> QED BY <2>3, <2>4 DEF GoodResult, r
<1>2. CASE action = "RecoverExecution"
  <2>1. r = RecoverOrFail(db, snap, "plain") BY <1>2 DEF ExecuteReduction
  <2>2. GoodResult(db, r) /\ r.row.status \in {"pending", "failed"} BY <2>1, RecoverSound
  <2> QED BY <2>2
<1>3. CASE action = "BoundedRelaunch"
  <2>1. r = BoundedRelaunch(db, snap, snap.attempts) BY <1>3 DEF ExecuteReduction
  <2>2. snap.attempts \in 0..MaxRetries BY DEF SnapshotOf, Row
  <2>3. GoodResult(db, r) /\ r.row.status \in {"waiting", "failed"}
    BY <2>1, <2>2, RelaunchSound
  <2> QED BY <2>3
<1>4. CASE action = "None"
  <2>1. r = Untouched(db) BY <1>4 DEF ExecuteReduction
  <2>2. GoodResult(db, r) /\ r.row = db BY <2>1, UntouchedSound
  <2> QED BY <2>2
<1>5. CASE action \in {"MarkSuccess", "MarkPaused", "MarkRunning", "MarkFailed",
                       "RefreshEvidence"}
  <2>1. \/ action = "MarkSuccess" /\ r = MarkSuccess(db, snap, w)
        \/ r = MarkPaused(db, snap) \/ r = MarkRunning(db, snap)
        \/ r = MarkFailed(db, snap) \/ r = RefreshEvidence(db, snap)
    BY <1>5 DEF ExecuteReduction
  <2> HIDE DEF r
  <2> QED BY <2>1, MarksSound DEF r
<1> QED BY <1>1, <1>2, <1>3, <1>4, <1>5 DEF Action

LEMMA FallbackSound ==
    ASSUME NEW db \in Row, ConsistentRow(db), NEW snap, SnapshotOf(db, snap), NEW w \in World
    PROVE  /\ GoodResult(db, Fallback(db, snap, w))
           /\ Fallback(db, snap, w).row.status = "success"
              => db.status = "success" \/ snap.status = "success"
<1> DEFINE r == Fallback(db, snap, w)
<1>1. snap.attempts \in 0..MaxRetries BY DEF SnapshotOf, Row
<1>2. \/ r = BoundedRelaunch(db, snap, snap.attempts)
      \/ r = RecoverOrFail(db, snap, "exited")
      \/ r = MarkSuccess(db, snap, w) /\ snap.status = "success"
      \/ r = Untouched(db)
  BY DEF Fallback
<1>3. /\ GoodResult(db, BoundedRelaunch(db, snap, snap.attempts))
      /\ BoundedRelaunch(db, snap, snap.attempts).row.status # "success"
  BY <1>1, RelaunchSound
<1>4. /\ GoodResult(db, RecoverOrFail(db, snap, "exited"))
      /\ RecoverOrFail(db, snap, "exited").row.status # "success"
  BY RecoverSound
<1>5. GoodResult(db, MarkSuccess(db, snap, w)) BY MarksSound
<1>6. GoodResult(db, Untouched(db)) /\ Untouched(db).row = db
  BY UntouchedSound
<1> QED BY <1>2, <1>3, <1>4, <1>5, <1>6

(* One turn of reconcile_queue_task_statuses.                                  *)
LEMMA ReconcileSound ==
    ASSUME NEW db \in Row, ConsistentRow(db), NEW snap, SnapshotOf(db, snap), NEW w \in World
    PROVE  /\ GoodResult(db, ReconcileItem(db, snap, w))
           /\ SuccessJustified(db, snap, w, ReconcileItem(db, snap, w))
<1> DEFINE e == CollectEvidence(snap, w)
           d == Reduce(e)
           r == ReconcileItem(db, snap, w)
           y == Settle(db, snap, "running", "plain")
<1>0. snap \in Row BY DEF SnapshotOf
<1>1. d.action \in Action /\ (d.action = "MarkSuccess" => w.record = "closed:success")
  BY <1>0, EvidenceSound, ReduceSound
<1>2. \/ r = ExecuteReduction(db, snap, w, d.action)
      \/ r = Result(y, TRUE, "no", FALSE, FALSE)
      \/ r = Untouched(db)
      \/ r = Fallback(db, snap, w)
  BY DEF ReconcileItem
<1>3. GoodRow(db, y) /\ y.status = "running" BY SettleSound DEF ItemStatus
<1> HIDE DEF d, e, y
<1>4. /\ GoodResult(db, Result(y, TRUE, "no", FALSE, FALSE))
      /\ Result(y, TRUE, "no", FALSE, FALSE).row = y
  BY <1>3 DEF GoodResult, Result
<1>5. GoodResult(db, Untouched(db)) /\ Untouched(db).row = db
  BY UntouchedSound
<1>6. /\ GoodResult(db, ExecuteReduction(db, snap, w, d.action))
      /\ ExecuteReduction(db, snap, w, d.action).row.status = "success"
         => db.status = "success" \/ d.action = "MarkSuccess"
  BY <1>1, ExecuteSound
<1>7. /\ GoodResult(db, Fallback(db, snap, w))
      /\ Fallback(db, snap, w).row.status = "success"
         => db.status = "success" \/ snap.status = "success"
  BY FallbackSound
<1> HIDE DEF r
<1>8. /\ GoodResult(db, r)
      /\ r.row.status = "success"
         => db.status = "success" \/ snap.status = "success" \/ w.record = "closed:success"
  BY <1>1, <1>2, <1>3, <1>4, <1>5, <1>6, <1>7
<1> QED BY <1>8 DEF SuccessJustified, r
=============================================================================
