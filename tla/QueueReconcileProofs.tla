------------------------- MODULE QueueReconcileProofs -------------------------
(***************************************************************************)
(* Proofs about QueueReconcile, for every pair of budgets.                 *)
(***************************************************************************)
EXTENDS QueueReconcile, QueueStatusProofs

(* A row that says that its agent has exited names no agent at work.           *)
ExitedIsOver == row.message = "exited" => ~Executing

Inv == TypeOK /\ ExitedIsOver

---------------------------------------------------------------------------
LEMMA OwnSnapshot ==
    ASSUME NEW r \in Row, ConsistentRow(r)
    PROVE  SnapshotOf(r, r) /\ r.recoveries \in Int /\ r.attempts \in Int
BY DEF SnapshotOf, ConsistentRow, Row

(* The evidence in terms of the row and its surroundings, as long as the sync  *)
(* of the record works.                                                        *)
LEMMA Evidence ==
    ASSUME NEW r \in Row, NEW w \in World, ~w.syncFails
    PROVE  LET e == CollectEvidence(r, w)
           IN  /\ e.record = LocalRecord(r, w) /\ ~e.syncError
               /\ e.status = r.status /\ e.message = r.message
               /\ e.remote <=> r.host # "local"
               /\ e.hasAgent <=> r.agent # NoAgent
               /\ e.localLive <=> LocalLive(r, w)
               /\ e.remoteLive
                    <=> /\ RemoteLive(r, w)
                        /\ LocalRecord(r, w) \in AutoRecoverable \cup {"none", "error", "open"}
               /\ e.prompt <=> LocalLive(r, w) /\ w.prompt
               /\ e.launching <=> r.status \in StartingOrRunning /\ r.agent = NoAgent /\ w.worker
               /\ e.recovering <=> RecoveryWaiting(r, w)
               /\ e.recoveryLive <=> RecoveryLive(r, w)
<1>1. TaskStatus(r, w) = LocalRecord(r, w) BY DEF TaskStatus
<1>2. LocalRecord(r, w) # "error" BY DEF LocalRecord, World, RecordStatus
<1> QED BY <1>1, <1>2 DEF CollectEvidence, RemoteNative

---------------------------------------------------------------------------
(* What a pass costs.  Each of its writes is one of four kinds.                *)
Free(r, x) == x.recoveries = r.recoveries /\ x.attempts = r.attempts
GivesUpRow(r, x) == x.status = "failed" /\ r.status # "failed"

Iterates(r, x) == x.recoveries = r.recoveries + 1 /\ x.attempts = r.attempts
                  /\ x.status = "pending"
Retries(r, x) == x.recoveries = r.recoveries /\ x.attempts = r.attempts + 1
                 /\ x.status = "waiting"

(* A pass may only take an iteration when it sees a failure.                   *)
SeesFailure(r, w) == w.record \in AutoRecoverable \/ ~(AgentRuns(r, w) /\ ~w.prompt)

Paid(r, w, x) ==
    \/ Free(r, x) /\ ~GivesUpRow(r, x)
    \/ Free(r, x) /\ \/ w.record = "closed:blocked" \/ r.host = "unreachable"
                     \/ r.recoveries + 1 >= MaxIterations \/ r.attempts >= MaxRetries
    \/ Iterates(r, x) /\ SeesFailure(r, w)
    \/ Retries(r, x)

LEMMA SettlePaid ==
    ASSUME NEW r \in Row, NEW status, NEW message
    PROVE  /\ Free(r, Settle(r, r, status, message))
           /\ Settle(r, r, status, message).status = status
           /\ Settle(r, r, status, message).message = message
           /\ Settle(r, r, status, message).agent = r.agent
           /\ Settle(r, r, status, message).timer = "none"
           /\ Settle(r, r, status, message).host = r.host
BY DEF Settle, WriteItem, Free, Row

LEMMA RecoverPaid ==
    ASSUME NEW r \in Row, NEW w, NEW message, SeesFailure(r, w)
    PROVE  Paid(r, w, RecoverOrFail(r, r, message).row)
<1>1. /\ IterationsStarted(r, r) = r.recoveries + 1 /\ r.recoveries \in Int
  BY DEF IterationsStarted, Row
<1>2. CASE CanRecover(r, r)
  <2> DEFINE x == ScheduleRecoveryWrite(r, r.recoveries + 1)
  <2>1. RecoverOrFail(r, r, message).row = x BY <1>1, <1>2 DEF RecoverOrFail, Result
  <2>2. Iterates(r, x) BY DEF ScheduleRecoveryWrite, Iterates, Row
  <2> QED BY <2>1, <2>2 DEF Paid
<1>3. CASE ~CanRecover(r, r)
  <2>1. r.recoveries + 1 >= MaxIterations BY <1>1, <1>3, BudgetAssumption DEF CanRecover
  <2>2. RecoverOrFail(r, r, message).row = Settle(r, r, "failed", message)
    BY <1>3 DEF RecoverOrFail, Result
  <2> QED BY <2>1, <2>2, SettlePaid DEF Paid
<1> QED BY <1>2, <1>3

LEMMA RelaunchPaid ==
    ASSUME NEW r \in Row, NEW w
    PROVE  Paid(r, w, BoundedRelaunch(r, r, r.attempts).row)
<1>1. r.attempts \in Int /\ r.recoveries \in Int BY DEF Row
<1>2. CASE r.host # "unreachable" /\ r.attempts < MaxRetries
  <2> DEFINE x == RelaunchWrite(r, "waiting", r.attempts + 1, "armed")
  <2>1. BoundedRelaunch(r, r, r.attempts).row = x BY <1>2 DEF BoundedRelaunch, Result
  <2>2. Retries(r, x) BY DEF RelaunchWrite, Retries, Row
  <2> QED BY <2>1, <2>2 DEF Paid
<1>3. CASE ~(r.host # "unreachable" /\ r.attempts < MaxRetries)
  <2>1. BoundedRelaunch(r, r, r.attempts).row = Settle(r, r, "failed", "plain")
    BY <1>3 DEF BoundedRelaunch, Result, Settle
  <2> QED BY <1>1, <1>3, <2>1, SettlePaid, BudgetAssumption DEF Paid
<1> QED BY <1>2, <1>3

(* The reasons behind the two actions of the table that fail or charge a row.  *)
LEMMA ReasonsSound ==
    ASSUME NEW r \in Row, NEW w \in World
    PROVE  LET e == CollectEvidence(r, w)
               action == Reduce(e).action
           IN  /\ action = "RecoverExecution" => SeesFailure(r, w)
               /\ action = "MarkFailed" => w.record = "closed:blocked"
<1> DEFINE e == CollectEvidence(r, w)
           task == TaskStatus(r, w)
<1>1. /\ task \in RecordStatus \cup {"error"}
      /\ task \in AutoRecoverable \cup {"closed:blocked"} => w.record = task
  BY DEF TaskStatus, FallbackRecord, LocalRecord, RecordStatus, ClosedRecord, AutoRecoverable, World
<1> HIDE DEF task
<1>2. /\ e.record = (IF task = "error" THEN "none" ELSE task)
      /\ e.remote <=> r.host # "local"
      /\ e.localLive <=> LocalLive(r, w)
      /\ e.prompt <=> LocalLive(r, w) /\ w.prompt
  BY DEF CollectEvidence, RemoteNative, task
<1> HIDE DEF e
<1>3. e.record \in RecordStatus BY <1>1, <1>2 DEF RecordStatus
<1>4. CASE e.record = "none"
  <2>1. Reduce(e) = ReduceMissing(e) BY <1>4 DEF Reduce, AutoRecoverable
  <2>2. Reduce(e).action \notin {"RecoverExecution", "MarkFailed"}
    BY <2>1 DEF ReduceMissing, Decide
  <2> QED BY <2>2 DEF e
<1>5. CASE e.record = "open"
  <2>1. Reduce(e) = ReduceOpen(e) BY <1>5 DEF Reduce, AutoRecoverable
  <2>2. Reduce(e).action # "MarkFailed"
    BY <2>1 DEF ReduceOpen, ReduceRemoteOpen, ReduceLocalOpen, Decide
  <2>3. Reduce(e).action = "RecoverExecution" => ~e.remote /\ (e.prompt \/ ~e.localLive)
    BY <2>1 DEF ReduceOpen, ReduceRemoteOpen, ReduceLocalOpen, Decide
  <2>4. ~e.remote /\ (e.prompt \/ ~e.localLive) => SeesFailure(r, w)
    BY <1>2 DEF SeesFailure, LocalLive, RemoteNative
  <2> QED BY <2>2, <2>3, <2>4 DEF e
<1>6. CASE e.record \in AutoRecoverable
  <2>1. w.record \in AutoRecoverable BY <1>1, <1>2, <1>6 DEF AutoRecoverable
  <2>2. Reduce(e) = ReduceFailure(e) BY <1>6 DEF Reduce, AutoRecoverable
  <2>3. Reduce(e).action # "MarkFailed" BY <2>2 DEF ReduceFailure, Decide
  <2> QED BY <2>1, <2>3 DEF e, SeesFailure
<1>7. CASE e.record = "closed:blocked"
  <2>1. w.record = "closed:blocked" BY <1>1, <1>2, <1>7
  <2>2. Reduce(e).action = "MarkFailed" BY <1>7 DEF Reduce, Decide, AutoRecoverable
  <2> QED BY <2>1, <2>2 DEF e
<1>8. CASE e.record \in {"closed:success", "paused", "active"}
  <2>1. Reduce(e).action \notin {"RecoverExecution", "MarkFailed"}
    BY <1>8 DEF Reduce, Decide, AutoRecoverable
  <2> QED BY <2>1 DEF e
<1> QED BY <1>3, <1>4, <1>5, <1>6, <1>7, <1>8 DEF RecordStatus, AutoRecoverable

LEMMA KeptPaid ==
    ASSUME NEW r \in Row, NEW w
    PROVE  Paid(r, w, r)
BY DEF Paid, Free, GivesUpRow

LEMMA ExecutePaid ==
    ASSUME NEW r \in Row, NEW w \in World, NEW action \in Action,
           action = "RecoverExecution" => SeesFailure(r, w),
           action = "MarkFailed" => w.record = "closed:blocked"
    PROVE  Paid(r, w, ExecuteReduction(r, r, w, action).row)
<1> DEFINE x == ExecuteReduction(r, r, w, action).row
<1>1. CASE action = "RecoverExecution"
  <2>1. x = RecoverOrFail(r, r, "plain").row BY <1>1 DEF ExecuteReduction
  <2> QED BY <1>1, <2>1, RecoverPaid
<1>2. CASE action = "BoundedRelaunch"
  <2>1. x = BoundedRelaunch(r, r, r.attempts).row BY <1>2 DEF ExecuteReduction
  <2> QED BY <2>1, RelaunchPaid
<1>3. CASE action = "RelaunchRemote"
  <2> DEFINE y == RelaunchWrite(r, "pending", r.attempts, "none")
  <2>1. x = y BY <1>3 DEF ExecuteReduction, Result
  <2>2. Free(r, y) /\ y.status = "pending" BY DEF RelaunchWrite, Free, Row
  <2> QED BY <2>1, <2>2 DEF Paid, GivesUpRow
<1>4. CASE action = "MarkFailed"
  <2>1. x = r \/ x = Settle(r, r, "failed", "plain")
    BY <1>4 DEF ExecuteReduction, MarkFailed, Untouched, Result
  <2>2. Paid(r, w, Settle(r, r, "failed", "plain")) BY <1>4, SettlePaid DEF Paid
  <2> QED BY <2>1, <2>2, KeptPaid
<1>5. CASE action \in {"None", "MarkSuccess", "MarkPaused", "MarkRunning", "RefreshEvidence"}
  <2>1. x = r \/ \E s \in {"success", "paused", "running"} : x = Settle(r, r, s, "plain")
    BY <1>5 DEF ExecuteReduction, MarkSuccess, MarkPaused, MarkRunning, RefreshEvidence,
                Untouched, Result
  <2>2. \A s \in {"success", "paused", "running"} : Paid(r, w, Settle(r, r, s, "plain"))
    BY SettlePaid DEF Paid, GivesUpRow
  <2> QED BY <2>1, <2>2, KeptPaid
<1> QED BY <1>1, <1>2, <1>3, <1>4, <1>5 DEF Action

(* The only writer of the message that an agent has exited.                    *)
LEMMA FallbackPaid ==
    ASSUME NEW r \in Row, NEW w \in World,
           r.message = "exited" => ~(AgentRuns(r, w) /\ ~w.prompt)
    PROVE  LET x == Fallback(r, r, w).row
           IN  /\ Paid(r, w, x)
               /\ x.message = "exited"
                    => x.agent = r.agent /\ ~(AgentRuns(r, w) /\ ~w.prompt)
<1> DEFINE x == Fallback(r, r, w).row
<1>1. CASE x = BoundedRelaunch(r, r, r.attempts).row
  <2>1. x.message = "plain"
    BY <1>1 DEF BoundedRelaunch, RelaunchWrite, WriteItem, Result, Row
  <2> QED BY <1>1, <2>1, RelaunchPaid
<1>2. CASE /\ x = RecoverOrFail(r, r, "exited").row
           /\ r.message = "exited" \/ AgentFailed(r, w)
  <2>1. ~(AgentRuns(r, w) /\ ~w.prompt) BY <1>2 DEF AgentFailed, AgentRuns
  <2>2. Paid(r, w, x) BY <1>2, <2>1, RecoverPaid DEF SeesFailure
  <2>3. x.message = "exited" => x = Settle(r, r, "failed", "exited")
    BY <1>2 DEF RecoverOrFail, ScheduleRecoveryWrite, Result, Row
  <2> QED BY <2>1, <2>2, <2>3, SettlePaid
<1>3. CASE x = r \/ x = Settle(r, r, "success", "plain")
  BY <1>3, KeptPaid, SettlePaid DEF Paid, GivesUpRow
<1>4. \/ x = BoundedRelaunch(r, r, r.attempts).row
      \/ x = RecoverOrFail(r, r, "exited").row /\ (r.message = "exited" \/ AgentFailed(r, w))
      \/ x = r \/ x = Settle(r, r, "success", "plain")
  BY DEF Fallback, MarkSuccess, Untouched, Result
<1> HIDE DEF x
<1> QED BY <1>1, <1>2, <1>3, <1>4 DEF x

LEMMA ExecutePlain ==
    ASSUME NEW r \in Row, NEW w \in World, NEW action \in Action
    PROVE  LET x == ExecuteReduction(r, r, w, action).row
           IN  x = r \/ x.message = "plain"
<1> DEFINE x == ExecuteReduction(r, r, w, action).row
<1>1. CASE action = "RecoverExecution"
  BY <1>1 DEF ExecuteReduction, RecoverOrFail, ScheduleRecoveryWrite, Settle, WriteItem, Result, Row
<1>2. CASE action = "BoundedRelaunch"
  BY <1>2 DEF ExecuteReduction, BoundedRelaunch, RelaunchWrite, WriteItem, Result, Row
<1>3. CASE action = "RelaunchRemote"
  BY <1>3 DEF ExecuteReduction, RelaunchWrite, Result, Row
<1>4. CASE action \in {"None", "MarkSuccess", "MarkPaused", "MarkRunning", "RefreshEvidence",
                       "MarkFailed"}
  <2>1. x = r \/ \E s \in {"success", "paused", "running", "failed"} : x = Settle(r, r, s, "plain")
    BY <1>4 DEF ExecuteReduction, MarkSuccess, MarkPaused, MarkRunning, RefreshEvidence,
                MarkFailed, Untouched, Result
  <2> QED BY <2>1, SettlePaid
<1> QED BY <1>1, <1>2, <1>3, <1>4 DEF Action

LEMMA PassPaid ==
    ASSUME NEW r \in Row, NEW w \in World,
           r.message = "exited" => ~(AgentRuns(r, w) /\ ~w.prompt)
    PROVE  LET x == ReconcileItem(r, r, w).row
           IN  /\ Paid(r, w, x)
               /\ x.message = "exited"
                    => x.agent = r.agent /\ ~(AgentRuns(r, w) /\ ~w.prompt)
<1> DEFINE e == CollectEvidence(r, w)
           d == Reduce(e)
           x == ReconcileItem(r, r, w).row
           y == Settle(r, r, "running", "plain")
<1>1. /\ d.action \in Action
      /\ d.action = "RecoverExecution" => SeesFailure(r, w)
      /\ d.action = "MarkFailed" => w.record = "closed:blocked"
  BY EvidenceSound, ReduceSound, ReasonsSound
<1>2. \/ x = ExecuteReduction(r, r, w, d.action).row
      \/ x = Result(y, TRUE, "no", FALSE, FALSE).row
      \/ x = Untouched(r).row
      \/ x = Fallback(r, r, w).row
  BY DEF ReconcileItem
<1> HIDE DEF d, e, x
<1>3. CASE x = ExecuteReduction(r, r, w, d.action).row
  <2>1. Paid(r, w, x) BY <1>1, <1>3, ExecutePaid
  <2>2. x = r \/ x.message = "plain" BY <1>1, <1>3, ExecutePlain
  <2> QED BY <2>1, <2>2 DEF x
<1>4. CASE x = Result(y, TRUE, "no", FALSE, FALSE).row
  <2>1. x = y BY <1>4 DEF Result
  <2>2. Paid(r, w, y) /\ y.message = "plain" BY SettlePaid DEF Paid, GivesUpRow
  <2> QED BY <2>1, <2>2 DEF x
<1>5. CASE x = Untouched(r).row
  <2>1. x = r BY <1>5 DEF Untouched, Result
  <2> QED BY <2>1, KeptPaid DEF x
<1>6. CASE x = Fallback(r, r, w).row
  BY <1>6, FallbackPaid DEF x
<1> QED BY <1>2, <1>3, <1>4, <1>5, <1>6

---------------------------------------------------------------------------
LEMMA InitInv == Init => Inv
<1> SUFFICES ASSUME Init PROVE Inv
  OBVIOUS
<1>1. row \in Row /\ ConsistentRow(row) /\ world \in World /\ Consistent(row, world)
      /\ fresh = TRUE
  BY DEF Init
<1> QED BY <1>1 DEF Inv, TypeOK, ExitedIsOver, Executing, AgentRuns, Consistent

LEMMA ReconcileInv ==
    ASSUME Inv, Reconcile
    PROVE  /\ Inv'
           /\ Paid(row, world, row')
<1>1. /\ row \in Row /\ ConsistentRow(row) /\ world \in World
      /\ row.message = "exited" => ~(AgentRuns(row, world) /\ ~world.prompt)
  BY DEF Inv, TypeOK, ExitedIsOver, Executing
<1>2. /\ row' = Pass.row /\ fresh' = Pass.kills
      /\ world' = IF Pass.kills THEN [world EXCEPT !.live = FALSE, !.prompt = FALSE] ELSE world
  BY DEF Reconcile
<1>3. GoodResult(row, Pass) BY <1>1, OwnSnapshot, ReconcileSound DEF Pass
<1>4. /\ Paid(row, world, row')
      /\ row'.message = "exited"
           => row'.agent = row.agent /\ ~(AgentRuns(row, world) /\ ~world.prompt)
  BY <1>1, <1>2, PassPaid DEF Pass
<1> HIDE DEF Pass
<1>5. world' \in World /\ (world' = world \/ ~world'.live) BY <1>1, <1>2 DEF World
<1>6. TypeOK' BY <1>2, <1>3, <1>5 DEF GoodResult, GoodRow, TypeOK
<1>7. ExitedIsOver' BY <1>4, <1>5 DEF ExitedIsOver, Executing, AgentRuns
<1> QED BY <1>4, <1>6, <1>7 DEF Inv

LEMMA OutsideInv ==
    ASSUME Inv, RecordMoves \/ ExecutorDies \/ PromptShows \/ SyncFlips \/ TimerFires
    PROVE  Inv' /\ fresh' = TRUE /\ Free(row, row') /\ row'.status = row.status
<1>0. row \in Row /\ ConsistentRow(row) /\ world \in World BY DEF Inv, TypeOK
<1>1. CASE RecordMoves
  <2>1. PICK s \in NextRecord(world.record) : world' = [world EXCEPT !.record = s]
    BY <1>1 DEF RecordMoves
  <2>2. s \in RecordStatus
    BY <1>0 DEF World, NextRecord, RecordStatus, ClosedRecord, AutoRecoverable
  <2> QED BY <1>0, <1>1, <2>1, <2>2
          DEF RecordMoves, Inv, TypeOK, ExitedIsOver, Executing, AgentRuns, World, Free
<1>2. CASE ExecutorDies \/ PromptShows \/ SyncFlips
  BY <1>0, <1>2 DEF ExecutorDies, PromptShows, SyncFlips, Inv, TypeOK, ExitedIsOver, Executing,
                    AgentRuns, World, Free
<1>3. CASE TimerFires
  <2>1. /\ row' = [row EXCEPT !.timer = "none"] /\ world' = world /\ fresh' = TRUE
    BY <1>3 DEF TimerFires
  <2>2. /\ row' \in Row /\ row'.status = row.status /\ row'.message = row.message
        /\ row'.agent = row.agent /\ row'.host = row.host /\ row'.timer = "none"
        /\ Free(row, row')
    BY <1>0, <2>1 DEF Row, Free
  <2>3. ConsistentRow(row)' BY <1>0, <2>2 DEF ConsistentRow, Free
  <2> QED BY <2>1, <2>2, <2>3 DEF Inv, TypeOK, ExitedIsOver, Executing, AgentRuns
<1> QED BY <1>1, <1>2, <1>3

LEMMA NextInv == Inv /\ [Next]_vars => Inv'
<1> SUFFICES ASSUME Inv, [Next]_vars PROVE Inv'
  OBVIOUS
<1>1. CASE Next BY <1>1, ReconcileInv, OutsideInv DEF Next
<1>2. CASE UNCHANGED vars
  BY <1>2 DEF vars, Inv, TypeOK, ExitedIsOver, Executing, AgentRuns, ConsistentRow
<1> QED BY <1>1, <1>2

LEMMA AlwaysInv == Spec => []Inv
BY InitInv, NextInv, PTL DEF Spec

(* A pass leaves a row that the code's other readers expect.                   *)
THEOREM TypeCorrect == Spec => []TypeOK
<1>1. Inv => TypeOK BY DEF Inv
<1> QED BY <1>1, AlwaysInv, PTL

(* A failure is paid for once, and an item is only given up for a reason that  *)
(* no budget covers.                                                           *)
THEOREM FailuresPaidOnce == Spec => OneFailureOneUnit
<1> DEFINE Unit == /\ row'.recoveries - row.recoveries + row'.attempts - row.attempts \in {0, 1}
                   /\ row'.recoveries # row.recoveries => FailedRecord \/ ~Executing
                   /\ row'.status = "failed" /\ row.status # "failed"
                        => \/ world.record = "closed:blocked"
                           \/ row.host = "unreachable"
                           \/ row.recoveries + 1 >= MaxIterations
                           \/ row.attempts >= MaxRetries
<1>1. ASSUME Inv, Next PROVE Unit
  <2>0. row.recoveries \in Int /\ row.attempts \in Int BY <1>1 DEF Inv, TypeOK, Row
  <2>1. CASE Reconcile
    <3>1. Paid(row, world, row') BY <1>1, <2>1, ReconcileInv
    <3>2. SeesFailure(row, world) => FailedRecord \/ ~Executing
      BY DEF SeesFailure, FailedRecord, Executing
    <3> QED BY <2>0, <3>1, <3>2 DEF Paid, Free, GivesUpRow, Iterates, Retries
  <2>2. CASE ~Reconcile
    <3>1. Free(row, row') /\ row'.status = row.status BY <1>1, <2>2, OutsideInv DEF Next
    <3> QED BY <2>0, <3>1 DEF Free
  <2> QED BY <2>1, <2>2
<1>2. Inv /\ [Next]_vars => [Unit]_vars BY <1>1
<1> QED BY <1>2, AlwaysInv, PTL DEF Spec, OneFailureOneUnit

---------------------------------------------------------------------------
(* Repeating a pass.  A pass that wrote something leaves a row that the next   *)
(* pass over the same evidence leaves alone, but for a remote row that waits   *)
(* for its retry while its record is open.                                     *)
PassRow(r, w) == ReconcileItem(r, r, w).row

Delayed(r, w) == /\ r.host # "local" /\ w.record = "open"
                 /\ r.status = "waiting" /\ r.agent = NoAgent

Settled(r, w) == PassRow(r, w) = r \/ Delayed(r, w)

LEMMA Taken ==
    ASSUME NEW r, NEW w, NEW status, NEW action,
           CollectEvidence(r, w).record # "none",
           Reduce(CollectEvidence(r, w)) = Decide(status, action, TRUE)
    PROVE  ReconcileItem(r, r, w) = ExecuteReduction(r, r, w, action)
<1> DEFINE d == Reduce(CollectEvidence(r, w))
<1>1. d.action = action /\ d.handled = TRUE BY DEF Decide
<1> HIDE DEF d
<1> QED BY <1>1 DEF ReconcileItem, d

LEMMA Left ==
    ASSUME NEW r, NEW w, NEW status, NEW action,
           CollectEvidence(r, w).record # "none",
           Reduce(CollectEvidence(r, w)) = Decide(status, action, FALSE)
    PROVE  ReconcileItem(r, r, w) =
              IF r.status \in FailedOrBlocked /\ RemoteLive(r, w)
              THEN Result(Settle(r, r, "running", "plain"), TRUE, "no", FALSE, FALSE)
              ELSE Fallback(r, r, w)
<1> DEFINE d == Reduce(CollectEvidence(r, w))
<1>1. d.action = action /\ d.handled = FALSE BY DEF Decide
<1> HIDE DEF d
<1> QED BY <1>1 DEF ReconcileItem, d

LEMMA SettleSame ==
    ASSUME NEW r \in Row, r.timer = "none"
    PROVE  Settle(r, r, r.status, r.message) = r
BY DEF Settle, WriteItem, Row

(* The task is closed, paused or blocked.                                      *)
LEMMA RepeatSuccess ==
    ASSUME NEW r \in Row, NEW w \in World, ~w.syncFails, w.record = "closed:success",
           ~ReconcileItem(r, r, w).kills, PassRow(r, w) \in Row
    PROVE  Settled(PassRow(r, w), w)
<1>1. \A q \in Row : ReconcileItem(q, q, w) = MarkSuccess(q, q, w)
  <2> TAKE q \in Row
  <2> DEFINE e == CollectEvidence(q, w)
  <2>1. e.record = "closed:success" BY Evidence DEF LocalRecord
  <2> HIDE DEF e
  <2>2. Reduce(e) = Decide("ClosedSuccess", "MarkSuccess", TRUE)
    BY <2>1 DEF Reduce, AutoRecoverable
  <2> QED BY <2>1, <2>2, Taken DEF e, ExecuteReduction
<1> DEFINE x == PassRow(r, w)
<1>2. CASE r.status # "success" \/ LocalLive(r, w)
  <2>0. MarkSuccess(r, r, w) =
          Result(Settle(r, r, "success", "plain"), TRUE, "no", FALSE, r.agent # NoAgent)
    BY <1>2 DEF MarkSuccess
  <2>1. r.agent = NoAgent
    <3>1. ~MarkSuccess(r, r, w).kills BY <1>1
    <3>2. MarkSuccess(r, r, w).kills = (r.agent # NoAgent) BY <2>0 DEF Result
    <3> QED BY <3>1, <3>2, Zenon
  <2>2. x = Settle(r, r, "success", "plain") BY <1>1, <1>2 DEF PassRow, MarkSuccess, Result
  <2>3. x.status = "success" /\ x.agent = NoAgent BY <2>1, <2>2, SettlePaid
  <2> HIDE DEF x
  <2>4. MarkSuccess(x, x, w) = Untouched(x)
    BY <2>3 DEF MarkSuccess, LocalLive, AgentRuns
  <2>5. x \in Row BY DEF x
  <2> QED BY <1>1, <2>4, <2>5 DEF Settled, PassRow, Untouched, Result, x
<1>3. CASE ~(r.status # "success" \/ LocalLive(r, w))
  BY <1>1, <1>3 DEF Settled, PassRow, MarkSuccess, Untouched, Result
<1> QED BY <1>2, <1>3

LEMMA RepeatPaused ==
    ASSUME NEW r \in Row, NEW w \in World, ~w.syncFails, w.record = "paused",
           PassRow(r, w) \in Row
    PROVE  Settled(PassRow(r, w), w)
<1>1. \A q \in Row : ReconcileItem(q, q, w) = MarkPaused(q, q)
  <2> TAKE q \in Row
  <2> DEFINE e == CollectEvidence(q, w)
  <2>1. e.record = "paused" BY Evidence DEF LocalRecord
  <2> HIDE DEF e
  <2>2. Reduce(e) = Decide("Paused", "MarkPaused", TRUE) BY <2>1 DEF Reduce, AutoRecoverable
  <2> QED BY <2>1, <2>2, Taken DEF e, ExecuteReduction
<1> DEFINE x == PassRow(r, w)
<1>2. x.status = "paused"
  BY <1>1, SettlePaid DEF PassRow, MarkPaused, Result
<1> HIDE DEF x
<1>3. x \in Row BY DEF x
<1>4. MarkPaused(x, x).row = x BY <1>2 DEF MarkPaused, Result
<1> QED BY <1>1, <1>3, <1>4 DEF Settled, PassRow, x

LEMMA RepeatActive ==
    ASSUME NEW r \in Row, NEW w \in World, ~w.syncFails, w.record = "active"
    PROVE  Settled(PassRow(r, w), w)
<1> DEFINE e == CollectEvidence(r, w)
<1>1. e.record = "active" BY Evidence DEF LocalRecord
<1> HIDE DEF e
<1>2. Reduce(e) = Decide("Running", "None", TRUE) BY <1>1 DEF Reduce, AutoRecoverable
<1>3. ReconcileItem(r, r, w) = ExecuteReduction(r, r, w, "None") BY <1>1, <1>2, Taken DEF e
<1>4. ExecuteReduction(r, r, w, "None").row = r BY DEF ExecuteReduction, Untouched, Result
<1> QED BY <1>3, <1>4 DEF Settled, PassRow

LEMMA RepeatBlocked ==
    ASSUME NEW r \in Row, NEW w \in World, ~w.syncFails, w.record = "closed:blocked",
           PassRow(r, w) \in Row
    PROVE  Settled(PassRow(r, w), w)
<1>1. \A q \in Row : ReconcileItem(q, q, w) = MarkFailed(q, q)
  <2> TAKE q \in Row
  <2> DEFINE e == CollectEvidence(q, w)
  <2>1. e.record = "closed:blocked" BY Evidence DEF LocalRecord
  <2> HIDE DEF e
  <2>2. Reduce(e) = Decide("TerminalFailure", "MarkFailed", TRUE)
    BY <2>1 DEF Reduce, AutoRecoverable
  <2> QED BY <2>1, <2>2, Taken DEF e, ExecuteReduction
<1> DEFINE x == PassRow(r, w)
<1>2. CASE r.status = "success"
  BY <1>1, <1>2 DEF Settled, PassRow, MarkFailed, Untouched, Result
<1>3. CASE r.status # "success"
  <2>1. x = Settle(r, r, "failed", "plain") BY <1>1, <1>3 DEF PassRow, MarkFailed, Result
  <2>2. x.status = "failed" /\ x.message = "plain" /\ x.timer = "none" BY <2>1, SettlePaid
  <2> HIDE DEF x
  <2>3. x \in Row BY DEF x
  <2>4. MarkFailed(x, x).row = x BY <2>2, <2>3, SettleSame DEF MarkFailed, Result
  <2> QED BY <1>1, <2>3, <2>4 DEF Settled, PassRow, x
<1> QED BY <1>2, <1>3

(* The fields of the rows that the writers below leave.                        *)
LEMMA RecoverRow ==
    ASSUME NEW r \in Row, NEW message
    PROVE  LET x == RecoverOrFail(r, r, message).row
           IN  /\ x.host = r.host
               /\ \/ x.status = "pending" /\ x.agent = NoAgent /\ x.recoveries > 0
                  \/ /\ x.status = "failed" /\ x.message = message /\ x.timer = "none"
                     /\ x.agent = r.agent /\ x.recoveries = r.recoveries
                     /\ ~CanRecover(x, x)
<1>1. IterationsStarted(r, r) = r.recoveries + 1 /\ r.recoveries \in 0..(MaxIterations - 1)
  BY DEF IterationsStarted, Row
<1>2. CASE CanRecover(r, r)
  <2> DEFINE x == ScheduleRecoveryWrite(r, r.recoveries + 1)
  <2>1. RecoverOrFail(r, r, message).row = x BY <1>1, <1>2 DEF RecoverOrFail, Result
  <2>2. x.status = "pending" /\ x.agent = NoAgent /\ x.recoveries = r.recoveries + 1
        /\ x.host = r.host
    BY DEF ScheduleRecoveryWrite, Row
  <2> QED BY <1>1, <2>1, <2>2, BudgetAssumption
<1>3. CASE ~CanRecover(r, r)
  <2> DEFINE x == Settle(r, r, "failed", message)
  <2>1. RecoverOrFail(r, r, message).row = x BY <1>3 DEF RecoverOrFail, Result
  <2>2. /\ x.status = "failed" /\ x.message = message /\ x.timer = "none"
        /\ x.agent = r.agent /\ x.recoveries = r.recoveries /\ x.host = r.host
    BY SettlePaid DEF Free
  <2> HIDE DEF x
  <2>3. ~CanRecover(x, x) BY <1>3, <2>2 DEF CanRecover, IterationsStarted
  <2> QED BY <2>1, <2>2, <2>3
<1> QED BY <1>2, <1>3

LEMMA RelaunchRow ==
    ASSUME NEW r \in Row
    PROVE  LET x == BoundedRelaunch(r, r, r.attempts).row
           IN  /\ x.host = r.host /\ x.message = "plain"
               /\ \/ x.status = "waiting" /\ x.agent = NoAgent
                  \/ x.status = "failed" /\ x.agent = r.agent
BY DEF BoundedRelaunch, RelaunchWrite, WriteItem, Result, Row

(* Failing again a row that was failed for want of an iteration changes        *)
(* nothing.                                                                    *)
LEMMA FailAgain ==
    ASSUME NEW x \in Row, x.status = "failed", x.message = "plain", x.timer = "none",
           ~CanRecover(x, x)
    PROVE  RecoverOrFail(x, x, "plain").row = x
BY SettleSame DEF RecoverOrFail, Result

(* A row that the fallback leaves alone.                                       *)
LEMMA FallbackRests ==
    ASSUME NEW x \in Row, NEW w,
           x.status \notin StartingOrRunning \cup {"success"},
           x.status \in FailedOrBlocked
              => x.message # "launch" /\ (x.message = "exited" => ~CanRecover(x, x))
    PROVE  Fallback(x, x, w).row = x
BY DEF Fallback, AgentFailed, Untouched, Result

(* No record is seen.                                                          *)
Lost(r, w) == r.agent # NoAgent /\ ~w.live /\ r.status \in RelaunchableStatus
Revives(r, w) == r.status \in FailedOrBlocked /\ RemoteLive(r, w)

LEMMA PassMissing ==
    ASSUME NEW r \in Row, NEW w \in World, ~w.syncFails, LocalRecord(r, w) = "none"
    PROVE  /\ Lost(r, w) => ReconcileItem(r, r, w) = BoundedRelaunch(r, r, r.attempts)
           /\ ~Lost(r, w) /\ Revives(r, w)
                => ReconcileItem(r, r, w).row = Settle(r, r, "running", "plain")
           /\ ~Lost(r, w) /\ ~Revives(r, w) /\ RemoteLive(r, w)
                => ReconcileItem(r, r, w).row = r
           /\ ~Lost(r, w) /\ ~RemoteLive(r, w) => ReconcileItem(r, r, w) = Fallback(r, r, w)
<1> DEFINE e == CollectEvidence(r, w)
           d == Reduce(e)
<1>1. /\ e.record = "none" /\ ~e.syncError /\ e.status = r.status
      /\ e.hasAgent <=> r.agent # NoAgent
      /\ e.localLive <=> LocalLive(r, w)
      /\ e.remoteLive <=> RemoteLive(r, w)
      /\ e.remote <=> r.host # "local"
  BY Evidence
<1> HIDE DEF e
<1>2. Reduce(e) = ReduceMissing(e) BY <1>1 DEF Reduce, AutoRecoverable
<1>3. Lost(r, w) <=> /\ e.hasAgent /\ ~e.localLive /\ ~e.remoteLive
                     /\ e.status \in RelaunchableStatus
  BY <1>1 DEF Lost, LocalLive, RemoteLive, AgentRuns, RemoteNative
<1>4. CASE Lost(r, w)
  <2>1. d = Decide("LaunchFailed", "BoundedRelaunch", FALSE) BY <1>2, <1>3, <1>4 DEF ReduceMissing
  <2>2. d.action = "BoundedRelaunch" BY <2>1 DEF Decide
  <2> HIDE DEF d
  <2> QED BY <1>1, <1>4, <2>2 DEF ReconcileItem, ExecuteReduction, e, d
<1>5. CASE ~Lost(r, w)
  <2> DEFINE h == e.remote /\ e.remoteLive
  <2>1. d = Decide("WaitingForRecord", "None", h)
    BY <1>1, <1>2, <1>3, <1>5 DEF ReduceMissing
  <2> HIDE DEF h, d
  <2>2. d.action = "None" /\ d.handled = h BY <2>1 DEF Decide
  <2>3. d.handled <=> RemoteLive(r, w) BY <1>1, <2>2 DEF RemoteLive, RemoteNative, h
  <2> QED BY <1>1, <1>5, <2>2, <2>3
          DEF ReconcileItem, Revives, Untouched, Result, e, d
<1> QED BY <1>4, <1>5

LEMMA RepeatMissing ==
    ASSUME NEW r \in Row, NEW w \in World, ~w.syncFails, LocalRecord(r, w) = "none",
           ~ReconcileItem(r, r, w).kills, PassRow(r, w) \in Row
    PROVE  Settled(PassRow(r, w), w)
<1> DEFINE x == PassRow(r, w)
<1>0. x \in Row OBVIOUS
<1>1. CASE x = r BY <1>1 DEF Settled
<1>2. CASE Revives(r, w) /\ ~Lost(r, w)
  <2>1. x = Settle(r, r, "running", "plain") BY <1>2, PassMissing DEF PassRow
  <2>2. x.status = "running" /\ x.agent = r.agent /\ x.host = r.host BY <2>1, SettlePaid
  <2> HIDE DEF x
  <2>3. RemoteLive(x, w) BY <1>2, <2>2 DEF Revives, RemoteLive, RemoteNative, AgentRuns
  <2>4. LocalRecord(x, w) = "none" BY <1>2, <2>3 DEF LocalRecord, Revives
  <2>5. ~Lost(x, w) /\ ~Revives(x, w)
    BY <2>2, <2>3 DEF Lost, Revives, RemoteLive, AgentRuns, FailedOrBlocked
  <2> QED BY <1>0, <2>3, <2>4, <2>5, PassMissing DEF Settled, PassRow, x
<1>3. ASSUME ~RemoteLive(x, w), ~RemoteLive(r, w),
             x.status \notin StartingOrRunning \cup {"success"},
             x.status = "waiting" => x.agent = NoAgent,
             x.status \in FailedOrBlocked
               => x.message # "launch" /\ (x.message = "exited" => ~CanRecover(x, x))
      PROVE  Settled(x, w)
  <2> HIDE DEF x
  <2>1. LocalRecord(x, w) = "none" BY <1>3 DEF LocalRecord
  <2>2. ~Lost(x, w) BY <1>3 DEF Lost, RelaunchableStatus
  <2>3. Fallback(x, x, w).row = x BY <1>0, <1>3, FallbackRests
  <2> QED BY <1>0, <1>3, <2>1, <2>2, <2>3, PassMissing DEF Settled, PassRow
<1>4. CASE ~RemoteLive(r, w) /\ x = BoundedRelaunch(r, r, r.attempts).row
  <2>1. /\ x.host = r.host /\ x.message = "plain"
        /\ \/ x.status = "waiting" /\ x.agent = NoAgent
           \/ x.status = "failed" /\ x.agent = r.agent
    BY <1>4, RelaunchRow
  <2> HIDE DEF x
  <2>2. ~RemoteLive(x, w) BY <1>4, <2>1 DEF RemoteLive, RemoteNative, AgentRuns
  <2> QED BY <1>3, <1>4, <2>1, <2>2 DEF StartingOrRunning, x
<1>5. CASE ~RemoteLive(r, w) /\ x = RecoverOrFail(r, r, "exited").row
  <2>1. /\ x.host = r.host
        /\ \/ x.status = "pending" /\ x.agent = NoAgent
           \/ x.status = "failed" /\ x.agent = r.agent /\ ~CanRecover(x, x)
              /\ x.message = "exited"
    BY <1>5, RecoverRow
  <2> HIDE DEF x
  <2>2. ~RemoteLive(x, w) BY <1>5, <2>1 DEF RemoteLive, RemoteNative, AgentRuns
  <2> QED BY <1>3, <1>5, <2>1, <2>2 DEF StartingOrRunning, FailedOrBlocked, x
<1>6. CASE Lost(r, w)
  <2>1. ~RemoteLive(r, w) BY <1>6 DEF Lost, RemoteLive, AgentRuns
  <2>2. x = BoundedRelaunch(r, r, r.attempts).row BY <1>6, PassMissing DEF PassRow
  <2> QED BY <1>4, <2>1, <2>2
<1>7. CASE ~Lost(r, w) /\ ~RemoteLive(r, w)
  <2>1. ReconcileItem(r, r, w) = Fallback(r, r, w) BY <1>7, PassMissing
  <2>2. r.status = "success" /\ LocalLive(r, w) => MarkSuccess(r, r, w).kills
    <3> SUFFICES ASSUME r.status = "success", LocalLive(r, w) PROVE MarkSuccess(r, r, w).kills
      OBVIOUS
    <3>1. MarkSuccess(r, r, w) =
            Result(Settle(r, r, "success", "plain"), TRUE, "no", FALSE, r.agent # NoAgent)
      BY DEF MarkSuccess
    <3>2. MarkSuccess(r, r, w).kills = (r.agent # NoAgent) BY <3>1 DEF Result
    <3>3. r.agent # NoAgent BY DEF LocalLive, AgentRuns
    <3> QED BY <3>2, <3>3, Zenon
  <2>3. \/ x = BoundedRelaunch(r, r, r.attempts).row
        \/ x = RecoverOrFail(r, r, "exited").row
        \/ x = r
        \/ ReconcileItem(r, r, w) = MarkSuccess(r, r, w) /\ MarkSuccess(r, r, w).kills
    BY <2>1, <2>2 DEF PassRow, Fallback, Untouched, Result
  <2> HIDE DEF x
  <2> QED BY <1>1, <1>4, <1>5, <1>7, <2>3 DEF x
<1>8. CASE ~Lost(r, w) /\ ~Revives(r, w) /\ RemoteLive(r, w)
  BY <1>1, <1>8, PassMissing DEF PassRow
<1> QED BY <1>2, <1>6, <1>7, <1>8

(* The record is open.                                                         *)
OpenCovered(r, w) ==
    \/ r.status \in StartingOrRunning /\ r.agent = NoAgent /\ w.worker
    \/ RecoveryWaiting(r, w)
    \/ r.status = "pending" /\ r.message = "continue"

OpenRecoverable(r) ==
    r.status \notin {"success", "paused"} /\ (r.status = "stopped" => r.message = "openstopped")

LEMMA PassOpenLocal ==
    ASSUME NEW r \in Row, NEW w \in World, ~w.syncFails, w.record = "open", r.host = "local"
    PROVE  LET prompt == LocalLive(r, w) /\ w.prompt
               runs == LocalLive(r, w) \/ OpenCovered(r, w)
           IN  /\ prompt \/ (~runs /\ OpenRecoverable(r))
                    => ReconcileItem(r, r, w) = RecoverOrFail(r, r, "plain")
               /\ ~prompt /\ runs => ReconcileItem(r, r, w).row = r
               /\ ~prompt /\ ~runs /\ ~OpenRecoverable(r)
                    => ReconcileItem(r, r, w) = Fallback(r, r, w)
<1> DEFINE e == CollectEvidence(r, w)
<1>1. /\ e.record = "open" /\ e.status = r.status /\ e.message = r.message
      /\ ~e.remote
      /\ e.localLive <=> LocalLive(r, w)
      /\ e.prompt <=> LocalLive(r, w) /\ w.prompt
      /\ Covered(e) <=> OpenCovered(r, w)
  <2>1. LocalRecord(r, w) = "open" BY DEF LocalRecord
  <2> QED BY <2>1, Evidence DEF Covered, OpenCovered
<1> HIDE DEF e
<1>2. Reduce(e) = ReduceLocalOpen(e) BY <1>1 DEF Reduce, ReduceOpen, AutoRecoverable
<1>3. LocalOpenRecoverable(e) <=> OpenRecoverable(r)
  BY <1>1 DEF LocalOpenRecoverable, OpenRecoverable
<1>4. ExecuteReduction(r, r, w, "RecoverExecution") = RecoverOrFail(r, r, "plain")
      /\ ExecuteReduction(r, r, w, "None").row = r
  BY DEF ExecuteReduction, Untouched, Result
<1>5. CASE LocalLive(r, w) /\ w.prompt
  <2>1. Reduce(e) = Decide("CloseoutFailedButSessionLive", "RecoverExecution", TRUE)
    BY <1>1, <1>2, <1>5 DEF ReduceLocalOpen
  <2> QED BY <1>1, <1>4, <1>5, <2>1, Taken DEF e
<1>6. CASE /\ ~(LocalLive(r, w) /\ w.prompt)
           /\ LocalLive(r, w) \/ OpenCovered(r, w)
  <2>1. Reduce(e) = Decide("Running", "None", TRUE) BY <1>1, <1>2, <1>6 DEF ReduceLocalOpen
  <2>2. ReconcileItem(r, r, w) = ExecuteReduction(r, r, w, "None") BY <1>1, <2>1, Taken DEF e
  <2> QED BY <1>4, <1>6, <2>2
<1>7. CASE ~LocalLive(r, w) /\ ~OpenCovered(r, w) /\ OpenRecoverable(r)
  <2>1. Reduce(e) = Decide("ExecutionFailed", "RecoverExecution", TRUE)
    BY <1>1, <1>2, <1>3, <1>7 DEF ReduceLocalOpen
  <2> QED BY <1>1, <1>4, <1>7, <2>1, Taken DEF e
<1>8. CASE ~LocalLive(r, w) /\ ~OpenCovered(r, w) /\ ~OpenRecoverable(r)
  <2>1. Reduce(e) = Decide("DisconnectedOpenRecord", "None", FALSE)
    BY <1>1, <1>2, <1>3, <1>8 DEF ReduceLocalOpen
  <2>2. ~RemoteLive(r, w) BY DEF RemoteLive, RemoteNative
  <2> QED BY <1>1, <1>8, <2>1, <2>2, Left DEF e
<1> QED BY <1>5, <1>6, <1>7, <1>8

LEMMA RepeatOpenLocal ==
    ASSUME NEW r \in Row, NEW w \in World, ~w.syncFails, w.record = "open", r.host = "local",
           PassRow(r, w) \in Row
    PROVE  Settled(PassRow(r, w), w)
<1> DEFINE x == PassRow(r, w)
<1>1. CASE x = r BY <1>1 DEF Settled
<1>2. CASE x = RecoverOrFail(r, r, "plain").row
  <2>1. /\ x.host = "local"
        /\ \/ x.status = "pending" /\ x.agent = NoAgent /\ x.recoveries > 0
           \/ /\ x.status = "failed" /\ x.message = "plain" /\ x.timer = "none"
              /\ ~CanRecover(x, x)
    BY <1>2, RecoverRow
  <2>2. x \in Row OBVIOUS
  <2> HIDE DEF x
  <2>3. CASE x.status = "pending" /\ x.agent = NoAgent /\ x.recoveries > 0
    <3>1. OpenCovered(x, w) /\ ~LocalLive(x, w)
      BY <2>3 DEF OpenCovered, RecoveryWaiting, LocalLive, AgentRuns, Terminal
    <3> QED BY <2>1, <2>2, <3>1, PassOpenLocal DEF Settled, PassRow, x
  <2>4. CASE /\ x.status = "failed" /\ x.message = "plain" /\ x.timer = "none"
             /\ ~CanRecover(x, x)
    <3>1. RecoverOrFail(x, x, "plain").row = x BY <2>2, <2>4, FailAgain
    <3>2. OpenRecoverable(x) BY <2>4 DEF OpenRecoverable
    <3> QED BY <2>1, <2>2, <3>1, <3>2, PassOpenLocal DEF Settled, PassRow, x
  <2> QED BY <2>1, <2>3, <2>4
<1>3. CASE ~OpenRecoverable(r) /\ ~LocalLive(r, w) /\ ReconcileItem(r, r, w) = Fallback(r, r, w)
  <2>1. Fallback(r, r, w).row = r
    BY <1>3 DEF OpenRecoverable, Fallback, FailedOrBlocked, AgentFailed, StartingOrRunning,
                Untouched, Result
  <2> QED BY <1>1, <1>3, <2>1 DEF PassRow
<1> QED BY <1>1, <1>2, <1>3, PassOpenLocal DEF PassRow

ShouldRelaunch(r) ==
    \/ r.status \in RelaunchableStatus
    \/ r.status \in StoppedOrPaused /\ r.message = "disconnected"
    \/ r.status \in FailedOrBlocked /\ r.message = "syncfailed"

LEMMA PassOpenRemote ==
    ASSUME NEW r \in Row, NEW w \in World, ~w.syncFails, w.record = "open", r.host # "local"
    PROVE  /\ RemoteLive(r, w) => ReconcileItem(r, r, w) = MarkRunning(r, r)
           /\ ~RemoteLive(r, w) /\ ShouldRelaunch(r)
                => ReconcileItem(r, r, w).row = RelaunchWrite(r, "pending", r.attempts, "none")
           /\ ~RemoteLive(r, w) /\ ~ShouldRelaunch(r)
                => ReconcileItem(r, r, w) = Fallback(r, r, w)
<1> DEFINE e == CollectEvidence(r, w)
<1>1. /\ e.record = "open" /\ e.remote
      /\ e.remoteLive <=> RemoteLive(r, w)
      /\ RemoteShouldRelaunch(e) <=> ShouldRelaunch(r)
  <2>1. LocalRecord(r, w) = "open" BY DEF LocalRecord
  <2> QED BY <2>1, Evidence DEF RemoteShouldRelaunch, ShouldRelaunch
<1> HIDE DEF e
<1>2. Reduce(e) = ReduceRemoteOpen(e) BY <1>1 DEF Reduce, ReduceOpen, AutoRecoverable
<1>3. CASE RemoteLive(r, w)
  <2>1. Reduce(e) = Decide("Running", "MarkRunning", TRUE)
    BY <1>1, <1>2, <1>3 DEF ReduceRemoteOpen
  <2>2. ReconcileItem(r, r, w) = ExecuteReduction(r, r, w, "MarkRunning")
    BY <1>1, <2>1, Taken DEF e
  <2>3. ExecuteReduction(r, r, w, "MarkRunning") = MarkRunning(r, r) BY DEF ExecuteReduction
  <2> QED BY <1>3, <2>2, <2>3
<1>4. CASE ~RemoteLive(r, w) /\ ShouldRelaunch(r)
  <2>1. Reduce(e) = Decide("DisconnectedOpenRecord", "RelaunchRemote", TRUE)
    BY <1>1, <1>2, <1>4 DEF ReduceRemoteOpen
  <2>2. ReconcileItem(r, r, w) = ExecuteReduction(r, r, w, "RelaunchRemote")
    BY <1>1, <2>1, Taken DEF e
  <2>3. ExecuteReduction(r, r, w, "RelaunchRemote").row
          = RelaunchWrite(r, "pending", r.attempts, "none")
    BY DEF ExecuteReduction, Result
  <2> QED BY <1>4, <2>2, <2>3
<1>5. CASE ~RemoteLive(r, w) /\ ~ShouldRelaunch(r)
  <2>1. Reduce(e) = Decide("DisconnectedOpenRecord", "None", FALSE)
    BY <1>1, <1>2, <1>5 DEF ReduceRemoteOpen
  <2> QED BY <1>1, <1>5, <2>1, Left DEF e
<1> QED BY <1>3, <1>4, <1>5

LEMMA MarkRunningTwice ==
    ASSUME NEW r \in Row, MarkRunning(r, r).row \in Row
    PROVE  LET x == MarkRunning(r, r).row
           IN  /\ x.agent = r.agent /\ x.host = r.host /\ x.recoveries = r.recoveries
               /\ MarkRunning(x, x).row = x
<1>1. CASE r.status # "running" \/ r.message # "plain"
  <2> DEFINE x == Settle(r, r, "running", "plain")
  <2>1. MarkRunning(r, r).row = x BY <1>1 DEF MarkRunning, Result
  <2>2. /\ x.agent = r.agent /\ x.host = r.host /\ x.recoveries = r.recoveries
        /\ x.status = "running" /\ x.message = "plain"
    BY SettlePaid DEF Free
  <2> HIDE DEF x
  <2>3. MarkRunning(x, x).row = x BY <2>2 DEF MarkRunning, Result
  <2> QED BY <2>1, <2>2, <2>3
<1>2. CASE ~(r.status # "running" \/ r.message # "plain")
  BY <1>2 DEF MarkRunning, Result
<1> QED BY <1>1, <1>2

LEMMA RepeatOpenRemote ==
    ASSUME NEW r \in Row, NEW w \in World, ~w.syncFails, w.record = "open", r.host # "local",
           PassRow(r, w) \in Row
    PROVE  Settled(PassRow(r, w), w)
<1> DEFINE x == PassRow(r, w)
<1>0. x \in Row OBVIOUS
<1>1. CASE x = r BY <1>1 DEF Settled
<1>2. CASE RemoteLive(r, w)
  <2>1. x = MarkRunning(r, r).row BY <1>2, PassOpenRemote DEF PassRow
  <2>2. x.agent = r.agent /\ x.host = r.host /\ MarkRunning(x, x).row = x
    BY <1>0, <2>1, MarkRunningTwice
  <2> HIDE DEF x
  <2>3. RemoteLive(x, w) BY <1>2, <2>2 DEF RemoteLive, RemoteNative, AgentRuns
  <2> QED BY <1>0, <2>2, <2>3, PassOpenRemote DEF Settled, PassRow, x
<1>3. ASSUME x.host = r.host, ~RemoteLive(x, w), x.status \in {"pending", "failed"},
             x.status = "failed" => x.message = "plain"
      PROVE  Settled(x, w)
  <2> HIDE DEF x
  <2>1. ~ShouldRelaunch(x)
    BY <1>3 DEF ShouldRelaunch, RelaunchableStatus, StartingOrRunning, StoppedOrPaused,
                FailedOrBlocked
  <2>2. Fallback(x, x, w).row = x
    BY <1>0, <1>3, FallbackRests DEF StartingOrRunning, FailedOrBlocked
  <2> QED BY <1>0, <1>3, <2>1, <2>2, PassOpenRemote DEF Settled, PassRow
<1>4. CASE ~RemoteLive(r, w) /\ x = BoundedRelaunch(r, r, r.attempts).row
  <2>1. /\ x.host = r.host /\ x.message = "plain"
        /\ \/ x.status = "waiting" /\ x.agent = NoAgent
           \/ x.status = "failed" /\ x.agent = r.agent
    BY <1>4, RelaunchRow
  <2> HIDE DEF x
  <2>2. ~RemoteLive(x, w) BY <1>4, <2>1 DEF RemoteLive, RemoteNative, AgentRuns
  <2>3. CASE x.status = "waiting" /\ x.agent = NoAgent
    BY <2>1, <2>3 DEF Settled, Delayed, x
  <2>4. CASE x.status = "failed" BY <1>3, <2>1, <2>2, <2>4 DEF x
  <2> QED BY <2>1, <2>3, <2>4
<1>5. CASE ~RemoteLive(r, w) /\ x = RelaunchWrite(r, "pending", r.attempts, "none")
  <2>1. x.host = r.host /\ x.status = "pending" /\ x.agent = NoAgent
    BY <1>5 DEF RelaunchWrite, Row
  <2> HIDE DEF x
  <2>2. ~RemoteLive(x, w) BY <2>1 DEF RemoteLive, AgentRuns
  <2> QED BY <1>3, <2>1, <2>2 DEF x
<1>6. CASE ~RemoteLive(r, w) /\ ReconcileItem(r, r, w) = Fallback(r, r, w)
  <2>1. ~AgentFailed(r, w) /\ ~LocalLive(r, w) BY DEF AgentFailed, LocalLive, RemoteNative
  <2>2. \/ x = BoundedRelaunch(r, r, r.attempts).row
        \/ CanRecover(r, r) /\ x = RecoverOrFail(r, r, "exited").row
        \/ x = r
    BY <1>6, <2>1 DEF PassRow, Fallback, Untouched, Result
  <2>3. ASSUME CanRecover(r, r)
        PROVE  LET y == RecoverOrFail(r, r, "exited").row
               IN  y.host = r.host /\ y.status = "pending" /\ y.agent = NoAgent
    BY <2>3 DEF RecoverOrFail, ScheduleRecoveryWrite, Result, Row
  <2> HIDE DEF x
  <2>4. CASE CanRecover(r, r) /\ x = RecoverOrFail(r, r, "exited").row
    <3>1. x.host = r.host /\ x.status = "pending" /\ x.agent = NoAgent BY <2>3, <2>4
    <3>2. ~RemoteLive(x, w) BY <3>1 DEF RemoteLive, AgentRuns
    <3> QED BY <1>3, <3>1, <3>2 DEF x
  <2> QED BY <1>1, <1>4, <1>6, <2>2, <2>4 DEF x
<1> QED BY <1>2, <1>4, <1>5, <1>6, PassOpenRemote DEF PassRow

(* The record says that the execution failed.                                  *)
LEMMA PassFailure ==
    ASSUME NEW r \in Row, NEW w \in World, ~w.syncFails, w.record \in AutoRecoverable,
           LocalRecord(r, w) = w.record
    PROVE  LET runs == RemoteLive(r, w) \/ RecoveryLive(r, w)
           IN  /\ runs => ReconcileItem(r, r, w) = MarkRunning(r, r)
               /\ ~runs /\ RecoveryWaiting(r, w) => ReconcileItem(r, r, w).row = r
               /\ ~runs /\ ~RecoveryWaiting(r, w)
                    => ReconcileItem(r, r, w) = RecoverOrFail(r, r, "plain")
<1> DEFINE e == CollectEvidence(r, w)
<1>1. /\ e.record \in AutoRecoverable /\ e.record # "none"
      /\ e.remote /\ e.remoteLive <=> RemoteLive(r, w)
      /\ e.recoveryLive <=> RecoveryLive(r, w)
      /\ e.recovering <=> RecoveryWaiting(r, w)
  BY Evidence DEF AutoRecoverable, RemoteLive, RemoteNative
<1> HIDE DEF e
<1>2. Reduce(e) = ReduceFailure(e) BY <1>1 DEF Reduce, AutoRecoverable
<1>3. CASE RemoteLive(r, w) \/ RecoveryLive(r, w)
  <2>1. \/ Reduce(e) = Decide("CloseoutFailedButSessionLive", "MarkRunning", TRUE)
        \/ Reduce(e) = Decide("Running", "MarkRunning", TRUE)
    BY <1>1, <1>2, <1>3 DEF ReduceFailure
  <2>2. ReconcileItem(r, r, w) = ExecuteReduction(r, r, w, "MarkRunning")
    BY <1>1, <2>1, Taken DEF e
  <2>3. ExecuteReduction(r, r, w, "MarkRunning") = MarkRunning(r, r) BY DEF ExecuteReduction
  <2> QED BY <1>3, <2>2, <2>3
<1>4. CASE ~(RemoteLive(r, w) \/ RecoveryLive(r, w)) /\ RecoveryWaiting(r, w)
  <2>1. Reduce(e) = Decide("Running", "None", TRUE) BY <1>1, <1>2, <1>4 DEF ReduceFailure
  <2>2. ReconcileItem(r, r, w) = ExecuteReduction(r, r, w, "None") BY <1>1, <2>1, Taken DEF e
  <2>3. ExecuteReduction(r, r, w, "None").row = r BY DEF ExecuteReduction, Untouched, Result
  <2> QED BY <1>4, <2>2, <2>3
<1>5. CASE ~(RemoteLive(r, w) \/ RecoveryLive(r, w)) /\ ~RecoveryWaiting(r, w)
  <2>1. Reduce(e) = Decide("ExecutionFailed", "RecoverExecution", TRUE)
    BY <1>1, <1>2, <1>5 DEF ReduceFailure
  <2>2. ReconcileItem(r, r, w) = ExecuteReduction(r, r, w, "RecoverExecution")
    BY <1>1, <2>1, Taken DEF e
  <2>3. ExecuteReduction(r, r, w, "RecoverExecution") = RecoverOrFail(r, r, "plain")
    BY DEF ExecuteReduction
  <2> QED BY <1>5, <2>2, <2>3
<1> QED BY <1>3, <1>4, <1>5

LEMMA RepeatFailure ==
    ASSUME NEW r \in Row, NEW w \in World, ~w.syncFails, w.record \in AutoRecoverable,
           LocalRecord(r, w) = w.record, PassRow(r, w) \in Row
    PROVE  Settled(PassRow(r, w), w)
<1> DEFINE x == PassRow(r, w)
<1>0. x \in Row OBVIOUS
<1>1. CASE x = r BY <1>1 DEF Settled
<1>2. CASE /\ RemoteLive(r, w) \/ RecoveryLive(r, w)
           /\ ReconcileItem(r, r, w) = MarkRunning(r, r)
  <2>1. x = MarkRunning(r, r).row BY <1>2 DEF PassRow
  <2>2. /\ x.agent = r.agent /\ x.host = r.host /\ x.recoveries = r.recoveries
        /\ MarkRunning(x, x).row = x
    BY <1>0, <2>1, MarkRunningTwice
  <2> HIDE DEF x
  <2>3. /\ RemoteLive(x, w) <=> RemoteLive(r, w)
        /\ RecoveryLive(x, w) <=> RecoveryLive(r, w)
    BY <2>2 DEF RemoteLive, RecoveryLive, LocalLive, RemoteNative, AgentRuns
  <2>4. LocalRecord(x, w) = w.record BY <2>3 DEF LocalRecord
  <2> QED BY <1>0, <1>2, <2>2, <2>3, <2>4, PassFailure DEF Settled, PassRow, x
<1>3. CASE /\ ~RemoteLive(r, w) /\ ~RecoveryLive(r, w)
           /\ x = RecoverOrFail(r, r, "plain").row
  <2>1. /\ x.host = r.host
        /\ \/ x.status = "pending" /\ x.agent = NoAgent /\ x.recoveries > 0
           \/ /\ x.status = "failed" /\ x.message = "plain" /\ x.timer = "none"
              /\ x.agent = r.agent /\ ~CanRecover(x, x) /\ x.recoveries = r.recoveries
    BY <1>3, RecoverRow
  <2> HIDE DEF x
  <2>2. ~RemoteLive(x, w) BY <1>3, <2>1 DEF RemoteLive, RemoteNative, AgentRuns
  <2>3. LocalRecord(x, w) = w.record BY <2>2 DEF LocalRecord
  <2>4. CASE x.status = "pending" /\ x.agent = NoAgent /\ x.recoveries > 0
    <3>1. RecoveryWaiting(x, w) /\ ~RecoveryLive(x, w)
      BY <2>4 DEF RecoveryWaiting, RecoveryLive, LocalLive, AgentRuns, Terminal
    <3> QED BY <1>0, <2>2, <2>3, <3>1, PassFailure DEF Settled, PassRow, x
  <2>5. CASE /\ x.status = "failed" /\ x.message = "plain" /\ x.timer = "none"
             /\ ~CanRecover(x, x)
    <3>1. RecoverOrFail(x, x, "plain").row = x BY <1>0, <2>5, FailAgain
    <3>2. ~RecoveryLive(x, w)
      BY <1>3, <2>1, <2>5 DEF RecoveryLive, LocalLive, RemoteNative, AgentRuns
    <3>3. ~RecoveryWaiting(x, w) BY <2>5, <3>2 DEF RecoveryWaiting, Terminal
    <3> QED BY <1>0, <2>2, <2>3, <3>1, <3>2, <3>3, PassFailure DEF Settled, PassRow, x
  <2> QED BY <2>1, <2>4, <2>5
<1> QED BY <1>1, <1>2, <1>3, PassFailure DEF PassRow

LEMMA RepeatSettled ==
    ASSUME NEW r \in Row, NEW w \in World, ~w.syncFails, ConsistentRow(r),
           ~ReconcileItem(r, r, w).kills
    PROVE  Settled(PassRow(r, w), w)
<1>1. PassRow(r, w) \in Row
  BY OwnSnapshot, ReconcileSound DEF PassRow, GoodResult, GoodRow
<1>2. CASE LocalRecord(r, w) = "none" BY <1>1, <1>2, RepeatMissing
<1>3. CASE LocalRecord(r, w) # "none"
  <2>1. LocalRecord(r, w) = w.record BY <1>3 DEF LocalRecord
  <2>2. CASE w.record \in AutoRecoverable BY <1>1, <2>1, <2>2, RepeatFailure
  <2>3. CASE w.record = "open" BY <1>1, <2>3, RepeatOpenLocal, RepeatOpenRemote
  <2>4. CASE w.record \in {"closed:success", "paused", "active", "closed:blocked"}
    BY <1>1, <2>4, RepeatSuccess, RepeatPaused, RepeatActive, RepeatBlocked
  <2> QED BY <1>3, <2>1, <2>2, <2>3, <2>4 DEF World, RecordStatus, AutoRecoverable
<1> QED BY <1>2, <1>3

(* What the next pass over a settled row may still do.                         *)
Rests(r, x) == /\ Free(r, x) /\ x.agent = r.agent
               /\ x.status \in Terminal => r.status \in Terminal
               /\ r.host = "local" => x = r

LEMMA SettledRests ==
    ASSUME NEW r \in Row, NEW w \in World, ~w.syncFails, Settled(r, w)
    PROVE  Rests(r, PassRow(r, w))
<1>1. CASE PassRow(r, w) = r BY <1>1 DEF Rests, Free
<1>2. CASE Delayed(r, w)
  <2>1. ~RemoteLive(r, w) BY <1>2 DEF Delayed, RemoteLive, AgentRuns
  <2>2. ShouldRelaunch(r) BY <1>2 DEF Delayed, ShouldRelaunch, RelaunchableStatus
  <2>3. PassRow(r, w) = RelaunchWrite(r, "pending", r.attempts, "none")
    BY <1>2, <2>1, <2>2, PassOpenRemote DEF Delayed, PassRow
  <2> QED BY <1>2, <2>3 DEF RelaunchWrite, Rests, Free, Delayed, Terminal, Row
<1> QED BY <1>1, <1>2 DEF Settled

(* The row is settled unless something changed since the last pass.            *)
Quiet == ~fresh /\ ~world.syncFails => Settled(row, world)

LEMMA NextQuiet ==
    ASSUME Inv, Quiet, [Next]_vars
    PROVE  Quiet'
<1>1. CASE Reconcile
  <2>1. SUFFICES ASSUME ~fresh', ~world'.syncFails PROVE Settled(row', world')
    BY DEF Quiet
  <2>2. /\ row' = PassRow(row, world) /\ fresh' = ReconcileItem(row, row, world).kills
        /\ world' = IF ReconcileItem(row, row, world).kills
                    THEN [world EXCEPT !.live = FALSE, !.prompt = FALSE] ELSE world
    BY <1>1 DEF Reconcile, Pass, PassRow
  <2>3. world' = world /\ ~ReconcileItem(row, row, world).kills BY <2>1, <2>2
  <2>4. row \in Row /\ ConsistentRow(row) /\ world \in World BY DEF Inv, TypeOK
  <2>5. Settled(PassRow(row, world), world) BY <2>1, <2>3, <2>4, RepeatSettled
  <2> QED BY <2>2, <2>3, <2>5
<1>2. CASE RecordMoves \/ ExecutorDies \/ PromptShows \/ SyncFlips \/ TimerFires
  BY <1>2, OutsideInv DEF Quiet
<1>3. CASE UNCHANGED vars BY <1>3 DEF vars, Quiet, Settled, PassRow, Delayed
<1> QED BY <1>1, <1>2, <1>3 DEF Next

(* Repeating a pass over unchanged evidence is free: it charges no budget,     *)
(* gives up no item, drops no executor, and leaves a local row as it was.      *)
THEOREM RepeatsAreFree == Spec => RepeatIsFree
<1> DEFINE Unpaid == ~fresh /\ ~fresh' /\ ~world.syncFails
                       => /\ row'.attempts = row.attempts /\ row'.recoveries = row.recoveries
                          /\ row'.agent = row.agent
                          /\ row'.status \in Terminal => row.status \in Terminal
                          /\ row.host = "local" => row' = row
<1>1. ASSUME Inv, Quiet, Next PROVE Unpaid
  <2>1. SUFFICES ASSUME ~fresh, ~fresh', ~world.syncFails PROVE Rests(row, row')
    BY DEF Rests, Free
  <2>2. Reconcile BY <1>1, <2>1, OutsideInv DEF Next
  <2>3. row' = PassRow(row, world) BY <2>2 DEF Reconcile, Pass, PassRow
  <2>4. row \in Row /\ world \in World BY <1>1 DEF Inv, TypeOK
  <2>5. Settled(row, world) BY <1>1, <2>1 DEF Quiet
  <2> QED BY <2>1, <2>3, <2>4, <2>5, SettledRests
<1>2. Inv /\ Quiet /\ [Next]_vars => [Unpaid]_vars BY <1>1
<1>3. Init => Quiet BY DEF Init, Quiet
<1>4. Inv /\ Quiet /\ [Next]_vars => Quiet' BY NextQuiet
<1> QED BY <1>2, <1>3, <1>4, AlwaysInv, PTL DEF Spec, RepeatIsFree
=============================================================================
