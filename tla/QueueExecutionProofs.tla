------------------------- MODULE QueueExecutionProofs -------------------------
(***************************************************************************)
(* Proofs about QueueExecution, for every number of items, every plan and  *)
(* every budget.                                                           *)
(*                                                                         *)
(* Every writer decides on a snapshot.  The inductive invariant Inv says   *)
(* what a snapshot can still be trusted for, however old it is: its agent  *)
(* and its iterations have been charged to the stored row, and a success   *)
(* it shows is one of the record.                                          *)
(***************************************************************************)
EXTENDS QueueExecution, QueueStatusProofs

(* A snapshot of item i that some worker still holds.                          *)
Trusted(i, s) ==
    /\ s \in Row
    /\ s.host = "local"
    /\ s.agent # NoAgent => s.agent <= s.recoveries
    /\ s.recoveries <= row[i].recoveries
    /\ s.status = "success" => record[i].status = "closed:success"

(* An item worker writes the agent it works with.                              *)
Employed(i, w) ==
    /\ Trusted(i, w.item)
    /\ w.agent # NoAgent => w.agent <= w.item.recoveries

Inv ==
    /\ TypeOK
    /\ \A i \in Item : Trusted(i, row[i])
    /\ \A i \in Item : Employed(i, worker[i])
    /\ \A a \in {"run", "stale"} : \A i \in Item : Trusted(i, pass[a].snap[i])

(* What a step may do to each part of the state.                               *)
RunStep == run' \in [status: RunStatus, stop: BOOLEAN, plan: {run.plan}]

RowStep ==
    /\ row' \in [Item -> Row]
    /\ \A i \in Item : /\ GoodRow(row[i], row'[i])
                       /\ row'[i].status = "success" => record[i].status = "closed:success"

OutsideStep ==
    /\ record' \in [Item -> [status: RecordStatus \ {"active"}, by: Agent]]
    /\ \A i \in Item : record[i].status = "closed:success" => record'[i].status = "closed:success"
    /\ live' \in [Item -> SUBSET Agent]
    /\ prompt' \in [Item -> SUBSET Agent] /\ \A i \in Item : prompt'[i] \subseteq live'[i]

PassStep ==
    /\ pass' \in [{"run", "stale"} -> Pass]
    /\ \A a \in {"run", "stale"} : \A i \in Item :
          pass'[a].snap[i] \in {pass[a].snap[i], row[i], FreshRow}

WorkerStep ==
    /\ worker' \in [Item -> Worker]
    /\ \A i \in Item : Employed(i, worker'[i])

RestStep ==
    /\ orphan' \in [Item -> BOOLEAN]
    /\ crashes' \in 0..MaxCrashes /\ ops' \in 0..MaxOps /\ pauses' \in 0..MaxPauses

GoodStep == RunStep /\ RowStep /\ OutsideStep /\ PassStep /\ WorkerStep /\ RestStep

---------------------------------------------------------------------------
LEMMA ItemFacts == Items \in Nat /\ \A i \in Item : i \in Nat /\ i >= 1 /\ i <= Items
BY ExecutionAssumption DEF Item

LEMMA FreshRowFine ==
    /\ FreshRow \in Row /\ ConsistentRow(FreshRow) /\ FreshRow.host = "local"
    /\ FreshRow.agent = NoAgent /\ FreshRow.recoveries = 0 /\ FreshRow.status = "pending"
    /\ FreshRow.attempts = 0
<1>1. 0 \in 0..(MaxIterations - 1) /\ 0 \in 0..MaxRetries BY BudgetAssumption
<1> QED BY <1>1 DEF FreshRow, Row, ItemStatus, Message, Host, ConsistentRow

LEMMA NoPassFine ==
    /\ \A pc \in PassPc : [NoPass EXCEPT !.pc = pc] \in Pass
    /\ NoPass \in Pass
    /\ NoPass.snap = NoSnap /\ NoPass.pc = "off" /\ NoPass.end = "no" /\ NoPass.next = 1
    /\ NoPass.changed = FALSE
    /\ \A i \in Item : NoSnap[i] = FreshRow
<1>1. 1 \in 1..(Items + 1) BY ItemFacts
<1>2. NoSnap \in [Item -> Row] BY FreshRowFine DEF NoSnap
<1> QED BY <1>1, <1>2 DEF NoPass, Pass, PassPc, RunStatus, NoSnap

LEMMA NoWorkerFine ==
    /\ \A pc \in WorkerPc : [NoWorker EXCEPT !.pc = pc] \in Worker
    /\ NoWorker \in Worker
    /\ NoWorker.item = FreshRow /\ NoWorker.agent = NoAgent /\ NoWorker.pc = "none"
    /\ NoWorker.retries = 0
<1>1. 0 \in 0..MaxRetries BY BudgetAssumption
<1> QED BY <1>1, FreshRowFine DEF NoWorker, Worker, WorkerPc

---------------------------------------------------------------------------
(* Every part of a good step keeps the snapshots trustworthy.                  *)
LEMMA InvKept ==
    ASSUME Inv, GoodStep
    PROVE  Inv'
<1>1. \A i \in Item : row[i].recoveries \in Int /\ row'[i].recoveries \in Int
  BY DEF GoodStep, RowStep, Inv, TypeOK, Row
<1>2. ASSUME NEW i \in Item, NEW s, Trusted(i, s)
      PROVE  Trusted(i, s)'
  BY <1>1, <1>2 DEF Trusted, GoodStep, RowStep, OutsideStep, GoodRow, Row
<1>3. ASSUME NEW i \in Item
      PROVE  Trusted(i, row[i])'
  <2>1. /\ row'[i] \in Row /\ ConsistentRow(row'[i]) /\ row'[i].host = "local"
        /\ row'[i].status = "success" => record[i].status = "closed:success"
    BY <1>3 DEF GoodStep, RowStep, GoodRow, Inv, Trusted
  <2> QED BY <1>1, <1>3, <2>1 DEF Trusted, ConsistentRow, GoodStep, OutsideStep
<1>4. ASSUME NEW i \in Item
      PROVE  Employed(i, worker[i])'
  BY <1>2, <1>4 DEF GoodStep, WorkerStep, Employed
<1>5. ASSUME NEW a \in {"run", "stale"}, NEW i \in Item
      PROVE  Trusted(i, pass[a].snap[i])'
  <2>1. Trusted(i, FreshRow)
    BY <1>1, FreshRowFine DEF Trusted, Inv, TypeOK, Row
  <2>2. pass'[a].snap[i] \in {pass[a].snap[i], row[i], FreshRow}
    BY <1>5 DEF GoodStep, PassStep
  <2>3. Trusted(i, pass'[a].snap[i]) BY <1>5, <2>1, <2>2 DEF Inv
  <2> HIDE DEF Inv
  <2>4. \A s : Trusted(i, s) => Trusted(i, s)' BY <1>2
  <2> QED BY <2>3, <1>2
<1>6. TypeOK'
  <2>1. run' \in [status: RunStatus, stop: BOOLEAN, plan: Plans]
    BY DEF GoodStep, RunStep, Inv, TypeOK
  <2>2. \A i \in Item : ConsistentRow(row'[i]) BY DEF GoodStep, RowStep, GoodRow
  <2> QED
    BY <2>1, <2>2 DEF TypeOK, GoodStep, RowStep, OutsideStep, PassStep, WorkerStep, RestStep
<1> QED BY <1>3, <1>4, <1>5, <1>6 DEF Inv

(* The parts a step leaves alone.                                              *)
LEMMA Kept ==
    ASSUME Inv
    PROVE  /\ run' = run => RunStep
           /\ row' = row => RowStep
           /\ UNCHANGED outside => OutsideStep
           /\ pass' = pass => PassStep
           /\ worker' = worker => WorkerStep
           /\ UNCHANGED <<orphan, counters>> => RestStep
<1>1. \A i \in Item : row[i].recoveries \in Int BY DEF Inv, TypeOK, Row
<1>2. row' = row => RowStep BY <1>1 DEF Inv, TypeOK, RowStep, GoodRow, Trusted
<1>3. run' = run => RunStep BY DEF Inv, TypeOK, RunStep
<1>4. UNCHANGED outside => OutsideStep BY DEF Inv, TypeOK, outside, OutsideStep
<1>5. pass' = pass => PassStep BY DEF Inv, TypeOK, PassStep
<1>6. worker' = worker => WorkerStep BY DEF Inv, TypeOK, WorkerStep
<1>7. UNCHANGED <<orphan, counters>> => RestStep BY DEF Inv, TypeOK, counters, RestStep
<1> QED BY <1>2, <1>3, <1>4, <1>5, <1>6, <1>7

(* The parts that one statement of the code changes.                           *)
LEMMA RunSet ==
    ASSUME Inv, NEW s \in RunStatus, RunStatusIs(s)
    PROVE  RunStep
BY DEF Inv, TypeOK, RunStatusIs, RunStep

LEMMA RowSet ==
    ASSUME Inv, NEW i \in Item, NEW r, RowIs(i, r), GoodRow(row[i], r),
           r.status = "success" => record[i].status = "closed:success"
    PROVE  RowStep
<1>1. \A j \in Item : row[j].recoveries \in Int BY DEF Inv, TypeOK, Row
<1>2. r \in Row BY DEF GoodRow
<1>3. row' \in [Item -> Row] BY <1>2 DEF Inv, TypeOK, RowIs
<1>4. \A j \in Item : row'[j] = IF j = i THEN r ELSE row[j] BY DEF Inv, TypeOK, RowIs
<1>5. \A j \in Item : GoodRow(row[j], row[j])
  BY <1>1 DEF Inv, TypeOK, GoodRow
<1> QED BY <1>3, <1>4, <1>5 DEF RowStep, Inv, Trusted

LEMMA RowsSet ==
    ASSUME Inv, row' = [i \in Item |-> row'[i]],
           \A i \in Item : \/ row'[i] = row[i]
                           \/ GoodRow(row[i], row'[i]) /\ row'[i].status # "success"
    PROVE  RowStep
<1>1. \A i \in Item : GoodRow(row[i], row[i]) BY DEF Inv, TypeOK, GoodRow, Row
<1>2. \A i \in Item : GoodRow(row[i], row'[i]) BY <1>1
<1>3. \A i \in Item : row'[i] \in Row BY <1>2 DEF GoodRow
<1>4. row' \in [Item -> Row] BY <1>3
<1> QED BY <1>2, <1>4 DEF RowStep, Inv, Trusted

LEMMA PassSet ==
    ASSUME Inv, NEW a \in {"run", "stale"}, NEW q \in Pass, pass' = [pass EXCEPT ![a] = q],
           \A i \in Item : q.snap[i] \in {pass[a].snap[i], row[i], FreshRow}
    PROVE  PassStep
BY DEF Inv, TypeOK, PassStep

LEMMA WorkerSet ==
    ASSUME Inv, NEW i \in Item, NEW w \in Worker, WorkerIs(i, w), Employed(i, w)
    PROVE  WorkerStep
BY DEF Inv, TypeOK, WorkerStep, WorkerIs

LEMMA IdleWorkerEmployed ==
    ASSUME Inv, NEW i \in Item, NEW pc
    PROVE  Employed(i, [NoWorker EXCEPT !.pc = pc])
<1>1. row[i].recoveries \in 0..(MaxIterations - 1) BY DEF Inv, TypeOK, Row
<1> QED BY <1>1, FreshRowFine DEF Employed, Trusted, NoWorker

LEMMA TerminateStep ==
    ASSUME Inv, NEW i \in Item, NEW agents, Terminate(i, agents), UNCHANGED record
    PROVE  OutsideStep
BY DEF Inv, TypeOK, Terminate, OutsideStep

---------------------------------------------------------------------------
(* A worker that trusts its snapshot decides soundly.                          *)
LEMMA TrustedSnapshot ==
    ASSUME Inv, NEW i \in Item, NEW s, Trusted(i, s)
    PROVE  /\ SnapshotOf(row[i], s)
           /\ row[i] \in Row /\ ConsistentRow(row[i])
           /\ Look(i, s) \in World /\ Look(i, s).record = record[i].status
<1>1. /\ row[i] \in Row /\ ConsistentRow(row[i]) /\ row[i].host = "local"
      /\ row[i].recoveries \in Int
  BY DEF Inv, TypeOK, Trusted, Row
<1>2. /\ s \in Row /\ s.recoveries \in Int
      /\ s.agent # NoAgent => s.agent \in Int
      /\ s.agent # NoAgent => s.agent <= s.recoveries
      /\ s.recoveries <= row[i].recoveries /\ s.host = "local"
  BY BudgetAssumption DEF Trusted, Row, Agent
<1>3. SnapshotOf(row[i], s) BY <1>1, <1>2 DEF SnapshotOf
<1>4. record[i].status \in RecordStatus BY DEF Inv, TypeOK
<1>5. Busy(i) \in BOOLEAN BY DEF Busy, Inv, TypeOK
<1>6. (s.agent \in live[i]) \in BOOLEAN /\ (s.agent \in prompt[i]) \in BOOLEAN OBVIOUS
<1> HIDE DEF Inv
<1>7. Look(i, s) \in World /\ Look(i, s).record = record[i].status
  BY <1>4, <1>5, <1>6 DEF Look, World
<1> QED BY <1>1, <1>3, <1>7

LEMMA WorkerResultSound ==
    ASSUME NEW now \in Row, ConsistentRow(now), NEW snap, SnapshotOf(now, snap),
           NEW agent \in Agent \cup {NoAgent}, agent # NoAgent => agent <= now.recoveries,
           NEW attempts \in 0..MaxRetries, NEW action \in GivesUp
    PROVE  LET r == WorkerResult(now, snap, agent, attempts, action)
           IN  /\ GoodResult(now, r)
               /\ r.row.status = "success" => action = "MarkSuccess"
<1> DEFINE put(status) == WriteItem(now, status, "plain", agent, attempts, "none")
           r == WorkerResult(now, snap, agent, attempts, action)
<1>1. \A s \in ItemStatus \ {"pending"} : GoodRow(now, put(s)) /\ put(s).status = s
  BY WriteItemSound
<1>2. {"success", "paused", "failed"} \subseteq ItemStatus \ {"pending"} BY DEF ItemStatus
<1> HIDE DEF put
<1>3. \A s \in {"success", "paused", "failed"} :
        \A end \in {"no", "failed", "stopped"}, kills \in BOOLEAN :
          /\ GoodResult(now, Result(put(s), TRUE, end, FALSE, kills))
          /\ Result(put(s), TRUE, end, FALSE, kills).row.status = s
  BY <1>1, <1>2 DEF GoodResult, Result
<1>4. (agent # NoAgent) \in BOOLEAN OBVIOUS
<1>5. CASE action = "MarkSuccess"
  <2>1. r = Result(put("success"), TRUE, "no", FALSE, agent # NoAgent)
    BY <1>5 DEF WorkerResult, put
  <2> QED BY <1>3, <1>4, <1>5, <2>1
<1>6. CASE action = "MarkPaused"
  <2>1. r = Result(put("paused"), TRUE, "stopped", FALSE, FALSE) BY <1>6 DEF WorkerResult, put
  <2> HIDE DEF r
  <2> QED BY <1>3, <2>1 DEF r
<1>7. CASE action = "MarkFailed"
  <2>1. r = Result(put("failed"), TRUE, "no", FALSE, FALSE) BY <1>7 DEF WorkerResult, put
  <2> HIDE DEF r
  <2> QED BY <1>3, <2>1 DEF r
<1>8. CASE action = "BoundedRelaunch"
  <2>1. r = BoundedRelaunch(now, snap, attempts) BY <1>8 DEF WorkerResult
  <2>2. GoodResult(now, r) /\ r.row.status \in {"waiting", "failed"} BY <2>1, RelaunchSound
  <2> QED BY <2>2
<1>9. CASE action = "RecoverExecution"
  <2>1. \/ r = RecoverOrFail(now, snap, "plain")
        \/ r = Result(put("failed"), TRUE, "no", FALSE, FALSE)
    BY <1>9 DEF WorkerResult, put
  <2>2. /\ GoodResult(now, RecoverOrFail(now, snap, "plain"))
        /\ RecoverOrFail(now, snap, "plain").row.status \in {"pending", "failed"}
    BY RecoverSound
  <2> HIDE DEF r
  <2>3. GoodResult(now, r) /\ r.row.status # "success" BY <1>3, <2>1, <2>2
  <2> QED BY <2>3 DEF r
<1> QED BY <1>5, <1>6, <1>7, <1>8, <1>9 DEF GivesUp

LEMMA StaleItemSound ==
    ASSUME NEW now \in Row, ConsistentRow(now), NEW snap, SnapshotOf(now, snap), NEW w \in World
    PROVE  LET h == StaleItem(now, snap, w)
           IN  /\ GoodResult(now, h.result)
               /\ SuccessJustified(now, snap, w, h.result)
               /\ h.how \in {"off", "next", "spawn"}
               /\ h.how = "next" => snap.status = "success" \/ w.record = "closed:success"
<1> DEFINE e == CollectEvidence(snap, w)
           d == Reduce(e)
           settled == IF e.record = "none" THEN d.action = "BoundedRelaunch" ELSE d.handled
           h == StaleItem(now, snap, w)
           y == Settle(now, snap, "failed", "exited")
<1>0. snap \in Row BY DEF SnapshotOf
<1>1. /\ d.action \in Action /\ (d.action = "MarkSuccess" => w.record = "closed:success")
      /\ d.effective = "ClosedSuccess" => w.record = "closed:success"
  BY <1>0, EvidenceSound, ReduceSound
<1>2. /\ \/ h.result = ExecuteReduction(now, snap, w, d.action)
         \/ h.result = MarkSuccess(now, snap, w) /\ snap.status = "success"
         \/ h.result = Untouched(now)
         \/ h.result = Result(now, FALSE, "failed", FALSE, FALSE)
         \/ h.result = Result(y, TRUE, "failed", FALSE, FALSE)
         \/ h.result = Result(now, FALSE, "no", TRUE, FALSE)
      /\ h.how \in {"off", "next", "spawn"}
      /\ h.how = "next" => (IF settled THEN d.effective = "ClosedSuccess"
                                       ELSE snap.status = "success")
  <2> HIDE DEF d, settled
  <2>1. h = [result |-> h.result, how |-> h.how] BY DEF StaleItem
  <2> QED BY DEF StaleItem, settled, d
<1> HIDE DEF d, e, settled
<1>3. h.how = "next" => snap.status = "success" \/ w.record = "closed:success" BY <1>1, <1>2
<1>4. GoodRow(now, y) /\ y.status = "failed" BY SettleSound DEF ItemStatus, FailedOrBlocked
<1> HIDE DEF y
<1>5. /\ GoodResult(now, Result(y, TRUE, "failed", FALSE, FALSE))
      /\ Result(y, TRUE, "failed", FALSE, FALSE).row = y
  BY <1>4 DEF GoodResult, Result
<1>6. /\ GoodResult(now, Untouched(now)) /\ Untouched(now).row = now
      /\ GoodResult(now, Result(now, FALSE, "failed", FALSE, FALSE))
      /\ Result(now, FALSE, "failed", FALSE, FALSE).row = now
      /\ GoodResult(now, Result(now, FALSE, "no", TRUE, FALSE))
      /\ Result(now, FALSE, "no", TRUE, FALSE).row = now
  BY UntouchedSound, KeptSound
<1>7. /\ GoodResult(now, ExecuteReduction(now, snap, w, d.action))
      /\ ExecuteReduction(now, snap, w, d.action).row.status = "success"
         => now.status = "success" \/ d.action = "MarkSuccess"
  BY <1>1, ExecuteSound
<1>8. GoodResult(now, MarkSuccess(now, snap, w)) BY MarksSound
<1> HIDE DEF h
<1>9. /\ GoodResult(now, h.result)
      /\ h.result.row.status = "success"
         => now.status = "success" \/ snap.status = "success" \/ w.record = "closed:success"
  BY <1>1, <1>2, <1>4, <1>5, <1>6, <1>7, <1>8
<1> QED BY <1>2, <1>3, <1>9 DEF SuccessJustified, h

---------------------------------------------------------------------------
(* reconcile_queue_task_statuses, on behalf of the run worker or of the        *)
(* reconciler.                                                                 *)
LEMMA ReconcileStep ==
    ASSUME Inv, NEW a \in {"run", "stale"}, ReconcileNext(a)
    PROVE  GoodStep
<1> DEFINE i == pass[a].next
           s == pass[a].snap[i]
           r == ReconcileItem(row[i], s, Look(i, s))
           q == [pass[a] EXCEPT !.next = i + 1, !.changed = pass[a].changed \/ r.changed,
                                !.end = IF pass[a].end = "no" THEN r.end ELSE pass[a].end]
<1>1. /\ pass[a].pc = "recon" /\ i <= Items
      /\ RowIs(i, r.row)
      /\ IF r.runs THEN RunStatusIs("running") ELSE UNCHANGED run
      /\ IF r.kills THEN Terminate(i, {s.agent}) ELSE UNCHANGED <<live, prompt>>
      /\ pass' = [pass EXCEPT ![a] = q]
      /\ UNCHANGED <<record, worker, orphan, counters>>
  BY DEF ReconcileNext
<1>2. pass[a] \in Pass BY DEF Inv, TypeOK
<1>3. i \in Item BY <1>1, <1>2, ItemFacts DEF Pass, Item
<1>4. Trusted(i, s) BY <1>3 DEF Inv
<1>5. GoodResult(row[i], r) /\ SuccessJustified(row[i], s, Look(i, s), r)
  BY <1>3, <1>4, TrustedSnapshot, ReconcileSound
<1> HIDE DEF r
<1>6. /\ GoodRow(row[i], r.row)
      /\ r.changed \in BOOLEAN /\ r.end \in {"no", "failed", "stopped"}
      /\ r.row.status = "success" => record[i].status = "closed:success"
  BY <1>3, <1>4, <1>5, TrustedSnapshot DEF SuccessJustified, GoodResult, Inv, Trusted
<1>7. i + 1 \in 1..(Items + 1) BY <1>3, ItemFacts
<1>8. q \in Pass /\ q.snap = pass[a].snap
  <2>1. (pass[a].changed \/ r.changed) \in BOOLEAN OBVIOUS
  <2> QED BY <1>2, <1>6, <1>7, <2>1 DEF Pass
<1> HIDE DEF q, s, i
<1>9. PassStep BY <1>1, <1>8, PassSet
<1>10. RunStep BY <1>1, RunSet, Kept DEF RunStatus
<1>11. RowStep BY <1>1, <1>3, <1>6, RowSet
<1>12. OutsideStep BY <1>1, <1>3, Kept, TerminateStep DEF outside
<1>13. WorkerStep /\ RestStep BY <1>1, Kept
<1> QED BY <1>9, <1>10, <1>11, <1>12, <1>13 DEF GoodStep

(* The run worker's pass restarts, goes on or ends.                            *)
LEMMA NewPass ==
    ASSUME Inv, NEW a \in {"run", "stale"}, NEW pc \in PassPc,
           pass' = [pass EXCEPT ![a] = [NoPass EXCEPT !.pc = pc]]
    PROVE  PassStep
<1> DEFINE q == [NoPass EXCEPT !.pc = pc]
<1>1. q \in Pass /\ q.snap = NoSnap BY NoPassFine DEF NoPass
<1>2. \A i \in Item : q.snap[i] = FreshRow BY <1>1, NoPassFine
<1> HIDE DEF q
<1>3. pass' = [pass EXCEPT ![a] = q] BY DEF q
<1> QED BY <1>1, <1>2, <1>3, PassSet

LEMMA SnapPass ==
    ASSUME NEW pc \in PassPc, NEW snap \in [Item -> Row]
    PROVE  LET q == [NoPass EXCEPT !.pc = pc, !.snap = snap]
           IN  q \in Pass /\ q.snap = snap
<1>1. NoPass \in Pass BY NoPassFine
<1> QED BY <1>1 DEF Pass

LEMMA PassMoves ==
    ASSUME Inv, NEW a \in {"run", "stale"}, NEW pc \in PassPc,
           pass' = [pass EXCEPT ![a].pc = pc]
    PROVE  PassStep
<1> DEFINE q == [pass[a] EXCEPT !.pc = pc]
<1>1. q \in Pass /\ q.snap = pass[a].snap BY DEF Inv, TypeOK, Pass
<1> HIDE DEF q
<1>2. pass' = [pass EXCEPT ![a] = q] BY DEF q
<1> QED BY <1>1, <1>2, PassSet

LEMMA SpawnedStep ==
    ASSUME Inv, NEW p, pass' = Spawned(p),
           \/ p = pass
           \/ p = [pass EXCEPT !["stale"] = NoPass]
    PROVE  PassStep
<1> DEFINE q == [NoPass EXCEPT !.pc = "begin"]
<1>1. /\ q \in Pass /\ q.snap = NoSnap /\ NoPass \in Pass /\ NoPass.snap = NoSnap
      /\ \A i \in Item : NoSnap[i] = FreshRow
  BY NoPassFine DEF NoPass, PassPc
<1> HIDE DEF q
<1>2. /\ p \in [{"run", "stale"} -> Pass]
      /\ \A a \in {"run", "stale"}, i \in Item : p[a].snap[i] \in {pass[a].snap[i], FreshRow}
  BY <1>1 DEF Inv, TypeOK
<1>3. pass' = p \/ pass' = [p EXCEPT !["run"] = q] BY DEF Spawned, q
<1> QED BY <1>1, <1>2, <1>3 DEF PassStep

(* pause_web_queue_item and the other writes of one status.                    *)
LEMMA PauseSound ==
    ASSUME Inv, NEW i \in Item, NEW s, NEW agent \in Agent \cup {NoAgent},
           agent # NoAgent => agent <= row[i].recoveries, NEW attempts \in 0..MaxRetries
    PROVE  /\ GoodRow(row[i], PauseWrite(i, s, agent, attempts))
           /\ PauseWrite(i, s, agent, attempts).status = "stopped"
<1>1. row[i] \in Row /\ ConsistentRow(row[i]) BY DEF Inv, TypeOK
<1> QED BY <1>1, WriteItemSound DEF PauseWrite, ItemStatus

LEMMA SnapshotAgent ==
    ASSUME Inv, NEW i \in Item, NEW s, Trusted(i, s)
    PROVE  /\ s.agent \in Agent \cup {NoAgent}
           /\ s.agent # NoAgent => s.agent <= row[i].recoveries
           /\ s.attempts \in 0..MaxRetries
BY TrustedSnapshot DEF SnapshotOf, Row

LEMMA GoodStays ==
    ASSUME Inv, NEW i \in Item
    PROVE  GoodRow(row[i], row[i])
BY DEF Inv, TypeOK, GoodRow, Row

LEMMA PassOver ==
    ASSUME Inv, NEW a \in {"run", "stale"}, pass' = [pass EXCEPT ![a] = NoPass]
    PROVE  PassStep
<1>1. NoPass \in Pass /\ \A i \in Item : NoPass.snap[i] = FreshRow BY NoPassFine
<1> QED BY <1>1, PassSet

(* queue_ready_items: what the run worker writes and whom it spawns.           *)
LEMMA SpawnsSound ==
    ASSUME Inv, NEW admitted \in SUBSET Item, Spawns(admitted)
    PROVE  RowStep /\ WorkerStep
<1> DEFINE snap == pass["run"].snap
           ready == {i \in Item : ReadyToSpawn(i, snap)}
           spawned == {i \in admitted : row[i].status \notin Terminal /\ row[i].timer = "none"}
           wait(i) == WriteItem(row[i], "waiting", "plain", snap[i].agent, snap[i].attempts,
                                "armed")
           w(i) == [NoWorker EXCEPT !.pc = "preflight", !.item = snap[i]]
<1>1. /\ row' = [i \in Item |-> IF i \in ready \ admitted THEN wait(i) ELSE row[i]]
      /\ worker' = [i \in Item |-> IF i \in spawned THEN w(i) ELSE worker[i]]
  BY DEF Spawns
<1>2. ASSUME NEW i \in Item
      PROVE  GoodRow(row[i], wait(i)) /\ wait(i).status = "waiting"
  <2>1. row[i] \in Row /\ ConsistentRow(row[i]) /\ Trusted(i, snap[i]) BY DEF Inv, TypeOK
  <2> QED BY <2>1, SnapshotAgent, WriteItemSound DEF ItemStatus
<1>3. ASSUME NEW i \in Item
      PROVE  w(i) \in Worker /\ Employed(i, w(i))
  <2>1. Trusted(i, snap[i]) BY DEF Inv
  <2>2. snap[i] \in Row BY <2>1 DEF Trusted
  <2>3. NoWorker \in Worker /\ "preflight" \in WorkerPc BY NoWorkerFine DEF WorkerPc
  <2>4. w(i) \in Worker BY <2>2, <2>3 DEF Worker
  <2>5. w(i).item = snap[i] /\ w(i).agent = NoAgent BY DEF NoWorker
  <2> QED BY <2>1, <2>4, <2>5 DEF Employed
<1> HIDE DEF wait, w, ready, spawned
<1>4. ASSUME NEW i \in Item
      PROVE  /\ GoodRow(row[i], row'[i])
             /\ row'[i].status = "success" => record[i].status = "closed:success"
  <2>1. row'[i] = wait(i) \/ row'[i] = row[i] BY <1>1
  <2> QED BY <1>2, <2>1, GoodStays DEF Inv, Trusted
<1>5. row' \in [Item -> Row]
  <2>1. \A i \in Item : row'[i] \in Row BY <1>4 DEF GoodRow
  <2> QED BY <1>1, <2>1
<1>6. WorkerStep
  <2>1. \A i \in Item : worker'[i] = w(i) \/ worker'[i] = worker[i] BY <1>1
  <2>2. \A i \in Item : worker'[i] \in Worker /\ Employed(i, worker'[i])
    BY <1>3, <2>1 DEF Inv, TypeOK
  <2> QED BY <1>1, <2>2 DEF WorkerStep
<1> QED BY <1>4, <1>5, <1>6 DEF RowStep

LEMMA RunWorkerStep ==
    ASSUME Inv, RunWorker
    PROVE  GoodStep
<1> USE DEF RunStatus, PassPc
<1>1. CASE RunBegin
  <2>1. /\ RunStatusIs("running") /\ pass' = [pass EXCEPT !["run"].pc = "load"]
        /\ UNCHANGED <<row, outside, worker, orphan, counters>>
    BY <1>1 DEF RunBegin
  <2>2. RunStep BY <2>1, RunSet
  <2>3. PassStep BY <2>1, PassMoves
  <2> QED BY <2>1, <2>2, <2>3, Kept DEF GoodStep
<1>2. CASE RunLoad
  <2> DEFINE q == [NoPass EXCEPT !.pc = "recon", !.snap = row]
  <2>1. /\ pass' = [pass EXCEPT !["run"] = q]
        /\ UNCHANGED <<run, row, outside, worker, orphan, counters>>
    BY <1>2 DEF RunLoad, db
  <2>2. row \in [Item -> Row] BY DEF Inv, TypeOK
  <2>3. q \in Pass /\ q.snap = row BY <2>2, SnapPass
  <2> HIDE DEF q
  <2>4. PassStep BY <2>1, <2>3, PassSet
  <2> QED BY <2>1, <2>4, Kept DEF GoodStep
<1>3. CASE ReconcileNext("run")
  BY <1>3, ReconcileStep
<1>4. CASE RunEnds
  <2>1. pass["run"].end \in {"no", "failed", "stopped"} BY DEF Inv, TypeOK, Pass
  <2>2. PICK s \in RunStatus : RunLeaves(s)
    BY <1>4, <2>1 DEF RunEnds
  <2>3. /\ RunStatusIs(s) /\ pass' = [pass EXCEPT !["run"] = [NoPass EXCEPT !.pc = "exit"]]
        /\ UNCHANGED <<row, outside, worker, orphan, counters>>
    BY <1>4, <2>2 DEF RunEnds, RunLeaves
  <2>4. RunStep BY <2>3, RunSet
  <2>5. PassStep BY <2>3, NewPass
  <2> QED BY <2>3, <2>4, <2>5, Kept DEF GoodStep
<1>5. CASE RunReloads
  <2>1. /\ pass' = [pass EXCEPT !["run"].pc = "load"]
        /\ UNCHANGED <<run, row, outside, worker, orphan, counters>>
    BY <1>5 DEF RunReloads, db
  <2>2. PassStep BY <2>1, PassMoves
  <2> QED BY <2>1, <2>2, Kept DEF GoodStep
<1>6. CASE RunStops
  <2> DEFINE snap == pass["run"].snap
  <2>1. /\ row' = [i \in Item |-> IF snap[i].status \notin Terminal /\ ~Busy(i)
                                  THEN PauseWrite(i, snap[i], snap[i].agent, snap[i].attempts)
                                  ELSE row[i]]
        /\ RunLeaves("stopped")
        /\ UNCHANGED <<outside, worker, orphan, counters>>
    BY <1>6 DEF RunStops
  <2>2. RunStep /\ PassStep BY <2>1, RunSet, NewPass DEF RunLeaves
  <2>3. ASSUME NEW i \in Item
        PROVE  /\ GoodRow(row[i], row'[i])
               /\ row'[i].status = "success" => record[i].status = "closed:success"
    <3> DEFINE x == PauseWrite(i, snap[i], snap[i].agent, snap[i].attempts)
    <3>1. Trusted(i, snap[i]) BY DEF Inv
    <3>2. GoodRow(row[i], x) /\ x.status = "stopped" BY <3>1, SnapshotAgent, PauseSound
    <3>3. GoodRow(row[i], row[i]) BY GoodStays
    <3> HIDE DEF x
    <3>4. row'[i] = x \/ row'[i] = row[i] BY <2>1 DEF x
    <3> QED BY <3>2, <3>3, <3>4 DEF Inv, Trusted
  <2>4. row' \in [Item -> Row]
    <3>1. \A i \in Item : row'[i] \in Row BY <2>3 DEF GoodRow
    <3> QED BY <2>1, <3>1
  <2>5. RowStep BY <2>3, <2>4 DEF RowStep
  <2> QED BY <2>1, <2>2, <2>5, Kept DEF GoodStep
<1>7. CASE RunGoesOn
  <2>1. /\ pass' = [pass EXCEPT !["run"].pc = "spawn"]
        /\ UNCHANGED <<run, row, outside, worker, orphan, counters>>
    BY <1>7 DEF RunGoesOn, db
  <2>2. PassStep BY <2>1, PassMoves
  <2> QED BY <2>1, <2>2, Kept DEF GoodStep
<1>8. CASE RunSpawns
  <2>1. PICK admitted \in SUBSET Item : Spawns(admitted) BY <1>8 DEF RunSpawns
  <2>2. /\ RunStatusIs("running")
        /\ pass' = [pass EXCEPT !["run"] = [NoPass EXCEPT !.pc = "load"]]
        /\ UNCHANGED <<outside, orphan, counters>>
    BY <1>8 DEF RunSpawns
  <2>3. RunStep /\ PassStep BY <2>2, RunSet, NewPass
  <2>4. RowStep /\ WorkerStep BY <2>1, SpawnsSound
  <2> QED BY <2>2, <2>3, <2>4, Kept DEF GoodStep
<1>9. CASE RunExits
  <2> DEFINE q == NoPass
  <2>1. /\ pass' = [pass EXCEPT !["run"] = NoPass]
        /\ UNCHANGED <<run, row, outside, worker, orphan, counters>>
    BY <1>9 DEF RunExits, db
  <2>2. PassStep BY <2>1, PassOver
  <2> QED BY <2>1, <2>2, Kept DEF GoodStep
<1> QED BY <1>1, <1>2, <1>3, <1>4, <1>5, <1>6, <1>7, <1>8, <1>9 DEF RunWorker

---------------------------------------------------------------------------
(* The writes of a decision that trusts its snapshot.                          *)
LEMMA WritesStep ==
    ASSUME Inv, NEW i \in Item, NEW r, NEW agent, GoodResult(row[i], r),
           r.row.status = "success" => record[i].status = "closed:success",
           Writes(i, r, agent)
    PROVE  RunStep /\ RowStep /\ OutsideStep
<1>1. /\ RowIs(i, r.row)
      /\ IF r.end # "no" THEN RunStatusIs(r.end)
         ELSE IF r.runs THEN RunStatusIs("running") ELSE UNCHANGED run
      /\ IF r.kills THEN Terminate(i, {agent}) ELSE UNCHANGED <<live, prompt>>
      /\ UNCHANGED record
  BY DEF Writes
<1>2. GoodRow(row[i], r.row) /\ r.end \in {"no", "failed", "stopped"} BY DEF GoodResult
<1>3. RowStep BY <1>1, <1>2, RowSet
<1>4. RunStep BY <1>1, <1>2, RunSet, Kept DEF RunStatus
<1>5. OutsideStep BY <1>1, TerminateStep, Kept DEF outside
<1> QED BY <1>3, <1>4, <1>5

LEMMA StaleDecision ==
    ASSUME Inv, NEW i \in Item
    PROVE  LET s == pass["stale"].snap[i]
               h == StaleItem(row[i], s, Look(i, s))
           IN  /\ GoodResult(row[i], h.result)
               /\ h.result.row.status = "success" => record[i].status = "closed:success"
               /\ h.how \in {"off", "next", "spawn"}
               /\ h.how = "next" => record[i].status = "closed:success"
<1> DEFINE s == pass["stale"].snap[i]
           h == StaleItem(row[i], s, Look(i, s))
<1>1. Trusted(i, s) /\ Trusted(i, row[i]) BY DEF Inv
<1>2. /\ SnapshotOf(row[i], s) /\ row[i] \in Row /\ ConsistentRow(row[i])
      /\ Look(i, s) \in World /\ Look(i, s).record = record[i].status
  BY <1>1, TrustedSnapshot
<1>3. /\ GoodResult(row[i], h.result) /\ SuccessJustified(row[i], s, Look(i, s), h.result)
      /\ h.how \in {"off", "next", "spawn"}
      /\ h.how = "next" => s.status = "success" \/ Look(i, s).record = "closed:success"
  BY <1>2, StaleItemSound
<1> HIDE DEF h
<1>4. /\ GoodResult(row[i], h.result)
      /\ h.result.row.status = "success" => record[i].status = "closed:success"
      /\ h.how \in {"off", "next", "spawn"}
      /\ h.how = "next" => record[i].status = "closed:success"
  BY <1>1, <1>2, <1>3 DEF SuccessJustified, Trusted
<1> QED BY <1>4 DEF h

LEMMA ReconcilerStep ==
    ASSUME Inv, Reconciler
    PROVE  GoodStep
<1>1. CASE StaleLoad
  <2> DEFINE q == [NoPass EXCEPT !.pc = "orphans", !.snap = row, !.was = run.status]
  <2>1. /\ pass' = [pass EXCEPT !["stale"] = q]
        /\ UNCHANGED <<run, row, outside, worker, orphan, counters>>
    BY <1>1 DEF StaleLoad, db
  <2>2. NoPass \in Pass /\ row \in [Item -> Row] /\ run.status \in RunStatus
    BY NoPassFine DEF Inv, TypeOK
  <2>3. q \in Pass /\ q.snap = row BY <2>2 DEF Pass, PassPc
  <2> HIDE DEF q
  <2>4. PassStep BY <2>1, <2>3, PassSet
  <2> QED BY <2>1, <2>4, Kept DEF GoodStep
<1>2. CASE StaleCleansOrphans
  <2> DEFINE named(i) == {pass["stale"].snap[i].agent}
  <2>1. /\ live' = [i \in Item |-> live[i] \cap named(i)]
        /\ prompt' = [i \in Item |-> prompt[i] \cap named(i)]
        /\ pass' = [pass EXCEPT !["stale"].pc = "recon"]
        /\ UNCHANGED <<run, row, record, worker, orphan, counters>>
    BY <1>2 DEF StaleCleansOrphans, db
  <2>2. PassStep BY <2>1, PassMoves DEF PassPc
  <2> HIDE DEF named
  <2>3. OutsideStep BY <2>1 DEF OutsideStep, Inv, TypeOK
  <2> QED BY <2>1, <2>2, <2>3, Kept DEF GoodStep
<1>3. CASE ReconcileNext("stale")
  BY <1>3, ReconcileStep
<1>4. CASE StaleDecides
  <2>1. PICK s \in [Item -> Row] :
            /\ s \in {row, pass["stale"].snap}
            /\ \/ pass' = [pass EXCEPT !["stale"] = [NoPass EXCEPT !.pc = "resume", !.snap = s]]
               \/ pass' = [pass EXCEPT !["stale"] = NoPass]
    BY <1>4 DEF StaleDecides, Inv, TypeOK, Pass
  <2> DEFINE q == [NoPass EXCEPT !.pc = "resume", !.snap = s]
  <2>2. q \in Pass /\ q.snap = s BY SnapPass DEF PassPc
  <2> HIDE DEF q
  <2>3. ASSUME pass' = [pass EXCEPT !["stale"] = q]
        PROVE  PassStep
    <3>1. \A i \in Item : q.snap[i] \in {pass["stale"].snap[i], row[i], FreshRow} BY <2>1, <2>2
    <3>2. PassStep BY <2>2, <2>3, <3>1, PassSet
    <3> QED BY <3>2
  <2>4. PassStep BY <2>1, <2>3, PassOver DEF q
  <2>5. /\ \/ RunStatusIs("success") \/ RunStatusIs("running") \/ UNCHANGED run
           \/ pass["stale"].end # "no" /\ RunStatusIs(pass["stale"].end)
        /\ UNCHANGED <<row, outside, worker, orphan, counters>>
    BY <1>4 DEF StaleDecides
  <2>6. pass["stale"].end \in {"no", "failed", "stopped"} BY DEF Inv, TypeOK, Pass
  <2>7. RunStep BY <2>5, <2>6, RunSet, Kept DEF RunStatus
  <2> QED BY <2>4, <2>5, <2>7, Kept DEF GoodStep
<1>5. CASE StaleResumes
  <2> DEFINE i == pass["stale"].next
             s == pass["stale"].snap[i]
             h == StaleItem(row[i], s, Look(i, s))
             over == [pass EXCEPT !["stale"] = NoPass]
  <2>1. /\ pass["stale"].pc = "resume" /\ i <= Items
        /\ Writes(i, h.result, s.agent)
        /\ pass' = CASE h.how = "next" -> [pass EXCEPT !["stale"].next = i + 1]
                     [] h.how = "spawn" -> Spawned(over)
                     [] h.how = "off" -> over
        /\ UNCHANGED <<worker, orphan, counters>>
    BY <1>5 DEF StaleResumes
  <2>2. pass["stale"] \in Pass BY DEF Inv, TypeOK
  <2>3. i \in Item BY <2>1, <2>2, ItemFacts DEF Pass, Item
  <2>4. /\ GoodResult(row[i], h.result)
        /\ h.result.row.status = "success" => record[i].status = "closed:success"
        /\ h.how \in {"off", "next", "spawn"}
    BY <2>3, StaleDecision
  <2> DEFINE q == [pass["stale"] EXCEPT !.next = i + 1]
  <2>5. q \in Pass /\ q.snap = pass["stale"].snap
    <3>1. i + 1 \in 1..(Items + 1) BY <2>3, ItemFacts
    <3> HIDE DEF h
    <3> QED BY <2>2, <3>1 DEF Pass
  <2> HIDE DEF h, s
  <2>6. RunStep /\ RowStep /\ OutsideStep BY <2>1, <2>3, <2>4, WritesStep
  <2>7. PassStep
    <3>1. \/ pass' = [pass EXCEPT !["stale"] = q] \/ pass' = Spawned(over) \/ pass' = over
      BY <2>1, <2>4
    <3>2. \A j \in Item : q.snap[j] \in {pass["stale"].snap[j], row[j], FreshRow} BY <2>5
    <3> HIDE DEF q, i
    <3> QED BY <2>5, <3>1, <3>2, PassSet, SpawnedStep, PassOver
  <2> QED BY <2>1, <2>6, <2>7, Kept DEF GoodStep
<1>6. CASE StaleSucceeds
  <2>1. /\ RunStatusIs("success") /\ pass' = [pass EXCEPT !["stale"] = NoPass]
        /\ UNCHANGED <<row, outside, worker, orphan, counters>>
    BY <1>6 DEF StaleSucceeds
  <2>2. RunStep /\ PassStep BY <2>1, RunSet, PassOver DEF RunStatus
  <2> QED BY <2>1, <2>2, Kept DEF GoodStep
<1> QED BY <1>1, <1>2, <1>3, <1>4, <1>5, <1>6 DEF Reconciler

---------------------------------------------------------------------------
(* The item worker.                                                            *)
LEMMA WorkerFacts ==
    ASSUME Inv, NEW i \in Item
    PROVE  LET w == worker[i]
           IN  /\ w \in Worker /\ Trusted(i, w.item)
               /\ w.agent \in Agent \cup {NoAgent}
               /\ w.agent # NoAgent => w.agent <= w.item.recoveries /\ w.agent <= row[i].recoveries
               /\ w.retries \in 0..MaxRetries
               /\ w.item.recoveries \in Agent /\ w.item.recoveries <= row[i].recoveries
               /\ w.item.attempts \in 0..MaxRetries
<1>1. worker[i] \in Worker /\ Employed(i, worker[i]) BY DEF Inv, TypeOK
<1>2. worker[i].item \in Row /\ row[i].recoveries \in Int
  BY <1>1 DEF Worker, Inv, TypeOK, Row
<1>3. /\ worker[i].agent \in Agent \cup {NoAgent}
      /\ worker[i].agent # NoAgent => worker[i].agent \in Int
  BY <1>1, BudgetAssumption DEF Worker, Agent
<1> QED BY <1>1, <1>2, <1>3 DEF Employed, Trusted, Worker, Row, Agent

(* What an item worker writes without a decision.                              *)
LEMMA WorkerWrites ==
    ASSUME Inv, NEW i \in Item, NEW status \in ItemStatus \ {"pending", "success"},
           NEW agent \in Agent \cup {NoAgent}, agent # NoAgent => agent <= row[i].recoveries,
           NEW attempts \in 0..MaxRetries, NEW timer \in {"none", "armed"},
           timer = "armed" => status = "waiting",
           RowIs(i, WriteItem(row[i], status, "plain", agent, attempts, timer))
    PROVE  RowStep
<1> DEFINE r == WriteItem(row[i], status, "plain", agent, attempts, timer)
<1>1. row[i] \in Row /\ ConsistentRow(row[i]) BY DEF Inv, TypeOK
<1>2. GoodRow(row[i], r) /\ r.status # "success" BY <1>1, WriteItemSound
<1> QED BY <1>2, RowSet

LEMMA WorkerKeepsItem ==
    ASSUME Inv, NEW i \in Item, NEW w \in Worker, WorkerIs(i, w), w.item = worker[i].item,
           w.agent \in {worker[i].agent, NoAgent, worker[i].item.recoveries}
    PROVE  WorkerStep
<1>1. /\ worker[i].item.recoveries \in Agent /\ worker[i].item.recoveries \in Int
      /\ Employed(i, worker[i])
  BY WorkerFacts DEF Inv, Agent
<1>2. Employed(i, w) BY <1>1 DEF Employed
<1> QED BY <1>2, WorkerSet

LEMMA WorkerMoves ==
    ASSUME Inv, NEW i \in Item, NEW pc \in WorkerPc, NEW retries \in 0..MaxRetries,
           \/ WorkerIs(i, [worker[i] EXCEPT !.pc = pc])
           \/ WorkerIs(i, [worker[i] EXCEPT !.pc = pc, !.retries = retries])
           \/ WorkerIs(i, [worker[i] EXCEPT !.pc = pc, !.agent = worker[i].item.recoveries])
           \/ WorkerIs(i, [[worker[i] EXCEPT !.retries = retries, !.agent = NoAgent]
                           EXCEPT !.pc = pc])
    PROVE  WorkerStep
<1> DEFINE now == worker[i]
           a == [now EXCEPT !.pc = pc]
           b == [now EXCEPT !.pc = pc, !.retries = retries]
           c == [now EXCEPT !.pc = pc, !.agent = now.item.recoveries]
           d == [[now EXCEPT !.retries = retries, !.agent = NoAgent] EXCEPT !.pc = pc]
<1>1. now \in Worker /\ now.item.recoveries \in Agent BY WorkerFacts
<1>2. a \in Worker /\ a.item = now.item /\ a.agent = now.agent BY <1>1 DEF Worker
<1>3. b \in Worker /\ b.item = now.item /\ b.agent = now.agent BY <1>1 DEF Worker
<1>4. c \in Worker /\ c.item = now.item /\ c.agent = now.item.recoveries BY <1>1 DEF Worker
<1>5. d \in Worker /\ d.item = now.item /\ d.agent = NoAgent BY <1>1 DEF Worker
<1>6. WorkerIs(i, a) \/ WorkerIs(i, b) \/ WorkerIs(i, c) \/ WorkerIs(i, d) OBVIOUS
<1> HIDE DEF a, b, c, d
<1> QED BY <1>2, <1>3, <1>4, <1>5, <1>6, WorkerKeepsItem

LEMMA WorkerLeaves ==
    ASSUME Inv, NEW i \in Item, Leaves(i) \/ WorkerIs(i, NoWorker)
    PROVE  WorkerStep
<1>1. [NoWorker EXCEPT !.pc = "exit"] \in Worker /\ NoWorker \in Worker
  BY NoWorkerFine DEF WorkerPc
<1>2. Employed(i, [NoWorker EXCEPT !.pc = "exit"]) BY IdleWorkerEmployed
<1>3. Employed(i, NoWorker)
  <2>1. Employed(i, [NoWorker EXCEPT !.pc = "none"]) BY IdleWorkerEmployed
  <2>2. [NoWorker EXCEPT !.pc = "none"] = NoWorker BY DEF NoWorker
  <2> QED BY <2>1, <2>2
<1> QED BY <1>1, <1>2, <1>3, WorkerSet DEF Leaves

LEMMA WorkerAttaches ==
    ASSUME Inv, NEW i \in Item, NEW s, Trusted(i, s), Waits(i, s, s.agent)
    PROVE  WorkerStep
<1> DEFINE w == [pc |-> "wait", item |-> s, agent |-> s.agent, retries |-> s.attempts]
<1>1. w \in Worker BY DEF Trusted, Worker, WorkerPc, Row
<1>2. Employed(i, w) BY DEF Trusted, Employed
<1> QED BY <1>1, <1>2, WorkerSet DEF Waits

LEMMA LaunchFailedStep ==
    ASSUME Inv, NEW i \in Item, LaunchFailed(i)
    PROVE  RowStep /\ WorkerStep
<1> DEFINE w == worker[i]
<1>1. /\ w \in Worker /\ w.retries \in 0..MaxRetries
      /\ w.item.agent \in Agent \cup {NoAgent}
      /\ w.item.agent # NoAgent => w.item.agent <= row[i].recoveries
  BY WorkerFacts, SnapshotAgent
<1>2. {"waiting", "failed"} \subseteq ItemStatus \ {"pending", "success"} BY DEF ItemStatus
<1>3. CASE w.retries < MaxRetries
  <2>1. w.retries + 1 \in 0..MaxRetries BY <1>1, <1>3, BudgetAssumption
  <2>2. PICK timer \in {"none", "armed"}, pc \in {"sleep", "top"} :
            /\ RowIs(i, WriteItem(row[i], "waiting", "plain", w.item.agent, w.retries + 1, timer))
            /\ WorkerIs(i, [[worker[i] EXCEPT !.retries = w.retries + 1, !.agent = NoAgent]
                           EXCEPT !.pc = pc])
    BY <1>3 DEF LaunchFailed
  <2>3. pc \in WorkerPc BY DEF WorkerPc
  <2> QED BY <1>1, <1>2, <2>1, <2>2, <2>3, WorkerWrites, WorkerMoves
<1>4. CASE ~(w.retries < MaxRetries)
  <2>1. /\ RowIs(i, WriteItem(row[i], "failed", "plain", w.item.agent, w.retries, "none"))
        /\ Leaves(i)
    BY <1>4 DEF LaunchFailed
  <2> QED BY <1>1, <1>2, <2>1, WorkerWrites, WorkerLeaves
<1> QED BY <1>3, <1>4

(* A worker that decides from the evidence trusts it like the others.          *)
LEMMA WorkerDecision ==
    ASSUME Inv, NEW i \in Item, NEW s, Trusted(i, s),
           NEW agent \in Agent \cup {NoAgent}, agent # NoAgent => agent <= row[i].recoveries,
           NEW attempts \in 0..MaxRetries, NEW verdict \in GivesUp,
           verdict = "MarkSuccess"
              => Reduce(CollectEvidence(s, Look(i, s))).action = "MarkSuccess",
           Writes(i, WorkerResult(row[i], s, agent, attempts, verdict), agent)
    PROVE  RunStep /\ RowStep /\ OutsideStep
<1> DEFINE r == WorkerResult(row[i], s, agent, attempts, verdict)
           e == CollectEvidence(s, Look(i, s))
<1>1. /\ SnapshotOf(row[i], s) /\ row[i] \in Row /\ ConsistentRow(row[i])
      /\ Look(i, s) \in World /\ Look(i, s).record = record[i].status
  BY TrustedSnapshot
<1>2. Reduce(e).action = "MarkSuccess" => record[i].status = "closed:success"
  <2>1. s \in Row BY DEF Trusted
  <2> QED BY <1>1, <2>1, EvidenceSound, ReduceSound
<1>3. GoodResult(row[i], r) /\ (r.row.status = "success" => verdict = "MarkSuccess")
  BY <1>1, WorkerResultSound
<1> HIDE DEF r, e
<1>4. Writes(i, r, agent) /\ (verdict = "MarkSuccess" => Reduce(e).action = "MarkSuccess")
  BY DEF r, e
<1> QED BY <1>2, <1>3, <1>4, WritesStep

LEMMA PreflightStep ==
    ASSUME Inv, NEW i \in Item, WorkerPreflight(i)
    PROVE  GoodStep
<1> DEFINE s == worker[i].item
           look == Look(i, s)
           action == Reduce(CollectEvidence(s, look)).action
           lost == AgentFailed(s, look)
           verdict == IF action \in GivesUp THEN action ELSE "RecoverExecution"
<1>1. /\ Trusted(i, s) /\ s.agent \in Agent \cup {NoAgent} /\ s.attempts \in 0..MaxRetries
      /\ s.agent # NoAgent => s.agent <= row[i].recoveries
      /\ s.recoveries \in Agent
  BY WorkerFacts, SnapshotAgent
<1>2. UNCHANGED <<pass, orphan, counters>> BY DEF WorkerPreflight
<1>3. PassStep /\ RestStep BY <1>2, Kept
<1>4. verdict \in GivesUp BY DEF GivesUp
<1>5. CASE action \in GivesUp \/ (action = "None" /\ lost)
  <2>1. /\ Writes(i, WorkerResult(row[i], s, s.agent, s.attempts, verdict), s.agent)
        /\ Leaves(i)
    BY <1>5 DEF WorkerPreflight
  <2>2. verdict = "MarkSuccess" => action = "MarkSuccess" OBVIOUS
  <2> HIDE DEF verdict, s
  <2>3. RunStep /\ RowStep /\ OutsideStep BY <1>1, <1>4, <2>1, <2>2, WorkerDecision
  <2>4. WorkerStep BY <2>1, WorkerLeaves
  <2> QED BY <1>3, <2>3, <2>4 DEF GoodStep
<1>6. CASE ~(action \in GivesUp \/ (action = "None" /\ lost)) /\ action = "MarkRunning"
  <2> DEFINE t == [s EXCEPT !.status = "running", !.message = "plain"]
  <2>1. /\ RowIs(i, Settle(row[i], s, "running", "plain"))
        /\ RunStatusIs("running")
        /\ Waits(i, t, s.agent)
        /\ UNCHANGED outside
    BY <1>6 DEF WorkerPreflight
  <2>2. Trusted(i, t) /\ t.agent = s.agent BY <1>1 DEF Trusted, Row, ItemStatus, Message
  <2>3. RowStep BY <1>1, <2>1, WorkerWrites DEF Settle, ItemStatus
  <2> HIDE DEF t, s
  <2>4. WorkerStep BY <2>1, <2>2, WorkerAttaches
  <2>5. RunStep /\ OutsideStep BY <2>1, RunSet, Kept DEF RunStatus
  <2> QED BY <1>3, <2>3, <2>4, <2>5 DEF GoodStep
<1>7. CASE /\ ~(action \in GivesUp \/ (action = "None" /\ lost)) /\ action # "MarkRunning"
           /\ s.status \in StartingOrRunning \cup StoppedOrPaused /\ s.agent \in live[i]
  <2>1. /\ RowIs(i, Settle(row[i], s, "running", "plain")) \/ UNCHANGED row
        /\ Waits(i, s, s.agent)
        /\ UNCHANGED <<run, outside>>
    BY <1>7 DEF WorkerPreflight
  <2>2. RowStep BY <1>1, <2>1, WorkerWrites, Kept DEF Settle, ItemStatus
  <2>3. WorkerStep BY <1>1, <2>1, WorkerAttaches
  <2> QED BY <1>3, <2>1, <2>2, <2>3, Kept DEF GoodStep
<1>8. CASE /\ ~(action \in GivesUp \/ (action = "None" /\ lost)) /\ action # "MarkRunning"
           /\ ~(s.status \in StartingOrRunning \cup StoppedOrPaused /\ s.agent \in live[i])
  <2>1. /\ WorkerIs(i, [worker[i] EXCEPT !.pc = "top", !.retries = s.attempts])
        /\ UNCHANGED <<run, row, outside>>
    BY <1>8 DEF WorkerPreflight, db
  <2>2. WorkerStep BY <1>1, <2>1, WorkerMoves DEF WorkerPc
  <2> QED BY <1>3, <2>1, <2>2, Kept DEF GoodStep
<1> QED BY <1>5, <1>6, <1>7, <1>8

LEMMA LaunchStep ==
    ASSUME Inv, NEW i \in Item,
           \/ WorkerStops(i) \/ WorkerQueues(i) \/ WorkerLaunches(i) \/ WorkerStarts(i)
           \/ WorkerRecordsAgent(i) \/ WorkerSeesTerminal(i) \/ WorkerWakes(i) \/ WorkerExits(i)
    PROVE  GoodStep
<1> DEFINE w == worker[i]
<1> USE DEF ItemStatus, WorkerPc
<1>0. /\ w \in Worker /\ w.retries \in 0..MaxRetries
      /\ w.agent \in Agent \cup {NoAgent} /\ (w.agent # NoAgent => w.agent <= row[i].recoveries)
      /\ w.item.recoveries \in Agent /\ w.item.recoveries <= row[i].recoveries
  BY WorkerFacts
<1>1. CASE WorkerStops(i)
  <2>1. /\ RowIs(i, WriteItem(row[i], "stopped", "plain", NoAgent, w.retries, "none"))
        /\ Leaves(i)
        /\ UNCHANGED <<run, outside, pass, orphan, counters>>
    BY <1>1 DEF WorkerStops, PauseWrite
  <2>2. RowStep /\ WorkerStep BY <1>0, <2>1, WorkerWrites, WorkerLeaves
  <2> QED BY <2>1, <2>2, Kept DEF GoodStep
<1>2. CASE WorkerQueues(i) \/ WorkerLaunches(i)
  <2>1. PICK pc \in {"queue", "start"} :
          /\ \/ RowIs(i, WriteItem(row[i], "waiting", "plain", NoAgent, w.retries, "armed"))
             \/ RowIs(i, WriteItem(row[i], "starting", "plain", NoAgent, w.retries, "none"))
          /\ WorkerIs(i, [worker[i] EXCEPT !.pc = pc])
          /\ UNCHANGED <<run, outside, pass, orphan, counters>>
    BY <1>2 DEF WorkerQueues, WorkerLaunches, WorkerAnnounces
  <2>2. RowStep BY <1>0, <2>1, WorkerWrites
  <2>3. WorkerStep BY <1>0, <2>1, WorkerMoves
  <2> QED BY <2>1, <2>2, <2>3, Kept DEF GoodStep
<1>3. CASE WorkerStarts(i)
  <2> DEFINE agent == w.item.recoveries
  <2>1. UNCHANGED <<run, record, pass, orphan, counters>> BY <1>3 DEF WorkerStarts
  <2>2. ASSUME /\ live' = [live EXCEPT ![i] = @ \cup {agent}]
               /\ WorkerIs(i, [w EXCEPT !.pc = "record", !.agent = agent])
               /\ UNCHANGED <<row, prompt>>
        PROVE  GoodStep
    <3>1. OutsideStep
      BY <1>0, <2>1, <2>2 DEF OutsideStep, Inv, TypeOK
    <3>2. WorkerStep BY <1>0, <2>2, WorkerMoves
    <3> QED BY <2>1, <2>2, <3>1, <3>2, Kept DEF GoodStep
  <2>3. ASSUME /\ \E named \in {NoAgent, agent} :
                    RowIs(i, WriteItem(row[i], "failed", "plain", named, w.retries, "none"))
               /\ Leaves(i)
               /\ UNCHANGED <<live, prompt>>
        PROVE  GoodStep
    <3>1. RowStep BY <1>0, <2>3, WorkerWrites
    <3>2. WorkerStep BY <2>3, WorkerLeaves
    <3> QED BY <2>1, <2>3, <3>1, <3>2, Kept DEF GoodStep, outside
  <2>4. ASSUME LaunchFailed(i), UNCHANGED <<live, prompt>>
        PROVE  GoodStep
    <3>1. RowStep /\ WorkerStep BY <2>4, LaunchFailedStep
    <3> QED BY <2>1, <2>4, <3>1, Kept DEF GoodStep, outside
  <2> QED BY <1>3, <2>2, <2>3, <2>4 DEF WorkerStarts
<1>4. CASE WorkerRecordsAgent(i)
  <2>1. /\ RowIs(i, WriteItem(row[i], "starting", "plain", w.agent, w.retries, "none"))
        /\ WorkerIs(i, [worker[i] EXCEPT !.pc = "terminal"])
        /\ UNCHANGED <<run, outside, pass, orphan, counters>>
    BY <1>4 DEF WorkerRecordsAgent
  <2>2. RowStep BY <1>0, <2>1, WorkerWrites
  <2>3. WorkerStep BY <1>0, <2>1, WorkerMoves
  <2> QED BY <2>1, <2>2, <2>3, Kept DEF GoodStep
<1>5. CASE WorkerSeesTerminal(i)
  <2>1. UNCHANGED <<run, record, pass, orphan, counters>> BY <1>5 DEF WorkerSeesTerminal
  <2>2. ASSUME /\ RowIs(i, WriteItem(row[i], "running", "plain", w.agent, w.retries, "none"))
               /\ WorkerIs(i, [worker[i] EXCEPT !.pc = "wait"])
               /\ UNCHANGED <<live, prompt>>
        PROVE  GoodStep
    <3>1. RowStep BY <1>0, <2>2, WorkerWrites
    <3>2. WorkerStep BY <1>0, <2>2, WorkerMoves
    <3> QED BY <2>1, <2>2, <3>1, <3>2, Kept DEF GoodStep, outside
  <2>3. ASSUME LaunchFailed(i), Terminate(i, {w.agent})
        PROVE  GoodStep
    <3>1. RowStep /\ WorkerStep BY <2>3, LaunchFailedStep
    <3>2. OutsideStep BY <2>1, <2>3, TerminateStep
    <3> QED BY <2>1, <3>1, <3>2, Kept DEF GoodStep
  <2> QED BY <1>5, <2>2, <2>3 DEF WorkerSeesTerminal
<1>6. CASE WorkerWakes(i)
  <2>1. /\ \/ RowIs(i, WriteItem(row[i], "stopped", "plain", NoAgent, w.retries, "none"))
           \/ UNCHANGED row
        /\ Leaves(i) \/ WorkerIs(i, [worker[i] EXCEPT !.pc = "top"])
        /\ UNCHANGED <<run, outside, pass, orphan, counters>>
    BY <1>6 DEF WorkerWakes, PauseWrite
  <2>2. RowStep BY <1>0, <2>1, WorkerWrites, Kept
  <2>3. WorkerStep BY <1>0, <2>1, WorkerMoves, WorkerLeaves
  <2> QED BY <2>1, <2>2, <2>3, Kept DEF GoodStep
<1>7. CASE WorkerExits(i)
  <2>1. WorkerIs(i, NoWorker) /\ UNCHANGED <<run, row, outside, pass, orphan, counters>>
    BY <1>7 DEF WorkerExits, db
  <2>2. WorkerStep BY <2>1, WorkerLeaves
  <2> QED BY <2>1, <2>2, Kept DEF GoodStep
<1> QED BY <1>1, <1>2, <1>3, <1>4, <1>5, <1>6, <1>7

LEMMA WaitStep ==
    ASSUME Inv, NEW i \in Item, WorkerWaits(i)
    PROVE  GoodStep
<1> DEFINE w == worker[i]
           action == Reduce(CollectEvidence(w.item, Look(i, w.item))).action
           verdict == IF action \in GivesUp THEN action ELSE "BoundedRelaunch"
<1>0. /\ w \in Worker /\ w.retries \in 0..MaxRetries /\ Trusted(i, w.item)
      /\ w.agent \in Agent \cup {NoAgent} /\ (w.agent # NoAgent => w.agent <= row[i].recoveries)
  BY WorkerFacts
<1>1. UNCHANGED <<pass, orphan, counters>> BY DEF WorkerWaits
<1>2. PassStep /\ RestStep BY <1>1, Kept
<1>3. ASSUME /\ RowIs(i, PauseWrite(i, w.item, w.agent, w.retries))
             /\ Leaves(i)
             /\ UNCHANGED <<run, outside>>
      PROVE  GoodStep
  <2>1. RowStep BY <1>0, <1>3, WorkerWrites DEF PauseWrite, ItemStatus
  <2>2. WorkerStep BY <1>3, WorkerLeaves
  <2> QED BY <1>2, <1>3, <2>1, <2>2, Kept DEF GoodStep
<1>4. ASSUME /\ Writes(i, WorkerResult(row[i], w.item, w.agent, w.retries, verdict), w.agent)
             /\ Leaves(i)
      PROVE  GoodStep
  <2>1. verdict \in GivesUp /\ (verdict = "MarkSuccess" => action = "MarkSuccess")
    BY DEF GivesUp
  <2> HIDE DEF verdict
  <2>2. RunStep /\ RowStep /\ OutsideStep BY <1>0, <1>4, <2>1, WorkerDecision
  <2>3. WorkerStep BY <1>4, WorkerLeaves
  <2> QED BY <1>2, <2>2, <2>3 DEF GoodStep
<1>5. ASSUME /\ RowIs(i, WriteItem(row[i], "running", "plain", w.agent, w.retries, "none"))
             /\ RunStatusIs("running")
             /\ UNCHANGED <<worker, outside>>
      PROVE  GoodStep
  <2>1. RowStep BY <1>0, <1>5, WorkerWrites DEF ItemStatus
  <2>2. RunStep BY <1>5, RunSet DEF RunStatus
  <2> QED BY <1>2, <1>5, <2>1, <2>2, Kept DEF GoodStep
<1> QED BY <1>3, <1>4, <1>5 DEF WorkerWaits

---------------------------------------------------------------------------
(* The operator, the agents, time and the daemon.                              *)
LEMMA OperatorStep ==
    ASSUME Inv, Operator
    PROVE  GoodStep
<1>0. row \in [Item -> Row] /\ run \in [status: RunStatus, stop: BOOLEAN, plan: Plans]
      /\ crashes \in 0..MaxCrashes /\ ops \in 0..MaxOps /\ pauses \in 0..MaxPauses
  BY DEF Inv, TypeOK
<1>1. /\ ops' = ops + 1 /\ ops < MaxOps
      /\ UNCHANGED <<outside, worker, orphan, crashes, pauses>>
  BY DEF Operator, Stop, ContinueStopped, ContinueActive, WakeRetries
<1>2. RestStep /\ OutsideStep /\ WorkerStep
  <2>1. RestStep BY <1>0, <1>1, ExecutionAssumption DEF RestStep, Inv, TypeOK
  <2> QED BY <1>1, <2>1, Kept
<1>3. CASE Stop
  <2>1. run' = [run EXCEPT !.status = "stopping", !.stop = TRUE] /\ UNCHANGED <<row, pass>>
    BY <1>3 DEF Stop
  <2>2. RunStep BY <1>0, <2>1 DEF RunStep, RunStatus
  <2> QED BY <1>2, <2>1, <2>2, Kept DEF GoodStep
<1>4. CASE ContinueStopped
  <2> DEFINE r(i) == [row[i] EXCEPT !.status = "pending", !.message = "continue",
                                    !.agent = NoAgent]
  <2>1. /\ run' = [run EXCEPT !.status = "running", !.stop = FALSE]
        /\ row' = [i \in Item |-> IF row[i].status = "stopped" /\ row[i].host = "local"
                                  THEN r(i) ELSE row[i]]
        /\ pass' = Spawned(pass)
    BY <1>4 DEF ContinueStopped
  <2>2. RunStep BY <1>0, <2>1 DEF RunStep, RunStatus
  <2>3. PassStep BY <2>1, SpawnedStep
  <2>4. ASSUME NEW i \in Item, row[i].status = "stopped"
        PROVE  GoodRow(row[i], r(i)) /\ r(i).status = "pending"
    <3>1. row[i] \in Row /\ ConsistentRow(row[i]) BY DEF Inv, TypeOK
    <3>2. /\ r(i) \in Row /\ r(i).status = "pending" /\ r(i).message = "continue"
          /\ r(i).agent = NoAgent /\ r(i).host = row[i].host /\ r(i).timer = row[i].timer
          /\ r(i).recoveries = row[i].recoveries
      BY <3>1 DEF Row, ItemStatus, Message
    <3>3. row[i].timer = "none" BY <2>4, <3>1 DEF ConsistentRow, Row
    <3>4. row[i].recoveries \in Int BY <3>1 DEF Row
    <3> HIDE DEF r
    <3> QED BY <3>2, <3>3, <3>4 DEF GoodRow, ConsistentRow
  <2> HIDE DEF r
  <2>5. \A i \in Item : row'[i] = row[i] \/ (row[i].status = "stopped" /\ row'[i] = r(i))
    BY <2>1
  <2>6. row' = [i \in Item |-> row'[i]] BY <2>1
  <2>7. RowStep BY <2>4, <2>5, <2>6, RowsSet
  <2> QED BY <1>2, <2>2, <2>3, <2>7 DEF GoodStep
<1>5. CASE ContinueActive
  <2> DEFINE delayed == {i \in Item : row[i].status = "waiting" /\ row[i].timer = "armed"}
             r(i) == [row[i] EXCEPT !.timer = "none", !.message = "plain"]
  <2>1. /\ \/ /\ row' = [i \in Item |-> IF i \in delayed THEN r(i) ELSE row[i]]
              /\ run' = [run EXCEPT !.stop = FALSE]
           \/ UNCHANGED <<run, row>>
        /\ pass' = Spawned(pass)
    BY <1>5 DEF ContinueActive, WakeRetries, db
  <2>2. RunStep BY <1>0, <2>1, Kept DEF RunStep, RunStatus
  <2>3. PassStep BY <2>1, SpawnedStep
  <2>4. ASSUME NEW i \in Item, row[i].status = "waiting"
        PROVE  GoodRow(row[i], r(i)) /\ r(i).status = "waiting"
    <3>1. row[i] \in Row /\ ConsistentRow(row[i]) BY DEF Inv, TypeOK
    <3>2. /\ r(i) \in Row /\ r(i).status = "waiting" /\ r(i).message = "plain"
          /\ r(i).agent = row[i].agent /\ r(i).host = row[i].host /\ r(i).timer = "none"
          /\ r(i).recoveries = row[i].recoveries
      BY <2>4, <3>1 DEF Row, Message
    <3>3. row[i].recoveries \in Int BY <3>1 DEF Row
    <3> HIDE DEF r
    <3> QED BY <3>1, <3>2, <3>3 DEF GoodRow, ConsistentRow
  <2> HIDE DEF r
  <2>5. \A i \in Item : row'[i] = row[i] \/ (row[i].status = "waiting" /\ row'[i] = r(i))
    BY <1>0, <2>1
  <2>6. row' = [i \in Item |-> row'[i]] BY <1>0, <2>1
  <2> HIDE DEF delayed
  <2>7. RowStep BY <2>4, <2>5, <2>6, RowsSet
  <2> QED BY <1>2, <2>2, <2>3, <2>7 DEF GoodStep
<1> QED BY <1>3, <1>4, <1>5 DEF Operator

LEMMA NextRecordSound ==
    ASSUME Inv, NEW i \in Item, NEW agent
    PROVE  /\ NextRecord(i, agent) \subseteq RecordStatus \ {"active"}
           /\ record[i].status = "closed:success" => NextRecord(i, agent) = {}
BY DEF Inv, TypeOK, NextRecord, RecordStatus, ClosedRecord, AutoRecoverable

LEMMA AgentStep ==
    ASSUME Inv, NEW i \in Item, AgentWorks(i) \/ AgentPauses(i) \/ AgentGetsStuck(i) \/ AgentDies(i)
    PROVE  GoodStep
<1>1. CASE AgentWorks(i)
  <2>0. PICK agent \in live[i] :
            \E status \in NextRecord(i, agent) : RecordIs(i, status, agent)
    BY <1>1 DEF AgentWorks
  <2>1. PICK status \in NextRecord(i, agent) : RecordIs(i, status, agent)
    BY <2>0
  <2>2. UNCHANGED <<run, row, live, prompt, pass, worker, orphan, counters>>
    BY <1>1 DEF AgentWorks, db
  <2>3. agent \in Agent BY DEF Inv, TypeOK
  <2>4. status \in RecordStatus \ {"active"} /\ record[i].status # "closed:success"
    BY NextRecordSound
  <2>5. OutsideStep BY <2>1, <2>2, <2>3, <2>4 DEF RecordIs, OutsideStep, Inv, TypeOK
  <2> QED BY <2>2, <2>5, Kept DEF GoodStep
<1>2. CASE AgentPauses(i)
  <2>1. PICK agent \in live[i] : RecordIs(i, "paused", agent) BY <1>2 DEF AgentPauses
  <2>2. /\ record[i].status = "open" /\ pauses < MaxPauses /\ pauses' = pauses + 1
        /\ UNCHANGED <<run, row, live, prompt, pass, worker, orphan, crashes, ops>>
    BY <1>2 DEF AgentPauses, db
  <2>3. agent \in Agent BY DEF Inv, TypeOK
  <2>4. OutsideStep BY <2>1, <2>2, <2>3 DEF RecordIs, OutsideStep, Inv, TypeOK, RecordStatus
  <2>5. RestStep BY <2>2, ExecutionAssumption DEF RestStep, Inv, TypeOK
  <2> QED BY <2>2, <2>4, <2>5, Kept DEF GoodStep
<1>3. CASE AgentGetsStuck(i)
  <2>1. PICK agent \in live[i] : prompt' = [prompt EXCEPT ![i] = @ \cup {agent}]
    BY <1>3 DEF AgentGetsStuck
  <2>2. UNCHANGED <<run, row, record, live, pass, worker, orphan, counters>>
    BY <1>3 DEF AgentGetsStuck, db
  <2>3. OutsideStep BY <2>1, <2>2 DEF OutsideStep, Inv, TypeOK
  <2> QED BY <2>2, <2>3, Kept DEF GoodStep
<1>4. CASE AgentDies(i)
  <2>1. PICK agent \in live[i] : Terminate(i, {agent}) BY <1>4 DEF AgentDies
  <2>2. UNCHANGED <<run, row, record, pass, worker, orphan, counters>>
    BY <1>4 DEF AgentDies, db
  <2>3. OutsideStep BY <2>1, <2>2, TerminateStep
  <2> QED BY <2>2, <2>3, Kept DEF GoodStep
<1> QED BY <1>1, <1>2, <1>3, <1>4

LEMMA TimeStep ==
    ASSUME Inv, NEW i \in Item, TimerFires(i) \/ LeaseExpires(i)
    PROVE  GoodStep
<1>1. CASE TimerFires(i)
  <2> DEFINE r == [row[i] EXCEPT !.timer = "none"]
  <2>1. RowIs(i, r) /\ UNCHANGED <<run, outside, pass, worker, orphan, counters>>
    BY <1>1 DEF TimerFires, RowIs
  <2>2. row[i] \in Row /\ ConsistentRow(row[i]) BY DEF Inv, TypeOK
  <2>3. /\ r \in Row /\ r.status = row[i].status /\ r.message = row[i].message
        /\ r.agent = row[i].agent /\ r.host = row[i].host /\ r.timer = "none"
        /\ r.recoveries = row[i].recoveries /\ row[i].recoveries \in Int
    BY <2>2 DEF Row
  <2> HIDE DEF r
  <2>4. GoodRow(row[i], r) BY <2>2, <2>3 DEF GoodRow, ConsistentRow
  <2>5. RowStep BY <2>1, <2>3, <2>4, RowSet DEF Inv, Trusted
  <2> QED BY <2>1, <2>5, Kept DEF GoodStep
<1>2. CASE LeaseExpires(i)
  <2>1. /\ orphan' = [orphan EXCEPT ![i] = FALSE]
        /\ UNCHANGED <<run, row, outside, pass, worker, counters>>
    BY <1>2 DEF LeaseExpires, db
  <2>2. RestStep BY <2>1 DEF RestStep, Inv, TypeOK, counters
  <2> QED BY <2>1, <2>2, Kept DEF GoodStep
<1> QED BY <1>1, <1>2

LEMMA CrashStep ==
    ASSUME Inv, Crash
    PROVE  GoodStep
<1>1. /\ crashes < MaxCrashes /\ crashes' = crashes + 1
      /\ pass' = [a \in {"run", "stale"} |-> NoPass]
      /\ worker' = [i \in Item |-> NoWorker]
      /\ orphan' = [i \in Item |-> Busy(i)]
      /\ UNCHANGED <<run, row, outside, ops, pauses>>
  BY DEF Crash, db
<1>2. PassStep BY <1>1, NoPassFine DEF PassStep
<1>3. WorkerStep
  <2>1. \A i \in Item : Employed(i, [NoWorker EXCEPT !.pc = "none"]) BY IdleWorkerEmployed
  <2>2. [NoWorker EXCEPT !.pc = "none"] = NoWorker BY DEF NoWorker
  <2> QED BY <1>1, <2>1, <2>2, NoWorkerFine DEF WorkerStep
<1>4. RestStep
  <2>1. \A i \in Item : Busy(i) \in BOOLEAN BY DEF Busy, Inv, TypeOK
  <2> QED BY <1>1, <2>1, ExecutionAssumption DEF RestStep, Inv, TypeOK
<1> QED BY <1>1, <1>2, <1>3, <1>4, Kept DEF GoodStep

(* Every step of the system is a good one.                                     *)
LEMMA NextGood ==
    ASSUME Inv, Next
    PROVE  GoodStep
<1>1. CASE RunWorker BY <1>1, RunWorkerStep
<1>2. CASE Reconciler BY <1>2, ReconcilerStep
<1>3. CASE Operator BY <1>3, OperatorStep
<1>4. CASE Crash BY <1>4, CrashStep
<1>5. ASSUME NEW i \in Item,
             \/ ItemWorker(i) \/ AgentWorks(i) \/ AgentPauses(i) \/ AgentGetsStuck(i)
             \/ AgentDies(i) \/ TimerFires(i) \/ LeaseExpires(i)
      PROVE  GoodStep
  BY <1>5, PreflightStep, LaunchStep, WaitStep, AgentStep, TimeStep DEF ItemWorker
<1> QED BY <1>1, <1>2, <1>3, <1>4, <1>5 DEF Next

LEMMA InitInv == Init => Inv
<1> SUFFICES ASSUME Init PROVE Inv
  OBVIOUS
<1> USE DEF Init
<1>1. PICK plan \in Plans : run = [status |-> "running", stop |-> FALSE, plan |-> plan]
  OBVIOUS
<1>2. row \in [Item -> Row] /\ \A i \in Item : row[i] = FreshRow
  BY FreshRowFine DEF NoSnap
<1>3. \A i \in Item : Trusted(i, FreshRow)
  BY <1>2, FreshRowFine DEF Trusted
<1>4. pass \in [{"run", "stale"} -> Pass]
      /\ \A a \in {"run", "stale"}, i \in Item : pass[a].snap[i] = FreshRow
  <2>1. [NoPass EXCEPT !.pc = "begin"] \in Pass /\ [NoPass EXCEPT !.pc = "begin"].snap = NoSnap
    BY NoPassFine DEF NoPass, PassPc
  <2> QED BY <2>1, NoPassFine
<1>5. 0 \in Agent /\ "none" \in RecordStatus \ {"active"}
  BY BudgetAssumption DEF Agent, RecordStatus
<1>6. TypeOK
  BY <1>1, <1>2, <1>4, <1>5, FreshRowFine, NoWorkerFine, ExecutionAssumption
     DEF TypeOK, RunStatus
<1>7. \A i \in Item : Employed(i, worker[i]) BY <1>3, NoWorkerFine DEF Employed
<1> QED BY <1>2, <1>3, <1>4, <1>6, <1>7 DEF Inv

LEMMA NextInv == Inv /\ [Next]_vars => Inv'
<1> SUFFICES ASSUME Inv, [Next]_vars PROVE Inv'
  OBVIOUS
<1>1. CASE Next BY <1>1, NextGood, InvKept
<1>2. CASE UNCHANGED vars
  BY <1>2, Kept, InvKept DEF vars, GoodStep, outside, counters
<1> QED BY <1>1, <1>2

LEMMA AlwaysInv == Spec => []Inv
BY InitInv, NextInv, PTL DEF Spec

---------------------------------------------------------------------------
(* Every variable keeps its domain and every stored row is one that the other  *)
(* readers of the code expect, whatever stale snapshot it was written from.    *)
THEOREM TypeCorrect == Spec => []TypeOK
<1>1. Inv => TypeOK BY DEF Inv
<1> QED BY <1>1, AlwaysInv, PTL

(* A charged iteration is never given back, however old the snapshot that a    *)
(* worker, the reconciler or the run worker decides on.                        *)
THEOREM IterationsStay == Spec => IterationsNeverRewind
<1>1. Inv /\ [Next]_vars => [\A i \in Item : row'[i].recoveries >= row[i].recoveries]_vars
  BY NextGood DEF GoodStep, RowStep, GoodRow
<1> QED BY <1>1, AlwaysInv, PTL DEF Spec, IterationsNeverRewind

---------------------------------------------------------------------------
(* Who may call a whole run successful.  The reconciler walks the items and    *)
(* only goes on behind a closed one.                                           *)
Closed(i) == record[i].status = "closed:success"

ReportInv ==
    /\ run.status = "success" => \A i \in Item : Closed(i)
    /\ pass["stale"].pc = "resume" => \A i \in Item : i < pass["stale"].next => Closed(i)

(* A step that neither reports the run nor moves the reconciler on.            *)
Reticent ==
    /\ run'.status = run.status \/ run'.status # "success"
    /\ \/ pass'["stale"] = pass["stale"]
       \/ pass'["stale"].pc # "resume"
       \/ pass'["stale"].next = 1

LEMMA ClosedStays ==
    ASSUME OutsideStep, NEW i \in Item, Closed(i)
    PROVE  Closed(i)'
BY DEF OutsideStep, Closed

LEMMA ReticentKeeps ==
    ASSUME Inv, GoodStep, ReportInv, Reticent
    PROVE  ReportInv'
<1>1. \A i \in Item : Closed(i) => Closed(i)' BY ClosedStays DEF GoodStep
<1>2. run'.status = "success" => \A i \in Item : Closed(i)' BY <1>1 DEF ReportInv, Reticent
<1>3. pass'["stale"].pc = "resume"
      => \A i \in Item : i < pass'["stale"].next => Closed(i)'
  BY <1>1, ItemFacts DEF ReportInv, Reticent
<1> QED BY <1>2, <1>3 DEF ReportInv

LEMMA RunWorkerReports ==
    ASSUME Inv, GoodStep, ReportInv, RunWorker
    PROVE  ReportInv'
<1> DEFINE snap == pass["run"].snap
<1>0. pass'["stale"] = pass["stale"]
  BY DEF RunWorker, RunBegin, RunLoad, ReconcileNext, RunEnds, RunReloads, RunStops, RunGoesOn,
         RunSpawns, RunExits, RunLeaves, Inv, TypeOK
<1>1. CASE RunEnds
  <2>1. CASE \A i \in Item : snap[i].status = "success"
    <3>1. \A i \in Item : Closed(i) BY <2>1 DEF Inv, Trusted, Closed
    <3>2. \A i \in Item : Closed(i)' BY <3>1, ClosedStays DEF GoodStep
    <3> QED BY <3>2 DEF ReportInv
  <2>2. CASE ~\A i \in Item : snap[i].status = "success"
    <3>1. pass["run"].end # "success" BY DEF Inv, TypeOK, Pass
    <3>2. run'.status # "success"
      BY <1>1, <2>2, <3>1 DEF RunEnds, RunLeaves, RunStatusIs, Inv, TypeOK
    <3> QED BY <1>0, <3>2, ReticentKeeps DEF Reticent
  <2> QED BY <2>1, <2>2
<1>2. CASE ~RunEnds
  <2>1. run'.status = run.status \/ run'.status # "success"
    BY <1>2 DEF RunWorker, RunBegin, RunLoad, ReconcileNext, RunReloads, RunStops, RunGoesOn,
         RunSpawns, RunExits, RunLeaves, RunStatusIs, db, Inv, TypeOK
  <2> QED BY <1>0, <2>1, ReticentKeeps DEF Reticent
<1> QED BY <1>1, <1>2

LEMMA ReconcilerReports ==
    ASSUME Inv, GoodStep, ReportInv, Reconciler
    PROVE  ReportInv'
<1>0. \A i \in Item : Closed(i) => Closed(i)' BY ClosedStays DEF GoodStep
<1>1. CASE StaleLoad \/ StaleCleansOrphans \/ ReconcileNext("stale")
  <2>1. pass'["stale"].pc # "resume"
    <3>1. CASE StaleLoad \/ StaleCleansOrphans
      <4> DEFINE q == [NoPass EXCEPT !.pc = "orphans", !.snap = row, !.was = run.status]
      <4>1. q.pc = "orphans" BY DEF NoPass
      <4> HIDE DEF q
      <4>2. StaleLoad => pass' = [pass EXCEPT !["stale"] = q] BY DEF StaleLoad, q
      <4>3. StaleCleansOrphans => pass' = [pass EXCEPT !["stale"].pc = "recon"]
        BY DEF StaleCleansOrphans
      <4> QED BY <3>1, <4>1, <4>2, <4>3 DEF Inv, TypeOK, Pass
    <3>2. CASE ReconcileNext("stale")
      <4>1. pass["stale"].pc = "recon" /\ pass["stale"] \in Pass
        BY <3>2 DEF ReconcileNext, Inv, TypeOK
      <4>2. PICK n, c, e : pass' = [pass EXCEPT !["stale"] =
                             [pass["stale"] EXCEPT !.next = n, !.changed = c, !.end = e]]
        BY <3>2 DEF ReconcileNext
      <4> QED BY <4>1, <4>2 DEF Pass, Inv, TypeOK
    <3> QED BY <1>1, <3>1, <3>2
  <2>2. run'.status = run.status \/ run'.status # "success"
    BY <1>1 DEF StaleLoad, StaleCleansOrphans, ReconcileNext, RunStatusIs, db, Inv, TypeOK
  <2> QED BY <2>1, <2>2, ReticentKeeps DEF Reticent
<1>2. CASE StaleDecides
  <2>1. pass'["stale"].next = 1
    BY <1>2, NoPassFine DEF StaleDecides, NoPass, Inv, TypeOK
  <2>2. pass["stale"].end # "success" BY DEF Inv, TypeOK, Pass
  <2>3. \/ run'.status = run.status \/ run'.status # "success"
        \/ \E s \in {row, pass["stale"].snap} : \A i \in Item : s[i].status = "success"
    BY <1>2, <2>2 DEF StaleDecides, RunStatusIs, Inv, TypeOK
  <2>4. \A s \in {row, pass["stale"].snap} : \A i \in Item :
            s[i].status = "success" => Closed(i)
    BY DEF Inv, Trusted, Closed
  <2>5. CASE \E s \in {row, pass["stale"].snap} : \A i \in Item : s[i].status = "success"
    <3>1. \A i \in Item : Closed(i)' BY <1>0, <2>4, <2>5
    <3> QED BY <3>1 DEF ReportInv
  <2>6. CASE run'.status = run.status \/ run'.status # "success"
    BY <2>1, <2>6, ReticentKeeps DEF Reticent
  <2> QED BY <2>3, <2>5, <2>6
<1>3. CASE StaleResumes
  <2> DEFINE i == pass["stale"].next
             s == pass["stale"].snap[i]
             h == StaleItem(row[i], s, Look(i, s))
             over == [pass EXCEPT !["stale"] = NoPass]
  <2>1. /\ pass["stale"].pc = "resume" /\ i <= Items
        /\ Writes(i, h.result, s.agent)
        /\ pass' = CASE h.how = "next" -> [pass EXCEPT !["stale"].next = i + 1]
                     [] h.how = "spawn" -> Spawned(over)
                     [] h.how = "off" -> over
    BY <1>3 DEF StaleResumes
  <2>2. pass["stale"] \in Pass BY DEF Inv, TypeOK
  <2>3. i \in Item /\ i \in Nat BY <2>1, <2>2, ItemFacts DEF Pass, Item
  <2>4. /\ GoodResult(row[i], h.result)
        /\ h.how \in {"off", "next", "spawn"}
        /\ h.how = "next" => Closed(i)
    BY <2>3, StaleDecision DEF Closed
  <2> HIDE DEF h, s
  <2>5. run'.status = run.status \/ run'.status # "success"
    BY <2>1, <2>4 DEF Writes, RunStatusIs, GoodResult, Inv, TypeOK
  <2>6. CASE h.how # "next"
    <3>1. pass'["stale"] = NoPass
      BY <2>1, <2>4, <2>6 DEF Spawned, Inv, TypeOK
    <3> QED BY <2>5, <3>1, NoPassFine, ReticentKeeps DEF Reticent
  <2>7. CASE h.how = "next"
    <3>1. pass'["stale"].next = i + 1 BY <2>1, <2>7 DEF Inv, TypeOK, Pass
    <3>2. \A j \in Item : j < i => Closed(j) BY <2>1 DEF ReportInv
    <3>3. \A j \in Item : j < i + 1 => Closed(j) BY <2>3, <2>4, <2>7, <3>2, ItemFacts
    <3>4. \A j \in Item : j < pass'["stale"].next => Closed(j)' BY <1>0, <3>1, <3>3
    <3>5. run'.status = "success" => \A j \in Item : Closed(j)' BY <1>0, <2>5 DEF ReportInv
    <3> QED BY <3>4, <3>5 DEF ReportInv
  <2> QED BY <2>6, <2>7
<1>4. CASE StaleSucceeds
  <2>1. pass["stale"].pc = "resume" /\ pass["stale"].next > Items
        /\ pass' = [pass EXCEPT !["stale"] = NoPass]
    BY <1>4 DEF StaleSucceeds
  <2>2. pass["stale"].next \in Int BY ItemFacts DEF Inv, TypeOK, Pass
  <2>3. \A i \in Item : Closed(i) BY <2>1, <2>2, ItemFacts DEF ReportInv
  <2>4. \A i \in Item : Closed(i)' BY <1>0, <2>3
  <2> QED BY <2>4 DEF ReportInv
<1> QED BY <1>1, <1>2, <1>3, <1>4 DEF Reconciler

(* An item worker never ends the run with a success.                           *)
LEMMA WorkerReports ==
    ASSUME Inv, NEW i \in Item, ItemWorker(i)
    PROVE  run'.status = run.status \/ run'.status # "success"
<1> DEFINE ended(r) == r.end \in {"no", "failed", "stopped"}
<1>0. \A r, agent : Writes(i, r, agent) /\ r.end # "success"
        => run'.status = run.status \/ run'.status # "success"
  BY DEF Writes, RunStatusIs, Inv, TypeOK
<1>1. \A now, s, agent, attempts : \A verdict \in GivesUp :
        WorkerResult(now, s, agent, attempts, verdict).end # "success"
  BY DEF WorkerResult, GivesUp, Result, RecoverOrFail, BoundedRelaunch
<1>2. CASE WorkerPreflight(i)
  <2> DEFINE s == worker[i].item
             action == Reduce(CollectEvidence(s, Look(i, s))).action
             verdict == IF action \in GivesUp THEN action ELSE "RecoverExecution"
             r == WorkerResult(row[i], s, s.agent, s.attempts, verdict)
  <2>1. Writes(i, r, s.agent) \/ RunStatusIs("running") \/ UNCHANGED run
    BY <1>2 DEF WorkerPreflight, db
  <2>2. r.end # "success" BY <1>1 DEF GivesUp
  <2> HIDE DEF r
  <2> QED BY <1>0, <2>1, <2>2 DEF RunStatusIs, Inv, TypeOK
<1>3. CASE WorkerWaits(i)
  <2> DEFINE w == worker[i]
             action == Reduce(CollectEvidence(w.item, Look(i, w.item))).action
             verdict == IF action \in GivesUp THEN action ELSE "BoundedRelaunch"
             r == WorkerResult(row[i], w.item, w.agent, w.retries, verdict)
  <2>1. Writes(i, r, w.agent) \/ RunStatusIs("running") \/ UNCHANGED run
    BY <1>3 DEF WorkerWaits
  <2>2. r.end # "success" BY <1>1 DEF GivesUp
  <2> HIDE DEF r
  <2> QED BY <1>0, <2>1, <2>2 DEF RunStatusIs, Inv, TypeOK
<1>4. CASE ~WorkerPreflight(i) /\ ~WorkerWaits(i)
  BY <1>4 DEF ItemWorker, WorkerStops, WorkerQueues, WorkerLaunches, WorkerAnnounces, WorkerStarts,
              WorkerRecordsAgent, WorkerSeesTerminal, WorkerWakes, WorkerExits, db
<1> QED BY <1>2, <1>3, <1>4

LEMMA OthersReport ==
    ASSUME Inv, GoodStep, ReportInv,
           \/ Operator \/ Crash
           \/ \E i \in Item : \/ ItemWorker(i) \/ AgentWorks(i) \/ AgentPauses(i)
                              \/ AgentGetsStuck(i) \/ AgentDies(i)
                              \/ TimerFires(i) \/ LeaseExpires(i)
    PROVE  ReportInv'
<1>1. CASE Operator
  <2>1. pass'["stale"] = pass["stale"]
    BY <1>1 DEF Operator, Stop, ContinueStopped, ContinueActive, WakeRetries, Spawned, Inv, TypeOK
  <2>2. run'.status = run.status \/ run'.status # "success"
    BY <1>1 DEF Operator, Stop, ContinueStopped, ContinueActive, WakeRetries, db, Inv, TypeOK
  <2> QED BY <2>1, <2>2, ReticentKeeps DEF Reticent
<1>2. CASE Crash
  <2>1. pass'["stale"].pc # "resume" /\ run' = run BY <1>2, NoPassFine DEF Crash, db
  <2> QED BY <2>1, ReticentKeeps DEF Reticent
<1>3. ASSUME NEW i \in Item, ItemWorker(i)
      PROVE  ReportInv'
  <2>1. pass' = pass
    BY <1>3 DEF ItemWorker, WorkerPreflight, WorkerStops, WorkerQueues, WorkerLaunches,
                WorkerAnnounces, WorkerStarts, WorkerRecordsAgent, WorkerSeesTerminal,
                WorkerWakes, WorkerWaits, WorkerExits
  <2>2. run'.status = run.status \/ run'.status # "success"
    BY <1>3, WorkerReports
  <2> QED BY <2>1, <2>2, ReticentKeeps DEF Reticent
<1>4. ASSUME NEW i \in Item, \/ AgentWorks(i) \/ AgentPauses(i) \/ AgentGetsStuck(i)
                             \/ AgentDies(i) \/ TimerFires(i) \/ LeaseExpires(i)
      PROVE  ReportInv'
  <2>1. pass' = pass /\ run' = run
    BY <1>4 DEF AgentWorks, AgentPauses, AgentGetsStuck, AgentDies, TimerFires, LeaseExpires, db
  <2> QED BY <2>1, ReticentKeeps DEF Reticent
<1> QED BY <1>1, <1>2, <1>3, <1>4

LEMMA InitReport == Init => ReportInv
BY DEF Init, ReportInv, NoPass

LEMMA NextReport == Inv /\ ReportInv /\ [Next]_vars => ReportInv'
<1> SUFFICES ASSUME Inv, ReportInv, [Next]_vars PROVE ReportInv'
  OBVIOUS
<1>1. CASE Next
  BY <1>1, NextGood, RunWorkerReports, ReconcilerReports, OthersReport DEF Next
<1>2. CASE UNCHANGED vars
  BY <1>2 DEF vars, ReportInv, Closed
<1> QED BY <1>1, <1>2

(* A row or a run that is reported successful is: whoever wrote the status,    *)
(* from whatever snapshot, every task concerned is closed:success.             *)
THEOREM SuccessReal == Spec => []SuccessIsReal
<1>1. Inv /\ ReportInv => SuccessIsReal
  BY DEF Inv, Trusted, ReportInv, Closed, SuccessIsReal
<1> QED BY <1>1, AlwaysInv, InitReport, NextReport, PTL DEF Spec

---------------------------------------------------------------------------
(* Who may run an agent.  The run worker only spawns from a snapshot without a *)
(* failure, so that a finished item of the snapshot is a successful one.       *)
InOrder(i) == \A d \in Before(i) : Closed(d)
Works(i) == worker[i].pc \notin {"none", "exit"}

OrderInv ==
    /\ \A i \in Item : Works(i) \/ live[i] # {} => InOrder(i)
    /\ pass["run"].pc = "spawn" => Unfinished(pass["run"].snap)

(* What a step may do about it.                                                *)
Orderly ==
    /\ \A i \in Item : Works(i)' => Works(i) \/ InOrder(i)
    /\ \A i \in Item : live'[i] # {} => live[i] # {} \/ Works(i)
    /\ pass'["run"].pc = "spawn" => Unfinished(pass'["run"].snap)

LEMMA BeforeFacts ==
    ASSUME Inv, NEW i \in Item
    PROVE  Before(i) \subseteq Item
<1>1. run.plan.dependsOn[i] \subseteq Item BY ExecutionAssumption DEF Inv, TypeOK, Plan
<1>2. 1..(i - 1) \subseteq Item BY ItemFacts DEF Item
<1> QED BY <1>1, <1>2 DEF Before

LEMMA OrderlyKeeps ==
    ASSUME Inv, GoodStep, OrderInv, Orderly
    PROVE  OrderInv'
<1>1. ASSUME NEW i \in Item, InOrder(i)
      PROVE  InOrder(i)'
  <2>1. run'.plan = run.plan BY DEF GoodStep, RunStep
  <2>2. Before(i)' = Before(i) BY <2>1 DEF Before
  <2> QED BY <1>1, <2>2, BeforeFacts, ClosedStays DEF InOrder, GoodStep
<1> QED BY <1>1 DEF OrderInv, Orderly

LEMMA SpawnsInOrder ==
    ASSUME Inv, OrderInv, pass["run"].pc = "spawn", NEW i \in Item,
           ReadyToSpawn(i, pass["run"].snap)
    PROVE  InOrder(i)
<1> DEFINE snap == pass["run"].snap
<1>1. \A d \in Item : snap[d].status = "success" => Closed(d) BY DEF Inv, Trusted, Closed
<1>2. \A d \in Before(i) : snap[d].status = "success"
  <2>1. \A d \in Item : snap[d].status \notin FailedOrBlocked BY DEF OrderInv, Unfinished
  <2>2. ASSUME NEW d \in Before(i)
        PROVE  snap[d].status = "success"
    <3>1. d \in Item BY BeforeFacts
    <3>2. CASE d \in run.plan.dependsOn[i] BY <3>2 DEF ReadyToSpawn
    <3>3. CASE d \notin run.plan.dependsOn[i]
      <4>1. ~run.plan.graph /\ d \in 1..(i - 1) BY <3>3 DEF Before
      <4>2. snap[d].status \in Terminal BY <4>1 DEF ReadyToSpawn
      <4> QED BY <2>1, <3>1, <4>2 DEF Terminal, FailedOrBlocked
    <3> QED BY <3>2, <3>3
  <2> QED BY <2>2
<1> QED BY <1>1, <1>2, BeforeFacts DEF InOrder

LEMMA RunWorkerOrderly ==
    ASSUME Inv, OrderInv, RunWorker
    PROVE  Orderly
<1>1. CASE RunSpawns
  <2>1. PICK admitted \in SUBSET Item : Spawns(admitted) BY <1>1 DEF RunSpawns
  <2>2. /\ pass["run"].pc = "spawn" /\ live' = live
        /\ pass' = [pass EXCEPT !["run"] = [NoPass EXCEPT !.pc = "load"]]
    BY <1>1 DEF RunSpawns, outside
  <2>3. pass'["run"].pc = "load" BY <2>2 DEF Inv, TypeOK, NoPass
  <2>4. \A i \in Item : worker'[i] = worker[i] \/ ReadyToSpawn(i, pass["run"].snap)
    BY <2>1 DEF Spawns
  <2>5. \A i \in Item : worker'[i] = worker[i] \/ InOrder(i) BY <2>2, <2>4, SpawnsInOrder
  <2> QED BY <2>2, <2>3, <2>5 DEF Orderly, Works
<1>2. CASE ReconcileNext("run")
  <2>1. pass["run"].pc = "recon" /\ pass["run"] \in Pass /\ worker' = worker
    BY <1>2 DEF ReconcileNext, Inv, TypeOK
  <2>2. PICK n, c, e : pass' = [pass EXCEPT !["run"] =
                         [pass["run"] EXCEPT !.next = n, !.changed = c, !.end = e]]
    BY <1>2 DEF ReconcileNext
  <2>3. pass'["run"].pc = "recon" BY <2>1, <2>2 DEF Pass, Inv, TypeOK
  <2>4. \A i \in Item : live'[i] \subseteq live[i]
    BY <1>2 DEF ReconcileNext, Terminate, Inv, TypeOK
  <2> QED BY <2>1, <2>3, <2>4 DEF Orderly, Works
<1>3. CASE RunGoesOn
  <2>1. /\ UNCHANGED <<live, worker>> /\ Unfinished(pass["run"].snap)
        /\ pass' = [pass EXCEPT !["run"].pc = "spawn"]
    BY <1>3 DEF RunGoesOn, outside
  <2>2. pass'["run"].snap = pass["run"].snap BY <2>1 DEF Inv, TypeOK, Pass
  <2> QED BY <2>1, <2>2 DEF Orderly, Works
<1>4. CASE RunBegin \/ RunLoad \/ RunEnds \/ RunReloads \/ RunStops \/ RunExits
  <2>1. UNCHANGED <<live, worker>>
    BY <1>4 DEF RunBegin, RunLoad, RunEnds, RunReloads, RunStops, RunExits, outside
  <2> DEFINE q(pc) == [NoPass EXCEPT !.pc = pc]
             l == [NoPass EXCEPT !.pc = "recon", !.snap = row]
  <2>2. \/ pass' = [pass EXCEPT !["run"].pc = "load"]
        \/ pass' = [pass EXCEPT !["run"] = l]
        \/ pass' = [pass EXCEPT !["run"] = q("exit")]
        \/ pass' = [pass EXCEPT !["run"] = NoPass]
    BY <1>4 DEF RunBegin, RunLoad, RunEnds, RunReloads, RunStops, RunExits, RunLeaves
  <2>3. l.pc = "recon" /\ q("exit").pc = "exit" /\ NoPass.pc = "off" BY DEF NoPass
  <2> HIDE DEF l, q
  <2>4. pass'["run"].pc # "spawn" BY <2>2, <2>3 DEF Inv, TypeOK, Pass
  <2> QED BY <2>1, <2>4 DEF Orderly, Works
<1> QED BY <1>1, <1>2, <1>3, <1>4 DEF RunWorker

LEMMA ItemWorkerOrderly ==
    ASSUME Inv, OrderInv, NEW i \in Item, ItemWorker(i)
    PROVE  Orderly
<1>1. pass' = pass
  BY DEF ItemWorker, WorkerPreflight, WorkerStops, WorkerQueues, WorkerLaunches, WorkerAnnounces,
         WorkerStarts, WorkerRecordsAgent, WorkerSeesTerminal, WorkerWakes, WorkerWaits,
         WorkerExits
<1>2. \A j \in Item : j # i => worker'[j] = worker[j]
  BY DEF ItemWorker, WorkerPreflight, WorkerStops, WorkerQueues, WorkerLaunches, WorkerAnnounces,
         WorkerStarts, WorkerRecordsAgent, WorkerSeesTerminal, WorkerWakes, WorkerWaits,
         WorkerExits, LaunchFailed, Waits, Leaves, WorkerIs, Inv, TypeOK
<1>3. Works(i)' => Works(i)
  <2>1. CASE WorkerExits(i)
    BY <2>1 DEF WorkerExits, WorkerIs, NoWorker, Works, Inv, TypeOK
  <2>2. CASE ~WorkerExits(i)
    BY <2>2 DEF ItemWorker, WorkerPreflight, WorkerStops, WorkerQueues, WorkerLaunches,
         WorkerAnnounces, WorkerStarts, WorkerRecordsAgent, WorkerSeesTerminal, WorkerWakes,
         WorkerWaits, Works
  <2> QED BY <2>1, <2>2
<1>4. \A j \in Item : live'[j] # {} => live[j] # {} \/ Works(j)
  <2>1. CASE WorkerStarts(i)
    <3>1. Works(i) BY <2>1 DEF WorkerStarts, Works
    <3>2. \A j \in Item : j # i => live'[j] = live[j] BY <2>1 DEF WorkerStarts, Inv, TypeOK
    <3> QED BY <3>1, <3>2
  <2>2. CASE ~WorkerStarts(i)
    <3>1. \A j \in Item : live'[j] \subseteq live[j]
      BY <2>2 DEF ItemWorker, WorkerPreflight, WorkerStops, WorkerQueues, WorkerLaunches,
         WorkerAnnounces, WorkerRecordsAgent, WorkerSeesTerminal, WorkerWakes, WorkerWaits,
         WorkerExits, Writes, Terminate, outside, Inv, TypeOK
    <3> QED BY <3>1
  <2> QED BY <2>1, <2>2
<1> QED BY <1>1, <1>2, <1>3, <1>4 DEF Orderly, OrderInv, Works

LEMMA OthersOrderly ==
    ASSUME Inv, OrderInv,
           \/ Reconciler \/ Operator \/ Crash
           \/ \E i \in Item : \/ AgentWorks(i) \/ AgentPauses(i) \/ AgentGetsStuck(i)
                              \/ AgentDies(i) \/ TimerFires(i) \/ LeaseExpires(i)
    PROVE  Orderly
<1> DEFINE begin == [NoPass EXCEPT !.pc = "begin"]
<1>0. begin.pc = "begin" /\ NoPass.pc = "off" BY DEF NoPass
<1> HIDE DEF begin
<1>1. CASE Reconciler
  <2>1. worker' = worker
    BY <1>1 DEF Reconciler, StaleLoad, StaleCleansOrphans, ReconcileNext, StaleDecides,
                StaleResumes, StaleSucceeds
  <2>2. \A j \in Item : live'[j] \subseteq live[j]
    <3>0. \A i, agents : Terminate(i, agents) => \A j \in Item : live'[j] \subseteq live[j]
      BY DEF Terminate, Inv, TypeOK
    <3>1. CASE StaleCleansOrphans BY <3>1 DEF StaleCleansOrphans
    <3>2. CASE ReconcileNext("stale")
      <4>1. live' = live \/ \E i, agents : Terminate(i, agents)
        BY <3>2 DEF ReconcileNext
      <4> QED BY <3>0, <4>1
    <3>3. CASE StaleResumes
      <4>1. live' = live \/ \E i, agents : Terminate(i, agents)
        BY <3>3 DEF StaleResumes, Writes
      <4> QED BY <3>0, <4>1
    <3>4. CASE StaleLoad \/ StaleDecides \/ StaleSucceeds
      BY <3>4 DEF StaleLoad, StaleDecides, StaleSucceeds, outside
    <3> QED BY <1>1, <3>1, <3>2, <3>3, <3>4 DEF Reconciler
  <2>3. pass'["run"] = pass["run"] \/ pass'["run"] = begin
    <3>1. CASE StaleResumes
      <4> DEFINE i == pass["stale"].next
                 s == pass["stale"].snap[i]
                 h == StaleItem(row[i], s, Look(i, s))
                 over == [pass EXCEPT !["stale"] = NoPass]
      <4>1. /\ i \in Item
            /\ pass' = CASE h.how = "next" -> [pass EXCEPT !["stale"].next = i + 1]
                         [] h.how = "spawn" -> Spawned(over)
                         [] h.how = "off" -> over
        BY <3>1, ItemFacts DEF StaleResumes, Item, Inv, TypeOK, Pass
      <4>2. h.how \in {"off", "next", "spawn"} BY <4>1, StaleDecision
      <4> HIDE DEF h, s, i
      <4> QED BY <4>1, <4>2 DEF Spawned, begin, Inv, TypeOK
    <3>2. CASE ~StaleResumes
      BY <1>1, <3>2 DEF Reconciler, StaleLoad, StaleCleansOrphans, ReconcileNext, StaleDecides,
                        StaleSucceeds, Inv, TypeOK
    <3> QED BY <3>1, <3>2
  <2> QED BY <1>0, <2>1, <2>2, <2>3 DEF Orderly, OrderInv, Works
<1>2. CASE Operator
  <2>1. UNCHANGED <<live, worker>> /\ (pass' = pass \/ pass' = Spawned(pass))
    BY <1>2 DEF Operator, Stop, ContinueStopped, ContinueActive, WakeRetries, outside
  <2>2. pass'["run"] = pass["run"] \/ pass'["run"] = begin
    BY <2>1 DEF Spawned, begin, Inv, TypeOK
  <2> QED BY <1>0, <2>1, <2>2 DEF Orderly, OrderInv, Works
<1>3. CASE Crash
  <2>1. /\ live' = live /\ pass'["run"] = NoPass /\ worker' = [i \in Item |-> NoWorker]
    BY <1>3 DEF Crash, outside
  <2>2. \A i \in Item : ~Works(i)' BY <2>1, NoWorkerFine DEF Works
  <2> QED BY <1>0, <2>1, <2>2 DEF Orderly
<1>4. ASSUME NEW i \in Item, \/ AgentWorks(i) \/ AgentPauses(i) \/ AgentGetsStuck(i)
                             \/ AgentDies(i) \/ TimerFires(i) \/ LeaseExpires(i)
      PROVE  Orderly
  <2>1. UNCHANGED <<pass, worker>> /\ \A j \in Item : live'[j] \subseteq live[j]
    BY <1>4 DEF AgentWorks, AgentPauses, AgentGetsStuck, AgentDies, TimerFires, LeaseExpires,
                Terminate, outside, Inv, TypeOK
  <2> QED BY <2>1 DEF Orderly, OrderInv, Works
<1> QED BY <1>1, <1>2, <1>3, <1>4

LEMMA InitOrder == Init => OrderInv
BY NoWorkerFine DEF Init, OrderInv, Works, NoPass

LEMMA NextOrder == Inv /\ OrderInv /\ [Next]_vars => OrderInv'
<1> SUFFICES ASSUME Inv, OrderInv, [Next]_vars PROVE OrderInv'
  OBVIOUS
<1>1. CASE Next
  <2>1. Orderly
    BY <1>1, RunWorkerOrderly, ItemWorkerOrderly, OthersOrderly DEF Next
  <2> QED BY <1>1, <2>1, NextGood, OrderlyKeeps
<1>2. CASE UNCHANGED vars
  BY <1>2 DEF vars, OrderInv, Works, InOrder, Before, Closed, Unfinished
<1> QED BY <1>1, <1>2

(* No agent of an item runs before the tasks it comes after are                *)
(* closed:success, although the run worker only ever looks at the statuses of  *)
(* a snapshot of the rows.                                                     *)
THEOREM OrderKept == Spec => []AgentsRunInOrder
<1>1. OrderInv => AgentsRunInOrder BY DEF OrderInv, InOrder, Closed, AgentsRunInOrder
<1> QED BY <1>1, AlwaysInv, InitOrder, NextOrder, PTL DEF Spec

---------------------------------------------------------------------------
(* A worker that knows the attached executor of an item finds it working.      *)
ExecutorKept(i) ==
    /\ row'[i].agent = row[i].agent
    /\ row'[i].recoveries = row[i].recoveries
    /\ row'[i].attempts = row[i].attempts

LEMMA AttachedEvidence ==
    ASSUME Inv, NEW i \in Item, Attached(i), NEW s, Trusted(i, s), Knows(i, s)
    PROVE  LET w == Look(i, s)
               e == CollectEvidence(s, w)
           IN  /\ e.record = "open"
               /\ Reduce(e).action = "None" /\ Reduce(e).handled
               /\ ~AgentFailed(s, w)
<1> DEFINE w == Look(i, s)
           e == CollectEvidence(s, w)
<1>1. /\ s.agent \in live[i] /\ s.agent \notin prompt[i] /\ s.host = "local"
      /\ record[i].status = "open"
  BY DEF Attached, Knows, Trusted
<1>2. s.agent # NoAgent BY <1>1, BudgetAssumption DEF Inv, TypeOK, Agent
<1>3. w.record = "open" /\ ~w.syncFails /\ w.live /\ ~w.prompt
  BY <1>1, Zenon DEF Look
<1> HIDE DEF w
<1>4. LocalLive(s, w) /\ ~RemoteLive(s, w) /\ ~RemoteNative(s)
  BY <1>1, <1>2, <1>3 DEF LocalLive, RemoteLive, RemoteNative, AgentRuns
<1>5. TaskStatus(s, w) = "open" BY <1>3 DEF TaskStatus, LocalRecord
<1>6. e.record = "open" /\ ~e.remote /\ e.localLive /\ ~e.prompt
  BY <1>3, <1>4, <1>5 DEF CollectEvidence
<1> HIDE DEF e
<1>7. Reduce(e) = ReduceOpen(e) BY <1>6 DEF Reduce, AutoRecoverable
<1>8. ReduceOpen(e) = Decide("Running", "None", TRUE)
  BY <1>6 DEF ReduceOpen, ReduceLocalOpen
<1>9. ~AgentFailed(s, w) BY <1>3 DEF AgentFailed
<1>10. Reduce(e).action = "None" /\ Reduce(e).handled = TRUE
  <2>1. Reduce(e) = Decide("Running", "None", TRUE) BY <1>7, <1>8
  <2>2. Decide("Running", "None", TRUE).action = "None"
        /\ Decide("Running", "None", TRUE).handled = TRUE
    BY DEF Decide
  <2> HIDE DEF e
  <2> QED BY <2>1, <2>2, Zenon
<1> QED BY <1>6, <1>9, <1>10 DEF w, e

LEMMA AttachedReconcile ==
    ASSUME Inv, NEW i \in Item, Attached(i), NEW a \in {"run", "stale"}, ReconcileNext(a)
    PROVE  ExecutorKept(i)
<1> DEFINE j == pass[a].next
           s == pass[a].snap[j]
           r == ReconcileItem(row[j], s, Look(j, s))
<1>1. RowIs(j, r.row) /\ pass[a].pc = "recon" BY DEF ReconcileNext
<1>2. CASE j # i
  BY <1>1, <1>2 DEF RowIs, ExecutorKept, Inv, TypeOK
<1>3. CASE j = i
  <2>1. Trusted(i, s) /\ Knows(i, s) BY <1>1, <1>3 DEF Inv, TypeOK, Attached
  <2> DEFINE e == CollectEvidence(s, Look(i, s))
  <2>2. e.record = "open" /\ Reduce(e).action = "None" /\ Reduce(e).handled
    BY <2>1, AttachedEvidence
  <2>3. r = ExecuteReduction(row[i], s, Look(i, s), "None")
    BY <1>3, <2>2 DEF ReconcileItem
  <2>4. r.row = row[i] BY <2>3 DEF ExecuteReduction, Untouched, Result
  <2> HIDE DEF r
  <2> QED BY <1>1, <1>3, <2>4 DEF RowIs, ExecutorKept, Inv, TypeOK
<1> QED BY <1>2, <1>3

(* Writing what is known of the executor changes nothing about it.             *)
LEMMA KnownWrite ==
    ASSUME Inv, NEW i \in Item, NEW status, NEW message, NEW agent, NEW attempts, NEW timer,
           agent = row[i].agent, attempts = row[i].attempts,
           row'[i] = WriteItem(row[i], status, message, agent, attempts, timer)
    PROVE  ExecutorKept(i)
<1>1. row[i] \in Row BY DEF Inv, TypeOK
<1> QED BY <1>1 DEF WriteItem, Row, ExecutorKept

LEMMA AttachedPasses ==
    ASSUME Inv, NEW i \in Item, Attached(i), RunWorker \/ Reconciler
    PROVE  ExecutorKept(i)
<1>1. CASE ReconcileNext("run") \/ ReconcileNext("stale") BY <1>1, AttachedReconcile
<1>2. CASE RunStops
  <2> DEFINE s == pass["run"].snap[i]
  <2>1. Knows(i, s) BY <1>2 DEF RunStops, Reconciled, Attached, Inv, TypeOK
  <2>2. row'[i] = row[i] \/ row'[i] = PauseWrite(i, s, s.agent, s.attempts)
    BY <1>2 DEF RunStops
  <2> QED BY <2>1, <2>2, KnownWrite DEF PauseWrite, Knows, ExecutorKept
<1>3. CASE RunSpawns
  <2> DEFINE s == pass["run"].snap[i]
  <2>1. Knows(i, s) BY <1>3 DEF RunSpawns, Attached, Inv, TypeOK
  <2>2. \/ row'[i] = row[i]
        \/ row'[i] = WriteItem(row[i], "waiting", "plain", s.agent, s.attempts, "armed")
    BY <1>3 DEF RunSpawns, Spawns
  <2> QED BY <2>1, <2>2, KnownWrite DEF Knows, ExecutorKept
<1>4. CASE StaleResumes
  <2> DEFINE j == pass["stale"].next
             s == pass["stale"].snap[j]
             h == StaleItem(row[j], s, Look(j, s))
  <2>1. RowIs(j, h.result.row) /\ pass["stale"].pc = "resume"
    BY <1>4 DEF StaleResumes, Writes
  <2>2. CASE j # i
    BY <2>1, <2>2 DEF RowIs, ExecutorKept, Inv, TypeOK
  <2>3. CASE j = i
    <3>1. Trusted(i, s) /\ Knows(i, s) BY <2>1, <2>3 DEF Inv, TypeOK, Attached
    <3> DEFINE e == CollectEvidence(s, Look(i, s))
    <3>2. e.record = "open" /\ Reduce(e).action = "None" /\ Reduce(e).handled
      BY <3>1, AttachedEvidence
    <3>3. h.result = ExecuteReduction(row[i], s, Look(i, s), "None")
      BY <2>3, <3>2 DEF StaleItem
    <3>4. h.result.row = row[i] BY <3>3 DEF ExecuteReduction, Untouched, Result
    <3> HIDE DEF h
    <3> QED BY <2>1, <2>3, <3>4 DEF RowIs, ExecutorKept, Inv, TypeOK
  <2> QED BY <2>2, <2>3
<1>5. CASE \/ RunBegin \/ RunLoad \/ RunEnds \/ RunReloads \/ RunGoesOn \/ RunExits
           \/ StaleLoad \/ StaleCleansOrphans \/ StaleDecides \/ StaleSucceeds
  <2>1. row' = row
    BY <1>5 DEF RunBegin, RunLoad, RunEnds, RunReloads, RunGoesOn, RunExits,
                StaleLoad, StaleCleansOrphans, StaleDecides, StaleSucceeds, db
  <2> QED BY <2>1 DEF ExecutorKept
<1> QED BY <1>1, <1>2, <1>3, <1>4, <1>5 DEF RunWorker, Reconciler

LEMMA AttachedWorker ==
    ASSUME Inv, NEW i \in Item, Attached(i), NEW j \in Item, ItemWorker(j)
    PROVE  ExecutorKept(i)
<1>1. CASE j # i
  <2>1. row' = row \/ \E r : RowIs(j, r)
    BY DEF ItemWorker, WorkerPreflight, WorkerStops, WorkerQueues, WorkerLaunches, WorkerAnnounces,
           WorkerStarts, WorkerRecordsAgent, WorkerSeesTerminal, WorkerWakes, WorkerWaits,
           WorkerExits, LaunchFailed, Writes, db
  <2> QED BY <1>1, <2>1 DEF RowIs, ExecutorKept, Inv, TypeOK
<1>2. CASE j = i /\ WorkerPreflight(i)
  <2> DEFINE s == worker[i].item
             e == CollectEvidence(s, Look(i, s))
  <2>1. Knows(i, s) /\ Trusted(i, s)
    BY <1>2 DEF WorkerPreflight, Attached, Inv, Employed
  <2>2. Reduce(e).action = "None" /\ ~AgentFailed(s, Look(i, s))
    BY <2>1, AttachedEvidence
  <2>3. row' = row \/ RowIs(i, Settle(row[i], s, "running", "plain"))
    BY <1>2, <2>2 DEF WorkerPreflight, GivesUp, db
  <2>4. CASE RowIs(i, Settle(row[i], s, "running", "plain"))
    <3>1. row'[i] = WriteItem(row[i], "running", "plain", s.agent, s.attempts, "none")
      BY <2>4 DEF RowIs, Settle, Inv, TypeOK
    <3> QED BY <2>1, <3>1, KnownWrite DEF Knows
  <2> QED BY <2>3, <2>4 DEF ExecutorKept
<1>3. CASE j = i /\ WorkerWaits(i)
  <2> DEFINE w == worker[i]
             e == CollectEvidence(w.item, Look(i, w.item))
  <2>1. /\ Knows(i, w.item) /\ Trusted(i, w.item)
        /\ w.agent = row[i].agent /\ w.retries = row[i].attempts
        /\ record[i].status = "open"
    BY <1>3 DEF WorkerWaits, Attached, Inv, Employed
  <2>2. Reduce(e).action = "None" BY <2>1, AttachedEvidence
  <2>3. RowIs(i, PauseWrite(i, w.item, w.agent, w.retries))
    BY <1>3, <2>1, <2>2 DEF WorkerWaits, GivesUp
  <2>4. row'[i] = WriteItem(row[i], "stopped", "plain", w.agent, w.retries, "none")
    BY <2>3 DEF RowIs, PauseWrite, Inv, TypeOK
  <2> QED BY <2>1, <2>4, KnownWrite
<1>4. CASE j = i /\ ~WorkerPreflight(i) /\ ~WorkerWaits(i)
  <2>1. WorkerExits(i)
    BY <1>4 DEF ItemWorker, WorkerStops, WorkerQueues, WorkerLaunches, WorkerAnnounces,
                WorkerStarts, WorkerRecordsAgent, WorkerSeesTerminal, WorkerWakes, Attached
  <2> QED BY <2>1 DEF WorkerExits, db, ExecutorKept
<1> QED BY <1>1, <1>2, <1>3, <1>4

LEMMA AttachedOthers ==
    ASSUME Inv, NEW i \in Item, Attached(i),
           \/ Operator \/ Crash
           \/ \E j \in Item : \/ AgentWorks(j) \/ AgentPauses(j) \/ AgentGetsStuck(j)
                              \/ AgentDies(j) \/ TimerFires(j) \/ LeaseExpires(j)
    PROVE  ExecutorKept(i)
<1>1. CASE Operator
  <2>1. row[i].status \notin {"stopped", "waiting"} BY DEF Attached, StartingOrRunning
  <2>2. row'[i] = row[i]
    BY <1>1, <2>1 DEF Operator, Stop, ContinueStopped, ContinueActive, WakeRetries, db
  <2> QED BY <2>2 DEF ExecutorKept
<1>2. CASE Crash BY <1>2 DEF Crash, db, ExecutorKept
<1>3. ASSUME NEW j \in Item, TimerFires(j)
      PROVE  ExecutorKept(i)
  <2>1. row[i] \in Row /\ row[j] \in Row BY DEF Inv, TypeOK
  <2>2. row'[i] = row[i] \/ row'[i] = [row[i] EXCEPT !.timer = "none"]
    BY <1>3 DEF TimerFires, Inv, TypeOK
  <2> QED BY <2>1, <2>2 DEF ExecutorKept, Row
<1>4. ASSUME NEW j \in Item, \/ AgentWorks(j) \/ AgentPauses(j) \/ AgentGetsStuck(j)
                             \/ AgentDies(j) \/ LeaseExpires(j)
      PROVE  ExecutorKept(i)
  BY <1>4 DEF AgentWorks, AgentPauses, AgentGetsStuck, AgentDies, LeaseExpires, db, ExecutorKept
<1> QED BY <1>1, <1>2, <1>3, <1>4

(* While a running executor is attached, no step of anybody takes it from its  *)
(* row or charges the item.                                                    *)
THEOREM ExecutorStays == Spec => AttachedExecutorIsKept
<1>1. ASSUME Inv, Next, NEW i \in Item, Attached(i)
      PROVE  ExecutorKept(i)
  BY <1>1, AttachedPasses, AttachedWorker, AttachedOthers DEF Next
<1>2. Inv /\ [Next]_vars
      => [\A i \in Item : Attached(i) =>
            /\ row'[i].agent = row[i].agent
            /\ row'[i].recoveries = row[i].recoveries
            /\ row'[i].attempts = row[i].attempts]_vars
  BY <1>1 DEF ExecutorKept
<1> QED BY <1>2, AlwaysInv, PTL DEF Spec, AttachedExecutorIsKept
=============================================================================
