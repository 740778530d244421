--------------------------- MODULE QueueExecution ---------------------------
(***************************************************************************)
(* One queue run with local items, from the operator's Run to the last     *)
(* closeout, in one daemon that may crash and restart.                     *)
(*                                                                         *)
(* Concurrent actors, which share only the database rows, the task records *)
(* and the agents' terminals:                                              *)
(*   - the run worker (run_web_queue);                                     *)
(*   - the stale-run reconciler (reconcile_one_stale_web_queue_run), which *)
(*     works while no run worker does;                                     *)
(*   - one worker thread per item (run_web_queue_item_with_lease);         *)
(*   - the operator (Stop, Continue);                                      *)
(*   - the agents, which open, pause and close task records, fail a        *)
(*     closeout and die, and which survive the daemon.                     *)
(* Every worker decides on a snapshot of the row taken when it was loaded  *)
(* or spawned, and writes onto the row that is there by then.              *)
(*                                                                         *)
(* Items are numbered by position.  Collecting the evidence of one row and *)
(* executing the decision is one step.  The lease is its effect on one     *)
(* daemon: a worker that died with the daemon keeps its item busy until    *)
(* the lease expires (QueueLease has the protocol).                        *)
(***************************************************************************)
EXTENDS QueueStatus, FiniteSets

CONSTANTS Items,        \* number of items in the run
          Plans,        \* the execution modes and dependencies a run may have
          MaxCrashes,   \* bound on daemon deaths
          MaxOps,       \* bound on the operator's Stop and Continue requests
          MaxPauses,    \* bound on the pauses of tasks
          MaxEvents     \* bound on the three of them together

Item == 1..Items
Plan == [graph: BOOLEAN, dependsOn: [Item -> SUBSET Item]]

ASSUME ExecutionAssumption ==
    /\ Items \in Nat \ {0}
    /\ Plans \subseteq Plan
    /\ MaxCrashes \in Nat
    /\ MaxOps \in Nat
    /\ MaxPauses \in Nat
    /\ MaxEvents \in Nat

VARIABLES run,     \* the row in web_queue_runs: status, stop_requested and the plan
          row,     \* row[i]: the row in web_queue_items
          record,  \* record[i]: status of task/<slug> and the agent that set it
          live,    \* live[i]: the agents of item i whose terminal runs
          prompt,  \* prompt[i]: those that sit at a failed-closeout prompt
          pass,    \* pass["run"], pass["stale"]: the run worker, the reconciler
          worker,  \* worker[i]: the item's worker thread
          orphan,  \* orphan[i]: an unexpired lease of a dead daemon
          crashes, ops, pauses
vars == <<run, row, record, live, prompt, pass, worker, orphan, crashes, ops, pauses>>

db == <<run, row>>
outside == <<record, live, prompt>>
counters == <<crashes, ops, pauses>>

RunStatus == {"running", "stopping", "stopped", "success", "failed"}
ActiveRun == run.status \in {"running", "stopping"}

FreshRow == [status |-> "pending", message |-> "plain", host |-> "local", agent |-> NoAgent,
             attempts |-> 0, recoveries |-> 0, timer |-> "none"]
NoSnap == [i \in Item |-> FreshRow]
NoPass == [pc |-> "off", was |-> "failed", snap |-> NoSnap, next |-> 1, changed |-> FALSE,
           end |-> "no"]
NoWorker == [pc |-> "none", item |-> FreshRow, agent |-> NoAgent, retries |-> 0]

PassPc == {"off", "begin", "load", "orphans", "recon", "spawn", "resume", "exit"}
Pass == [pc: PassPc, was: RunStatus, snap: [Item -> Row], next: 1..(Items + 1), changed: BOOLEAN,
         end: {"no", "failed", "stopped"}]
WorkerPc == {"none", "preflight", "top", "start", "record", "terminal", "sleep", "queue",
             "wait", "exit"}
Worker == [pc: WorkerPc, item: Row, agent: Agent \cup {NoAgent}, retries: 0..MaxRetries]

(* queue_item_worker_active: a local worker or an unexpired lease.            *)
Busy(i) == worker[i].pc # "none" \/ orphan[i]

(* What a look at item i through the snapshot s finds.                        *)
Look(i, s) == [record |-> record[i].status, syncFails |-> FALSE, live |-> s.agent \in live[i],
               prompt |-> s.agent \in prompt[i], worker |-> Busy(i)]

Init ==
    /\ \E plan \in Plans : run = [status |-> "running", stop |-> FALSE, plan |-> plan]
    /\ row = NoSnap
    /\ record = [i \in Item |-> [status |-> "none", by |-> 0]]
    /\ live = [i \in Item |-> {}]
    /\ prompt = [i \in Item |-> {}]
    /\ pass = [a \in {"run", "stale"} |-> IF a = "run" THEN [NoPass EXCEPT !.pc = "begin"]
                                                       ELSE NoPass]
    /\ worker = [i \in Item |-> NoWorker]
    /\ orphan = [i \in Item |-> FALSE]
    /\ crashes = 0
    /\ ops = 0
    /\ pauses = 0

Eventful == crashes + ops + pauses < MaxEvents

RunStatusIs(s) == run' = [run EXCEPT !.status = s]
RowIs(i, r) == row' = [row EXCEPT ![i] = r]
Terminate(i, agents) ==
    /\ live' = [live EXCEPT ![i] = @ \ agents]
    /\ prompt' = [prompt EXCEPT ![i] = @ \ agents]

(* spawn_web_queue_worker does nothing while a run worker is registered.      *)
Spawned(p) == IF p["run"].pc = "off" THEN [p EXCEPT !["run"] = [NoPass EXCEPT !.pc = "begin"]]
                                     ELSE p

---------------------------------------------------------------------------
(* reconcile_queue_task_statuses, one item at a time; `a' is the run worker   *)
(* or the reconciler.                                                         *)
ReconcileNext(a) ==
    LET i == pass[a].next
        s == pass[a].snap[i]
        r == ReconcileItem(row[i], s, Look(i, s))
    IN  /\ pass[a].pc = "recon" /\ i <= Items
        /\ RowIs(i, r.row)
        /\ IF r.runs THEN RunStatusIs("running") ELSE UNCHANGED run
        /\ IF r.kills THEN Terminate(i, {s.agent}) ELSE UNCHANGED <<live, prompt>>
        /\ pass' = [pass EXCEPT ![a].next = i + 1, ![a].changed = @ \/ r.changed,
                                ![a].end = IF @ = "no" THEN r.end ELSE @]
        /\ UNCHANGED <<record, worker, orphan, counters>>

Reconciled(a) == pass[a].pc = "recon" /\ pass[a].next > Items

(* The run worker leaves; its key stays registered until it has returned.     *)
RunLeaves(status) ==
    /\ RunStatusIs(status)
    /\ pass' = [pass EXCEPT !["run"] = [NoPass EXCEPT !.pc = "exit"]]

RunBegin ==
    /\ pass["run"].pc = "begin"
    /\ RunStatusIs("running")
    /\ pass' = [pass EXCEPT !["run"].pc = "load"]
    /\ UNCHANGED <<row, outside, worker, orphan, counters>>

RunLoad ==
    /\ pass["run"].pc = "load"
    /\ pass' = [pass EXCEPT !["run"] = [NoPass EXCEPT !.pc = "recon", !.snap = row]]
    /\ UNCHANGED <<db, outside, worker, orphan, counters>>

RunEnds ==
    LET snap == pass["run"].snap
    IN  /\ Reconciled("run")
        /\ \/ pass["run"].end # "no" /\ RunLeaves(pass["run"].end)
           \/ /\ pass["run"].end = "no" /\ ~pass["run"].changed
              /\ \E i \in Item : snap[i].status \in FailedOrBlocked
              /\ RunLeaves("failed")
           \/ /\ pass["run"].end = "no" /\ ~pass["run"].changed
              /\ \A i \in Item : snap[i].status = "success"
              /\ RunLeaves("success")
        /\ UNCHANGED <<row, outside, worker, orphan, counters>>

RunReloads ==
    /\ Reconciled("run") /\ pass["run"].end = "no" /\ pass["run"].changed
    /\ pass' = [pass EXCEPT !["run"].pc = "load"]
    /\ UNCHANGED <<db, outside, worker, orphan, counters>>

Unfinished(snap) ==
    /\ \A i \in Item : snap[i].status \notin FailedOrBlocked
    /\ \E i \in Item : snap[i].status # "success"

(* pause_web_queue_item, onto whatever the row says now.                      *)
PauseWrite(i, s, agent, attempts) ==
    WriteItem(row[i], "stopped", "plain", agent, attempts, "none")

RunStops ==
    LET snap == pass["run"].snap
    IN  /\ Reconciled("run") /\ pass["run"].end = "no" /\ ~pass["run"].changed
        /\ Unfinished(snap)
        /\ run.stop
        /\ row' = [i \in Item |-> IF snap[i].status \notin Terminal /\ ~Busy(i)
                                  THEN PauseWrite(i, snap[i], snap[i].agent, snap[i].attempts)
                                  ELSE row[i]]
        /\ RunLeaves("stopped")
        /\ UNCHANGED <<outside, worker, orphan, counters>>

RunGoesOn ==
    /\ Reconciled("run") /\ pass["run"].end = "no" /\ ~pass["run"].changed
    /\ Unfinished(pass["run"].snap)
    /\ ~run.stop
    /\ pass' = [pass EXCEPT !["run"].pc = "spawn"]
    /\ UNCHANGED <<db, outside, worker, orphan, counters>>

(* Mutant: neither the dependencies nor the sequence are looked at.           *)
ReadyInAnyOrder(i, snap) ==
    /\ snap[i].status \notin Terminal
    /\ ~Busy(i)
    /\ snap[i].timer = "none"

(* queue_ready_items_with_activity: sequence mode looks at the first          *)
(* unfinished item only.                                                      *)
ReadyToSpawn(i, snap) ==
    /\ snap[i].status \notin Terminal
    /\ ~Busy(i)
    /\ snap[i].status \in StartingOrRunning => snap[i].agent \notin live[i]
    /\ snap[i].timer = "none"
    /\ \A d \in run.plan.dependsOn[i] : snap[d].status = "success"
    /\ run.plan.graph \/ \A j \in 1..(i - 1) : snap[j].status \in Terminal

(* Admission makes some ready items wait; the others take their lease, which  *)
(* looks at the row again, and get a worker with the snapshot.                *)
Spawns(admitted) ==
    LET snap == pass["run"].snap
        ready == {i \in Item : ReadyToSpawn(i, snap)}
        spawned == {i \in admitted : row[i].status \notin Terminal /\ row[i].timer = "none"}
    IN  /\ admitted \subseteq ready
        /\ row' = [i \in Item |-> IF i \in ready \ admitted
                                  THEN WriteItem(row[i], "waiting", "plain", snap[i].agent,
                                                 snap[i].attempts, "armed")
                                  ELSE row[i]]
        /\ worker' = [i \in Item |-> IF i \in spawned
                                     THEN [NoWorker EXCEPT !.pc = "preflight", !.item = snap[i]]
                                     ELSE worker[i]]

RunSpawns ==
    /\ pass["run"].pc = "spawn"
    /\ \E admitted \in SUBSET Item : Spawns(admitted)
    /\ RunStatusIs("running")
    /\ pass' = [pass EXCEPT !["run"] = [NoPass EXCEPT !.pc = "load"]]
    /\ UNCHANGED <<outside, orphan, counters>>

RunExits ==
    /\ pass["run"].pc = "exit"
    /\ pass' = [pass EXCEPT !["run"] = NoPass]
    /\ UNCHANGED <<db, outside, worker, orphan, counters>>

RunWorker == RunBegin \/ RunLoad \/ ReconcileNext("run") \/ RunEnds \/ RunReloads \/ RunStops
             \/ RunGoesOn \/ RunSpawns \/ RunExits

---------------------------------------------------------------------------
(* The stale-run reconciler.  Loading the run, finding no run worker and      *)
(* finding the run in need is one step.                                       *)
FailedMayResolve(s, w) ==
    LET action == Reduce(CollectEvidence(s, w)).action
    IN  \/ RecoveryWaiting(s, w)
        \/ s.message = "exited" /\ s.recoveries < MaxIterations - 1
        \/ s.message = "launch"
        \/ action \in {"MarkSuccess", "MarkRunning", "BoundedRelaunch"}
        \/ action = "RecoverExecution" /\ s.recoveries < MaxIterations - 1

(* Mutant: an active run without active items is not noticed.                 *)
NeedsReconcileForItems ==
    \/ \E i \in Item : row[i].status \in StartingOrRunning
    \/ \E i \in Item : row[i].status = "success" /\ row[i].agent \in live[i]

NeedsStaleReconcile ==
    LET failed == {i \in Item : row[i].status \in FailedOrBlocked}
    IN  \/ ActiveRun
        \/ \E i \in Item : row[i].status \in StartingOrRunning
        \/ \E i \in Item : row[i].status = "success" /\ row[i].agent \in live[i]
        \/ run.status = "failed"
           /\ (failed = {} \/ \E i \in failed : FailedMayResolve(row[i], Look(i, row[i])))

StaleLoad ==
    /\ pass["stale"].pc = "off" /\ pass["run"].pc = "off"
    /\ NeedsStaleReconcile
    /\ pass' = [pass EXCEPT !["stale"] = [NoPass EXCEPT !.pc = "orphans", !.snap = row,
                                                        !.was = run.status]]
    /\ UNCHANGED <<db, outside, worker, orphan, counters>>

(* cleanup_orphaned_queue_agents: agents on the run's track that no loaded    *)
(* row names.                                                                 *)
StaleCleansOrphans ==
    /\ pass["stale"].pc = "orphans"
    /\ live' = [i \in Item |-> live[i] \cap {pass["stale"].snap[i].agent}]
    /\ prompt' = [i \in Item |-> prompt[i] \cap {pass["stale"].snap[i].agent}]
    /\ pass' = [pass EXCEPT !["stale"].pc = "recon"]
    /\ UNCHANGED <<db, record, worker, orphan, counters>>

(* The end of the pass, restart_resolved_failed_queue_run and the decision to *)
(* resume.                                                                    *)
StaleDecides ==
    LET p == pass["stale"]
        reload == p.changed \/ p.end # "no"
        snap == IF reload THEN row ELSE p.snap
        status == CASE p.end # "no" -> p.end
                    [] p.end = "no" /\ reload -> run.status
                    [] OTHER -> p.was
        resolved == status = "failed" /\ \A i \in Item : snap[i].status \notin FailedOrBlocked
        success == \A i \in Item : snap[i].status = "success"
        resumes == status \in {"running", "stopping"} \/ (resolved /\ ~success)
    IN  /\ Reconciled("stale")
        /\ IF resolved THEN RunStatusIs(IF success THEN "success" ELSE "running")
           ELSE IF p.end # "no" THEN RunStatusIs(p.end) ELSE UNCHANGED run
        /\ pass' = [pass EXCEPT !["stale"] =
                        IF resumes THEN [NoPass EXCEPT !.pc = "resume",
                                                       !.snap = IF resolved THEN row ELSE snap]
                                   ELSE NoPass]
        /\ UNCHANGED <<row, outside, worker, orphan, counters>>

(* stale_queue_task_record_handled and the rest of the loop body of           *)
(* resume_stale_active_queue_run: the writes, and whether the loop goes on,   *)
(* starts a run worker or just ends.                                          *)
StaleItem(now, s, w) ==
    LET e == CollectEvidence(s, w)
        d == Reduce(e)
        settled == IF e.record = "none" THEN d.action = "BoundedRelaunch" ELSE d.handled
        r == IF settled THEN ExecuteReduction(now, s, w, d.action)
             ELSE IF s.status = "success"
             THEN (IF LocalLive(s, w) THEN MarkSuccess(now, s, w) ELSE Untouched(now))
             ELSE IF s.status \in FailedOrBlocked THEN Result(now, FALSE, "failed", FALSE, FALSE)
             ELSE IF AgentFailed(s, w)
             THEN Result(Settle(now, s, "failed", "exited"), TRUE, "failed", FALSE, FALSE)
             ELSE Result(now, FALSE, "no", TRUE, FALSE)
        how == IF r.end # "no" \/ (settled /\ d.effective = "TerminalFailure") THEN "off"
               ELSE IF IF settled THEN d.effective = "ClosedSuccess" ELSE s.status = "success"
               THEN "next" ELSE "spawn"
    IN  [result |-> r, how |-> how]

(* The writes of result r of a decision about item i whose agent is `agent'.  *)
Writes(i, r, agent) ==
    /\ RowIs(i, r.row)
    /\ IF r.end # "no" THEN RunStatusIs(r.end)
       ELSE IF r.runs THEN RunStatusIs("running") ELSE UNCHANGED run
    /\ IF r.kills THEN Terminate(i, {agent}) ELSE UNCHANGED <<live, prompt>>
    /\ UNCHANGED record

StaleResumes ==
    LET i == pass["stale"].next
        s == pass["stale"].snap[i]
        h == StaleItem(row[i], s, Look(i, s))
        over == [pass EXCEPT !["stale"] = NoPass]
    IN  /\ pass["stale"].pc = "resume" /\ i <= Items
        /\ Writes(i, h.result, s.agent)
        /\ pass' = CASE h.how = "next" -> [pass EXCEPT !["stale"].next = i + 1]
                     [] h.how = "spawn" -> Spawned(over)
                     [] h.how = "off" -> over
        /\ UNCHANGED <<worker, orphan, counters>>

StaleSucceeds ==
    /\ pass["stale"].pc = "resume" /\ pass["stale"].next > Items
    /\ RunStatusIs("success")
    /\ pass' = [pass EXCEPT !["stale"] = NoPass]
    /\ UNCHANGED <<row, outside, worker, orphan, counters>>

Reconciler == StaleLoad \/ StaleCleansOrphans \/ ReconcileNext("stale") \/ StaleDecides
              \/ StaleResumes \/ StaleSucceeds

---------------------------------------------------------------------------
(* The item worker.  It judges the evidence of its snapshot with the same     *)
(* reduction, but writes the agent and the attempts it works with.            *)
GivesUp == {"MarkSuccess", "MarkPaused", "RecoverExecution", "MarkFailed", "BoundedRelaunch"}

WorkerResult(now, s, agent, attempts, action) ==
    LET put(status) == WriteItem(now, status, "plain", agent, attempts, "none")
    IN  CASE action = "MarkSuccess" -> Result(put("success"), TRUE, "no", FALSE, agent # NoAgent)
          [] action = "MarkPaused"  -> Result(put("paused"), TRUE, "stopped", FALSE, FALSE)
          [] action = "MarkFailed"  -> Result(put("failed"), TRUE, "no", FALSE, FALSE)
          [] action = "BoundedRelaunch"  -> BoundedRelaunch(now, s, attempts)
          [] action = "RecoverExecution" ->
                IF CanRecover(now, s) THEN RecoverOrFail(now, s, "plain")
                                      ELSE Result(put("failed"), TRUE, "no", FALSE, FALSE)

WorkerIs(i, w) == worker' = [worker EXCEPT ![i] = w]
Leaves(i) == WorkerIs(i, [NoWorker EXCEPT !.pc = "exit"])
Waits(i, s, agent) ==
    WorkerIs(i, [pc |-> "wait", item |-> s, agent |-> agent, retries |-> s.attempts])

(* Before a launch: is there already a record to judge or an agent to         *)
(* attach to?                                                                 *)
WorkerPreflight(i) ==
    LET s == worker[i].item
        look == Look(i, s)
        action == Reduce(CollectEvidence(s, look)).action
        lost == AgentFailed(s, look)
        verdict == IF action \in GivesUp THEN action ELSE "RecoverExecution"
    IN  /\ worker[i].pc = "preflight"
        /\ IF action \in GivesUp \/ (action = "None" /\ lost)
           THEN /\ Writes(i, WorkerResult(row[i], s, s.agent, s.attempts, verdict), s.agent)
                /\ Leaves(i)
           ELSE IF action = "MarkRunning"
           THEN /\ RowIs(i, Settle(row[i], s, "running", "plain"))
                /\ RunStatusIs("running")
                /\ Waits(i, [s EXCEPT !.status = "running", !.message = "plain"], s.agent)
                /\ UNCHANGED outside
           ELSE IF s.status \in StartingOrRunning \cup StoppedOrPaused /\ s.agent \in live[i]
           THEN /\ IF s.status \in StoppedOrPaused THEN RowIs(i, Settle(row[i], s, "running", "plain"))
                                                  ELSE UNCHANGED row
                /\ Waits(i, s, s.agent)
                /\ UNCHANGED <<run, outside>>
           ELSE /\ WorkerIs(i, [worker[i] EXCEPT !.pc = "top", !.retries = s.attempts])
                /\ UNCHANGED <<db, outside>>
        /\ UNCHANGED <<pass, orphan, counters>>

(* The launch loop: honour a stop request, or wait for an agent to become     *)
(* available, or announce the start.                                          *)
WorkerStops(i) ==
    /\ worker[i].pc = "top" /\ run.stop
    /\ RowIs(i, PauseWrite(i, worker[i].item, NoAgent, worker[i].retries))
    /\ Leaves(i)
    /\ UNCHANGED <<run, outside, pass, orphan, counters>>

WorkerAnnounces(i, status, timer, pc) ==
    /\ worker[i].pc = "top" /\ ~run.stop
    /\ RowIs(i, WriteItem(row[i], status, "plain", NoAgent, worker[i].retries, timer))
    /\ WorkerIs(i, [worker[i] EXCEPT !.pc = pc])
    /\ UNCHANGED <<run, outside, pass, orphan, counters>>

WorkerQueues(i) == WorkerAnnounces(i, "waiting", "armed", "queue")
WorkerLaunches(i) == WorkerAnnounces(i, "starting", "none", "start")

(* handle_queue_launch_outcome for a retryable failure.                       *)
LaunchFailed(i) ==
    LET w == worker[i]
        next == [w EXCEPT !.retries = w.retries + 1, !.agent = NoAgent]
        put(status, timer, n) == RowIs(i, WriteItem(row[i], status, "plain", w.item.agent, n, timer))
    IN  IF w.retries < MaxRetries
        THEN \/ put("waiting", "armed", w.retries + 1) /\ WorkerIs(i, [next EXCEPT !.pc = "sleep"])
             \/ put("waiting", "none", w.retries + 1) /\ WorkerIs(i, [next EXCEPT !.pc = "top"])
        ELSE put("failed", "none", w.retries) /\ Leaves(i)

(* start_web_queue_item: the agent's terminal starts, or fails for good       *)
(* (workspace, task packet, stale terminal), or fails for now.                *)
WorkerStarts(i) ==
    LET w == worker[i]
        agent == w.item.recoveries
    IN  /\ w.pc = "start"
        /\ \/ /\ agent \notin live[i]
              /\ live' = [live EXCEPT ![i] = @ \cup {agent}]
              /\ WorkerIs(i, [w EXCEPT !.pc = "record", !.agent = agent])
              /\ UNCHANGED <<row, prompt>>
           \/ /\ \E named \in {NoAgent, agent} :
                    RowIs(i, WriteItem(row[i], "failed", "plain", named, w.retries, "none"))
              /\ Leaves(i)
              /\ UNCHANGED <<live, prompt>>
           \/ LaunchFailed(i) /\ UNCHANGED <<live, prompt>>
        /\ UNCHANGED <<run, record, pass, orphan, counters>>

WorkerRecordsAgent(i) ==
    LET w == worker[i]
    IN  /\ w.pc = "record"
        /\ RowIs(i, WriteItem(row[i], "starting", "plain", w.agent, w.retries, "none"))
        /\ WorkerIs(i, [w EXCEPT !.pc = "terminal"])
        /\ UNCHANGED <<run, outside, pass, orphan, counters>>

(* The terminal appears, or it does not and the agent is cleaned up.  The     *)
(* wait for the closeout keeps the snapshot of the row from before the        *)
(* launch.                                                                    *)
WorkerSeesTerminal(i) ==
    LET w == worker[i]
    IN  /\ w.pc = "terminal"
        /\ \/ /\ RowIs(i, WriteItem(row[i], "running", "plain", w.agent, w.retries, "none"))
              /\ WorkerIs(i, [w EXCEPT !.pc = "wait"])
              /\ UNCHANGED <<live, prompt>>
           \/ LaunchFailed(i) /\ Terminate(i, {w.agent})
        /\ UNCHANGED <<run, record, pass, orphan, counters>>

(* sleep_queue_retry.  Only the wait for an available agent pauses the row    *)
(* when it is stopped; the delay of a failed launch leaves it waiting.        *)
WorkerWakes(i) ==
    LET w == worker[i]
    IN  /\ w.pc \in {"sleep", "queue"}
        /\ \/ /\ run.stop
              /\ IF w.pc = "queue" THEN RowIs(i, PauseWrite(i, w.item, NoAgent, w.retries))
                                   ELSE UNCHANGED row
              /\ Leaves(i)
           \/ WorkerIs(i, [w EXCEPT !.pc = "top"]) /\ UNCHANGED row
        /\ UNCHANGED <<run, outside, pass, orphan, counters>>

(* wait_for_queue_item_closeout, one turn that does something.                *)
WorkerWaits(i) ==
    LET w == worker[i]
        look == Look(i, w.item)
        action == Reduce(CollectEvidence(w.item, look)).action
        died == record[i].status = "none" /\ w.agent \notin live[i]
        verdict == IF action \in GivesUp THEN action ELSE "BoundedRelaunch"
    IN  /\ w.pc = "wait"
        /\ \/ /\ run.stop
              /\ RowIs(i, PauseWrite(i, w.item, w.agent, w.retries))
              /\ Leaves(i)
              /\ UNCHANGED <<run, outside>>
           \/ /\ ~run.stop
              /\ action \in GivesUp \/ died
              /\ Writes(i, WorkerResult(row[i], w.item, w.agent, w.retries, verdict), w.agent)
              /\ Leaves(i)
           \/ /\ ~run.stop
              /\ action = "MarkRunning"
              /\ RowIs(i, WriteItem(row[i], "running", "plain", w.agent, w.retries, "none"))
              /\ RunStatusIs("running")
              /\ UNCHANGED <<worker, outside>>
        /\ UNCHANGED <<pass, orphan, counters>>

WorkerExits(i) ==
    /\ worker[i].pc = "exit"
    /\ WorkerIs(i, NoWorker)
    /\ UNCHANGED <<db, outside, pass, orphan, counters>>

ItemWorker(i) == WorkerPreflight(i) \/ WorkerStops(i) \/ WorkerQueues(i) \/ WorkerLaunches(i)
                 \/ WorkerStarts(i) \/ WorkerRecordsAgent(i) \/ WorkerSeesTerminal(i)
                 \/ WorkerWakes(i) \/ WorkerWaits(i) \/ WorkerExits(i)

---------------------------------------------------------------------------
(* The operator.                                                              *)
Stop ==
    /\ ops < MaxOps /\ Eventful
    /\ run.status = "running"
    /\ run' = [run EXCEPT !.status = "stopping", !.stop = TRUE]
    /\ ops' = ops + 1
    /\ UNCHANGED <<row, outside, pass, worker, orphan, crashes, pauses>>

(* continue_web_queue_run: a stopped run starts again.                        *)
ContinueStopped ==
    /\ ops < MaxOps /\ Eventful
    /\ run.status = "stopped"
    /\ run' = [run EXCEPT !.status = "running", !.stop = FALSE]
    /\ row' = [i \in Item |-> IF row[i].status = "stopped" /\ row[i].host = "local"
                              THEN [row[i] EXCEPT !.status = "pending", !.message = "continue",
                                                  !.agent = NoAgent]
                              ELSE row[i]]
    /\ pass' = Spawned(pass)
    /\ ops' = ops + 1
    /\ UNCHANGED <<outside, worker, orphan, crashes, pauses>>

(* wake_web_queue_retry_items: delayed items of a run that is running are due *)
(* at once, and a stop that was requested meanwhile is taken back.            *)
WakeRetries ==
    LET delayed == {i \in Item : row[i].status = "waiting" /\ row[i].timer = "armed"}
    IN  IF run.status = "running" /\ delayed # {}
        THEN /\ row' = [i \in Item |-> IF i \in delayed
                                       THEN [row[i] EXCEPT !.timer = "none", !.message = "plain"]
                                       ELSE row[i]]
             /\ run' = [run EXCEPT !.stop = FALSE]
        ELSE UNCHANGED db

(* continue_resolved_failed_queue_run for an active run: wake its delayed     *)
(* items.  For a failed run it is a pass of the reconciler.                   *)
ContinueActive ==
    /\ ops < MaxOps /\ Eventful
    /\ ActiveRun
    /\ WakeRetries
    /\ pass' = Spawned(pass)
    /\ ops' = ops + 1
    /\ UNCHANGED <<outside, worker, orphan, crashes, pauses>>

Operator == Stop \/ ContinueStopped \/ ContinueActive

---------------------------------------------------------------------------
(* The agents and their task flow.                                            *)
RecordIs(i, status, agent) == record' = [record EXCEPT ![i] = [status |-> status, by |-> agent]]

NextRecord(i, agent) ==
    CASE record[i].status = "none" -> {"open"}
      [] record[i].status = "open" -> ClosedRecord
      [] record[i].status = "paused" -> {"open"}
      [] record[i].status = "failed-closeout" ->
            IF agent > record[i].by THEN {"open"} ELSE ClosedRecord \ {"failed-closeout"}
      [] record[i].status = "closed:failed" -> IF agent > record[i].by THEN {"open"} ELSE {}
      [] OTHER -> {}

AgentWorks(i) ==
    /\ \E agent \in live[i] \ prompt[i] :
          \E status \in NextRecord(i, agent) : RecordIs(i, status, agent)
    /\ UNCHANGED <<db, live, prompt, pass, worker, orphan, counters>>

AgentPauses(i) ==
    /\ pauses < MaxPauses /\ Eventful
    /\ record[i].status = "open"
    /\ \E agent \in live[i] \ prompt[i] : RecordIs(i, "paused", agent)
    /\ pauses' = pauses + 1
    /\ UNCHANGED <<db, live, prompt, pass, worker, orphan, crashes, ops>>

AgentGetsStuck(i) ==
    /\ record[i].status \in {"open", "failed-closeout"}
    /\ \E agent \in live[i] \ prompt[i] : prompt' = [prompt EXCEPT ![i] = @ \cup {agent}]
    /\ UNCHANGED <<db, record, live, pass, worker, orphan, counters>>

AgentDies(i) ==
    /\ \E agent \in live[i] : Terminate(i, {agent})
    /\ UNCHANGED <<db, record, pass, worker, orphan, counters>>

---------------------------------------------------------------------------
(* Time and the daemon.                                                       *)
TimerFires(i) ==
    /\ row[i].timer = "armed"
    /\ row' = [row EXCEPT ![i].timer = "none"]
    /\ UNCHANGED <<run, outside, pass, worker, orphan, counters>>

LeaseExpires(i) ==
    /\ orphan[i]
    /\ orphan' = [orphan EXCEPT ![i] = FALSE]
    /\ UNCHANGED <<db, outside, pass, worker, counters>>

(* The daemon dies with all its threads and starts again; the reconciler      *)
(* finds the run.                                                             *)
Crash ==
    /\ crashes < MaxCrashes /\ Eventful
    /\ crashes' = crashes + 1
    /\ pass' = [a \in {"run", "stale"} |-> NoPass]
    /\ worker' = [i \in Item |-> NoWorker]
    /\ orphan' = [i \in Item |-> Busy(i)]
    /\ UNCHANGED <<db, outside, ops, pauses>>

Next ==
    \/ RunWorker \/ Reconciler \/ Operator \/ Crash
    \/ \E i \in Item : \/ ItemWorker(i) \/ AgentWorks(i) \/ AgentPauses(i) \/ AgentGetsStuck(i)
                       \/ AgentDies(i) \/ TimerFires(i) \/ LeaseExpires(i)

Spec == Init /\ [][Next]_vars

(* The threads of the daemon are scheduled: the run worker, the reconciler    *)
(* and the item workers each take their next step eventually, if they have    *)
(* one all the time.  Nothing is assumed of agents, the operator or the       *)
(* clock.  This is weak fairness with its ENABLED written out, and an item    *)
(* worker is only relied on where it has a step whatever the evidence.        *)
RunHasStep == pass["run"].pc # "off"
ReconcilerHasStep == pass["stale"].pc # "off" \/ (pass["run"].pc = "off" /\ NeedsStaleReconcile)
WorkerHasStep(i) == worker[i].pc # "none" /\ (worker[i].pc = "wait" => run.stop)

Fairness ==
    /\ []<>(~RunHasStep) \/ []<><<RunWorker>>_vars
    /\ []<>(~ReconcilerHasStep) \/ []<><<Reconciler>>_vars
    /\ \A i \in Item : []<>(~WorkerHasStep(i)) \/ []<><<ItemWorker(i)>>_vars

FairSpec == Spec /\ Fairness

---------------------------------------------------------------------------
(* Every variable stays in its domain, whatever stale snapshot a row is       *)
(* written from: the rows are the consistent ones that QueueReconcile starts  *)
(* from, and no stored budget exceeds its constant.                           *)
TypeOK ==
    /\ run \in [status: RunStatus, stop: BOOLEAN, plan: Plans]
    /\ row \in [Item -> Row] /\ \A i \in Item : ConsistentRow(row[i])
    /\ record \in [Item -> [status: RecordStatus \ {"active"}, by: Agent]]
    /\ live \in [Item -> SUBSET Agent]
    /\ prompt \in [Item -> SUBSET Agent] /\ \A i \in Item : prompt[i] \subseteq live[i]
    /\ pass \in [{"run", "stale"} -> Pass]
    /\ worker \in [Item -> Worker]
    /\ orphan \in [Item -> BOOLEAN]
    /\ crashes \in 0..MaxCrashes /\ ops \in 0..MaxOps /\ pauses \in 0..MaxPauses

(* An item or a run that is reported successful is: whoever wrote the status, *)
(* from whatever snapshot, every task concerned is closed:success.            *)
SuccessIsReal ==
    \A i \in Item : row[i].status = "success" \/ run.status = "success"
                    => record[i].status = "closed:success"

(* A run that the operator has started or continued is served: a run worker   *)
(* takes it up, even when the request came while the previous run worker was  *)
(* leaving and spawn_web_queue_worker did nothing, and no request is lost     *)
(* between the operator, the reconciler and a pausing agent.                  *)
ActiveRunIsServed == ActiveRun ~> (~ActiveRun \/ pass["run"].pc \notin {"off", "exit"})

(* No agent of an item runs before the tasks it comes after are               *)
(* closed:success: its dependencies, and in sequence mode every earlier item. *)
(* The run worker only ever looks at the statuses in a snapshot of the rows.  *)
Before(i) == run.plan.dependsOn[i] \cup (IF run.plan.graph THEN {} ELSE 1..(i - 1))
AgentsRunInOrder ==
    \A i \in Item : live[i] # {} => \A d \in Before(i) : record[d].status = "closed:success"

(* A semantic iteration that has been charged is never given back, however    *)
(* old the snapshot another worker decides on (docs/queue-state-model.md,     *)
(* target invariant 1).                                                       *)
IterationsNeverRewind == [][\A i \in Item : row'[i].recoveries >= row[i].recoveries]_vars

(* A daemon that finds an executor running, as a restarted one does, attaches *)
(* to it: while it runs, its task is open and everybody who will decide about *)
(* the row knows its executor and attempts, nobody charges the item or takes  *)
(* the executor from the row (docs/queue-state-model.md, target invariant 3). *)
Knows(i, s) == s.agent = row[i].agent /\ s.attempts = row[i].attempts

Attached(i) ==
    /\ row[i].status \in StartingOrRunning
    /\ row[i].agent \in live[i] \ prompt[i]
    /\ record[i].status = "open"
    /\ \/ worker[i].pc \in {"none", "exit"}
       \/ worker[i].pc = "preflight" /\ Knows(i, worker[i].item)
       \/ /\ worker[i].pc = "wait" /\ Knows(i, worker[i].item)
          /\ worker[i].agent = row[i].agent /\ worker[i].retries = row[i].attempts
    /\ \A a \in DOMAIN pass : \/ pass[a].pc \in {"off", "begin", "load", "exit"}
                              \/ Knows(i, pass[a].snap[i])

AttachedExecutorIsKept ==
    [][\A i \in Item : Attached(i) =>
          /\ row'[i].agent = row[i].agent
          /\ row'[i].recoveries = row[i].recoveries
          /\ row'[i].attempts = row[i].attempts]_vars

(* Once a stop is requested the run comes to rest, unless it is continued: it *)
(* is no longer active and no item worker is left, also when the daemon dies  *)
(* on the way and when item workers were launching, waiting or delayed.       *)
AtRest == ~ActiveRun /\ \A i \in Item : worker[i].pc = "none"
StopIsHonoured == run.stop ~> (~run.stop \/ AtRest)

(* "open record + live executor/session | `Running` | `MarkRunning` or        *)
(* `None`" (docs/queue-status-reducer-architecture.md:41): a running row      *)
(* whose agent runs, sits at no prompt and has its task open is not charged   *)
(* a semantic iteration.  The worker that launched the agent judges the       *)
(* snapshot from before the launch, which names no agent.                     *)
LiveExecutorIsNotCharged ==
    [][\A i \in Item : /\ row[i].status = "running" /\ record[i].status = "open"
                       /\ row[i].agent \in live[i] \ prompt[i]
                       => row'[i].recoveries = row[i].recoveries]_vars

(* A failed task goes "through that bounded recovery path with a fresh        *)
(* executor and prior-failure context" (README.md:112-113): a scheduled       *)
(* recovery iteration is not charged or failed before a worker has taken it   *)
(* up.  The run worker and the item worker both see the failure, and the      *)
(* second to act charges the iteration that the first has scheduled.          *)
ScheduledIterationIsRun ==
    [][\A i \in Item : row[i].status = "pending" /\ row[i].recoveries > 0
                       /\ worker[i].item.recoveries < row[i].recoveries
                       => /\ row'[i].recoveries = row[i].recoveries
                          /\ row'[i].status # "failed"]_vars
=============================================================================
