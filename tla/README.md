# Q-COLD: verification project

Q-COLD runs coding agents on managed tasks. An operator submits a run of items
from a dashboard or a command line; the dashboard's daemon launches an agent per
item, here or at a remote host; each agent works in a worktree of its own and
delivers through the task flow; task records tell the daemon how the tasks
stand; and a reconciler repairs whatever a crash or a lost connection leaves
behind. This project models that in TLA+ and checks it with TLC; and TLAPS proves
most of the safety properties for every value of the constants (section 4).

Paths below are relative to the repository; `webapp/`, `state/`, `app/` and
`agents/` stand for directories under `src/`, `xtask` for `xtask/src/`.

## 1. The system

### State

| State | Kept in | Written by |
| --- | --- | --- |
| tab row: the run it shows; the active tab | SQLite `web_queue_tabs` | edit API |
| run row: status, `stop_requested`, mode | SQLite `web_queue_runs` | edit API, run worker, item workers, reconciler |
| item row: prompt, dependencies, status, agent, `attempts`, `recovery_attempts`, port, `next_attempt_at` | SQLite `web_queue_items` | the same four |
| worker lease: owner, epoch, expiry | SQLite `web_queue_item_worker_leases` | item workers, run worker |
| semantic attempt ledger | SQLite `web_queue_item_attempts` | the statements that write an item row |
| task record `task/<slug>`: number, status, usage; counters | SQLite `tasks`, `task_sequence_counters` | task commands, synchronisations, remote imports |
| agents: id, pid, worktree | SQLite `agents` | launches, pruning passes |
| base branch, task branches, worktrees, `task.env`, proof index, bundles | git and files | the task flow (`xtask`), agents |
| registered workers, limit cache, sync times, collected dashboard state | process memory of the daemon | its threads |
| daemon's pid file | a file | commands that start or stop the daemon |
| drafts, tombstones, open transcript | a browser page | the dashboard's scripts |
| agent terminals | tmux, zellij, remote hosts | item workers, agents, chat, cleanup |

### Components

| Component | Source | Operations | Model |
| --- | --- | --- | --- |
| Status reducer and reconciliation | `webapp/queue_worker_status_reducer.rs`, `_record_status.rs`, `_reconcile_status.rs`, `_recovery.rs` | collect evidence, reduce, execute the allowed action | `QueueStatus`, `QueueReconcile` |
| Worker lease | `state.rs` 829-1092, `webapp/queue_worker_closeout.rs` | acquire, heartbeat, inspect, release, recover stale | `QueueLease` |
| Run worker, item workers, reconciler | `webapp/queue_worker.rs`, `_closeout.rs`, `_cleanup.rs`, `_reconcile.rs` | tick, spawn, launch, retry, wait for closeout, repair, resume | `QueueExecution` |
| Operator's Stop and Continue | `webapp/queue_api.rs` | Stop, Continue | `QueueExecution`, `QueueBoard` |
| Queue edit API, tabs | `webapp/queue_api*.rs`, `state/queue_tabs.rs` | run, append, update, remove, clear, tab create, switch, delete | `QueueBoard` |
| Queue graph | `webapp/queue_graph.rs`, `webapp_assets/app/queue.js` | resolve, check, waves | `QueueGraph` |
| Admission | `webapp/queue_admission.rs` | sample, reserve, select | `QueueAdmission` |
| Agent selection and limits | `webapp/queue_worker_agent_selection.rs`, `agent_limits.rs` | probe, cache, choose, wait | `AgentSelection` |
| Launching, remote execution | `webapp/queue_worker_taskflow.rs`, `_cleanup.rs`, `_task_packet.rs` | check slug, prepare workspace, reserve port, launch, sync | `QueueLaunch` |
| Agents registry | `agents.rs`, `agents/*`, `app/codex_metadata.rs` | launch, import sessions, prune, drop | `AgentSessions` |
| Task records | `state.rs`, `state/db.rs`, `lib.rs`, `app/remote_task_records.rs` | migrate, number, open, update, delete, import | `TaskRecords` |
| Token usage of tasks | `app/codex_sessions.rs`, `app/task_flow_sync.rs`, `rollout.rs` | match sessions, sum, store | `TaskTelemetry` |
| Task flow | `lib.rs`, `xtask/main.rs`, `task/cleanup.rs`, `env_io.rs`, `app/task_flow_sync.rs` | open, pause, closeout, clean, clear, terminal-check, sync | `TaskFlow`, `TaskLife` |
| Verification, proof runs, bundles | `xtask/task/verify.rs`, `proof_runs.rs`, `bundle.rs` | preflight, index, bundle, receipt | `TaskEvidence` |
| Dashboard of the queue | `webapp/snapshot.rs`, `webapp.rs`, `webapp_assets/app/*.js` | collect, cache, serve, render, click | `Dashboard` |
| Task chat | `webapp/terminal_chat*.rs`, `webapp_assets/app/terminal.js` | open transcript, ensure agent, paste | `TaskChat` |
| Command line and daemon | `queue.rs`, `webapp.rs` | load package, post, start, stop | `QueueClient` |

`PROJECT.json` lists every component with its status, also the four that are
not modelled (section 6).

### How they interact, and what is hard

There is no lock around a queue row. Every worker loads or is handed a row,
looks at the task record and the agent, decides, and writes onto whatever the
row is by then. Handlers of the edit API read the board in one statement and
write it in a later transaction. The operator's Stop is a flag the workers poll;
Continue and append call `spawn_web_queue_worker`, which does nothing while a run
worker is registered. The daemon can die between any two statements; the
agents survive it. Leases outlive their owners; a worker sleeps longer between
retries (60, 300, 600 s, `webapp.rs:47`) than its lease lasts (120 s).

Outside the queue it is the same: the commands of the task flow are processes
that share a checkout, its branches and worktrees without a lock, and may be
killed between two git commands; every process that opens the database migrates
it; record synchronisations, pruning passes and limit probes decide on what
they have read some time ago; starts of the daemon know of each other only
through a pid file; and a browser page shows what it expects before it knows.

What makes each component correct:

- reducer: the decision is idempotent, attaches to live executors and charges a
  failure exactly one unit of the budget it uses;
- lease: one worker per item unless somebody let a lease run out; a late
  statement of an earlier worker hurts nobody; a dead owner is cleared;
- workers and reconciler: success is only reported for a closed task, charged
  iterations are not given back, an attached executor is kept, the order of the
  run is respected, a stop comes to rest, and an active run has a worker;
- board: tabs stay consistent and show their runs, a task is unfinished in one
  run, an item runs what its row shows, success leaves nothing undone, a
  cleared run winds down;
- graph, admission, selection: no items wait for each other, reservations stay
  within the limits, and every item is admitted and finds an agent in the end;
- launches and registry: agents share no port, worktree, session or row;
- records: numbers are not given twice, a closed task's record closes, usage is
  the task's own;
- task flow: work is lost only of tasks that were given up, success is recorded
  and reported only of delivered work, with its proof;
- dashboard, chat, command line: the page catches up with the queue, messages
  reach the task they were typed for, packages arrive whole, a listening daemon
  can be found.

The hazards, each at its line and with the properties that cover it, are in
`PROJECT.json`.

## 2. Modules

### QueueStatus

Operators only. `CollectEvidence` is `collect_queue_status_evidence_for_item`
with `queue_task_status` under it; `Reduce` is `reduce_queue_status`, branch for
branch; `ExecuteReduction`, `Fallback` and `ReconcileItem` are what a pass
writes. Its lemmas, in `QueueStatusProofs`, are about all rows and surroundings.
A write takes the row `db` that is stored and the row `snap` the
decision was made on, because they differ in the code: `WriteItem` takes status
and attempts from the snapshot and keeps the stored agent where the SQL says
`coalesce`.

Abstractions: messages are the seven classes that some code compares with;
times are "in the future" or not; the agent of an item is the number of the
recovery iteration in its id (`queue_agent_id`); the attempt ledger is the
number of iterations the stored row has been through.

### QueueReconcile

One row and its surroundings, for the three kinds of host. Initially every
consistent row in every surrounding that can occur with it; then passes
interleave with record changes, dying executors, closeout prompts, sync
failures and timers. `fresh` is a history variable: has anything changed since
the last pass?

### QueueLease

The lease statements, each one action because each is one SQLite transaction or
statement, and the worker thread around them: heartbeat and inspection are two
statements, and so two actions. `Progress`, `Sleep`, `Finish` and `Fail` are the
thread's unconditional writes to the item row; `RewriteItem` is everybody else's.
Time is what is left of each lease. `lapsed` is a history variable: the threads
whose lease ran out since they last had it.

### QueueExecution

One run with local rows in one daemon: run worker and reconciler (`pass`), item
workers (`worker`), operator, agents. A program counter names the statement
reached, and the snapshot a worker decides on is part of its state. The
reconciliation loop takes one item per step. `MCQueueExecution` gives the plans
(sequence, or a graph with a dependency) for TLC.

| Actions | Code |
| --- | --- |
| `RunBegin` ... `RunExits` | `run_web_queue`, `spawn_web_queue_worker` |
| `ReconcileNext` | `reconcile_queue_task_statuses` |
| `StaleLoad` ... `StaleSucceeds` | `reconcile_one_stale_web_queue_run`, `resume_stale_active_queue_run` |
| `WorkerPreflight`, `WorkerStops` ... `WorkerExits` | `run_web_queue_item_with_lease`, `start_web_queue_item`, `handle_queue_launch_outcome`, `wait_for_queue_item_closeout` |
| `Stop`, `ContinueStopped`, `ContinueActive` | the API handlers and their statements |
| `AgentWorks`, `AgentPauses`, `AgentGetsStuck`, `AgentDies` | the task flow of `xtask`, and the agent's process (external) |
| `TimerFires`, `LeaseExpires`, `Crash` | time and the daemon's death (external) |

What this module leaves out: remote-native rows (`QueueLaunch` launches them,
`QueueReconcile` reconciles them), several runs and their editing
(`QueueBoard`), database errors and panics, the admission policy (which ready
items are admitted is a free choice here; `QueueAdmission` makes it), and the
order of the two reads inside one collection of evidence. The three checks of
`StaleLoad` are one step, and a pass over a row writes row and run together.
The lease is reduced to its effect inside one daemon. `Attached`, the executor
that `AttachedExecutorIsKept` protects, is a live agent with an open task that the
stored row and every snapshot about it name; a worker in its closeout wait has the
row's agent and attempts too, or it is the worker of finding 2.

### QueueBoard

The board of tabs, runs and items under the requests of several clients. A
request is two actions, as in the handlers: what it reads and decides
(`CheckRun`, `ReadAppend`, `ReadUpdate`, `ReadRemove`, `StopForClear`,
`ReadTab`), and the transaction in which it writes (`StoreRun`, `StoreAppend`,
`StoreUpdate`, `DeleteRow`, `DeleteRows`, `DeleteTab`). Requests that read and
write in one transaction (tab creation and switch, Stop, Continue) are one
action. The run workers load, decide and write on what they saw; what an item
does is one step with two outcomes, since `QueueExecution` has it in full.

An item carries `marks`, history: `unchecked` (it was appended, or its run was
stored over a board that had changed since the check), `unseen` (the run worker
had looked for the last time), `edited` (the edit was decided before the item
started, or overtook the load) and `reopened` (a stopping worker wrote `stopped`
over a success). Each property names the marks it excepts: those are the races
the code has, and TLC shows that there are no others.

`BoardAssumption` is what the handlers guarantee of their inputs: a package has
items and finitely many of them, and being a retry of the same task is reflexive
and symmetric.

### TaskFlow and TaskLife

`TaskFlow` is the managed task flow of one repository: branch, worktree,
`task.env` and record of each task, the remote's base branch and the primary
checkout's. Every git command and file of `open`, `pause` and `closeout` that
another process could tell apart is an action; commands may fail (`Fallible`)
and processes may be killed. A history is the sequence of the patches on it, so
that a rebase changes the order and never the patches: what it replays are the
commits the upstream lacks, in their order. The dirty files of a worktree are a
sequence too, and a commit appends them. `Clear` stands for
`clean` too, which refuses dirty trees, and for one task of `clear-all`;
`CheckLists` and the `Clear...` actions are `terminal-check`, and
`orphan-clear-stale`, which runs the same four cleanups, list by list.
`SyncLoads`, `SyncReads` and `SyncWrites` are a record synchronisation.
`checkout --detach` and `branch -d` of a closeout are one step: section 3 says
what may happen between them.

`TaskLife` is what the flow promises: a patch is held somewhere until the remote
has it, may be lost only if its task has been given up, and a task is reported
successful when none of its patches is held any more. `TaskFlow` implements it
under the refinement mapping that computes `held` from all branches, worktrees
and dirty files, `delivered` from the remote's base branch and `lost` as the
rest of what was made (`WorkIsNotLost == Life!Spec`).

### Eleven components, and MCComponents

Each of these has its own module, with its processes, its stale reads and its
faults. They are read from the source like the others, one action per statement,
request or loop body, and none of them shares a variable with another one.

| Module | Processes | What is split into steps |
| --- | --- | --- |
| `TaskRecords` | processes that open the database, a remote host | the migrations, statement by statement; read and store of an update, a remote open, an import |
| `QueueAdmission` | run workers of several runs, agents, hosts | load, plan, spawn |
| `AgentSessions` | launches, passes over the registry, agents | check, spawn, store, record; load, import, decide, delete |
| `QueueGraph` | requests served beside each other, a worker | read with check, store |
| `AgentSelection` | item workers, the refresh thread, the dashboard | attempts of a probe; refresh, look, wait |
| `QueueLaunch` | item workers, agents here and remote, an operator | check slug, prepare, choose port, store it, doctor, open, start, poll, sync |
| `QueueClient` | commands, daemons | health check, read pid, stop, spawn, write pid, watch; post |
| `Dashboard` | daemon, one page | collect, store in the cache, serve; show, click, hear the answer |
| `TaskChat` | transcript windows, server calls, agents | lookup, start of a chat agent, paste, enter, answer, timers |
| `TaskEvidence` | closeouts of several tasks | preflight, index, delivery, close, bundle, receipt |
| `TaskTelemetry` | synchronisations, sessions | opening, closing, cleanup, sync |

`MCComponents` makes small instances of them, which it calls scopes: a behaviour
is one of one scope, and the variables of the others stay as they are. One run
checks all of them; each property says something of the scopes it names. The
temporal ones have the scope in every state predicate, so that TLC can evaluate
them everywhere. There is no composition in this module and none is claimed:
what the components tell each other (the record a launch polls, the reservation
a worker makes) is an input of each, free to change.

The modules except what their code is known not to exclude, by history
variables their properties name: `repairs` (two processes ran the repair of
legacy numbers), `raced` (a plan was carried out after another worker's spawn),
`crossed` and `late` (imports overlapped, a record was stored after its row had
gone), `overlapped` (two edits were checked beside each other), `outran` (two
workers chose ports at once), `doubled` (two starts of the daemon overlapped),
`misled` and `dropped` (a late answer moved the window's terminal; text was
erased before it was entered), `strayed` (a window took over the terminal of a
task it does not show), `moved` (a delivery was rebased over work the
task had not seen), `twinned` (a proof run left summaries of one suite in two
directories), `thinned` (a session behind the usage can no longer be found).
Where such an exception is the whole answer to a hazard, what the property shows
is that nothing else leads there.

Several instances are checked of the modules that are proved about. What they
assume of their constants is therefore a definition, `Parameters`, and a
hypothesis of their theorems; `TypeOK` of `MCComponents` has it for every instance.
The items a run worker finds ready are a set in `QueueAdmission`, with their
positions in `Order`, for the same reason. `QueueGraph` has one hypothesis more:
`SearchFindsCycles`, that the depth-first search of `queue_dependency_graph_cycle` finds a
cycle exactly where some items depend on each other only in a circle (`Acyclic`).
`SomeItemIsReady` of `MCComponents` evaluates it for every graph over the keys of
both instances.

Two exceptions came out of proofs that failed. An index row of a delivered proof
may be missing although the index is not full (`twinned`): a closeout that fails
has trimmed the index with two rows of one identity, of which the next closeout
leaves one. And a window that has
been told where a misled message went takes over that terminal, which may be of
another task than the one it shows, so that it has strayed again (`strayed`).
A launch of `AgentSessions` is one from the primary checkout, or a queue's: one
that is made inside an agent's worktree stays there, and shares it by intent.

## 3. Runs

Every bound is a constant of the module; `PROJECT.json` names the run's properties.

| Run | Bounds | Distinct states | Shows |
| --- | --- | --- | --- |
| `QueueReconcile` | the code's budgets: 3 retries, 3 iterations | 102 060 | reconciliation is idempotent and charges a failure one unit of one budget |
| `QueueLease` | 1 item, 2 daemons, TTL 2 ticks, 4 epochs, 2 deaths | 31 032 | one worker, distinct epochs, an active lease is kept, a dead owner is cleared |
| `QueueExecution` | 1 item, 1 retry, 3 iterations, 1 crash | 2 345 518 | real success, no rewound iteration, an attached executor is kept |
| `QueueExecutionOperator` | 1 item, no retry, 1 iteration, 2 of: crash, Stop, Continue, pause | 998 688 | a stop comes to rest, an active run is served |
| `QueueExecutionOrder` | 2 items in sequence or dependent, no retry, 1 iteration | 2 268 148 | agents run in the order of the plan |
| `QueueBoard` | 2 tabs, 2 runs, 1 task, 2 clients, 3 requests | 443 222 | tabs and runs stay together, a task is unfinished in one run, items run what they show, success is complete, cleared runs wind down |
| `TaskFlow` | 2 tasks with 1 patch each, 4 commands, 1 of: foreign push, failing command, kill, terminal-check | 1 722 593 | the refinement of `TaskLife`; success is recorded and reported only of delivered work |
| `Components` | 26 scopes, see below | 614 940 | what the eleven components promise |
| `QueueReconcileOutage` | as `QueueReconcile` | - | finding 1 |
| `QueueExecutionLaunch` | 1 item, 2 iterations | - | finding 2 |
| `QueueExecutionRecovery` | 1 item, 2 iterations | - | finding 3 |
| `TaskFlowIncomplete` | 2 tasks, 3 commands, a failing bundle | - | finding 4 |

Why the bounds are enough. In `QueueReconcile` they are the code's own. A lease
connects one item with its contenders, and items do not interact; two daemons
suffice for a takeover and a late statement, four epochs for a takeover back
and forth, and a TTL of two ticks distinguishes "about to expire" from
"expired". The hazards of `QueueExecution` are between the snapshots of a run
worker, a reconciler and an item worker about one row. Three iterations, the
code's own number, let a snapshot lag two iterations behind the stored row,
which is what it takes to give one back; one retry makes it differ in its
attempts; and one crash makes a restarted daemon meet what a first one left.
Larger runs of the same properties, too long to repeat every time, found
nothing more: with a crash or a pause (10.6 million states), and with two
iterations, no retry and two events among crash, pause and operator requests
(16.0 million). Order needs two items, and no event: what an agent may start
after is decided on the rows alone.

In `QueueBoard` every race is between a check and a store: two requests in
flight overlap in all ways, and a third one makes what they meet (a run to
append to, a tab to delete). Two runs whose slugs are retries of one task are
what deduplication compares. In `TaskFlow` two tasks are needed for what they
share, the checkout and the remote; four commands are open and closeout of both,
or open, pause, open and closeout of one with a command of the other between
them; one trouble at any step is the failure model of its comments. The two
tasks are interchangeable and the properties about safety, so symmetry is used.

The scopes of `Components`, with what each makes happen:

| Scopes | Module | Instance |
| --- | --- | --- |
| `numbers`; `sync`; `outage` | `TaskRecords` | 2 processes open a database with legacy rows and open tasks in 2 repositories; 2 import one remote task; 1 does with a fault |
| `host`; `launcher` | `QueueAdmission` | 3 items of 2 runs on one host, 2 items on 2 hosts, with a restart; all three classes |
| `launches`; `prunes`; `passes` | `AgentSessions` | 3 launches, one resuming; 2 with one id or two beside a pass; 2 passes with one accident |
| `graph`; `edits` | `QueueGraph` | 3 items, every set of references, 2 edits; 2 items, 2 requests at once, 3 edits |
| `page`; `rows` | `Dashboard` | 1 task from each state of a tab, 2 runs; 2 tasks; a lost answer |
| `accounts`; `shared` | `AgentSelection` | commands with two accounts or one, which changes twice |
| `ports`; `native`; `pair`; `slugs` | `QueueLaunch` | 2 remote items on one port; 1 with 2 events; 2 sharing the sync of one repository, with 1 event; local items of one slug |
| `daemons`; `packages` | `QueueClient` | 2 commands, 2 daemons, 1 fault; a manifest and named files |
| `work`; `windows` | `TaskChat` | 2 paused tasks in one window; a remote task in two |
| `evidence` | `TaskEvidence` | 2 tasks, an index of one row, a tree that fails |
| `usage`; `queued`; `reopened` | `TaskTelemetry` | 2 sessions; 2 tasks in one session; a task opened again |

They are small because each component is: its hazards are between two actors
and one or two steps of each, and the scope has those actors. Every action of
every module fires in one of them. `RemoteSuccessIsSeen` speaks of the first item
of `pair` only: the two are alike.

`CHECK_DEADLOCK FALSE` wherever the system may rest: a finished, stopped or
failed run, a board nobody asks anything of, tasks that are closed, and the
bounds allow no further event.

### Fairness

`QueueLease`: time passes, a dead daemon is restarted by its supervisor or by
the next command, and a running run worker ticks (it recovers stale leases on
every tick, `webapp/queue_worker.rs:83`). Nothing is assumed of item workers.

`QueueExecution`: the daemon's threads are scheduled. Each of run worker,
reconciler and item worker eventually takes a step if it has one all the time:
they are loops around `thread::sleep`, the reconciler's one in
`start_web_queue_status_reconciler` (`webapp/queue_worker_reconcile.rs:1`). Nothing is assumed of agents, operator or clock;
an item worker is relied on only where it has a step whatever the evidence, that
is, outside the closeout wait or when a stop is requested. The formula is weak
fairness with its ENABLED condition written out.

`QueueBoard`: run workers go on, and item workers of a stopped or deleted run
notice it. Clients may leave a request half done for ever.

`TaskFlow` has none: nothing about it is promised in time. A process that is
killed never goes on.

`Components`: what is a loop of the program or time itself, and nothing else. A
process that opens the database finishes, and hosts that follow a remote task
keep syncing its records (`TaskRecords`). Run workers pass again and again, and
agents and retry times come to their end, since an item that never ends keeps
its reservation by design (`QueueAdmission`). The daemon refreshes, serves and
works, the page polls and hears answers, and tombstones run out
(`Dashboard`). Refreshes end, time goes on and waiting workers look again
(`AgentSelection`). Time goes on, and a worker that launches or follows its item
goes on (`QueueLaunch`). Operators, faults, accounts, hosts and agents are free.

### Findings

1. `SyncFailureKeepsLaunchBudget`: `docs/queue-status-reducer-architecture.md`
   19-21 promises that a sync failure consumes no retry budget. The reducer asks
   first whether the executor has vanished, and if host and session are both out
   of reach, relaunches and raises `attempts`.
2. `LiveExecutorIsNotCharged`: the worker that launched an agent waits with the
   row from before the launch, which does not name the agent, so a task opened by
   the agent looks abandoned to this worker. It schedules a recovery while
   the agent works. In the trace the agent opens its record before the worker's
   first look at the closeout. A daemon that finds a running agent after a
   restart has a row that names it, and keeps it: `AttachedExecutorIsKept`.
3. `ScheduledIterationIsRun`: run worker and item worker both react to one failed
   record, and the second counts the iteration that the first has only
   scheduled. With the last iteration the item fails without running it.
4. `IncompleteNeverMasquerades`: `docs/taskflow-extraction/08-closeout-bundles-cleanup.md`
   line 33 promises it. A closeout writes success to `task.env` before it bundles.
   A synchronisation that reads it stores `closed:success`; when the bundle then
   fails and the status becomes `failed-closeout`, the record's terminal status
   overrides it in every later synchronisation (`app/task_flow_sync.rs:193`).

Not findings, but worth knowing: `README.md` line 105 says that a `queue run`
request which reuses an unfinished slug is rejected. `UnfinishedTaskInOneRun`
holds up to what its marks name: appended items, requests that overlap, and rows
that a stopping worker writes back. A success recorded between a push and a
failure (finding 4) is still of delivered work: `RecordSuccessIsDelivered`.

One more came up in a proof. A successful closeout ends with `git checkout
--detach`, `git branch -d` and the removal of the worktree
(`remove_success_task_worktree`, `xtask/main.rs` 552-571). If it is killed after the
first, or the second fails without a reason, branch and worktree stay and the
worktree's HEAD is detached. When the task is then opened again, its agent's commits
go to the detached HEAD; a later closeout delivers the branch, which lacks them,
removes the worktree and reports success. The refinement of `TaskLife` holds
except for that: `Fallible` of the run and the hypothesis of the theorem leave
`branch-d` out.

## 4. Proofs

Each theorem holds for every value of the constants that the named assumption of
its module allows; TLC evaluates these assumptions in every run. A theorem states
the property of a run by name, except for the components of `MCComponents`, where
one property of the run is about several instances at once. A proof module
extends the first component named below and instantiates the others under the
names given; each component is proved by itself, and none shares a variable with
another. Where the names of the modules would collide, the instance renames them
(`restarts` for the `crashes` of the admission).

| Module | Theorems | What they state | Assumption |
| --- | --- | --- | --- |
| `QueueServiceProofs`: `QueueLease` | `TypeCorrect`, `Invariance`, `SoleWorkerHolds`, `EpochsAreUnique`, `ActiveLeaseKept` | `TypeOK`, `IInv`, `SoleWorker`, `UniqueEpochs`, `ActiveLeaseIsKept` | `LeaseAssumption` |
| ... `Admission`: `QueueAdmission` | `AdmissionTypeCorrect`, `LimitsKept` | `TypeOK`, `ReservationsWithinLimits` | `Parameters` |
| ... `Graph`: `QueueGraph` | `GraphTypeCorrect`, `ItemReady` | `TypeOK`, `SomeItemIsReady` | `Parameters`, `SearchFindsCycles` |
| ... `Client`: `QueueClient` | `ClientTypeCorrect`, `DaemonRecorded` | `TypeOK`, `ListeningDaemonIsRecorded` | `Parameters` |
| `QueueReconcileProofs` | `TypeCorrect`, `FailuresPaidOnce`, `RepeatsAreFree` | `TypeOK`, `OneFailureOneUnit`, `RepeatIsFree` | `BudgetAssumption` |
| `QueueExecutionProofs` | `TypeCorrect`, `IterationsStay`, `SuccessReal`, `OrderKept`, `ExecutorStays` | `TypeOK`, `IterationsNeverRewind`, `SuccessIsReal`, `AgentsRunInOrder`, `AttachedExecutorIsKept` | `ExecutionAssumption`, `BudgetAssumption` |
| `QueueBoardProofs` | `TypeCorrect`, `OneRunPerTask`, `PlansKept`, `SuccessComplete`, `TabsStay` | `TypeOK`, `UnfinishedTaskInOneRun`, `StartedItemKeepsItsPlan`, `SuccessMeansAllDone`, `TabsShowTheirRuns` | `BoardAssumption` |
| `TaskFlowProofs` | `TypeCorrect`, `SuccessDelivered`, `WorkKept`, `ReportsComplete` | `TypeOK`, `RecordSuccessIsDelivered`, `WorkIsNotLost`, `ReportedSuccessIsComplete` | `TaskFlowAssumption`; the last two: `branch-d` is not in `Fallible` |
| `AgentProofs`: `TaskChat` | `TypeCorrect`, `MessagesReached` | `TypeOK`, `MessagesReachTheirTask` | `Parameters` |
| ... `Launch`: `QueueLaunch` | `LaunchTypeCorrect`, `KeptApart` | `TypeOK`, `AgentsKeepApart` | `Parameters` |
| ... `Registry`: `AgentSessions` | `RegistryTypeCorrect`, `PlacesKept` | `TypeOK`; `RunningAgentsStayListed`, `SessionClaimedOnce`, `SharedTreesWereLeft` | `Parameters` |
| `TaskRecordsProofs`: `TaskRecords` | `TypeCorrect`, `NumbersAhead` | `TypeOK`, `CounterAhead` | `Parameters` |
| ... `Telemetry`: `TaskTelemetry` | `TelemetryTypeCorrect`, `UsageKept` | `TypeOK`, `UsageIsTheTasksOwn` | `Parameters` |
| ... `Evidence`: `TaskEvidence` | `DeliveriesProven` | `DeliveredTreeIsChecked`, `SuccessIsDelivered` | none |

`QueueStatusProofs` has lemmas only: what each branch of the reducer decides, and
what each write makes of a row. The arguments, module by module:

**The lease.** `SoleWorker` is not inductive: it does not say why a second daemon
cannot acquire. `IInv` adds two facts. `HoldsUnlapsed`: a working thread that has
not lapsed owns the lease, under its epoch, with time left. `OwnerIsNewest`: a live
thread whose daemon owns the lease has the lease's epoch. Then an acquisition,
which needs an expired lease, meets no thread that has not lapsed, and two working
threads that had both not lapsed would both own the lease. Epochs are unique
because only an acquisition makes one, and it takes a number above that of the
lease, which bounds all live ones. `ActiveLeaseIsKept` follows from `OwnerIsNewest`
in one step: the only statement that clears an unexpired lease is the release, and
it compares owner and epoch.

**Reconciliation.** The invariant is `TypeOK` and `ExitedIsOver`: a row that says its
agent has exited names no agent at work, so that no pass drops a live executor
on the strength of an old message. `OneFailureOneUnit` is the case distinction of the reducer: every write
charges an iteration, or an attempt, or nothing, and charges only after a failed
record or a lost executor. For `RepeatIsFree` a pass is shown to leave a row that is
settled: the same evidence then leads to the same decision, which writes what is
there already.

**Execution.** Every writer decides on a snapshot. The invariant `Inv` says what a
snapshot can be trusted for however old it is (`Trusted`): its agent and its
iterations have been charged to the stored row, and a success it shows is one of
the record. With that each write leaves a good row (`GoodRow` of
`QueueStatusProofs`), and no write takes an iteration back. `SuccessIsReal` needs
`ReportInv` besides: a run is successful when all records are closed, and a
reconciler that resumes has found the items before its position closed.
`AgentsRunInOrder` needs `OrderInv`: a worker exists, or an agent lives, only for an
item whose predecessors are closed; and a worker about to spawn has a snapshot of
an unfinished run. `AttachedExecutorIsKept` goes through the decisions: the evidence
about an attached executor leads to `MarkRunning` or to nothing.

**The board.** Types come with `Consistent`, which the fallback of a deleted tab
needs. The races need what holds between a read and its write: while nobody has
written, what a handler has checked is still so (`FreshChecked`, `FreshEditable`);
an item with a worker is not terminal (`StartedUnfinished`); and what a worker has
not seen of its run's rows is marked (`Looked`). A step keeps the rows that were
there, or is one of the two that store rows.

**The task flow.** For `RecordSuccessIsDelivered`: everything that may say
`closed:success` (a `task.env`, a record, what a synchronisation carries, a closeout
past its push) is of a task that has pushed. For the refinement, `BaseFine` and
`TaskFine` say where work may be, and that the work of other tasks on a branch is
in the base branch as well, so that a branch that is thrown away takes its own
task's work at most; `Phases` what a closeout has achieved at each of its phases;
`GivenUp` that whatever throws work away is entitled to. Then every step leaves all
work where it is, or makes, loses or reports some (`Outcome`), and each of these is
a step of `TaskLife` or a stutter (`LifeStep`). A rebase is shown to keep patches
by an induction on the length of the history it replays, in the form of a least
counterexample, since the library's induction theorems cannot be used.

**Task records.** `CounterAhead` speaks of stored rows. A process that fills in
missing numbers carries more between its statements: which rows have none, in which
repository (`Listed`), and the number it has taken and not stored yet (`Promised`),
which is below the counter. The repair of legacy numbers sets counters back, and is
harmless when it comes before everything else (`Repaired`); a second process that
runs it comes later, which `repairs` remembers. That `repairs` stays in its type
takes counting the processes that may still repair (`MayRepair`).

**Admission.** The limits are of what the items of a host hold. They are inductive
with `PlansFit`: a plan that no other worker has overtaken still fits beside what its
host holds. Every step but a spawn leaves a host with less, and a spawn marks the
plans of all other runs (`raced` when they are carried out).

**The graph of a run.** The rows that are stored depend on each other only and in no
circle (`Whole`). Requests check and store in two steps, so the invariant has a
second part: what a request under way is going to store makes the rows it has read
whole again (`GraphFits`). A request stored over rows it has not read sets
`overlapped`, after which nothing is claimed. Some item is ready because the
unfinished items of a graph without a circle have one that depends on finished
ones only. That the search refuses every circle is what `SearchFindsCycles` says.

**The daemon.** While starts and stops do not overlap, one process at most is between
reading the pid file and writing it, it knows every daemon that runs (`Knows`), and
when there is no such process the pid file does (`Recorded`).

**Launches.** A worker checks first and launches later. Where it stands says what its
row and its agent are (`Placed`), that no other worker has passed the check of the
same slug (`SlugsApart`), that the worktree its agent is told to open is not there
(`TreesApart`), and which ports of other items it has read and so avoids
(`PortsApart`). That a free port is found takes counting: there are as many ports
as items.

**The registry.** A launch records an agent after its process runs, and a pass deletes
what it saw before. So the invariant says at which step of a launch its worktree,
row and record are what they are (`Launched`), that a pass holds only finished
launches as loaded and condemns only ids of agents that have left (`Passing`), and
which session files a pass takes for given away (`Claiming`).

**Chat.** A text may be heard by an agent if it is a packet, or a message typed for
the agent's task, or misled (`Fine`). That is so of all input lines because it is of
every request under way, whose target is an agent of its task from the moment it
has one (`FitCall`), and because a window shows an agent of its task or has strayed
(`FitWindow`).

**Usage and evidence.** What a record holds, and what was found at the task's end,
was written by a session within the task's time (`Spent`), and stays in the record
unless a session behind it is lost (`Own`). Where a closeout stands says that its
tree is checked, delivered, and its success written down (`Checks`, `Delivered`,
`Reported`).

What is only model-checked:

- Liveness, out of the prover's reach as is ENABLED: `DeadOwnerIsCleared`,
  `StopIsHonoured`, `ActiveRunIsServed`, `ClearedRunsWindDown`, and the five temporal
  properties of `Components`.
- Two things computed over data by recursion: that the depth-first search finds
  circles (`SearchFindsCycles`, a hypothesis above), and the parts of
  `ClientRequestsHold` and `ClosedTaskEvidence` that depend on what filters and
  sorts make of sequences: `PackagesArriveWhole`, `ProofRowsStay`. The library
  has no theorem about `SelectSeq`, and what it yields takes an induction.
- `TypeOK` of `Dashboard`, `AgentSelection` and `TaskEvidence`.
- The four findings, which are counterexamples.

## 5. Plan

The model covers what section 1 lists, and every safety property of the eight runs
is proved, up to the list above. What could come next:

1. The types of the three components above; `TaskEvidence` needs that
   what `SelectSeq` leaves of an index is a sequence.
2. `SearchFindsCycles` itself: that the depth-first search is done with an item only
   when everything below it is, by a least counterexample like the one for a rebase
   in `TaskFlowProofs`. The fold over the items an item depends on is what makes it
   hard: its steps come in an order that `CHOOSE` picks.
3. The hazards without a property, which section 6 ends with.

## 6. Not modelled

- Repositories and adapters: one process that reads its own configuration and
  calls external commands; `TaskFlow` has what the commands do.
- Telegram bot: inbound updates are switched off (`TELEGRAM_INBOUND_ENABLED`,
  `telegram.rs:12`), so the code that would route commands is unreachable.
- Node agent, status pages, prompt rendering, output guard, source bundles:
  collection and formatting without a state that outlives the call.
- HTTP routing, headers and the rendering of snapshots; terminal panes and
  settings of the dashboard; the text of task packets.
- Creation and alteration of tables. The migrations that change rows are in
  `TaskRecords`; the default tab that every load ensures is in `QueueBoard` from
  the beginning.
- Database errors and panics inside a worker; tmux, zellij, git, the hosts and
  the agents themselves, which appear as what they may do.

Four hazards in `PROJECT.json` have no property: a worker that lost its lease and
fails the item, a wait that only Stop ends, orphan cleanup that ends a fresh
agent, and the order of two reads inside one look at the evidence. The first
three are steps of the models whose outcome nobody promises; the last one is
one step here, because two would square the states of a pass.
