------------------------------ MODULE TaskFlow ------------------------------
(***************************************************************************)
(* The managed task flow of one repository: qcold task open, pause,        *)
(* closeout, clear and terminal-check, the xtask commands behind them, and *)
(* the synchronisation of task records with the worktrees.                 *)
(*                                                                         *)
(* What they share: the remote's base branch, the primary checkout's, one  *)
(* branch, worktree and task.env per task, and one task record per task.   *)
(* There is no lock.  Every git command and every file is a step of its    *)
(* own where another process can tell the difference; a command may fail,  *)
(* and a process may be killed between two steps.                          *)
(*                                                                         *)
(* A history is the sequence of the patches on it, so a rebased commit is  *)
(* another history of the same patches.                                    *)
(***************************************************************************)
EXTENDS Naturals, FiniteSets, SequencesExt

CONSTANTS Task,       \* the tasks, one slug each
          MaxWork,    \* bound on the patches an agent makes for one task
          MaxCommands, \* bound on the qcold task commands, of all tasks together
          MaxForeign, \* bound on the patches other people push
          MaxTrouble, \* bound on those patches, failing commands, killed processes and runs of
                      \* terminal-check taken together
          Fallible    \* the commands that may fail without a reason in the model

Commands == {"clean", "preflight", "rebase", "push", "bundle", "branch-d", "remove", "receipt"}

ASSUME TaskFlowAssumption ==
    /\ IsFiniteSet(Task) /\ "foreign" \notin Task
    /\ MaxWork \in Nat
    /\ MaxCommands \in Nat
    /\ MaxForeign \in Nat
    /\ MaxTrouble \in Nat
    /\ Fallible \subseteq Commands

VARIABLES upstream,  \* the remote's base branch
          tracking,  \* origin/<base> as last fetched or pushed
          primary,   \* the base branch in the primary checkout
          branch,    \* branch[t]: task/<slug>, or NoBranch
          tree,      \* tree[t]: the managed worktree
          record,    \* record[t]: status of the record task/<slug>
          proc,      \* proc[t]: where the task's qcold command is
          check,     \* terminal-check
          sync,      \* the record synchronisation
          made,      \* made[t]: how many patches the agent has made
          asked,     \* history: tasks somebody has paused, given up or cleared, or whose
                     \* worktree terminal-check has rightly put on its list
          pushed,    \* history: tasks whose closeout has pushed
          bundled,   \* tasks with a bundle written since their last closeout began
          said,      \* history: tasks reported as successfully closed
          commands, foreign, faults, checks
repo == <<upstream, tracking, primary, branch>>
history == <<asked, pushed, bundled, said>>
counters == <<commands, foreign, faults, checks>>
vars == <<repo, tree, record, proc, check, sync, made, history, counters>>

NoBranch == <<<<"no branch", 0>>>>
Patch == (Task \X (1..MaxWork)) \cup ({"foreign"} \X (1..MaxForeign))
Patches(log) == {log[k] : k \in DOMAIN log}

Closed == {"closed:success", "closed:blocked", "closed:failed"}
EnvStatus == {"open", "paused", "failed-closeout"} \cup Closed
ClosedAs == [success |-> "closed:success", blocked |-> "closed:blocked", failed |-> "closed:failed"]

NoTree == [kind |-> "none", env |-> "none", attached |-> TRUE, head |-> <<>>, dirty |-> <<>>]

(* Commits of a worktree go to the branch, or to a detached HEAD.             *)
HeadLog(t) == IF tree[t].attached THEN branch[t] ELSE tree[t].head

Idle(t) == proc[t] = "idle"
Git(t) == tree[t].kind = "git"
HasEnv(t) == tree[t].env # "none"

ProcPc == {"idle", "find", "env", "paused", "preflight", "commit", "fetch", "rebase", "merge",
           "push", "close", "bundle", "unbranch", "remove", "fail", "failbundle",
           "dropbundle:blocked", "dropbundle:failed", "dropremove:blocked", "dropremove:failed",
           "receipt:blocked", "receipt:failed", "mark:success", "mark:blocked", "mark:failed"}
BundleAt == [blocked |-> "dropbundle:blocked", failed |-> "dropbundle:failed"]
DropAt == [blocked |-> "dropremove:blocked", failed |-> "dropremove:failed"]
ReceiptAt == [blocked |-> "receipt:blocked", failed |-> "receipt:failed"]
MarkAt == [success |-> "mark:success", blocked |-> "mark:blocked", failed |-> "mark:failed"]
CheckPc == {"idle", "residue", "terminal", "orphan", "paused"}

Init ==
    /\ upstream = <<>> /\ tracking = <<>> /\ primary = <<>>
    /\ branch = [t \in Task |-> NoBranch]
    /\ tree = [t \in Task |-> NoTree]
    /\ record = [t \in Task |-> "none"]
    /\ proc = [t \in Task |-> "idle"]
    /\ check = [pc |-> "idle", todo |-> {}]
    /\ sync = [pc |-> "idle", task |-> "none", status |-> "none"]
    /\ made = [t \in Task |-> 0]
    /\ asked = {} /\ pushed = {} /\ bundled = {} /\ said = {}
    /\ commands = 0 /\ foreign = 0 /\ faults = 0 /\ checks = 0

(* A command of a task begins while no other one of the task is running.      *)
Begins(t) ==
    /\ Idle(t) /\ commands < MaxCommands
    /\ commands' = commands + 1
    /\ UNCHANGED <<foreign, faults, checks>>

Goto(t, pc) == proc' = [proc EXCEPT ![t] = pc]

Room == foreign + faults + checks < MaxTrouble

(* A command of the task's process fails for a reason outside the model.      *)
Fault(c) == c \in Fallible /\ Room /\ faults' = faults + 1
Fine == UNCHANGED faults

(* write_task_env creates the directories it needs: in a worktree that has    *)
(* been removed meanwhile it leaves a directory with nothing but .task.       *)
WriteEnv(t, status) ==
    tree' = [tree EXCEPT ![t].env = status,
                         ![t].kind = IF @ = "none" THEN "residue" ELSE @]

(* So does append_event, which the phases of a closeout begin with.           *)
AppendEvent(t) == tree' = [tree EXCEPT ![t].kind = IF @ = "none" THEN "residue" ELSE @]

RemoveTree(t) == tree' = [tree EXCEPT ![t] = NoTree]

---------------------------------------------------------------------------
(* The agent and the outside world.                                           *)

(* The agent changes files of its worktree between two commands.              *)
AgentEdits(t) ==
    /\ Idle(t) /\ Git(t) /\ tree[t].env \in {"open", "failed-closeout"}
    /\ made[t] < MaxWork
    /\ made' = [made EXCEPT ![t] = @ + 1]
    /\ tree' = [tree EXCEPT ![t].dirty = Append(@, <<t, made[t] + 1>>)]
    /\ UNCHANGED <<repo, record, proc, check, sync, history, counters>>

SomebodyPushes ==
    /\ foreign < MaxForeign /\ Room
    /\ foreign' = foreign + 1
    /\ upstream' = Append(upstream, <<"foreign", foreign + 1>>)
    /\ UNCHANGED <<tracking, primary, branch, tree, record, proc, check, sync, made, history,
                   commands, faults, checks>>

(* A command is killed.                                                       *)
Killed(t) ==
    /\ ~Idle(t) /\ Room
    /\ faults' = faults + 1
    /\ Goto(t, "idle")
    /\ UNCHANGED <<repo, tree, record, check, sync, made, history, commands, foreign, checks>>

---------------------------------------------------------------------------
(* qcold task open: the record first (record_task_open), then the adapter.    *)
OpenRecord(t) ==
    /\ Begins(t)
    /\ tree[t].env \notin Closed
    /\ record' = [record EXCEPT ![t] = "open"]
    /\ Goto(t, "find")
    /\ UNCHANGED <<repo, tree, check, sync, made, history>>

(* open_command on a task that find_task finds paused or failed.              *)
Resume(t) ==
    /\ proc[t] = "find" /\ tree[t].env \in {"paused", "failed-closeout"}
    /\ WriteEnv(t, "open")
    /\ Goto(t, "idle")
    /\ UNCHANGED <<repo, record, check, sync, made, history, counters>>

(* ... and on a new one: ensure_clean, then git worktree add -b.              *)
AddWorktree(t) ==
    /\ proc[t] = "find" /\ tree[t].env \notin {"paused", "failed-closeout"}
    /\ IF tree[t].kind = "none" /\ branch[t] = NoBranch
       THEN \/ /\ branch' = [branch EXCEPT ![t] = primary]
               /\ tree' = [tree EXCEPT ![t] = [NoTree EXCEPT !.kind = "git"]]
               /\ Goto(t, "env")
               /\ Fine
            \/ Fault("clean") /\ Goto(t, "idle") /\ UNCHANGED <<branch, tree>>
       ELSE Goto(t, "idle") /\ Fine /\ UNCHANGED <<branch, tree>>
    /\ UNCHANGED <<upstream, tracking, primary, record, check, sync, made, history, commands, foreign, checks>>

(* The new worktree gets its task.env.  Should it be gone by now, reading its *)
(* head fails, or writing recreates the directory.                            *)
OpenEnv(t) ==
    /\ proc[t] = "env"
    /\ WriteEnv(t, "open") \/ (~Git(t) /\ UNCHANGED tree)
    /\ Goto(t, "idle")
    /\ UNCHANGED <<repo, record, check, sync, made, history, counters>>

(* pause_command, then the record.                                            *)
Pause(t) ==
    /\ Begins(t) /\ Git(t) /\ HasEnv(t)
    /\ WriteEnv(t, "paused")
    /\ asked' = asked \cup {t}
    /\ Goto(t, "paused")
    /\ UNCHANGED <<repo, record, check, sync, made, pushed, bundled, said>>

PauseRecord(t) ==
    /\ proc[t] = "paused"
    /\ record' = [record EXCEPT ![t] = IF @ = "none" THEN @ ELSE "paused"]
    /\ Goto(t, "idle")
    /\ UNCHANGED <<repo, tree, check, sync, made, history, counters>>

---------------------------------------------------------------------------
(* qcold task closeout --outcome success.  The record is synchronised from    *)
(* the worktree, without regard to a terminal status it may have.             *)
CloseoutStarts(t) ==
    /\ Begins(t) /\ Git(t) /\ HasEnv(t)
    /\ record' = [record EXCEPT ![t] = tree[t].env]
    /\ bundled' = bundled \ {t}
    /\ Goto(t, "preflight")
    /\ UNCHANGED <<repo, tree, check, sync, made, asked, pushed, said>>

(* A phase of closeout_success_inner: from `pc' to `next' if its command      *)
(* works, and to the failure record if it does not.                           *)
Fails(t) == Goto(t, "fail")

(* ensure-primary-clean, preflight and proof-run-index.                       *)
Preflight(t) ==
    /\ proc[t] = "preflight"
    /\ AppendEvent(t)
    /\ \/ Git(t) /\ Goto(t, "commit") /\ Fine
       \/ Fault("preflight") /\ Fails(t)
       \/ ~Git(t) /\ Fails(t) /\ Fine
    /\ UNCHANGED <<repo, record, check, sync, made, history, commands, foreign, checks>>

(* Mutant: what the agent has not committed itself stays uncommitted.         *)
CommitForgotten(t) ==
    /\ proc[t] = "commit"
    /\ Git(t) /\ Goto(t, "fetch")
    /\ UNCHANGED <<repo, tree, record, check, sync, made, history, counters>>

(* commit-task-worktree, where HEAD is.                                       *)
Commit(t) ==
    /\ proc[t] = "commit"
    /\ IF Git(t) /\ HeadLog(t) # NoBranch
       THEN LET log == HeadLog(t) \o tree[t].dirty
            IN  /\ IF tree[t].attached
                   THEN /\ branch' = [branch EXCEPT ![t] = log]
                        /\ tree' = [tree EXCEPT ![t].dirty = <<>>]
                   ELSE /\ tree' = [tree EXCEPT ![t].dirty = <<>>, ![t].head = log]
                        /\ UNCHANGED branch
                /\ Goto(t, "fetch")
       ELSE Fails(t) /\ AppendEvent(t) /\ UNCHANGED branch
    /\ UNCHANGED <<upstream, tracking, primary, record, check, sync, made, history, counters>>

(* deliver_task_branch_to_primary: fetch, and the primary checkout            *)
(* fast-forwards to the remote.                                               *)
FetchAndForward(t) ==
    /\ proc[t] = "fetch"
    /\ tracking' = upstream
    /\ IF IsPrefix(primary, upstream) \/ IsPrefix(upstream, primary)
       THEN /\ primary' = IF IsPrefix(primary, upstream) THEN upstream ELSE primary
            /\ Goto(t, "rebase")
       ELSE Fails(t) /\ UNCHANGED primary
    /\ UNCHANGED <<upstream, branch, tree, record, check, sync, made, history, counters>>

(* git rebase origin/<base> in the worktree.                                  *)
Replayed(log, onto) ==
    LET replay[k \in 0..Len(log)] ==
            IF k = 0 THEN <<>>
            ELSE IF log[k] \in Patches(onto) THEN replay[k - 1] ELSE Append(replay[k - 1], log[k])
    IN  replay[Len(log)]
Rebased(log, onto) == IF IsPrefix(onto, log) THEN log ELSE onto \o Replayed(log, onto)

Rebase(t) ==
    /\ proc[t] = "rebase"
    /\ \/ /\ Git(t) /\ HeadLog(t) # NoBranch
          /\ IF tree[t].attached
             THEN /\ branch' = [branch EXCEPT ![t] = Rebased(@, tracking)]
                  /\ UNCHANGED tree
             ELSE /\ tree' = [tree EXCEPT ![t].head = Rebased(@, tracking)]
                  /\ UNCHANGED branch
          /\ Goto(t, "merge") /\ Fine
       \/ Fault("rebase") /\ Fails(t) /\ UNCHANGED <<branch, tree>>
       \/ (~Git(t) \/ HeadLog(t) = NoBranch) /\ Fails(t) /\ Fine /\ UNCHANGED <<branch, tree>>
    /\ UNCHANGED <<upstream, tracking, primary, record, check, sync, made, history, commands, foreign, checks>>

(* git merge --ff-only task/<slug> in the primary checkout.                   *)
Merge(t) ==
    /\ proc[t] = "merge"
    /\ IF branch[t] # NoBranch /\ (IsPrefix(primary, branch[t]) \/ IsPrefix(branch[t], primary))
       THEN /\ primary' = IF IsPrefix(primary, branch[t]) THEN branch[t] ELSE primary
            /\ Goto(t, "push")
       ELSE Fails(t) /\ UNCHANGED primary
    /\ UNCHANGED <<upstream, tracking, branch, tree, record, check, sync, made, history, counters>>

(* git push of the base branch, and the fetch after it, which may fail on its *)
(* own.                                                                       *)
Accepted == IsPrefix(upstream, primary)

(* Mutant: a rejected push goes unnoticed.                                    *)
PushUnchecked(t) ==
    /\ proc[t] = "push"
    /\ upstream' = IF Accepted THEN primary ELSE upstream
    /\ tracking' = upstream'
    /\ pushed' = IF Accepted THEN pushed \cup {t} ELSE pushed
    /\ Goto(t, "close") /\ Fine
    /\ UNCHANGED <<primary, branch, tree, record, check, sync, made, asked, bundled, said, commands,
                   foreign, checks>>

Push(t) ==
    /\ proc[t] = "push"
    /\ \/ /\ Accepted
          /\ upstream' = primary /\ tracking' = primary
          /\ pushed' = pushed \cup {t}
          /\ (Goto(t, "close") /\ Fine) \/ (Fault("push") /\ Fails(t))
       \/ /\ Fails(t)
          /\ (~Accepted /\ Fine) \/ Fault("push")
          /\ UNCHANGED <<upstream, tracking, pushed>>
    /\ UNCHANGED <<primary, branch, tree, record, check, sync, made, asked, bundled, said, commands,
                   foreign, checks>>

(* Mutant: the outcome is written without its prefix.                         *)
CloseEnvBare(t) ==
    /\ proc[t] = "close"
    /\ WriteEnv(t, "success") /\ Goto(t, "bundle")
    /\ UNCHANGED <<repo, record, check, sync, made, history, counters>>

(* The task is closed:success in its task.env before bundle and cleanup.      *)
CloseEnv(t) ==
    /\ proc[t] = "close"
    /\ IF Git(t) THEN WriteEnv(t, "closed:success") /\ Goto(t, "bundle")
       ELSE Fails(t) /\ UNCHANGED tree
    /\ UNCHANGED <<repo, record, check, sync, made, history, counters>>

(* create_task_archive_bundle needs the git worktree for its snapshot.        *)
Bundle(t) ==
    /\ proc[t] = "bundle"
    /\ \/ Git(t) /\ bundled' = bundled \cup {t} /\ Goto(t, "unbranch") /\ Fine
       \/ Fault("bundle") /\ Fails(t) /\ UNCHANGED bundled
       \/ ~Git(t) /\ Fails(t) /\ Fine /\ UNCHANGED bundled
    /\ AppendEvent(t)
    /\ UNCHANGED <<repo, record, check, sync, made, asked, pushed, said, commands, foreign, checks>>

(* remove_success_task_worktree: git checkout --detach, then branch -d, which *)
(* wants the branch merged into the primary checkout's.  A killed process may *)
(* have come as far as the detached HEAD: that counts as a failed branch -d.  *)
Unbranch(t) ==
    LET merged == branch[t] # NoBranch /\ IsPrefix(branch[t], primary)
        detached == [tree EXCEPT ![t].attached = FALSE, ![t].head = HeadLog(t)]
    IN  /\ proc[t] = "unbranch"
        /\ \/ /\ Git(t) /\ tree' = detached
              /\ \/ merged /\ branch' = [branch EXCEPT ![t] = NoBranch] /\ Goto(t, "remove") /\ Fine
                 \/ ~merged /\ Fails(t) /\ Fine /\ UNCHANGED branch
                 \/ Fault("branch-d") /\ (Fails(t) \/ Goto(t, "idle")) /\ UNCHANGED branch
           \/ ~Git(t) /\ Fails(t) /\ Fine /\ AppendEvent(t) /\ UNCHANGED branch
        /\ UNCHANGED <<upstream, tracking, primary, record, check, sync, made, history, commands,
                       foreign, checks>>

(* git worktree remove --force; the closeout then reports success.            *)
RemoveWorktree(t) ==
    /\ proc[t] = "remove"
    /\ \/ /\ Git(t) /\ RemoveTree(t) /\ said' = said \cup {t} /\ Goto(t, "mark:success") /\ Fine
       \/ Fault("remove") /\ Fails(t) /\ UNCHANGED <<tree, said>>
       \/ ~Git(t) /\ Fails(t) /\ Fine /\ UNCHANGED <<tree, said>>
    /\ UNCHANGED <<repo, record, check, sync, made, asked, pushed, bundled, commands, foreign, checks>>

(* record_success_closeout_failure: the status, and a diagnostic bundle.      *)
Fail(t) ==
    /\ proc[t] = "fail"
    /\ WriteEnv(t, "failed-closeout")
    /\ Goto(t, "failbundle")
    /\ UNCHANGED <<repo, record, check, sync, made, history, counters>>

FailBundle(t) ==
    /\ proc[t] = "failbundle"
    /\ \/ bundled' = (IF Git(t) THEN bundled \cup {t} ELSE bundled) /\ Fine
       \/ Fault("bundle") /\ UNCHANGED bundled
    /\ Goto(t, "idle")
    /\ UNCHANGED <<repo, tree, record, check, sync, made, asked, pushed, said, commands, foreign, checks>>

(* The record after the adapter has returned the outcome's own exit code.     *)
Mark(t, outcome) ==
    /\ proc[t] = MarkAt[outcome]
    /\ record' = [record EXCEPT ![t] = IF @ = "none" THEN @ ELSE ClosedAs[outcome]]
    /\ Goto(t, "idle")
    /\ UNCHANGED <<repo, tree, check, sync, made, history, counters>>

---------------------------------------------------------------------------
(* closeout_non_success: blocked or failed.                                   *)
DropStarts(t, outcome) ==
    /\ Begins(t) /\ Git(t) /\ HasEnv(t)
    /\ record' = [record EXCEPT ![t] = tree[t].env]
    /\ WriteEnv(t, ClosedAs[outcome])
    /\ asked' = asked \cup {t}
    /\ bundled' = bundled \ {t}
    /\ Goto(t, BundleAt[outcome])
    /\ UNCHANGED <<repo, check, sync, made, pushed, said>>

DropBundle(t, outcome) ==
    /\ proc[t] = BundleAt[outcome]
    /\ \/ Git(t) /\ bundled' = bundled \cup {t} /\ Goto(t, DropAt[outcome]) /\ Fine
       \/ Fault("bundle") /\ Goto(t, "idle") /\ UNCHANGED bundled
       \/ ~Git(t) /\ Goto(t, "idle") /\ Fine /\ UNCHANGED bundled
    /\ UNCHANGED <<repo, tree, record, check, sync, made, asked, pushed, said, commands, foreign, checks>>

(* Neither a worktree nor a branch that cannot be removed is an error here;   *)
(* a branch checked out in a worktree is not removed.                         *)
DropRemove(t, outcome) ==
    /\ proc[t] = DropAt[outcome]
    /\ \/ /\ IF Git(t) THEN RemoveTree(t) ELSE UNCHANGED tree
          /\ branch' = [branch EXCEPT ![t] = NoBranch]
          /\ Fine
       \/ /\ Fault("remove")
          /\ UNCHANGED tree
          /\ branch' = IF tree[t].attached THEN branch ELSE [branch EXCEPT ![t] = NoBranch]
    /\ Goto(t, ReceiptAt[outcome])
    /\ UNCHANGED <<upstream, tracking, primary, record, check, sync, made, history, commands, foreign, checks>>

DropReceipt(t, outcome) ==
    /\ proc[t] = ReceiptAt[outcome]
    /\ (Goto(t, MarkAt[outcome]) /\ Fine) \/ (Fault("receipt") /\ Goto(t, "idle"))
    /\ UNCHANGED <<repo, tree, record, check, sync, made, history, commands, foreign, checks>>

(* clean_command: `clear', or `clean' where nothing is uncommitted.           *)
Clear(t) ==
    /\ Begins(t) /\ Git(t) /\ HasEnv(t)
    /\ RemoveTree(t)
    /\ branch' = [branch EXCEPT ![t] = NoBranch]
    /\ asked' = asked \cup {t}
    /\ UNCHANGED <<upstream, tracking, primary, record, proc, check, sync, made, pushed, bundled,
                   said>>

---------------------------------------------------------------------------
(* terminal-check, whose four cleanups each list the worktrees and then       *)
(* remove what they have listed.                                              *)
CheckNext(pc) ==
    CASE pc = "idle" -> "residue" [] pc = "residue" -> "terminal" [] pc = "terminal" -> "orphan"
      [] pc = "orphan" -> "paused" [] pc = "paused" -> "idle"

(* Mutant: open tasks are listed as well.                                     *)
ListedWithOpen(pc) ==
    CASE pc = "residue" -> {{t \in Task : HasEnv(t)}}
      [] pc = "terminal" -> {{t \in Task : tree[t].env \in Closed \cup {"open"}}}
      [] pc = "orphan" -> {{t \in Task : Git(t) /\ ~HasEnv(t)}}
      [] pc = "paused" -> SUBSET {t \in Task : tree[t].env = "paused"}
      [] pc = "idle" -> {{}}

(* What the cleanup lists.  How old a pause is, is a free choice.             *)
Listed(pc) ==
    CASE pc = "residue" -> {{t \in Task : HasEnv(t)}}
      [] pc = "terminal" -> {{t \in Task : tree[t].env \in Closed}}
      [] pc = "orphan" -> {{t \in Task : Git(t) /\ ~HasEnv(t)}}
      [] pc = "paused" -> SUBSET {t \in Task : tree[t].env = "paused"}
      [] pc = "idle" -> {{}}

CheckLists ==
    LET next == CheckNext(check.pc)
    IN  /\ check.todo = {}
        /\ check.pc = "idle" => Room
        /\ checks' = IF check.pc = "idle" THEN checks + 1 ELSE checks
        /\ \E todo \in Listed(next) :
               /\ check' = [pc |-> next, todo |-> todo]
               /\ asked' = asked \cup {t \in todo : /\ next # "residue"
                                                   /\ tree[t].env \in Closed \cup {"paused", "none"}}
        /\ UNCHANGED <<repo, tree, record, proc, sync, made, pushed, bundled, said, commands,
                       foreign, faults>>

CheckDone(t) == check' = [check EXCEPT !.todo = @ \ {t}]
CheckAborts == check' = [pc |-> "idle", todo |-> {}]

(* clear_metadata_only_task_residue.                                          *)
ClearResidue(t) ==
    /\ check.pc = "residue" /\ t \in check.todo
    /\ IF tree[t].kind = "residue" /\ branch[t] = NoBranch THEN RemoveTree(t) ELSE UNCHANGED tree
    /\ CheckDone(t)
    /\ UNCHANGED <<repo, record, proc, sync, made, history, counters>>

(* clear_finished_task_worktree: a directory that is gone is passed over, and  *)
(* git refuses one that is no worktree, which ends the check.                  *)
ClearFinished(t) ==
    /\ check.pc = "terminal" /\ t \in check.todo
    /\ IF tree[t].kind # "residue"
       THEN /\ RemoveTree(t)
            /\ branch' = [branch EXCEPT ![t] = NoBranch]
            /\ CheckDone(t)
       ELSE CheckAborts /\ UNCHANGED <<tree, branch>>
    /\ UNCHANGED <<upstream, tracking, primary, record, proc, sync, made, history, counters>>

(* clear_stale_paused_tasks ends at one that is gone as well.                  *)
ClearPaused(t) ==
    /\ check.pc = "paused" /\ t \in check.todo
    /\ IF Git(t)
       THEN /\ RemoveTree(t)
            /\ branch' = [branch EXCEPT ![t] = NoBranch]
            /\ CheckDone(t)
       ELSE CheckAborts /\ UNCHANGED <<tree, branch>>
    /\ UNCHANGED <<upstream, tracking, primary, record, proc, sync, made, history, counters>>

(* clear_orphan_task_worktrees leaves the branch.                             *)
ClearOrphan(t) ==
    /\ check.pc = "orphan" /\ t \in check.todo
    /\ IF Git(t) THEN RemoveTree(t) /\ CheckDone(t) ELSE CheckAborts /\ UNCHANGED tree
    /\ UNCHANGED <<repo, record, proc, sync, made, history, counters>>

---------------------------------------------------------------------------
(* sync_task_flow_records, one worktree of the list: a record that is terminal *)
(* when the records are loaded keeps its status, any other takes the one of    *)
(* task.env, and is written after the telemetry has been collected.  The       *)
(* terminal bundles it reads last name their task in a TASK_ID that xtask's    *)
(* receipts do not have, so they close no record.                              *)
NoSync == [pc |-> "idle", task |-> "none", status |-> "none"]

SyncLoads(t) ==
    /\ sync.pc = "idle" /\ HasEnv(t)
    /\ sync' = [pc |-> "read", task |-> t,
                status |-> IF record[t] \in Closed THEN record[t] ELSE "none"]
    /\ UNCHANGED <<repo, tree, record, proc, check, made, history, counters>>

SyncReads ==
    LET env == tree[sync.task].env
    IN  /\ sync.pc = "read"
        /\ sync' = IF env = "none" THEN NoSync
                   ELSE [sync EXCEPT !.pc = "write", !.status = IF @ = "none" THEN env ELSE @]
        /\ UNCHANGED <<repo, tree, record, proc, check, made, history, counters>>

SyncWrites ==
    /\ sync.pc = "write"
    /\ record' = [record EXCEPT ![sync.task] = sync.status]
    /\ sync' = NoSync
    /\ UNCHANGED <<repo, tree, proc, check, made, history, counters>>

---------------------------------------------------------------------------
SuccessPhase(t) == Preflight(t) \/ Commit(t) \/ FetchAndForward(t) \/ Rebase(t) \/ Merge(t)
                   \/ Push(t) \/ CloseEnv(t) \/ Bundle(t) \/ Unbranch(t) \/ RemoveWorktree(t)
                   \/ Fail(t) \/ FailBundle(t)

TaskStep(t) ==
    \/ OpenRecord(t) \/ Resume(t) \/ AddWorktree(t) \/ OpenEnv(t)
    \/ Pause(t) \/ PauseRecord(t) \/ Clear(t)
    \/ CloseoutStarts(t) \/ SuccessPhase(t)
    \/ \E o \in {"blocked", "failed"} : DropStarts(t, o) \/ DropBundle(t, o) \/ DropRemove(t, o)
                                        \/ DropReceipt(t, o)
    \/ \E o \in {"success", "blocked", "failed"} : Mark(t, o)

CheckStep == CheckLists \/ \E t \in Task : ClearResidue(t) \/ ClearFinished(t) \/ ClearPaused(t)
                                         \/ ClearOrphan(t)
SyncStep == SyncReads \/ SyncWrites \/ \E t \in Task : SyncLoads(t)

Next == SomebodyPushes \/ CheckStep \/ SyncStep
        \/ \E t \in Task : AgentEdits(t) \/ Killed(t) \/ TaskStep(t)

Spec == Init /\ [][Next]_vars

---------------------------------------------------------------------------
TypeOK ==
    /\ {upstream, tracking, primary} \subseteq Seq(Patch)
    /\ \A t \in Task : branch[t] = NoBranch \/ branch[t] \in Seq(Patch)
    /\ tree \in [Task -> [kind : {"none", "git", "residue"}, env : EnvStatus \cup {"none"},
                          attached : BOOLEAN, head : {NoBranch} \cup Seq(Patch), dirty : Seq(Patch)]]
    /\ record \in [Task -> EnvStatus \cup {"none"}]
    /\ proc \in [Task -> ProcPc]
    /\ check \in [pc : CheckPc, todo : SUBSET Task]
    /\ sync \in [pc : {"idle", "read", "write"}, task : Task \cup {"none"},
                  status : EnvStatus \cup {"none"}]
    /\ made \in [Task -> 0..MaxWork]
    /\ {asked, pushed, bundled, said} \subseteq SUBSET Task
    /\ commands \in 0..MaxCommands /\ foreign \in 0..MaxForeign /\ {faults, checks} \subseteq 0..MaxTrouble

(* A record says closed:success only if a closeout of that task has pushed,   *)
(* although it is written by the closeout and by every synchronisation, from  *)
(* a task.env read earlier.  task_command, sync_task_flow_record_for_worktree.*)
RecordSuccessIsDelivered == \A t \in Task : record[t] = "closed:success" => t \in pushed

(* Whatever fails or is killed, work is lost only of a task that has been     *)
(* paused, given up, cleared or put on terminal-check's list, and a success   *)
(* is reported only of delivered work.  TaskLife says so.                     *)
WorkOf == {<<t, n>> : t \in Task, n \in 1..MaxWork}
MadeWork == {p \in WorkOf : p[2] <= made[p[1]]}
Delivered == WorkOf \cap Patches(upstream)
Held == (WorkOf \cap (Patches(primary)
            \cup (UNION {Patches(branch[t]) : t \in Task})
            \cup (UNION {Patches(tree[t].head) \cup Patches(tree[t].dirty) : t \in Task})))
        \ Delivered

(* A closeout that reports success has left nothing behind and nothing out:   *)
(* no branch, no worktree, a bundle, and every patch of the task that was     *)
(* still somewhere is on the remote.  closeout_success_inner.                 *)
ReportedSuccessIsComplete ==
    [][\A t \in said' \ said :
           /\ {p \in Held : p[1] = t} \subseteq Patches(upstream')
           /\ branch'[t] = NoBranch /\ tree'[t].kind = "none" /\ t \in bundled']_vars

Life == INSTANCE TaskLife WITH Patch <- WorkOf, held <- Held, delivered <- Delivered,
                               lost <- MadeWork \ (Held \cup Delivered)
WorkIsNotLost == Life!Spec

(* "Incomplete closeout never masquerades as success": once its closeout has  *)
(* failed and nothing is running, the task's record does not say success.     *)
IncompleteNeverMasquerades ==
    \A t \in Task : Idle(t) /\ sync.pc = "idle" /\ tree[t].env = "failed-closeout"
                    => record[t] # "closed:success"
=============================================================================
