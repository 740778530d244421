----------------------------- MODULE QueueLaunch -----------------------------
(* How an item worker launches its agent, here or at a remote host, and      *)
(* learns from task records how the task stands: the checks on the slug, the *)
(* workspace and the packet, the proxy port, the retries, the throttled sync *)
(* of remote records (queue_worker_taskflow.rs, queue_worker_cleanup.rs,     *)
(* queue_worker_status.rs). What a status then leads to is QueueStatus's and *)
(* QueueExecution's; here an item waits, succeeds, fails or starts again.    *)
EXTENDS Naturals, FiniteSetsExt

CONSTANTS Items,
          SlugOf,       \* item -> slug, which two runs' items may share
          RepoOf,       \* item -> repository
          KindOf,       \* item -> "local", "assisted" (local, with a launcher) or "native"
          PortOf,       \* item -> the port of its remote proxy when it is queued
          Ports,        \* the ports there are
          Statuses,     \* what rows may start as
          Retries,      \* WEB_QUEUE_RETRY_DELAYS.len()
          Interval,     \* REQUIRED_REMOTE_QUEUE_SYNC_INTERVAL_SECS
          MaxEvents     \* bound: faults, repairs and items continued

VARIABLES queueRows,    \* item -> [status, port, retries]
          itemWorker,   \* item -> [at, used, then]
          agent,        \* item -> "none", "live", or "working" on its task
          told,         \* item -> the launch context in its packet
          worktrees,    \* slug -> repositories with a worktree for it on this machine
          remote,       \* slug -> its record at the remote host
          local,        \* slug -> its record on this machine
          repair,       \* slug -> its recovery record: the status, and whether it is the newer one
          synced,       \* repository -> time since a sync of its records was begun
          outran,       \* two workers chose ports at once
          events

world == <<worktrees, remote, local, repair>>
vars == <<queueRows, itemWorker, agent, told, world, synced, outran, events>>

Slugs == {SlugOf[i] : i \in Items}
Repos == {RepoOf[i] : i \in Items}
None == "none"
NoTask == [status |-> "absent", repo |-> None, launcher |-> FALSE, agent |-> {}]
Idle == [at |-> "idle", used |-> {}, then |-> None]
Native(i) == KindOf[i] = "native"
Launcher(i) == KindOf[i] # "local"
RowTerminal(s) == s \in {"success", "failed"}
Terminal(s) == s \in {"closed:success", "failed-closeout"}

(* What the proofs assume: there are more ports than items, rows do not start *)
(* with a running agent.                                                     *)
Parameters ==
    /\ IsFiniteSet(Items) /\ IsFiniteSet(Ports) /\ Cardinality(Items) <= Cardinality(Ports)
    /\ Ports \subseteq Nat /\ PortOf \in [Items -> Ports] /\ "running" \notin Statuses
    /\ {Retries, Interval, MaxEvents} \subseteq Nat

TypeOK ==
    /\ queueRows \in
         [Items -> [status : Statuses \cup {"pending", "starting", "running", "waiting", "success",
                                            "failed"},
                    port : Ports, retries : 0 .. Retries]]
    /\ itemWorker \in
         [Items -> [at : {"idle", "slug", "workspace", "clean", "start", "reserve", "rotate", "store",
                          "doctor", "open", "wait", "sync", "asleep"},
                    used : SUBSET Ports, then : {None, "doctor", "asleep"}]]
    /\ agent \in [Items -> {"none", "live", "working"}]
    /\ told \in [Items -> {None, "native", "remote", "existing", "new"}]
    /\ worktrees \in [Slugs -> SUBSET Repos]
    /\ remote \in [Slugs -> [status : {"absent", "open", "closed:success", "failed-closeout"},
                             repo : Repos \cup {None}]]
    /\ \A s \in Slugs : local[s].status \in {"absent", "open", "closed:success", "failed-closeout"}
    /\ repair \in [Slugs -> [status : {"absent", "open", "closed:success", "failed-closeout"},
                             newer : BOOLEAN]]
    /\ synced \in [Repos -> 0 .. Interval] /\ outran \in BOOLEAN /\ events \in 0 .. MaxEvents

---------------------------------------------------------------------------
(* Records and items.                                                        *)

(* queue_task_record_matches_item                                            *)
Matches(i, r) ==
    \/ i \in r.agent /\ queueRows[i].status = "running"
    \/ /\ r.repo = RepoOf[i]
       /\ \/ Launcher(i) = r.launcher
          \/ ~Launcher(i) /\ r.launcher /\ Terminal(r.status)
          \/ Native(i) /\ ~r.launcher /\ r.agent # {}

(* remote_native_failed_closeout_is_being_retried                            *)
Retried(i, status) == status = "failed-closeout" /\ Native(i) /\ agent[i] # "none"

(* The status of an item's task, of its record or a newer recovery record;   *)
(* "absent" when neither says anything of this item.                         *)
LocalStatus(i, r) ==
    LET s == SlugOf[i]
        recovers == repair[s].status # "absent" /\ (r.status = "absent" \/ repair[s].newer)
        status == IF recovers THEN repair[s].status ELSE r.status
    IN  IF (r.status # "absent" /\ ~Matches(i, r)) \/ Retried(i, status)
        THEN [status |-> "absent", recovery |-> FALSE]
        ELSE [status |-> status, recovery |-> recovers]

---------------------------------------------------------------------------
(* The worker, up to the launch.                                             *)

Goes(i, at) == itemWorker' = [itemWorker EXCEPT ![i] = [Idle EXCEPT !.at = at]]
Row(i, status) == queueRows' = [queueRows EXCEPT ![i].status = status]
GivesUp(i) == Row(i, "failed") /\ Goes(i, "idle")

Happens == events < MaxEvents /\ events' = events + 1

Begins(i) ==
    /\ \/ itemWorker[i].at = "idle" /\ queueRows[i].status = "pending"
       \/ itemWorker[i].at = "asleep"
    /\ Row(i, "starting") /\ Goes(i, "slug")
    /\ UNCHANGED <<agent, told, world, synced, outran, events>>

(* Mutant: only items with an agent count as using the slug.                 *)
SlugTakenByRunning(i) == \E j \in Items \ {i} : SlugOf[j] = SlugOf[i] /\ queueRows[j].status = "running"

SlugTaken(i) == \E j \in Items \ {i} : SlugOf[j] = SlugOf[i] /\ ~RowTerminal(queueRows[j].status)

ChecksSlug(i) ==
    /\ itemWorker[i].at = "slug"
    /\ IF SlugTaken(i) THEN GivesUp(i) ELSE Goes(i, "workspace") /\ UNCHANGED queueRows
    /\ UNCHANGED <<agent, told, world, synced, outran, events>>

(* A record of the same name must be the item's, or be closed.               *)
ScopeTaken(i) == LET r == local[SlugOf[i]]
                 IN  r.status # "absent" /\ ~Matches(i, r) /\ ~Terminal(r.status)

(* What the packet says of the task: opened by the remote-agent contract, at *)
(* the remote worktree of the record, in a worktree of this machine (that of *)
(* the record or one found beside the repository), or not opened yet.        *)
Context(i) ==
    LET r == local[SlugOf[i]]
    IN  IF Native(i) THEN "native"
        ELSE IF Launcher(i) /\ r.status # "absent" /\ Matches(i, r) /\ r.launcher THEN "remote"
        ELSE IF RepoOf[i] \in worktrees[SlugOf[i]] THEN "existing" ELSE "new"

(* What the packet then asks the agent to do with its task.                  *)
RequiredFlow(context) == CASE context = "native" -> "stay in the session"
                           [] context = "new"    -> "open"
                           [] OTHER              -> "continue"

Prepares(i) ==
    /\ itemWorker[i].at = "workspace"
    /\ IF ScopeTaken(i)
       THEN GivesUp(i) /\ UNCHANGED told
       ELSE /\ told' = [told EXCEPT ![i] = Context(i)]
            /\ Goes(i, IF Native(i) THEN "reserve" ELSE "clean") /\ UNCHANGED queueRows
    /\ UNCHANGED <<agent, world, synced, outran, events>>

(* What an agent that has gone has left at its launch is removed. The item   *)
(* fails when that holds changes, or when the packet cannot be written.      *)
CleansUp(i) ==
    /\ itemWorker[i].at = "clean"
    /\ \/ Goes(i, "start") /\ UNCHANGED <<queueRows, events>>
       \/ Happens /\ GivesUp(i)
    /\ UNCHANGED <<agent, told, world, synced, outran>>

PortTaken(i) == \E j \in Items \ {i} :
    Native(j) /\ queueRows[j].port = queueRows[i].port /\ queueRows[j].status # "success"

Reserves(i) ==
    /\ itemWorker[i].at = "reserve"
    /\ itemWorker' = [itemWorker EXCEPT ![i] = IF PortTaken(i)
                                       THEN [at |-> "rotate", used |-> {}, then |-> "doctor"]
                                       ELSE [Idle EXCEPT !.at = "doctor"]]
    /\ UNCHANGED <<queueRows, agent, told, world, synced, outran, events>>

(* rotate_remote_native_proxy reads the rows, and stores its choice later.   *)
Rotates(i) ==
    /\ itemWorker[i].at = "rotate"
    /\ itemWorker' = [itemWorker EXCEPT ![i].at = "store",
                                ![i].used = {queueRows[j].port : j \in {k \in Items \ {i} :
                                                 Native(k) /\ queueRows[k].status # "success"}}]
    /\ UNCHANGED <<queueRows, agent, told, world, synced, outran, events>>

(* The next free port upwards, then from the bottom.                         *)
NextPort(p, used) ==
    LET above == {q \in Ports \ used : q > p}
        below == {q \in Ports \ used : q < p}
    IN  IF above # {} THEN Min(above) ELSE IF below # {} THEN Min(below) ELSE p

Sleeping(row) == [row EXCEPT !.status = "waiting", !.retries = @ + 1]

Stores(i) ==
    /\ itemWorker[i].at = "store"
    /\ LET r == [queueRows[i] EXCEPT !.port = NextPort(@, itemWorker[i].used)]
       IN  queueRows' = [queueRows EXCEPT ![i] = IF itemWorker[i].then = "asleep" THEN Sleeping(r) ELSE r]
    /\ outran' = (outran \/ \E j \in Items \ {i} : itemWorker[j].at = "store")
    /\ Goes(i, itemWorker[i].then)
    /\ UNCHANGED <<agent, told, world, synced, events>>

(* handle_queue_launch_outcome: a retry, at once after an update of the      *)
(* agent, with another port when it was this one that could not be opened.   *)
LaunchFails(i, why) ==
    /\ IF queueRows[i].retries = Retries THEN GivesUp(i) /\ UNCHANGED agent
       ELSE IF why = "port"
       THEN /\ itemWorker' = [itemWorker EXCEPT ![i] = [at |-> "rotate", used |-> {}, then |-> "asleep"]]
            /\ agent' = [agent EXCEPT ![i] = "none"] /\ UNCHANGED queueRows
       ELSE /\ queueRows' = [queueRows EXCEPT ![i] = Sleeping(@)] /\ Goes(i, "asleep")
            /\ agent' = IF why = "terminal" THEN [agent EXCEPT ![i] = "none"] ELSE agent
    /\ UNCHANGED <<told, world, synced, outran>>

Doctor(i) ==
    /\ itemWorker[i].at = "doctor"
    /\ \/ Goes(i, "open") /\ UNCHANGED <<queueRows, agent, told, world, synced, outran, events>>
       \/ Happens /\ LaunchFails(i, "prerequisites")

(* A session that is already there is taken over.                            *)
Launched(i) ==
    /\ agent' = [agent EXCEPT ![i] = IF @ = "none" THEN "live" ELSE @]
    /\ Row(i, "running") /\ Goes(i, "wait")

Opens(i) ==
    /\ itemWorker[i].at = "open"
    /\ \/ Launched(i) /\ UNCHANGED <<told, world, synced, outran, events>>
       \/ Happens /\ \E why \in {"port", "update"} : LaunchFails(i, why)

(* The terminal's agent is remembered in the task's record.                  *)
Starts(i) ==
    /\ itemWorker[i].at = "start"
    /\ \/ /\ Launched(i)
          /\ local' = [local EXCEPT ![SlugOf[i]] =
                          IF @.status # "absent" /\ Matches(i, @) THEN [@ EXCEPT !.agent = {i}] ELSE @]
          /\ UNCHANGED <<told, worktrees, remote, repair, synced, outran, events>>
       \/ Happens /\ LaunchFails(i, "terminal")

---------------------------------------------------------------------------
(* The worker, while its agent works.                                        *)

(* Mutant: the time of a sync is kept when it is skipped, too.               *)
SyncBegunAnyway(i) == [synced EXCEPT ![RepoOf[i]] = 0]

(* remote_queue_sync_due remembers the time before the sync has run.         *)
SyncDue(i) == synced[RepoOf[i]] = Interval
SyncBegun(i) == IF SyncDue(i) THEN [synced EXCEPT ![RepoOf[i]] = 0] ELSE synced

(* What a status leads to. An agent that has gone without closing its task   *)
(* is launched again.                                                        *)
Decides(i, status) ==
    IF Terminal(status)
    THEN /\ Row(i, IF status = "closed:success" THEN "success" ELSE "failed")
         /\ agent' = [agent EXCEPT ![i] = "none"] /\ Goes(i, "idle")
    ELSE IF agent[i] = "none" THEN Row(i, "pending") /\ Goes(i, "idle") /\ UNCHANGED agent
    ELSE Goes(i, "wait") /\ UNCHANGED <<queueRows, agent>>

(* queue_task_status up to the sync: for a local agent with a launcher, a    *)
(* recovery record that is open or succeeded makes the sync unnecessary.     *)
Polls(i) ==
    /\ itemWorker[i].at = "wait"
    /\ LET found == LocalStatus(i, local[SlugOf[i]])
           known == \/ ~Launcher(i) \/ found.status = "closed:success"
                    \/ ~Native(i) /\ found.recovery /\ found.status # "failed-closeout"
       IN  /\ IF known \/ ~SyncDue(i) THEN Decides(i, found.status)
              ELSE Goes(i, "sync") /\ UNCHANGED <<queueRows, agent>>
           /\ synced' = IF known THEN synced ELSE SyncBegun(i)
    /\ UNCHANGED <<told, world, outran, events>>

(* The record comes back, with this launcher on it; what the agent is, is    *)
(* known here only.                                                          *)
Synced(i) ==
    [s \in Slugs |-> IF remote[s].status # "absent" /\ remote[s].repo = RepoOf[i]
                     THEN [status |-> remote[s].status, repo |-> remote[s].repo, launcher |-> TRUE,
                           agent |-> local[s].agent]
                     ELSE local[s]]

(* After a failed sync the record of a native item speaks while it is open,  *)
(* or else nothing is known; for any other item the sync was not needed.     *)
Syncs(i) ==
    /\ itemWorker[i].at = "sync"
    /\ \/ /\ local' = Synced(i)
          /\ Decides(i, LocalStatus(i, Synced(i)[SlugOf[i]]).status)
          /\ UNCHANGED events
       \/ /\ Happens
          /\ LET r == local[SlugOf[i]]
             IN  IF Native(i) /\ ~(r.status = "open" /\ Matches(i, r))
                 THEN Goes(i, "wait") /\ UNCHANGED <<queueRows, agent>>
                 ELSE Decides(i, IF Native(i) THEN r.status ELSE LocalStatus(i, r).status)
          /\ UNCHANGED local
    /\ UNCHANGED <<told, worktrees, remote, repair, synced, outran>>

---------------------------------------------------------------------------
(* Agents, operators and time.                                               *)

Here(i, status) ==
    /\ local' = [local EXCEPT ![SlugOf[i]] = [status |-> status, repo |-> RepoOf[i],
                                              launcher |-> FALSE, agent |-> {i}]]
    /\ UNCHANGED remote
There(i, status) ==
    /\ remote' = [remote EXCEPT ![SlugOf[i]] = [status |-> status, repo |-> RepoOf[i]]]
    /\ UNCHANGED local
Older(s) == [repair EXCEPT ![s].newer = FALSE]

(* An agent takes its task up: where it is, or where it chooses to open it.  *)
AgentOpens(i) ==
    LET s == SlugOf[i]
        flow == RequiredFlow(told[i])
    IN  /\ agent[i] = "live"
        /\ agent' = [agent EXCEPT ![i] = "working"]
        /\ \/ /\ flow = "stay in the session" \/ (flow = "open" /\ Launcher(i))
              /\ There(i, "open") /\ repair' = Older(s) /\ UNCHANGED worktrees
           \/ /\ flow = "open"
              /\ worktrees' = [worktrees EXCEPT ![s] = @ \cup {RepoOf[i]}]
              /\ Here(i, "open") /\ repair' = Older(s)
           \/ flow = "continue" /\ UNCHANGED world
        /\ UNCHANGED <<queueRows, itemWorker, told, synced, outran, events>>

(* Success takes the worktree away; a closeout that fails leaves it.         *)
AgentCloses(i, status) ==
    LET s == SlugOf[i]
    IN  /\ agent[i] = "working"
        /\ IF RepoOf[i] \in worktrees[s]
           THEN /\ Here(i, status)
                /\ worktrees' = IF status = "closed:success"
                                THEN [worktrees EXCEPT ![s] = @ \ {RepoOf[i]}] ELSE worktrees
           ELSE /\ remote[s].status \in {"open", "failed-closeout"} /\ remote[s].repo = RepoOf[i]
                /\ There(i, status) /\ UNCHANGED worktrees
        /\ repair' = Older(s)
        /\ UNCHANGED <<queueRows, itemWorker, agent, told, synced, outran, events>>

AgentDies(i) ==
    /\ Happens /\ agent[i] # "none"
    /\ agent' = [agent EXCEPT ![i] = "none"]
    /\ UNCHANGED <<queueRows, itemWorker, told, world, synced, outran>>

(* Somebody repairs a task under another name, in the same repository.       *)
Repairs(s) ==
    /\ Happens
    /\ repair[s].status \in {"absent", "open"}
    /\ \E status \in {"open", "closed:success", "failed-closeout"} \ {repair[s].status} :
           repair' = [repair EXCEPT ![s] = [status |-> status, newer |-> TRUE]]
    /\ UNCHANGED <<queueRows, itemWorker, agent, told, worktrees, remote, local, synced, outran>>

(* A failed item is continued.                                               *)
Continues(i) ==
    /\ Happens
    /\ itemWorker[i].at = "idle" /\ queueRows[i].status = "failed"
    /\ queueRows' = [queueRows EXCEPT ![i].status = "pending", ![i].retries = 0]
    /\ UNCHANGED <<itemWorker, agent, told, world, synced, outran>>

Tick ==
    /\ \E r \in Repos : synced[r] < Interval
    /\ synced' = [r \in Repos |-> IF synced[r] < Interval THEN synced[r] + 1 ELSE Interval]
    /\ UNCHANGED <<queueRows, itemWorker, agent, told, world, outran, events>>

Init ==
    /\ \E st \in [Items -> Statuses] :
         queueRows = [i \in Items |-> [status |-> st[i], port |-> PortOf[i], retries |-> 0]]
    /\ itemWorker = [i \in Items |-> Idle] /\ agent = [i \in Items |-> "none"]
    /\ told = [i \in Items |-> None]
    /\ worktrees = [s \in Slugs |-> {}]
    /\ remote = [s \in Slugs |-> [status |-> "absent", repo |-> None]]
    /\ local = [s \in Slugs |-> NoTask]
    /\ repair = [s \in Slugs |-> [status |-> "absent", newer |-> FALSE]]
    /\ synced = [r \in Repos |-> Interval] /\ outran = FALSE /\ events = 0

Launches(i) == Begins(i) \/ ChecksSlug(i) \/ Prepares(i) \/ CleansUp(i) \/ Reserves(i) \/ Rotates(i)
                 \/ Stores(i) \/ Doctor(i) \/ Opens(i) \/ Starts(i)
Follows(i) == Polls(i) \/ Syncs(i)
Works(i) == AgentOpens(i) \/ (\E st \in {"closed:success", "failed-closeout"} : AgentCloses(i, st))

Next ==
    \/ \E i \in Items : Launches(i) \/ Follows(i) \/ Works(i) \/ AgentDies(i) \/ Continues(i)
    \/ \E s \in Slugs : Repairs(s)
    \/ Tick

Spec == Init /\ [][Next]_vars /\ WF_vars(Tick) /\ \A i \in Items : WF_vars(Launches(i) \/ Follows(i))

---------------------------------------------------------------------------
(* Agents keep apart, though every worker checks first and launches later:   *)
(* two of them never share a proxy port, unless two workers chose ports at   *)
(* once; and one that is told to open its task finds no worktree of another  *)
(* one for it (ensure_queue_item_slug_available, queue_launch_workspace,     *)
(* reserve_remote_native_proxy).                                             *)
AgentsKeepApart ==
    /\ outran \/ \A i, j \in {i \in Items : Native(i) /\ queueRows[i].status = "running"} :
                    i # j => queueRows[i].port # queueRows[j].port
    /\ \A i \in Items : agent[i] = "live" /\ told[i] = "new" /\ queueRows[i].status = "running"
                            => RepoOf[i] \notin worktrees[SlugOf[i]]

(* A remote agent's success is seen: however the syncs of several items are  *)
(* throttled, and though some fail, an item whose remote task has closed     *)
(* successfully and is not being repaired does not run for ever              *)
(* (remote_queue_sync_due).                                                  *)
Unseen(i) ==
    queueRows[i].status = "running" /\ Native(i) /\ remote[SlugOf[i]].status = "closed:success"
UnderRepair(i) == repair[SlugOf[i]].status # "absent"
RemoteSuccessIsSeen == \A i \in Items : Unseen(i) ~> ~Unseen(i) \/ UnderRepair(i)
=============================================================================
