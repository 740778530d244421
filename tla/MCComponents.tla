---------------------------- MODULE MCComponents ----------------------------
(***************************************************************************)
(* The components that are specified apart from the queue's execution and  *)
(* from the task flow, one or more small instances of each for TLC.        *)
(* Nothing composes them: a behaviour is one of an instance of one of      *)
(* them, its scope, and the variables of the others stay as they are.      *)
(* Every property says something of the scopes it names only; the temporal *)
(* ones are those of their modules, with the scope in every state          *)
(* predicate, which TLC evaluates in the states of the other scopes too.   *)
(***************************************************************************)
EXTENDS Naturals, Sequences

\* The rows an older version left: a task of the task flow without a number, an ad-hoc
\* record with one, and a task that is not known here yet.
LegacyRows(ids) == [i \in ids |->
    [source |-> CASE i = "t1" -> "task-flow" [] i = "t2" -> "agent" [] OTHER -> "none",
     seq |-> IF i = "t2" THEN 2 ELSE 0,
     status |-> IF i = "t3" THEN "absent" ELSE "open",
     repo |-> IF i = "t3" THEN "none" ELSE "A", created |-> 0, updated |-> 0]]

\* What a sample of a host may find: an idle one, or an unreachable one under load.
Samples == {[up |-> TRUE, load |-> 0, available |-> 40], [up |-> FALSE, load |-> 1900, available |-> 16]}

\* What a tab may hold.
NoQueue == [run |-> 0, status |-> "none", items |-> << >>]
OneRow(st) == [run |-> 1, status |-> st, items |-> [a |-> "pending"]]

\* What a status command may report of an account.
Reading(what) == [reported |-> what, capacity |-> 1, reset |-> 0]
Free == Reading("ok")
Limited == [reported |-> "limited", capacity |-> 0, reset |-> 4]

\* Packages of prompts: files by their directory, and a manifest with two layers of one
\* name, an item that selects a layer twice and one that does not exist, and one that
\* selects nothing.
File(role, stem, text) == [role |-> role, stem |-> stem, text |-> text]
Named(run, files) == [kind |-> "files", run |-> run, layers |-> <<>>, chosen |-> FALSE,
                      defaults |-> <<>>, items |-> <<>>, files |-> files]
Item(own, layers) == [slug |-> "s", text |-> "p", own |-> own, layers |-> layers]
Layer(name, text) == [name |-> name, text |-> text]
Manifest == [kind |-> "manifest", run |-> "none",
             layers |-> <<Layer("a", "A"), Layer("b", "B"), Layer("a", "C")>>,
             chosen |-> FALSE, defaults |-> <<>>,
             items |-> <<Item(FALSE, <<>>), Item(TRUE, <<"b", "x", "b">>)>>, files |-> <<>>]

Files == Named("r", <<File("layer", "a", "A"), File("prompt", "a", ""), File("fallback", "b", "p")>>)

\* Where a chat begins: a task of a waiting item, one whose work agent has exited without
\* being pruned, and two paused tasks that no agent has taken up.
Waiting == [item |-> [a |-> [status |-> "waiting", agent |-> "none"]],
            record |-> [a |-> [status |-> "none", agent |-> "none"]], listed |-> {}, living |-> {}]
Blocked == [item |-> [a |-> [status |-> "failed", agent |-> "work"]],
            record |-> [a |-> [status |-> "closed:blocked", agent |-> "none"]],
            listed |-> {<<"a", "work">>}, living |-> {}]
Paused == [t \in {"a", "b"} |-> [status |-> "paused", agent |-> "none"]]
BothPaused == [item |-> [t \in {"a", "b"} |-> [status |-> "none", agent |-> "none"]],
            record |-> Paused, listed |-> {}, living |-> {}]

Summary(suite, place, result, active) ==
    [suite |-> suite, place |-> place, result |-> result, active |-> active]

VARIABLES
  scope,  \* the instance that runs
  rows, counter, repairs, remoteTasks, pc, seeds, todo, draft, taken, export, clock, ops,
  faults,
  status, active, alive, due, host, pressed, seen, plan, grown, raced, crashes,
  step, name, tree, living, clients, reused, registry, recent, adhoc, files, pass, loaded,
  known, claims, doomed, crossed, late, accidents,
  mode, graph, finished, handling, overlapped, edits,
  queue, gathering, cache, page, drafts, hidden, request, made, runs, clicks, losses,
  real, limits, probe, worker, changes,
  queueRows, itemWorker, agent, told, worktrees, remote, local, repair, synced, outran,
  events,
  command, pidfile, daemons, current, received, doubled, mishaps,
  item, record, listed, terminals, input, context, reading, timer, call, meant, heard,
  reported, strayed, misled, dropped, acts,
  base, fork, index, torn, head, logs, stage, envStatus, bundles, checked, moved, order,
  proofs, twinned, turns,
  now, worktree, started, ended, rollout, session, taskRecord, archive, opened, settled,
  thinned

\* TaskRecords.
Numbers == INSTANCE TaskRecords WITH
    Ids <- {"t1", "t2", "t3"}, Adhoc <- {"t2"}, RemoteIds <- {}, Repos <- {"A", "B"},
    Local <- "A", Procs <- {1, 2}, Legacy <- LegacyRows({"t1", "t2", "t3"}), MaxOps <- 2,
    MaxFaults <- 0, MaxTime <- 1
Sync == INSTANCE TaskRecords WITH
    Ids <- {"t3"}, Adhoc <- {}, RemoteIds <- {"t3"}, Repos <- {"A"}, Local <- "A",
    Procs <- {1, 2}, Legacy <- LegacyRows({"t3"}), MaxOps <- 2, MaxFaults <- 0, MaxTime <- 2
Outage == INSTANCE TaskRecords WITH
    Ids <- {"t3"}, Adhoc <- {}, RemoteIds <- {"t3"}, Repos <- {"A"}, Local <- "A",
    Procs <- {1}, Legacy <- LegacyRows({"t3"}), MaxOps <- 3, MaxFaults <- 1, MaxTime <- 2
records == <<rows, counter, repairs, remoteTasks, pc, seeds, todo, draft, taken, export,
             clock, ops, faults>>

\* QueueAdmission.
Host == INSTANCE QueueAdmission WITH
    Order <- <<"h", "m", "c">>, RunOf <- [h |-> "1", m |-> "1", c |-> "2"],
    ClassOf <- [h |-> "heavy", m |-> "mid", c |-> "cheap"],
    ScopeOf <- [h |-> "local", m |-> "local", c |-> "local"], Sequential <- {},
    Cpus <- [local |-> 2], Total <- [local |-> 40], HostStates <- Samples, SoftLimit <- 1,
    HardLimit <- 2, HeavyLimit <- 1, MaxCrashes <- 1
Launcher == INSTANCE QueueAdmission WITH
    Order <- <<"h", "m">>, RunOf <- [h |-> "1", m |-> "1"],
    ClassOf <- [h |-> "heavy", m |-> "mid"], ScopeOf <- [h |-> "L", m |-> "local"],
    Sequential <- {}, Cpus <- [L |-> 2, local |-> 2], Total <- [L |-> 40, local |-> 40],
    HostStates <- Samples, SoftLimit <- 1, HardLimit <- 2, HeavyLimit <- 1, MaxCrashes <- 1
admission == <<status, active, alive, due, host, pressed, seen, plan, grown, raced, crashes>>

\* AgentSessions.
Launches3 == INSTANCE AgentSessions WITH
    Launches <- 1 .. 3, Ids <- {"a", "b", "c"}, Names <- {<<"a", "b", "c">>},
    Resumes <- {3}, Files <- {}, Workers <- {}, MaxCrashes <- 0
Prunes == INSTANCE AgentSessions WITH
    Launches <- {1, 2}, Ids <- {"a", "b"}, Names <- {<<"a", "a">>, <<"a", "b">>},
    Resumes <- {}, Files <- {"f"}, Workers <- {1}, MaxCrashes <- 0
Passes == INSTANCE AgentSessions WITH
    Launches <- {1}, Ids <- {"a"}, Names <- {<<"a">>}, Resumes <- {}, Files <- {"f"},
    Workers <- {1, 2}, MaxCrashes <- 1
sessions == <<step, name, tree, living, clients, reused, registry, recent, adhoc, files,
              pass, loaded, known, claims, doomed, crossed, late, accidents>>

\* QueueGraph.
Graph == INSTANCE QueueGraph WITH
    Keys <- {"a", "b", "c"}, Slugs <- [a |-> "b", b |-> "s", c |-> "c"], Strays <- {"?"},
    Modes <- {"graph"}, Serving <- {1}, MaxEdits <- 2
Edits == INSTANCE QueueGraph WITH
    Keys <- {"a", "b"}, Slugs <- [a |-> "b", b |-> "s"], Strays <- {"?"},
    Modes <- {"graph", "sequence"}, Serving <- {1, 2}, MaxEdits <- 3
planning == <<mode, graph, finished, handling, overlapped, edits>>

\* Dashboard.
Page1 == INSTANCE Dashboard WITH
    Tasks <- {"a"}, Opened <- {NoQueue, OneRow("running"), OneRow("stopped")}, MaxRuns <- 2,
    MaxClicks <- 2, MaxLosses <- 1
Page2 == INSTANCE Dashboard WITH
    Tasks <- {"a", "b"}, Opened <- {OneRow("stopped")}, MaxRuns <- 1, MaxClicks <- 1,
    MaxLosses <- 1
dashboard == <<queue, gathering, cache, page, drafts, hidden, request, made, runs, clicks,
               losses>>

\* AgentSelection.
TwoAccounts == INSTANCE AgentSelection WITH
    Items <- {1}, Commands <- {1, 2}, Account <- <<"x", "y">>, Readings <- {Free, Limited},
    Ttl <- 3, Pending <- 1, Attempts <- 2, ProbeTime <- 1, MaxChanges <- 1
OneAccount == INSTANCE AgentSelection WITH
    Items <- {1}, Commands <- {1, 2}, Account <- <<"x", "x">>,
    Readings <- {Free, Limited, Reading("silent"), Reading("failing")}, Ttl <- 3,
    Pending <- 1, Attempts <- 2, ProbeTime <- 1, MaxChanges <- 2
selection == <<real, limits, probe, worker, changes>>

\* QueueLaunch.
Proxies == INSTANCE QueueLaunch WITH
    Items <- {1, 2}, SlugOf <- <<"s", "t">>, RepoOf <- <<"A", "A">>,
    KindOf <- <<"native", "native">>, PortOf <- <<1, 1>>, Ports <- 0 .. 2,
    Statuses <- {"pending"}, Retries <- 1, Interval <- 2, MaxEvents <- 0
Native1 == INSTANCE QueueLaunch WITH
    Items <- {1}, SlugOf <- <<"s">>, RepoOf <- <<"A">>, KindOf <- <<"native">>,
    PortOf <- <<1>>, Ports <- 0 .. 2, Statuses <- {"pending"}, Retries <- 1, Interval <- 2,
    MaxEvents <- 2
Pair == INSTANCE QueueLaunch WITH
    Items <- {1, 2}, SlugOf <- <<"s", "t">>, RepoOf <- <<"A", "A">>,
    KindOf <- <<"native", "native">>, PortOf <- <<1, 2>>, Ports <- 0 .. 2,
    Statuses <- {"pending"}, Retries <- 0, Interval <- 1, MaxEvents <- 1
OneSlug == INSTANCE QueueLaunch WITH
    Items <- {1, 2}, SlugOf <- <<"s", "s">>, RepoOf <- <<"A", "A">>,
    KindOf <- <<"local", "assisted">>, PortOf <- <<1, 1>>, Ports <- 0 .. 2,
    Statuses <- {"pending", "failed"}, Retries <- 1, Interval <- 2, MaxEvents <- 2
launching == <<queueRows, itemWorker, agent, told, worktrees, remote, local, repair,
               synced, outran, events>>

\* QueueClient.
Daemons == INSTANCE QueueClient WITH
    Commands <- {1, 2}, Packages <- {Named("q", <<File("fallback", "b", "p")>>)},
    Runs <- {"q"}, MaxDaemons <- 2, MaxFaults <- 1
Packed == INSTANCE QueueClient WITH
    Commands <- {1}, Packages <- {Manifest, Files}, Runs <- {"q", "r"}, MaxDaemons <- 1,
    MaxFaults <- 0
client == <<command, pidfile, daemons, current, received, doubled, mishaps>>

\* TaskChat.
Work == INSTANCE TaskChat WITH
    Tasks <- {"a", "b"}, Remote <- {}, Windows <- {1}, Messages <- {1, 2},
    Openings <- {BothPaused}, MaxEvents <- 2
TwoWindows == INSTANCE TaskChat WITH
    Tasks <- {"a"}, Remote <- {"a"}, Windows <- {1, 2}, Messages <- {1},
    Openings <- {Waiting, Blocked}, MaxEvents <- 5
chat == <<item, record, listed, terminals, input, context, reading, timer, call, meant,
          heard, reported, strayed, misled, dropped, acts>>

\* TaskEvidence.
Evidence == INSTANCE TaskEvidence WITH
    Tasks <- {1, 2},
    Summaries <- {Summary("s", 1, "pass", TRUE), Summary("s", 1, "none", FALSE)},
    Broken <- {{2}}, Limit <- 1, MaxEvents <- 3
evidence == <<base, fork, index, torn, head, logs, stage, envStatus, bundles, checked,
              moved, order, proofs, twinned, turns>>

\* TaskTelemetry.
TwoSessions == INSTANCE TaskTelemetry WITH
    Tasks <- {1}, Queued <- {}, Sessions <- {"s", "r"}, Early <- 1, Late <- 0,
    Retention <- 0, ScanLimit <- 1, MaxTime <- 1, MaxOpens <- 1
TwoTasks == INSTANCE TaskTelemetry WITH
    Tasks <- {1, 2}, Queued <- {2}, Sessions <- {"s"}, Early <- 1, Late <- 0,
    Retention <- 0, ScanLimit <- 1, MaxTime <- 1, MaxOpens <- 1
Reopened == INSTANCE TaskTelemetry WITH
    Tasks <- {1}, Queued <- {}, Sessions <- {"s"}, Early <- 1, Late <- 1, Retention <- 1,
    ScanLimit <- 1, MaxTime <- 3, MaxOpens <- 2
telemetry == <<now, worktree, started, ended, rollout, session, taskRecord, archive,
               opened, settled, thinned>>

-----------------------------------------------------------------------------
Init ==
  /\ scope \in {"numbers", "sync", "outage", "host", "launcher", "launches", "prunes",
              "passes", "graph", "edits", "page", "rows", "accounts", "shared", "ports",
              "native", "pair", "slugs", "daemons", "packages", "work", "windows",
              "evidence", "usage", "queued", "reopened"}
  /\ CASE scope = "numbers" -> Numbers!Init
       [] scope = "sync" -> Sync!Init
       [] scope = "outage" -> Outage!Init
       [] OTHER -> /\ rows = 0 /\ counter = 0 /\ repairs = 0 /\ remoteTasks = 0
                   /\ pc = 0 /\ seeds = 0 /\ todo = 0 /\ draft = 0 /\ taken = 0
                   /\ export = 0 /\ clock = 0 /\ ops = 0 /\ faults = 0
  /\ CASE scope = "host" -> Host!Init
       [] scope = "launcher" -> Launcher!Init
       [] OTHER -> /\ status = 0 /\ active = 0 /\ alive = 0 /\ due = 0 /\ host = 0
                   /\ pressed = 0 /\ seen = 0 /\ plan = 0 /\ grown = 0 /\ raced = 0
                   /\ crashes = 0
  /\ CASE scope = "launches" -> Launches3!Init
       [] scope = "prunes" -> Prunes!Init
       [] scope = "passes" -> Passes!Init
       [] OTHER -> /\ step = 0 /\ name = 0 /\ tree = 0 /\ living = 0 /\ clients = 0
                   /\ reused = 0 /\ registry = 0 /\ recent = 0 /\ adhoc = 0 /\ files = 0
                   /\ pass = 0 /\ loaded = 0 /\ known = 0 /\ claims = 0 /\ doomed = 0
                   /\ crossed = 0 /\ late = 0 /\ accidents = 0
  /\ CASE scope = "graph" -> Graph!Init
       [] scope = "edits" -> Edits!Init
       [] OTHER -> /\ mode = 0 /\ graph = 0 /\ finished = 0 /\ handling = 0
                   /\ overlapped = 0 /\ edits = 0
  /\ CASE scope = "page" -> Page1!Init
       [] scope = "rows" -> Page2!Init
       [] OTHER -> /\ queue = 0 /\ gathering = 0 /\ cache = 0 /\ page = 0 /\ drafts = 0
                   /\ hidden = 0 /\ request = 0 /\ made = 0 /\ runs = 0 /\ clicks = 0
                   /\ losses = 0
  /\ CASE scope = "accounts" -> TwoAccounts!Init
       [] scope = "shared" -> OneAccount!Init
       [] OTHER -> /\ real = 0 /\ limits = 0 /\ probe = 0 /\ worker = 0 /\ changes = 0
  /\ CASE scope = "ports" -> Proxies!Init
       [] scope = "native" -> Native1!Init
       [] scope = "pair" -> Pair!Init
       [] scope = "slugs" -> OneSlug!Init
       [] OTHER -> /\ queueRows = 0 /\ itemWorker = 0 /\ agent = 0 /\ told = 0
                   /\ worktrees = 0 /\ remote = 0 /\ local = 0 /\ repair = 0 /\ synced = 0
                   /\ outran = 0 /\ events = 0
  /\ CASE scope = "daemons" -> Daemons!Init
       [] scope = "packages" -> Packed!Init
       [] OTHER -> /\ command = 0 /\ pidfile = 0 /\ daemons = 0 /\ current = 0
                   /\ received = 0 /\ doubled = 0 /\ mishaps = 0
  /\ CASE scope = "work" -> Work!Init
       [] scope = "windows" -> TwoWindows!Init
       [] OTHER -> /\ item = 0 /\ record = 0 /\ listed = 0 /\ terminals = 0
                   /\ input = 0 /\ context = 0 /\ reading = 0 /\ timer = 0 /\ call = 0
                   /\ meant = 0 /\ heard = 0 /\ reported = 0 /\ strayed = 0 /\ misled = 0
                   /\ dropped = 0 /\ acts = 0
  /\ CASE scope = "evidence" -> Evidence!Init
       [] OTHER -> /\ base = 0 /\ fork = 0 /\ index = 0 /\ torn = 0 /\ head = 0
                   /\ logs = 0 /\ stage = 0 /\ envStatus = 0 /\ bundles = 0 /\ checked = 0
                   /\ moved = 0 /\ order = 0 /\ proofs = 0 /\ twinned = 0 /\ turns = 0
  /\ CASE scope = "usage" -> TwoSessions!Init
       [] scope = "queued" -> TwoTasks!Init
       [] scope = "reopened" -> Reopened!Init
       [] OTHER -> /\ now = 0 /\ worktree = 0 /\ started = 0 /\ ended = 0
                   /\ rollout = 0 /\ session = 0 /\ taskRecord = 0 /\ archive = 0
                   /\ opened = 0 /\ settled = 0 /\ thinned = 0

TaskRecordsSteps ==
  /\ \/ scope = "numbers" /\ Numbers!Next
     \/ scope = "sync" /\ Sync!Next
     \/ scope = "outage" /\ Outage!Next
  /\ UNCHANGED <<scope, admission, sessions, planning, dashboard, selection, launching,
                  client, chat, evidence, telemetry>>

QueueAdmissionSteps ==
  /\ \/ scope = "host" /\ Host!Next
     \/ scope = "launcher" /\ Launcher!Next
  /\ UNCHANGED <<scope, records, sessions, planning, dashboard, selection, launching,
                  client, chat, evidence, telemetry>>

AgentSessionsSteps ==
  /\ \/ scope = "launches" /\ Launches3!Next
     \/ scope = "prunes" /\ Prunes!Next
     \/ scope = "passes" /\ Passes!Next
  /\ UNCHANGED <<scope, records, admission, planning, dashboard, selection, launching,
                  client, chat, evidence, telemetry>>

QueueGraphSteps ==
  /\ \/ scope = "graph" /\ Graph!Next
     \/ scope = "edits" /\ Edits!Next
  /\ UNCHANGED <<scope, records, admission, sessions, dashboard, selection, launching,
                  client, chat, evidence, telemetry>>

DashboardSteps ==
  /\ \/ scope = "page" /\ Page1!Next
     \/ scope = "rows" /\ Page2!Next
  /\ UNCHANGED <<scope, records, admission, sessions, planning, selection, launching,
                  client, chat, evidence, telemetry>>

AgentSelectionSteps ==
  /\ \/ scope = "accounts" /\ TwoAccounts!Next
     \/ scope = "shared" /\ OneAccount!Next
  /\ UNCHANGED <<scope, records, admission, sessions, planning, dashboard, launching,
                  client, chat, evidence, telemetry>>

QueueLaunchSteps ==
  /\ \/ scope = "ports" /\ Proxies!Next
     \/ scope = "native" /\ Native1!Next
     \/ scope = "pair" /\ Pair!Next
     \/ scope = "slugs" /\ OneSlug!Next
  /\ UNCHANGED <<scope, records, admission, sessions, planning, dashboard, selection,
                  client, chat, evidence, telemetry>>

QueueClientSteps ==
  /\ \/ scope = "daemons" /\ Daemons!Next
     \/ scope = "packages" /\ Packed!Next
  /\ UNCHANGED <<scope, records, admission, sessions, planning, dashboard, selection,
                  launching, chat, evidence, telemetry>>

TaskChatSteps ==
  /\ \/ scope = "work" /\ Work!Next
     \/ scope = "windows" /\ TwoWindows!Next
  /\ UNCHANGED <<scope, records, admission, sessions, planning, dashboard, selection,
                  launching, client, evidence, telemetry>>

TaskEvidenceSteps ==
  /\ scope = "evidence" /\ Evidence!Next
  /\ UNCHANGED <<scope, records, admission, sessions, planning, dashboard, selection,
                  launching, client, chat, telemetry>>

TaskTelemetrySteps ==
  /\ \/ scope = "usage" /\ TwoSessions!Next
     \/ scope = "queued" /\ TwoTasks!Next
     \/ scope = "reopened" /\ Reopened!Next
  /\ UNCHANGED <<scope, records, admission, sessions, planning, dashboard, selection,
                  launching, client, chat, evidence>>

Next == TaskRecordsSteps \/ QueueAdmissionSteps \/ AgentSessionsSteps
        \/ QueueGraphSteps \/ DashboardSteps \/ AgentSelectionSteps \/ QueueLaunchSteps
        \/ QueueClientSteps \/ TaskChatSteps \/ TaskEvidenceSteps \/ TaskTelemetrySteps

\* What the properties below assume of time and of the processes, as their modules do.
Fairness ==
  /\ \A p \in {1, 2} :
       /\ WF_records(\/ scope = "sync" /\ Sync!Opening(p)
                     \/ scope = "outage" /\ p = 1 /\ Outage!Opening(p))
       /\ WF_records(\/ scope = "sync" /\ Sync!Sync(p)
                     \/ scope = "outage" /\ p = 1 /\ Outage!Sync(p))
       /\ WF_records(\/ scope = "sync" /\ (Sync!UpdateStores(p) \/ Sync!MarksRemote(p))
                     \/ scope = "outage" /\ p = 1 /\ (Outage!UpdateStores(p) \/ Outage!MarksRemote(p)))
  /\ WF_admission(\/ scope = "host" /\ Host!Pass("1")
                  \/ scope = "launcher" /\ Launcher!Pass("1"))
  /\ WF_admission(scope = "host" /\ Host!Pass("2"))
  /\ WF_admission(scope = "host" /\ Host!Item("c"))
  /\ \A i \in {"h", "m"} :
       /\ WF_admission(\/ scope = "host" /\ Host!Item(i)
                       \/ scope = "launcher" /\ Launcher!Item(i))
  /\ WF_dashboard(\/ scope = "page" /\ Page1!RefreshReads
                  \/ scope = "rows" /\ Page2!RefreshReads)
  /\ WF_dashboard(\/ scope = "page" /\ Page1!RefreshStores
                  \/ scope = "rows" /\ Page2!RefreshStores)
  /\ WF_dashboard(\/ scope = "page" /\ Page1!Serve
                  \/ scope = "rows" /\ Page2!Serve)
  /\ WF_dashboard(\/ scope = "page" /\ Page1!QueueWorks
                  \/ scope = "rows" /\ Page2!QueueWorks)
  /\ WF_dashboard(\/ scope = "page" /\ Page1!ShowsCache
                  \/ scope = "rows" /\ Page2!ShowsCache)
  /\ WF_dashboard(\/ scope = "page" /\ Page1!ShowsQueue
                  \/ scope = "rows" /\ Page2!ShowsQueue)
  /\ WF_dashboard(\/ scope = "page" /\ Page1!Receives
                  \/ scope = "rows" /\ Page2!Receives)
  /\ \A k \in (1 .. 2) \X {"a", "b"} :
       /\ WF_dashboard(\/ scope = "page" /\ k \in hidden /\ Page1!TombstoneExpires(k)
                       \/ scope = "rows" /\ k \in hidden /\ Page2!TombstoneExpires(k))
  /\ WF_selection(\/ scope = "accounts" /\ TwoAccounts!Refresh
                  \/ scope = "shared" /\ OneAccount!Refresh)
  /\ WF_selection(\/ scope = "accounts" /\ TwoAccounts!Tick
                  \/ scope = "shared" /\ OneAccount!Tick)
  /\ WF_selection(\/ scope = "accounts" /\ TwoAccounts!Selects(1)
                  \/ scope = "shared" /\ OneAccount!Selects(1))
  /\ WF_launching(\/ scope = "native" /\ Native1!Tick
                  \/ scope = "pair" /\ Pair!Tick)
  /\ WF_launching(\/ scope = "native" /\ (Native1!Launches(1) \/ Native1!Follows(1))
                  \/ scope = "pair" /\ (Pair!Launches(1) \/ Pair!Follows(1)))
  /\ WF_launching(scope = "pair" /\ (Pair!Launches(2) \/ Pair!Follows(2)))

Spec == Init /\ [][Next]_<<scope, records, admission, sessions, planning, dashboard, selection,
                           launching, client, chat, evidence, telemetry>> /\ Fairness
-----------------------------------------------------------------------------
\* The types of the instances' variables, and the parameters the proofs assume.
TypeOK ==
  /\ scope = "numbers" => Numbers!TypeOK /\ Numbers!Parameters
  /\ scope = "sync" => Sync!TypeOK /\ Sync!Parameters
  /\ scope = "outage" => Outage!TypeOK /\ Outage!Parameters
  /\ scope = "host" => Host!TypeOK /\ Host!Parameters
  /\ scope = "launcher" => Launcher!TypeOK /\ Launcher!Parameters
  /\ scope = "launches" => Launches3!TypeOK /\ Launches3!Parameters
  /\ scope = "prunes" => Prunes!TypeOK /\ Prunes!Parameters
  /\ scope = "passes" => Passes!TypeOK /\ Passes!Parameters
  /\ scope = "graph" => Graph!TypeOK /\ Graph!Parameters
  /\ scope = "edits" => Edits!TypeOK /\ Edits!Parameters
  /\ scope = "page" => Page1!TypeOK
  /\ scope = "rows" => Page2!TypeOK
  /\ scope = "accounts" => TwoAccounts!TypeOK
  /\ scope = "shared" => OneAccount!TypeOK
  /\ scope = "ports" => Proxies!TypeOK /\ Proxies!Parameters
  /\ scope = "native" => Native1!TypeOK /\ Native1!Parameters
  /\ scope = "pair" => Pair!TypeOK /\ Pair!Parameters
  /\ scope = "slugs" => OneSlug!TypeOK /\ OneSlug!Parameters
  /\ scope = "daemons" => Daemons!TypeOK /\ Daemons!Parameters
  /\ scope = "packages" => Packed!TypeOK /\ Packed!Parameters
  /\ scope = "work" => Work!TypeOK /\ Work!Parameters
  /\ scope = "windows" => TwoWindows!TypeOK /\ TwoWindows!Parameters
  /\ scope = "evidence" => Evidence!TypeOK
  /\ scope = "usage" => TwoSessions!TypeOK /\ TwoSessions!Parameters
  /\ scope = "queued" => TwoTasks!TypeOK /\ TwoTasks!Parameters
  /\ scope = "reopened" => Reopened!TypeOK /\ Reopened!Parameters

\* The number the counter hands out next is larger than every task's, unless two processes
\* have both run the repair of legacy numbers (allocate_task_sequence, db.rs).
CounterAhead ==
  /\ scope = "numbers" => Numbers!CounterAhead
  /\ scope = "sync" => Sync!CounterAhead
  /\ scope = "outage" => Outage!CounterAhead

\* When a remote task stays closed, its record on this host is in the end closed and stays
\* so, whatever stale status was stored over it (sync of remote records).
ClosedThere == (scope = "sync" /\ Sync!ClosedThere("t3")) \/ (scope = "outage" /\ Outage!ClosedThere("t3"))
ClosedHere == (scope = "sync" /\ Sync!ClosedHere("t3")) \/ (scope = "outage" /\ Outage!ClosedHere("t3"))
ClosedArrives == <>[]ClosedThere => <>[]ClosedHere

\* What the items of a host hold together never exceeds its limits, save by a plan that
\* another run's worker has overtaken (queue_admission.rs).
ReservationsWithinLimits ==
  /\ scope = "host" => Host!ReservationsWithinLimits
  /\ scope = "launcher" => Launcher!ReservationsWithinLimits

\* When the hosts stay calm, every item that fits its host alone is admitted and done in
\* the end, through a restart of the daemon (queue_admission.rs).
AllCalm == (scope = "host" /\ Host!AllCalm) \/ (scope = "launcher" /\ Launcher!AllCalm)
AllDone == \/ scope = "host" /\ \A i \in {"h", "m", "c"} : Host!Done(i)
           \/ scope = "launcher" /\ \A i \in {"h", "m"} : Launcher!Done(i)
EveryItemIsAdmitted == <>[]AllCalm => <>AllDone

\* What each agent holds stays its own, beside launches, pruning passes and imports: its
\* row in the registry, its session, and its worktree, which another one gets only by way
\* of a third agent that has left it (agents.rs, stale_prune.rs, reuse_context.rs).
AgentsKeepTheirPlace ==
  /\ scope = "launches" => Launches3!RunningAgentsStayListed /\ Launches3!SharedTreesWereLeft
  /\ scope = "prunes" => Prunes!RunningAgentsStayListed /\ Prunes!SessionClaimedOnce
  /\ scope = "passes" => Passes!RunningAgentsStayListed /\ Passes!SessionClaimedOnce

\* While items are unfinished one of them is ready, whatever is added, moved, changed and
\* removed, unless requests were checked beside each other (state.rs, queue_api.rs).
\* Where the runs begin, the search for cycles that this rests on is right for all graphs.
SomeItemIsReady ==
  /\ scope = "graph" => Graph!SomeItemIsReady /\ (edits = 0 /\ finished = {} => Graph!SearchFindsCycles)
  /\ scope = "edits" => Edits!SomeItemIsReady /\ (edits = 0 /\ finished = {} => Edits!SearchFindsCycles)

\* The page comes to show what the tab holds, and keeps showing it once nothing changes
\* (refresh_dashboard_state_cache, applySnapshot).
ViewCatchesUp ==
  <>[]((scope = "page" => Page1!Synced) /\ (scope = "rows" => Page2!Synced))

\* Once an account has quota for good, every item gets an agent
\* (queue_worker_agent_selection.rs, agent_limits.rs).
Ready(a) == \/ scope = "accounts" /\ TwoAccounts!Ready(a)
            \/ scope = "shared" /\ OneAccount!Ready("x")
Settled == \/ scope = "accounts" /\ TwoAccounts!Settled(1)
           \/ scope = "shared" /\ OneAccount!Settled(1)
ReadyAgentIsFound == \A a \in {"x", "y"} : <>[]Ready(a) => <>Settled

\* Two remote agents share no proxy port unless two workers chose ports at once, and an
\* agent that is to open its task finds no worktree of another one
\* (queue_worker_cleanup.rs, queue_worker_taskflow.rs).
AgentsKeepApart ==
  /\ scope = "ports" => Proxies!AgentsKeepApart
  /\ scope = "native" => Native1!AgentsKeepApart
  /\ scope = "pair" => Pair!AgentsKeepApart
  /\ scope = "slugs" => OneSlug!AgentsKeepApart

\* A remote agent's success is seen, however syncs are throttled and fail
\* (queue_worker_taskflow.rs).
Unseen == (scope = "native" /\ Native1!Unseen(1)) \/ (scope = "pair" /\ Pair!Unseen(1))
Seen == \/ scope = "native" /\ (~Native1!Unseen(1) \/ Native1!UnderRepair(1))
        \/ scope = "pair" /\ (~Pair!Unseen(1) \/ Pair!UnderRepair(1))
RemoteSuccessIsSeen == Unseen ~> Seen

\* A daemon that has the address is named by the pid file, unless two starts ran at once;
\* and the queue gets the packages as they were written (webapp.rs, queue.rs).
ClientRequestsHold ==
  /\ scope = "daemons" => Daemons!ListeningDaemonIsRecorded
  /\ scope = "packages" => Packed!PackagesArriveWhole

\* A message typed for a task is heard by an agent of that task, and one that was answered
\* as sent was entered, with the exceptions the module names (terminal_chat.rs, queue.js).
MessagesReachTheirTask ==
  /\ scope = "work" => Work!MessagesReachTheirTask
  /\ scope = "windows" => TwoWindows!MessagesReachTheirTask

\* What is kept of a task that is over: the base branch holds a tree that was checked and
\* the rows of its proof, its receipt tells the truth, and the usage in its record is its
\* own and is not taken away again (proof_runs.rs, bundle.rs, task_flow_sync.rs).
ClosedTaskEvidence ==
  /\ scope = "evidence" => Evidence!DeliveredWorkIsProven
  /\ scope = "usage" => TwoSessions!UsageIsTheTasksOwn
  /\ scope = "queued" => TwoTasks!UsageIsTheTasksOwn
  /\ scope = "reopened" => Reopened!UsageIsTheTasksOwn
=============================================================================
