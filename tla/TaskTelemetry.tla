--------------------------- MODULE TaskTelemetry ---------------------------
(* What a task record says about the tokens spent on it (app/task_flow_sync.rs,
   app/codex_sessions.rs, app/codex_metadata.rs, rollout.rs).

   A synchronisation pass derives the usage of every task whose worktree exists from
   the session files: a session counts for a task when it is the rollout its task.env
   names, or when it was written recently enough and mentions the worktree; of its
   entries those count that fall into the task's time.  Sessions go on to other tasks
   and grow old, worktrees go, and a task may be opened again under its id, while the
   bundle of its earlier closeout is still there.  Here the synchronisation of one
   task is one step: TaskFlow and TaskRecords have its reads and writes apart. *)
EXTENDS Naturals, Sequences, FiniteSets, SequencesExt

CONSTANTS Tasks,
          Queued,     \* tasks opened by the web queue
          Sessions,
          Early,      \* how long before a task's start a session may last have been written
          Late,       \* and how long after its end
          Retention,  \* and how long ago at most
          ScanLimit,  \* TERMINAL_BUNDLE_SCAN_LIMIT
          MaxTime, MaxOpens   \* bounds

VARIABLES
  now,
  worktree,     \* each task's worktree: absent, open, closed (finished, not yet removed)
  started, ended,
  rollout,      \* the session its task.env names, or none
  session,      \* of each session: its entries' times, the worktrees in it, its last write
  taskRecord,   \* of each task: status, usage, and the first session of the usage
  archive,      \* the bundles with a receipt, newest first
  opened,       \* how often each task has been opened
  settled,      \* the usage found by the first synchronisation after each task's end
  thinned       \* tasks whose usage was found when not all sessions behind the settled one could
                \* be, or whose first session does not mention the worktree

history == <<settled, thinned>>
vars == <<now, worktree, started, ended, rollout, session, taskRecord, archive, opened, history>>

None == "none"
Later(n, d) == IF n > d THEN n - d ELSE 0
NoRecord == [status |-> None, usage |-> {}, path |-> None]

Init ==
  /\ now = 0
  /\ worktree = [t \in Tasks |-> "absent"]
  /\ started = [t \in Tasks |-> 0] /\ ended = [t \in Tasks |-> 0]
  /\ rollout = [t \in Tasks |-> None]
  /\ session = [s \in Sessions |-> [entries |-> {}, seen |-> {}, touched |-> 0]]
  /\ taskRecord = [t \in Tasks |-> NoRecord]
  /\ archive = <<>>
  /\ opened = [t \in Tasks |-> 0]
  /\ settled = [t \in Tasks |-> {}] /\ thinned = {}

----------------------------------------------------------------------------
(* The usage of a task *)

Live(t) == worktree[t] = "open"

Finish(t) == IF Live(t) THEN now ELSE ended[t]

\* The session is found by the time of its last write and by the worktrees it mentions.
Recent(s, t) ==
  /\ session[s].touched >= Later(now, Retention)
  /\ session[s].touched >= Later(started[t], Early)
  /\ session[s].touched <= Finish(t) + Late

MatchesWorktree(s, t) == t \in session[s].seen

Matching(t) ==
  {s \in Sessions : session[s].entries # {} /\ (s = rollout[t] \/ (Recent(s, t) /\ MatchesWorktree(s, t)))}

Usage(t) ==
  UNION {{s} \X {at \in session[s].entries : at \in started[t]..Finish(t)} : s \in Matching(t)}

\* The named rollout comes first, the others as the directories list them.
FirstPaths(t) == IF rollout[t] \in Matching(t) THEN {rollout[t]} ELSE Matching(t)

\* A task of the web queue is not looked at while it is live.  Without any usage the
\* record keeps what it has if its session mentions the worktree.
Telemetry(t) ==
  LET r == taskRecord[t]
  IN  IF Live(t) /\ t \in Queued THEN {NoRecord}
      ELSE IF Usage(t) # {} THEN {[NoRecord EXCEPT !.usage = Usage(t), !.path = p] : p \in FirstPaths(t)}
      ELSE IF r.path # None /\ MatchesWorktree(r.path, t) THEN {r} ELSE {NoRecord}

Status(t) ==
  IF taskRecord[t].status = "closed" THEN "closed" ELSE worktree[t]

----------------------------------------------------------------------------
(* Synchronisation, by any command that wants the records, and by a closeout *)

Counted(t) == {e[1] : e \in settled[t]}

Sync(t) ==
  /\ worktree[t] # "absent"
  /\ \E new \in Telemetry(t) : taskRecord' = [taskRecord EXCEPT ![t] = [new EXCEPT !.status = Status(t)]]
  /\ settled' = IF ~Live(t) /\ settled[t] = {}
                THEN [settled EXCEPT ![t] = taskRecord'[t].usage] ELSE settled
  /\ thinned' = IF \/ Usage(t) # {} /\ ~(Counted(t) \subseteq Matching(t))
                   \/ taskRecord'[t].path \notin {None} \cup {s \in Sessions : MatchesWorktree(s, t)}
                THEN thinned \cup {t} ELSE thinned
  /\ UNCHANGED <<now, worktree, started, ended, rollout, session, archive, opened>>

\* A record that is not closed takes the outcome of the newest bundle of its id, if that
\* is among the newest of its repository; nothing says whether it is an earlier one's.
Bundled(t) == \E k \in DOMAIN archive : k <= ScanLimit /\ archive[k] = t

BundleSync(t) ==
  /\ taskRecord[t].status \notin {None, "closed"} /\ Bundled(t)
  /\ taskRecord' = [taskRecord EXCEPT ![t].status = "closed"]
  /\ UNCHANGED <<now, worktree, started, ended, rollout, session, archive, opened, history>>

----------------------------------------------------------------------------
(* Tasks and sessions *)

\* A task is opened from within a session, or from a shell or by the queue.  Its record
\* starts anew, also when an earlier task had its id.
Opens(t) ==
  /\ worktree[t] = "absent" /\ opened[t] < MaxOpens
  /\ opened' = [opened EXCEPT ![t] = @ + 1]
  /\ worktree' = [worktree EXCEPT ![t] = "open"]
  /\ started' = [started EXCEPT ![t] = now]
  /\ \E s \in Sessions \cup {None} : rollout' = [rollout EXCEPT ![t] = s]
  /\ taskRecord' = [taskRecord EXCEPT ![t] = [NoRecord EXCEPT !.status = "open"]]
  /\ settled' = [settled EXCEPT ![t] = {}] /\ thinned' = thinned \ {t}
  /\ UNCHANGED <<now, ended, session, archive>>

Closes(t) ==
  /\ Live(t)
  /\ worktree' = [worktree EXCEPT ![t] = "closed"]
  /\ ended' = [ended EXCEPT ![t] = now]
  /\ UNCHANGED <<now, started, rollout, session, taskRecord, archive, opened, history>>

\* The worktree goes, with or without a bundle; then the command closes the record.
CleansUp(t) ==
  /\ worktree[t] = "closed"
  /\ worktree' = [worktree EXCEPT ![t] = "absent"]
  /\ archive' \in {archive, <<t>> \o archive}
  /\ taskRecord' \in {taskRecord, [taskRecord EXCEPT ![t].status = "closed"]}
  /\ UNCHANGED <<now, started, ended, rollout, session, opened, history>>

\* A session writes an entry, and perhaps a worktree.
Writes(s) ==
  /\ \E seen \in {{}} \cup {{t} : t \in {t \in Tasks : worktree[t] # "absent"}} :
       session' = [session EXCEPT ![s] = [entries |-> @.entries \cup {now}, seen |-> @.seen \cup seen,
                                          touched |-> now]]
  /\ UNCHANGED <<now, worktree, started, ended, rollout, taskRecord, archive, opened, history>>

Tick ==
  /\ now < MaxTime /\ now' = now + 1
  /\ UNCHANGED <<worktree, started, ended, rollout, session, taskRecord, archive, opened, history>>

Next ==
  \/ \E t \in Tasks : Sync(t) \/ BundleSync(t) \/ Opens(t) \/ Closes(t) \/ CleansUp(t)
  \/ \E s \in Sessions : Writes(s)
  \/ Tick

Spec == Init /\ [][Next]_vars

----------------------------------------------------------------------------
\* What the proofs assume: no session is what the model writes for none.
Parameters == None \notin Sessions /\ MaxTime \in Nat

TypeOK ==
  /\ now <= MaxTime
  /\ \A t \in Tasks : /\ worktree[t] \in {"absent", "open", "closed"}
                      /\ taskRecord[t].status \in {None, "open", "closed"}
                      /\ taskRecord[t].usage \subseteq Sessions \X (0..MaxTime)

\* The usage of a task that has ended holds nothing its sessions spent after its end or
\* before its beginning, also when they went on with other tasks; and no later
\* synchronisation takes any of it away, as long as all of the sessions behind it can be
\* found, or no usage at all, and the first of them mentions the worktree.
UsageIsTheTasksOwn ==
  \A t \in Tasks : worktree[t] = "closed" /\ settled[t] # {} =>
    /\ \A e \in taskRecord[t].usage : e[2] \in started[t]..ended[t]
    /\ t \in thinned \/ settled[t] \subseteq taskRecord[t].usage
=============================================================================
