--------------------------- MODULE AgentSessions ---------------------------
(* The registry of agents: how a launch finds a worktree, starts its process and
   records it (agents.rs, agents/), how Codex session files are imported as task
   records (app/codex_metadata.rs), and how exited and abandoned agents are pruned
   or dropped (agents/stale_prune.rs, agents/named_sessions.rs).

   Every status, listing and dashboard snapshot runs a pass: it imports sessions
   and then prunes.  Passes, launches and agents run beside each other; each
   statement is atomic and nothing else is.  An agent's terminal session is named
   after its id, and its process is known by its pid. *)
EXTENDS Integers, FiniteSets

CONSTANTS Launches,   \* the launches of agents, in the order they began: numbers
          Ids,        \* agent ids
          Names,      \* the ids launches may have: their callers', or track and second
          Resumes,    \* launches whose command resumes a session
          Files,      \* session files Codex writes
          Workers,    \* processes that pass over the registry
          MaxCrashes  \* bound: launches and passes that die, pids that are reused

VARIABLES
  step,      \* a launch: new, checked, spawned, stored, done or failed
  name,      \* its id
  tree,      \* its worktree: the launch that created it, 0 when it has none yet
  living,    \* launches whose process runs
  clients,   \* launches with an attached terminal client
  reused,    \* exited launches whose pid another process has taken
  registry,  \* agents: the launch of each id, 0 when there is no row
  recent,    \* launches whose last activity is younger than the age threshold
  adhoc,     \* ad-hoc task records by launch: absent, plain, or a session file
  files,     \* the session files that exist
  pass,      \* where a worker's pass stands
  loaded,    \* the launches whose rows it has loaded and not handled
  known,     \* the records it has loaded, or stored since
  claims,    \* the session files it counts as claimed
  doomed,    \* the ids it will delete
  crossed,   \* an import used a file that another pass had claimed since it loaded
  late,      \* launches whose record an import stored after their row was gone
  accidents

launching == <<step, name, tree, living, clients, reused>>
passing == <<pass, loaded, known, claims, doomed>>
vars == <<launching, registry, recent, adhoc, files, passing, crossed, late, accidents>>

Absent == "absent"
Plain == "plain"
Listed(l) == registry[name[l]] = l
Session(l) == {k \in living : name[k] = name[l]}
Running(l) == l \in living \/ l \in reused

Init ==
  /\ step = [l \in Launches |-> "new"] /\ name \in Names
  /\ tree = [l \in Launches |-> 0]
  /\ living = {} /\ clients = {} /\ reused = {}
  /\ registry = [i \in Ids |-> 0] /\ recent = {}
  /\ adhoc = [l \in Launches |-> Absent] /\ files = {}
  /\ pass = [w \in Workers |-> "idle"] /\ loaded = [w \in Workers |-> {}]
  /\ known = [w \in Workers |-> adhoc] /\ claims = [w \in Workers |-> {}]
  /\ doomed = [w \in Workers |-> {}]
  /\ crossed = FALSE /\ late = {} /\ accidents = 0

----------------------------------------------------------------------------
(* Launches *)

\* The rows whose worktree a launch may take over: of exited agents, and of any
\* agent when the command resumes a session.  Each row is judged by itself.
Reusable(l) == {k \in Launches : /\ k # l /\ tree[k] # 0 /\ Listed(k)
                                 /\ l \in Resumes \/ ~Running(k)}

Newest(rows) == CHOOSE k \in rows : \A j \in rows : k >= j

\* A resuming launch takes the newest such worktree, another one the newest that is
\* at the primary's commit.
Latest(l) == {tree[k] : k \in {k \in Reusable(l) : l \in Resumes => k = Newest(Reusable(l))}}

\* A launch with a name goes on where an exited agent of this name was interrupted,
\* if a record says which session that was.
NamedResume(l) ==
  {tree[k] : k \in {k \in Reusable(l) : l \notin Resumes /\ adhoc[k] \in Files}}

\* A launch that finds no worktree creates one of its own, which must not exist.
Own(l) == {l}

\* The worktrees a launch from the primary checkout may end in.
Worktrees(l) == NamedResume(l) \cup Latest(l) \cup Own(l)

Check(l) ==
  /\ step[l] = "new"
  /\ \A k \in Launches : k < l => step[k] # "new"
  /\ IF registry[name[l]] # 0
     THEN step' = [step EXCEPT ![l] = "failed"] /\ UNCHANGED tree
     ELSE /\ step' = [step EXCEPT ![l] = "checked"]
          /\ \E t \in Worktrees(l) : tree' = [tree EXCEPT ![l] = t]
  /\ UNCHANGED <<name, living, clients, reused, registry, recent, adhoc, files, passing,
                 crossed, late, accidents>>

\* A terminal session of this name is refused.
Spawn(l) ==
  /\ step[l] = "checked"
  /\ IF Session(l) # {}
     THEN step' = [step EXCEPT ![l] = "failed"] /\ UNCHANGED living
     ELSE step' = [step EXCEPT ![l] = "spawned"] /\ living' = living \cup {l}
  /\ UNCHANGED <<name, tree, clients, reused, registry, recent, adhoc, files, passing,
                 crossed, late, accidents>>

\* The id is the primary key: a second insert fails, and its process runs on.
Store(l) ==
  /\ step[l] = "spawned"
  /\ IF registry[name[l]] # 0
     THEN step' = [step EXCEPT ![l] = "failed"] /\ UNCHANGED <<registry, recent>>
     ELSE /\ step' = [step EXCEPT ![l] = "stored"]
          /\ registry' = [registry EXCEPT ![name[l]] = l]
          /\ recent' = recent \cup {l}
  /\ UNCHANGED <<name, tree, living, clients, reused, adhoc, files, passing, crossed, late,
                 accidents>>

\* A command with a prompt gets its ad-hoc record; one without gets none.
Record(l) ==
  /\ step[l] = "stored"
  /\ step' = [step EXCEPT ![l] = "done"]
  /\ \/ adhoc' = [adhoc EXCEPT ![l] = Plain] /\ late' = (IF Listed(l) THEN late ELSE late \cup {l})
     \/ UNCHANGED <<adhoc, late>>
  /\ UNCHANGED <<name, tree, living, clients, reused, registry, recent, files, passing,
                 crossed, accidents>>

LaunchDies(l) ==
  /\ step[l] \in {"checked", "spawned", "stored"}
  /\ accidents < MaxCrashes /\ accidents' = accidents + 1
  /\ step' = [step EXCEPT ![l] = "failed"]
  /\ UNCHANGED <<name, tree, living, clients, reused, registry, recent, adhoc, files, passing,
                 crossed, late>>

----------------------------------------------------------------------------
(* Agents and the world around them *)

Agents == <<step, name, tree, registry, adhoc, passing, crossed, late>>

Exits(l) ==
  /\ l \in living
  /\ living' = living \ {l} /\ clients' = clients \ {l}
  /\ UNCHANGED <<Agents, reused, recent, files, accidents>>

Writes(f) ==
  /\ f \notin files /\ living # {}
  /\ files' = files \cup {f}
  /\ UNCHANGED <<Agents, living, clients, reused, recent, accidents>>

Attaches(l) ==
  /\ l \in living \ clients
  /\ clients' = clients \cup {l}
  /\ UNCHANGED <<Agents, living, reused, recent, files, accidents>>

Detaches(l) ==
  /\ l \in clients
  /\ clients' = clients \ {l}
  /\ UNCHANGED <<Agents, living, reused, recent, files, accidents>>

Ages(l) ==
  /\ l \in recent
  /\ recent' = recent \ {l}
  /\ UNCHANGED <<Agents, living, clients, reused, files, accidents>>

PidReused(l) ==
  /\ Listed(l) /\ l \notin living \cup reused
  /\ accidents < MaxCrashes /\ accidents' = accidents + 1
  /\ reused' = reused \cup {l}
  /\ UNCHANGED <<Agents, living, clients, recent, files>>

PidFreed(l) ==
  /\ l \in reused
  /\ reused' = reused \ {l}
  /\ UNCHANGED <<Agents, living, clients, recent, files, accidents>>

----------------------------------------------------------------------------
(* A pass *)

Rows == {l \in Launches : step[l] # "new" /\ Listed(l)}
Idle == "idle"
Turn(w, next) == pass' = [pass EXCEPT ![w] = next]

\* The rows, the records, and the files the records claim.
SyncLoads(w) ==
  /\ pass[w] = Idle
  /\ loaded' = [loaded EXCEPT ![w] = Rows]
  /\ known' = [known EXCEPT ![w] = adhoc]
  /\ claims' = [claims EXCEPT ![w] = {adhoc[l] : l \in Launches} \ {Absent, Plain}]
  /\ Turn(w, "sync")
  /\ UNCHANGED <<launching, registry, recent, adhoc, files, doomed, crossed, late, accidents>>

Claimed(w, file) == claims[w] \cup {file}

\* An agent without a session may take a file no record claims; one with a session
\* keeps it, and is stored again when its agent has written to the file.
Candidates(w, l) ==
  {f \in files : IF known[w][l] \in {Absent, Plain} THEN f \notin claims[w]
                 ELSE f = known[w][l] /\ l \in living}

Import(w, l) ==
  /\ pass[w] = "sync" /\ l \in loaded[w]
  /\ loaded' = [loaded EXCEPT ![w] = @ \ {l}]
  /\ \/ UNCHANGED <<recent, adhoc, known, claims, crossed, late>>
     \/ \E f \in Candidates(w, l) :
          /\ adhoc' = [adhoc EXCEPT ![l] = f]
          /\ recent' = recent \cup {l}
          /\ known' = [known EXCEPT ![w][l] = f]
          /\ claims' = [claims EXCEPT ![w] = Claimed(w, f)]
          /\ crossed' = (crossed \/ \E k \in Launches : adhoc[k] # known[w][k]
                                                       /\ f \in {adhoc[k], adhoc[l]} \ {Absent, Plain})
          /\ late' = IF Listed(l) THEN late ELSE late \cup {l}
  /\ UNCHANGED <<launching, registry, files, pass, doomed, accidents>>

PruneLoads(w) ==
  /\ pass[w] = "sync" /\ loaded[w] = {}
  /\ loaded' = [loaded EXCEPT ![w] = Rows \ recent]
  /\ Turn(w, "prune")
  /\ UNCHANGED <<launching, registry, recent, adhoc, files, known, claims, doomed, crossed, late,
                 accidents>>

(* Mutant: a stale agent is deleted without a look at its process. *)
StaleDecisionBlind(l) == "DeleteExited"

\* The loaded agent is stale; a session nobody answers for counts as one without
\* clients, and clients that cannot be listed are left alone.
StaleDecision(l) ==
  IF ~Running(l) THEN "DeleteExited"
  ELSE IF Session(l) \cap clients # {} THEN "SkipAttached"
  ELSE "TerminateUnattached"

\* Ending a session that does not exist is an error: the pass ends, and what it
\* had decided is forgotten.
Decide(w, l) ==
  /\ pass[w] = "prune" /\ l \in loaded[w]
  /\ LET decision == StaleDecision(l)
         fails    == decision = "TerminateUnattached" /\ Session(l) = {}
     IN /\ Turn(w, IF fails THEN Idle ELSE "prune")
        /\ loaded' = [loaded EXCEPT ![w] = IF fails THEN {} ELSE @ \ {l}]
        /\ doomed' = [doomed EXCEPT ![w] = IF fails THEN {}
                                           ELSE IF decision = "SkipAttached" THEN @
                                           ELSE @ \cup {name[l]}]
        /\ living' = IF decision = "TerminateUnattached" THEN living \ Session(l) ELSE living
  /\ UNCHANGED <<step, name, tree, clients, reused, registry, recent, adhoc, files, known, claims,
                 crossed, late, accidents>>

\* named-sessions drop: an exited session, or a running one that is ended first.
Drop(w, l) ==
  /\ pass[w] = Idle /\ l \in Rows
  /\ Running(l) => Session(l) # {}
  /\ LET ended == IF Running(l) THEN Session(l) ELSE {}
     IN living' = living \ ended /\ clients' = clients \ ended
  /\ doomed' = [doomed EXCEPT ![w] = {name[l]}]
  /\ Turn(w, "prune")
  /\ UNCHANGED <<step, name, tree, reused, registry, recent, adhoc, files, loaded, known, claims,
                 crossed, late, accidents>>

AdHocOf(i) == {l \in Launches : step[l] # "new" /\ name[l] = i}

\* The records of an agent go first, and then its row.
DeleteRecords(w, i) ==
  /\ pass[w] = "prune" /\ loaded[w] = {} /\ i \in doomed[w]
  /\ adhoc' = [l \in Launches |-> IF l \in AdHocOf(i) THEN Absent ELSE adhoc[l]]
  /\ Turn(w, i)
  /\ UNCHANGED <<launching, registry, recent, files, loaded, known, claims, doomed, crossed, late,
                 accidents>>

DeleteRow(w, i) ==
  /\ pass[w] = i
  /\ registry' = [registry EXCEPT ![i] = 0]
  /\ doomed' = [doomed EXCEPT ![w] = @ \ {i}]
  /\ Turn(w, "prune")
  /\ late' = late \cup {l \in AdHocOf(i) : adhoc[l] # Absent}
  /\ UNCHANGED <<launching, recent, adhoc, files, loaded, known, claims, crossed, accidents>>

PassEnds(w) ==
  /\ pass[w] = "prune" /\ loaded[w] = {} /\ doomed[w] = {}
  /\ Turn(w, Idle)
  /\ known' = [known EXCEPT ![w] = [l \in Launches |-> Absent]]
  /\ claims' = [claims EXCEPT ![w] = {}]
  /\ UNCHANGED <<launching, registry, recent, adhoc, files, loaded, doomed, crossed, late, accidents>>

PassDies(w) ==
  /\ pass[w] # Idle
  /\ accidents < MaxCrashes /\ accidents' = accidents + 1
  /\ Turn(w, Idle)
  /\ loaded' = [loaded EXCEPT ![w] = {}] /\ doomed' = [doomed EXCEPT ![w] = {}]
  /\ known' = [known EXCEPT ![w] = [l \in Launches |-> Absent]]
  /\ claims' = [claims EXCEPT ![w] = {}]
  /\ UNCHANGED <<launching, registry, recent, adhoc, files, crossed, late>>

----------------------------------------------------------------------------
Launch(l) == Check(l) \/ Spawn(l) \/ Store(l) \/ Record(l)
Agent(l) == Exits(l) \/ Attaches(l) \/ Detaches(l) \/ PidReused(l) \/ PidFreed(l)
Pass(w) ==
  \/ SyncLoads(w) \/ PruneLoads(w) \/ PassEnds(w)
  \/ \E l \in Launches : Import(w, l) \/ Decide(w, l)
  \/ \E i \in Ids : DeleteRecords(w, i) \/ DeleteRow(w, i)

Next == \/ \E l \in Launches : Launch(l) \/ LaunchDies(l) \/ Agent(l) \/ Ages(l)
        \/ \E f \in Files : Writes(f)
        \/ \E w \in Workers : Pass(w) \/ PassDies(w) \/ \E l \in Launches : Drop(w, l)

\* Passes go on, and time passes; nothing makes an agent exit or a client leave.
Fairness == /\ \A w \in Workers : WF_vars(Pass(w))
            /\ \A l \in Launches : WF_vars(Launch(l) \/ Ages(l))

Spec == Init /\ [][Next]_vars /\ Fairness

----------------------------------------------------------------------------
\* What the proofs assume: launches are numbered from 1, no id or session file is what
\* the model writes for a pass or a record without either.
Parameters ==
  /\ Launches \subseteq Nat \ {0} /\ Names \subseteq [Launches -> Ids] /\ MaxCrashes \in Nat
  /\ Ids \cap {Idle, "sync", "prune"} = {} /\ Files \cap {Absent, Plain} = {}

TypeOK ==
  /\ step \in [Launches -> {"new", "checked", "spawned", "stored", "done", "failed"}]
  /\ tree \in [Launches -> Launches \cup {0}] /\ registry \in [Ids -> Launches \cup {0}]
  /\ living \subseteq Launches /\ clients \subseteq Launches /\ reused \subseteq Launches
  /\ recent \subseteq Launches /\ late \subseteq Launches /\ files \subseteq Files
  /\ adhoc \in [Launches -> {Absent, Plain} \cup Files]
  /\ \A w \in Workers : /\ loaded[w] \subseteq Launches /\ claims[w] \subseteq Files
                        /\ doomed[w] \subseteq Ids
  /\ crossed \in BOOLEAN /\ accidents \in 0..MaxCrashes

(* An agent whose launch is complete and whose process runs stays in the registry:
   no pass deletes its row from an older look at it.  Two launches of one id are
   excepted: a pass that decided about the first one deletes the second one's row. *)
RunningAgentsStayListed ==
  \A l \in living : step[l] = "done" => \/ Listed(l)
                                        \/ \E k \in Launches \ {l} : name[k] = name[l]

(* A session file is the session of one record only, over any passes; imports that
   overlap another pass's imports may give a file away twice. *)
SessionClaimedOnce ==
  crossed \/ \A k, l \in Launches : adhoc[k] \in Files /\ adhoc[k] = adhoc[l] => k = l

(* Two running agents share a worktree only by way of a third agent that has left
   it: the launch looks at each row by itself, and does not see that a later agent
   already took the worktree over.  A command that resumes a session shares freely. *)
SharedTreesWereLeft ==
  \A k, l \in living :
    (k < l /\ tree[k] = tree[l] /\ l \notin Resumes)
      => \E j \in Launches \ {k, l} : tree[j] = tree[k] /\ j < l

(* An agent that has exited is pruned in the end, its ad-hoc record and its row,
   whichever pass dies between the two; a row whose pid another process has taken
   stops every pass as long as that process lives.  Only a record that an import or
   its own launch stored after the row was gone stays. *)
ExitedAgentsArePruned ==
  (<>[](reused = {})) =>
    \A l \in Launches : []( (step[l] = "done" /\ l \notin living)
                            => <>(~Listed(l) /\ (adhoc[l] = Absent \/ l \in late)) )
=============================================================================
