---------------------------- MODULE TaskEvidence ----------------------------
(* What a closeout proves and what it keeps of the proof: the preflight checks
   (xtask task/verify.rs, quality.rs), the index of proof runs that travels with
   the base branch (task/proof_runs.rs), and the bundles with their receipts
   (task/bundle.rs), within the phases of xtask's closeout (main.rs).

   Several tasks of one repository work from different states of the base branch.
   Here a delivery is one step: TaskFlow has its commands one by one.  A tree is the
   set of tasks whose work is in it. *)
EXTENDS Naturals, Sequences, FiniteSets, SequencesExt

CONSTANTS Tasks,      \* task numbers
          Summaries,  \* what validation may write: suite, directory, result, and whether active
          Broken,     \* the trees that fail a required check
          Limit,      \* PROOF_RUN_INDEX_LIMIT
          MaxEvents   \* bound: commits, validation runs and failures

VARIABLES
  base,        \* the base branch: its tree and its index
  fork,        \* the base each task's branch starts from
  index,       \* the index in each task's worktree
  torn,        \* tasks whose index has conflict markers, in the middle of a rebase
  head,        \* the commits of each task
  logs,        \* the summaries in each task's worktree
  stage,       \* where its closeout stands
  envStatus,   \* of its task.env, absent before and gone after
  bundles,     \* of each task: status and receipt
  checked,     \* trees that have passed the preflight
  moved,       \* trees delivered to a base that had moved since the task's branch began
  order,       \* the deliveries
  proofs,      \* the rows each task delivered last
  twinned,     \* tasks that have had two rows of one identity
  turns

work == <<fork, index, torn, head, logs>>
history == <<checked, moved, order, proofs, twinned>>
vars == <<base, work, stage, envStatus, bundles, history, turns>>

Init ==
  /\ base = [tree |-> {}, index |-> <<>>]
  /\ fork = [t \in Tasks |-> base] /\ index = [t \in Tasks |-> <<>>] /\ torn = {}
  /\ head = [t \in Tasks |-> 0] /\ logs = [t \in Tasks |-> {}]
  /\ stage = [t \in Tasks |-> "idle"] /\ envStatus = [t \in Tasks |-> "absent"]
  /\ bundles = [t \in Tasks |-> {}]
  /\ checked = {{}} /\ moved = {} /\ order = <<>> /\ proofs = [t \in Tasks |-> {}]
  /\ twinned = {}
  /\ turns = 0

Event == turns < MaxEvents /\ turns' = turns + 1
Goto(t, s) == stage' = [stage EXCEPT ![t] = s]

----------------------------------------------------------------------------
(* The agent *)

OpensTask(t) ==
  /\ envStatus[t] = "absent" /\ stage[t] = "idle"
  /\ envStatus' = [envStatus EXCEPT ![t] = "open"]
  /\ fork' = [fork EXCEPT ![t] = base] /\ index' = [index EXCEPT ![t] = base.index]
  /\ UNCHANGED <<base, torn, head, logs, stage, bundles, history, turns>>

Working(t) == stage[t] = "idle" /\ envStatus[t] \in {"open", "failed-closeout"}

\* It commits, or validates: a run's summary replaces the one in its directory.
AgentWorks(t) ==
  /\ Working(t) /\ Event
  /\ \/ head' = [head EXCEPT ![t] = @ + 1] /\ UNCHANGED logs
     \/ \E s \in Summaries :
          logs' = [logs EXCEPT ![t] = {r \in @ : r.place # s.place} \cup {s}] /\ UNCHANGED head
  /\ UNCHANGED <<base, fork, index, torn, stage, envStatus, bundles, history>>

\* It finishes the rebase by hand, with or without its own rows, or gives it up.
AgentResolves(t) ==
  /\ Working(t) /\ t \in torn
  /\ torn' = torn \ {t}
  /\ \/ \E own \in {<<>>, SelectSeq(index[t], LAMBDA r : r.task = t)} :
          /\ index' = [index EXCEPT ![t] = base.index \o own]
          /\ fork' = [fork EXCEPT ![t] = base]
          /\ head' = [head EXCEPT ![t] = @ + 1]
     \/ UNCHANGED <<index, fork, head>>
  /\ UNCHANGED <<base, logs, stage, envStatus, bundles, history, turns>>

----------------------------------------------------------------------------
(* The index of proof runs *)

\* The identity of a row is its task, the task's head, and its suite.
SameIdentity(q, r) == q.task = r.task /\ q.head = r.head /\ q.suite = r.suite

\* Summaries that selected nothing are left out; the others come by directory.
Generated(t) ==
  LET active == {s \in logs[t] : s.active}
      row(s) == [task |-> t, head |-> head[t], suite |-> s.suite, result |-> s.result]
      sorted == SetToSortSeq(active, LAMBDA r, s : r.place < s.place)
  IN  [k \in DOMAIN sorted |-> row(sorted[k])]

\* Two directories may hold summaries of one suite.
Twins(t) == \E r, s \in logs[t] : r # s /\ r.active /\ s.active /\ r.suite = s.suite

(* Mutant: the first rows are kept. *)
TrimmedFront(rows) == SubSeq(rows, 1, IF Len(rows) > Limit THEN Limit ELSE Len(rows))

Trimmed(rows) == SubSeq(rows, (IF Len(rows) > Limit THEN Len(rows) - Limit ELSE 0) + 1, Len(rows))

Updated(t) ==
  LET new == Generated(t)
      old == SelectSeq(index[t], LAMBDA q : \A r \in Range(new) : ~SameIdentity(q, r))
  IN  Trimmed(old \o new)

----------------------------------------------------------------------------
(* qcold task closeout *)

Tree(t) == fork[t].tree \cup {t}

Closeout(t) ==
  /\ Working(t) /\ Goto(t, "preflight")
  /\ UNCHANGED <<base, work, envStatus, bundles, history, turns>>

\* Every required check must pass, on the tree of the worktree as it is.
Preflight(t) ==
  /\ stage[t] = "preflight"
  /\ IF Tree(t) \in Broken THEN Goto(t, "fail") /\ UNCHANGED checked
     ELSE Goto(t, "index") /\ checked' = checked \cup {Tree(t)}
  /\ UNCHANGED <<base, work, envStatus, bundles, moved, order, proofs, twinned, turns>>

\* A row with a conflict marker does not parse.
UpdatesIndex(t) ==
  /\ stage[t] = "index"
  /\ IF t \in torn THEN Goto(t, "fail") /\ UNCHANGED <<index, twinned>>
     ELSE /\ index' = [index EXCEPT ![t] = Updated(t)]
          /\ twinned' = IF Twins(t) THEN twinned \cup {t} ELSE twinned
          /\ Goto(t, "deliver")
  /\ UNCHANGED <<base, fork, torn, head, logs, envStatus, bundles, checked, moved, order, proofs,
                 turns>>

\* Commit, rebase, fast-forward and push.  Both sides append to the index, so that a
\* rebase over somebody else's rows is a conflict.
Conflict(t) == base.index # fork[t].index /\ index[t] # fork[t].index /\ index[t] # base.index

Delivers(t) ==
  /\ stage[t] = "deliver"
  /\ \/ /\ ~Conflict(t)
        /\ base' = [tree |-> base.tree \cup {t},
                    index |-> IF index[t] = fork[t].index THEN base.index ELSE index[t]]
        /\ moved' = IF base.tree # fork[t].tree THEN moved \cup {base'.tree} ELSE moved
        /\ order' = Append(order, t)
        /\ proofs' = [proofs EXCEPT ![t] = Range(Generated(t))]
        /\ fork' = [fork EXCEPT ![t] = base'] /\ index' = [index EXCEPT ![t] = base'.index]
        /\ head' = [head EXCEPT ![t] = @ + 1]
        /\ Goto(t, "close")
        /\ UNCHANGED <<torn, turns>>
     \/ /\ IF Conflict(t) THEN torn' = torn \cup {t} /\ UNCHANGED turns
           ELSE Event /\ UNCHANGED torn
        /\ Goto(t, "fail")
        /\ UNCHANGED <<base, fork, index, head, moved, order, proofs>>
  /\ UNCHANGED <<logs, envStatus, bundles, checked, twinned>>

Closes(t) ==
  /\ stage[t] = "close"
  /\ envStatus' = [envStatus EXCEPT ![t] = "closed:success"]
  /\ Goto(t, "bundle")
  /\ UNCHANGED <<base, work, bundles, history, turns>>

\* A bundle holds the state of the task and what can be seen of its worktree.
Archive(t, receipt) == [status |-> envStatus[t], receipt |-> receipt]

Bundles(t) ==
  /\ stage[t] = "bundle"
  /\ \/ bundles' = [bundles EXCEPT ![t] = @ \cup {Archive(t, "none")}]
        /\ Goto(t, "cleanup") /\ UNCHANGED turns
     \/ Event /\ Goto(t, "fail") /\ UNCHANGED bundles
  /\ UNCHANGED <<base, work, envStatus, history>>

\* The receipt comes when worktree and branch are gone; without it there is a warning.
CleansUp(t) ==
  /\ stage[t] = "cleanup"
  /\ \/ /\ envStatus' = [envStatus EXCEPT ![t] = "gone"] /\ Goto(t, "idle")
        /\ \/ bundles' = [bundles EXCEPT ![t] = (@ \ {Archive(t, "none")}) \cup {Archive(t, "success")}]
              /\ UNCHANGED turns
           \/ Event /\ UNCHANGED bundles
     \/ Event /\ Goto(t, "fail") /\ UNCHANGED <<bundles, envStatus>>
  /\ UNCHANGED <<base, work, history>>

\* A closeout that fails keeps the worktree and bundles what there is.
Fails(t) ==
  /\ stage[t] = "fail"
  /\ envStatus' = [envStatus EXCEPT ![t] = "failed-closeout"]
  /\ Goto(t, "idle")
  /\ \/ bundles' = [bundles EXCEPT ![t] = @ \cup {[status |-> envStatus'[t], receipt |-> "failed-closeout"]}]
        /\ UNCHANGED turns
     \/ Event /\ UNCHANGED bundles
  /\ UNCHANGED <<base, work, history>>

\* closeout --outcome blocked or failed: the worktree goes, whatever it holds.
Drops(t) ==
  /\ Working(t) /\ Event
  /\ \E outcome \in {"blocked", "failed"} :
       bundles' = [bundles EXCEPT ![t] = @ \cup {[status |-> "closed:" \o outcome, receipt |-> outcome]}]
  /\ envStatus' = [envStatus EXCEPT ![t] = "gone"] /\ torn' = torn \ {t}
  /\ UNCHANGED <<base, fork, index, head, logs, stage, history>>

Task(t) ==
  \/ OpensTask(t)
  \/ AgentWorks(t)
  \/ AgentResolves(t)
  \/ Closeout(t)
  \/ Preflight(t)
  \/ UpdatesIndex(t)
  \/ Delivers(t)
  \/ Closes(t)
  \/ Bundles(t)
  \/ CleansUp(t)
  \/ Fails(t)
  \/ Drops(t)

Next == \E t \in Tasks : Task(t)
Spec == Init /\ [][Next]_vars

----------------------------------------------------------------------------
TypeOK ==
  /\ base.tree \subseteq Tasks /\ Len(base.index) <= Limit
  /\ torn \subseteq Tasks /\ Range(order) \subseteq Tasks
  /\ \A t \in Tasks : head[t] \in Nat /\ logs[t] \subseteq Summaries
  /\ turns <= MaxEvents

LaterThan(t) == {order[k] : k \in {k \in DOMAIN order : \E j \in 1..k : order[j] = t}}

\* The base branch holds a tree that has passed the preflight, unless its last delivery
\* was rebased onto work the task had not seen.
DeliveredTreeIsChecked == base.tree \in checked \cup moved

\* The rows of a delivered proof stay in its index until Limit rows of the same or later
\* deliveries have pushed them out; or fewer, when a closeout that failed had pushed them
\* out with two rows of one identity, of which the next one leaves one.
ProofRowsStay ==
  \A t \in base.tree : \A r \in proofs[t] :
    r \notin Range(base.index) =>
      /\ Len(base.index) = Limit \/ twinned # {}
      /\ \A q \in Range(base.index) : q.task \in LaterThan(t)

\* A success receipt is for delivered work.
SuccessIsDelivered ==
  \A t \in Tasks : \A b \in bundles[t] :
    b.receipt = "success" => b.status = "closed:success" /\ t \in base.tree

\* What is delivered has been proven, its proof stays, and what its receipt says is true.
DeliveredWorkIsProven == DeliveredTreeIsChecked /\ ProofRowsStay /\ SuccessIsDelivered
=============================================================================
