----------------------------- MODULE QueueBoard -----------------------------
(***************************************************************************)
(* The queue board: tabs, the runs they show, the runs' items, and the     *)
(* requests of several clients that change them under the run workers.     *)
(*                                                                         *)
(* A handler of the edit API reads the board, decides, and writes in a     *)
(* transaction of its own; the run worker does the same with the rows it   *)
(* loaded.  Whatever happens in between is not looked at again, except by  *)
(* the uniqueness rules of the tables.  Item execution is one step with    *)
(* two outcomes: QueueExecution has it in full, with leases, retries and   *)
(* restarts.                                                               *)
(***************************************************************************)
EXTENDS Naturals, FiniteSets, Functions, FiniteSetsExt

CONSTANTS Tab,          \* queue tabs, DefaultTab among them
          DefaultTab,
          Run,          \* ids of runs
          Slug,         \* slugs of tasks
          SameTask(_, _), \* two slugs with one conflict key
          Package,      \* requested runs: the id and the slugs
          Prompt,       \* what an item asks for; FirstPrompt as submitted
          FirstPrompt,
          NoRun, ActiveTab,
          Clients,      \* bound: requests in flight
          MaxRequests,  \* bound: requests of all clients
          Restless      \* kinds of requests the instance makes

ASSUME BoardAssumption ==
    /\ DefaultTab \in Tab /\ ActiveTab \notin Tab
    /\ NoRun \notin Run
    /\ FirstPrompt \in Prompt
    /\ \A s \in Slug : SameTask(s, s)
    /\ Package \subseteq Run \X ((SUBSET Slug) \ {{}})
    /\ \A p \in Package : IsFiniteSet(p[2])
    /\ \A s, t \in Slug : SameTask(s, t) => SameTask(t, s)
    /\ {Clients, MaxRequests} \subseteq Nat

VARIABLES tab,      \* web_queue_tabs: the existing tabs and the run each shows
          active,   \* the tab with active = 1
          run,      \* web_queue_runs: status and stop_requested
          item,     \* web_queue_items by run and slug
          exec,     \* item workers: the prompt each was started with
          worker,   \* run workers and the rows each has loaded
          req,      \* what each client's handler has read
          asked     \* requests so far
vars == <<tab, active, run, item, exec, worker, req, asked>>
board == <<tab, active, run, item>>

Key == Run \X Slug
Client == 1 .. Clients
Terminal == {"success", "failed"}
ActiveRun == {"running", "stopping"}
Appendable == {"running", "stopped"}
Idle == [op |-> "idle"]
Off == [at |-> "off", saw |-> << >>]

Rows(r) == {k \in DOMAIN item : k[1] = r}
Shows(ts, r) == \E t \in DOMAIN ts : ts[t] = r
Shown(r) == Shows(tab, r)
Without(f, S) == Restrict(f, DOMAIN f \ S)
Put(f, k, v) == [x \in DOMAIN f \cup {k} |-> IF x = k THEN v ELSE f[x]]

(* spawn_web_queue_worker: nothing happens while a worker of the run has not *)
(* left the set of workers.                                                  *)
Spawned(r) == IF worker[r].at = "off" THEN [worker EXCEPT ![r] = [Off EXCEPT !.at = "start"]]
                                      ELSE worker

(* History: a request is fresh as long as nobody has written to the board    *)
(* since it read.                                                            *)
Disturbed == [d \in Client |-> IF req[d] = Idle THEN Idle ELSE [req[d] EXCEPT !.fresh = FALSE]]
Reads(c, q) ==
    /\ \A d \in Client : req[d] = Idle => c <= d
    /\ req[c] = Idle /\ asked < MaxRequests /\ q.op \in Restless
    /\ asked' = asked + 1
    /\ req' = [req EXCEPT ![c] = q]
    /\ UNCHANGED <<board, exec, worker>>
Done(c) == req' = [Disturbed EXCEPT ![c] = Idle]
Refuse(c) == req' = [req EXCEPT ![c] = Idle] /\ UNCHANGED <<board, exec, worker>>

(* A request that is one transaction.                                        *)
AtOnce(kind) ==
    /\ kind \in Restless /\ asked < MaxRequests
    /\ asked' = asked + 1
    /\ req' = Disturbed

(* The tabs have been created before; none shows a run.                      *)
Init ==
    /\ tab = [t \in Tab |-> NoRun]
    /\ active = DefaultTab
    /\ run = << >> /\ item = << >> /\ exec = << >>
    /\ worker = [r \in Run |-> Off]
    /\ req = [c \in Client |-> Idle]
    /\ asked = 0

---------------------------------------------------------------------------
(* Requests that read and write in steps of their own.                       *)

(* Mutant: a failed task does not stand in the way of a new run.             *)
ConflictFreeUnlessFailed(r, S) ==
    \A k \in DOMAIN item : \A s \in S :
        k[1] # r /\ Shown(k[1]) /\ SameTask(k[2], s) => item[k].status \in Terminal

(* ensure_queue_run_conflict_free: no shown row of another run, unless it    *)
(* has succeeded, has the slug or the conflict key of a requested item.      *)
ConflictFree(r, S) ==
    \A k \in DOMAIN item : \A s \in S :
        k[1] # r /\ Shown(k[1]) /\ SameTask(k[2], s) => item[k].status = "success"

CheckRun(c) == \E p \in Package, t \in (DOMAIN tab \ {active}) \cup {ActiveTab} :
    /\ ConflictFree(p[1], p[2])
    /\ Reads(c, [op |-> "run", run |-> p[1], tab |-> t, slugs |-> p[2], fresh |-> TRUE])

NewRow(marks, p) == [status |-> "pending", prompt |-> FirstPrompt, pos |-> p, marks |-> marks]
Marks(name, condition) == IF condition THEN {name} ELSE {}

(* Mutant: the run that loses its tab is kept.                               *)
KeptAlways(tabs, r) == DOMAIN run \cup {r}

(* assign_web_queue_run_to_tab: no other tab shows the run any more.         *)
Assigned(t, r) == [u \in DOMAIN tab |-> IF u = t THEN r ELSE IF tab[u] = r THEN NoRun ELSE tab[u]]

(* Runs that some tab shows are kept.                                        *)
Kept(tabs, r) == {q \in DOMAIN run \cup {r} : Shows(tabs, q)}

(* replace_web_queue: the run takes the tab, every other tab loses the run,  *)
(* and runs that no tab shows are deleted with their rows, running or not.   *)
StoreRun(c) ==
    /\ req[c].op = "run"
    /\ LET r == req[c].run
           t == IF req[c].tab = ActiveTab THEN active ELSE req[c].tab
           tabs == Assigned(t, r)
           kept == Kept(tabs, r)
           order == CHOOSE f \in [req[c].slugs -> 1 .. Cardinality(req[c].slugs)] : IsInjective(f)
           marks(k) == Marks("unchecked", ~req[c].fresh)
                       \cup Marks("unseen", worker[r].at \in {"loaded", "leave"})
                       \cup Marks("edited", k \in DOMAIN exec)
       IN  IF t \notin DOMAIN tab
           THEN Refuse(c)
           ELSE /\ tab' = tabs
                /\ run' = [q \in kept |-> IF q = r THEN [status |-> "running", stop |-> FALSE]
                                                   ELSE run[q]]
                /\ item' = [k \in {k \in DOMAIN item : k[1] \in kept \ {r}} \cup {<<r, s>> : s \in req[c].slugs}
                              |-> IF k[1] = r THEN NewRow(marks(k), order[k[2]]) ELSE item[k]]
                /\ worker' = Spawned(r)
                /\ Done(c)
                /\ UNCHANGED <<active, exec>>
    /\ UNCHANGED asked

ReadAppend(c) == \E k \in Key :
    /\ k[1] \in DOMAIN run /\ run[k[1]].status \in Appendable
    /\ k \notin DOMAIN item
    /\ Reads(c, [op |-> "append", key |-> k, fresh |-> TRUE,
                 pos |-> 1 + Max({item[j].pos : j \in Rows(k[1])} \cup {0})])

(* append_web_queue_items looks only whether the run exists; (run_id,        *)
(* position) and (run_id, slug) are unique.                                  *)
StoreAppend(c) ==
    /\ req[c].op = "append"
    /\ LET k == req[c].key
           taken == k \in DOMAIN item \/ \E j \in Rows(k[1]) : item[j].pos = req[c].pos
           marks == {"unchecked"} \cup Marks("unseen", worker[k[1]].at \in {"loaded", "leave"})
                    \cup Marks("edited", k \in DOMAIN exec)
       IN  IF k[1] \notin DOMAIN run \/ taken
           THEN Refuse(c)
           ELSE /\ item' = Put(item, k, NewRow(marks, req[c].pos))
                /\ worker' = Spawned(k[1])
                /\ Done(c)
                /\ UNCHANGED <<tab, active, run, exec>>
    /\ UNCHANGED asked

(* Mutant: only the status of the row is looked at.                          *)
EditableByStatus(k) == run[k[1]].status \in Appendable /\ item[k].status = "pending"

(* Editable: the run takes items, and this one is pending with no worker.    *)
Editable(k) ==
    /\ run[k[1]].status \in Appendable
    /\ item[k].status = "pending"
    /\ k \notin DOMAIN exec

ReadUpdate(c) == \E k \in DOMAIN item, p \in Prompt :
    /\ k[1] \in DOMAIN run /\ Editable(k)
    /\ Reads(c, [op |-> "update", key |-> k, prompt |-> p, fresh |-> TRUE])

StoreUpdate(c) ==
    /\ req[c].op = "update"
    /\ LET k == req[c].key IN
       /\ item' = IF k \notin DOMAIN item THEN item
                  ELSE [item EXCEPT ![k].prompt = req[c].prompt,
                                    ![k].marks = @ \cup Marks("edited", ~req[c].fresh)]
       /\ worker' = Spawned(k[1])
    /\ Done(c)
    /\ UNCHANGED <<tab, active, run, exec, asked>>

(* Removable: a row of a run at rest; of a live run a terminal row, or one   *)
(* that waits and has no agent.                                              *)
ReadRemove(c) == \E k \in DOMAIN item :
    /\ run[k[1]].status \in ActiveRun => item[k].status \in Terminal \cup {"pending"}
    /\ Reads(c, [op |-> "remove", key |-> k, fresh |-> TRUE])

(* The row goes, and an emptied run with it, which its tab then shows no     *)
(* more (on delete set null).                                                *)
Detached(gone) == [t \in DOMAIN tab |-> IF tab[t] \in gone THEN NoRun ELSE tab[t]]
DeleteRow(c) ==
    /\ req[c].op = "remove"
    /\ LET k == req[c].key
           gone == IF Rows(k[1]) \subseteq {k} THEN {k[1]} ELSE {}
       IN  /\ item' = Without(item, {k})
           /\ run' = Without(run, gone)
           /\ tab' = Detached(gone)
    /\ Done(c)
    /\ UNCHANGED <<active, exec, worker, asked>>

(* Clearing stops a live run first and deletes its rows then.                *)
StopForClear(c) == \E r \in DOMAIN run :
    /\ Reads(c, [op |-> "clear", run |-> r, fresh |-> TRUE, stop |-> run[r].status \in ActiveRun])
StopRun(r) == IF r \in DOMAIN run /\ run[r].status = "running"
              THEN [run EXCEPT ![r] = [status |-> "stopping", stop |-> TRUE]]
              ELSE run
ClearStops(c) ==
    /\ req[c].op = "clear" /\ req[c].stop
    /\ run' = StopRun(req[c].run)
    /\ req' = [Disturbed EXCEPT ![c] = [@ EXCEPT !.stop = FALSE]]
    /\ UNCHANGED <<tab, active, item, exec, worker, asked>>

(* Mutant: the tabs are forgotten.                                           *)
DeletedRunKeepsTab(r) ==
    /\ run' = Without(run, {r})
    /\ item' = Without(item, Rows(r))
    /\ UNCHANGED tab

DeletedRun(r) ==
    /\ run' = Without(run, {r})
    /\ item' = Without(item, Rows(r))
    /\ tab' = Detached({r})
DeleteRows(c) ==
    /\ req[c].op = "clear" /\ ~req[c].stop
    /\ DeletedRun(req[c].run)
    /\ Done(c)
    /\ UNCHANGED <<active, exec, worker, asked>>

(* A tab with a run is deleted only while nothing of the run is at work; its *)
(* rows and the tab go in two transactions.                                  *)
LiveWork(r) ==
    \/ run[r].status \in ActiveRun
    \/ \E k \in Rows(r) : item[k].status = "running" \/ k \in DOMAIN exec

ReadTab(c) == \E t \in DOMAIN tab \ {DefaultTab} :
    /\ tab[t] # NoRun => ~LiveWork(tab[t])
    /\ Reads(c, [op |-> IF tab[t] = NoRun THEN "tab" ELSE "tab-rows", tab |-> t, run |-> tab[t], fresh |-> TRUE])
DeleteTabRows(c) ==
    /\ req[c].op = "tab-rows"
    /\ DeletedRun(req[c].run)
    /\ req' = [Disturbed EXCEPT ![c] = [@ EXCEPT !.op = "tab"]]
    /\ UNCHANGED <<active, exec, worker, asked>>

(* active_fallback_queue_tab_id: a tab that shows a run, the default tab     *)
(* first among equals.                                                       *)
Fallbacks(T) ==
    LET withRun == {t \in T : tab[t] # NoRun}
        best == IF withRun = {} THEN T ELSE withRun
    IN  IF DefaultTab \in best THEN {DefaultTab} ELSE best
DeleteTab(c) ==
    /\ req[c].op = "tab"
    /\ LET t == req[c].tab IN
       IF t \notin DOMAIN tab
       THEN Refuse(c)
       ELSE /\ tab' = Without(tab, {t})
            /\ IF active = t THEN active' \in Fallbacks(DOMAIN tab \ {t}) ELSE UNCHANGED active
            /\ Done(c)
            /\ UNCHANGED <<run, item, exec, worker>>
    /\ UNCHANGED asked

---------------------------------------------------------------------------
(* Requests that are one transaction.                                        *)

CreateTab == \E t \in Tab \ DOMAIN tab :
    /\ AtOnce("tab")
    /\ tab' = Put(tab, t, NoRun)
    /\ active' = t
    /\ UNCHANGED <<run, item, exec, worker>>

SwitchTab == \E t \in DOMAIN tab \ {active} :
    /\ AtOnce("tab")
    /\ active' = t
    /\ UNCHANGED <<tab, run, item, exec, worker>>

Stop == \E r \in DOMAIN run :
    /\ AtOnce("stop")
    /\ run[r].status = "running"
    /\ run' = StopRun(r)
    /\ UNCHANGED <<tab, active, item, exec, worker>>

Continue == \E r \in DOMAIN run :
    /\ AtOnce("stop")
    /\ run[r].status = "stopped"
    /\ run' = [run EXCEPT ![r] = [status |-> "running", stop |-> FALSE]]
    /\ item' = [k \in DOMAIN item |-> IF k[1] = r /\ item[k].status = "stopped"
                                      THEN [item[k] EXCEPT !.status = "pending"] ELSE item[k]]
    /\ worker' = Spawned(r)
    /\ UNCHANGED <<tab, active, exec>>

---------------------------------------------------------------------------
(* Workers.                                                                  *)

SetStatus(r, s) == IF r \in DOMAIN run THEN [run EXCEPT ![r].status = s] ELSE run
Moves(r, at) == worker' = [worker EXCEPT ![r] = [Off EXCEPT !.at = at]]
Writes == req' = Disturbed /\ UNCHANGED <<tab, active, asked>>

WorkerStarts(r) ==
    /\ worker[r].at = "start"
    /\ run' = SetStatus(r, "running")
    /\ Moves(r, "loop")
    /\ Writes /\ UNCHANGED <<item, exec>>

(* Mutant: the worker waits for its run to come back.                        *)
WorkerLoadsIfThere(r) ==
    /\ worker[r].at = "loop" /\ r \in DOMAIN run
    /\ worker' = [worker EXCEPT ![r] = [at |-> "loaded", saw |-> Restrict(item, Rows(r))]]
    /\ UNCHANGED <<board, exec, req, asked>>

(* The rows are loaded; a run that is gone ends its worker.                  *)
WorkerLoads(r) ==
    /\ worker[r].at = "loop"
    /\ IF r \in DOMAIN run
       THEN worker' = [worker EXCEPT ![r] = [at |-> "loaded", saw |-> Restrict(item, Rows(r))]]
       ELSE Moves(r, "leave")
    /\ UNCHANGED <<board, exec, req, asked>>

Saw(r) == worker[r].saw
SawFailure(r) == Saw(r) = << >> \/ \E k \in DOMAIN Saw(r) : Saw(r)[k].status = "failed"
(* Mutant: a stopped row counts as done.                                     *)
SawSuccessOrStopped(r) == \A k \in DOMAIN Saw(r) : Saw(r)[k].status \in {"success", "stopped"}
SawSuccess(r) == \A k \in DOMAIN Saw(r) : Saw(r)[k].status = "success"
StopRequested(r) == r \in DOMAIN run => run[r].stop

WorkerEnds(r) ==
    /\ worker[r].at = "loaded"
    /\ SawFailure(r) \/ SawSuccess(r)
    /\ run' = SetStatus(r, IF SawFailure(r) THEN "failed" ELSE "success")
    /\ Moves(r, "leave")
    /\ Writes /\ UNCHANGED <<item, exec>>

(* A stopping worker writes over whatever the rows have become meanwhile.    *)
Stopped(row) == [row EXCEPT !.status = "stopped",
                            !.marks = @ \cup Marks("reopened", row.status = "success")]
WorkerStops(r) ==
    /\ worker[r].at = "loaded" /\ ~SawFailure(r) /\ ~SawSuccess(r) /\ StopRequested(r)
    /\ item' = [k \in DOMAIN item |->
                  IF k \in DOMAIN Saw(r) \ DOMAIN exec /\ Saw(r)[k].status # "success"
                  THEN Stopped(item[k]) ELSE item[k]]
    /\ run' = SetStatus(r, "stopped")
    /\ Moves(r, "leave")
    /\ Writes /\ UNCHANGED exec

(* Item workers are started with the rows that were loaded; the lease asks   *)
(* the table whether the row is still there and not terminal.                *)
WorkerSpawns(r) ==
    /\ worker[r].at = "loaded" /\ ~SawFailure(r) /\ ~SawSuccess(r) /\ ~StopRequested(r)
    /\ \E K \in SUBSET {k \in DOMAIN Saw(r) \cap DOMAIN item :
                          /\ Saw(r)[k].status \notin Terminal /\ item[k].status \notin Terminal
                          /\ k \notin DOMAIN exec} :
          /\ exec' = [k \in DOMAIN exec \cup K |-> IF k \in K THEN Saw(r)[k].prompt ELSE exec[k]]
          /\ item' = [k \in DOMAIN item |->
                        IF k \in K /\ item[k].prompt # Saw(r)[k].prompt
                        THEN [item[k] EXCEPT !.marks = @ \cup {"edited"}] ELSE item[k]]
    /\ run' = SetStatus(r, "running")
    /\ Moves(r, "loop")
    /\ Writes

WorkerLeaves(r) ==
    /\ worker[r].at = "leave"
    /\ Moves(r, "off")
    /\ UNCHANGED <<board, exec, req, asked>>

(* The stale-run reconciler starts a worker for a shown, active run that has *)
(* none.                                                                     *)
Resume(r) ==
    /\ r \in DOMAIN run /\ Shown(r) /\ run[r].status \in ActiveRun
    /\ worker[r].at = "off"
    /\ worker' = Spawned(r)
    /\ UNCHANGED <<board, exec, req, asked>>

SetItem(k, s) == IF k \in DOMAIN item
                 THEN [item EXCEPT ![k].status = s] ELSE item

ItemRuns(k) ==
    /\ k \in DOMAIN exec /\ k \in DOMAIN item /\ item[k].status = "pending"
    /\ item' = SetItem(k, "running")
    /\ Writes /\ UNCHANGED <<run, exec, worker>>

ItemEnds(k, s) ==
    /\ k \in DOMAIN exec
    /\ k \in DOMAIN item => item[k].status # "pending"
    /\ item' = SetItem(k, s)
    /\ exec' = Without(exec, {k})
    /\ Writes /\ UNCHANGED <<run, worker>>

(* An item worker gives up when its run is stopped or gone, or when the row  *)
(* has been removed and its agent ended with it.                             *)
ItemStops(k) ==
    /\ k \in DOMAIN exec
    /\ StopRequested(k[1]) \/ k \notin DOMAIN item
    /\ item' = SetItem(k, "stopped")
    /\ exec' = Without(exec, {k})
    /\ Writes /\ UNCHANGED <<run, worker>>

WorkerStep(r) == WorkerStarts(r) \/ WorkerLoads(r) \/ WorkerEnds(r) \/ WorkerStops(r)
                 \/ WorkerSpawns(r) \/ WorkerLeaves(r)

Write(c) == StoreRun(c) \/ StoreAppend(c) \/ StoreUpdate(c) \/ DeleteRow(c) \/ ClearStops(c)
            \/ DeleteRows(c) \/ DeleteTabRows(c) \/ DeleteTab(c)

Next ==
    \/ \E c \in Client : \/ CheckRun(c) \/ ReadAppend(c) \/ ReadUpdate(c) \/ ReadRemove(c)
                         \/ StopForClear(c) \/ ReadTab(c)
                         \/ Write(c)
    \/ CreateTab \/ SwitchTab \/ Stop \/ Continue
    \/ \E r \in Run : WorkerStep(r) \/ Resume(r)
    \/ \E k \in Key : ItemRuns(k) \/ ItemStops(k) \/ \E s \in Terminal : ItemEnds(k, s)

(* A thread that can go on goes on.                                          *)
Fairness ==
    /\ \A r \in Run : WF_vars(WorkerStep(r))
    /\ \A k \in Key : WF_vars(ItemStops(k))

Spec == Init /\ [][Next]_vars /\ Fairness

---------------------------------------------------------------------------
Status == [status : ActiveRun \cup Appendable \cup Terminal, stop : BOOLEAN]
Row == [status : {"pending", "running", "stopped"} \cup Terminal, prompt : Prompt,
        pos : Nat \ {0}, marks : SUBSET {"unchecked", "unseen", "edited", "reopened"}]

(* The tables refer to rows that exist: a shown run to a run, an item to its *)
(* run, a worker's rows to its own run.                                      *)
TypeOK ==
    /\ DOMAIN tab \subseteq Tab
    /\ \A t \in DOMAIN tab : tab[t] \in DOMAIN run \cup {NoRun}
    /\ DOMAIN run \subseteq Run /\ \A r \in DOMAIN run : run[r] \in Status
    /\ \A k \in DOMAIN item : k[1] \in DOMAIN run /\ item[k] \in Row
    /\ \A k \in DOMAIN exec : exec[k] \in Prompt
    /\ \A r \in Run : \A k \in DOMAIN Saw(r) : k[1] = r

(* However requests of several clients overlap, there is one active tab, it  *)
(* exists, the default tab stays, and no run is shown on two tabs            *)
(* (queue_tabs.rs: four transactions that each keep a part of this); and a   *)
(* run leaves the board only with its rows, or when its tab is deleted under *)
(* it: runs that nobody can see would go on working.                         *)
Consistent ==
    /\ DefaultTab \in DOMAIN tab /\ active \in DOMAIN tab
    /\ \A t, u \in DOMAIN tab : tab[t] = tab[u] /\ tab[t] # NoRun => t = u
TabsShowTheirRuns ==
    /\ []Consistent
    /\ [][\A r \in DOMAIN run : Shown(r) /\ r \in DOMAIN run' /\ ~Shown(r)'
             => \E t \in DOMAIN tab : tab[t] = r /\ t \notin DOMAIN tab']_vars

(* "A `queue run` request that reuses an unfinished slug ... is rejected     *)
(* before a new run is persisted" (README.md:105): an unfinished task is in  *)
(* two shown runs only if one of its rows was appended, which checks no      *)
(* other run, or stored after somebody changed the board that was checked,   *)
(* or had succeeded and was written back to stopped by a stopping worker.    *)
UnfinishedTaskInOneRun ==
    \A k, l \in DOMAIN item :
        /\ k[1] # l[1] /\ SameTask(k[2], l[2]) /\ Shown(k[1]) /\ Shown(l[1])
        /\ "success" \notin {item[k].status, item[l].status}
        => {"unchecked", "reopened"} \cap (item[k].marks \cup item[l].marks) # {}

(* An item runs the prompt its row shows, unless the edit was decided before *)
(* the item was started and written after (apply_queue_update_item), or the  *)
(* worker had loaded the row before the edit.                                *)
StartedItemKeepsItsPlan ==
    \A k \in DOMAIN exec \cap DOMAIN item :
        exec[k] # item[k].prompt => "edited" \in item[k].marks

(* A successful run that no worker looks after has no unfinished item but    *)
(* one that was stored between the worker's last look at the rows and its    *)
(* end: the request that stored it started no other worker.                  *)
SuccessMeansAllDone ==
    \A k \in DOMAIN item :
        /\ run[k[1]].status = "success" /\ worker[k[1]].at = "off"
        /\ item[k].status # "success"
        => "unseen" \in item[k].marks

(* Rows may be deleted under the workers of a run: these then end, unless a  *)
(* run of that id is stored again.                                           *)
ClearedRunsWindDown ==
    \A r \in Run :
        r \notin DOMAIN run
        ~> \/ r \in DOMAIN run
           \/ worker[r].at = "off" /\ \A k \in DOMAIN exec : k[1] # r
=============================================================================
