----------------------------- MODULE Dashboard -----------------------------
(* The dashboard of one queue tab: the daemon's handlers of the queue        *)
(* requests (webapp.rs), the cache of collected states they invalidate       *)
(* (snapshot.rs), and one open page (queue.js, events.js, init_parse.js),    *)
(* which polls /api/state, listens to /api/events, and shows the outcome of  *)
(* a click before the daemon has answered.                                   *)
(*                                                                           *)
(* A collected state carries the time at which the node was sampled, so no   *)
(* two collections look alike to the page; it renders one unless it is the   *)
(* very one it has rendered last. The page gets a state and applies it in    *)
(* one step; that it may get an older one after a newer comes from the cache *)
(* and the collections that are not stored in it.                            *)
EXTENDS Naturals, FiniteSets, FiniteSetsExt, Functions, TLC

CONSTANTS Tasks,       \* the tasks the operator adds, each one once
          Opened,      \* what the tab may hold when the page is opened
          MaxRuns,     \* bound: run ids the page makes up
          MaxClicks,   \* bound: clicks other than adding a task
          MaxLosses    \* bound: requests and answers that get lost

VARIABLES queue,       \* the run the tab shows, its status and its rows
          gathering,   \* DASHBOARD_STATE_REFRESHING, and what has been collected
          cache,       \* DASHBOARD_STATE_CACHE, and whether the page rendered it last
          page,        \* queueRun and queueItems
          drafts,      \* localStorage: the drafts of the tab
          hidden,      \* removal tombstones, by run and item
          request,     \* the mutation the page waits for
          made,        \* tasks added so far
          runs, clicks, losses

server == <<queue, gathering, cache>>
browser == <<page, drafts, hidden>>
spent == <<made, runs, clicks, losses>>
vars == <<server, browser, request, spent>>

Nothing == [run |-> 0, status |-> "none", items |-> << >>]
Resting == [on |-> FALSE, queue |-> Nothing]
None == [on |-> FALSE, queue |-> Nothing, rendered |-> FALSE]
RunStatus == {"running", "stopping", "stopped", "success"}
Live == {"starting", "running", "stopping"}
Appendable == {"running", "starting", "stopped"}

Queues == {Nothing} \cup [run : 1 .. MaxRuns, status : RunStatus,
                          items : UNION {[S -> {"pending", "running", "success"}] : S \in SUBSET Tasks}]

Draft(S) == [run |-> 0, status |-> "none", items |-> [t \in S |-> "draft"], named |-> 0]
Blank == Draft({})
NoRequest == [op |-> "none", run |-> 0, tasks |-> {}, answer |-> "none", undo |-> Blank]

TypeOK ==
    /\ queue \in Queues
    /\ gathering \in [on : BOOLEAN, queue : Queues]
    /\ cache \in [on : BOOLEAN, queue : Queues, rendered : BOOLEAN]
    /\ page.run \in 0 .. MaxRuns /\ page.named \in 0 .. MaxRuns
    /\ page.status \in RunStatus \cup {"none", "starting"}
    /\ DOMAIN page.items \subseteq made /\ drafts \subseteq made
    /\ Range(page.items) \subseteq {"draft", "pending", "running", "success"}
    /\ hidden \subseteq (1 .. MaxRuns) \X Tasks
    /\ request.op = "none" => request = NoRequest

---------------------------------------------------------------------------
(* The daemon.                                                               *)

(* The refresher's turn, the refresh a mutation asks for, or that of a       *)
(* request that finds no cache: only one collects at a time.                 *)
RefreshReads ==
    /\ ~gathering.on
    /\ gathering' = [on |-> TRUE, queue |-> queue]
    /\ UNCHANGED <<queue, cache, browser, request, spent>>

(* What has been collected is stored, though the cache may have been         *)
(* invalidated since.                                                        *)
RefreshStores ==
    /\ gathering.on
    /\ cache' = [on |-> TRUE, queue |-> gathering.queue, rendered |-> FALSE]
    /\ gathering' = Resting
    /\ UNCHANGED <<queue, browser, request, spent>>

Rows(S) == [t \in S |-> "pending"]
Held(S) == IF S = {} THEN Nothing ELSE [queue EXCEPT !.items = Restrict(@, S)]
RunKnown == queue.run # 0 /\ queue.run = request.run

(* What the handler of the request makes of the queue; a run submitted for   *)
(* the tab replaces the one the tab has shown.                               *)
Outcome ==
    CASE request.op = "run"    -> [run |-> request.run, status |-> "running", items |-> Rows(request.tasks)]
      [] request.op = "append" -> [queue EXCEPT !.items = Rows(request.tasks) @@ @]
      [] request.op = "remove" -> IF RunKnown THEN Held(DOMAIN queue.items \ request.tasks) ELSE queue
      [] request.op = "clear"  -> IF RunKnown THEN Nothing ELSE queue
      [] request.op = "stop"   -> IF RunKnown /\ queue.status = "running"
                                  THEN [queue EXCEPT !.status = "stopping"] ELSE queue
      [] request.op = "continue" -> [queue EXCEPT !.status = "running"]

(* The conditions of the handlers.                                           *)
Accepts ==
    /\ request.op = "append" => RunKnown /\ queue.status \in Appendable
    /\ request.op = "continue" => RunKnown /\ queue.status = "stopped"
    /\ request.op = "remove" /\ RunKnown /\ queue.status \in Live =>
           \A t \in request.tasks \cap DOMAIN queue.items : queue.items[t] # "running"

(* A mutation that succeeds drops the cache.                                 *)
Serve ==
    /\ request.op # "none" /\ request.answer = "none"
    /\ IF Accepts
       THEN /\ queue' = Outcome
            /\ cache' = None
            /\ request' = [request EXCEPT !.answer = "ok"]
       ELSE /\ request' = [request EXCEPT !.answer = "refused"]
            /\ UNCHANGED <<queue, cache>>
    /\ UNCHANGED <<gathering, browser, spent>>

(* run_web_queue and its items, one after the other.                         *)
QueueWorks ==
    /\ \/ /\ queue.status = "running"
          /\ \E t \in DOMAIN queue.items :
                /\ queue.items[t] = "pending"
                /\ \A u \in DOMAIN queue.items : queue.items[u] # "running"
                /\ queue' = [queue EXCEPT !.items[t] = "running"]
       \/ \E t \in DOMAIN queue.items :
             /\ queue.items[t] = "running"
             /\ LET items == [queue.items EXCEPT ![t] = "success"] IN
                queue' = [queue EXCEPT !.items = items,
                                       !.status = IF Range(items) = {"success"} THEN "success" ELSE @]
       \/ /\ queue.status = "stopping" /\ "running" \notin Range(queue.items)
          /\ queue' = [queue EXCEPT !.status = "stopped"]
    /\ UNCHANGED <<gathering, cache, browser, request, spent>>

---------------------------------------------------------------------------
(* The page and what it is told.                                             *)

DraftsOf(items) == {t \in DOMAIN items : items[t] = "draft"}

Visible(q) == {t \in DOMAIN q.items : <<q.run, t>> \notin hidden}
Shown(q) == [run |-> q.run, status |-> q.status, items |-> Restrict(q.items, Visible(q)),
             named |-> IF Visible(q) = {} THEN 0 ELSE q.run]

(* applySnapshot, syncQueueFromSnapshot: a tab with a run shows the run and  *)
(* loses its drafts, another one shows its drafts.                           *)
Renders(q) ==
    /\ page' = IF q.run # 0 THEN Shown(q) ELSE Draft(drafts)
    /\ drafts' = IF q.run # 0 THEN {} ELSE drafts
    /\ UNCHANGED <<queue, gathering, hidden, request, spent>>

(* Mutant: a state of the run on display counts as rendered.                 *)
NewToPageByRun == ~cache.rendered /\ cache.queue.run # page.run

(* snapshotRenderKey: another state than the one rendered last.              *)
NewToPage == ~cache.rendered

(* loadSnapshot, every two seconds and after an answer, and the events: the  *)
(* cache, or without one and with a refresh under way a collection of its    *)
(* own that is not stored (cached_dashboard_state_cache).                    *)
ShowsCache ==
    /\ cache.on /\ NewToPage
    /\ Renders(cache.queue)
    /\ cache' = [cache EXCEPT !.rendered = TRUE]
ShowsQueue ==
    /\ ~cache.on /\ gathering.on
    /\ Renders(queue)
    /\ UNCHANGED cache

(* pruneQueueRemovalTombstones                                               *)
TombstoneExpires(k) ==
    /\ hidden' = hidden \ {k}
    /\ UNCHANGED <<server, page, drafts, request, spent>>

---------------------------------------------------------------------------
(* Clicks. The operator waits for the answer to the last one.                *)

HasRun == page.run # 0 \/ \E s \in Range(page.items) : s # "draft"
RunId == IF page.run # 0 THEN page.run ELSE page.named
Shows(run, status, items) == page' = [page EXCEPT !.run = run, !.status = status, !.items = items]
Sends(op, r, S) ==
    request' = [op |-> op, run |-> r, tasks |-> S, answer |-> "none",
                undo |-> IF op = "continue" THEN page ELSE Blank]
Click ==
    /\ request = NoRequest /\ clicks < MaxClicks
    /\ clicks' = clicks + 1
    /\ UNCHANGED <<server, made, losses>>

(* addQueueTask: appended to a run that takes items, else kept as a draft.   *)
AddTask(t) ==
    /\ request = NoRequest /\ t \notin made
    /\ made' = made \cup {t}
    /\ IF HasRun /\ page.status \in Appendable
       THEN Sends("append", page.run, {t}) /\ UNCHANGED <<page, drafts>>
       ELSE LET items == [u \in {t} |-> "draft"] @@ page.items IN
            /\ Shows(page.run, page.status, items)
            /\ drafts' = DraftsOf(items)
            /\ UNCHANGED request
    /\ UNCHANGED <<server, hidden, runs, clicks, losses>>

(* runQueue: the run id in the items' slugs, or a new one.                   *)
RunQueue ==
    /\ page.status \notin Live \cup {"stopped"} /\ DOMAIN page.items # {}
    /\ page.named = 0 => runs < MaxRuns
    /\ LET r == IF page.named # 0 THEN page.named ELSE runs + 1 IN
       /\ page' = [page EXCEPT !.run = r, !.status = "starting", !.named = r]
       /\ runs' = IF page.named # 0 THEN runs ELSE runs + 1
       /\ Sends("run", r, DOMAIN page.items)
    /\ drafts' = DraftsOf(page.items)
    /\ Click /\ UNCHANGED hidden

(* queueItemRemovable, removeQueueItem.                                      *)
RemoveItem(t) ==
    /\ t \in DOMAIN page.items /\ <<page.run, t>> \notin hidden
    /\ page.status \in Live => page.items[t] \in {"pending", "success"}
    /\ LET items == Restrict(page.items, DOMAIN page.items \ {t}) IN
       /\ Shows(page.run, page.status, items)
       /\ drafts' = DraftsOf(items)
    /\ IF page.items[t] = "draft" THEN UNCHANGED <<hidden, request>>
       ELSE hidden' = hidden \cup {<<RunId, t>>} /\ Sends("remove", RunId, {t})
    /\ Click /\ UNCHANGED runs

Cleared == /\ page' = Blank
           /\ drafts' = {}
ClearQueue ==
    /\ DOMAIN page.items # {} \/ HasRun
    /\ IF HasRun THEN Sends("clear", RunId, {}) /\ UNCHANGED <<page, drafts>>
       ELSE Cleared /\ UNCHANGED request
    /\ Click /\ UNCHANGED <<hidden, runs>>

StopQueue ==
    /\ HasRun /\ page.status \in Live
    /\ Sends("stop", RunId, {})
    /\ Click /\ UNCHANGED <<browser, runs>>

(* continueQueue: the page remembers what it showed to go back to it.        *)
ContinueQueue ==
    /\ HasRun /\ page.status = "stopped"
    /\ Sends("continue", RunId, {})
    /\ Shows(RunId, "starting", page.items)
    /\ Click /\ UNCHANGED <<drafts, hidden, runs>>

(* What the page does with an answer; jsonRequest makes a lost one a         *)
(* refusal.                                                                  *)
Hears(ok) ==
    LET op == request.op
        tombs == {<<request.run, t>> : t \in request.tasks}
    IN  /\ IF op = "run" /\ ~ok
           THEN /\ Shows(0, "none", page.items)
                /\ drafts' = DraftsOf(page.items)
           ELSE IF op = "clear" /\ ok THEN Cleared
           ELSE IF op = "continue" /\ ~ok
           THEN /\ page' = request.undo
                /\ drafts' = DraftsOf(request.undo.items)
           ELSE UNCHANGED <<page, drafts>>
        /\ hidden' = IF op # "remove" THEN hidden ELSE IF ok THEN hidden \cup tombs ELSE hidden \ tombs

Receives ==
    /\ request.answer # "none"
    /\ Hears(request.answer = "ok")
    /\ request' = NoRequest
    /\ UNCHANGED <<server, spent>>

(* The connection breaks, before the request is served or after it.          *)
Loses ==
    /\ losses < MaxLosses /\ losses' = losses + 1
    /\ request # NoRequest /\ request' = NoRequest
    /\ Hears(FALSE)
    /\ UNCHANGED <<server, made, runs, clicks>>

---------------------------------------------------------------------------
Init ==
    /\ queue \in Opened /\ gathering = Resting /\ cache = None
    /\ page = Blank /\ drafts = {} /\ hidden = {}
    /\ request = NoRequest
    /\ made = DOMAIN queue.items /\ runs = queue.run /\ clicks = 0 /\ losses = 0

(* refresh_dashboard_state_cache                                             *)
Daemon == RefreshReads \/ RefreshStores \/ Serve \/ QueueWorks
(* render and its callers                                                    *)
Page == ShowsCache \/ ShowsQueue \/ Receives \/ \E k \in hidden : TombstoneExpires(k)
Operator ==
    \/ \E t \in Tasks : AddTask(t) \/ RemoveItem(t)
    \/ RunQueue \/ ClearQueue \/ StopQueue \/ ContinueQueue

Next == Daemon \/ Page \/ Operator \/ Loses

Spec ==
    /\ Init /\ [][Next]_vars
    /\ WF_vars(RefreshReads) /\ WF_vars(RefreshStores)
    /\ WF_vars(Serve) /\ WF_vars(QueueWorks)
    /\ WF_vars(ShowsCache) /\ WF_vars(ShowsQueue) /\ WF_vars(Receives)
    /\ \A k \in (1 .. MaxRuns) \X Tasks : WF_vars(k \in hidden /\ TombstoneExpires(k))

---------------------------------------------------------------------------
(* The page comes to show what the tab holds, the run and its rows or the    *)
(* drafts, and keeps showing it once nothing changes: stale collections,     *)
(* reordered deliveries, tombstones, optimistic rows, roll-backs and lost    *)
(* answers leave no trace (applySnapshot, refresh_dashboard_state_cache).    *)
Synced ==
    IF queue.run # 0
    THEN page.run = queue.run /\ page.status = queue.status /\ page.items = queue.items
    ELSE page.run = 0 /\ page.items = [t \in drafts |-> "draft"]
ViewCatchesUp == <>[]Synced
=============================================================================
