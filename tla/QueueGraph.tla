---------------------------- MODULE QueueGraph ----------------------------
(* The dependencies of a run's items: how a request's are resolved and checked
   (webapp/queue_graph.rs), how the dashboard makes them of its waves
   (webapp_assets/app/queue.js), and how a worker waits on them.

   A handler normalises the rows it has read together with its request, and stores
   only the request's rows; requests are served beside each other.  Each item here
   succeeds; failures and recoveries are the module QueueExecution's. *)
EXTENDS Naturals, FiniteSets, FiniteSetsExt, Functions

CONSTANTS Keys,      \* the items' ids
          Slugs,       \* an item's slug, which may be another item's id
          Strays,      \* references that name no item
          Modes,       \* the execution modes of the run: graph, sequence
          Serving,     \* the requests that can be served at once
          MaxEdits     \* bound: requests

VARIABLES
  mode,
  graph,      \* the stored rows: an id's dependencies
  finished,   \* items a worker has started, and finished
  handling,   \* of a request: "free", or what it has read and will store
  overlapped, \* a request has been stored over rows it had not read
  edits

vars == <<mode, graph, finished, handling, overlapped, edits>>

Free == [kind |-> "free"]
References == Keys \cup {Slugs[i] : i \in Keys} \cup Strays

----------------------------------------------------------------------------
\* The item a reference names: an id before a slug.
Resolved(items, ref) == IF ref \in items THEN {ref} ELSE {i \in items : Slugs[i] = ref}

\* References that name nothing, the item itself, or an item twice are dropped.
Normalized(asked) == [i \in DOMAIN asked |->
                        (UNION {Resolved(DOMAIN asked, ref) : ref \in asked[i]}) \ {i}]

(* Mutant: an item counts as done as soon as the search enters it. *)
HasCycleEarly(deps) ==
  LET visit[i \in Keys, path \in SUBSET Keys, done \in SUBSET Keys] ==
        IF i \in done THEN [cycle |-> FALSE, done |-> done]
        ELSE IF i \in path THEN [cycle |-> TRUE, done |-> done]
        ELSE FoldSet(LAMBDA d, r : IF r.cycle THEN r ELSE visit[d, path \cup {i}, r.done],
                     [cycle |-> FALSE, done |-> done \cup {i}],
                     IF i \in DOMAIN deps THEN deps[i] ELSE {})
  IN FoldSet(LAMBDA i, r : IF r.cycle THEN r ELSE visit[i, {}, r.done],
             [cycle |-> FALSE, done |-> {}], DOMAIN deps).cycle

\* A depth-first search that keeps its path, and the items it is done with.
HasCycle(deps) ==
  LET visit[i \in Keys, path \in SUBSET Keys, done \in SUBSET Keys] ==
        IF i \in path THEN [cycle |-> TRUE, done |-> done]
        ELSE IF i \in done THEN [cycle |-> FALSE, done |-> done]
        ELSE LET below == FoldSet(LAMBDA d, r : IF r.cycle THEN r ELSE visit[d, path \cup {i}, r.done],
                                  [cycle |-> FALSE, done |-> done],
                                  IF i \in DOMAIN deps THEN deps[i] ELSE {})
             IN [below EXCEPT !.done = @ \cup {i}]
  IN FoldSet(LAMBDA i, r : IF r.cycle THEN r ELSE visit[i, {}, r.done],
             [cycle |-> FALSE, done |-> {}], DOMAIN deps).cycle

\* The wave an item is shown in: how long the longest chain below it is, which the
\* search cuts where it meets its own path.
Wave(deps) ==
  LET depth[i \in DOMAIN deps, path \in SUBSET DOMAIN deps] ==
        IF i \in path THEN 0
        ELSE Max({0} \cup {depth[d, path \cup {i}] + 1 : d \in deps[i] \cap DOMAIN deps})
  IN [i \in DOMAIN deps |-> depth[i, {}]]

\* The rows a request leads to, or none when it is refused.
Planned(asked) ==
  IF mode = "sequence" THEN {[i \in DOMAIN asked |-> {}]}
  ELSE LET deps == Normalized(asked) IN IF HasCycle(deps) THEN {} ELSE {deps}

----------------------------------------------------------------------------
Over(f, g) == [i \in DOMAIN f \cup DOMAIN g |-> IF i \in DOMAIN f THEN f[i] ELSE g[i]]

DependenciesSatisfied(i) == \A d \in graph[i] : d \in DOMAIN graph => d \in finished

\* A request whose handler has read the rows: those it has accepted and will store.
Reads(c, kind, ids, asked) ==
  /\ handling[c] = Free /\ edits < MaxEdits
  /\ edits' = edits + 1
  /\ \E deps \in Planned(Over(asked, graph)) :
       handling' = [handling EXCEPT ![c] = [kind |-> kind, read |-> graph, rows |-> Restrict(deps, ids)]]
  /\ UNCHANGED <<mode, graph, finished, overlapped>>

\* Items get added; the ids of a graph may not repeat.
Append(c) ==
  \E i \in Keys \ DOMAIN graph, deps \in SUBSET References :
    Reads(c, "append", {i}, [k \in {i} |-> deps])

\* Pending items get other dependencies.
Update(c) ==
  \E ids \in (SUBSET (DOMAIN graph \ finished)) \ {{}} :
    \E asked \in [ids -> SUBSET (DOMAIN graph \cup Strays)] : Reads(c, "update", ids, asked)

\* The dashboard puts an item into another wave, or a new one, and sends all items
\* that can be edited with the dependencies of their waves: the items of the wave
\* before that gate, which are those with dependents.
SyncedWaves(place) ==
  [i \in DOMAIN graph |->
     IF i \in finished THEN graph[i]
     ELSE {g \in DOMAIN graph : place[g] + 1 = place[i] /\ \E d \in DOMAIN graph : g \in graph[d]}]

MoveToWave(c) ==
  /\ mode = "graph"
  /\ \E i \in DOMAIN graph \ finished :
       LET shown == Wave(graph)
       IN \E w \in 0..(Max({shown[k] : k \in DOMAIN graph}) + 1) \ {shown[i]} :
            /\ \A k \in finished : shown[k] # w
            /\ Reads(c, "update", DOMAIN graph \ finished, SyncedWaves([shown EXCEPT ![i] = w]))

\* An insert fails on a row that is there; an update passes over one that is gone.
Store(c) ==
  LET h == handling[c]
  IN /\ h # Free
     /\ LET fits == h.kind = "update" \/ DOMAIN h.rows \cap DOMAIN graph = {}
            rows == IF h.kind = "update" THEN Restrict(h.rows, DOMAIN h.rows \cap DOMAIN graph) ELSE h.rows
        IN IF fits THEN /\ graph' = Over(rows, graph)
                        /\ overlapped' = (overlapped \/ graph # h.read)
                   ELSE UNCHANGED <<graph, overlapped>>
     /\ handling' = [handling EXCEPT ![c] = Free]
     /\ UNCHANGED <<mode, finished, edits>>

(* Mutant: what is known of a finished item stays when its row goes. *)
RemoveRow(i) ==
  /\ i \in DOMAIN graph /\ edits < MaxEdits
  /\ graph' = [k \in DOMAIN graph \ {i} |-> graph[k] \ {i}]
  /\ edits' = edits + 1
  /\ UNCHANGED <<mode, finished, handling, overlapped>>

\* The row goes, and the dependencies on it.
Remove(i) ==
  /\ i \in DOMAIN graph /\ edits < MaxEdits
  /\ graph' = [k \in DOMAIN graph \ {i} |-> graph[k] \ {i}]
  /\ finished' = finished \ {i}
  /\ edits' = edits + 1
  /\ UNCHANGED <<mode, handling, overlapped>>

\* A worker takes an item whose dependencies have all succeeded.
Work(i) ==
  /\ i \in DOMAIN graph \ finished /\ DependenciesSatisfied(i)
  /\ finished' = finished \cup {i}
  /\ UNCHANGED <<mode, graph, handling, overlapped, edits>>

Init ==
  /\ mode \in Modes
  /\ \E ids \in (SUBSET Keys) \ {{}} : \E asked \in [ids -> SUBSET References] : graph \in Planned(asked)
  /\ finished = {} /\ handling = [c \in Serving |-> Free]
  /\ overlapped = FALSE /\ edits = 0

Serve(c) == Append(c) \/ Update(c) \/ MoveToWave(c) \/ Store(c)

Next == (\E c \in Serving : Serve(c)) \/ (\E i \in Keys : Remove(i) \/ Work(i))

Spec == Init /\ [][Next]_vars

----------------------------------------------------------------------------
\* Of any items one waits for none of them.
Acyclic(deps) == \A items \in (SUBSET DOMAIN deps) \ {{}} : \E i \in items : deps[i] \cap items = {}

\* What the proofs assume of the bound.
Parameters == MaxEdits \in Nat

\* And what they take from the search: it finds a cycle where there is one, and nowhere else.
SearchFindsCycles ==
  \A ids \in SUBSET Keys : \A deps \in [ids -> SUBSET Keys] : HasCycle(deps) <=> ~Acyclic(deps)

TypeOK ==
  /\ mode \in Modes /\ overlapped \in BOOLEAN /\ edits \in 0..MaxEdits
  /\ DOMAIN graph \subseteq Keys /\ Range(graph) \subseteq SUBSET Keys
  /\ finished \subseteq DOMAIN graph

(* While items are unfinished, one of them is ready: whatever is submitted, added,
   moved, changed and removed, no items come to wait for each other.  Only requests
   that were checked beside each other, each against rows the other has changed
   since, may store a cycle. *)
SomeItemIsReady ==
  overlapped \/ DOMAIN graph \subseteq finished
    \/ \E i \in DOMAIN graph \ finished : DependenciesSatisfied(i)
=============================================================================
