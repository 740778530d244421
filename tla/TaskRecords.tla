---------------------------- MODULE TaskRecords ----------------------------
(* The task records of the state database: how they are numbered and stored
   (state.rs, state/db.rs), the commands that write them (lib.rs) and the sync
   that imports a remote host's records (app/remote_task_records.rs).

   Every process that opens the database brings it up to date first, statement
   by statement and beside other processes: the repair of legacy numbers, the
   scrub, the seed of the counters and the backfill of missing numbers.  After
   that it runs commands.  Three of them read a record in one connection and
   store it in another: the status update, the remote open and the sync.

   A record is its number, its status, its repository and its times; titles,
   descriptions, agents and metadata are data no property tells apart. *)
EXTENDS Integers, FiniteSets, FiniteSetsExt

CONSTANTS Ids,        \* record ids; "task/<slug>" is one id for all repositories
          Adhoc,      \* the ids written with source "agent" or "codex-session"
          RemoteIds,  \* the ids the remote host has tasks of
          Repos,      \* repository roots of this host
          Local,      \* the repository remote records are imported into
          Procs,      \* processes that open the database
          Legacy,     \* the rows an older version left behind
          MaxOps,     \* bound: commands and remote events
          MaxFaults,  \* bound: remote commands and stores that fail
          MaxTime     \* bound: seconds that pass

VARIABLES
  rows,          \* tasks: one row per id, Gone when there is none
  counter,       \* task_sequence_counters: the next number of a repository, 0: no row
  repairs,       \* how often task_sequence_task_sources_only_v1 ran; it is recorded as
                 \* applied when this is not 0
  remoteTasks,   \* the records the remote host would export
  pc,            \* what a process does next
  seeds,         \* the counters a process has read from the rows
  todo,          \* what a process still has to number or to import: ids, with a repository
  draft,         \* the record a process is about to store, and its id
  taken,         \* the number a process has allocated and not stored yet
  export,        \* the remote records a process has received
  clock, ops, faults

vars == <<rows, counter, repairs, remoteTasks, pc, seeds, todo, draft, taken, export,
          clock, ops, faults>>
work == <<seeds, todo, draft, taken, export>>

NoRepo == "none"
Gone == [source |-> "none", seq |-> 0, status |-> "absent", repo |-> NoRepo,
         created |-> 0, updated |-> 0]
NoExport == [i \in RemoteIds |-> Gone]
NoDraft == [id |-> CHOOSE i \in Ids : TRUE, row |-> Gone]
Present(row) == row.status # "absent"
Terminal(row) == row.status = "closed"

UsesSequence(source) == source # "agent"

\* The tasks of repository r that take part in its numbering.
Numbered(r) == {i \in Ids : rows[i].repo = r /\ UsesSequence(rows[i].source)}
MaxSequence(r) == Max({0} \cup {rows[i].seq : i \in Numbered(r)})

\* The number the counter of r hands out; a missing counter starts after the rows.
Allocate(r) == IF counter[r] = 0 THEN MaxSequence(r) + 1 ELSE counter[r]

Advanced(r, number) == [counter EXCEPT ![r] = Max({@, number + 1})]

\* Another row of repository r holds the number: the unique index refuses it.
Clash(i, r, number) ==
  /\ number # 0 /\ r # NoRepo
  /\ \E j \in Ids \ {i} : rows[j].repo = r /\ rows[j].seq = number

Coalesce(r, old) == IF r = NoRepo THEN old ELSE r

\* The number a record is stored with.
SequenceFor(i, record) ==
  LET repo  == Coalesce(record.repo, rows[i].repo)
      moved == rows[i].repo # NoRepo /\ repo # rows[i].repo
  IN IF ~UsesSequence(record.source) THEN 0
     ELSE IF ~moved /\ rows[i].seq # 0 THEN rows[i].seq
     ELSE IF record.seq # 0 THEN record.seq
     ELSE IF repo # NoRepo THEN Allocate(repo)
     ELSE 0

\* One transaction; a number another row holds makes it fail and changes nothing.
Upsert(i, record) ==
  LET repo    == Coalesce(record.repo, rows[i].repo)
      number  == SequenceFor(i, record)
      created == IF Present(rows[i]) THEN rows[i].created ELSE record.created
  IN IF Clash(i, repo, number) THEN UNCHANGED <<rows, counter>>
     ELSE /\ rows' = [rows EXCEPT ![i] = [record EXCEPT !.seq = number, !.repo = repo,
                                                        !.created = created]]
          /\ counter' = IF number # 0 /\ repo # NoRepo THEN Advanced(repo, number)
                        ELSE counter

NewRecord(i, repo, seq) ==
  [source |-> IF i \in Adhoc THEN "agent" ELSE "task-flow", seq |-> seq,
   status |-> "open", repo |-> repo, created |-> clock, updated |-> clock]

Init ==
  /\ rows = Legacy
  /\ counter = [r \in Repos |-> Max({0} \cup {IF rows[i].repo = r /\ rows[i].seq # 0
                                                THEN rows[i].seq + 1 ELSE 0 : i \in Ids})]
  /\ repairs = 0
  /\ remoteTasks = NoExport
  /\ pc = [p \in Procs |-> "opening"]
  /\ seeds = [p \in Procs |-> [r \in Repos |-> 0]]
  /\ todo = [p \in Procs |-> {}]
  /\ draft = [p \in Procs |-> NoDraft]
  /\ taken = [p \in Procs |-> 0]
  /\ export = [p \in Procs |-> NoExport]
  /\ clock = 1 /\ ops = 0 /\ faults = 0

Goto(p, next) == pc' = [pc EXCEPT ![p] = next]
Held == <<remoteTasks, clock, ops, faults>>
Counted == ops < MaxOps /\ ops' = ops + 1

----------------------------------------------------------------------------
(* Opening the database *)

\* Whether the migration has run is asked before its transaction begins.
ChecksMigration(p) ==
  /\ pc[p] = "opening"
  /\ Goto(p, IF repairs > 0 THEN "scrub" ELSE "repair")
  /\ UNCHANGED <<rows, counter, repairs, work, Held>>

Scrubbed == [i \in Ids |-> IF UsesSequence(rows[i].source) THEN rows[i]
                           ELSE [rows[i] EXCEPT !.seq = 0]]

\* The repair sets every counter back to the number after its largest task.
Repairs(p) ==
  /\ pc[p] = "repair"
  /\ rows' = Scrubbed
  /\ counter' = [r \in Repos |-> IF counter[r] = 0 THEN 0 ELSE MaxSequence(r) + 1]
  /\ repairs' = repairs + 1
  /\ Goto(p, "scrub")
  /\ UNCHANGED <<work, Held>>

Scrubs(p) ==
  /\ pc[p] = "scrub"
  /\ rows' = Scrubbed
  /\ Goto(p, "seed")
  /\ UNCHANGED <<counter, repairs, work, Held>>

SeedReads(p) ==
  /\ pc[p] = "seed"
  /\ seeds' = [seeds EXCEPT ![p] = [r \in Repos |->
                 IF Numbered(r) = {} THEN 0 ELSE MaxSequence(r) + 1]]
  /\ Goto(p, "seeding")
  /\ UNCHANGED <<rows, counter, repairs, todo, draft, taken, export, Held>>

(* Mutant: the seed overwrites a counter that is already ahead of it. *)
SeedStoresStale(p) ==
  /\ pc[p] = "seeding"
  /\ counter' = [r \in Repos |-> IF seeds[p][r] = 0 THEN counter[r] ELSE seeds[p][r]]
  /\ seeds' = [seeds EXCEPT ![p] = [r \in Repos |-> 0]]
  /\ Goto(p, "list")
  /\ UNCHANGED <<rows, repairs, todo, draft, taken, export, Held>>

SeedStores(p) ==
  /\ pc[p] = "seeding"
  /\ counter' = [r \in Repos |-> Max({counter[r], seeds[p][r]})]
  /\ seeds' = [seeds EXCEPT ![p] = [r \in Repos |-> 0]]
  /\ Goto(p, "list")
  /\ UNCHANGED <<rows, repairs, todo, draft, taken, export, Held>>

FillLists(p) ==
  /\ pc[p] = "list"
  /\ todo' = [todo EXCEPT ![p] = {<<i, rows[i].repo>> : i \in
                 {j \in Ids : /\ rows[j].repo # NoRepo /\ rows[j].seq = 0
                              /\ UsesSequence(rows[j].source)}}]
  /\ Goto(p, "fill")
  /\ UNCHANGED <<rows, counter, repairs, seeds, draft, taken, export, Held>>

\* The number is allocated in one statement and stored in the next one.
FillTakes(p, i, r) ==
  /\ pc[p] = "fill" /\ <<i, r>> \in todo[p]
  /\ todo' = [todo EXCEPT ![p] = @ \ {<<i, r>>}]
  /\ taken' = [taken EXCEPT ![p] = Allocate(r)]
  /\ counter' = Advanced(r, Allocate(r))
  /\ draft' = [draft EXCEPT ![p].id = i]
  /\ Goto(p, "filling")
  /\ UNCHANGED <<rows, repairs, seeds, export, Held>>

\* A number another row took meanwhile is an error: opening the database fails.
FillStores(p) ==
  /\ pc[p] = "filling"
  /\ LET i    == draft[p].id
         open == Present(rows[i]) /\ rows[i].seq = 0
         fail == open /\ Clash(i, rows[i].repo, taken[p])
     IN /\ rows' = IF open /\ ~fail THEN [rows EXCEPT ![i].seq = taken[p]] ELSE rows
        /\ Goto(p, IF fail THEN "opening" ELSE "fill")
        /\ todo' = IF fail THEN [todo EXCEPT ![p] = {}] ELSE todo
  /\ taken' = [taken EXCEPT ![p] = 0]
  /\ draft' = [draft EXCEPT ![p] = NoDraft]
  /\ UNCHANGED <<counter, repairs, seeds, export, Held>>

Opened(p) ==
  /\ pc[p] = "fill" /\ todo[p] = {}
  /\ Goto(p, "ready")
  /\ UNCHANGED <<rows, counter, repairs, work, Held>>

----------------------------------------------------------------------------
(* Commands *)

\* record_task_open, record_agent_task and `task-record create`; the number is
\* one the environment names, or 0.
Open(p, i, repo, seq) ==
  /\ pc[p] = "ready" /\ Counted
  /\ Upsert(i, NewRecord(i, repo, seq))
  /\ UNCHANGED <<repairs, pc, work, remoteTasks, clock, faults>>

\* A pause, a closeout or an update reads the record ...
UpdateReads(p, i, status) ==
  /\ pc[p] = "ready" /\ Counted
  /\ Present(rows[i])
  /\ draft' = [draft EXCEPT ![p] =
                 [id |-> i, row |-> [rows[i] EXCEPT !.status = status, !.updated = clock]]]
  /\ Goto(p, "store")
  /\ UNCHANGED <<rows, counter, repairs, seeds, todo, taken, export, remoteTasks, clock, faults>>

\* ... and stores all of it in another connection.
UpdateStores(p) ==
  /\ pc[p] = "store"
  /\ Upsert(draft[p].id, draft[p].row)
  /\ draft' = [draft EXCEPT ![p] = NoDraft]
  /\ Goto(p, "ready")
  /\ UNCHANGED <<repairs, seeds, todo, taken, export, Held>>

Delete(p, i) ==
  /\ pc[p] = "ready" /\ Counted
  /\ Present(rows[i])
  /\ rows' = [rows EXCEPT ![i] = Gone]
  /\ UNCHANGED <<counter, repairs, pc, work, remoteTasks, clock, faults>>

\* A remote open stores the record, and stores it again with the launcher's name.
OpenRemote(p, i) ==
  /\ pc[p] = "ready" /\ Counted
  /\ Upsert(i, NewRecord(i, Local, 0))
  /\ draft' = [draft EXCEPT ![p] = [id |-> i, row |-> rows'[i]]]
  /\ Goto(p, IF rows'[i].seq = 0 THEN "ready" ELSE "marking")
  /\ UNCHANGED <<repairs, seeds, todo, taken, export, remoteTasks, clock, faults>>

RemoteOpened(i) == [Gone EXCEPT !.source = "task-flow", !.status = "open",
                                !.created = clock, !.updated = clock]

\* Then the launcher opens the task on the remote host, or fails to.
MarksRemote(p) ==
  /\ pc[p] = "marking"
  /\ Upsert(draft[p].id, draft[p].row)
  /\ \/ remoteTasks' = [remoteTasks EXCEPT ![draft[p].id] = RemoteOpened(draft[p].id)]
     \/ UNCHANGED remoteTasks
  /\ draft' = [draft EXCEPT ![p] = NoDraft]
  /\ Goto(p, "ready")
  /\ UNCHANGED <<repairs, seeds, todo, taken, export, clock, ops, faults>>

----------------------------------------------------------------------------
(* The sync of the remote host's records *)

\* The remote host opens and closes tasks of its own.
RemoteOpens(i) ==
  /\ Counted
  /\ remoteTasks[i].status # "open"
  /\ remoteTasks' = [remoteTasks EXCEPT ![i] = RemoteOpened(i)]
  /\ UNCHANGED <<rows, counter, repairs, pc, work, clock, faults>>

RemoteCloses(i) ==
  /\ remoteTasks[i].status = "open"
  /\ remoteTasks' = [remoteTasks EXCEPT ![i].status = "closed", ![i].updated = clock]
  /\ UNCHANGED <<rows, counter, repairs, pc, work, clock, ops, faults>>

SyncExports(p) ==
  /\ pc[p] = "ready"
  /\ \E i \in RemoteIds : Present(remoteTasks[i])
  /\ export' = [export EXCEPT ![p] = remoteTasks]
  /\ todo' = [todo EXCEPT ![p] = {<<i, Local>> : i \in {j \in RemoteIds : Present(remoteTasks[j])}}]
  /\ Goto(p, "sync")
  /\ UNCHANGED <<rows, counter, repairs, seeds, draft, taken, Held>>

(* Mutant: whatever was stored last wins, closed or not. *)
PreserveNewer(here, there) == Present(here) /\ here.updated > there.updated

\* A closed record keeps its status against an older end of the remote task, and
\* against a remote task that began before the record was closed.
PreserveStatus(here, there) ==
  /\ Present(here) /\ Terminal(here)
  /\ IF Terminal(there) THEN here.updated > there.updated
                        ELSE there.created <= here.updated

CanonicalRecord(here, there) ==
  LET kept == PreserveStatus(here, there)
  IN [source  |-> there.source,
      seq     |-> IF here.repo = Local THEN here.seq ELSE 0,
      status  |-> IF kept THEN here.status ELSE there.status,
      repo    |-> Local,
      created |-> IF Present(here) THEN here.created ELSE clock,
      updated |-> IF kept THEN here.updated ELSE there.updated]

SyncReads(p, i) ==
  /\ pc[p] = "sync" /\ <<i, Local>> \in todo[p]
  /\ todo' = [todo EXCEPT ![p] = @ \ {<<i, Local>>}]
  /\ draft' = [draft EXCEPT ![p] = [id |-> i, row |-> CanonicalRecord(rows[i], export[p][i])]]
  /\ Goto(p, "import")
  /\ UNCHANGED <<rows, counter, repairs, seeds, taken, export, Held>>

SyncStores(p) ==
  /\ pc[p] = "import"
  /\ Upsert(draft[p].id, draft[p].row)
  /\ draft' = [draft EXCEPT ![p] = NoDraft]
  /\ Goto(p, "sync")
  /\ UNCHANGED <<repairs, seeds, todo, taken, export, Held>>

SyncEnds(p) ==
  /\ pc[p] = "sync" /\ todo[p] = {}
  /\ export' = [export EXCEPT ![p] = NoExport]
  /\ Goto(p, "ready")
  /\ UNCHANGED <<rows, counter, repairs, seeds, todo, draft, taken, Held>>

\* The export times out, or the database stays locked through every retry: the
\* command ends, and what it had imported stays.
CommandFails(p) ==
  /\ pc[p] \in {"store", "marking", "sync", "import"}
  /\ faults < MaxFaults /\ faults' = faults + 1
  /\ todo' = [todo EXCEPT ![p] = {}]
  /\ draft' = [draft EXCEPT ![p] = NoDraft]
  /\ export' = [export EXCEPT ![p] = NoExport]
  /\ Goto(p, "ready")
  /\ UNCHANGED <<rows, counter, repairs, seeds, taken, remoteTasks, clock, ops>>

Tick == clock < MaxTime /\ clock' = clock + 1
        /\ UNCHANGED <<rows, counter, repairs, remoteTasks, pc, work, ops, faults>>

----------------------------------------------------------------------------
Opening(p) ==
  \/ ChecksMigration(p) \/ Repairs(p) \/ Scrubs(p) \/ SeedReads(p) \/ SeedStores(p)
  \/ FillLists(p) \/ FillStores(p) \/ Opened(p)
  \/ \E i \in Ids, r \in Repos : FillTakes(p, i, r)

Command(p) ==
  \/ UpdateStores(p) \/ MarksRemote(p) \/ CommandFails(p)
  \/ \E i \in Ids : Delete(p, i)
  \/ \E i \in RemoteIds : OpenRemote(p, i)
  \/ \E i \in Ids, st \in {"open", "closed"} : UpdateReads(p, i, st)
  \/ \E i \in Ids, r \in Repos, n \in {0, 1} : Open(p, i, r, n)

Sync(p) == SyncExports(p) \/ SyncStores(p) \/ SyncEnds(p) \/ \E i \in RemoteIds : SyncReads(p, i)

Next == \/ \E p \in Procs : Opening(p) \/ Command(p) \/ Sync(p)
        \/ \E i \in RemoteIds : RemoteOpens(i) \/ RemoteCloses(i)
        \/ Tick

\* A process that opens the database finishes, and the hosts that follow a remote
\* task keep syncing its records.
Fairness == \A p \in Procs : /\ WF_vars(Opening(p)) /\ WF_vars(Sync(p))
                            /\ WF_vars(UpdateStores(p) \/ MarksRemote(p))

Spec == Init /\ [][Next]_vars /\ Fairness

----------------------------------------------------------------------------
Row == [source : {"none", "task-flow", "agent"}, seq : Nat, status : {"absent", "open", "closed"},
        repo : Repos \cup {NoRepo}, created : 0..MaxTime, updated : 0..MaxTime]

\* What the parameters may be.
Parameters ==
  /\ IsFiniteSet(Ids) /\ Ids # {} /\ RemoteIds \subseteq Ids /\ IsFiniteSet(Procs)
  /\ Local \in Repos /\ NoRepo \notin Repos
  /\ Legacy \in [Ids -> Row]
  /\ {MaxOps, MaxFaults} \subseteq Nat /\ MaxTime \in Nat \ {0}

TypeOK ==
  /\ rows \in [Ids -> Row] /\ remoteTasks \in [RemoteIds -> Row]
  /\ counter \in [Repos -> Nat] /\ repairs \in 0..Cardinality(Procs)
  /\ pc \in [Procs -> {"opening", "repair", "scrub", "seed", "seeding", "list", "fill", "filling",
                       "ready", "store", "marking", "sync", "import"}]
  /\ draft \in [Procs -> [id : Ids, row : Row]] /\ taken \in [Procs -> Nat]
  /\ \A p \in Procs : todo[p] \subseteq Ids \X Repos
  /\ clock \in 1..MaxTime /\ ops \in 0..MaxOps /\ faults \in 0..MaxFaults

(* The number a repository's counter hands out next is larger than the number of
   every task it has, whoever opens, moves, numbers or renumbers tasks beside it:
   no open is ever refused for a number the database chose itself.  The repair of
   legacy numbers is asked for outside its transaction; when two processes both
   run it, the second one may set the counter back below a number the first one
   has handed out, and the statement does not hold. *)
CounterAhead ==
  repairs < 2 => \A i \in Ids : UsesSequence(rows[i].source) /\ rows[i].repo # NoRepo
                              => Allocate(rows[i].repo) > rows[i].seq

(* When a remote task stays closed, its record here is in the end closed and
   stays so, whatever stale status an update or an older sync stored over it. *)
ClosedThere(i) == remoteTasks[i].status = "closed"
ClosedHere(i) == rows[i].status = "closed"
ClosedArrives ==
  \A i \in RemoteIds : <>[]ClosedThere(i) => <>[]ClosedHere(i)
=============================================================================
