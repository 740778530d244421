-------------------------- MODULE QueueAdmission --------------------------
(* The admission of ready items (webapp/queue_admission.rs), as the run workers of
   one daemon use it: a worker loads its run, plans against a sample of the hosts
   and against what all runs have reserved, and spawns what it admitted.  The
   workers do this beside each other, without a lock.

   The steps a worker takes after the spawn are the module QueueExecution's; here
   an item runs, loses its worker or its agent, and ends. *)
EXTENDS Integers, Sequences, FiniteSets, Functions

CONSTANTS Order,       \* the items by position, a sequence
          RunOf,       \* the run of an item
          ClassOf,     \* its class: cheap, mid or heavy
          ScopeOf,     \* its scope: LocalScope, a launcher, or NoLauncher
          Sequential,  \* the runs that are not graphs
          Cpus,        \* logical CPUs of a scope's host
          Total,       \* memory of a scope's host, in GiB
          HostStates,  \* what a sample may find: up, load (per mille), available (GiB)
          SoftLimit, HardLimit, HeavyLimit,
          MaxCrashes   \* bound: restarts of the daemon

VARIABLES
  status,   \* pending, waiting, running or done
  active,   \* items whose worker is registered in this process
  alive,    \* items whose agent runs
  due,      \* items whose retry time has come
  host,     \* what a sample of a scope's host would find now
  pressed,  \* a local sample of the last hour shows pressure
  seen,     \* the ready items a run's worker has loaded
  plan,     \* the items it has admitted
  grown,    \* runs whose plan another worker has overtaken with spawns
  raced,    \* such a plan has been carried out, and its items still run
  crashes

vars == <<status, active, alive, due, host, pressed, seen, plan, grown, raced, crashes>>

Items == Range(Order)
Runs == {RunOf[i] : i \in Items}
LocalScope == "local"
NoLauncher == "no launcher"
Scopes == {ScopeOf[i] : i \in Items} \cup {LocalScope}
Idle == "idle"

Reservation(class) ==
  CASE class = "cheap" -> [tasks |-> 1, heavy |-> 0, cpu |-> 250, memory |-> 2]
    [] class = "mid"   -> [tasks |-> 1, heavy |-> 0, cpu |-> 500, memory |-> 8]
    [] class = "heavy" -> [tasks |-> 1, heavy |-> 1, cpu |-> 2000, memory |-> 32]

\* What a set of items reserves together.
Together(items) ==
  LET count(class) == Cardinality({i \in items : ClassOf[i] = class})
  IN [f \in {"tasks", "heavy", "cpu", "memory"} |->
        count("cheap") * Reservation("cheap")[f] + count("mid") * Reservation("mid")[f]
          + count("heavy") * Reservation("heavy")[f]]

\* A scope's items that hold a reservation: those with a session or a worker.
Holding(scope) == {i \in Items : ScopeOf[i] = scope /\ (status[i] = "running" \/ i \in active)}
Reserved(scope) == Together(Holding(scope))

\* An eighth of the memory, at least 2 and at most 8 GiB.
SafetyFloor(scope) == LET eighth == Total[scope] \div 8
                      IN IF eighth < 2 THEN 2 ELSE IF eighth > 8 THEN 8 ELSE eighth
LoadThreshold(scope, perCpu) == Cpus[scope] * perCpu

\* Whether a sample alone makes the history one of recent pressure.
Pressing(sample, r) ==
  \/ sample.load >= LoadThreshold(LocalScope, 900)
  \/ sample.available < SafetyFloor(LocalScope)
  \/ r.tasks >= HardLimit \/ r.heavy >= HeavyLimit

\* Item i waits, beside what its scope holds and the items admitted before it.  An
\* item that still holds a reservation from before asks for a second one.
Waits(scope, admitted, pressure, i) ==
  LET asked   == Together({i})
      held(f) == Reserved(scope)[f] + Together(admitted)[f] + asked[f]
  IN \/ held("tasks") > HardLimit
     \/ held("heavy") > HeavyLimit
     \/ host[scope].load >= LoadThreshold(scope, 1250)
     \/ held("memory") + SafetyFloor(scope) > Total[scope]
     \/ host[scope].available < asked["memory"] + SafetyFloor(scope)
     \/ (held("tasks") > SoftLimit /\ pressure)
     \/ held("cpu") > Cpus[scope] * 1000

(* Mutant: each item is compared with what was reserved before the pass. *)
SelectBlind(scope, ready, pressure) ==
  {i \in ready : ~Waits(scope, {}, pressure, i)}

\* The items before position n.
Before(n) == {Order[k] : k \in 1..(n - 1)}

\* The ready items are admitted in order, each one beside those before it.
Select(scope, ready, pressure) ==
  CHOOSE in \in SUBSET ready : \A n \in DOMAIN Order : Order[n] \in ready =>
    (Order[n] \in in <=> ~Waits(scope, in \cap Before(n), pressure, Order[n]))

Ready(i) ==
  /\ status[i] # "done" /\ i \notin active
  /\ status[i] = "running" => i \notin alive
  /\ i \in due

\* A run that is no graph offers its first unfinished item.
ReadyItems(run) ==
  LET open == {i \in Items : RunOf[i] = run /\ status[i] # "done"}
      first(i) == \E n \in DOMAIN Order : Order[n] = i /\ Before(n) \cap open = {}
  IN {i \in open : Ready(i) /\ (run \in Sequential => first(i))}

Init ==
  /\ status = [i \in Items |-> "pending"] /\ active = {} /\ alive = {} /\ due = Items
  /\ host \in [Scopes -> HostStates] /\ \A s \in Scopes : host[s].available <= Total[s]
  /\ pressed = FALSE /\ seen = [r \in Runs |-> {}] /\ plan = [r \in Runs |-> {}]
  /\ grown = {} /\ raced = FALSE /\ crashes = 0

\* The worker loads the run's items.
Load(run) ==
  /\ seen[run] = {} /\ plan[run] = {}
  /\ ReadyItems(run) # {}
  /\ seen' = [seen EXCEPT ![run] = ReadyItems(run)]
  /\ UNCHANGED <<status, active, alive, due, host, pressed, plan, grown, raced, crashes>>

\* A local plan records its own sample before it reads the history; the plan of a
\* remote host has no history, and one that cannot be sampled admits nothing.
Admitted(run, scope, pressure) ==
  IF scope = NoLauncher \/ ~host[scope].up THEN {}
  ELSE Select(scope, {i \in seen[run] : ScopeOf[i] = scope}, (scope = LocalScope /\ pressure))

(* Mutant: an item that waits keeps its status, so it goes on counting as running. *)
WaitingKept(waiting) == status

\* The rows of the items that wait say so, whatever they said before.
Waiting(waiting) == [i \in Items |-> IF i \in waiting THEN "waiting" ELSE status[i]]

Pressure(run) ==
  \/ pressed
  \/ /\ \E i \in seen[run] : ScopeOf[i] = LocalScope
     /\ Pressing(host[LocalScope], Reserved(LocalScope))

Admit(run) ==
  /\ seen[run] # {}
  /\ pressed' = Pressure(run)
  /\ \E admitted \in {UNION {Admitted(run, s, pressed') : s \in {ScopeOf[i] : i \in seen[run]}}} :
       /\ plan' = [plan EXCEPT ![run] = admitted]
       /\ status' = Waiting(seen[run] \ admitted)
       /\ due' = due \ (seen[run] \ admitted)
  /\ seen' = [seen EXCEPT ![run] = {}]
  /\ grown' = grown \ {run}
  /\ UNCHANGED <<active, alive, host, raced, crashes>>

\* The lease of an admitted item is free: only its run's worker spawns it.
Spawn(run) ==
  /\ plan[run] # {}
  /\ active' = active \cup plan[run]
  /\ plan' = [plan EXCEPT ![run] = {}]
  /\ grown' = grown \cup {r \in Runs \ {run} : plan[r] # {}}
  /\ raced' = (raced \/ run \in grown)
  /\ UNCHANGED <<status, alive, due, host, pressed, seen, crashes>>

\* The item's worker starts its agent.
Starts(i) ==
  /\ i \in active /\ i \notin alive
  /\ status' = [status EXCEPT ![i] = "running"]
  /\ alive' = alive \cup {i}
  /\ UNCHANGED <<active, due, host, pressed, seen, plan, grown, raced, crashes>>

\* Nothing of an overtaken plan runs any more when nothing runs.
Settled(act, st) == act = {} /\ \A i \in Items : st[i] # "running"

Ends(i) ==
  /\ i \in active /\ i \in alive
  /\ status' = [status EXCEPT ![i] = "done"]
  /\ active' = active \ {i} /\ alive' = alive \ {i}
  /\ raced' = (raced /\ ~Settled(active', status'))
  /\ UNCHANGED <<due, host, pressed, seen, plan, grown, crashes>>

\* The daemon stops and starts again: rows and agents remain, the workers' memory
\* is lost, and an agent may be gone before the run is resumed.
Crash ==
  /\ crashes < MaxCrashes /\ crashes' = crashes + 1
  /\ active' = {}
  /\ seen' = [r \in Runs |-> {}] /\ plan' = [r \in Runs |-> {}] /\ grown' = {}
  /\ \E lost \in SUBSET alive : alive' = alive \ lost
  /\ raced' = (raced /\ ~Settled({}, status))
  /\ UNCHANGED <<status, due, host, pressed>>

\* An agent nobody watches exits.
AgentExits(i) ==
  /\ i \in alive /\ i \notin active
  /\ alive' = alive \ {i}
  /\ UNCHANGED <<status, active, due, host, pressed, seen, plan, grown, raced, crashes>>

HostChanges(scope) ==
  /\ \E h \in HostStates : h.available <= Total[scope] /\ host' = [host EXCEPT ![scope] = h]
  /\ UNCHANGED <<status, active, alive, due, pressed, seen, plan, grown, raced, crashes>>

RetryComes(i) ==
  /\ i \notin due
  /\ due' = due \cup {i}
  /\ UNCHANGED <<status, active, alive, host, pressed, seen, plan, grown, raced, crashes>>

\* The samples that showed pressure are an hour old, or one of the same second
\* has replaced them.
SamplesExpire ==
  /\ pressed /\ pressed' = FALSE
  /\ UNCHANGED <<status, active, alive, due, host, seen, plan, grown, raced, crashes>>

Pass(run) == Load(run) \/ Admit(run) \/ Spawn(run)
Item(i) == Starts(i) \/ Ends(i) \/ RetryComes(i) \/ AgentExits(i)

Next == \/ \E run \in Runs : Pass(run)
        \/ \E i \in Items : Item(i)
        \/ \E s \in Scopes : HostChanges(s)
        \/ SamplesExpire \/ Crash

\* Run workers pass again and again, agents end, time goes on.
Fairness == (\A run \in Runs : WF_vars(Pass(run))) /\ (\A i \in Items : WF_vars(Item(i)))

Spec == Init /\ [][Next]_vars /\ Fairness

----------------------------------------------------------------------------
\* What the parameters may be: an item has one position and a known class, a host
\* at least the smallest memory floor.
Parameters ==
  /\ Order \in Seq(Items) /\ IsInjective(Order)
  /\ \A i \in Items : ClassOf[i] \in {"cheap", "mid", "heavy"}
  /\ {HardLimit, HeavyLimit, MaxCrashes} \subseteq Nat
  /\ \A s \in Scopes \ {NoLauncher} : {Cpus[s], Total[s]} \subseteq Nat /\ Total[s] >= 2

TypeOK ==
  /\ status \in [Items -> {"pending", "waiting", "running", "done"}]
  /\ active \subseteq Items /\ alive \subseteq Items /\ due \subseteq Items
  /\ host \in [Scopes -> HostStates] /\ pressed \in BOOLEAN /\ raced \in BOOLEAN
  /\ \A r \in Runs : seen[r] \subseteq Items /\ plan[r] \subseteq Items
  /\ grown \subseteq Runs /\ crashes \in 0..MaxCrashes

WithinLimits(scope) ==
  LET r == Reserved(scope)
  IN /\ r.tasks <= HardLimit /\ r.heavy <= HeavyLimit
     /\ r.cpu <= Cpus[scope] * 1000
     /\ r.memory + SafetyFloor(scope) <= Total[scope]

(* What the items of a host hold together never exceeds the task, heavy and CPU
   limits and leaves the memory floor free, through crashes and recoveries; only a
   plan that was made before another run's worker spawned its own, and carried out
   after it, may exceed them, until nothing runs. *)
ReservationsWithinLimits == raced \/ \A s \in Scopes \ {NoLauncher} : WithinLimits(s)

\* Nothing but the items of the queue is in the way of an item on its host.
Calm(scope) ==
  /\ host[scope].up
  /\ host[scope].load < LoadThreshold(scope, 1250)
  /\ host[scope].available = Total[scope]

(* When the hosts stay calm, every item is admitted and done in the end: items
   that overtake it, samples of past pressure, and its own reservation from before
   a restart, which a new pass counts against it, delay it but never for ever.
   The items are ones that fit their host alone. *)
AllCalm == \A s \in Scopes : Calm(s)
Done(i) == status[i] = "done"
EveryItemIsAdmitted == <>[]AllCalm => \A i \in Items : <>Done(i)
=============================================================================
