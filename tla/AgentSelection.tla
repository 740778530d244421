--------------------------- MODULE AgentSelection ---------------------------
(* Which of the agents c1 and c2 a local queue item is launched with: the    *)
(* probes of their accounts' limits, the cache of what the probes found      *)
(* (agent_limits.rs), the choice (queue_worker_agent_selection.rs), and the  *)
(* item workers that wait for it (queue_worker.rs). Nothing probes by itself: *)
(* a refresh is asked for by an item or by the dashboard that finds the cache *)
(* old. Times are counted down: 0 is the past.                               *)
EXTENDS Naturals, FiniteSetsExt

CONSTANTS Items,       \* local items whose agent command is c1 or c2
          Commands,    \* the installed ones of 1 (c1) and 2 (c2)
          Account,     \* command -> account, which two commands may share
          Readings,    \* what a status command may report of an account
          Ttl,         \* AGENT_LIMIT_CACHE_TTL
          Pending,     \* AGENT_LIMIT_PENDING_RETRY
          Attempts,    \* AGENT_LIMIT_STATUS_ATTEMPTS
          ProbeTime,   \* what a refresh takes at most, from AGENT_LIMIT_STATUS_TIMEOUT
          MaxChanges   \* bound: changes of the accounts, stops and restarts

VARIABLES real,        \* account -> what its status command would report now
          limits,      \* AGENT_LIMIT_CACHE: how long it is fresh, and its records
          probe,       \* the refresh thread: per account the attempts made and the record
          worker,      \* item -> [status, command, retry]
          changes

vars == <<real, limits, probe, worker, changes>>

Accounts == {Account[c] : c \in Commands}
None == 0               \* no reset time: reset_at_unix is None
NoRecord == [state |-> "unknown", capacity |-> 0, reset |-> None, expires |-> Ttl]
States == {"ok", "limited", "timeout", "retry", "error", "unauthenticated", "unknown"}
RefreshOff == [on |-> FALSE, spent |-> 0, tries |-> [a \in Accounts |-> 0],
               found |-> [a \in Accounts |-> NoRecord]]
NoCache == [on |-> FALSE, fresh |-> 0, records |-> [c \in Commands |-> NoRecord]]

(* An account, as the output of its status command is understood: reported   *)
(* is the state it tells, capacity the quota that remains, reset the time    *)
(* until its limit ends.                                                     *)
Times == 0 .. Max({Ttl, Pending} \cup {r.reset : r \in Readings})
Reality == {[r EXCEPT !.reset = t] : r \in Readings, t \in Times}
Records == [state : States, capacity : {r.capacity : r \in Readings} \cup {0}, reset : Times,
            expires : 0 .. Ttl]

TypeOK ==
    /\ real \in [Accounts -> Reality]
    /\ limits \in [on : BOOLEAN, fresh : 0 .. Ttl, records : [Commands -> Records]]
    /\ probe.on \in BOOLEAN /\ probe.spent \in 0 .. ProbeTime /\ probe.found \in [Accounts -> Records]
    /\ probe.tries \in [Accounts -> 0 .. Attempts + 1]
    /\ worker \in [Items -> [status : {"starting", "waiting", "launched", "stopped"},
                             command : {1, 2}, retry : Times]]

---------------------------------------------------------------------------
(* Probes.                                                                   *)

(* classify_agent_status_text: a limit counts before a timeout, a timeout    *)
(* before what the command calls itself, and a failure that looks passing is *)
(* tried again.                                                              *)
Classify(r, attempt) ==
    CASE r.reported = "failing" -> IF attempt < Attempts THEN "retry" ELSE "error"
      [] r.reported = "silent"  -> "timeout"
      [] OTHER                  -> r.reported

RecordOf(a, attempt) ==
    [state |-> Classify(real[a], attempt), reset |-> real[a].reset,
     capacity |-> IF real[a].reported = "ok" THEN real[a].capacity ELSE 0, expires |-> Ttl]

Done(a) == probe.tries[a] > Attempts

(* One run of an account's status command; anything but a retry is final.    *)
ProbeAccount(a) ==
    /\ probe.on /\ ~Done(a)
    /\ LET attempt == probe.tries[a] + 1
           r == RecordOf(a, attempt)
           last == r.state # "retry" \/ attempt = Attempts
       IN  probe' = [probe EXCEPT !.found[a] = r, !.tries[a] = IF last THEN Attempts + 1 ELSE attempt]
    /\ UNCHANGED <<real, limits, worker, changes>>

(* The records are stored for every command of the account.                  *)
RefreshEnds ==
    /\ probe.on /\ \A a \in Accounts : Done(a)
    /\ limits' = [on |-> TRUE, fresh |-> Ttl, records |-> [c \in Commands |-> probe.found[Account[c]]]]
    /\ probe' = RefreshOff
    /\ UNCHANGED <<real, worker, changes>>

(* schedule_agent_limit_refresh: one refresh at a time.                      *)
Scheduled == IF probe.on THEN probe ELSE [RefreshOff EXCEPT !.on = TRUE]

---------------------------------------------------------------------------
(* The choice.                                                               *)

(* Mutant: only a missing cache is refreshed.                                *)
StaleIfMissing == ~limits.on

Stale == ~limits.on \/ limits.fresh = 0

Usable == {c \in Commands : /\ limits.records[c].state = "ok"
                            /\ limits.records[c].capacity > 0
                            /\ limits.records[c].expires > 0}

(* The largest capacity, and of two equal ones c1.                           *)
Best == CHOOSE c \in Usable : \A d \in Usable :
            \/ limits.records[c].capacity > limits.records[d].capacity
            \/ limits.records[c].capacity = limits.records[d].capacity /\ c <= d

RetryAt(r) == IF r.reset # None THEN r.reset ELSE r.expires
Retries == {RetryAt(limits.records[c]) : c \in Commands} \ {0}
NextRetry == IF limits.on /\ Retries # {} THEN Min(Retries) ELSE Pending

(* One turn of an item worker before the launch. An old cache is refreshed   *)
(* for later and decides all the same; an item that gets no agent sleeps     *)
(* until one of the records it has seen may have changed.                    *)
Selects(i) ==
    /\ worker[i].status \in {"starting", "waiting"} /\ worker[i].retry = 0
    /\ probe' = IF Stale THEN Scheduled ELSE probe
    /\ worker' = [worker EXCEPT ![i] =
           IF limits.on /\ Usable # {}
           THEN [status |-> "launched", command |-> Best, retry |-> 0]
           ELSE [@ EXCEPT !.status = "waiting", !.retry = NextRetry]]
    /\ UNCHANGED <<real, limits, changes>>

(* The dashboard asks for the limits, with or without a refresh.             *)
Dashboard(refresh) ==
    /\ probe' = IF refresh \/ Stale THEN Scheduled ELSE probe
    /\ UNCHANGED <<real, limits, worker, changes>>

---------------------------------------------------------------------------
(* The world.                                                                *)

Changed == changes < MaxChanges /\ changes' = changes + 1

AccountChanges(a) ==
    /\ Changed
    /\ \E r \in Readings : real' = [real EXCEPT ![a] = r]
    /\ UNCHANGED <<limits, probe, worker>>

(* sleep_queue_retry looks for a stop all the time, and for the operator's   *)
(* Continue, which clears the time to wait.                                  *)
Stops(i) ==
    /\ Changed
    /\ worker[i].status = "waiting"
    /\ worker' = [worker EXCEPT ![i].status = "stopped", ![i].retry = 0]
    /\ UNCHANGED <<real, limits, probe>>

Awakens(i) ==
    /\ Changed
    /\ worker[i].status = "waiting" /\ worker[i].retry > 0
    /\ worker' = [worker EXCEPT ![i].retry = 0]
    /\ UNCHANGED <<real, limits, probe>>

(* A restarted daemon has no cache; the item's row keeps the time to wait.   *)
Restarts ==
    /\ Changed
    /\ limits' = NoCache /\ probe' = RefreshOff
    /\ UNCHANGED <<real, worker>>

Less(n) == IF n > 0 THEN n - 1 ELSE 0
Older(r) == [r EXCEPT !.reset = Less(@), !.expires = Less(@)]

(* Time passes when no item is due and no refresh overdue.                   *)
Tick ==
    /\ probe.on => probe.spent < ProbeTime
    /\ \A i \in Items : worker[i].status \in {"launched", "stopped"} \/ worker[i].retry > 0
    /\ real' = [a \in Accounts |-> [real[a] EXCEPT !.reset = Less(@)]]
    /\ limits' = [limits EXCEPT !.fresh = Less(@), !.records = [c \in Commands |-> Older(@[c])]]
    /\ probe' = IF probe.on
                THEN [probe EXCEPT !.spent = @ + 1,
                                   !.found = [a \in Accounts |-> IF Done(a) THEN Older(@[a]) ELSE @[a]]]
                ELSE probe
    /\ worker' = [i \in Items |-> [worker[i] EXCEPT !.retry = Less(@)]]
    /\ UNCHANGED changes

Init ==
    /\ real \in [Accounts -> Readings]
    /\ limits = NoCache /\ probe = RefreshOff
    /\ worker = [i \in Items |-> [status |-> "starting", command |-> 1, retry |-> 0]]
    /\ changes = 0

World == Restarts \/ Tick \/ \E a \in Accounts : AccountChanges(a)
Refresh == RefreshEnds \/ \E a \in Accounts : ProbeAccount(a)

Next ==
    \/ \E i \in Items : Selects(i) \/ Stops(i) \/ Awakens(i)
    \/ \E refresh \in BOOLEAN : Dashboard(refresh)
    \/ Refresh \/ World

Spec ==
    /\ Init /\ [][Next]_vars
    /\ WF_vars(Refresh) /\ WF_vars(Tick)
    /\ \A i \in Items : WF_vars(Selects(i))

---------------------------------------------------------------------------
(* Once an account has quota for good, every item gets an agent: no item     *)
(* sleeps over an outdated record for ever, though it waits for the reset of *)
(* a limited account while another one has become free                       *)
(* (select_queue_agent_from_records).                                        *)
Ready(a) == real[a].reported = "ok" /\ real[a].capacity > 0
Settled(i) == worker[i].status \in {"launched", "stopped"}
ReadyAgentIsFound ==
    (\E a \in Accounts : <>[]Ready(a)) => <>(\A i \in Items : Settled(i))
=============================================================================
