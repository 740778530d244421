----------------------------- MODULE QueueLease -----------------------------
(***************************************************************************)
(* The durable worker lease of a queue item (web_queue_item_worker_leases) *)
(* under several daemon processes.                                         *)
(*                                                                         *)
(* Every daemon runs a run worker, which spawns at most one worker thread  *)
(* per item: it acquires the item's lease in one immediate transaction,    *)
(* remembers the item in a process-local set and starts the thread.  The   *)
(* thread refreshes the lease with a heartbeat, but not while it sleeps    *)
(* between launch retries.  Processes die at any step; a restarted daemon  *)
(* finds the lease rows of its predecessor.                                *)
(*                                                                         *)
(* Time: expires_at is kept as the ticks that are left, 0 once the lease   *)
(* has expired, so that no clock grows without bound.  An item is reduced  *)
(* to what the lease statements ask of it: terminal, delayed (its          *)
(* next_attempt_at lies ahead), or ready.                                  *)
(***************************************************************************)
EXTENDS Integers

CONSTANTS Item,
          Proc,       \* daemon processes; a restarted one may get its old pid back
          NoOwner,    \* owner_id is null
          TTL,        \* WEB_QUEUE_WORKER_LEASE_TTL_SECS, in ticks
          MaxEpoch,   \* bound on acquisitions per item
          MaxCrashes  \* bound on process deaths

ASSUME LeaseAssumption ==
    /\ NoOwner \notin Proc
    /\ TTL \in Nat \ {0}
    /\ MaxEpoch \in Nat
    /\ MaxCrashes \in Nat

VARIABLES state,    \* state[i]: what the item row says
          lease,    \* lease[i]: the lease row; epoch 0 while there is none
          up,       \* the processes that run
          thread,   \* thread[p][i]: the worker thread of process p for item i
          crashes,
          lapsed    \* the threads whose lease ran out since they last had it (history)
vars == <<state, lease, up, thread, crashes, lapsed>>

ItemState == {"ready", "delayed", "terminal"}
Lease == [owner: Proc \cup {NoOwner}, epoch: Nat, left: 0..TTL]

(* "work": anything between two heartbeats; "beat" and "check": the two        *)
(* statements of heartbeat_queue_item_worker_lease; "lost": it bailed;         *)
(* "exit": the outcome is written; "released": only the local key is left.     *)
Pc == {"none", "work", "sleep", "beat", "check", "lost", "exit", "released"}
Thread == [pc: Pc, epoch: Nat]
NoThread == [pc |-> "none", epoch |-> 0]

(* Mutants: a lease ends a tick early; a lease never ends.                     *)
ExpiresEarly(i) == lease[i].owner # NoOwner /\ lease[i].left > 1
NeverExpires(i) == lease[i].owner # NoOwner

Unexpired(i) == lease[i].owner # NoOwner /\ lease[i].left > 0
Alive(p, i) == thread[p][i].pc # "none"

Init ==
    /\ state = [i \in Item |-> "ready"]
    /\ lease = [i \in Item |-> [owner |-> NoOwner, epoch |-> 0, left |-> 0]]
    /\ up = Proc
    /\ thread = [p \in Proc |-> [i \in Item |-> NoThread]]
    /\ crashes = 0
    /\ lapsed = {}

SetThread(p, i, pc, epoch) ==
    thread' = [thread EXCEPT ![p][i] = [pc |-> pc, epoch |-> epoch]]
Goto(p, i, pc) == SetThread(p, i, pc, thread[p][i].epoch)

---------------------------------------------------------------------------
(* Mutants: the lease outlives its TTL; a takeover keeps the epoch.            *)
AcquireLonger(p, i) ==
    /\ p \in up /\ ~Alive(p, i) /\ state[i] = "ready" /\ ~Unexpired(i) /\ lease[i].epoch < MaxEpoch
    /\ lease' = [lease EXCEPT ![i] = [owner |-> p, epoch |-> @.epoch + 1, left |-> TTL + 1]]
    /\ SetThread(p, i, "work", lease[i].epoch + 1)
    /\ UNCHANGED <<state, up, crashes, lapsed>>

AcquireKeepsEpoch(p, i) ==
    /\ p \in up /\ ~Alive(p, i) /\ state[i] = "ready" /\ ~Unexpired(i)
    /\ lease' = [lease EXCEPT ![i] = [owner |-> p, epoch |-> @.epoch, left |-> TTL]]
    /\ SetThread(p, i, "work", lease[i].epoch)
    /\ UNCHANGED <<state, up, crashes, lapsed>>

(* spawn_web_queue_item_worker: the run worker has found no local key, the     *)
(* transaction refuses terminal, delayed and busy items.                       *)
Acquire(p, i) ==
    /\ p \in up
    /\ ~Alive(p, i)
    /\ state[i] = "ready"
    /\ ~Unexpired(i)
    /\ lease[i].epoch < MaxEpoch
    /\ lease' = [lease EXCEPT ![i] = [owner |-> p, epoch |-> @.epoch + 1, left |-> TTL]]
    /\ SetThread(p, i, "work", lease[i].epoch + 1)
    /\ UNCHANGED <<state, up, crashes, lapsed>>

(* recover_stale_web_queue_item_worker_leases, on every tick of a run worker.  *)
RecoverStale(p) ==
    LET stale == {i \in Item : /\ lease[i].owner # NoOwner /\ ~Unexpired(i)
                               /\ state[i] = "ready"}
    IN  /\ p \in up
        /\ stale # {}
        /\ lease' = [i \in Item |-> IF i \in stale
                                    THEN [lease[i] EXCEPT !.owner = NoOwner]
                                    ELSE lease[i]]
        /\ UNCHANGED <<state, up, thread, crashes, lapsed>>

(* A thread's unconditional row writes: a status without a retry time, a       *)
(* retry it then sleeps through, or the outcome it ends with.                  *)
Progress(p, i) ==
    /\ thread[p][i].pc = "work"
    /\ state' = [state EXCEPT ![i] = "ready"]
    /\ UNCHANGED <<lease, up, thread, crashes, lapsed>>

Sleep(p, i) ==
    /\ thread[p][i].pc = "work"
    /\ state' = [state EXCEPT ![i] = "delayed"]
    /\ Goto(p, i, "sleep")
    /\ UNCHANGED <<lease, up, crashes, lapsed>>

Finish(p, i) ==
    /\ thread[p][i].pc = "work"
    /\ \E s \in ItemState : state' = [state EXCEPT ![i] = s]
    /\ Goto(p, i, "exit")
    /\ UNCHANGED <<lease, up, crashes, lapsed>>

(* sleep_queue_retry returns after the delay, on a wake-up, or on a stop       *)
(* request, which the thread answers by pausing the item.                      *)
WakeUp(p, i) ==
    /\ thread[p][i].pc = "sleep"
    /\ Goto(p, i, "beat")
    /\ UNCHANGED <<state, lease, up, crashes, lapsed>>

StopAsleep(p, i) ==
    /\ thread[p][i].pc = "sleep"
    /\ Goto(p, i, "exit")
    /\ UNCHANGED <<state, lease, up, crashes, lapsed>>

LoopTop(p, i) ==
    /\ thread[p][i].pc = "work"
    /\ Goto(p, i, "beat")
    /\ UNCHANGED <<state, lease, up, crashes, lapsed>>

(* Mutant: the heartbeat does not compare the epoch.                           *)
CanBeatAnyEpoch(p, i) == lease[i].owner \in {p, NoOwner} /\ state[i] # "terminal"

(* heartbeat_web_queue_item_worker_lease: one UPDATE, which also takes back a  *)
(* lease that was recovered as stale.                                          *)
CanBeat(p, i) ==
    /\ lease[i].epoch = thread[p][i].epoch
    /\ lease[i].owner \in {p, NoOwner}
    /\ state[i] # "terminal"

Heartbeat(p, i) ==
    /\ thread[p][i].pc = "beat"
    /\ \/ /\ CanBeat(p, i)
          /\ lease' = [lease EXCEPT ![i] = [owner |-> p, epoch |-> @.epoch, left |-> TTL]]
          /\ Goto(p, i, "work")
          /\ lapsed' = lapsed \ {<<p, i>>}
       \/ /\ ~CanBeat(p, i)
          /\ Goto(p, i, "check")
          /\ UNCHANGED <<lease, lapsed>>
    /\ UNCHANGED <<state, up, crashes>>

(* inspect_web_queue_item_worker_lease, a read of its own: a terminal or       *)
(* delayed item lets the thread go on without a lease.                         *)
Inspect(p, i) ==
    /\ thread[p][i].pc = "check"
    /\ IF state[i] = "ready"
       THEN Goto(p, i, "lost")
       ELSE Goto(p, i, "work")
    /\ UNCHANGED <<state, lease, up, crashes, lapsed>>

(* The spawn wrapper fails the item of a thread that returned an error, then   *)
(* releases the lease and removes the local key.                               *)
Fail(p, i) ==
    /\ thread[p][i].pc \in {"work", "lost"}
    /\ state' = [state EXCEPT ![i] = "terminal"]
    /\ Goto(p, i, "exit")
    /\ UNCHANGED <<lease, up, crashes, lapsed>>

(* Mutant: the release compares neither owner nor epoch.                       *)
ReleaseAnyOwner(p, i) ==
    /\ thread[p][i].pc = "exit"
    /\ lease' = [lease EXCEPT ![i] = [owner |-> NoOwner, epoch |-> @.epoch, left |-> 0]]
    /\ Goto(p, i, "released")
    /\ UNCHANGED <<state, up, crashes, lapsed>>

(* release_web_queue_item_worker_lease: only the thread's own lease.           *)
Release(p, i) ==
    /\ thread[p][i].pc = "exit"
    /\ lease' = IF lease[i].owner = p /\ lease[i].epoch = thread[p][i].epoch
                THEN [lease EXCEPT ![i] = [owner |-> NoOwner, epoch |-> @.epoch, left |-> 0]]
                ELSE lease
    /\ Goto(p, i, "released")
    /\ UNCHANGED <<state, up, crashes, lapsed>>

RemoveKey(p, i) ==
    /\ thread[p][i].pc = "released"
    /\ SetThread(p, i, "none", 0)
    /\ lapsed' = lapsed \ {<<p, i>>}
    /\ UNCHANGED <<state, lease, up, crashes>>

---------------------------------------------------------------------------
(* Everybody else who writes item rows: reconciliation, the operator's Stop    *)
(* and Continue, and the retry time passing.                                   *)
RewriteItem(i) ==
    /\ \E s \in ItemState \ {state[i]} : state' = [state EXCEPT ![i] = s]
    /\ UNCHANGED <<lease, up, thread, crashes, lapsed>>

RetryDue(i) ==
    /\ state[i] = "delayed"
    /\ state' = [state EXCEPT ![i] = "ready"]
    /\ UNCHANGED <<lease, up, thread, crashes, lapsed>>

(* The worker whose lease is unexpired, if it is still there.                  *)
Holder(p, i) == Alive(p, i) /\ lease[i].owner = p

Tick ==
    /\ \E i \in Item : lease[i].left > 0
    /\ lease' = [i \in Item |-> [lease[i] EXCEPT !.left = IF @ = 0 THEN 0 ELSE @ - 1]]
    /\ lapsed' = lapsed \cup {t \in Proc \X Item : Holder(t[1], t[2]) /\ lease[t[2]].left = 1}
    /\ UNCHANGED <<state, up, thread, crashes>>

Crash(p) ==
    /\ p \in up
    /\ crashes < MaxCrashes
    /\ up' = up \ {p}
    /\ thread' = [thread EXCEPT ![p] = [i \in Item |-> NoThread]]
    /\ lapsed' = {s \in lapsed : s[1] # p}
    /\ crashes' = crashes + 1
    /\ UNCHANGED <<state, lease>>

Restart(p) ==
    /\ p \notin up
    /\ up' = up \cup {p}
    /\ UNCHANGED <<state, lease, thread, crashes, lapsed>>

ThreadStep(p, i) ==
    \/ Progress(p, i) \/ Sleep(p, i) \/ Finish(p, i) \/ WakeUp(p, i) \/ StopAsleep(p, i)
    \/ LoopTop(p, i) \/ Heartbeat(p, i) \/ Inspect(p, i) \/ Fail(p, i)
    \/ Release(p, i) \/ RemoveKey(p, i)

Next ==
    \/ \E p \in Proc, i \in Item : Acquire(p, i) \/ ThreadStep(p, i)
    \/ \E p \in Proc : RecoverStale(p) \/ Crash(p) \/ Restart(p)
    \/ \E i \in Item : RewriteItem(i) \/ RetryDue(i)
    \/ Tick

Spec == Init /\ [][Next]_vars

(* Time passes, a dead daemon is restarted, and a running daemon's run worker  *)
(* keeps ticking.  Nothing is assumed of the worker threads.                   *)
FairSpec ==
    /\ Spec
    /\ WF_vars(Tick)
    /\ \A p \in Proc : WF_vars(Restart(p)) /\ WF_vars(RecoverStale(p))

---------------------------------------------------------------------------
TypeOK ==
    /\ state \in [Item -> ItemState]
    /\ lease \in [Item -> Lease]
    /\ up \in SUBSET Proc
    /\ thread \in [Proc -> [Item -> Thread]]
    /\ crashes \in 0..MaxCrashes
    /\ lapsed \in SUBSET (Proc \X Item)

(* A thread between its acquisition and its outcome.                          *)
Working(p, i) == thread[p][i].pc \in {"work", "sleep", "beat", "check"}

(* Two daemons work on the same item only after one of the two let its lease  *)
(* run out, by stalling past the TTL or by sleeping through a retry delay:    *)
(* the promise of the durable lease (README.md:114-117).                      *)
SoleWorker ==
    \A i \in Item : \A p, q \in Proc :
        Working(p, i) /\ Working(q, i) /\ p # q => <<p, i>> \in lapsed \/ <<q, i>> \in lapsed

(* Every acquisition is told apart from every other: no two live threads of   *)
(* an item carry the same epoch, and none carries one from the future.        *)
UniqueEpochs ==
    \A i \in Item : \A p, q \in Proc :
        Alive(p, i) => /\ thread[p][i].epoch <= lease[i].epoch
                       /\ Alive(q, i) /\ thread[q][i].epoch = thread[p][i].epoch => p = q

(* An unexpired lease leaves its owner only when the owner's own thread       *)
(* releases it: neither a late release of an earlier worker nor stale-lease   *)
(* recovery nor a heartbeat that lost the race takes it away.                 *)
ActiveLeaseIsKept ==
    [][\A i \in Item : Unexpired(i) /\ lease'[i].owner # lease[i].owner
        => /\ thread[lease[i].owner][i].pc = "exit"
           /\ thread[lease[i].owner][i].epoch = lease[i].epoch]_vars

(* The lease of a worker that died with its daemon does not block its item:   *)
(* the owner is cleared or replaced, unless the item stops being ready.       *)
Abandoned(i) == lease[i].owner # NoOwner /\ ~Alive(lease[i].owner, i) /\ state[i] = "ready"
DeadOwnerIsCleared == \A i \in Item : Abandoned(i) ~> ~Abandoned(i)

(* The inductive invariant: a thread whose lease has not lapsed owns the      *)
(* unexpired lease under its own epoch.                                       *)
HoldsUnlapsed ==
    \A p \in Proc, i \in Item :
        Working(p, i) /\ <<p, i>> \notin lapsed
        => lease[i].owner = p /\ lease[i].epoch = thread[p][i].epoch /\ lease[i].left > 0

OwnerIsNewest ==
    \A p \in Proc, i \in Item :
        Alive(p, i) /\ lease[i].owner = p => thread[p][i].epoch = lease[i].epoch

IInv ==
    /\ TypeOK
    /\ UniqueEpochs
    /\ HoldsUnlapsed
    /\ OwnerIsNewest
=============================================================================
