-------------------------- MODULE QueueServiceProofs --------------------------
(***************************************************************************)
(* Proofs about what serves the queue beside its workers' own loops: the   *)
(* lease of a run (QueueLease), the admission of items (QueueAdmission),   *)
(* the graph of a run (QueueGraph) and the daemon behind the command line  *)
(* (QueueClient).  Each component is proved by itself, for every value of  *)
(* its constants; they share no variables.                                 *)
(***************************************************************************)
EXTENDS QueueLease, FiniteSetTheorems, WellFoundedInduction, Integers, Sequences, FiniteSets, TLAPS

----------------------------------------------------------------------------

(* What one assignment to one thread does to all threads (SetThread).        *)
LEMMA ThreadUpdate ==
    ASSUME TypeOK, NEW p \in Proc, NEW i \in Item, NEW pc \in Pc, NEW e \in Nat,
           SetThread(p, i, pc, e)
    PROVE  /\ thread' \in [Proc -> [Item -> Thread]]
           /\ \A q \in Proc, j \in Item :
                thread'[q][j] = IF q = p /\ j = i THEN [pc |-> pc, epoch |-> e]
                                                  ELSE thread[q][j]
BY DEF TypeOK, SetThread, Thread

(* The same for the steps that keep the thread's epoch.                      *)
LEMMA ThreadGoto ==
    ASSUME TypeOK, NEW p \in Proc, NEW i \in Item, NEW pc \in Pc, Goto(p, i, pc)
    PROVE  /\ thread' \in [Proc -> [Item -> Thread]]
           /\ thread[p][i] \in Thread
           /\ \A q \in Proc, j \in Item :
                thread'[q][j] = IF q = p /\ j = i
                                THEN [pc |-> pc, epoch |-> thread[p][i].epoch]
                                ELSE thread[q][j]
<1>1. thread[p][i] \in Thread /\ thread[p][i].epoch \in Nat
  BY DEF TypeOK, Thread
<1> QED BY <1>1, ThreadUpdate DEF Goto

(* A thread step moves one thread, which keeps its epoch unless it ends.     *)
LEMMA ThreadStepEffect ==
    ASSUME TypeOK, NEW p \in Proc, NEW i \in Item, ThreadStep(p, i)
    PROVE  /\ thread' \in [Proc -> [Item -> Thread]]
           /\ \A q \in Proc, j \in Item :
                (q # p \/ j # i) => thread'[q][j] = thread[q][j]
           /\ thread'[p][i].pc # "none" => thread'[p][i].epoch = thread[p][i].epoch
<1> DEFINE Effect ==
        /\ thread' \in [Proc -> [Item -> Thread]]
        /\ \A q \in Proc, j \in Item : (q # p \/ j # i) => thread'[q][j] = thread[q][j]
        /\ thread'[p][i].pc # "none" => thread'[p][i].epoch = thread[p][i].epoch
<1>1. ASSUME NEW pc \in Pc, Goto(p, i, pc) PROVE Effect
  <2>1. /\ thread' \in [Proc -> [Item -> Thread]]
        /\ \A q \in Proc, j \in Item :
             thread'[q][j] = IF q = p /\ j = i
                             THEN [pc |-> pc, epoch |-> thread[p][i].epoch]
                             ELSE thread[q][j]
    BY <1>1, ThreadGoto
  <2> QED BY <2>1
<1>2. CASE UNCHANGED thread
  BY <1>2 DEF TypeOK
<1>3. CASE RemoveKey(p, i)
  <2>1. SetThread(p, i, "none", 0) /\ "none" \in Pc /\ 0 \in Nat
    BY <1>3 DEF RemoveKey, Pc
  <2>2. /\ thread' \in [Proc -> [Item -> Thread]]
        /\ \A q \in Proc, j \in Item :
             thread'[q][j] = IF q = p /\ j = i THEN [pc |-> "none", epoch |-> 0]
                                               ELSE thread[q][j]
    BY <2>1, ThreadUpdate
  <2> QED BY <2>2
<1>4. \/ UNCHANGED thread
      \/ RemoveKey(p, i)
      \/ \E pc \in Pc : Goto(p, i, pc)
  <2>1. Progress(p, i) => UNCHANGED thread BY DEF Progress
  <2>2. \/ UNCHANGED thread
        \/ RemoveKey(p, i)
        \/ Goto(p, i, "work") \/ Goto(p, i, "sleep") \/ Goto(p, i, "beat")
        \/ Goto(p, i, "check") \/ Goto(p, i, "lost") \/ Goto(p, i, "exit")
        \/ Goto(p, i, "released")
    BY <2>1 DEF ThreadStep, Sleep, Finish, WakeUp, StopAsleep, LoopTop, Heartbeat,
                Inspect, Fail, Release
  <2> QED BY <2>2 DEF Pc
<1> QED BY <1>1, <1>2, <1>3, <1>4

---------------------------------------------------------------------------
(* Type correctness, one step per action.                                    *)
LEMMA TypeStep == ASSUME TypeOK, [Next]_vars PROVE TypeOK'
<1> USE LeaseAssumption
<1>1. ASSUME NEW p \in Proc, NEW i \in Item, Acquire(p, i) PROVE TypeOK'
  <2>1. lease[i].epoch + 1 \in Nat BY DEF TypeOK, Lease
  <2>2. thread' \in [Proc -> [Item -> Thread]]
    <3>1. SetThread(p, i, "work", lease[i].epoch + 1) /\ "work" \in Pc
      BY <1>1 DEF Acquire, Pc
    <3> QED BY <2>1, <3>1, ThreadUpdate
  <2>3. lease' \in [Item -> Lease] BY <1>1, <2>1 DEF Acquire, TypeOK, Lease
  <2> QED BY <1>1, <2>2, <2>3 DEF Acquire, TypeOK
<1>2. ASSUME NEW p \in Proc, NEW i \in Item, ThreadStep(p, i) PROVE TypeOK'
  <2>1. thread' \in [Proc -> [Item -> Thread]] BY <1>2, ThreadStepEffect
  <2>2. state' \in [Item -> ItemState]
    BY <1>2 DEF ThreadStep, Progress, Sleep, Finish, WakeUp, StopAsleep, LoopTop, Heartbeat,
                Inspect, Fail, Release, RemoveKey, TypeOK, ItemState
  <2>3. lease' \in [Item -> Lease]
    <3>1. CASE UNCHANGED lease BY <3>1 DEF TypeOK
    <3>2. CASE lease' = [lease EXCEPT ![i] = [owner |-> p, epoch |-> @.epoch, left |-> TTL]]
      BY <3>2 DEF TypeOK, Lease
    <3>3. CASE lease' = [lease EXCEPT ![i] = [owner |-> NoOwner, epoch |-> @.epoch, left |-> 0]]
      BY <3>3 DEF TypeOK, Lease
    <3> QED
      BY <1>2, <3>1, <3>2, <3>3
         DEF ThreadStep, Progress, Sleep, Finish, WakeUp, StopAsleep, LoopTop, Heartbeat,
             Inspect, Fail, Release, RemoveKey
  <2>4. lapsed' \in SUBSET (Proc \X Item) /\ up' = up /\ crashes' = crashes
    BY <1>2 DEF ThreadStep, Progress, Sleep, Finish, WakeUp, StopAsleep, LoopTop, Heartbeat,
                Inspect, Fail, Release, RemoveKey, TypeOK
  <2> QED BY <2>1, <2>2, <2>3, <2>4 DEF TypeOK
<1>3. ASSUME NEW p \in Proc, RecoverStale(p) PROVE TypeOK'
  BY <1>3 DEF RecoverStale, TypeOK, Lease
<1>4. ASSUME NEW p \in Proc, Crash(p) PROVE TypeOK'
  BY <1>4 DEF Crash, TypeOK, Thread, NoThread, Pc
<1>5. ASSUME NEW p \in Proc, Restart(p) PROVE TypeOK'
  BY <1>5 DEF Restart, TypeOK
<1>6. ASSUME NEW i \in Item, RewriteItem(i) \/ RetryDue(i) PROVE TypeOK'
  BY <1>6 DEF RewriteItem, RetryDue, TypeOK, ItemState
<1>7. CASE Tick
  <2>1. lease' \in [Item -> Lease]
    <3>1. ASSUME NEW j \in Item
          PROVE  [lease[j] EXCEPT !.left = IF @ = 0 THEN 0 ELSE @ - 1] \in Lease
      BY DEF TypeOK, Lease
    <3> QED BY <1>7, <3>1 DEF Tick
  <2>2. lapsed' \in SUBSET (Proc \X Item)
    <3> DEFINE new == {t \in Proc \X Item : Holder(t[1], t[2]) /\ lease[t[2]].left = 1}
    <3>1. new \in SUBSET (Proc \X Item) OBVIOUS
    <3>2. lapsed' = lapsed \cup new BY <1>7 DEF Tick
    <3> HIDE DEF new
    <3> QED BY <3>1, <3>2 DEF TypeOK
  <2> QED BY <1>7, <2>1, <2>2 DEF Tick, TypeOK
<1>8. CASE UNCHANGED vars
  BY <1>8 DEF vars, TypeOK
<1> QED BY <1>1, <1>2, <1>3, <1>4, <1>5, <1>6, <1>7, <1>8 DEF Next

(* The initial states satisfy the invariant.                                 *)
LEMMA InitInv == Init => IInv
<1> SUFFICES ASSUME Init PROVE IInv OBVIOUS
<1>1. TypeOK
  BY LeaseAssumption DEF Init, TypeOK, ItemState, Lease, Thread, NoThread, Pc
<1>2. \A p \in Proc, i \in Item : thread[p][i].pc = "none"
  BY DEF Init, NoThread
<1> QED
  BY <1>1, <1>2 DEF IInv, UniqueEpochs, HoldsUnlapsed, OwnerIsNewest, Alive, Working

---------------------------------------------------------------------------
(* Steps that leave the lease rows alone and start no work keep the rest of  *)
(* the invariant.                                                            *)
LEMMA QuietStep ==
    ASSUME IInv, TypeOK', lease' = lease, lapsed' = lapsed,
           \A q \in Proc, j \in Item :
              /\ Alive(q, j)' => Alive(q, j) /\ thread'[q][j].epoch = thread[q][j].epoch
              /\ Working(q, j)' => Working(q, j)
    PROVE  IInv'
<1>1. UniqueEpochs' BY DEF IInv, UniqueEpochs
<1>2. HoldsUnlapsed'
  <2> SUFFICES ASSUME NEW p \in Proc, NEW i \in Item,
                      Working(p, i)', <<p, i>> \notin lapsed'
               PROVE  (lease[i].owner = p /\ lease[i].epoch = thread[p][i].epoch
                       /\ lease[i].left > 0)'
    BY DEF HoldsUnlapsed
  <2>1. Alive(p, i)' BY DEF Working, Alive
  <2> QED BY <2>1 DEF IInv, HoldsUnlapsed
<1>3. OwnerIsNewest' BY DEF IInv, OwnerIsNewest
<1> QED BY <1>1, <1>2, <1>3 DEF IInv

(* The new owner's thread has the newest epoch; every other thread of the    *)
(* item is older, and the one that held the expired lease has lapsed.        *)
LEMMA AcquireStep ==
    ASSUME IInv, TypeOK', NEW p \in Proc, NEW i \in Item, Acquire(p, i) PROVE IInv'
<1> USE LeaseAssumption
<1> DEFINE e == lease[i].epoch + 1
<1>1. e \in Nat /\ "work" \in Pc BY DEF IInv, TypeOK, Lease, Pc
<1>2. SetThread(p, i, "work", e) BY DEF Acquire
<1>3. TypeOK BY DEF IInv
<1>4. \A q \in Proc, j \in Item :
        thread'[q][j] = IF q = p /\ j = i THEN [pc |-> "work", epoch |-> e]
                                          ELSE thread[q][j]
  BY <1>1, <1>2, <1>3, ThreadUpdate
<1>5. \A j \in Item : lease'[j] = IF j = i THEN [owner |-> p, epoch |-> e, left |-> TTL]
                                           ELSE lease[j]
  BY <1>3 DEF Acquire, TypeOK
<1>6. lapsed' = lapsed /\ ~Unexpired(i) BY DEF Acquire
<1>7. \A j \in Item : lease[j].epoch \in Nat BY <1>3 DEF TypeOK, Lease
<1>8. \A q \in Proc, j \in Item : thread[q][j].epoch \in Nat
  BY <1>3 DEF TypeOK, Thread
<1>9. UniqueEpochs'
  <2>1. \A q \in Proc, j \in Item : Alive(q, j) => thread[q][j].epoch <= lease[j].epoch
    BY DEF IInv, UniqueEpochs
  <2>2. \A q \in Proc, j \in Item :
           Alive(q, j)' /\ (q # p \/ j # i) => Alive(q, j)
    BY <1>4 DEF Alive
  <2> SUFFICES ASSUME NEW j \in Item, NEW q \in Proc, NEW r \in Proc, Alive(q, j)'
               PROVE  /\ thread'[q][j].epoch <= lease'[j].epoch
                      /\ Alive(r, j)' /\ thread'[r][j].epoch = thread'[q][j].epoch => q = r
    BY DEF UniqueEpochs
  <2>3. CASE j # i
    BY <2>3, <2>2, <1>4, <1>5 DEF IInv, UniqueEpochs
  <2>4. CASE j = i
    <3>1. \A q2 \in Proc : q2 # p /\ Alive(q2, i)' => thread'[q2][i].epoch < e
      BY <2>1, <2>2, <1>4, <1>7, <1>8
    <3>2. thread'[p][i].epoch = e /\ lease'[i].epoch = e BY <1>4, <1>5
    <3>3. \A q2 \in Proc : q2 # p => thread'[q2][i].epoch \in Nat BY <1>4, <1>8
    <3> HIDE DEF e
    <3>4. thread'[q][i].epoch <= e
      <4>1. CASE q = p BY <4>1, <3>2, <1>1
      <4>2. CASE q # p
        <5>1. thread'[q][i].epoch < e BY <4>2, <2>4, <3>1
        <5> QED BY <5>1, <4>2, <3>3, <1>1
      <4> QED BY <4>1, <4>2
    <3>5. ASSUME Alive(r, i)', thread'[r][i].epoch = thread'[q][i].epoch PROVE q = r
      <4>1. CASE q # p /\ r # p
        <5>1. Alive(q, i) /\ Alive(r, i) BY <4>1, <3>5, <2>2, <2>4
        <5>2. thread[r][i].epoch = thread[q][i].epoch BY <4>1, <3>5, <1>4
        <5> QED BY <5>1, <5>2 DEF IInv, UniqueEpochs
      <4>2. CASE q = p /\ r # p
        <5>1. thread'[r][i].epoch < e BY <4>2, <3>5, <3>1
        <5> QED BY <5>1, <4>2, <3>5, <3>2, <3>3, <1>1
      <4>3. CASE q # p /\ r = p
        <5>1. thread'[q][i].epoch < e BY <4>3, <2>4, <3>1
        <5> QED BY <5>1, <4>3, <3>5, <3>2, <3>3, <1>1
      <4> QED BY <4>1, <4>2, <4>3
    <3> QED BY <2>4, <3>2, <3>4, <3>5
  <2> QED BY <2>3, <2>4
<1>10. HoldsUnlapsed'
  <2> SUFFICES ASSUME NEW q \in Proc, NEW j \in Item,
                      Working(q, j)', <<q, j>> \notin lapsed'
               PROVE  (lease[j].owner = q /\ lease[j].epoch = thread[q][j].epoch
                       /\ lease[j].left > 0)'
    BY DEF HoldsUnlapsed
  <2>1. CASE q = p /\ j = i BY <2>1, <1>4, <1>5
  <2>2. CASE q # p \/ j # i
    <3>1. Working(q, j) /\ <<q, j>> \notin lapsed BY <2>2, <1>4, <1>6 DEF Working
    <3>2. lease[j].owner = q /\ lease[j].epoch = thread[q][j].epoch /\ lease[j].left > 0
      BY <3>1 DEF IInv, HoldsUnlapsed
    <3>3. j # i BY <3>2, <1>6 DEF Unexpired
    <3> QED BY <3>2, <3>3, <1>4, <1>5
  <2> QED BY <2>1, <2>2
<1>11. OwnerIsNewest'
  <2> SUFFICES ASSUME NEW q \in Proc, NEW j \in Item, Alive(q, j)', lease'[j].owner = q
               PROVE  thread'[q][j].epoch = lease'[j].epoch
    BY DEF OwnerIsNewest
  <2>1. CASE j = i
    <3>1. lease'[i].owner = p /\ lease'[i].epoch = e BY <1>5
    <3>2. thread'[p][i].epoch = e BY <1>4
    <3> QED BY <2>1, <3>1, <3>2
  <2>2. CASE j # i
    BY <2>2, <1>4, <1>5 DEF Alive, IInv, OwnerIsNewest
  <2> QED BY <2>1, <2>2
<1> QED BY <1>9, <1>10, <1>11 DEF IInv

(* Only the thread with the newest epoch can refresh the lease.              *)
LEMMA HeartbeatStep ==
    ASSUME IInv, TypeOK', NEW p \in Proc, NEW i \in Item, Heartbeat(p, i), CanBeat(p, i)
    PROVE  IInv'
<1> USE LeaseAssumption
<1>1. TypeOK BY DEF IInv
<1>2. /\ thread[p][i].pc = "beat"
      /\ lease[i].epoch = thread[p][i].epoch
      /\ lease[i].owner \in {p, NoOwner}
      /\ lapsed' = lapsed \ {<<p, i>>}
  BY DEF Heartbeat, CanBeat
<1>3. \A j \in Item : lease'[j] = IF j = i
                                  THEN [owner |-> p, epoch |-> lease[i].epoch, left |-> TTL]
                                  ELSE lease[j]
  BY <1>1 DEF Heartbeat, TypeOK
<1>4. \A q \in Proc, j \in Item :
        thread'[q][j] = IF q = p /\ j = i THEN [pc |-> "work", epoch |-> thread[p][i].epoch]
                                          ELSE thread[q][j]
  <2>1. Goto(p, i, "work") /\ "work" \in Pc BY DEF Heartbeat, Pc
  <2> QED BY <1>1, <2>1, ThreadGoto
<1>5. \A q \in Proc, j \in Item :
        /\ thread'[q][j].epoch = thread[q][j].epoch
        /\ Alive(q, j)' => Alive(q, j)
        /\ Working(q, j)' => Working(q, j)
  BY <1>2, <1>4 DEF Alive, Working
<1>6. \A j \in Item : lease'[j].epoch = lease[j].epoch BY <1>3
<1>7. UniqueEpochs' BY <1>5, <1>6 DEF IInv, UniqueEpochs
<1>8. HoldsUnlapsed'
  <2> SUFFICES ASSUME NEW q \in Proc, NEW j \in Item,
                      Working(q, j)', <<q, j>> \notin lapsed'
               PROVE  (lease[j].owner = q /\ lease[j].epoch = thread[q][j].epoch
                       /\ lease[j].left > 0)'
    BY DEF HoldsUnlapsed
  <2>1. CASE q = p /\ j = i BY <2>1, <1>2, <1>3, <1>5
  <2>2. CASE q # p \/ j # i
    <3>1. Working(q, j) /\ <<q, j>> \notin lapsed BY <2>2, <1>2, <1>5
    <3>2. lease[j].owner = q /\ lease[j].epoch = thread[q][j].epoch /\ lease[j].left > 0
      BY <3>1 DEF IInv, HoldsUnlapsed
    <3>3. j # i BY <2>2, <3>2, <1>2
    <3> QED BY <3>2, <3>3, <1>3, <1>5
  <2> QED BY <2>1, <2>2
<1>9. OwnerIsNewest'
  <2> SUFFICES ASSUME NEW q \in Proc, NEW j \in Item, Alive(q, j)', lease'[j].owner = q
               PROVE  thread'[q][j].epoch = lease'[j].epoch
    BY DEF OwnerIsNewest
  <2>1. CASE j = i
    <3>1. lease'[i].owner = p BY <1>3
    <3> QED BY <2>1, <3>1, <1>2, <1>5, <1>6
  <2>2. CASE j # i BY <2>2, <1>3, <1>5 DEF IInv, OwnerIsNewest
  <2> QED BY <2>1, <2>2
<1> QED BY <1>7, <1>8, <1>9 DEF IInv

(* A release clears only the lease of the thread that leaves.                *)
LEMMA ReleaseStep ==
    ASSUME IInv, TypeOK', NEW p \in Proc, NEW i \in Item, Release(p, i) PROVE IInv'
<1> USE LeaseAssumption
<1>1. TypeOK /\ thread[p][i].pc = "exit" /\ lapsed' = lapsed BY DEF IInv, Release
<1>2. \A j \in Item : \/ lease'[j] = lease[j]
                      \/ /\ j = i /\ lease[i].owner = p
                         /\ lease'[i] = [owner |-> NoOwner, epoch |-> lease[i].epoch, left |-> 0]
  BY <1>1 DEF Release, TypeOK
<1>3. \A q \in Proc, j \in Item :
        thread'[q][j] = IF q = p /\ j = i
                        THEN [pc |-> "released", epoch |-> thread[p][i].epoch]
                        ELSE thread[q][j]
  <2>1. Goto(p, i, "released") /\ "released" \in Pc BY DEF Release, Pc
  <2> QED BY <1>1, <2>1, ThreadGoto
<1>4. \A q \in Proc, j \in Item :
        /\ thread'[q][j].epoch = thread[q][j].epoch
        /\ Alive(q, j)' => Alive(q, j)
        /\ Working(q, j)' => Working(q, j) /\ (q # p \/ j # i)
  BY <1>1, <1>3 DEF Alive, Working
<1>5. \A j \in Item : lease'[j].epoch = lease[j].epoch BY <1>2
<1>6. UniqueEpochs' BY <1>4, <1>5 DEF IInv, UniqueEpochs
<1>7. HoldsUnlapsed'
  <2> SUFFICES ASSUME NEW q \in Proc, NEW j \in Item,
                      Working(q, j)', <<q, j>> \notin lapsed'
               PROVE  (lease[j].owner = q /\ lease[j].epoch = thread[q][j].epoch
                       /\ lease[j].left > 0)'
    BY DEF HoldsUnlapsed
  <2>1. lease[j].owner = q /\ lease[j].epoch = thread[q][j].epoch /\ lease[j].left > 0
    BY <1>1, <1>4 DEF IInv, HoldsUnlapsed
  <2>2. lease'[j] = lease[j] BY <2>1, <1>2, <1>4
  <2> QED BY <2>1, <2>2, <1>4
<1>8. OwnerIsNewest'
  <2> SUFFICES ASSUME NEW q \in Proc, NEW j \in Item, Alive(q, j)', lease'[j].owner = q
               PROVE  thread'[q][j].epoch = lease'[j].epoch
    BY DEF OwnerIsNewest
  <2>1. lease'[j] = lease[j] BY <1>2
  <2> QED BY <2>1, <1>4 DEF IInv, OwnerIsNewest
<1> QED BY <1>6, <1>7, <1>8 DEF IInv

(* A thread that is gone no longer counts in any part of the invariant.      *)
LEMMA RemoveKeyStep ==
    ASSUME IInv, TypeOK', NEW p \in Proc, NEW i \in Item, RemoveKey(p, i) PROVE IInv'
<1>1. TypeOK /\ lapsed' = lapsed \ {<<p, i>>} /\ lease' = lease BY DEF IInv, RemoveKey
<1>2. \A q \in Proc, j \in Item :
        thread'[q][j] = IF q = p /\ j = i THEN [pc |-> "none", epoch |-> 0]
                                          ELSE thread[q][j]
  <2>1. SetThread(p, i, "none", 0) /\ "none" \in Pc /\ 0 \in Nat BY DEF RemoveKey, Pc
  <2> QED BY <1>1, <2>1, ThreadUpdate
<1>3. \A q \in Proc, j \in Item :
        Alive(q, j)' => thread'[q][j] = thread[q][j] /\ Alive(q, j) /\ (q # p \/ j # i)
  BY <1>2 DEF Alive
<1>4. UniqueEpochs' BY <1>1, <1>3 DEF IInv, UniqueEpochs
<1>5. HoldsUnlapsed'
  <2> SUFFICES ASSUME NEW q \in Proc, NEW j \in Item,
                      Working(q, j)', <<q, j>> \notin lapsed'
               PROVE  (lease[j].owner = q /\ lease[j].epoch = thread[q][j].epoch
                       /\ lease[j].left > 0)'
    BY DEF HoldsUnlapsed
  <2>1. Alive(q, j)' BY DEF Alive, Working
  <2>2. Working(q, j) /\ <<q, j>> \notin lapsed BY <2>1, <1>1, <1>3 DEF Working
  <2> QED BY <2>1, <2>2, <1>1, <1>3 DEF IInv, HoldsUnlapsed
<1>6. OwnerIsNewest' BY <1>1, <1>3 DEF IInv, OwnerIsNewest
<1> QED BY <1>4, <1>5, <1>6 DEF IInv

(* Neither do the threads of a process that died; its leases stay behind.    *)
LEMMA CrashStep ==
    ASSUME IInv, TypeOK', NEW p \in Proc, Crash(p) PROVE IInv'
<1>1. lease' = lease /\ lapsed' = {t \in lapsed : t[1] # p} BY DEF Crash
<1>2. \A q \in Proc, j \in Item :
        thread'[q][j] = IF q = p THEN NoThread ELSE thread[q][j]
  BY DEF IInv, TypeOK, Crash
<1>3. \A q \in Proc, j \in Item :
        Alive(q, j)' => thread'[q][j] = thread[q][j] /\ Alive(q, j) /\ q # p
  BY <1>2 DEF Alive, NoThread
<1>4. UniqueEpochs' BY <1>1, <1>3 DEF IInv, UniqueEpochs
<1>5. HoldsUnlapsed'
  <2> SUFFICES ASSUME NEW q \in Proc, NEW j \in Item,
                      Working(q, j)', <<q, j>> \notin lapsed'
               PROVE  (lease[j].owner = q /\ lease[j].epoch = thread[q][j].epoch
                       /\ lease[j].left > 0)'
    BY DEF HoldsUnlapsed
  <2>1. Alive(q, j)' BY DEF Alive, Working
  <2>2. Working(q, j) /\ <<q, j>> \notin lapsed BY <2>1, <1>1, <1>3 DEF Working
  <2> QED BY <2>1, <2>2, <1>1, <1>3 DEF IInv, HoldsUnlapsed
<1>6. OwnerIsNewest' BY <1>1, <1>3 DEF IInv, OwnerIsNewest
<1> QED BY <1>4, <1>5, <1>6 DEF IInv

(* RecoverStale and Tick leave the threads alone and keep the epochs.        *)
LEMMA RecoverStep ==
    ASSUME IInv, TypeOK', NEW p \in Proc, RecoverStale(p) PROVE IInv'
<1>1. TypeOK /\ thread' = thread /\ lapsed' = lapsed BY DEF IInv, RecoverStale
<1>2. \A j \in Item : \/ lease'[j] = lease[j]
                      \/ /\ ~Unexpired(j) /\ lease[j].owner # NoOwner
                         /\ lease'[j].owner = NoOwner /\ lease'[j].epoch = lease[j].epoch
  BY <1>1 DEF RecoverStale, TypeOK, Lease
<1>3. \A q \in Proc, j \in Item : (Alive(q, j)' <=> Alive(q, j)) /\ (Working(q, j)' <=> Working(q, j))
  BY <1>1 DEF Alive, Working
<1>4. UniqueEpochs' BY <1>1, <1>2, <1>3 DEF IInv, UniqueEpochs
<1>5. HoldsUnlapsed'
  BY <1>1, <1>2, <1>3 DEF IInv, HoldsUnlapsed, Unexpired
<1>6. OwnerIsNewest'
  BY <1>1, <1>2, <1>3, LeaseAssumption DEF IInv, OwnerIsNewest
<1> QED BY <1>4, <1>5, <1>6 DEF IInv

(* When a lease runs out its thread joins the lapsed ones in the same step.  *)
LEMMA TickStep == ASSUME IInv, TypeOK', Tick PROVE IInv'
<1>1. TypeOK /\ thread' = thread BY DEF IInv, Tick
<1>2. \A j \in Item : /\ lease'[j].owner = lease[j].owner
                      /\ lease'[j].epoch = lease[j].epoch
                      /\ lease[j].left > 1 => lease'[j].left > 0
  BY <1>1, LeaseAssumption DEF Tick, TypeOK, Lease
<1>3. \A q \in Proc, j \in Item : (Alive(q, j)' <=> Alive(q, j)) /\ (Working(q, j)' <=> Working(q, j))
  BY <1>1 DEF Alive, Working
<1>4. UniqueEpochs' BY <1>1, <1>2, <1>3 DEF IInv, UniqueEpochs
<1>5. HoldsUnlapsed'
  <2> SUFFICES ASSUME NEW q \in Proc, NEW j \in Item,
                      Working(q, j)', <<q, j>> \notin lapsed'
               PROVE  (lease[j].owner = q /\ lease[j].epoch = thread[q][j].epoch
                       /\ lease[j].left > 0)'
    BY DEF HoldsUnlapsed
  <2>1. /\ Working(q, j) /\ Alive(q, j)
        /\ <<q, j>> \notin lapsed
        /\ ~(Holder(q, j) /\ lease[j].left = 1)
    BY <1>3 DEF Tick, Working, Alive
  <2>2. lease[j].owner = q /\ lease[j].epoch = thread[q][j].epoch /\ lease[j].left > 0
    BY <2>1 DEF IInv, HoldsUnlapsed
  <2>3. lease[j].left > 1
    BY <2>1, <2>2, <1>1, LeaseAssumption DEF Holder, TypeOK, Lease
  <2> QED BY <2>2, <2>3, <1>1, <1>2
<1>6. OwnerIsNewest' BY <1>1, <1>2, <1>3 DEF IInv, OwnerIsNewest
<1> QED BY <1>4, <1>5, <1>6 DEF IInv

(* IInv is inductive.                                                        *)
LEMMA InvStep == ASSUME IInv, [Next]_vars PROVE IInv'
<1>1. TypeOK' BY TypeStep DEF IInv
<1> USE <1>1
<1>2. ASSUME NEW p \in Proc, NEW i \in Item, Acquire(p, i) PROVE IInv'
  BY <1>2, AcquireStep
<1>3. ASSUME NEW p \in Proc, NEW i \in Item, ThreadStep(p, i) PROVE IInv'
  <2> DEFINE Quiet == \/ Progress(p, i) \/ Sleep(p, i) \/ Finish(p, i) \/ WakeUp(p, i)
                      \/ StopAsleep(p, i) \/ LoopTop(p, i) \/ Inspect(p, i) \/ Fail(p, i)
                      \/ Heartbeat(p, i) /\ ~CanBeat(p, i)
  <2>1. CASE Quiet
    <3>1. TypeOK BY DEF IInv
    <3>2. lease' = lease /\ lapsed' = lapsed
      BY <2>1 DEF Progress, Sleep, Finish, WakeUp, StopAsleep, LoopTop, Inspect, Fail, Heartbeat
    <3>3. \/ thread' = thread
          \/ thread[p][i].pc = "work" /\ \E pc \in {"sleep", "exit", "beat"} : Goto(p, i, pc)
          \/ thread[p][i].pc = "sleep" /\ \E pc \in {"beat", "exit"} : Goto(p, i, pc)
          \/ thread[p][i].pc = "check" /\ \E pc \in {"lost", "work"} : Goto(p, i, pc)
          \/ thread[p][i].pc = "lost" /\ Goto(p, i, "exit")
          \/ thread[p][i].pc = "beat" /\ Goto(p, i, "check")
      <4>1. Progress(p, i) => thread' = thread BY DEF Progress
      <4>2. Fail(p, i) => thread[p][i].pc \in {"work", "lost"} /\ Goto(p, i, "exit")
        BY DEF Fail
      <4>3. Inspect(p, i) => /\ thread[p][i].pc = "check"
                             /\ Goto(p, i, "lost") \/ Goto(p, i, "work")
        BY DEF Inspect
      <4>4. Heartbeat(p, i) /\ ~CanBeat(p, i)
            => thread[p][i].pc = "beat" /\ Goto(p, i, "check")
        BY DEF Heartbeat
      <4> QED
        BY <2>1, <4>1, <4>2, <4>3, <4>4 DEF Sleep, Finish, WakeUp, StopAsleep, LoopTop
    <3>4. ASSUME NEW pc \in Pc, Goto(p, i, pc), pc # "none",
                 Alive(p, i), Working(p, i) \/ pc \in {"exit", "lost"}
          PROVE  \A q \in Proc, j \in Item :
                   /\ Alive(q, j)' => Alive(q, j) /\ thread'[q][j].epoch = thread[q][j].epoch
                   /\ Working(q, j)' => Working(q, j)
      <4>1. \A q \in Proc, j \in Item :
              thread'[q][j] = IF q = p /\ j = i
                              THEN [pc |-> pc, epoch |-> thread[p][i].epoch]
                              ELSE thread[q][j]
        BY <3>1, <3>4, ThreadGoto
      <4> QED BY <3>4, <4>1 DEF Alive, Working
    <3>5. \A q \in Proc, j \in Item :
            /\ Alive(q, j)' => Alive(q, j) /\ thread'[q][j].epoch = thread[q][j].epoch
            /\ Working(q, j)' => Working(q, j)
      <4>1. CASE thread' = thread BY <4>1 DEF Alive, Working
      <4>2. CASE thread' # thread
        <5>1. PICK pc \in Pc : /\ Goto(p, i, pc) /\ pc # "none"
                               /\ Alive(p, i) /\ (Working(p, i) \/ pc \in {"exit", "lost"})
          BY <3>3, <4>2 DEF Alive, Working, Pc
        <5> QED BY <5>1, <3>4
      <4> QED BY <4>1, <4>2
    <3> QED BY <3>2, <3>5, QuietStep
  <2>2. CASE Heartbeat(p, i) /\ CanBeat(p, i) BY <2>2, HeartbeatStep
  <2>3. CASE Release(p, i) BY <2>3, ReleaseStep
  <2>4. CASE RemoveKey(p, i) BY <2>4, RemoveKeyStep
  <2> QED BY <1>3, <2>1, <2>2, <2>3, <2>4 DEF ThreadStep
<1>4. ASSUME NEW p \in Proc, RecoverStale(p) PROVE IInv' BY <1>4, RecoverStep
<1>5. ASSUME NEW p \in Proc, Crash(p) PROVE IInv' BY <1>5, CrashStep
<1>6. CASE Tick BY <1>6, TickStep
<1>7. CASE UNCHANGED <<lease, thread, lapsed>>
  <2>1. \A q \in Proc, j \in Item :
          /\ Alive(q, j)' => Alive(q, j) /\ thread'[q][j].epoch = thread[q][j].epoch
          /\ Working(q, j)' => Working(q, j)
    BY <1>7 DEF Alive, Working
  <2> QED BY <1>7, <2>1, QuietStep
<1> QED
  BY <1>2, <1>3, <1>4, <1>5, <1>6, <1>7 DEF Next, vars, Restart, RewriteItem, RetryDue

(* TypeOK holds in every reachable state.                                    *)
THEOREM TypeCorrect == Spec => []TypeOK
<1>1. Init => TypeOK BY InitInv DEF IInv
<1>2. TypeOK /\ [Next]_vars => TypeOK' BY TypeStep
<1> QED BY <1>1, <1>2, PTL DEF Spec

(* The inductive invariant holds in every reachable state.                   *)
THEOREM Invariance == Spec => []IInv
<1>1. IInv /\ [Next]_vars => IInv' BY InvStep
<1> QED BY InitInv, <1>1, PTL DEF Spec

(* Two daemons work on one item only after a lease ran out.                  *)
THEOREM SoleWorkerHolds == Spec => []SoleWorker
<1>1. IInv => SoleWorker
  BY DEF IInv, HoldsUnlapsed, SoleWorker
<1> QED BY Invariance, <1>1, PTL

(* No two live worker threads of an item carry the same epoch.               *)
THEOREM EpochsAreUnique == Spec => []UniqueEpochs
<1>1. IInv => UniqueEpochs BY DEF IInv
<1> QED BY Invariance, <1>1, PTL

(* An unexpired lease is taken from its owner by nobody else.                *)
THEOREM ActiveLeaseKept == Spec => ActiveLeaseIsKept
<1> DEFINE Kept == \A i \in Item : Unexpired(i) /\ lease'[i].owner # lease[i].owner
                     => /\ thread[lease[i].owner][i].pc = "exit"
                        /\ thread[lease[i].owner][i].epoch = lease[i].epoch
<1>1. ASSUME IInv, [Next]_vars PROVE Kept
  <2> SUFFICES ASSUME NEW i \in Item, Unexpired(i), lease'[i].owner # lease[i].owner
               PROVE  /\ thread[lease[i].owner][i].pc = "exit"
                      /\ thread[lease[i].owner][i].epoch = lease[i].epoch
    OBVIOUS
  <2>1. TypeOK BY <1>1 DEF IInv
  <2>2. ASSUME NEW p \in Proc, NEW j \in Item, Acquire(p, j) PROVE FALSE
    BY <2>1, <2>2 DEF Acquire, TypeOK
  <2>3. ASSUME NEW p \in Proc, NEW j \in Item, ThreadStep(p, j), ~Release(p, j) PROVE FALSE
    <3>1. CASE Heartbeat(p, j)
      <4>1. CASE CanBeat(p, j)
        <5>1. lease' = [lease EXCEPT ![j] = [owner |-> p, epoch |-> @.epoch, left |-> TTL]]
          BY <3>1, <4>1 DEF Heartbeat
        <5>2. j = i BY <5>1, <2>1 DEF TypeOK
        <5>3. lease'[i].owner = p BY <5>1, <5>2, <2>1 DEF TypeOK
        <5>4. lease[i].owner = p BY <4>1, <5>2 DEF CanBeat, Unexpired
        <5> QED BY <5>3, <5>4
      <4>2. CASE ~CanBeat(p, j) BY <3>1, <4>2 DEF Heartbeat
      <4> QED BY <4>1, <4>2
    <3>2. CASE UNCHANGED lease BY <3>2
    <3> QED
      BY <2>3, <3>1, <3>2 DEF ThreadStep, Progress, Sleep, Finish, WakeUp, StopAsleep,
                              LoopTop, Inspect, Fail, RemoveKey
  <2>4. ASSUME NEW p \in Proc, NEW j \in Item, Release(p, j)
        PROVE  thread[lease[i].owner][i].pc = "exit" /\ thread[lease[i].owner][i].epoch = lease[i].epoch
    BY <2>1, <2>4 DEF Release, TypeOK
  <2>5. ASSUME NEW p \in Proc, RecoverStale(p) PROVE FALSE
    BY <2>1, <2>5 DEF RecoverStale, TypeOK
  <2>6. CASE Tick BY <2>1, <2>6 DEF Tick, TypeOK, Lease
  <2>7. CASE UNCHANGED lease BY <2>7
  <2> QED
    BY <1>1, <2>2, <2>3, <2>4, <2>5, <2>6, <2>7
       DEF Next, vars, Crash, Restart, RewriteItem, RetryDue
<1> QED BY Invariance, <1>1, PTL DEF Spec, ActiveLeaseIsKept

----------------------------------------------------------------------------
(* QueueAdmission, for every number of runs and items, every host and all    *)
(* limits.                                                                   *)
(*                                                                           *)
(* The limits are those of what a scope holds.  What makes them inductive is *)
(* that a plan no other worker has overtaken still fits beside what its      *)
(* scope holds (PlansFit): every step but a spawn leaves a scope with less   *)
(* than it held, and a spawn marks the plans of all other runs.              *)

CONSTANTS Order, RunOf, ClassOf, ScopeOf, Sequential, Cpus, Total, HostStates,
          SoftLimit, HardLimit, HeavyLimit, MaxRestarts
VARIABLES status, active, alive, due, host, pressed, seen, plan, grown, raced, restarts

Admission == INSTANCE QueueAdmission WITH crashes <- restarts, MaxCrashes <- MaxRestarts

(* A set of positions has a least one.                                       *)
LEMMA LeastPosition ==
    ASSUME NEW S \in SUBSET Nat, S # {}
    PROVE  \E n \in S : \A m \in S : n <= m
<1> DEFINE R == OpToRel(<, Nat)
<1>1. IsWellFoundedOn(R, Nat) BY NatLessThanWellFounded
<1>2. \A m, n \in Nat : m < n => <<m, n>> \in R BY Zenon DEF OpToRel
<1> HIDE DEF R
<1>3. PICK n \in S : \A m \in S : ~ (<<m, n>> \in R) BY <1>1, WFMin
<1>4. ASSUME NEW m \in S PROVE n <= m
  <2>1. ~ (m < n) BY <1>2, <1>3
  <2> QED BY <2>1
<1> QED BY <1>4

---------------------------------------------------------------------------
(* The instance counts as this module does.                                  *)
LEMMA SameCardinality == \A S : Admission!Cardinality(S) = Cardinality(S)
BY DEF Admission!Cardinality, Cardinality

(* What a set of items reserves.                                             *)
Count(S, class) == Cardinality({i \in S : ClassOf[i] = class})

LEMMA CountType ==
    ASSUME NEW S, IsFiniteSet(S), NEW class
    PROVE  Count(S, class) \in Nat /\ IsFiniteSet({i \in S : ClassOf[i] = class})
<1>1. {i \in S : ClassOf[i] = class} \in SUBSET S OBVIOUS
<1>2. IsFiniteSet({i \in S : ClassOf[i] = class}) BY <1>1, FS_Subset
<1> QED BY <1>2, FS_CardinalityType DEF Count

LEMMA CountOfLess ==
    ASSUME NEW T, IsFiniteSet(T), NEW S \in SUBSET T, NEW class
    PROVE  Count(S, class) <= Count(T, class) /\ IsFiniteSet(S)
<1>1. {i \in S : ClassOf[i] = class} \in SUBSET {i \in T : ClassOf[i] = class} OBVIOUS
<1>2. IsFiniteSet({i \in T : ClassOf[i] = class}) BY CountType
<1>3. IsFiniteSet(S) BY FS_Subset
<1> QED BY <1>1, <1>2, <1>3, FS_Subset DEF Count

LEMMA CountOfBoth ==
    ASSUME NEW S, IsFiniteSet(S), NEW T, IsFiniteSet(T), NEW class
    PROVE  Count(S \cup T, class) <= Count(S, class) + Count(T, class)
<1> DEFINE A == {i \in S : ClassOf[i] = class}
           B == {i \in T : ClassOf[i] = class}
<1>1. {i \in S \cup T : ClassOf[i] = class} = A \cup B OBVIOUS
<1>2. IsFiniteSet(A) /\ IsFiniteSet(B) BY CountType
<1>3. Count(S, class) = Cardinality(A) /\ Count(T, class) = Cardinality(B)
      /\ Count(S \cup T, class) = Cardinality(A \cup B)
  BY <1>1 DEF Count
<1> HIDE DEF A, B
<1>4. A \cap B \in SUBSET A OBVIOUS
<1>5. IsFiniteSet(A \cap B) BY <1>2, <1>4, FS_Subset
<1>6. Cardinality(A \cup B) = Cardinality(A) + Cardinality(B) - Cardinality(A \cap B)
  BY <1>2, FS_Union
<1>7. Cardinality(A) \in Nat /\ Cardinality(B) \in Nat /\ Cardinality(A \cap B) \in Nat
  BY <1>2, <1>5, FS_CardinalityType
<1> QED BY <1>3, <1>6, <1>7

(* What the items of a set reserve together, by what each class reserves.    *)
LEMMA Sums ==
    ASSUME NEW S, IsFiniteSet(S)
    PROVE  /\ Admission!Together(S)["tasks"] = Count(S, "cheap") + Count(S, "mid") + Count(S, "heavy")
           /\ Admission!Together(S)["heavy"] = Count(S, "heavy")
           /\ Admission!Together(S)["cpu"] = Count(S, "cheap") * 250 + Count(S, "mid") * 500
                                     + Count(S, "heavy") * 2000
           /\ Admission!Together(S)["memory"] = Count(S, "cheap") * 2 + Count(S, "mid") * 8
                                        + Count(S, "heavy") * 32
<1> DEFINE c == Count(S, "cheap")
           m == Count(S, "mid")
           h == Count(S, "heavy")
<1>1. c \in Nat /\ m \in Nat /\ h \in Nat BY CountType
<1>2. /\ Admission!Reservation("cheap") = [tasks |-> 1, heavy |-> 0, cpu |-> 250, memory |-> 2]
      /\ Admission!Reservation("mid") = [tasks |-> 1, heavy |-> 0, cpu |-> 500, memory |-> 8]
      /\ Admission!Reservation("heavy") = [tasks |-> 1, heavy |-> 1, cpu |-> 2000, memory |-> 32]
  BY DEF Admission!Reservation
<1>3. \A f \in {"tasks", "heavy", "cpu", "memory"} : Admission!Together(S)[f] =
        c * Admission!Reservation("cheap")[f] + m * Admission!Reservation("mid")[f] + h * Admission!Reservation("heavy")[f]
  BY SameCardinality DEF Admission!Together, Count
<1> HIDE DEF c, m, h
<1>4. Admission!Together(S)["tasks"] = c * 1 + m * 1 + h * 1 BY <1>2, <1>3
<1>5. Admission!Together(S)["heavy"] = c * 0 + m * 0 + h * 1 BY <1>2, <1>3
<1>6. Admission!Together(S)["cpu"] = c * 250 + m * 500 + h * 2000 BY <1>2, <1>3
<1>7. Admission!Together(S)["memory"] = c * 2 + m * 8 + h * 32 BY <1>2, <1>3
<1> QED BY <1>1, <1>4, <1>5, <1>6, <1>7 DEF c, m, h

---------------------------------------------------------------------------
(* Whether a set of items fits a scope's host.                               *)
AdmissionFits(scope, S) ==
    /\ Admission!Together(S)["tasks"] <= HardLimit /\ Admission!Together(S)["heavy"] <= HeavyLimit
    /\ Admission!Together(S)["cpu"] <= Cpus[scope] * 1000
    /\ Admission!Together(S)["memory"] + Admission!SafetyFloor(scope) <= Total[scope]

LEMMA FloorFits ==
    ASSUME Admission!Parameters, NEW s \in Admission!Scopes \ {Admission!NoLauncher}
    PROVE  /\ Admission!SafetyFloor(s) \in Nat /\ Admission!SafetyFloor(s) <= Total[s]
           /\ Total[s] \in Nat /\ Cpus[s] \in Nat /\ HardLimit \in Nat /\ HeavyLimit \in Nat
<1>1. /\ Total[s] \in Nat /\ Total[s] >= 2 /\ Cpus[s] \in Nat
      /\ HardLimit \in Nat /\ HeavyLimit \in Nat
  BY DEF Admission!Parameters
<1> DEFINE e == Total[s] \div 8
<1>2. e \in Nat /\ e <= Total[s] BY <1>1
<1>3. Admission!SafetyFloor(s) = IF e < 2 THEN 2 ELSE IF e > 8 THEN 8 ELSE e
  BY DEF Admission!SafetyFloor
<1> HIDE DEF e
<1> QED BY <1>1, <1>2, <1>3

LEMMA NothingFits ==
    ASSUME Admission!Parameters, NEW s \in Admission!Scopes \ {Admission!NoLauncher}
    PROVE  AdmissionFits(s, {})
<1>1. \A class : Count({}, class) = 0
  <2>1. \A class : {i \in {} : ClassOf[i] = class} = {} OBVIOUS
  <2> QED BY <2>1, FS_EmptySet DEF Count
<1>2. IsFiniteSet({}) BY FS_EmptySet
<1> QED BY <1>1, <1>2, Sums, FloorFits DEF AdmissionFits

LEMMA LessFits ==
    ASSUME Admission!Parameters, NEW s \in Admission!Scopes \ {Admission!NoLauncher}, NEW T,
           IsFiniteSet(T), AdmissionFits(s, T),
           NEW S \in SUBSET T
    PROVE  AdmissionFits(s, S)
<1>1. IsFiniteSet(S) BY FS_Subset
<1>2. \A class : /\ Count(S, class) \in Nat /\ Count(T, class) \in Nat
                 /\ Count(S, class) <= Count(T, class)
  BY <1>1, CountType, CountOfLess
<1> DEFINE c == Count(S, "cheap")
           m == Count(S, "mid")
           h == Count(S, "heavy")
           cc == Count(T, "cheap")
           mm == Count(T, "mid")
           hh == Count(T, "heavy")
<1>3. /\ c \in Nat /\ m \in Nat /\ h \in Nat /\ cc \in Nat /\ mm \in Nat /\ hh \in Nat
      /\ c <= cc /\ m <= mm /\ h <= hh
  BY <1>2
<1>4. /\ cc + mm + hh <= HardLimit /\ hh <= HeavyLimit
      /\ cc * 250 + mm * 500 + hh * 2000 <= Cpus[s] * 1000
      /\ cc * 2 + mm * 8 + hh * 32 + Admission!SafetyFloor(s) <= Total[s]
  BY Sums DEF AdmissionFits
<1>5. /\ Admission!Together(S)["tasks"] = c + m + h /\ Admission!Together(S)["heavy"] = h
      /\ Admission!Together(S)["cpu"] = c * 250 + m * 500 + h * 2000
      /\ Admission!Together(S)["memory"] = c * 2 + m * 8 + h * 32
  BY <1>1, Sums
<1> HIDE DEF c, m, h, cc, mm, hh
<1>6. /\ Admission!SafetyFloor(s) \in Nat /\ Total[s] \in Nat /\ Cpus[s] \in Nat /\ HardLimit \in Nat
      /\ HeavyLimit \in Nat
  BY FloorFits
<1>7. c + m + h <= HardLimit /\ h <= HeavyLimit BY <1>3, <1>4, <1>6
<1>8. c * 250 + m * 500 + h * 2000 <= Cpus[s] * 1000 BY <1>3, <1>4, <1>6
<1>9. c * 2 + m * 8 + h * 32 + Admission!SafetyFloor(s) <= Total[s] BY <1>3, <1>4, <1>6
<1> QED BY <1>5, <1>7, <1>8, <1>9 DEF AdmissionFits

(* An item that need not wait fits beside what its scope holds and what was  *)
(* admitted before it.                                                       *)
LEMMA AdmittedFits ==
    ASSUME Admission!Parameters, NEW s \in Admission!Scopes \ {Admission!NoLauncher},
           IsFiniteSet(Admission!Holding(s)),
           NEW A, IsFiniteSet(A), NEW i, NEW p, ~Admission!Waits(s, A, p, i)
    PROVE  AdmissionFits(s, Admission!Holding(s) \cup A \cup {i})
<1> DEFINE H == Admission!Holding(s)
           I == {i}
           U == H \cup A \cup I
<1>1. IsFiniteSet(I) BY FS_Singleton
<1>2. IsFiniteSet(H \cup A) /\ IsFiniteSet(U) BY <1>1, FS_Union
<1>3. LET held(f) == Admission!Reserved(s)[f] + Admission!Together(A)[f] + Admission!Together(I)[f]
      IN  /\ ~(held("tasks") > HardLimit) /\ ~(held("heavy") > HeavyLimit)
          /\ ~(held("memory") + Admission!SafetyFloor(s) > Total[s])
          /\ ~(held("cpu") > Cpus[s] * 1000)
  BY DEF Admission!Waits
<1> HIDE DEF H, I, U
<1>4. \A class : /\ Count(H, class) \in Nat /\ Count(A, class) \in Nat
                 /\ Count(I, class) \in Nat /\ Count(U, class) \in Nat
                 /\ Count(H \cup A, class) \in Nat
                 /\ Count(H \cup A, class) <= Count(H, class) + Count(A, class)
                 /\ Count(U, class) <= Count(H \cup A, class) + Count(I, class)
  BY <1>1, <1>2, CountType, CountOfBoth DEF H, U
<1>5. \A class : Count(U, class) <= Count(H, class) + Count(A, class) + Count(I, class)
  <2> TAKE class
  <2>1. /\ Count(H, class) \in Nat /\ Count(A, class) \in Nat
        /\ Count(I, class) \in Nat /\ Count(U, class) \in Nat
        /\ Count(H \cup A, class) \in Nat
        /\ Count(H \cup A, class) <= Count(H, class) + Count(A, class)
        /\ Count(U, class) <= Count(H \cup A, class) + Count(I, class)
    BY <1>4
  <2> QED BY <2>1
<1> DEFINE c(S) == Count(S, "cheap")
           m(S) == Count(S, "mid")
           h(S) == Count(S, "heavy")
<1>6. /\ c(H) \in Nat /\ c(A) \in Nat /\ c(I) \in Nat /\ c(U) \in Nat
      /\ m(H) \in Nat /\ m(A) \in Nat /\ m(I) \in Nat /\ m(U) \in Nat
      /\ h(H) \in Nat /\ h(A) \in Nat /\ h(I) \in Nat /\ h(U) \in Nat
      /\ c(U) <= c(H) + c(A) + c(I)
      /\ m(U) <= m(H) + m(A) + m(I)
      /\ h(U) <= h(H) + h(A) + h(I)
  BY <1>4, <1>5
<1> DEFINE tasks(S) == c(S) + m(S) + h(S)
           cpu(S) == c(S) * 250 + m(S) * 500 + h(S) * 2000
           memory(S) == c(S) * 2 + m(S) * 8 + h(S) * 32
<1>7. \A S : IsFiniteSet(S) => /\ Admission!Together(S)["tasks"] = tasks(S)
                               /\ Admission!Together(S)["heavy"] = h(S)
                               /\ Admission!Together(S)["cpu"] = cpu(S)
                               /\ Admission!Together(S)["memory"] = memory(S)
  BY Sums
<1>8. /\ IsFiniteSet(H) /\ Admission!Reserved(s) = Admission!Together(H)
  BY DEF H, Admission!Reserved
<1>9. /\ Admission!SafetyFloor(s) \in Nat /\ Total[s] \in Nat /\ Cpus[s] \in Nat /\ HardLimit \in Nat
      /\ HeavyLimit \in Nat
  BY FloorFits
<1>10. /\ tasks(H) + tasks(A) + tasks(I) <= HardLimit
       /\ h(H) + h(A) + h(I) <= HeavyLimit
       /\ memory(H) + memory(A) + memory(I) + Admission!SafetyFloor(s) <= Total[s]
       /\ cpu(H) + cpu(A) + cpu(I) <= Cpus[s] * 1000
  <2>0. /\ tasks(H) + tasks(A) + tasks(I) \in Nat /\ h(H) + h(A) + h(I) \in Nat
        /\ memory(H) + memory(A) + memory(I) + Admission!SafetyFloor(s) \in Nat
        /\ cpu(H) + cpu(A) + cpu(I) \in Nat
    BY <1>6, <1>9
  <2> HIDE DEF c, m, h, tasks, cpu, memory
  <2>1. /\ ~(tasks(H) + tasks(A) + tasks(I) > HardLimit)
        /\ ~(h(H) + h(A) + h(I) > HeavyLimit)
        /\ ~(memory(H) + memory(A) + memory(I) + Admission!SafetyFloor(s) > Total[s])
        /\ ~(cpu(H) + cpu(A) + cpu(I) > Cpus[s] * 1000)
    BY <1>1, <1>3, <1>7, <1>8
  <2> QED BY <2>0, <2>1, <1>9
<1>11. /\ tasks(U) <= tasks(H) + tasks(A) + tasks(I) BY <1>6
<1>12. /\ cpu(U) <= cpu(H) + cpu(A) + cpu(I) BY <1>6
<1>13. /\ memory(U) <= memory(H) + memory(A) + memory(I) BY <1>6
<1>14. /\ tasks(U) \in Nat /\ cpu(U) \in Nat /\ memory(U) \in Nat
       /\ tasks(H) + tasks(A) + tasks(I) \in Nat
       /\ memory(H) + memory(A) + memory(I) \in Nat
       /\ cpu(H) + cpu(A) + cpu(I) \in Nat /\ h(H) + h(A) + h(I) \in Nat
  BY <1>6
<1> HIDE DEF c, m, h, tasks, cpu, memory
<1>15. /\ tasks(U) <= HardLimit /\ h(U) <= HeavyLimit /\ cpu(U) <= Cpus[s] * 1000
       /\ memory(U) + Admission!SafetyFloor(s) <= Total[s]
  BY <1>6, <1>9, <1>10, <1>11, <1>12, <1>13, <1>14
<1>16. AdmissionFits(s, U) BY <1>2, <1>7, <1>15 DEF AdmissionFits
<1> QED BY <1>16 DEF H, I, U

---------------------------------------------------------------------------
(* The selection exists, although it is chosen item by item.                 *)
Fair(in, s, ready, p, n) ==
    Order[n] \in ready => (Order[n] \in in <=> ~Admission!Waits(s, in \cap Admission!Before(n), p, Order[n]))

LEMMA Positions ==
    ASSUME Admission!Parameters
    PROVE  /\ Len(Order) \in Nat /\ DOMAIN Order = 1..Len(Order)
           /\ \A m, n \in DOMAIN Order : Order[m] = Order[n] => m = n
           /\ \A i \in Admission!Items : \E n \in DOMAIN Order : Order[n] = i
           /\ \A n \in DOMAIN Order : Order[n] \in Admission!Items
BY DEF Admission!Parameters, Admission!IsInjective, Admission!Items, Admission!Range

LEMMA SelectExists ==
    ASSUME Admission!Parameters, NEW s, NEW ready \in SUBSET Admission!Items, NEW p
    PROVE  \E in \in SUBSET ready : \A n \in DOMAIN Order : Fair(in, s, ready, p, n)
<1> DEFINE len == Len(Order)
           UpTo(n) == \E in \in SUBSET (ready \cap Admission!Before(n + 1)) :
                        \A k \in 1..n : Fair(in, s, ready, p, k)
           Bad == {n \in 0..len : ~UpTo(n)}
<1>1. /\ len \in Nat /\ DOMAIN Order = 1..len
      /\ \A m, n \in 1..len : Order[m] = Order[n] => m = n
  BY Positions
<1> HIDE DEF len
<1>2. UpTo(0)
  <2>1. {} \in SUBSET (ready \cap Admission!Before(0 + 1)) /\ \A k \in 1..0 : FALSE OBVIOUS
  <2> QED BY <2>1
<1>3. ASSUME NEW n \in 0..len, n # 0, UpTo(n - 1) PROVE UpTo(n)
  <2>1. PICK in \in SUBSET (ready \cap Admission!Before(n)) : \A k \in 1..(n - 1) : Fair(in, s, ready, p, k)
    <3>1. (n - 1) + 1 = n BY <1>1
    <3>2. PICK in \in SUBSET (ready \cap Admission!Before((n - 1) + 1)) :
                 \A k \in 1..(n - 1) : Fair(in, s, ready, p, k)
      BY <1>3
    <3> QED BY <3>1, <3>2
  <2> DEFINE i == Order[n]
             new == IF i \in ready /\ ~Admission!Waits(s, in, p, i) THEN in \cup {i} ELSE in
  <2>2. n \in 1..len /\ n \in Nat BY <1>1, <1>3
  <2>3. \A k \in 1..n : i \notin Admission!Before(k) BY <1>1, <2>2 DEF Admission!Before
  <2>4. \A k \in 1..(n - 1) : Order[k] # i BY <1>1, <2>2
  <2>5. in \in SUBSET Admission!Before(n) /\ i \notin in BY <2>1, <2>2, <2>3
  <2>6. \A k \in 1..n : new \cap Admission!Before(k) = in \cap Admission!Before(k) BY <2>3
  <2>7. Admission!Before(n) \subseteq Admission!Before(n + 1) /\ i \in Admission!Before(n + 1)
    BY <2>2 DEF Admission!Before
  <2>8. new \in SUBSET (ready \cap Admission!Before(n + 1)) BY <2>1, <2>7
  <2>9. ASSUME NEW k \in 1..n PROVE Fair(new, s, ready, p, k)
    <3>1. CASE k = n
      <4>1. new \cap Admission!Before(k) = in BY <2>5, <2>6, <3>1
      <4>2. i \in ready => (i \in new <=> ~Admission!Waits(s, in, p, i)) BY <2>5
      <4> HIDE DEF new
      <4> QED BY <3>1, <4>1, <4>2 DEF Fair
    <3>2. CASE k # n
      <4>1. k \in 1..(n - 1) BY <2>2, <3>2
      <4>2. Order[k] \in new <=> Order[k] \in in BY <2>4, <4>1
      <4>3. new \cap Admission!Before(k) = in \cap Admission!Before(k) BY <2>6
      <4>4. Fair(in, s, ready, p, k) BY <2>1, <4>1
      <4> HIDE DEF new
      <4> QED BY <4>2, <4>3, <4>4 DEF Fair
    <3> QED BY <3>1, <3>2
  <2> HIDE DEF new
  <2> QED BY <2>8, <2>9
<1>4. Bad = {}
  <2> SUFFICES ASSUME Bad # {} PROVE FALSE OBVIOUS
  <2>1. Bad \in SUBSET Nat BY <1>1
  <2>2. PICK n \in Bad : \A m \in Bad : n <= m BY <2>1, LeastPosition
  <2>3. n \in 0..len /\ ~UpTo(n) OBVIOUS
  <2> HIDE DEF UpTo
  <2>4. n # 0 BY <1>2, <2>3
  <2>5. n - 1 \in 0..len /\ n - 1 < n BY <1>1, <2>3, <2>4
  <2>6. n - 1 \notin Bad BY <2>2, <2>3, <2>5
  <2>7. UpTo(n - 1) BY <2>5, <2>6
  <2> QED BY <1>3, <2>3, <2>4, <2>7
<1>5. UpTo(len) BY <1>1, <1>4
<1> QED BY <1>1, <1>5

LEMMA SelectIs ==
    ASSUME Admission!Parameters, NEW s, NEW ready \in SUBSET Admission!Items, NEW p
    PROVE  /\ Admission!Select(s, ready, p) \in SUBSET ready
           /\ \A n \in DOMAIN Order : Fair(Admission!Select(s, ready, p), s, ready, p, n)
<1>1. \E in \in SUBSET ready : \A n \in DOMAIN Order : Fair(in, s, ready, p, n)
  BY SelectExists
<1> QED BY <1>1 DEF Admission!Select, Fair

(* What is selected fits beside what the scope holds.                        *)
LEMMA SelectFits ==
    ASSUME Admission!Parameters, NEW s \in Admission!Scopes \ {Admission!NoLauncher},
           NEW ready \in SUBSET Admission!Items, NEW p,
           Admission!Select(s, ready, p) # {}
    PROVE  AdmissionFits(s, Admission!Holding(s) \cup Admission!Select(s, ready, p))
<1> DEFINE in == Admission!Select(s, ready, p)
           Last == {n \in Nat : in \subseteq Admission!Before(n + 1)}
<1>1. in \in SUBSET ready /\ in # {} BY SelectIs
<1>2. \A n \in DOMAIN Order : Fair(in, s, ready, p, n) BY SelectIs
<1> HIDE DEF in
<1>3. Len(Order) \in Last BY <1>1, Positions DEF Admission!Before
<1>4. PICK n \in Last : \A m \in Last : n <= m BY <1>3, LeastPosition
<1>5. n \in 1..Len(Order)
  <2>1. n <= Len(Order) /\ n \in Nat /\ Len(Order) \in Nat BY <1>3, <1>4, Positions
  <2>2. n # 0
    <3>1. n = 0 => in \subseteq {} BY <1>4 DEF Admission!Before
    <3> QED BY <1>1, <3>1
  <2> QED BY <2>1, <2>2
<1>6. in \subseteq Admission!Before(n) \cup {Order[n]} BY <1>4, <1>5 DEF Admission!Before
<1>7. Order[n] \in in
  <2> SUFFICES ASSUME Order[n] \notin in PROVE FALSE OBVIOUS
  <2>1. n - 1 \in Nat /\ (n - 1) + 1 = n /\ ~(n <= n - 1) BY <1>5
  <2>2. in \subseteq Admission!Before(n) BY <1>6
  <2>3. n - 1 \in Last BY <2>1, <2>2
  <2> QED BY <1>4, <2>1, <2>3
<1>8. ~Admission!Waits(s, in \cap Admission!Before(n), p, Order[n])
  BY <1>1, <1>2, <1>5, <1>7, Positions DEF Fair
<1>9. IsFiniteSet(Admission!Items)
  <2>1. IsFiniteSet(1..Len(Order)) BY Positions, FS_Interval
  <2>2. Order \in Surjection(1..Len(Order), Admission!Items)
    BY Positions DEF Surjection, Admission!Parameters
  <2> QED BY <2>1, <2>2, FS_Surjection
<1>10. Admission!Holding(s) \in SUBSET Admission!Items /\ in \cap Admission!Before(n) \in SUBSET Admission!Items
  BY <1>1 DEF Admission!Holding
<1>11. IsFiniteSet(Admission!Holding(s)) /\ IsFiniteSet(in \cap Admission!Before(n))
  BY <1>9, <1>10, FS_Subset
<1>12. AdmissionFits(s, Admission!Holding(s) \cup (in \cap Admission!Before(n)) \cup {Order[n]})
  BY <1>8, <1>11, AdmittedFits
<1>13. Admission!Holding(s) \cup (in \cap Admission!Before(n)) \cup {Order[n]} = Admission!Holding(s) \cup in
  BY <1>6, <1>7
<1> QED BY <1>12, <1>13 DEF in

---------------------------------------------------------------------------
(* The inductive invariant.                                                  *)
Part(run, scope) == {i \in plan[run] : ScopeOf[i] = scope}

PlansFit == \A run \in Admission!Runs, s \in Admission!Scopes \ {Admission!NoLauncher} :
    run \notin grown => Part(run, s) = {} \/ AdmissionFits(s, Admission!Holding(s) \cup Part(run, s))

AdmissionTyped ==
    /\ status \in [Admission!Items -> {"pending", "waiting", "running", "done"}]
    /\ seen \in [Admission!Runs -> SUBSET Admission!Items] /\ plan \in [Admission!Runs -> SUBSET Admission!Items]

AdmissionInv == Admission!TypeOK /\ AdmissionTyped /\ PlansFit /\ Admission!ReservationsWithinLimits

LEMMA ItemsFinite ==
    ASSUME Admission!Parameters
    PROVE  IsFiniteSet(Admission!Items) /\ \A s : Admission!Holding(s) \in SUBSET Admission!Items
<1>1. IsFiniteSet(1..Len(Order)) BY Positions, FS_Interval
<1>2. Order \in Surjection(1..Len(Order), Admission!Items)
  BY Positions DEF Surjection, Admission!Parameters
<1> QED BY <1>1, <1>2, FS_Surjection DEF Admission!Holding

(* The steps that reserve nothing.                                           *)
LEMMA NothingReserved ==
    ASSUME Admission!Parameters, AdmissionInv,
           \A s : Admission!Holding(s)' \subseteq Admission!Holding(s),
           \A run \in Admission!Runs : plan'[run] = {} \/ (plan'[run] = plan[run] /\ (run \notin grown' => run \notin grown)),
           raced' = raced \/ (~raced' /\ \A s : Admission!Holding(s)' = {})
    PROVE  PlansFit' /\ Admission!ReservationsWithinLimits'
<1>1. \A s : IsFiniteSet(Admission!Holding(s)) /\ Admission!Holding(s) \in SUBSET Admission!Items
  BY ItemsFinite, FS_Subset
<1>2. ASSUME NEW run \in Admission!Runs, NEW s \in Admission!Scopes \ {Admission!NoLauncher},
             run \notin grown', Part(run, s)' # {}
      PROVE  AdmissionFits(s, Admission!Holding(s)' \cup Part(run, s)')
  <2>1. plan'[run] = plan[run] /\ run \notin grown BY <1>2 DEF Part
  <2>2. Part(run, s)' = Part(run, s) /\ Part(run, s) \in SUBSET Admission!Items
    BY <2>1 DEF Part, AdmissionInv, AdmissionTyped
  <2>3. AdmissionFits(s, Admission!Holding(s) \cup Part(run, s))
    BY <1>2, <2>1, <2>2 DEF AdmissionInv, PlansFit
  <2>4. IsFiniteSet(Admission!Holding(s) \cup Part(run, s))
    BY <1>1, <2>2, ItemsFinite, FS_Subset, FS_Union
  <2>5. Admission!Holding(s)' \cup Part(run, s)' \in SUBSET (Admission!Holding(s) \cup Part(run, s))
    BY <2>2
  <2> QED BY <2>3, <2>4, <2>5, LessFits
<1>3. PlansFit'
  BY <1>2 DEF PlansFit, AdmissionFits, Admission!SafetyFloor, Admission!Runs, Admission!Scopes,
     Admission!Together
<1>4. ASSUME ~raced', NEW s \in Admission!Scopes \ {Admission!NoLauncher}
      PROVE  AdmissionFits(s, Admission!Holding(s)')
  <2>1. CASE Admission!Holding(s)' = {} BY <2>1, NothingFits
  <2>2. CASE ~raced
    <3>1. AdmissionFits(s, Admission!Holding(s))
      BY <2>2 DEF AdmissionInv, Admission!ReservationsWithinLimits, Admission!WithinLimits,
         Admission!Reserved, AdmissionFits
    <3> QED BY <1>1, <3>1, LessFits
  <2> QED BY <1>4, <2>1, <2>2
<1>5. Admission!ReservationsWithinLimits'
  BY <1>4 DEF Admission!ReservationsWithinLimits, Admission!WithinLimits, Admission!Reserved,
       AdmissionFits
<1> QED BY <1>3, <1>5

---------------------------------------------------------------------------
(* What the steps do to the types.                                           *)
LEMMA ReadyAreItems ==
    ASSUME NEW run
    PROVE  Admission!ReadyItems(run) \in SUBSET Admission!Items
BY DEF Admission!ReadyItems

LEMMA AdmittedAreItems ==
    ASSUME Admission!Parameters, AdmissionTyped, NEW run \in Admission!Runs, NEW s, NEW p
    PROVE  Admission!Admitted(run, s, p) \in SUBSET {i \in seen[run] : ScopeOf[i] = s}
<1> DEFINE ready == {i \in seen[run] : ScopeOf[i] = s}
           pressure == (s = Admission!LocalScope /\ p)
<1>1. ready \in SUBSET Admission!Items BY DEF AdmissionTyped
<1>2. Admission!Admitted(run, s, p) = IF s = Admission!NoLauncher \/ ~host[s].up THEN {}
                            ELSE Admission!Select(s, ready, pressure)
  BY DEF Admission!Admitted
<1> HIDE DEF ready, pressure
<1>3. Admission!Select(s, ready, pressure) \in SUBSET ready BY <1>1, SelectIs
<1>4. Admission!Admitted(run, s, p) \in SUBSET ready BY <1>2, <1>3
<1> QED BY <1>4 DEF ready

Chosen(run, p) == UNION {Admission!Admitted(run, s, p) : s \in {ScopeOf[i] : i \in seen[run]}}

LEMMA ChosenAreItems ==
    ASSUME Admission!Parameters, AdmissionTyped, NEW run \in Admission!Runs, NEW p
    PROVE  /\ Chosen(run, p) \in SUBSET Admission!Items
           /\ \A s : {i \in Chosen(run, p) : ScopeOf[i] = s} \in SUBSET Admission!Admitted(run, s, p)
<1>1. \A s : Admission!Admitted(run, s, p) \in SUBSET {i \in seen[run] : ScopeOf[i] = s}
  BY AdmittedAreItems
<1>2. seen[run] \in SUBSET Admission!Items BY DEF AdmissionTyped
<1> QED BY <1>1, <1>2 DEF Chosen

LEMMA TypesKept ==
    ASSUME Admission!Parameters, Admission!TypeOK, AdmissionTyped, [Admission!Next]_(Admission!vars)
    PROVE  Admission!TypeOK' /\ AdmissionTyped'
<1> USE DEF Admission!TypeOK, AdmissionTyped
<1>1. ASSUME NEW run \in Admission!Runs, Admission!Load(run)
      PROVE  Admission!TypeOK' /\ AdmissionTyped'
  BY <1>1, ReadyAreItems DEF Admission!Load
<1>2. ASSUME NEW run \in Admission!Runs, Admission!Admit(run)
      PROVE  Admission!TypeOK' /\ AdmissionTyped'
  <2>1. /\ plan' = [plan EXCEPT ![run] = Chosen(run, pressed')]
        /\ status' = Admission!Waiting(seen[run] \ Chosen(run, pressed'))
        /\ due' = due \ (seen[run] \ Chosen(run, pressed'))
        /\ seen' = [seen EXCEPT ![run] = {}] /\ grown' = grown \ {run}
        /\ pressed' = Admission!Pressure(run)
        /\ UNCHANGED <<active, alive, host, raced, restarts>>
    BY <1>2 DEF Admission!Admit, Chosen
  <2>2. Chosen(run, pressed') \in SUBSET Admission!Items BY ChosenAreItems
  <2>3. status' \in [Admission!Items -> {"pending", "waiting", "running", "done"}]
    BY <2>1 DEF Admission!Waiting
  <2>4. pressed' \in BOOLEAN BY <2>1 DEF Admission!Pressure
  <2> HIDE DEF Admission!TypeOK, AdmissionTyped
  <2>5. AdmissionTyped' BY <2>1, <2>2, <2>3 DEF AdmissionTyped
  <2>6. Admission!TypeOK' BY <2>1, <2>2, <2>3, <2>4, <2>5 DEF Admission!TypeOK, AdmissionTyped
  <2> QED BY <2>5, <2>6
<1>3. ASSUME NEW run \in Admission!Runs, Admission!Spawn(run)
      PROVE  Admission!TypeOK' /\ AdmissionTyped'
  <2>1. raced' \in BOOLEAN BY <1>3 DEF Admission!Spawn
  <2> QED BY <1>3, <2>1 DEF Admission!Spawn
<1>4. ASSUME NEW i \in Admission!Items, Admission!Item(i) PROVE Admission!TypeOK' /\ AdmissionTyped'
  <2>1. CASE Admission!Starts(i) BY <2>1 DEF Admission!Starts
  <2>2. CASE Admission!Ends(i)
    <3>1. raced' \in BOOLEAN BY <2>2 DEF Admission!Ends
    <3> QED BY <2>2, <3>1 DEF Admission!Ends
  <2>3. CASE Admission!RetryComes(i) BY <2>3 DEF Admission!RetryComes
  <2>4. CASE Admission!AgentExits(i) BY <2>4 DEF Admission!AgentExits
  <2> QED BY <1>4, <2>1, <2>2, <2>3, <2>4 DEF Admission!Item
<1>5. ASSUME NEW s \in Admission!Scopes, Admission!HostChanges(s)
      PROVE  Admission!TypeOK' /\ AdmissionTyped'
  BY <1>5 DEF Admission!HostChanges
<1>6. CASE Admission!SamplesExpire BY <1>6 DEF Admission!SamplesExpire
<1>7. CASE Admission!Crash
  <2>1. raced' \in BOOLEAN BY <1>7 DEF Admission!Crash
  <2>2. restarts' \in 0..MaxRestarts BY <1>7 DEF Admission!Crash, Admission!Parameters
  <2> QED BY <1>7, <2>1, <2>2 DEF Admission!Crash
<1>8. CASE UNCHANGED Admission!vars BY <1>8 DEF Admission!vars
<1> QED BY <1>1, <1>2, <1>3, <1>4, <1>5, <1>6, <1>7, <1>8 DEF Admission!Next, Admission!Pass

---------------------------------------------------------------------------
(* The limits.                                                               *)
LEMMA AdmitKeeps ==
    ASSUME Admission!Parameters, AdmissionInv, NEW run \in Admission!Runs, Admission!Admit(run)
    PROVE  PlansFit' /\ Admission!ReservationsWithinLimits'
<1>0. AdmissionTyped BY DEF AdmissionInv
<1>1. /\ plan' = [plan EXCEPT ![run] = Chosen(run, pressed')]
      /\ status' = Admission!Waiting(seen[run] \ Chosen(run, pressed'))
      /\ grown' = grown \ {run} /\ active' = active /\ raced' = raced
  BY DEF Admission!Admit, Chosen
<1>2. \A s : Admission!Holding(s)' \subseteq Admission!Holding(s)
  BY <1>1 DEF Admission!Holding, Admission!Waiting
<1>3. \A s : IsFiniteSet(Admission!Holding(s)) /\ Admission!Holding(s) \in SUBSET Admission!Items
  BY ItemsFinite, FS_Subset
<1>4. ASSUME NEW r \in Admission!Runs, NEW s \in Admission!Scopes \ {Admission!NoLauncher},
             r \notin grown', Part(r, s)' # {}
      PROVE  AdmissionFits(s, Admission!Holding(s)' \cup Part(r, s)')
  <2>1. CASE r = run
    <3> DEFINE ready == {i \in seen[run] : ScopeOf[i] = s}
               pressure == (s = Admission!LocalScope /\ pressed')
               in == Admission!Select(s, ready, pressure)
    <3>1. plan'[run] = Chosen(run, pressed') BY <1>0, <1>1 DEF AdmissionTyped
    <3>2. Part(r, s)' \in SUBSET Admission!Admitted(run, s, pressed')
      BY <1>0, <2>1, <3>1, ChosenAreItems DEF Part
    <3>3. Admission!Admitted(run, s, pressed') = in BY <1>4, <3>2 DEF Admission!Admitted
    <3>4. ready \in SUBSET Admission!Items BY <1>0 DEF AdmissionTyped
    <3> HIDE DEF ready, pressure
    <3>5. in # {} BY <1>4, <3>2, <3>3
    <3>6. AdmissionFits(s, Admission!Holding(s) \cup in) BY <3>4, <3>5, SelectFits
    <3>7. in \in SUBSET Admission!Items BY <3>4, SelectIs
    <3> HIDE DEF in
    <3>8. IsFiniteSet(Admission!Holding(s) \cup in) BY <1>3, <3>7, ItemsFinite, FS_Subset, FS_Union
    <3>9. Admission!Holding(s)' \cup Part(r, s)' \in SUBSET (Admission!Holding(s) \cup in)
      BY <1>2, <3>2, <3>3
    <3> QED BY <3>6, <3>8, <3>9, LessFits
  <2>2. CASE r # run
    <3>1. plan'[r] = plan[r] /\ r \notin grown BY <1>0, <1>1, <1>4, <2>2 DEF AdmissionTyped
    <3>2. Part(r, s)' = Part(r, s) /\ Part(r, s) \in SUBSET Admission!Items
      BY <1>0, <3>1 DEF Part, AdmissionTyped
    <3>3. AdmissionFits(s, Admission!Holding(s) \cup Part(r, s))
      BY <1>4, <3>1, <3>2 DEF AdmissionInv, PlansFit
    <3>4. IsFiniteSet(Admission!Holding(s) \cup Part(r, s))
      BY <1>3, <3>2, ItemsFinite, FS_Subset, FS_Union
    <3>5. Admission!Holding(s)' \cup Part(r, s)' \in SUBSET (Admission!Holding(s) \cup Part(r, s))
      BY <1>2, <3>2
    <3> QED BY <3>3, <3>4, <3>5, LessFits
  <2> QED BY <2>1, <2>2
<1>5. PlansFit' BY <1>4 DEF PlansFit, AdmissionFits
<1>6. ASSUME ~raced', NEW s \in Admission!Scopes \ {Admission!NoLauncher}
      PROVE  AdmissionFits(s, Admission!Holding(s)')
  <2>1. AdmissionFits(s, Admission!Holding(s))
    BY <1>1, <1>6 DEF AdmissionInv, Admission!ReservationsWithinLimits, Admission!WithinLimits,
         Admission!Reserved, AdmissionFits
  <2> QED BY <1>2, <1>3, <2>1, LessFits
<1>7. Admission!ReservationsWithinLimits'
  BY <1>6 DEF Admission!ReservationsWithinLimits, Admission!WithinLimits, Admission!Reserved,
       AdmissionFits
<1> QED BY <1>5, <1>7

LEMMA SpawnKeeps ==
    ASSUME Admission!Parameters, AdmissionInv, NEW run \in Admission!Runs, Admission!Spawn(run)
    PROVE  PlansFit' /\ Admission!ReservationsWithinLimits'
<1>0. AdmissionTyped BY DEF AdmissionInv
<1>1. /\ active' = active \cup plan[run] /\ plan' = [plan EXCEPT ![run] = {}]
      /\ grown' = grown \cup {r \in Admission!Runs \ {run} : plan[r] # {}}
      /\ raced' = (raced \/ run \in grown) /\ status' = status
  BY DEF Admission!Spawn
<1>2. \A s : \A r \in Admission!Runs : r \notin grown' => Part(r, s)' = {}
  BY <1>0, <1>1 DEF Part, AdmissionTyped
<1>3. PlansFit' BY <1>2 DEF PlansFit
<1>4. \A s : Admission!Holding(s)' = Admission!Holding(s) \cup Part(run, s)
  BY <1>0, <1>1 DEF Admission!Holding, Part, AdmissionTyped
<1>5. ASSUME ~raced', NEW s \in Admission!Scopes \ {Admission!NoLauncher}
      PROVE  AdmissionFits(s, Admission!Holding(s)')
  <2>1. ~raced /\ run \notin grown BY <1>1, <1>5
  <2>2. AdmissionFits(s, Admission!Holding(s))
    BY <2>1 DEF AdmissionInv, Admission!ReservationsWithinLimits, Admission!WithinLimits,
         Admission!Reserved, AdmissionFits
  <2>3. Part(run, s) = {} \/ AdmissionFits(s, Admission!Holding(s) \cup Part(run, s))
    BY <2>1 DEF AdmissionInv, PlansFit
  <2>4. Admission!Holding(s) \cup {} = Admission!Holding(s) OBVIOUS
  <2> QED BY <1>4, <2>2, <2>3, <2>4
<1>6. Admission!ReservationsWithinLimits'
  BY <1>5 DEF Admission!ReservationsWithinLimits, Admission!WithinLimits, Admission!Reserved,
       AdmissionFits
<1> QED BY <1>3, <1>6

LEMMA AdmissionStepKeeps ==
    ASSUME Admission!Parameters, AdmissionInv, [Admission!Next]_(Admission!vars)
    PROVE  AdmissionInv'
<1>0. AdmissionTyped /\ Admission!TypeOK BY DEF AdmissionInv
<1>1. AdmissionTyped' /\ Admission!TypeOK' BY <1>0, TypesKept
<1>2. ASSUME NEW run \in Admission!Runs, Admission!Admit(run)
      PROVE  PlansFit' /\ Admission!ReservationsWithinLimits'
  BY <1>2, AdmitKeeps
<1>3. ASSUME NEW run \in Admission!Runs, Admission!Spawn(run)
      PROVE  PlansFit' /\ Admission!ReservationsWithinLimits'
  BY <1>3, SpawnKeeps
<1> DEFINE Less == /\ \A s : Admission!Holding(s)' \subseteq Admission!Holding(s)
                   /\ \A run \in Admission!Runs : \/ plan'[run] = {}
                                                  \/ /\ plan'[run] = plan[run]
                                                     /\ run \notin grown' => run \notin grown
                   /\ raced' = raced \/ (~raced' /\ \A s : Admission!Holding(s)' = {})
<1>4. ASSUME NEW run \in Admission!Runs, Admission!Load(run) PROVE Less
  BY <1>4 DEF Admission!Load, Admission!Holding
<1>5. ASSUME NEW i \in Admission!Items, Admission!Starts(i) PROVE Less
  BY <1>0, <1>5 DEF Admission!Starts, Admission!Holding, AdmissionTyped
<1>6. ASSUME NEW i \in Admission!Items, Admission!Ends(i) PROVE Less
  <2>1. /\ status' = [status EXCEPT ![i] = "done"] /\ active' = active \ {i}
        /\ plan' = plan /\ grown' = grown /\ raced' = (raced /\ ~Admission!Settled(active', status'))
    BY <1>6 DEF Admission!Ends
  <2>2. \A s : Admission!Holding(s)' \subseteq Admission!Holding(s)
    BY <1>0, <2>1 DEF Admission!Holding, AdmissionTyped
  <2>3. Admission!Settled(active', status') => \A s : Admission!Holding(s)' = {}
    BY DEF Admission!Settled, Admission!Holding
  <2>4. raced \in BOOLEAN BY <1>0 DEF Admission!TypeOK
  <2>5. raced' = raced \/ (~raced' /\ Admission!Settled(active', status')) BY <2>1, <2>4
  <2> QED BY <2>1, <2>2, <2>3, <2>5
<1>7. ASSUME Admission!Crash PROVE Less
  <2>1. /\ status' = status /\ active' = {} /\ plan' = [r \in Admission!Runs |-> {}]
        /\ raced' = (raced /\ ~Admission!Settled({}, status))
    BY <1>7 DEF Admission!Crash
  <2>2. \A s : Admission!Holding(s)' \subseteq Admission!Holding(s) BY <2>1 DEF Admission!Holding
  <2>3. Admission!Settled({}, status) => \A s : Admission!Holding(s)' = {}
    BY <2>1 DEF Admission!Settled, Admission!Holding
  <2>4. raced \in BOOLEAN BY <1>0 DEF Admission!TypeOK
  <2>5. raced' = raced \/ (~raced' /\ Admission!Settled({}, status)) BY <2>1, <2>4
  <2>6. \A run \in Admission!Runs : plan'[run] = {} BY <2>1
  <2> QED BY <2>2, <2>3, <2>5, <2>6
<1>8. ASSUME NEW i \in Admission!Items, Admission!RetryComes(i) \/ Admission!AgentExits(i)
      PROVE  Less
  BY <1>8 DEF Admission!RetryComes, Admission!AgentExits, Admission!Holding
<1>9. ASSUME NEW s \in Admission!Scopes, Admission!HostChanges(s) PROVE Less
  BY <1>9 DEF Admission!HostChanges, Admission!Holding
<1>10. ASSUME Admission!SamplesExpire \/ UNCHANGED Admission!vars PROVE Less
  BY <1>10 DEF Admission!SamplesExpire, Admission!vars, Admission!Holding
<1>11. Less => PlansFit' /\ Admission!ReservationsWithinLimits' BY NothingReserved
<1> HIDE DEF Less
<1>12. PlansFit' /\ Admission!ReservationsWithinLimits'
  BY <1>2, <1>3, <1>4, <1>5, <1>6, <1>7, <1>8, <1>9, <1>10, <1>11 DEF Admission!Next,
       Admission!Pass, Admission!Item
<1> QED BY <1>1, <1>12 DEF AdmissionInv

LEMMA AdmissionStarting ==
    ASSUME Admission!Parameters, Admission!Init
    PROVE  AdmissionInv
<1>1. AdmissionTyped BY DEF Admission!Init, AdmissionTyped
<1>2. Admission!TypeOK
  <2>1. restarts \in 0..MaxRestarts BY DEF Admission!Init, Admission!Parameters
  <2> QED BY <2>1 DEF Admission!Init, Admission!TypeOK
<1>3. \A s : Admission!Holding(s) = {} BY DEF Admission!Init, Admission!Holding
<1>4. PlansFit BY DEF Admission!Init, PlansFit, Part
<1>5. Admission!ReservationsWithinLimits
  BY <1>3, NothingFits DEF Admission!ReservationsWithinLimits, Admission!WithinLimits,
       Admission!Reserved, AdmissionFits
<1> QED BY <1>1, <1>2, <1>4, <1>5 DEF AdmissionInv

(* The variables of the admission keep their types.                          *)
THEOREM AdmissionTypeCorrect == Admission!Parameters => (Admission!Spec => []Admission!TypeOK)
<1> SUFFICES ASSUME Admission!Parameters PROVE Admission!Spec => []Admission!TypeOK OBVIOUS
<1>1. Admission!Init => AdmissionInv BY AdmissionStarting
<1>2. AdmissionInv /\ [Admission!Next]_(Admission!vars) => AdmissionInv' BY AdmissionStepKeeps
<1>3. AdmissionInv => Admission!TypeOK BY DEF AdmissionInv
<1> QED BY <1>1, <1>2, <1>3, PTL DEF Admission!Spec

(* What the items of a scope reserve together never exceeds its limits,      *)
(* unless a plan was carried out that another worker had overtaken.          *)
THEOREM LimitsKept == Admission!Parameters => (Admission!Spec => []Admission!ReservationsWithinLimits)
<1> SUFFICES ASSUME Admission!Parameters
             PROVE  Admission!Spec => []Admission!ReservationsWithinLimits OBVIOUS
<1>1. Admission!Init => AdmissionInv BY AdmissionStarting
<1>2. AdmissionInv /\ [Admission!Next]_(Admission!vars) => AdmissionInv' BY AdmissionStepKeeps
<1>3. AdmissionInv => Admission!ReservationsWithinLimits BY DEF AdmissionInv
<1> QED BY <1>1, <1>2, <1>3, PTL DEF Admission!Spec

----------------------------------------------------------------------------
(* QueueGraph, for all rows, references and requests.                        *)
(*                                                                           *)
(* While no request is stored over rows it had not read, the stored rows     *)
(* depend on each other only and in no circle (Whole).  That is inductive    *)
(* with what a request being handled will store: it makes the rows it has    *)
(* read whole again (Fits).  That the depth-first search finds every circle  *)
(* is a hypothesis here, SearchFindsCycles: it is a fact about a recursive   *)
(* search over data, which TLC evaluates for all graphs of its instances.    *)

CONSTANTS Keys, Slugs, Strays, Modes, Serving, MaxEdits
VARIABLES mode, graph, finished, handling, overlapped, edits

Graph == INSTANCE QueueGraph

(* Rows that depend on each other only, and not in a circle.                 *)
Whole(rows) == (\A i \in DOMAIN rows : rows[i] \subseteq DOMAIN rows) /\ Graph!Acyclic(rows)

Table(rows) == DOMAIN rows \subseteq Keys /\ rows \in [DOMAIN rows -> SUBSET Keys]

GraphTyped ==
  /\ mode \in Modes /\ overlapped \in BOOLEAN /\ edits \in 0..MaxEdits
  /\ Table(graph) /\ finished \subseteq DOMAIN graph
  /\ DOMAIN handling = Serving
  /\ \A c \in Serving : handling[c] # Graph!Free => Table(handling[c].rows)

(* What a request will store makes the rows it has read whole again.         *)
GraphFits(h) ==
  /\ Whole(Graph!Over(h.rows, h.read))
  /\ h.kind = "update" => DOMAIN h.rows \subseteq DOMAIN h.read

GraphInv ==
  /\ GraphTyped
  /\ overlapped \/ (Whole(graph) /\ \A c \in Serving : handling[c] # Graph!Free => GraphFits(handling[c]))

---------------------------------------------------------------------------
LEMMA OverIs ==
    ASSUME NEW f, NEW g
    PROVE  /\ DOMAIN Graph!Over(f, g) = DOMAIN f \cup DOMAIN g
           /\ \A i \in DOMAIN f : Graph!Over(f, g)[i] = f[i]
           /\ \A i \in DOMAIN g \ DOMAIN f : Graph!Over(f, g)[i] = g[i]
BY DEF Graph!Over

LEMMA OverTable ==
    ASSUME NEW f, NEW g, Table(f), Table(g)
    PROVE  Table(Graph!Over(f, g))
<1>1. \A i \in DOMAIN f \cup DOMAIN g : (IF i \in DOMAIN f THEN f[i] ELSE g[i]) \in SUBSET Keys
  BY DEF Table
<1> QED BY <1>1 DEF Table, Graph!Over

(* Normalised dependencies are on the rows themselves.                       *)
LEMMA NormalizedIs ==
    ASSUME NEW asked, DOMAIN asked \subseteq Keys
    PROVE  /\ DOMAIN Graph!Normalized(asked) = DOMAIN asked
           /\ \A i \in DOMAIN asked : Graph!Normalized(asked)[i] \subseteq DOMAIN asked
           /\ Graph!Normalized(asked) \in [DOMAIN asked -> SUBSET Keys]
           /\ \A i \in DOMAIN asked : asked[i] \subseteq DOMAIN asked \ {i} => Graph!Normalized(asked)[i] = asked[i]
<1>1. \A ref : Graph!Resolved(DOMAIN asked, ref) \subseteq DOMAIN asked BY DEF Graph!Resolved
<1>2. ASSUME NEW i \in DOMAIN asked
      PROVE  (UNION {Graph!Resolved(DOMAIN asked, ref) : ref \in asked[i]}) \ {i} \subseteq DOMAIN asked
  BY <1>1
<1>3. ASSUME NEW i \in DOMAIN asked, asked[i] \subseteq DOMAIN asked \ {i}
      PROVE  (UNION {Graph!Resolved(DOMAIN asked, ref) : ref \in asked[i]}) \ {i} = asked[i]
  <2>1. \A ref \in asked[i] : Graph!Resolved(DOMAIN asked, ref) = {ref} BY <1>3 DEF Graph!Resolved
  <2> QED BY <1>3, <2>1
<1> QED BY <1>2, <1>3 DEF Graph!Normalized

(* What a request leads to, over rows that are whole.                        *)
LEMMA PlannedFits ==
    ASSUME Graph!SearchFindsCycles, Table(graph), Whole(graph), NEW asked,
           NEW ids \in SUBSET DOMAIN asked,
           DOMAIN asked \subseteq Keys,
           \A i \in DOMAIN asked \ ids : i \in DOMAIN graph /\ asked[i] = graph[i],
           NEW deps \in Graph!Planned(Graph!Over(asked, graph))
    PROVE  Whole(Graph!Over(Graph!Restrict(deps, ids), graph))
<1>1. PICK all : all = Graph!Over(asked, graph) OBVIOUS
<1>2. /\ DOMAIN all = DOMAIN asked \cup DOMAIN graph /\ DOMAIN all \subseteq Keys
      /\ \A i \in DOMAIN asked : all[i] = asked[i]
      /\ \A i \in DOMAIN graph \ DOMAIN asked : all[i] = graph[i]
  <2>1. /\ DOMAIN Graph!Over(asked, graph) = DOMAIN asked \cup DOMAIN graph
        /\ \A i \in DOMAIN asked : Graph!Over(asked, graph)[i] = asked[i]
        /\ \A i \in DOMAIN graph \ DOMAIN asked : Graph!Over(asked, graph)[i] = graph[i]
    BY OverIs
  <2>2. DOMAIN graph \subseteq Keys BY DEF Table
  <2> QED BY <1>1, <2>1, <2>2
<1>3. \A i \in DOMAIN all \ ids : i \in DOMAIN graph /\ all[i] = graph[i] BY <1>2
<1>4. PICK rows : rows = Graph!Over(Graph!Restrict(deps, ids), graph) OBVIOUS
<1>5. /\ DOMAIN rows = DOMAIN all
      /\ \A i \in ids : rows[i] = deps[i]
      /\ \A i \in DOMAIN all \ ids : rows[i] = graph[i]
  <2>1. DOMAIN Graph!Restrict(deps, ids) = ids /\ \A i \in ids : Graph!Restrict(deps, ids)[i] = deps[i]
    BY DEF Graph!Restrict
  <2>2. /\ DOMAIN rows = ids \cup DOMAIN graph
        /\ \A i \in ids : rows[i] = deps[i]
        /\ \A i \in DOMAIN graph \ ids : rows[i] = graph[i]
    <3>1. PICK f : f = Graph!Restrict(deps, ids) OBVIOUS
    <3>2. /\ DOMAIN Graph!Over(f, graph) = DOMAIN f \cup DOMAIN graph
          /\ \A i \in DOMAIN f : Graph!Over(f, graph)[i] = f[i]
          /\ \A i \in DOMAIN graph \ DOMAIN f : Graph!Over(f, graph)[i] = graph[i]
      BY OverIs
    <3> QED BY <1>4, <2>1, <3>1, <3>2
  <2> QED BY <1>2, <1>3, <2>2
<1>6. \A i \in DOMAIN graph : graph[i] \subseteq DOMAIN graph /\ i \notin graph[i]
  <2> SUFFICES ASSUME NEW i \in DOMAIN graph
               PROVE  graph[i] \subseteq DOMAIN graph /\ i \notin graph[i]
    OBVIOUS
  <2>1. PICK one : one = {i} OBVIOUS
  <2>2. one \in (SUBSET DOMAIN graph) \ {{}} BY <2>1
  <2>3. \E k \in one : graph[k] \cap one = {} BY <2>2 DEF Whole, Graph!Acyclic
  <2> QED BY <2>1, <2>3 DEF Whole
<1>7. CASE mode = "sequence"
  <2>1. deps = [i \in DOMAIN all |-> {}] BY <1>1, <1>7 DEF Graph!Planned
  <2>2. \A i \in DOMAIN rows : rows[i] \subseteq DOMAIN rows BY <1>2, <1>3, <1>5, <1>6, <2>1
  <2>3. ASSUME NEW items \in (SUBSET DOMAIN rows) \ {{}}
        PROVE  \E i \in items : rows[i] \cap items = {}
    <3>1. CASE \E i \in items : i \in ids BY <1>2, <1>5, <2>1, <3>1
    <3>2. CASE \A i \in items : i \notin ids
      <4>1. items \in (SUBSET DOMAIN graph) \ {{}} BY <1>3, <1>5, <3>2
      <4>2. PICK i \in items : graph[i] \cap items = {} BY <4>1 DEF Whole, Graph!Acyclic
      <4>3. rows[i] = graph[i] BY <1>5, <3>2
      <4> QED BY <4>2, <4>3
    <3> QED BY <3>1, <3>2
  <2> QED BY <1>4, <2>2, <2>3 DEF Whole, Graph!Acyclic
<1>8. CASE mode # "sequence"
  <2>1. deps = Graph!Normalized(all) /\ ~Graph!HasCycle(deps) BY <1>1, <1>8 DEF Graph!Planned
  <2>2. /\ DOMAIN deps = DOMAIN all /\ deps \in [DOMAIN all -> SUBSET Keys]
        /\ \A i \in DOMAIN all : deps[i] \subseteq DOMAIN all
        /\ \A i \in DOMAIN all : all[i] \subseteq DOMAIN all \ {i} => deps[i] = all[i]
    BY <1>2, <2>1, NormalizedIs
  <2>3. Graph!Acyclic(deps) BY <1>2, <2>1, <2>2 DEF Graph!SearchFindsCycles
  <2>4. \A i \in DOMAIN all : rows[i] = deps[i]
    <3> SUFFICES ASSUME NEW i \in DOMAIN all \ ids PROVE rows[i] = deps[i] BY <1>5
    <3>1. all[i] = graph[i] /\ i \in DOMAIN graph BY <1>3
    <3>2. all[i] \subseteq DOMAIN all \ {i} BY <1>2, <1>6, <3>1
    <3> QED BY <1>5, <2>2, <3>1, <3>2
  <2>5. Graph!Acyclic(rows) BY <1>5, <2>2, <2>3, <2>4 DEF Graph!Acyclic
  <2> QED BY <1>4, <1>5, <2>2, <2>4, <2>5 DEF Whole
<1> QED BY <1>7, <1>8

LEMMA PlannedTable ==
    ASSUME NEW all, DOMAIN all \subseteq Keys, NEW ids \in SUBSET DOMAIN all,
           NEW deps \in Graph!Planned(all)
    PROVE  Table(Graph!Restrict(deps, ids)) /\ DOMAIN Graph!Restrict(deps, ids) = ids
<1>1. \A i \in DOMAIN all : deps[i] \in SUBSET Keys BY NormalizedIs DEF Graph!Planned
<1> QED BY <1>1 DEF Table, Graph!Restrict

LEMMA ReadsKeeps ==
    ASSUME Graph!SearchFindsCycles, Graph!Parameters, GraphInv, NEW c \in Serving,
           NEW kind \in {"append", "update"},
           NEW asked, NEW ids \in SUBSET DOMAIN asked, DOMAIN asked \subseteq Keys,
           \A i \in DOMAIN asked \ ids : i \in DOMAIN graph /\ asked[i] = graph[i],
           kind = "update" => ids \subseteq DOMAIN graph, Graph!Reads(c, kind, ids, asked)
    PROVE  GraphInv'
<1>1. PICK deps \in Graph!Planned(Graph!Over(asked, graph)) :
        handling' = [handling EXCEPT ![c] = [kind |-> kind, read |-> graph, rows |-> Graph!Restrict(deps, ids)]]
  BY DEF Graph!Reads
<1>2. UNCHANGED <<mode, graph, finished, overlapped>> /\ edits' = edits + 1 /\ edits < MaxEdits /\ GraphTyped
  BY DEF Graph!Reads, GraphInv
<1>3. PICK h : h = [kind |-> kind, read |-> graph, rows |-> Graph!Restrict(deps, ids)] OBVIOUS
<1>4. h.kind = kind /\ h.read = graph /\ h.rows = Graph!Restrict(deps, ids) BY <1>3
<1>5. DOMAIN handling' = Serving /\ handling'[c] = h /\ \A d \in Serving \ {c} : handling'[d] = handling[d]
  BY <1>1, <1>2, <1>3 DEF GraphTyped
<1>6. DOMAIN Graph!Over(asked, graph) = DOMAIN asked \cup DOMAIN graph BY OverIs
<1>7. Table(h.rows) /\ DOMAIN h.rows = ids
  <2>1. DOMAIN Graph!Over(asked, graph) \subseteq Keys BY <1>2, <1>6 DEF GraphTyped, Table
  <2>2. ids \in SUBSET DOMAIN Graph!Over(asked, graph) BY <1>6
  <2> QED BY <1>4, <2>1, <2>2, PlannedTable
<1>8. edits' \in 0..MaxEdits BY <1>2 DEF GraphTyped, Graph!Parameters
<1>9. GraphTyped'
  <2>1. \A d \in Serving : handling'[d] # Graph!Free => Table(handling'[d].rows)
    BY <1>2, <1>5, <1>7 DEF GraphTyped
  <2> QED BY <1>2, <1>5, <1>8, <2>1 DEF GraphTyped, Table
<1>10. ASSUME ~overlapped PROVE Whole(graph) /\ GraphFits(h)
  <2>1. Whole(graph) /\ Table(graph) BY <1>2, <1>10 DEF GraphInv, GraphTyped
  <2>2. Whole(Graph!Over(Graph!Restrict(deps, ids), graph)) BY <2>1, PlannedFits
  <2> QED BY <1>4, <1>7, <2>1, <2>2 DEF GraphFits
<1>11. ASSUME ~overlapped
       PROVE  Whole(graph)' /\ \A d \in Serving : handling'[d] # Graph!Free => GraphFits(handling'[d])
  <2>1. \A d \in Serving \ {c} : handling[d] # Graph!Free => GraphFits(handling[d])
    BY <1>11 DEF GraphInv
  <2> QED BY <1>2, <1>5, <1>10, <1>11, <2>1
<1> QED BY <1>2, <1>9, <1>11 DEF GraphInv

LEMMA AppendKeeps ==
    ASSUME Graph!SearchFindsCycles, Graph!Parameters, GraphInv, NEW c \in Serving, Graph!Append(c)
    PROVE  GraphInv'
<1>1. PICK i \in Keys \ DOMAIN graph, deps \in SUBSET Graph!References :
        Graph!Reads(c, "append", {i}, [k \in {i} |-> deps])
  BY DEF Graph!Append
<1>2. PICK asked : asked = [k \in {i} |-> deps] OBVIOUS
<1>3. DOMAIN asked = {i} /\ Graph!Reads(c, "append", {i}, asked) BY <1>1, <1>2
<1>4. {i} \in SUBSET DOMAIN asked /\ DOMAIN asked \subseteq Keys
      /\ \A k \in DOMAIN asked \ {i} : k \in DOMAIN graph /\ asked[k] = graph[k]
  BY <1>3
<1> QED BY <1>3, <1>4, ReadsKeeps

LEMMA UpdateKeeps ==
    ASSUME Graph!SearchFindsCycles, Graph!Parameters, GraphInv, NEW c \in Serving, Graph!Update(c)
    PROVE  GraphInv'
<1>1. PICK ids \in (SUBSET (DOMAIN graph \ finished)) \ {{}} :
        \E asked \in [ids -> SUBSET (DOMAIN graph \cup Strays)] : Graph!Reads(c, "update", ids, asked)
  BY DEF Graph!Update
<1>2. PICK asked \in [ids -> SUBSET (DOMAIN graph \cup Strays)] : Graph!Reads(c, "update", ids, asked)
  BY <1>1
<1>3. DOMAIN asked = ids /\ ids \subseteq DOMAIN graph /\ DOMAIN graph \subseteq Keys
  BY <1>1, <1>2 DEF GraphInv, GraphTyped, Table
<1>4. ids \in SUBSET DOMAIN asked /\ DOMAIN asked \subseteq Keys
      /\ \A k \in DOMAIN asked \ ids : k \in DOMAIN graph /\ asked[k] = graph[k]
  BY <1>3
<1> QED BY <1>2, <1>3, <1>4, ReadsKeeps

LEMMA MoveToWaveKeeps ==
    ASSUME Graph!SearchFindsCycles, Graph!Parameters, GraphInv, NEW c \in Serving,
           Graph!MoveToWave(c)
    PROVE  GraphInv'
<1>1. PICK place : Graph!Reads(c, "update", DOMAIN graph \ finished, Graph!SyncedWaves(place))
  BY DEF Graph!MoveToWave
<1>2. PICK asked : asked = Graph!SyncedWaves(place) OBVIOUS
<1>3. DOMAIN asked = DOMAIN graph /\ \A k \in finished \cap DOMAIN graph : asked[k] = graph[k]
  BY <1>2 DEF Graph!SyncedWaves
<1>4. PICK ids : ids = DOMAIN graph \ finished OBVIOUS
<1>5. DOMAIN graph \subseteq Keys BY DEF GraphInv, GraphTyped, Table
<1>6. ids \in SUBSET DOMAIN asked /\ DOMAIN asked \subseteq Keys /\ ids \subseteq DOMAIN graph
      /\ \A k \in DOMAIN asked \ ids : k \in DOMAIN graph /\ asked[k] = graph[k]
  BY <1>3, <1>4, <1>5
<1>7. Graph!Reads(c, "update", ids, asked) BY <1>1, <1>2, <1>4
<1> QED BY <1>6, <1>7, ReadsKeeps

LEMMA StoreKeeps ==
    ASSUME GraphInv, NEW c \in Serving, Graph!Store(c)
    PROVE  GraphInv'
<1>1. PICK h : h = handling[c] OBVIOUS
<1>2. /\ h # Graph!Free /\ UNCHANGED <<mode, finished, edits>> /\ handling' = [handling EXCEPT ![c] = Graph!Free]
      /\ GraphTyped /\ Table(h.rows) /\ Table(graph)
  BY <1>1 DEF Graph!Store, GraphInv, GraphTyped
<1>3. DOMAIN handling' = Serving /\ handling'[c] = Graph!Free /\ \A d \in Serving \ {c} : handling'[d] = handling[d]
  BY <1>2 DEF GraphTyped
<1>4. PICK rows : rows = IF h.kind = "update" THEN Graph!Restrict(h.rows, DOMAIN h.rows \cap DOMAIN graph) ELSE h.rows
  OBVIOUS
<1>5. \/ UNCHANGED <<graph, overlapped>>
      \/ graph' = Graph!Over(rows, graph) /\ overlapped' = (overlapped \/ graph # h.read)
  BY <1>1, <1>4 DEF Graph!Store
<1>6. Table(rows) BY <1>2, <1>4 DEF Table, Graph!Restrict
<1>7. Table(graph)' /\ finished' \subseteq DOMAIN graph' /\ overlapped' \in BOOLEAN
  <2>1. CASE UNCHANGED <<graph, overlapped>> BY <1>2, <2>1 DEF GraphTyped, Table
  <2>2. CASE graph' = Graph!Over(rows, graph) /\ overlapped' = (overlapped \/ graph # h.read)
    <3>1. Table(Graph!Over(rows, graph)) BY <1>2, <1>6, OverTable
    <3>2. DOMAIN graph \subseteq DOMAIN graph' BY <2>2, OverIs
    <3>3. finished' \subseteq DOMAIN graph' BY <1>2, <3>2 DEF GraphTyped
    <3>4. overlapped' \in BOOLEAN BY <2>2
    <3> QED BY <2>2, <3>1, <3>3, <3>4 DEF Table
  <2> QED BY <1>5, <2>1, <2>2
<1>8. GraphTyped'
  <2>1. \A d \in Serving : handling'[d] # Graph!Free => Table(handling'[d].rows)
    BY <1>2, <1>3 DEF GraphTyped
  <2> QED BY <1>2, <1>3, <1>7, <2>1 DEF GraphTyped
<1>9. ASSUME ~overlapped' PROVE Whole(graph)' /\ ~overlapped
  <2>1. ~overlapped BY <1>5, <1>9
  <2>2. Whole(graph) /\ GraphFits(h) BY <1>1, <1>2, <2>1 DEF GraphInv
  <2>3. CASE UNCHANGED graph BY <2>1, <2>2, <2>3 DEF Whole, Graph!Acyclic
  <2>4. CASE graph' = Graph!Over(rows, graph) /\ graph = h.read
    <3>1. rows = h.rows
      <4>1. CASE h.kind # "update" BY <1>4, <4>1
      <4>2. CASE h.kind = "update"
        <5>1. DOMAIN h.rows \cap DOMAIN graph = DOMAIN h.rows BY <2>2, <2>4, <4>2 DEF GraphFits
        <5> QED BY <1>2, <1>4, <4>2, <5>1 DEF Graph!Restrict, Table
      <4> QED BY <4>1, <4>2
    <3>2. Whole(graph') BY <2>2, <2>4, <3>1 DEF GraphFits
    <3> QED BY <2>1, <3>2 DEF Whole, Graph!Acyclic
  <2> QED BY <1>5, <1>9, <2>1, <2>3, <2>4
<1>10. ASSUME ~overlapped'
       PROVE  \A d \in Serving : handling'[d] # Graph!Free => GraphFits(handling'[d])
  <2>1. \A d \in Serving \ {c} : handling[d] # Graph!Free => GraphFits(handling[d])
    BY <1>9, <1>10 DEF GraphInv
  <2> QED BY <1>3, <2>1
<1> QED BY <1>8, <1>9, <1>10 DEF GraphInv

LEMMA RemoveKeeps ==
    ASSUME Graph!Parameters, GraphInv, NEW i \in Keys, Graph!Remove(i)
    PROVE  GraphInv'
<1>1. /\ graph' = [k \in DOMAIN graph \ {i} |-> graph[k] \ {i}] /\ finished' = finished \ {i}
      /\ UNCHANGED <<mode, handling, overlapped>> /\ edits' = edits + 1 /\ edits < MaxEdits /\ GraphTyped
  BY DEF Graph!Remove, GraphInv
<1>2. DOMAIN graph' = DOMAIN graph \ {i} /\ \A k \in DOMAIN graph' : graph'[k] = graph[k] \ {i}
  BY <1>1
<1>3. Table(graph)' BY <1>1, <1>2 DEF GraphTyped, Table
<1>4. edits' \in 0..MaxEdits BY <1>1 DEF GraphTyped, Graph!Parameters
<1>5. GraphTyped' BY <1>1, <1>2, <1>3, <1>4 DEF GraphTyped, Table
<1>6. ASSUME Whole(graph) PROVE Whole(graph)'
  <2>1. \A k \in DOMAIN graph' : graph'[k] \subseteq DOMAIN graph' BY <1>2, <1>6 DEF Whole
  <2>2. ASSUME NEW items \in (SUBSET DOMAIN graph') \ {{}}
        PROVE  \E k \in items : graph'[k] \cap items = {}
    <3>1. items \in (SUBSET DOMAIN graph) \ {{}} BY <1>2
    <3>2. PICK k \in items : graph[k] \cap items = {} BY <1>6, <3>1 DEF Whole, Graph!Acyclic
    <3> QED BY <1>2, <3>2
  <2> QED BY <2>1, <2>2 DEF Whole, Graph!Acyclic
<1> QED BY <1>1, <1>5, <1>6 DEF GraphInv

LEMMA WorkKeeps ==
    ASSUME GraphInv, NEW i \in Keys, Graph!Work(i)
    PROVE  GraphInv'
<1>1. UNCHANGED <<mode, graph, handling, overlapped, edits>> /\ finished' \subseteq DOMAIN graph
  BY DEF Graph!Work, GraphInv, GraphTyped
<1>2. GraphTyped' BY <1>1 DEF GraphInv, GraphTyped, Table
<1>3. Whole(graph) => Whole(graph)' BY <1>1 DEF Whole, Graph!Acyclic
<1> QED BY <1>1, <1>2, <1>3 DEF GraphInv


LEMMA GraphStarting ==
    ASSUME Graph!Parameters, Graph!SearchFindsCycles, Graph!Init
    PROVE  GraphInv
<1>1. PICK ids \in (SUBSET Keys) \ {{}} : \E asked \in [ids -> SUBSET Graph!References] : graph \in Graph!Planned(asked)
  BY DEF Graph!Init
<1>2. PICK asked \in [ids -> SUBSET Graph!References] : graph \in Graph!Planned(asked) BY <1>1
<1>3. DOMAIN asked = ids /\ ids \subseteq Keys BY <1>1, <1>2
<1>4. /\ mode \in Modes /\ finished = {} /\ handling = [c \in Serving |-> Graph!Free] /\ overlapped = FALSE
      /\ edits = 0
  BY DEF Graph!Init
<1>5. Table(graph) /\ Whole(graph)
  <2>1. CASE mode = "sequence" BY <1>2, <1>3, <2>1 DEF Graph!Planned, Table, Whole, Graph!Acyclic
  <2>2. CASE mode # "sequence"
    <3>1. graph = Graph!Normalized(asked) /\ ~Graph!HasCycle(graph) BY <1>2, <2>2 DEF Graph!Planned
    <3>2. /\ DOMAIN graph = ids /\ graph \in [ids -> SUBSET Keys]
          /\ \A i \in ids : graph[i] \subseteq ids
      BY <1>3, <3>1, NormalizedIs
    <3>3. Graph!Acyclic(graph) BY <1>3, <3>1, <3>2 DEF Graph!SearchFindsCycles
    <3> QED BY <1>3, <3>2, <3>3 DEF Table, Whole
  <2> QED BY <2>1, <2>2
<1>6. edits \in 0..MaxEdits BY <1>4 DEF Graph!Parameters
<1>7. GraphTyped BY <1>4, <1>5, <1>6 DEF GraphTyped
<1> QED BY <1>4, <1>5, <1>7 DEF GraphInv

LEMMA GraphStepKeeps ==
    ASSUME Graph!Parameters, Graph!SearchFindsCycles, GraphInv, [Graph!Next]_(Graph!vars)
    PROVE  GraphInv'
<1>1. ASSUME NEW c \in Serving, Graph!Serve(c) PROVE GraphInv'
  BY <1>1, AppendKeeps, UpdateKeeps, MoveToWaveKeeps, StoreKeeps DEF Graph!Serve
<1>2. ASSUME NEW i \in Keys, Graph!Remove(i) \/ Graph!Work(i) PROVE GraphInv'
  BY <1>2, RemoveKeeps, WorkKeeps
<1>3. ASSUME UNCHANGED Graph!vars PROVE GraphInv'
  <2>1. UNCHANGED <<mode, graph, finished, handling, overlapped, edits>> BY <1>3 DEF Graph!vars
  <2> QED BY <2>1 DEF GraphInv, GraphTyped, Table, Whole, Graph!Acyclic
<1> QED BY <1>1, <1>2, <1>3 DEF Graph!Next

LEMMA GraphFollows ==
    ASSUME GraphInv
    PROVE  Graph!TypeOK /\ Graph!SomeItemIsReady
<1>1. Graph!TypeOK
  <2>1. \A i \in DOMAIN graph : graph[i] \in SUBSET Keys BY DEF GraphInv, GraphTyped, Table
  <2> QED BY <2>1 DEF GraphInv, GraphTyped, Table, Graph!TypeOK, Graph!Range
<1>2. ASSUME ~overlapped, ~(DOMAIN graph \subseteq finished)
      PROVE  \E i \in DOMAIN graph \ finished : Graph!DependenciesSatisfied(i)
  <2>1. PICK items : items = DOMAIN graph \ finished OBVIOUS
  <2>2. items \in (SUBSET DOMAIN graph) \ {{}} BY <1>2, <2>1
  <2>3. PICK i \in items : graph[i] \cap items = {} BY <1>2, <2>2 DEF GraphInv, Whole, Graph!Acyclic
  <2>4. Graph!DependenciesSatisfied(i) BY <2>1, <2>3 DEF Graph!DependenciesSatisfied
  <2> QED BY <2>1, <2>4
<1> QED BY <1>1, <1>2 DEF Graph!SomeItemIsReady

(* The variables of the graph keep their types.                              *)
THEOREM GraphTypeCorrect == Graph!Parameters /\ Graph!SearchFindsCycles => (Graph!Spec => []Graph!TypeOK)
<1> SUFFICES ASSUME Graph!Parameters, Graph!SearchFindsCycles
             PROVE  Graph!Spec => []Graph!TypeOK OBVIOUS
<1>1. Graph!Init => GraphInv BY GraphStarting
<1>2. GraphInv /\ [Graph!Next]_(Graph!vars) => GraphInv' BY GraphStepKeeps
<1>3. GraphInv => Graph!TypeOK BY GraphFollows
<1> QED BY <1>1, <1>2, <1>3, PTL DEF Graph!Spec

(* While items are unfinished one of them is ready, whatever requests add,   *)
(* change, move and remove, unless requests were stored over rows they had   *)
(* not read (validate_graph, queue_api.rs).                                  *)
THEOREM ItemReady == Graph!Parameters /\ Graph!SearchFindsCycles => (Graph!Spec => []Graph!SomeItemIsReady)
<1> SUFFICES ASSUME Graph!Parameters, Graph!SearchFindsCycles
             PROVE  Graph!Spec => []Graph!SomeItemIsReady OBVIOUS
<1>1. Graph!Init => GraphInv BY GraphStarting
<1>2. GraphInv /\ [Graph!Next]_(Graph!vars) => GraphInv' BY GraphStepKeeps
<1>3. GraphInv => Graph!SomeItemIsReady BY GraphFollows
<1> QED BY <1>1, <1>2, <1>3, PTL DEF Graph!Spec

----------------------------------------------------------------------------
(* QueueClient, for every number of commands and daemons.                    *)
(*                                                                           *)
(* While starts and stops do not overlap, the one that goes on knows of      *)
(* every daemon there is (Knows), and when none goes on the pid file does    *)
(* (Recorded).                                                               *)

CONSTANTS Commands, Packages, Runs, MaxDaemons, MaxFaults
VARIABLES command, pidfile, daemons, current, received, doubled, mishaps

Client == INSTANCE QueueClient

Places == {"idle", "health", "post", "reach", "start", "term", "spawn", "write", "fill", "watch"}
Processes == [at : Places, run : Runs \cup {p.run : p \in Packages} \cup {"none"},
              items : {Client!Loaded(p) : p \in Packages} \cup {<<>>}, pid : 0 .. MaxDaemons,
              posts : BOOLEAN]

ClientTyped ==
    /\ command \in [Commands -> Processes]
    /\ pidfile \in 0 .. MaxDaemons + 1
    /\ daemons \in [Client!Pids -> {"none", "booting", "listening", "stopping", "dead"}]
    /\ current \in Runs /\ doubled \in BOOLEAN /\ mishaps \in 0 .. MaxFaults

(* A start or stop that has read the pid file.                               *)
Started(c) == command[c].at \in {"term", "spawn", "write", "fill", "watch"}

(* While one goes on it knows of every daemon, and no daemon is left when it *)
(* spawns one; when none does the pid file knows.                            *)
Knows(c) ==
    /\ command[c].at \in {"term", "watch"} => pidfile = command[c].pid
    /\ \A d \in Client!Pids : Client!Alive(d) => command[c].at # "spawn" /\ d = command[c].pid

Recorded ==
    /\ \A c, e \in Commands : Started(c) /\ Started(e) => c = e
    /\ \A c \in Commands : Started(c) => Knows(c)
    /\ (\A c \in Commands : ~Started(c)) => \A d \in Client!Pids : Client!Alive(d) => pidfile = d

ClientInv == ClientTyped /\ (doubled \/ Recorded)


---------------------------------------------------------------------------
LEMMA CommandGoes ==
    ASSUME ClientTyped, NEW c \in Commands, NEW at \in Places, Client!Goes(c, at)
    PROVE  /\ command' \in [Commands -> Processes]
           /\ command'[c].at = at /\ command'[c].pid = command[c].pid
           /\ \A e \in Commands \ {c} : command'[e] = command[e]
<1>1. command \in [Commands -> Processes] /\ command[c] \in Processes BY DEF ClientTyped
<1>2. PICK k : k = [command[c] EXCEPT !.at = at] OBVIOUS
<1>3. k \in Processes /\ k.at = at /\ k.pid = command[c].pid BY <1>1, <1>2 DEF Processes
<1>4. command' = [command EXCEPT ![c] = k] BY <1>2 DEF Client!Goes
<1> QED BY <1>1, <1>3, <1>4

LEMMA CommandEnds ==
    ASSUME ClientTyped, NEW c \in Commands, Client!Ends(c), Client!Parameters
    PROVE  /\ command' \in [Commands -> Processes] /\ command'[c].at = "idle"
           /\ \A e \in Commands \ {c} : command'[e] = command[e]
<1>1. Client!Nobody \in Processes /\ Client!Nobody.at = "idle"
  BY DEF Client!Nobody, Processes, Places, Client!Parameters
<1> QED BY <1>1 DEF Client!Ends, ClientTyped

(* A step beside the starts and stops, which no daemon is started by.        *)
LEMMA AsideKeeps ==
    ASSUME ClientInv, ClientTyped', UNCHANGED pidfile, doubled => doubled',
           \A e \in Commands : Started(e) \/ Started(e)' =>
               command'[e].at = command[e].at /\ command'[e].pid = command[e].pid,
           \A d \in Client!Pids : Client!Alive(d)' => Client!Alive(d)
    PROVE  ClientInv'
<1>1. \A e \in Commands : Started(e) <=> Started(e)' BY DEF Started
<1>2. ASSUME Recorded PROVE Recorded'
  <2>1. \A e \in Commands : Started(e)' => Knows(e)' BY <1>1, <1>2 DEF Recorded, Knows
  <2>2. (\A e \in Commands : ~Started(e)') => \A d \in Client!Pids : Client!Alive(d)' => pidfile' = d
    BY <1>1, <1>2 DEF Recorded
  <2>3. \A e, f \in Commands : Started(e)' /\ Started(f)' => e = f BY <1>1, <1>2 DEF Recorded
  <2> QED BY <2>1, <2>2, <2>3 DEF Recorded
<1> QED BY <1>2 DEF ClientInv

(* A step of a start or stop, while there is no other one.                   *)
LEMMA SoleKeeps ==
    ASSUME ClientInv, ClientTyped', NEW c \in Commands, doubled => doubled',
           \A e \in Commands \ {c} : command'[e] = command[e],
           Recorded /\ ~doubled' => \A e \in Commands \ {c} : ~Started(e),
           Recorded /\ ~doubled' =>
               IF Started(c)' THEN Knows(c)' ELSE \A d \in Client!Pids : Client!Alive(d)' => pidfile' = d
    PROVE  ClientInv'
<1>1. \A e \in Commands \ {c} : Started(e)' <=> Started(e) BY DEF Started
<1>2. ASSUME Recorded, ~doubled' PROVE Recorded' BY <1>1, <1>2 DEF Recorded
<1> QED BY <1>2 DEF ClientInv

LEMMA AsksKeeps ==
    ASSUME Client!Parameters, ClientInv, NEW c \in Commands, Client!Asks(c) \/ Client!Serve(c)
    PROVE  ClientInv'
<1>1. /\ ~Started(c) /\ UNCHANGED <<pidfile, daemons, current, doubled, mishaps>> /\ ClientTyped
      /\ command[c].at # "start"
  BY DEF Client!Asks, Client!Load, Client!Health, Client!Waits, Client!Post, Client!Serve,
       Started, ClientInv
<1>2. /\ command' \in [Commands -> Processes] /\ ~Started(c)'
      /\ \A e \in Commands \ {c} : command'[e] = command[e]
  <2>1. CASE Client!Load(c)
    <3>1. PICK p \in Packages, run \in {current} \cup {q.run : q \in Packages} :
             command' = [command EXCEPT ![c] = [at |-> "health", run |-> run, items |-> Client!Loaded(p),
                                                pid |-> 0, posts |-> TRUE]]
      BY <2>1 DEF Client!Load
    <3>2. current \in Runs /\ run \in Runs \cup {q.run : q \in Packages} \cup {"none"}
      BY <1>1, <3>1 DEF ClientTyped
    <3>3. PICK k : k = [at |-> "health", run |-> run, items |-> Client!Loaded(p), pid |-> 0, posts |-> TRUE]
      OBVIOUS
    <3>4. k \in Processes /\ k.at = "health" BY <3>2, <3>3 DEF Processes, Places, Client!Parameters
    <3>5. command' = [command EXCEPT ![c] = k] BY <3>1, <3>3
    <3> QED BY <1>1, <3>4, <3>5 DEF ClientTyped, Started
  <2>2. CASE \E at \in {"post", "start"} : Client!Goes(c, at)
    <3>1. PICK at \in {"post", "start"} : Client!Goes(c, at) BY <2>2
    <3>2. at \in Places BY DEF Places
    <3> QED BY <1>1, <3>1, <3>2, CommandGoes DEF Started
  <2>3. CASE Client!Ends(c) BY <1>1, <2>3, CommandEnds DEF Started
  <2> QED
    BY <2>1, <2>2, <2>3 DEF Client!Asks, Client!Health, Client!Waits, Client!Post, Client!Serve
<1>3. ClientTyped' BY <1>1, <1>2 DEF ClientTyped
<1>4. \A d \in Client!Pids : Client!Alive(d)' <=> Client!Alive(d) BY <1>1 DEF Client!Alive
<1>5. \A e \in Commands : Started(e) \/ Started(e)' => e # c BY <1>1, <1>2
<1> QED BY <1>1, <1>2, <1>3, <1>4, <1>5, AsideKeeps

LEMMA DaemonKeeps ==
    ASSUME Client!Parameters, ClientInv, NEW d \in Client!Pids, Client!Binds(d) \/ Client!Exits(d)
    PROVE  ClientInv'
<1>1. UNCHANGED <<command, pidfile, current, doubled>> /\ Client!Alive(d)
  BY DEF Client!Binds, Client!Exits, Client!Alive
<1>2. \E s \in {"listening", "dead"} : daemons' = [daemons EXCEPT ![d] = s]
  BY DEF Client!Binds, Client!Exits
<1>3. mishaps' \in 0 .. MaxFaults
  BY DEF Client!Binds, Client!Exits, Client!Faulty, ClientInv, ClientTyped, Client!Parameters
<1>4. daemons \in [Client!Pids -> {"none", "booting", "listening", "stopping", "dead"}]
  BY DEF ClientInv, ClientTyped
<1>5. ClientTyped' BY <1>1, <1>2, <1>3, <1>4 DEF ClientInv, ClientTyped
<1>6. \A e \in Client!Pids : Client!Alive(e)' => Client!Alive(e)
  BY <1>1, <1>2, <1>4 DEF Client!Alive
<1> QED BY <1>1, <1>5, <1>6, AsideKeeps DEF Started

LEMMA ReadsPidKeeps ==
    ASSUME Client!Parameters, ClientInv, NEW c \in Commands, Client!ReadsPid(c)
    PROVE  ClientInv'
<1>1. /\ command[c].at = "start" /\ UNCHANGED <<current, received, mishaps>>
      /\ doubled' = (doubled \/ \E e \in Commands \ {c} : Client!Busy(e))
      /\ ClientTyped /\ command[c] \in Processes
  BY DEF Client!ReadsPid, ClientInv, ClientTyped
<1>2. ~Started(c) /\ \A e \in Commands \ {c} : Started(e) => Client!Busy(e)
  BY <1>1 DEF Started, Client!Busy
<1>3. ~doubled' => \A e \in Commands : ~Started(e) BY <1>1, <1>2
<1>4. doubled' \in BOOLEAN /\ (doubled => doubled') BY <1>1
<1>5. CASE pidfile = Client!NoFile \/ pidfile = Client!Empty \/ ~Client!Alive(pidfile)
  <2>1. Client!Goes(c, "spawn") /\ UNCHANGED daemons /\ (pidfile' = pidfile \/ pidfile' = 0)
    BY <1>5 DEF Client!ReadsPid, Client!Removed, Client!NoFile
  <2>2. "spawn" \in Places BY DEF Places
  <2>3. /\ command' \in [Commands -> Processes] /\ command'[c].at = "spawn"
        /\ \A e \in Commands \ {c} : command'[e] = command[e]
    BY <1>1, <2>1, <2>2, CommandGoes
  <2>4. ClientTyped'
    <3>1. pidfile' \in 0 .. MaxDaemons + 1 BY <1>1, <2>1 DEF ClientTyped, Client!Parameters
    <3> QED BY <1>1, <1>4, <2>1, <2>3, <3>1 DEF ClientTyped
  <2>5. ASSUME Recorded, ~doubled' PROVE \A d \in Client!Pids : ~Client!Alive(d)'
    <3>1. \A d \in Client!Pids : Client!Alive(d) => pidfile = d BY <1>3, <2>5 DEF Recorded
    <3>2. \A d \in Client!Pids : d # Client!NoFile /\ d # Client!Empty
      BY DEF Client!Pids, Client!NoFile, Client!Empty, Client!Parameters
    <3>3. \A d \in Client!Pids : ~Client!Alive(d) BY <1>5, <3>1, <3>2
    <3> QED BY <2>1, <3>3 DEF Client!Alive
  <2>6. Recorded /\ ~doubled' => Started(c)' /\ Knows(c)' BY <2>3, <2>5 DEF Started, Knows
  <2> QED BY <1>3, <1>4, <2>3, <2>4, <2>6, SoleKeeps
<1>6. CASE ~(pidfile = Client!NoFile \/ pidfile = Client!Empty \/ ~Client!Alive(pidfile))
  <2>1. /\ command' = [command EXCEPT ![c].at = "term", ![c].pid = pidfile]
        /\ daemons' = [daemons EXCEPT ![pidfile] = "stopping"] /\ UNCHANGED pidfile
    BY <1>6 DEF Client!ReadsPid
  <2>2. pidfile \in Client!Pids /\ pidfile \in 0 .. MaxDaemons
    BY <1>1, <1>6 DEF ClientTyped, Client!Pids, Client!NoFile, Client!Empty, Client!Parameters
  <2>3. PICK k : k = [command[c] EXCEPT !.at = "term", !.pid = pidfile] OBVIOUS
  <2>4. k \in Processes /\ k.at = "term" /\ k.pid = pidfile
    BY <1>1, <2>2, <2>3 DEF Processes, Places
  <2>5. command' = [command EXCEPT ![c] = k]
    <3>1. command \in [Commands -> Processes] BY <1>1 DEF ClientTyped
    <3>2. [command EXCEPT ![c].at = "term", ![c].pid = pidfile]
            = [command EXCEPT ![c] = [command[c] EXCEPT !.at = "term", !.pid = pidfile]]
      BY <3>1 DEF Processes
    <3> QED BY <2>1, <2>3, <3>2
  <2>6. /\ command' \in [Commands -> Processes] /\ command'[c].at = "term" /\ command'[c].pid = pidfile
        /\ \A e \in Commands \ {c} : command'[e] = command[e]
    BY <1>1, <2>4, <2>5 DEF ClientTyped
  <2>7. daemons \in [Client!Pids -> {"none", "booting", "listening", "stopping", "dead"}]
    BY <1>1 DEF ClientTyped
  <2>8. ClientTyped' BY <1>1, <1>4, <2>1, <2>2, <2>6, <2>7 DEF ClientTyped
  <2>9. \A d \in Client!Pids : Client!Alive(d)' => Client!Alive(d)
    BY <1>6, <2>1, <2>2, <2>7 DEF Client!Alive
  <2>10. ASSUME Recorded, ~doubled' PROVE \A d \in Client!Pids : Client!Alive(d) => pidfile = d
    BY <1>3, <2>10 DEF Recorded
  <2>11. Recorded /\ ~doubled' => Started(c)' /\ Knows(c)'
    BY <2>1, <2>6, <2>9, <2>10 DEF Started, Knows
  <2> QED BY <1>3, <1>4, <2>6, <2>8, <2>11, SoleKeeps
<1> QED BY <1>5, <1>6

LEMMA StartsKeeps ==
    ASSUME Client!Parameters, ClientInv, NEW c \in Commands,
           Client!AwaitsStop(c) \/ Client!Spawn(c) \/ Client!WritesPid(c) \/ Client!Watches(c)
    PROVE  ClientInv'
<1>1. Started(c) /\ UNCHANGED <<current, doubled, mishaps>> /\ ClientTyped /\ command[c].pid \in 0 .. MaxDaemons
  BY DEF Client!AwaitsStop, Client!Spawn, Client!WritesPid, Client!Watches, Started, ClientInv,
       ClientTyped, Processes
<1>2. Recorded => Knows(c) /\ \A e \in Commands \ {c} : ~Started(e) BY <1>1 DEF Recorded
<1>3. 0 \notin Client!Pids /\ 0 \in 0 .. MaxDaemons + 1 /\ MaxDaemons + 1 \in 0 .. MaxDaemons + 1
      /\ command[c].pid \in 0 .. MaxDaemons + 1
  BY <1>1 DEF Client!Pids, Client!Parameters
<1>4. daemons \in [Client!Pids -> {"none", "booting", "listening", "stopping", "dead"}]
  BY <1>1 DEF ClientTyped
<1>5. ASSUME /\ command' \in [Commands -> Processes]
             /\ \A e \in Commands \ {c} : command'[e] = command[e],
             pidfile' \in {0, MaxDaemons + 1, pidfile, command[c].pid},
             daemons' \in [Client!Pids -> {"none", "booting", "listening", "stopping", "dead"}],
             Recorded /\ ~doubled' =>
                 IF Started(c)' THEN Knows(c)' ELSE \A d \in Client!Pids : Client!Alive(d)' => pidfile' = d
      PROVE  ClientInv'
  <2>1. pidfile' \in 0 .. MaxDaemons + 1 BY <1>1, <1>3, <1>5 DEF ClientTyped
  <2>2. ClientTyped' BY <1>1, <1>5, <2>1 DEF ClientTyped
  <2> QED BY <1>1, <1>2, <1>5, <2>2, SoleKeeps
<1>6. CASE Client!AwaitsStop(c)
  <2>1. command[c].at = "term" /\ UNCHANGED daemons BY <1>6 DEF Client!AwaitsStop
  <2>2. \A d \in Client!Pids : Client!Alive(d)' <=> Client!Alive(d) BY <2>1 DEF Client!Alive
  <2>3. CASE Client!Alive(command[c].pid)
    <3>1. Client!Ends(c) /\ UNCHANGED pidfile BY <1>6, <2>3 DEF Client!AwaitsStop
    <3>2. ~Started(c)' BY <1>1, <3>1, CommandEnds DEF Started
    <3>3. Recorded => \A d \in Client!Pids : Client!Alive(d) => pidfile = d BY <1>2, <2>1 DEF Knows
    <3> QED BY <1>1, <1>4, <1>5, <2>1, <2>2, <3>1, <3>2, <3>3, CommandEnds
  <2>4. CASE ~Client!Alive(command[c].pid)
    <3>1. pidfile' = 0 /\ (Client!Goes(c, "spawn") \/ Client!Ends(c))
      BY <1>6, <2>4 DEF Client!AwaitsStop, Client!Removed, Client!NoFile
    <3>2. Recorded => \A d \in Client!Pids : ~Client!Alive(d)' BY <1>2, <2>2, <2>4 DEF Knows
    <3>3. "spawn" \in Places BY DEF Places
    <3>4. CASE Client!Goes(c, "spawn")
      <4>1. /\ command' \in [Commands -> Processes] /\ command'[c].at = "spawn"
            /\ \A e \in Commands \ {c} : command'[e] = command[e]
        BY <1>1, <3>3, <3>4, CommandGoes
      <4>2. Recorded => Knows(c)' BY <3>2, <4>1 DEF Knows
      <4>3. Started(c)' BY <4>1 DEF Started
      <4> QED BY <1>4, <1>5, <2>1, <3>1, <4>1, <4>2, <4>3
    <3>5. CASE Client!Ends(c)
      <4>1. ~Started(c)' BY <1>1, <3>5, CommandEnds DEF Started
      <4> QED BY <1>1, <1>4, <1>5, <2>1, <3>1, <3>2, <3>5, <4>1, CommandEnds
    <3> QED BY <3>1, <3>4, <3>5
  <2> QED BY <2>3, <2>4
<1>7. CASE Client!Spawn(c)
  <2>1. PICK d \in Client!Pids : /\ daemons' = [daemons EXCEPT ![d] = "booting"]
                                 /\ command' = [command EXCEPT ![c].at = "write", ![c].pid = d]
    BY <1>7 DEF Client!Spawn
  <2>2. command[c].at = "spawn" /\ UNCHANGED pidfile BY <1>7 DEF Client!Spawn
  <2>3. d \in 0 .. MaxDaemons BY DEF Client!Pids, Client!Parameters
  <2>4. PICK k : k = [command[c] EXCEPT !.at = "write", !.pid = d] OBVIOUS
  <2>5. command \in [Commands -> Processes] /\ command[c] \in Processes BY <1>1 DEF ClientTyped
  <2>6. k \in Processes /\ k.at = "write" /\ k.pid = d BY <2>3, <2>4, <2>5 DEF Processes, Places
  <2>7. [command EXCEPT ![c].at = "write", ![c].pid = d]
            = [command EXCEPT ![c] = [command[c] EXCEPT !.at = "write", !.pid = d]]
    BY <2>5 DEF Processes
  <2>8. command' = [command EXCEPT ![c] = k] BY <2>1, <2>4, <2>7
  <2>9. /\ command' \in [Commands -> Processes] /\ command'[c].at = "write" /\ command'[c].pid = d
        /\ \A e \in Commands \ {c} : command'[e] = command[e]
    BY <2>5, <2>6, <2>8
  <2>10. Recorded => \A e \in Client!Pids : Client!Alive(e)' => e = d
    BY <1>2, <1>4, <2>1, <2>2 DEF Knows, Client!Alive
  <2>11. Started(c)' /\ (Recorded => Knows(c)') BY <2>9, <2>10 DEF Started, Knows
  <2> QED BY <1>4, <1>5, <2>1, <2>2, <2>9, <2>11
<1>8. CASE Client!WritesPid(c)
  <2>1. PICK at \in {"fill", "watch"} :
           /\ Client!Goes(c, at) /\ (at = "fill" => pidfile' = MaxDaemons + 1)
           /\ (at = "watch" => pidfile' = command[c].pid)
    BY <1>8 DEF Client!WritesPid, Client!Empty
  <2>2. UNCHANGED daemons /\ at \in Places BY <1>8 DEF Client!WritesPid, Places
  <2>3. /\ command' \in [Commands -> Processes] /\ command'[c].at = at /\ command'[c].pid = command[c].pid
        /\ \A e \in Commands \ {c} : command'[e] = command[e]
    BY <1>1, <2>1, <2>2, CommandGoes
  <2>4. \A d \in Client!Pids : Client!Alive(d)' <=> Client!Alive(d) BY <2>2 DEF Client!Alive
  <2>5. Started(c)' /\ (Recorded => Knows(c)') BY <1>2, <2>1, <2>3, <2>4 DEF Started, Knows
  <2> QED BY <1>4, <1>5, <2>1, <2>2, <2>3, <2>5
<1>9. CASE Client!Watches(c)
  <2>1. command[c].at = "watch" /\ UNCHANGED daemons BY <1>9 DEF Client!Watches
  <2>2. \A d \in Client!Pids : Client!Alive(d)' <=> Client!Alive(d) BY <2>1 DEF Client!Alive
  <2>3. /\ pidfile' = pidfile \/ (pidfile' = 0 /\ ~Client!Alive(command[c].pid))
        /\ Client!Ends(c) \/ Client!Goes(c, "reach")
    BY <1>9 DEF Client!Watches, Client!Removed, Client!NoFile
  <2>4. "reach" \in Places BY DEF Places
  <2>5. /\ command' \in [Commands -> Processes] /\ ~Started(c)'
        /\ \A e \in Commands \ {c} : command'[e] = command[e]
    BY <1>1, <2>3, <2>4, CommandGoes, CommandEnds DEF Started
  <2>6. Recorded => \A d \in Client!Pids : Client!Alive(d)' => pidfile' = d
    BY <1>2, <2>1, <2>2, <2>3 DEF Knows
  <2>7. pidfile' \in {0, MaxDaemons + 1, pidfile, command[c].pid} BY <2>3
  <2> QED BY <1>4, <1>5, <2>1, <2>5, <2>6, <2>7
<1> QED BY <1>6, <1>7, <1>8, <1>9

LEMMA DiesKeeps ==
    ASSUME Client!Parameters, ClientInv, NEW c \in Commands, Client!CommandDies(c)
    PROVE  ClientInv'
<1>1. /\ UNCHANGED <<pidfile, daemons, current>> /\ Client!Ends(c) /\ ClientTyped
      /\ doubled' = (doubled \/ Client!Busy(c)) /\ mishaps < MaxFaults /\ mishaps' = mishaps + 1
  BY DEF Client!CommandDies, Client!Faulty, ClientInv
<1>2. /\ command' \in [Commands -> Processes] /\ ~Started(c)'
      /\ \A e \in Commands \ {c} : command'[e] = command[e]
  BY <1>1, CommandEnds DEF Started
<1>3. mishaps' \in 0 .. MaxFaults BY <1>1 DEF ClientTyped, Client!Parameters
<1>4. doubled' \in BOOLEAN /\ (doubled => doubled') BY <1>1
<1>5. ClientTyped' BY <1>1, <1>2, <1>3, <1>4 DEF ClientTyped
<1>6. Started(c) => doubled' BY <1>1 DEF Started, Client!Busy
<1>7. CASE Started(c) BY <1>5, <1>6, <1>7 DEF ClientInv
<1>8. CASE ~Started(c)
  <2>1. \A d \in Client!Pids : Client!Alive(d)' => Client!Alive(d) BY <1>1 DEF Client!Alive
  <2>2. \A e \in Commands : Started(e) \/ Started(e)' =>
               command'[e].at = command[e].at /\ command'[e].pid = command[e].pid
    BY <1>2, <1>8
  <2> QED BY <1>1, <1>4, <1>5, <2>1, <2>2, AsideKeeps
<1> QED BY <1>7, <1>8

LEMMA ClientStarting ==
    ASSUME Client!Parameters, Client!Init
    PROVE  ClientInv
<1>1. Client!Nobody \in Processes /\ Client!Nobody.at = "idle"
  BY DEF Client!Nobody, Processes, Places, Client!Parameters
<1>2. 0 \in 0 .. MaxDaemons + 1 /\ 0 \in 0 .. MaxFaults BY DEF Client!Parameters
<1>3. command = [c \in Commands |-> Client!Nobody] /\ pidfile = 0 /\ mishaps = 0 /\ current \in Runs
  BY DEF Client!Init, Client!NoFile
<1>4. doubled = FALSE /\ daemons = [d \in Client!Pids |-> "none"] BY DEF Client!Init
<1>5. ClientTyped BY <1>1, <1>2, <1>3, <1>4 DEF ClientTyped
<1>6. (\A c \in Commands : ~Started(c)) /\ \A d \in Client!Pids : ~Client!Alive(d)
  BY <1>1, <1>3, <1>4 DEF Started, Client!Alive
<1> QED BY <1>5, <1>6 DEF ClientInv, Recorded

LEMMA ClientStepKeeps ==
    ASSUME Client!Parameters, ClientInv, [Client!Next]_(Client!vars)
    PROVE  ClientInv'
<1>1. CASE UNCHANGED Client!vars \/ \E run \in Runs : Client!SwitchTab(run)
  <2>1. UNCHANGED <<command, pidfile, daemons, doubled, mishaps>> /\ current' \in Runs
    BY <1>1 DEF Client!vars, Client!SwitchTab, ClientInv, ClientTyped
  <2>2. ClientTyped' BY <2>1 DEF ClientInv, ClientTyped
  <2> QED BY <2>1, <2>2, AsideKeeps DEF Client!Alive
<1>2. CASE \E c \in Commands : Client!Asks(c) \/ Client!Starts(c) \/ Client!CommandDies(c)
  BY <1>2, AsksKeeps, ReadsPidKeeps, StartsKeeps, DiesKeeps DEF Client!Starts
<1>3. CASE \E d \in Client!Pids : Client!Binds(d) \/ Client!Exits(d) BY <1>3, DaemonKeeps
<1> QED BY <1>1, <1>2, <1>3 DEF Client!Next

LEMMA ClientFollows ==
    ASSUME Client!Parameters, ClientInv
    PROVE  Client!TypeOK /\ Client!ListeningDaemonIsRecorded
<1>1. Client!TypeOK BY DEF ClientInv, ClientTyped, Client!TypeOK, Processes, Places
<1>2. ASSUME ~doubled, NEW d \in Client!Pids, daemons[d] \in {"listening", "stopping"},
             \A c \in Commands : ~Client!Busy(c)
      PROVE  pidfile = d
  <2>1. Client!Alive(d) BY <1>2 DEF Client!Alive
  <2>2. \A c \in Commands : ~Started(c) BY <1>2 DEF Started, Client!Busy
  <2> QED BY <1>2, <2>1, <2>2 DEF ClientInv, Recorded
<1> QED BY <1>1, <1>2 DEF Client!ListeningDaemonIsRecorded

(* The variables of the command line and its daemons keep their types.       *)
THEOREM ClientTypeCorrect == Client!Parameters => (Client!Spec => []Client!TypeOK)
<1> SUFFICES ASSUME Client!Parameters PROVE Client!Spec => []Client!TypeOK OBVIOUS
<1>1. Client!Init => ClientInv BY ClientStarting
<1>2. ClientInv /\ [Client!Next]_(Client!vars) => ClientInv' BY ClientStepKeeps
<1>3. ClientInv => Client!TypeOK BY ClientFollows
<1> QED BY <1>1, <1>2, <1>3, PTL DEF Client!Spec

(* A daemon that has the address is the one the pid file names, unless two   *)
(* starts or stops ran at once or one was cut short (start and stop of the   *)
(* daemon, webapp.rs).                                                       *)
THEOREM DaemonRecorded == Client!Parameters => (Client!Spec => []Client!ListeningDaemonIsRecorded)
<1> SUFFICES ASSUME Client!Parameters
             PROVE  Client!Spec => []Client!ListeningDaemonIsRecorded OBVIOUS
<1>1. Client!Init => ClientInv BY ClientStarting
<1>2. ClientInv /\ [Client!Next]_(Client!vars) => ClientInv' BY ClientStepKeeps
<1>3. ClientInv => Client!ListeningDaemonIsRecorded BY ClientFollows
<1> QED BY <1>1, <1>2, <1>3, PTL DEF Client!Spec

===============================================================================
