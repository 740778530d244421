-------------------------- MODULE TaskRecordsProofs --------------------------
(***************************************************************************)
(* Proofs about what is kept of tasks: the stored records (TaskRecords),   *)
(* the usage entered in them (TaskTelemetry) and the evidence of delivered *)
(* work (TaskEvidence).  Each component is proved by itself, for every     *)
(* value of its constants; they share no variables.                        *)
(***************************************************************************)
EXTENDS TaskRecords, FiniteSetTheorems, WellFoundedInduction, Naturals, Sequences, FiniteSets, TLAPS

----------------------------------------------------------------------------
(* TaskRecords, for every set of ids, repositories and processes, whatever   *)
(* rows an older version left behind.                                        *)
(*                                                                           *)
(* CounterAhead is about the stored rows.  What it needs beside them is what *)
(* a process that fills in missing numbers carries between its statements:   *)
(* which rows are still without a number, in which repository (Listed), and  *)
(* the number it has taken and not stored yet (Promised).                    *)

(* A set of numbers has a least one.                                         *)
LEMMA Least ==
    ASSUME NEW S \in SUBSET Nat, S # {}
    PROVE  \E n \in S : \A m \in S : n <= m
<1> DEFINE R == OpToRel(<, Nat)
<1>1. IsWellFoundedOn(R, Nat) BY NatLessThanWellFounded
<1>2. \A m, n \in Nat : m < n => <<m, n>> \in R BY Zenon DEF OpToRel
<1> HIDE DEF R
<1>3. PICK n \in S : \A m \in S : ~ (<<m, n>> \in R) BY <1>1, WFMin
<1>4. ASSUME NEW m \in S PROVE n <= m
  <2>1. ~ (m < n) BY <1>2, <1>3
  <2> QED BY <2>1
<1> QED BY <1>4

(* A finite set of numbers has a greatest one.                               *)
LEMMA FiniteMax ==
    ASSUME NEW S \in SUBSET Nat, IsFiniteSet(S), S # {}
    PROVE  Max(S) \in S /\ \A x \in S : Max(S) >= x
<1> DEFINE Has(T) == \E m \in T : \A x \in T : m >= x
           Bad == {n \in Nat : \E T \in SUBSET Nat : /\ IsFiniteSet(T) /\ T # {}
                                                     /\ Cardinality(T) = n /\ ~Has(T)}
<1>1. Bad = {}
  <2> SUFFICES ASSUME Bad # {} PROVE FALSE OBVIOUS
  <2>1. PICK n \in Bad : \A m \in Bad : n <= m BY Least
  <2>2. PICK T \in SUBSET Nat : IsFiniteSet(T) /\ T # {} /\ Cardinality(T) = n /\ ~Has(T)
    OBVIOUS
  <2>3. PICK x \in T : TRUE BY <2>2
  <2> DEFINE U == T \ {x}
  <2>4. IsFiniteSet(U) /\ Cardinality(U) = n - 1 /\ n \in Nat
    BY <2>1, <2>2, <2>3, FS_RemoveElement
  <2>5. U # {}
    <3> SUFFICES ASSUME U = {} PROVE FALSE OBVIOUS
    <3>1. \A y \in T : y = x BY <2>3
    <3> QED BY <3>1, <2>2, <2>3
  <2>6. Cardinality(U) \in Nat BY <2>4, FS_CardinalityType
  <2>7. Has(U)
    <3>1. (n - 1) \notin Bad BY <2>1, <2>4
    <3> QED BY <3>1, <2>4, <2>5, <2>6
  <2>8. PICK m \in U : \A y \in U : m >= y BY <2>7
  <2>9. CASE m >= x BY <2>2, <2>3, <2>8, <2>9
  <2>10. CASE x >= m
    <3>1. \A y \in T : x >= y BY <2>3, <2>8, <2>10
    <3> QED BY <3>1, <2>2, <2>3
  <2> QED BY <2>9, <2>10, <2>2, <2>3
<1>2. Has(S)
  <2>1. Cardinality(S) \in Nat BY FS_CardinalityType
  <2> QED BY <1>1, <2>1
<1> QED BY <1>2 DEF Max



LEMMA MaxOfTwo ==
    ASSUME NEW m \in Nat, NEW n \in Nat
    PROVE  Max({m, n}) \in Nat /\ Max({m, n}) >= m /\ Max({m, n}) >= n
<1>1. IsFiniteSet({m}) BY FS_Singleton
<1>2. IsFiniteSet({m} \cup {n}) BY <1>1, FS_AddElement
<1>3. {m, n} = {m} \cup {n} OBVIOUS
<1> QED BY <1>2, <1>3, FiniteMax

---------------------------------------------------------------------------
Pc == {"opening", "repair", "scrub", "seed", "seeding", "list", "fill", "filling", "ready",
       "store", "marking", "sync", "import"}

(* TypeOK, with what only a process knows.                                   *)
StoredType == rows \in [Ids -> Row] /\ counter \in [Repos -> Nat]

RemoteType == remoteTasks \in [RemoteIds -> Row] /\ export \in [Procs -> [RemoteIds -> Row]]

ProcType ==
    /\ pc \in [Procs -> Pc]
    /\ draft \in [Procs -> [id : Ids, row : Row]]
    /\ taken \in [Procs -> Nat]
    /\ todo \in [Procs -> SUBSET (Ids \X Repos)]
    /\ seeds \in [Procs -> [Repos -> Nat]]

BoundType == clock \in 1..MaxTime /\ ops \in 0..MaxOps /\ faults \in 0..MaxFaults

(* The processes that may still run the repair.                              *)
MayRepair == {p \in Procs : pc[p] = "repair" \/ (pc[p] = "opening" /\ repairs = 0)}

RepairType == repairs \in Nat /\ repairs + Cardinality(MayRepair) <= Cardinality(Procs)

Typed == StoredType /\ RemoteType /\ ProcType /\ BoundType /\ RepairType

---------------------------------------------------------------------------
Counts(row) == UsesSequence(row.source) /\ row.repo # NoRepo

(* A row that an opening process has to number.                              *)
Blank(i) == Counts(rows[i]) /\ rows[i].seq = 0

Ahead == \A i \in Ids : Counts(rows[i]) /\ rows[i].seq # 0 => counter[rows[i].repo] > rows[i].seq

Repaired == \A p \in Procs : pc[p] \notin {"opening", "repair"} => repairs >= 1

Listed == \A p \in Procs : pc[p] \in {"fill", "filling"} =>
              \A t \in todo[p] : Blank(t[1]) => rows[t[1]].repo = t[2]

Promised == \A p \in Procs : pc[p] = "filling" /\ Blank(draft[p].id)
              => counter[rows[draft[p].id].repo] > taken[p]

Inv == Typed /\ Repaired /\ Listed /\ (repairs < 2 => Ahead /\ Promised)

(* What every write does to the numbers but the repair: it leaves no row     *)
(* that counts without a number, and moves the counters up with the numbers. *)
Leaves(i) == rows'[i] = rows[i] \/ ~Counts(rows'[i]) \/ rows'[i].seq # 0
Covers(i) == \/ rows'[i] = rows[i] \/ ~Counts(rows'[i])
             \/ counter'[rows'[i].repo] > rows'[i].seq
Grows == \A r \in Repos : counter'[r] >= counter[r]

---------------------------------------------------------------------------
LEMMA GoneRow ==
    ASSUME Parameters
    PROVE  Gone \in Row /\ ~Counts(Gone) /\ NoExport \in [RemoteIds -> Row]
           /\ NoDraft \in [id : Ids, row : Row]
<1>1. Gone \in Row BY DEF Parameters, Gone, Row
<1>2. (CHOOSE i \in Ids : TRUE) \in Ids BY DEF Parameters
<1> QED BY <1>1, <1>2 DEF Gone, Counts, NoExport, NoDraft

(* The largest number of a repository.                                       *)
LEMMA LargestNumber ==
    ASSUME Parameters, StoredType, NEW r \in Repos
    PROVE  /\ MaxSequence(r) \in Nat
           /\ \A i \in Numbered(r) : MaxSequence(r) >= rows[i].seq
<1> DEFINE S == {rows[i].seq : i \in Numbered(r)}
<1>1. Numbered(r) \subseteq Ids BY DEF Numbered
<1>2. IsFiniteSet(Numbered(r)) BY <1>1, FS_Subset DEF Parameters
<1>3. IsFiniteSet(S)
  <2> DEFINE f == [i \in Numbered(r) |-> rows[i].seq]
  <2>1. f \in Surjection(Numbered(r), S) BY DEF Surjection
  <2> QED BY <1>2, <2>1, FS_Surjection
<1>4. IsFiniteSet({0} \cup S) BY <1>3, FS_Singleton, FS_Union
<1>5. {0} \cup S \in SUBSET Nat BY <1>1 DEF StoredType, Row
<1>6. Max({0} \cup S) \in {0} \cup S /\ \A x \in {0} \cup S : Max({0} \cup S) >= x
  BY <1>4, <1>5, FiniteMax
<1>7. MaxSequence(r) = Max({0} \cup S) BY DEF MaxSequence
<1> HIDE DEF S
<1>8. Max({0} \cup S) \in Nat BY <1>5, <1>6
<1> QED BY <1>6, <1>7, <1>8 DEF S

LEMMA NextNumber ==
    ASSUME Parameters, StoredType, NEW r \in Repos
    PROVE  /\ Allocate(r) \in Nat \ {0}
           /\ counter[r] # 0 => Allocate(r) = counter[r]
<1>1. MaxSequence(r) \in Nat /\ counter[r] \in Nat BY LargestNumber DEF StoredType
<1> QED BY <1>1 DEF Allocate

LEMMA AdvancedFine ==
    ASSUME StoredType, NEW r \in Repos, NEW n \in Nat
    PROVE  /\ Advanced(r, n) \in [Repos -> Nat]
           /\ Advanced(r, n)[r] > n
           /\ \A q \in Repos : Advanced(r, n)[q] >= counter[q]
<1>1. counter[r] \in Nat /\ n + 1 \in Nat BY DEF StoredType
<1>2. Max({counter[r], n + 1}) \in Nat /\ Max({counter[r], n + 1}) >= counter[r]
      /\ Max({counter[r], n + 1}) >= n + 1
  BY <1>1, MaxOfTwo
<1> DEFINE m == Max({counter[r], n + 1})
<1>3. Advanced(r, n) = [counter EXCEPT ![r] = m] BY DEF Advanced
<1> HIDE DEF m
<1>4. m \in Nat /\ m >= counter[r] /\ m > n BY <1>1, <1>2 DEF m
<1> QED BY <1>3, <1>4 DEF StoredType

(* A record is stored: it counts only with a number that its counter has     *)
(* left behind.                                                              *)
LEMMA UpsertFine ==
    ASSUME Parameters, StoredType, NEW i \in Ids, NEW record \in Row, Upsert(i, record)
    PROVE  /\ StoredType'
           /\ \A j \in Ids : Leaves(j) /\ Covers(j)
           /\ Grows
<1> DEFINE repo == Coalesce(record.repo, rows[i].repo)
           number == SequenceFor(i, record)
           created == IF Present(rows[i]) THEN rows[i].created ELSE record.created
           new == [record EXCEPT !.seq = number, !.repo = repo, !.created = created]
<1>0. \A r \in Repos : counter[r] \in Nat BY DEF StoredType
<1>1. CASE UNCHANGED <<rows, counter>>
  BY <1>0, <1>1 DEF StoredType, Leaves, Covers, Grows
<1>2. CASE ~UNCHANGED <<rows, counter>>
  <2>1. /\ rows' = [rows EXCEPT ![i] = new]
        /\ counter' = IF number # 0 /\ repo # NoRepo THEN Advanced(repo, number) ELSE counter
    BY <1>2 DEF Upsert
  <2>2. rows[i] \in Row BY DEF StoredType
  <2>3. repo \in Repos \cup {NoRepo} BY <2>2 DEF Coalesce, Row
  <2>4. number \in Nat /\ (UsesSequence(record.source) /\ repo # NoRepo => number # 0)
    <3>1. repo # NoRepo => Allocate(repo) \in Nat \ {0} BY <2>3, NextNumber
    <3>2. record.seq \in Nat /\ rows[i].seq \in Nat BY <2>2 DEF Row
    <3> QED BY <3>1, <3>2 DEF SequenceFor
  <2> HIDE DEF repo, number
  <2>5. new \in Row /\ new.source = record.source /\ new.seq = number /\ new.repo = repo
    BY <2>2, <2>3, <2>4 DEF Row
  <2>6. rows' \in [Ids -> Row] /\ rows'[i] = new /\ \A j \in Ids \ {i} : rows'[j] = rows[j]
    BY <2>1, <2>5 DEF StoredType
  <2> HIDE DEF new
  <2>7. counter' \in [Repos -> Nat] /\ Grows BY <1>0, <2>1, <2>3, <2>4, AdvancedFine
                                             DEF StoredType, Grows
  <2>8. Counts(new) => number # 0 /\ counter'[repo] > number
    BY <2>1, <2>3, <2>4, <2>5, AdvancedFine DEF Counts
  <2> QED BY <2>5, <2>6, <2>7, <2>8 DEF StoredType, Leaves, Covers
<1> QED BY <1>1, <1>2

---------------------------------------------------------------------------
(* The steps, by what they touch.                                            *)
Same == rows' = rows /\ counter' = counter

LEMMA SameFine ==
    ASSUME StoredType, Same
    PROVE  StoredType' /\ (\A j \in Ids : Leaves(j) /\ Covers(j)) /\ Grows
BY DEF StoredType, Same, Leaves, Covers, Grows

LEMMA RepairKept ==
    ASSUME Parameters, RepairType, repairs' = repairs, MayRepair' \subseteq MayRepair
    PROVE  RepairType'
<1>1. MayRepair \subseteq Procs BY DEF MayRepair
<1>2. IsFiniteSet(MayRepair) BY <1>1, FS_Subset DEF Parameters
<1>3. /\ Cardinality(MayRepair') <= Cardinality(MayRepair)
      /\ Cardinality(MayRepair) \in Nat /\ Cardinality(MayRepair') \in Nat
  BY <1>2, FS_Subset, FS_CardinalityType
<1>4. Cardinality(Procs) \in Nat BY FS_CardinalityType DEF Parameters
<1> HIDE DEF MayRepair
<1>5. Cardinality(MayRepair)' = Cardinality(MayRepair') OBVIOUS
<1> QED BY <1>3, <1>4, <1>5 DEF RepairType

LEMMA ProcMoves ==
    ASSUME Parameters, Typed, NEW p \in Procs, NEW next \in Pc \ {"opening", "repair"},
           Goto(p, next), repairs' = repairs
    PROVE  pc' \in [Procs -> Pc] /\ RepairType'
<1>1. pc' = [pc EXCEPT ![p] = next] /\ pc \in [Procs -> Pc] BY DEF Goto, Typed, ProcType
<1>2. MayRepair' \subseteq MayRepair BY <1>1 DEF MayRepair
<1> QED BY <1>1, <1>2, RepairKept DEF Typed

LEMMA ProcsStay ==
    ASSUME Parameters, Typed, pc' = pc, repairs' = repairs
    PROVE  RepairType'
BY RepairKept DEF MayRepair, Typed

LEMMA CountedFine ==
    ASSUME Parameters, BoundType, Counted
    PROVE  ops' \in 0..MaxOps
<1>1. MaxOps \in Nat /\ ops \in 0..MaxOps BY DEF Parameters, BoundType
<1>2. ops < MaxOps /\ ops' = ops + 1 BY DEF Counted
<1> QED BY <1>1, <1>2

LEMMA ReadsTyped ==
    ASSUME Parameters, Typed, NEW p \in Procs,
           SeedReads(p) \/ FillLists(p) \/ Opened(p) \/ SyncExports(p) \/ SyncEnds(p)
             \/ CommandFails(p) \/ (\E i \in Ids, st \in {"open", "closed"} : UpdateReads(p, i, st))
             \/ (\E i \in RemoteIds : SyncReads(p, i))
    PROVE  Typed' /\ Same
<1> USE DEF Pc
<1>0. /\ StoredType /\ RemoteType /\ ProcType /\ BoundType /\ RepairType BY DEF Typed
<1>a. Same => StoredType' BY <1>0, SameFine
<1>1. CASE SeedReads(p)
  <2>1. \A r \in Repos : MaxSequence(r) + 1 \in Nat BY <1>0, LargestNumber
  <2>2. [r \in Repos |-> IF Numbered(r) = {} THEN 0 ELSE MaxSequence(r) + 1] \in [Repos -> Nat]
    BY <2>1
  <2> QED BY <1>0, <1>1, <1>a, <2>2, ProcMoves
          DEF SeedReads, Held, Same, RemoteType, ProcType, BoundType, Typed
<1>2. CASE FillLists(p)
  <2> DEFINE S == {<<i, rows[i].repo>> : i \in
                 {j \in Ids : /\ rows[j].repo # NoRepo /\ rows[j].seq = 0
                              /\ UsesSequence(rows[j].source)}}
  <2>1. S \subseteq Ids \X Repos BY <1>0 DEF StoredType, Row
  <2>2. todo' = [todo EXCEPT ![p] = S] BY <1>2 DEF FillLists
  <2> HIDE DEF S
  <2> QED BY <1>0, <1>2, <1>a, <2>1, <2>2, ProcMoves
          DEF FillLists, Held, Same, RemoteType, ProcType, BoundType, Typed
<1>3. CASE Opened(p)
  BY <1>0, <1>3, <1>a, ProcMoves
     DEF Opened, Held, work, Same, RemoteType, ProcType, BoundType, Typed
<1>4. CASE SyncExports(p)
  <2>1. {<<i, Local>> : i \in {j \in RemoteIds : Present(remoteTasks[j])}} \subseteq Ids \X Repos
    BY DEF Parameters
  <2> QED BY <1>0, <1>4, <1>a, <2>1, ProcMoves
          DEF SyncExports, Held, Same, RemoteType, ProcType, BoundType, Typed
<1>5. CASE SyncEnds(p)
  BY <1>0, <1>5, <1>a, ProcMoves, GoneRow
     DEF SyncEnds, Held, Same, RemoteType, ProcType, BoundType, Typed
<1>6. CASE CommandFails(p)
  BY <1>0, <1>6, <1>a, ProcMoves, GoneRow
     DEF CommandFails, Same, RemoteType, ProcType, BoundType, Typed, Parameters
<1>7. ASSUME NEW i \in Ids, NEW st \in {"open", "closed"}, UpdateReads(p, i, st)
      PROVE  Typed' /\ Same
  <2>1. rows[i] \in Row /\ clock \in 0..MaxTime /\ st \in {"absent", "open", "closed"}
    BY <1>0 DEF StoredType, BoundType, Parameters
  <2>2. [rows[i] EXCEPT !.status = st, !.updated = clock] \in Row
    BY <2>1 DEF Row
  <2>3. ops' \in 0..MaxOps BY <1>0, <1>7, CountedFine DEF UpdateReads
  <2> QED BY <1>0, <1>7, <1>a, <2>2, <2>3, ProcMoves
          DEF UpdateReads, Same, RemoteType, ProcType, BoundType, Typed
<1>8. ASSUME NEW i \in RemoteIds, SyncReads(p, i)
      PROVE  Typed' /\ Same
  <2>1. i \in Ids /\ rows[i] \in Row /\ export[p][i] \in Row /\ clock \in 0..MaxTime
    BY <1>0 DEF Parameters, StoredType, RemoteType, BoundType
  <2>2. CanonicalRecord(rows[i], export[p][i]) \in Row
    BY <2>1 DEF CanonicalRecord, Row, Parameters
  <2> QED BY <1>0, <1>8, <1>a, <2>1, <2>2, ProcMoves
          DEF SyncReads, Held, Same, RemoteType, ProcType, BoundType, Typed
<1> QED BY <1>1, <1>2, <1>3, <1>4, <1>5, <1>6, <1>7, <1>8

---------------------------------------------------------------------------
(* What the writes do to the stored rows.                                    *)
Sound == StoredType' /\ (\A j \in Ids : Leaves(j) /\ Covers(j)) /\ Grows

LEMMA ScrubSound ==
    ASSUME StoredType, rows' = Scrubbed, counter' = counter
    PROVE  Sound
<1>1. ASSUME NEW j \in Ids
      PROVE  /\ rows'[j] \in Row
             /\ rows'[j] = rows[j] \/ ~Counts(rows'[j])
  <2>1. rows[j] \in Row BY DEF StoredType
  <2>2. [rows[j] EXCEPT !.seq = 0] \in Row /\ [rows[j] EXCEPT !.seq = 0].source = rows[j].source
    BY <2>1 DEF Row
  <2>3. rows'[j] = IF UsesSequence(rows[j].source) THEN rows[j] ELSE [rows[j] EXCEPT !.seq = 0]
    BY DEF Scrubbed
  <2> QED BY <2>1, <2>2, <2>3 DEF Counts
<1>2. rows' \in [Ids -> Row] BY <1>1 DEF Scrubbed
<1> QED BY <1>1, <1>2 DEF StoredType, Sound, Leaves, Covers, Grows

LEMMA SeedSound ==
    ASSUME StoredType, ProcType, NEW p \in Procs, rows' = rows,
           counter' = [r \in Repos |-> Max({counter[r], seeds[p][r]})]
    PROVE  Sound
<1>1. ASSUME NEW r \in Repos
      PROVE  counter'[r] \in Nat /\ counter'[r] >= counter[r]
  <2>1. counter[r] \in Nat /\ seeds[p][r] \in Nat BY DEF StoredType, ProcType
  <2>2. counter'[r] = Max({counter[r], seeds[p][r]}) OBVIOUS
  <2> QED BY <2>1, <2>2, MaxOfTwo
<1>2. counter' \in [Repos -> Nat] BY <1>1
<1> QED BY <1>1, <1>2 DEF StoredType, Sound, Leaves, Covers, Grows

LEMMA DeleteSound ==
    ASSUME Parameters, StoredType, NEW i \in Ids, rows' = [rows EXCEPT ![i] = Gone],
           counter' = counter
    PROVE  Sound
<1>1. Gone \in Row /\ ~Counts(Gone) BY GoneRow
<1>2. rows'[i] = Gone /\ (\A j \in Ids \ {i} : rows'[j] = rows[j]) /\ rows' \in [Ids -> Row]
  BY <1>1 DEF StoredType
<1> QED BY <1>1, <1>2 DEF StoredType, Sound, Leaves, Covers, Grows

LEMMA TakeSound ==
    ASSUME Parameters, StoredType, NEW r \in Repos, rows' = rows,
           counter' = Advanced(r, Allocate(r))
    PROVE  Sound /\ Allocate(r) \in Nat /\ counter'[r] > Allocate(r)
<1>1. Allocate(r) \in Nat BY NextNumber
<1> DEFINE n == Allocate(r)
<1>2. n \in Nat /\ counter' = Advanced(r, n) BY <1>1
<1> HIDE DEF n
<1>3. counter' \in [Repos -> Nat] /\ counter'[r] > n /\ \A q \in Repos : counter'[q] >= counter[q]
  BY <1>2, AdvancedFine
<1> QED BY <1>1, <1>3 DEF n, StoredType, Sound, Leaves, Covers, Grows

(* The repair itself.                                                        *)
LEMMA RepairsStored ==
    ASSUME Parameters, StoredType, rows' = Scrubbed,
           counter' = [r \in Repos |-> IF counter[r] = 0 THEN 0 ELSE MaxSequence(r) + 1]
    PROVE  /\ StoredType'
           /\ \A i \in Ids : rows'[i] = rows[i] \/ ~Counts(rows'[i])
           /\ Ahead => Ahead'
<1>1. ASSUME NEW j \in Ids
      PROVE  /\ rows'[j] \in Row
             /\ rows'[j] = rows[j] \/ ~Counts(rows'[j])
  <2>1. rows[j] \in Row BY DEF StoredType
  <2>2. [rows[j] EXCEPT !.seq = 0] \in Row /\ [rows[j] EXCEPT !.seq = 0].source = rows[j].source
    BY <2>1 DEF Row
  <2>3. rows'[j] = IF UsesSequence(rows[j].source) THEN rows[j] ELSE [rows[j] EXCEPT !.seq = 0]
    BY DEF Scrubbed
  <2> QED BY <2>1, <2>2, <2>3 DEF Counts
<1>2. rows' \in [Ids -> Row] BY <1>1 DEF Scrubbed
<1>3. \A r \in Repos : MaxSequence(r) \in Nat BY LargestNumber
<1>4. counter' \in [Repos -> Nat] BY <1>3
<1>5. ASSUME Ahead, NEW i \in Ids, Counts(rows'[i]), rows'[i].seq # 0
      PROVE  counter'[rows'[i].repo] > rows'[i].seq
  <2>1. rows'[i] = rows[i] BY <1>1, <1>5
  <2> DEFINE r == rows[i].repo
  <2>2. rows[i] \in Row BY DEF StoredType
  <2>3. r \in Repos BY <1>5, <2>1, <2>2 DEF Counts, Row
  <2>4. i \in Numbered(r) BY <1>5, <2>1 DEF Numbered, Counts
  <2>5. MaxSequence(r) >= rows[i].seq /\ MaxSequence(r) \in Nat BY <2>3, <2>4, LargestNumber
  <2>6. counter[r] > rows[i].seq /\ rows[i].seq \in Nat /\ counter[r] \in Nat
    BY <1>5, <2>1, <2>2, <2>3 DEF Ahead, Row, StoredType
  <2>7. counter'[r] = MaxSequence(r) + 1 BY <2>3, <2>6
  <2> QED BY <2>1, <2>5, <2>6, <2>7
<1> QED BY <1>1, <1>2, <1>4, <1>5 DEF StoredType, Ahead

---------------------------------------------------------------------------
LEMMA FillStored ==
    ASSUME Parameters, Typed, NEW p \in Procs, FillStores(p)
    PROVE  /\ StoredType'
           /\ \A j \in Ids : Leaves(j)
           /\ Promised => \A j \in Ids : Covers(j)
           /\ Grows
<1> DEFINE i == draft[p].id
           open == Present(rows[i]) /\ rows[i].seq = 0
           fail == open /\ Clash(i, rows[i].repo, taken[p])
           new == [rows[i] EXCEPT !.seq = taken[p]]
<1>1. /\ pc[p] = "filling" /\ counter' = counter
      /\ rows' = IF open /\ ~fail THEN [rows EXCEPT ![i] = new] ELSE rows
  <2>1. [rows EXCEPT ![i].seq = taken[p]] = [rows EXCEPT ![i] = new] OBVIOUS
  <2> HIDE DEF new
  <2> QED BY <2>1 DEF FillStores
<1>2. i \in Ids /\ taken[p] \in Nat /\ rows[i] \in Row /\ StoredType
  BY DEF Typed, ProcType, StoredType
<1>3. CASE ~(open /\ ~fail)
  <2>1. rows' = rows BY <1>1, <1>3
  <2> QED BY <1>1, <1>2, <2>1, SameFine DEF Same
<1>4. CASE open /\ ~fail
  <2>1. rows[i].seq = 0 BY <1>4
  <2>2. new \in Row /\ new.seq = taken[p] /\ new.repo = rows[i].repo
        /\ new.source = rows[i].source
    BY <1>2 DEF Row
  <2>3. taken[p] = 0 => new = rows[i]
    BY <1>2, <2>1 DEF Row
  <2>4. Promised /\ Counts(new) => counter[rows[i].repo] > taken[p]
    BY <1>1, <2>1, <2>2 DEF Promised, Blank, Counts
  <2>5. rows' = [rows EXCEPT ![i] = new] BY <1>1, <1>4
  <2> HIDE DEF i, new
  <2>6. rows' \in [Ids -> Row] /\ rows'[i] = new /\ \A j \in Ids \ {i} : rows'[j] = rows[j]
    BY <1>2, <2>2, <2>5 DEF StoredType
  <2> QED BY <1>1, <1>2, <2>2, <2>3, <2>4, <2>6 DEF StoredType, Leaves, Covers, Grows
<1> QED BY <1>3, <1>4

(* The statements that bring the database up to date.                        *)
LEMMA OpeningTyped ==
    ASSUME Parameters, Typed, NEW p \in Procs,
           Scrubs(p) \/ SeedStores(p) \/ (\E i \in Ids, r \in Repos : FillTakes(p, i, r))
    PROVE  Typed' /\ Sound
<1> USE DEF Pc
<1>0. /\ StoredType /\ RemoteType /\ ProcType /\ BoundType /\ RepairType BY DEF Typed
<1>a. Sound => StoredType' BY DEF Sound
<1>1. CASE Scrubs(p)
  <2>1. Sound BY <1>0, <1>1, ScrubSound DEF Scrubs
  <2> QED BY <1>0, <1>1, <1>a, <2>1, ProcMoves
          DEF Scrubs, Held, work, RemoteType, ProcType, BoundType, Typed
<1>2. CASE SeedStores(p)
  <2>1. Sound BY <1>0, <1>2, SeedSound DEF SeedStores
  <2> QED BY <1>0, <1>2, <1>a, <2>1, ProcMoves
          DEF SeedStores, Held, RemoteType, ProcType, BoundType, Typed
<1>3. ASSUME NEW i \in Ids, NEW r \in Repos, FillTakes(p, i, r)
      PROVE  Typed' /\ Sound
  <2>1. Sound /\ Allocate(r) \in Nat BY <1>0, <1>3, TakeSound DEF FillTakes
  <2>2. pc' \in [Procs -> Pc] /\ RepairType' BY <1>3, ProcMoves DEF FillTakes
  <2>3. /\ draft' = [draft EXCEPT ![p].id = i] /\ draft[p] \in [id : Ids, row : Row]
        /\ draft \in [Procs -> [id : Ids, row : Row]]
    BY <1>0, <1>3 DEF FillTakes, ProcType
  <2>4. [draft[p] EXCEPT !.id = i] \in [id : Ids, row : Row] BY <2>3
  <2>5. draft' \in [Procs -> [id : Ids, row : Row]] BY <2>3, <2>4
  <2>6. taken' \in [Procs -> Nat] BY <1>0, <1>3, <2>1 DEF FillTakes, ProcType
  <2>7. todo' \in [Procs -> SUBSET (Ids \X Repos)] /\ seeds' = seeds
    BY <1>0, <1>3 DEF FillTakes, ProcType
  <2>8. RemoteType' /\ BoundType' BY <1>0, <1>3 DEF FillTakes, Held, RemoteType, BoundType
  <2> QED BY <1>0, <1>a, <2>1, <2>2, <2>5, <2>6, <2>7, <2>8 DEF ProcType, Typed
<1> QED BY <1>1, <1>2, <1>3

LEMMA FillStoresTyped ==
    ASSUME Parameters, Typed, Repaired, NEW p \in Procs, FillStores(p)
    PROVE  Typed'
<1>1. /\ RemoteType /\ ProcType /\ BoundType /\ RepairType BY DEF Typed
<1>2. StoredType' BY FillStored
<1>3. /\ pc[p] = "filling" /\ repairs' = repairs /\ repairs >= 1
      /\ pc' = [pc EXCEPT ![p] = "opening"] \/ pc' = [pc EXCEPT ![p] = "fill"]
  BY <1>1 DEF FillStores, Goto, Repaired, ProcType
<1>4. pc' \in [Procs -> Pc] BY <1>1, <1>3 DEF ProcType, Pc
<1>5. MayRepair' \subseteq MayRepair BY <1>1, <1>3 DEF MayRepair, ProcType, RepairType
<1>6. RepairType' BY <1>1, <1>3, <1>5, RepairKept
<1>7. todo' \in [Procs -> SUBSET (Ids \X Repos)] BY <1>1 DEF FillStores, ProcType
<1>8. draft' \in [Procs -> [id : Ids, row : Row]] BY <1>1, GoneRow DEF FillStores, ProcType
<1>9. taken' \in [Procs -> Nat] BY <1>1 DEF FillStores, ProcType
<1>10. RemoteType' /\ BoundType' /\ seeds' = seeds
  BY <1>1 DEF FillStores, Held, RemoteType, BoundType
<1> QED BY <1>1, <1>2, <1>4, <1>6, <1>7, <1>8, <1>9, <1>10 DEF ProcType, Typed

(* Asking for the migration, and running it.                                 *)
LEMMA MigrationTyped ==
    ASSUME Parameters, Typed, NEW p \in Procs, ChecksMigration(p)
    PROVE  Typed' /\ Same
<1>1. /\ StoredType /\ RemoteType /\ ProcType /\ BoundType /\ RepairType BY DEF Typed
<1>2. /\ pc[p] = "opening" /\ repairs' = repairs /\ Same
      /\ IF repairs > 0 THEN pc' = [pc EXCEPT ![p] = "scrub"] ELSE pc' = [pc EXCEPT ![p] = "repair"]
  BY DEF ChecksMigration, Goto, Same
<1>3. pc' \in [Procs -> Pc] BY <1>1, <1>2 DEF ProcType, Pc
<1>4. MayRepair' \subseteq MayRepair BY <1>1, <1>2 DEF MayRepair, ProcType, RepairType
<1>5. RepairType' BY <1>1, <1>2, <1>4, RepairKept
<1>6. StoredType' BY <1>1, <1>2, SameFine
<1>7. UNCHANGED <<remoteTasks, export, draft, taken, todo, seeds, clock, ops, faults>>
  BY DEF ChecksMigration, work, Held
<1> QED BY <1>1, <1>2, <1>3, <1>5, <1>6, <1>7 DEF RemoteType, ProcType, BoundType, Typed

LEMMA RepairsTyped ==
    ASSUME Parameters, Typed, NEW p \in Procs, Repairs(p)
    PROVE  Typed'
<1>1. /\ StoredType /\ RemoteType /\ ProcType /\ BoundType /\ RepairType BY DEF Typed
<1>2. pc[p] = "repair" /\ pc' = [pc EXCEPT ![p] = "scrub"] /\ repairs' = repairs + 1
  BY DEF Repairs, Goto
<1>3. StoredType' BY <1>1, RepairsStored DEF Repairs
<1>4. pc' \in [Procs -> Pc] BY <1>1, <1>2 DEF ProcType, Pc
<1>5. MayRepair' \subseteq MayRepair \ {p} /\ p \in MayRepair
  BY <1>1, <1>2 DEF MayRepair, ProcType, RepairType
<1>6. MayRepair \subseteq Procs BY DEF MayRepair
<1>7. IsFiniteSet(MayRepair) BY <1>6, FS_Subset DEF Parameters
<1>8. RepairType'
  <2> DEFINE M == MayRepair
             N == MayRepair'
  <2>1. repairs \in Nat /\ repairs + Cardinality(M) <= Cardinality(Procs) BY <1>1 DEF RepairType
  <2> HIDE DEF M, N
  <2>2. N \subseteq M \ {p} /\ p \in M /\ IsFiniteSet(M) BY <1>5, <1>7 DEF M, N
  <2>3. IsFiniteSet(M \ {p}) /\ Cardinality(M \ {p}) = Cardinality(M) - 1
    BY <2>2, FS_RemoveElement
  <2>4. Cardinality(N) <= Cardinality(M \ {p}) BY <2>2, <2>3, FS_Subset
  <2>5. IsFiniteSet(N) BY <2>2, <2>3, FS_Subset
  <2>6. Cardinality(M) \in Nat /\ Cardinality(N) \in Nat /\ Cardinality(Procs) \in Nat
    BY <2>2, <2>5, FS_CardinalityType DEF Parameters
  <2>7. repairs' + Cardinality(N) <= Cardinality(Procs)
    BY <1>2, <2>1, <2>3, <2>4, <2>6
  <2>8. Cardinality(N) = Cardinality(MayRepair)' BY DEF N
  <2> QED BY <1>2, <2>1, <2>7, <2>8 DEF RepairType
<1>9. UNCHANGED <<remoteTasks, export, draft, taken, todo, seeds, clock, ops, faults>>
  BY DEF Repairs, work, Held
<1> QED BY <1>1, <1>3, <1>4, <1>8, <1>9 DEF RemoteType, ProcType, BoundType, Typed

LEMMA UpsertSound ==
    ASSUME Parameters, StoredType, NEW i \in Ids, NEW record \in Row, Upsert(i, record)
    PROVE  Sound
BY UpsertFine DEF Sound

LEMMA NewRecordRow ==
    ASSUME Parameters, BoundType, NEW i \in Ids, NEW repo \in Repos, NEW seq \in Nat
    PROVE  NewRecord(i, repo, seq) \in Row
<1>1. clock \in 0..MaxTime BY DEF Parameters, BoundType
<1> QED BY <1>1 DEF NewRecord, Row

LEMMA RemoteOpenedRow ==
    ASSUME Parameters, BoundType, NEW i \in RemoteIds
    PROVE  RemoteOpened(i) \in Row
<1>1. clock \in 0..MaxTime BY DEF Parameters, BoundType
<1>2. 0 \in 0..MaxTime BY DEF Parameters
<1> QED BY <1>1, <1>2 DEF RemoteOpened, Gone, Row

(* Commands, and the sync.                                                   *)
LEMMA CommandTyped ==
    ASSUME Parameters, Typed, NEW p \in Procs,
           \/ (\E i \in Ids : Delete(p, i))
           \/ (\E i \in Ids, r \in Repos, n \in {0, 1} : Open(p, i, r, n))
           \/ UpdateStores(p) \/ SyncStores(p)
           \/ (\E i \in RemoteIds : OpenRemote(p, i)) \/ MarksRemote(p)
    PROVE  Typed' /\ Sound
<1> USE DEF Pc
<1>0. /\ StoredType /\ RemoteType /\ ProcType /\ BoundType /\ RepairType BY DEF Typed
<1>a. Sound => StoredType' BY DEF Sound
<1>d. draft[p].id \in Ids /\ draft[p].row \in Row BY <1>0 DEF ProcType
<1>n. NoDraft \in [id : Ids, row : Row] BY GoneRow
<1>1. ASSUME NEW i \in Ids, Delete(p, i)
      PROVE  Typed' /\ Sound
  <2>1. Sound BY <1>0, <1>1, DeleteSound DEF Delete
  <2>2. ops' \in 0..MaxOps BY <1>0, <1>1, CountedFine DEF Delete
  <2>3. RepairType' BY <1>1, ProcsStay DEF Delete
  <2> QED BY <1>0, <1>1, <1>a, <2>1, <2>2, <2>3
          DEF Delete, work, RemoteType, ProcType, BoundType, Typed
<1>2. ASSUME NEW i \in Ids, NEW r \in Repos, NEW n \in {0, 1}, Open(p, i, r, n)
      PROVE  Typed' /\ Sound
  <2>0. NewRecord(i, r, n) \in Row BY <1>0, NewRecordRow
  <2>1. Sound BY <1>0, <1>2, <2>0, UpsertSound DEF Open
  <2>2. ops' \in 0..MaxOps BY <1>0, <1>2, CountedFine DEF Open
  <2>3. RepairType' BY <1>2, ProcsStay DEF Open
  <2> QED BY <1>0, <1>2, <1>a, <2>1, <2>2, <2>3
          DEF Open, work, RemoteType, ProcType, BoundType, Typed
<1>3. CASE UpdateStores(p)
  <2>1. Sound BY <1>0, <1>d, <1>3, UpsertSound DEF UpdateStores
  <2> QED BY <1>0, <1>3, <1>a, <1>n, <2>1, ProcMoves
          DEF UpdateStores, Held, RemoteType, ProcType, BoundType, Typed
<1>4. CASE SyncStores(p)
  <2>1. Sound BY <1>0, <1>d, <1>4, UpsertSound DEF SyncStores
  <2> QED BY <1>0, <1>4, <1>a, <1>n, <2>1, ProcMoves
          DEF SyncStores, Held, RemoteType, ProcType, BoundType, Typed
<1>5. ASSUME NEW i \in RemoteIds, OpenRemote(p, i)
      PROVE  Typed' /\ Sound
  <2>i. i \in Ids /\ Local \in Repos BY DEF Parameters
  <2>0. NewRecord(i, Local, 0) \in Row BY <1>0, <2>i, NewRecordRow
  <2>1. Sound BY <1>0, <1>5, <2>i, <2>0, UpsertSound DEF OpenRemote
  <2>2. ops' \in 0..MaxOps BY <1>0, <1>5, CountedFine DEF OpenRemote
  <2>3. rows'[i] \in Row BY <1>a, <2>1, <2>i DEF StoredType
  <2>4. draft' \in [Procs -> [id : Ids, row : Row]]
    BY <1>0, <1>5, <2>3, <2>i DEF OpenRemote, ProcType
  <2>5. Goto(p, "ready") \/ Goto(p, "marking") BY <1>5 DEF OpenRemote
  <2>6. pc' \in [Procs -> Pc] /\ RepairType' BY <1>5, <2>5, ProcMoves DEF OpenRemote
  <2> QED BY <1>0, <1>5, <1>a, <2>1, <2>2, <2>4, <2>6
          DEF OpenRemote, RemoteType, ProcType, BoundType, Typed
<1>6. CASE MarksRemote(p)
  <2>1. Sound BY <1>0, <1>d, <1>6, UpsertSound DEF MarksRemote
  <2>2. pc' \in [Procs -> Pc] /\ RepairType' BY <1>6, ProcMoves DEF MarksRemote
  <2>3. remoteTasks' \in [RemoteIds -> Row]
    <3>1. CASE UNCHANGED remoteTasks BY <1>0, <3>1 DEF RemoteType
    <3>2. CASE remoteTasks' = [remoteTasks EXCEPT ![draft[p].id] = RemoteOpened(draft[p].id)]
      <4>1. draft[p].id \in RemoteIds => RemoteOpened(draft[p].id) \in Row
        BY <1>0, RemoteOpenedRow
      <4> QED BY <1>0, <3>2, <4>1 DEF RemoteType
    <3> QED BY <1>6, <3>1, <3>2 DEF MarksRemote
  <2>4. draft' \in [Procs -> [id : Ids, row : Row]]
    BY <1>0, <1>6, <1>n DEF MarksRemote, ProcType
  <2> QED BY <1>0, <1>6, <1>a, <2>1, <2>2, <2>3, <2>4
          DEF MarksRemote, RemoteType, ProcType, BoundType, Typed
<1> QED BY <1>1, <1>2, <1>3, <1>4, <1>5, <1>6

LEMMA HostTyped ==
    ASSUME Parameters, Typed,
           (\E i \in RemoteIds : RemoteOpens(i) \/ RemoteCloses(i)) \/ Tick
    PROVE  Typed' /\ Same
<1>0. /\ StoredType /\ RemoteType /\ ProcType /\ BoundType /\ RepairType BY DEF Typed
<1>1. ASSUME NEW i \in RemoteIds, RemoteOpens(i)
      PROVE  Typed' /\ Same
  <2>1. RemoteOpened(i) \in Row BY <1>0, RemoteOpenedRow
  <2>2. ops' \in 0..MaxOps BY <1>0, <1>1, CountedFine DEF RemoteOpens
  <2>3. RepairType' BY <1>1, ProcsStay DEF RemoteOpens
  <2> QED BY <1>0, <1>1, <2>1, <2>2, <2>3
          DEF RemoteOpens, Same, StoredType, work, RemoteType, ProcType, BoundType, Typed
<1>2. ASSUME NEW i \in RemoteIds, RemoteCloses(i)
      PROVE  Typed' /\ Same
  <2>1. remoteTasks[i] \in Row /\ clock \in 0..MaxTime BY <1>0 DEF RemoteType, BoundType
  <2> DEFINE new == [remoteTasks[i] EXCEPT !.status = "closed", !.updated = clock]
  <2>2. new \in Row BY <2>1 DEF Row
  <2>3. remoteTasks' = [remoteTasks EXCEPT ![i] = new]
    BY <1>0, <1>2 DEF RemoteCloses, RemoteType
  <2> HIDE DEF new
  <2>4. remoteTasks' \in [RemoteIds -> Row] BY <1>0, <2>2, <2>3 DEF RemoteType
  <2>5. RepairType' BY <1>2, ProcsStay DEF RemoteCloses
  <2> QED BY <1>0, <1>2, <2>4, <2>5
          DEF RemoteCloses, Same, StoredType, work, RemoteType, ProcType, BoundType, Typed
<1>3. CASE Tick
  <2>1. clock' \in 1..MaxTime BY <1>0, <1>3 DEF Tick, BoundType, Parameters
  <2>2. RepairType' BY <1>3, ProcsStay DEF Tick
  <2> QED BY <1>0, <1>3, <2>1, <2>2
          DEF Tick, Same, StoredType, work, RemoteType, ProcType, BoundType, Typed
<1> QED BY <1>1, <1>2, <1>3

---------------------------------------------------------------------------
(* A process in the middle of the backfill keeps what it carries.            *)
Carries(q) == pc'[q] \in {"fill", "filling"} =>
                pc'[q] = pc[q] /\ todo'[q] = todo[q] /\ draft'[q] = draft[q] /\ taken'[q] = taken[q]

LEMMA AheadKept ==
    ASSUME StoredType, StoredType', Ahead, \A j \in Ids : Leaves(j) /\ Covers(j), Grows
    PROVE  Ahead'
<1> SUFFICES ASSUME NEW i \in Ids, Counts(rows'[i]), rows'[i].seq # 0
             PROVE  counter'[rows'[i].repo] > rows'[i].seq
    BY DEF Ahead
<1>1. CASE rows'[i] = rows[i]
  <2> DEFINE r == rows[i].repo
  <2>1. rows[i] \in Row BY DEF StoredType
  <2>2. r \in Repos /\ rows[i].seq \in Nat BY <1>1, <2>1 DEF Row, Counts
  <2>3. counter[r] > rows[i].seq BY <1>1 DEF Ahead
  <2>4. counter'[r] >= counter[r] /\ counter[r] \in Nat /\ counter'[r] \in Nat
    BY <2>2 DEF Grows, StoredType
  <2> QED BY <1>1, <2>2, <2>3, <2>4
<1>2. CASE rows'[i] # rows[i] BY <1>2 DEF Covers
<1> QED BY <1>1, <1>2

LEMMA ListedKept ==
    ASSUME ProcType, Listed, \A j \in Ids : Leaves(j),
           \A q \in Procs : pc'[q] \in {"fill", "filling"} =>
                              pc[q] \in {"fill", "filling"} /\ todo'[q] \subseteq todo[q]
    PROVE  Listed'
<1> SUFFICES ASSUME NEW q \in Procs, pc'[q] \in {"fill", "filling"}, NEW t \in todo'[q],
                    Blank(t[1])'
             PROVE  rows'[t[1]].repo = t[2]
    BY DEF Listed
<1>1. t \in todo[q] /\ pc[q] \in {"fill", "filling"} OBVIOUS
<1>2. t \in Ids \X Repos BY <1>1 DEF ProcType
<1>3. rows'[t[1]] = rows[t[1]] BY <1>2 DEF Leaves, Blank
<1> QED BY <1>1, <1>3 DEF Listed, Blank

LEMMA PromisedKept ==
    ASSUME ProcType, StoredType, StoredType', Promised, \A j \in Ids : Leaves(j), Grows,
           NEW q \in Procs, pc'[q] = "filling" => Carries(q), pc'[q] = "filling",
           Counts(rows'[draft'[q].id]), rows'[draft'[q].id].seq = 0
    PROVE  counter'[rows'[draft'[q].id].repo] > taken'[q]
<1> DEFINE i == draft[q].id
           r == rows[i].repo
<1>1. pc[q] = "filling" /\ draft'[q] = draft[q] /\ taken'[q] = taken[q] BY DEF Carries
<1>2. i \in Ids /\ taken[q] \in Nat /\ rows[i] \in Row BY DEF ProcType, StoredType
<1>3. rows'[i] = rows[i] BY <1>1, <1>2 DEF Leaves, Blank
<1>4. Blank(i) BY <1>1, <1>3 DEF Blank
<1>5. r \in Repos BY <1>2, <1>4 DEF Blank, Counts, Row
<1>6. counter[r] > taken[q] BY <1>1, <1>4 DEF Promised
<1>7. counter'[r] >= counter[r] /\ counter[r] \in Nat /\ counter'[r] \in Nat
  BY <1>5 DEF Grows, StoredType
<1> QED BY <1>1, <1>2, <1>3, <1>6, <1>7

(* The steps that leave the backfill alone.                                  *)
LEMMA PlainStep ==
    ASSUME Inv, Typed', Sound, repairs' = repairs, \A q \in Procs : Carries(q),
           \A q \in Procs : pc'[q] \notin {"opening", "repair"} =>
                              repairs >= 1 \/ pc[q] \notin {"opening", "repair"}
    PROVE  Inv'
<1>1. Typed /\ Repaired /\ Listed /\ StoredType /\ ProcType /\ StoredType'
  BY DEF Inv, Typed
<1>2. Repaired' BY <1>1 DEF Repaired
<1>3. Listed' BY <1>1, ListedKept DEF Carries, Sound
<1>4. repairs < 2 => Ahead' BY <1>1, AheadKept DEF Inv, Sound
<1>5. repairs < 2 => Promised'
  <2> SUFFICES ASSUME repairs < 2, NEW q \in Procs, pc'[q] = "filling",
                      Counts(rows'[draft'[q].id]), rows'[draft'[q].id].seq = 0
               PROVE  counter'[rows'[draft'[q].id].repo] > taken'[q]
      BY DEF Promised, Blank
  <2>1. Promised BY DEF Inv
  <2> QED BY <1>1, <2>1, PromisedKept DEF Sound
<1> QED BY <1>2, <1>3, <1>4, <1>5 DEF Inv

---------------------------------------------------------------------------
(* The steps keep the invariant.                                            *)
LEMMA ReadsKeep ==
    ASSUME Parameters, Inv, NEW p \in Procs,
           SeedReads(p) \/ Opened(p) \/ SyncExports(p) \/ SyncEnds(p)
             \/ CommandFails(p) \/ (\E i \in Ids, st \in {"open", "closed"} : UpdateReads(p, i, st))
             \/ (\E i \in RemoteIds : SyncReads(p, i)) \/ ChecksMigration(p)
    PROVE  Inv'
<1>0. Typed /\ ProcType /\ RepairType BY DEF Inv, Typed
<1>1. Typed' /\ Same BY <1>0, ReadsTyped, MigrationTyped
<1>2. Sound BY <1>0, <1>1, SameFine DEF Sound, Typed
<1>3. repairs' = repairs
  BY DEF SeedReads, Opened, SyncExports, SyncEnds, CommandFails, UpdateReads, SyncReads,
         ChecksMigration
<1>4. \/ pc' = [pc EXCEPT ![p] = "seeding"] \/ pc' = [pc EXCEPT ![p] = "ready"]
      \/ pc' = [pc EXCEPT ![p] = "sync"] \/ pc' = [pc EXCEPT ![p] = "store"]
      \/ pc' = [pc EXCEPT ![p] = "import"]
      \/ pc' = [pc EXCEPT ![p] = "scrub"] /\ repairs > 0
      \/ pc' = [pc EXCEPT ![p] = "repair"]
  BY DEF SeedReads, Opened, SyncExports, SyncEnds, CommandFails, UpdateReads, SyncReads,
         ChecksMigration, Goto
<1>5. \A q \in Procs \ {p} : todo'[q] = todo[q] /\ draft'[q] = draft[q] /\ taken'[q] = taken[q]
  BY <1>0 DEF SeedReads, Opened, SyncExports, SyncEnds, CommandFails, UpdateReads, SyncReads,
         ChecksMigration, work, ProcType
<1>6. pc'[p] \notin {"fill", "filling"} /\ \A q \in Procs \ {p} : pc'[q] = pc[q]
  BY <1>0, <1>4 DEF ProcType
<1>7. \A q \in Procs : Carries(q) BY <1>5, <1>6 DEF Carries
<1>8. pc'[p] \in {"opening", "repair"} \/ repairs >= 1 \/ pc[p] \notin {"opening", "repair"}
  <2>1. CASE ChecksMigration(p)
    <3>1. repairs \in Nat /\ (repairs > 0 => repairs >= 1) BY <1>0 DEF RepairType
    <3>2. repairs > 0 \/ pc' = [pc EXCEPT ![p] = "repair"]
      BY <2>1, <3>1 DEF ChecksMigration, Goto
    <3>3. pc' = [pc EXCEPT ![p] = "repair"] => pc'[p] = "repair" BY <1>0 DEF ProcType
    <3> QED BY <3>1, <3>2, <3>3
  <2>2. CASE ~ChecksMigration(p)
    BY <2>2 DEF SeedReads, Opened, SyncExports, SyncEnds, CommandFails, UpdateReads, SyncReads
  <2> QED BY <2>1, <2>2
<1> QED BY <1>1, <1>2, <1>3, <1>6, <1>7, <1>8, PlainStep

LEMMA OpeningKeeps ==
    ASSUME Parameters, Inv, NEW p \in Procs, Scrubs(p) \/ SeedStores(p)
    PROVE  Inv'
<1>0. Typed /\ ProcType BY DEF Inv, Typed
<1>1. Typed' /\ Sound BY <1>0, OpeningTyped
<1>2. /\ repairs' = repairs /\ pc[p] \notin {"opening", "repair"}
      /\ pc' = [pc EXCEPT ![p] = "seed"] \/ pc' = [pc EXCEPT ![p] = "list"]
      /\ todo' = todo /\ draft' = draft /\ taken' = taken
  BY DEF Scrubs, SeedStores, Goto, work
<1>3. pc'[p] \notin {"fill", "filling"} /\ \A q \in Procs \ {p} : pc'[q] = pc[q]
  BY <1>0, <1>2 DEF ProcType
<1>4. \A q \in Procs : Carries(q) BY <1>2, <1>3 DEF Carries
<1> QED BY <1>1, <1>2, <1>3, <1>4, PlainStep

LEMMA CommandKeeps ==
    ASSUME Parameters, Inv, NEW p \in Procs,
           \/ (\E i \in Ids : Delete(p, i))
           \/ (\E i \in Ids, r \in Repos, n \in {0, 1} : Open(p, i, r, n))
           \/ UpdateStores(p) \/ SyncStores(p)
           \/ (\E i \in RemoteIds : OpenRemote(p, i)) \/ MarksRemote(p)
    PROVE  Inv'
<1>0. Typed /\ ProcType BY DEF Inv, Typed
<1>1. Typed' /\ Sound BY <1>0, CommandTyped
<1>2. repairs' = repairs /\ pc[p] \notin {"opening", "repair", "fill", "filling"}
  BY DEF Delete, Open, UpdateStores, SyncStores, OpenRemote, MarksRemote
<1>3. \/ pc' = pc \/ pc' = [pc EXCEPT ![p] = "ready"] \/ pc' = [pc EXCEPT ![p] = "sync"]
      \/ pc' = [pc EXCEPT ![p] = "marking"]
  BY DEF Delete, Open, UpdateStores, SyncStores, OpenRemote, MarksRemote, Goto
<1>4. \A q \in Procs \ {p} : todo'[q] = todo[q] /\ draft'[q] = draft[q] /\ taken'[q] = taken[q]
  BY <1>0 DEF Delete, Open, UpdateStores, SyncStores, OpenRemote, MarksRemote, work, ProcType
<1>5. pc'[p] \notin {"fill", "filling"} /\ \A q \in Procs \ {p} : pc'[q] = pc[q]
  BY <1>0, <1>2, <1>3 DEF ProcType
<1>6. \A q \in Procs : Carries(q) BY <1>4, <1>5 DEF Carries
<1> QED BY <1>1, <1>2, <1>5, <1>6, PlainStep

LEMMA HostKeeps ==
    ASSUME Parameters, Inv, (\E i \in RemoteIds : RemoteOpens(i) \/ RemoteCloses(i)) \/ Tick
    PROVE  Inv'
<1>0. Typed /\ ProcType BY DEF Inv, Typed
<1>1. Typed' /\ Same BY <1>0, HostTyped
<1>2. Sound BY <1>0, <1>1, SameFine DEF Sound, Typed
<1>3. UNCHANGED <<repairs, pc, todo, draft, taken>>
  BY DEF RemoteOpens, RemoteCloses, Tick, work
<1> QED BY <1>1, <1>2, <1>3, PlainStep DEF Carries

(* The repair.  The second one is where the statement ends.                  *)
LEMMA RepairKeeps ==
    ASSUME Parameters, Inv, NEW p \in Procs, Repairs(p)
    PROVE  Inv'
<1>0. Typed /\ StoredType /\ ProcType /\ RepairType /\ Repaired /\ Listed BY DEF Inv, Typed
<1>1. Typed' BY <1>0, RepairsTyped
<1>2. (\A i \in Ids : Leaves(i)) /\ (Ahead => Ahead')
  BY <1>0, RepairsStored DEF Repairs, Leaves
<1>3. /\ pc[p] = "repair" /\ pc' = [pc EXCEPT ![p] = "scrub"] /\ repairs' = repairs + 1
      /\ todo' = todo /\ draft' = draft /\ taken' = taken
  BY DEF Repairs, Goto, work
<1>4. pc'[p] = "scrub" /\ \A q \in Procs \ {p} : pc'[q] = pc[q] BY <1>0, <1>3 DEF ProcType
<1>5. repairs' >= 1 BY <1>0, <1>3 DEF RepairType
<1>6. Repaired' BY <1>5 DEF Repaired
<1>7. Listed' BY <1>0, <1>2, <1>3, <1>4, ListedKept
<1>8. ASSUME repairs' < 2 PROVE Ahead' /\ Promised'
  <2>1. repairs = 0 BY <1>0, <1>3, <1>8 DEF RepairType
  <2>2. \A q \in Procs : pc[q] \in {"opening", "repair"} BY <1>0, <2>1 DEF Repaired
  <2>3. \A q \in Procs : pc'[q] # "filling"
    <3> TAKE q \in Procs
    <3>1. CASE q = p BY <1>4, <3>1
    <3>2. CASE q # p
      <4>1. pc'[q] = pc[q] /\ pc[q] \in {"opening", "repair"} BY <1>4, <2>2, <3>2
      <4> QED BY <4>1
    <3> QED BY <3>1, <3>2
  <2> QED BY <1>2, <2>1, <2>3 DEF Inv, Promised
<1> QED BY <1>1, <1>6, <1>7, <1>8 DEF Inv

(* The backfill.                                                             *)
LEMMA ListKeeps ==
    ASSUME Parameters, Inv, NEW p \in Procs, FillLists(p)
    PROVE  Inv'
<1>0. Typed /\ StoredType /\ ProcType /\ Repaired /\ Listed BY DEF Inv, Typed
<1>1. Typed' /\ Same BY <1>0, ReadsTyped
<1>2. Sound BY <1>0, <1>1, SameFine DEF Sound
<1>3. /\ pc[p] = "list" /\ pc' = [pc EXCEPT ![p] = "fill"]
      /\ UNCHANGED <<repairs, draft, taken>> /\ rows' = rows
  BY DEF FillLists, Goto
<1>4. pc'[p] = "fill" /\ \A q \in Procs \ {p} : pc'[q] = pc[q] /\ todo'[q] = todo[q]
  BY <1>0, <1>3 DEF ProcType, FillLists
<1>5. \A t \in todo'[p] : rows[t[1]].repo = t[2] BY <1>0 DEF FillLists, ProcType
<1>6. Repaired' BY <1>0, <1>3, <1>4 DEF Repaired
<1>7. Listed' BY <1>0, <1>3, <1>4, <1>5 DEF Listed, Blank
<1>8. ASSUME repairs < 2 PROVE Ahead' /\ Promised'
  <2>1. Ahead /\ Promised BY <1>8 DEF Inv
  <2>2. \A q \in Procs : pc'[q] = "filling" => Carries(q) BY <1>3, <1>4 DEF Carries
  <2>3. Ahead' BY <1>0, <1>2, <2>1, AheadKept DEF Sound
  <2>4. ASSUME NEW q \in Procs, pc'[q] = "filling", Counts(rows'[draft'[q].id]),
               rows'[draft'[q].id].seq = 0
        PROVE  counter'[rows'[draft'[q].id].repo] > taken'[q]
    BY <1>0, <1>2, <2>1, <2>2, <2>4, PromisedKept DEF Sound
  <2> QED BY <2>3, <2>4 DEF Promised, Blank
<1> QED BY <1>1, <1>3, <1>6, <1>7, <1>8 DEF Inv

LEMMA TakeKeeps ==
    ASSUME Parameters, Inv, NEW p \in Procs, NEW i \in Ids, NEW r \in Repos, FillTakes(p, i, r)
    PROVE  Inv'
<1>0. Typed /\ StoredType /\ ProcType /\ Repaired /\ Listed BY DEF Inv, Typed
<1>1. Typed' /\ Sound BY <1>0, OpeningTyped
<1>2. /\ pc[p] = "fill" /\ <<i, r>> \in todo[p] /\ pc' = [pc EXCEPT ![p] = "filling"]
      /\ repairs' = repairs /\ rows' = rows
  BY DEF FillTakes, Goto
<1>3. /\ pc'[p] = "filling" /\ todo'[p] \subseteq todo[p]
      /\ \A q \in Procs \ {p} : /\ pc'[q] = pc[q] /\ todo'[q] = todo[q]
                                /\ draft'[q] = draft[q] /\ taken'[q] = taken[q]
  BY <1>0, <1>2 DEF ProcType, FillTakes
<1>4. draft'[p].id = i /\ taken'[p] = Allocate(r)
  <2>1. draft[p] \in [id : Ids, row : Row] BY <1>0 DEF ProcType
  <2>2. draft'[p] = [draft[p] EXCEPT !.id = i] BY <1>0 DEF ProcType, FillTakes
  <2>3. taken'[p] = Allocate(r) BY <1>0 DEF ProcType, FillTakes
  <2> QED BY <2>1, <2>2, <2>3
<1>5. counter'[r] > Allocate(r) BY <1>0, TakeSound DEF FillTakes
<1>6. Repaired' BY <1>0, <1>2, <1>3 DEF Repaired
<1>7. Listed'
  <2>1. \A q \in Procs : pc'[q] \in {"fill", "filling"} =>
                           pc[q] \in {"fill", "filling"} /\ todo'[q] \subseteq todo[q]
    BY <1>2, <1>3
  <2> QED BY <1>0, <1>1, <2>1, ListedKept DEF Sound
<1>8. ASSUME repairs < 2 PROVE Ahead' /\ Promised'
  <2>1. Ahead /\ Promised BY <1>8 DEF Inv
  <2>2. Ahead' BY <1>0, <1>1, <2>1, AheadKept DEF Sound
  <2>3. ASSUME NEW q \in Procs, pc'[q] = "filling", Counts(rows'[draft'[q].id]),
               rows'[draft'[q].id].seq = 0
        PROVE  counter'[rows'[draft'[q].id].repo] > taken'[q]
    <3>1. CASE q = p
      <4>1. Blank(i) BY <1>2, <1>4, <2>3, <3>1 DEF Blank
      <4>2. rows[i].repo = r
        <5> DEFINE t == <<i, r>>
        <5>1. t \in todo[p] /\ t[1] = i /\ t[2] = r BY <1>2
        <5> HIDE DEF t
        <5>2. Blank(t[1]) => rows[t[1]].repo = t[2] BY <1>0, <1>2, <5>1 DEF Listed
        <5> QED BY <4>1, <5>1, <5>2
      <4> QED BY <1>2, <1>4, <1>5, <3>1, <4>2
    <3>2. CASE q # p
      <4>1. Carries(q) BY <1>3, <3>2 DEF Carries
      <4> QED BY <1>0, <1>1, <2>1, <2>3, <4>1, PromisedKept DEF Sound
    <3> QED BY <3>1, <3>2
  <2> QED BY <2>2, <2>3 DEF Promised, Blank
<1> QED BY <1>1, <1>2, <1>6, <1>7, <1>8 DEF Inv

LEMMA StoreKeeps ==
    ASSUME Parameters, Inv, NEW p \in Procs, FillStores(p)
    PROVE  Inv'
<1>0. Typed /\ StoredType /\ ProcType /\ Repaired /\ Listed BY DEF Inv, Typed
<1>1. Typed' /\ StoredType' BY <1>0, FillStoresTyped DEF Typed
<1>2. (\A j \in Ids : Leaves(j)) /\ Grows /\ (Promised => \A j \in Ids : Covers(j))
  BY <1>0, FillStored
<1>3. /\ pc[p] = "filling" /\ repairs' = repairs
      /\ \/ pc' = [pc EXCEPT ![p] = "fill"] /\ todo' = todo
         \/ pc' = [pc EXCEPT ![p] = "opening"] /\ todo' = [todo EXCEPT ![p] = {}]
  BY DEF FillStores, Goto
<1>4. pc'[p] # "filling" /\ todo'[p] \subseteq todo[p]
  BY <1>0, <1>3 DEF ProcType
<1>5. \A q \in Procs \ {p} : /\ pc'[q] = pc[q] /\ todo'[q] = todo[q]
                             /\ draft'[q] = draft[q] /\ taken'[q] = taken[q]
  BY <1>0, <1>3 DEF ProcType, FillStores
<1>6. repairs >= 1 BY <1>0, <1>3 DEF Repaired
<1>7. Repaired' BY <1>3, <1>6 DEF Repaired
<1>8. Listed'
  <2>1. \A q \in Procs : pc'[q] \in {"fill", "filling"} =>
                           pc[q] \in {"fill", "filling"} /\ todo'[q] \subseteq todo[q]
    BY <1>3, <1>4, <1>5
  <2> QED BY <1>0, <1>2, <2>1, ListedKept
<1>9. ASSUME repairs < 2 PROVE Ahead' /\ Promised'
  <2>1. Ahead /\ Promised BY <1>9 DEF Inv
  <2>2. Ahead' BY <1>0, <1>1, <1>2, <2>1, AheadKept
  <2>3. ASSUME NEW q \in Procs, pc'[q] = "filling", Counts(rows'[draft'[q].id]),
               rows'[draft'[q].id].seq = 0
        PROVE  counter'[rows'[draft'[q].id].repo] > taken'[q]
    <3>1. Carries(q) BY <1>4, <1>5, <2>3 DEF Carries
    <3> QED BY <1>0, <1>1, <1>2, <2>1, <2>3, <3>1, PromisedKept
  <2> QED BY <2>2, <2>3 DEF Promised, Blank
<1> QED BY <1>1, <1>3, <1>7, <1>8, <1>9 DEF Inv

---------------------------------------------------------------------------
LEMMA StartsTyped ==
    ASSUME Parameters, Init
    PROVE  Inv
<1>1. ASSUME NEW r \in Repos
      PROVE  /\ counter[r] \in Nat
             /\ \A i \in Ids : rows[i].repo = r /\ rows[i].seq # 0 => counter[r] > rows[i].seq
  <2> DEFINE f == [i \in Ids |-> IF rows[i].repo = r /\ rows[i].seq # 0
                                   THEN rows[i].seq + 1 ELSE 0]
             S == {f[i] : i \in Ids}
  <2>1. rows \in [Ids -> Row] BY DEF Init, Parameters
  <2>2. \A i \in Ids : rows[i].seq \in Nat BY <2>1 DEF Row
  <2>3. f \in [Ids -> Nat] BY <2>2
  <2>4. f \in Surjection(Ids, S) BY DEF Surjection
  <2>5. counter[r] = Max({0} \cup S) BY DEF Init
  <2> HIDE DEF f
  <2>6. IsFiniteSet(S)
    <3> HIDE DEF S
    <3> QED BY <2>4, FS_Surjection DEF Parameters
  <2>n. {0} \cup S \in SUBSET Nat BY <2>3
  <2>u. IsFiniteSet({0} \cup S) BY <2>6, FS_Singleton, FS_Union
  <2>7. IsFiniteSet({0} \cup S) /\ {0} \cup S \in SUBSET Nat BY <2>n, <2>u
  <2>8. counter[r] \in {0} \cup S /\ \A n \in {0} \cup S : counter[r] >= n
    BY <2>5, <2>7, FiniteMax
  <2>9. ASSUME NEW i \in Ids, rows[i].repo = r, rows[i].seq # 0
        PROVE  counter[r] > rows[i].seq
    <3>1. f[i] = rows[i].seq + 1 BY <2>9 DEF f
    <3>2. counter[r] >= f[i] /\ counter[r] \in Nat BY <2>7, <2>8
    <3> QED BY <2>2, <3>1, <3>2
  <2> QED BY <2>7, <2>8, <2>9
<1>2. StoredType
  <2>1. counter = [r \in Repos |-> counter[r]] BY DEF Init
  <2>2. counter \in [Repos -> Nat] BY <1>1, <2>1
  <2> QED BY <2>2 DEF StoredType, Init, Parameters
<1>3. RemoteType BY GoneRow DEF Init, RemoteType
<1>4. ProcType BY GoneRow DEF Init, ProcType, Pc
<1>5. BoundType BY DEF Init, BoundType, Parameters
<1>6. RepairType
  <2>1. MayRepair = Procs BY DEF Init, MayRepair
  <2>2. Cardinality(Procs) \in Nat BY FS_CardinalityType DEF Parameters
  <2> QED BY <2>1, <2>2 DEF RepairType, Init
<1>7. Repaired /\ Listed /\ Promised BY DEF Init, Repaired, Listed, Promised
<1>8. Ahead
  <2> SUFFICES ASSUME NEW i \in Ids, Counts(rows[i]), rows[i].seq # 0
               PROVE  counter[rows[i].repo] > rows[i].seq
      BY DEF Ahead
  <2>1. rows[i].repo \in Repos BY <1>2 DEF StoredType, Row, Counts
  <2> QED BY <1>1, <2>1
<1> QED BY <1>2, <1>3, <1>4, <1>5, <1>6, <1>7, <1>8 DEF Inv, Typed

LEMMA StepKeeps ==
    ASSUME Parameters, Inv, [Next]_vars
    PROVE  Inv'
<1>1. ASSUME NEW p \in Procs, Opening(p) PROVE Inv'
  BY <1>1, ReadsKeep, RepairKeeps, OpeningKeeps, ListKeeps, TakeKeeps, StoreKeeps DEF Opening
<1>2. ASSUME NEW p \in Procs, Command(p) PROVE Inv'
  BY <1>2, ReadsKeep, CommandKeeps DEF Command
<1>3. ASSUME NEW p \in Procs, Sync(p) PROVE Inv'
  BY <1>3, ReadsKeep, CommandKeeps DEF Sync
<1>4. CASE (\E i \in RemoteIds : RemoteOpens(i) \/ RemoteCloses(i)) \/ Tick BY <1>4, HostKeeps
<1>5. CASE UNCHANGED vars
  <2>1. UNCHANGED <<rows, counter, repairs, remoteTasks, pc, seeds, todo, draft, taken, export,
                    clock, ops, faults>>
    BY <1>5 DEF vars
  <2>2. Typed /\ ProcType /\ StoredType BY DEF Inv, Typed
  <2>3. Sound BY <2>1, <2>2, SameFine DEF Same, Sound
  <2>4. Typed' BY <2>1, <2>2, <2>3, ProcsStay
               DEF Sound, Typed, RemoteType, ProcType, BoundType
  <2> QED BY <2>1, <2>3, <2>4, PlainStep DEF Carries
<1> QED BY <1>1, <1>2, <1>3, <1>4, <1>5 DEF Next

LEMMA InvMeans ==
    ASSUME Parameters, Inv
    PROVE  TypeOK /\ CounterAhead
<1>1. StoredType /\ RemoteType /\ ProcType /\ BoundType /\ RepairType BY DEF Inv, Typed
<1>2. TypeOK
  <2>1. Cardinality(Procs) \in Nat /\ Cardinality(MayRepair) \in Nat
    <3>1. MayRepair \subseteq Procs BY DEF MayRepair
    <3>2. IsFiniteSet(MayRepair) /\ IsFiniteSet(Procs) BY <3>1, FS_Subset DEF Parameters
    <3> QED BY <3>2, FS_CardinalityType
  <2>2. repairs \in 0..Cardinality(Procs) BY <1>1, <2>1 DEF RepairType
  <2> QED BY <1>1, <2>2 DEF TypeOK, StoredType, RemoteType, ProcType, BoundType, Pc
<1>3. CounterAhead
  <2> SUFFICES ASSUME repairs < 2, NEW i \in Ids, Counts(rows[i])
               PROVE  Allocate(rows[i].repo) > rows[i].seq
      BY DEF CounterAhead, Counts
  <2> DEFINE r == rows[i].repo
  <2>1. r \in Repos /\ rows[i].seq \in Nat /\ counter[r] \in Nat
    BY <1>1 DEF StoredType, Row, Counts
  <2>2. Allocate(r) \in Nat \ {0} /\ (counter[r] # 0 => Allocate(r) = counter[r])
    BY <1>1, <2>1, NextNumber
  <2>3. rows[i].seq # 0 => counter[r] > rows[i].seq BY DEF Inv, Ahead
  <2> QED BY <2>1, <2>2, <2>3
<1> QED BY <1>2, <1>3

(* The records, the counters and what a process carries keep their types;    *)
(* the repair of legacy numbers runs at most once in each process, whoever   *)
(* asked for it at the same time (state/db.rs).                              *)
THEOREM TypeCorrect == Parameters => (Spec => []TypeOK)
<1> SUFFICES ASSUME Parameters PROVE Spec => []TypeOK OBVIOUS
<1>1. Init => Inv BY StartsTyped
<1>2. Inv /\ [Next]_vars => Inv' BY StepKeeps
<1>3. Inv => TypeOK BY InvMeans
<1> QED BY <1>1, <1>2, <1>3, PTL DEF Spec

(* A repository's counter hands out a number larger than that of any task    *)
(* it has, from whatever numbers an older version left, until the repair of  *)
(* legacy numbers has run twice: no open is refused for a number that the    *)
(* database chose itself (allocate_task_sequence, advance_task_sequence).    *)
THEOREM NumbersAhead == Parameters => (Spec => []CounterAhead)
<1> SUFFICES ASSUME Parameters PROVE Spec => []CounterAhead OBVIOUS
<1>1. Init => Inv BY StartsTyped
<1>2. Inv /\ [Next]_vars => Inv' BY StepKeeps
<1>3. Inv => CounterAhead BY InvMeans
<1> QED BY <1>1, <1>2, <1>3, PTL DEF Spec

----------------------------------------------------------------------------
(* TaskTelemetry, for all tasks, sessions, windows of time and bounds.       *)
(*                                                                           *)
(* What a record holds, and what was found at the task's end, lies within    *)
(* the task's time and was written by a session (Spent); what was found at   *)
(* the end stays in the record unless the task is thinned, because the       *)
(* session the record names has seen the worktree for good (Own).            *)

CONSTANTS Tasks, Queued, Sessions, Early, Late, Retention, ScanLimit, MaxOpens
VARIABLES now, worktree, started, ended, rollout, session, taskRecord, archive, opened,
          settled, thinned

Telemetry == INSTANCE TaskTelemetry

Times == 0 .. MaxTime
Spending == Sessions \X Times
Records == [status : {Telemetry!None, "open", "closed"}, usage : SUBSET Spending, path : Sessions \cup {Telemetry!None}]

TelemetryTyped ==
  /\ now \in Times
  /\ worktree \in [Tasks -> {"absent", "open", "closed"}]
  /\ started \in [Tasks -> Times] /\ ended \in [Tasks -> Times]
  /\ session \in [Sessions -> [entries : SUBSET Times, seen : SUBSET Tasks, touched : Times]]
  /\ taskRecord \in [Tasks -> Records]
  /\ settled \in [Tasks -> SUBSET Spending] /\ thinned \subseteq Tasks

(* What is counted for a task its sessions have written, in the task's time. *)
Spent(t, e) == e[2] \in session[e[1]].entries /\ started[t] <= e[2] /\ e[2] <= Telemetry!Finish(t)

Own(t) ==
  /\ started[t] <= now
  /\ \A e \in taskRecord[t].usage \cup settled[t] : Spent(t, e)
  /\ Telemetry!Live(t) => settled[t] = {}
  /\ taskRecord[t].path = Telemetry!None => taskRecord[t].usage = {}
  /\ settled[t] # {} /\ t \notin thinned =>
        settled[t] \subseteq taskRecord[t].usage /\ t \in session[taskRecord[t].path].seen

TelemetryInv ==
  /\ TelemetryTyped
  /\ \A s \in Sessions : \A at \in session[s].entries : at <= now
  /\ \A t \in Tasks : worktree[t] # "absent" => Own(t)


---------------------------------------------------------------------------
LEMMA UsageIs ==
    ASSUME TelemetryInv, NEW t \in Tasks, NEW e \in Telemetry!Usage(t)
    PROVE  e \in Spending /\ Spent(t, e) /\ e[1] \in Telemetry!Matching(t)
<1>1. PICK s \in Telemetry!Matching(t) : e \in {s} \X {at \in session[s].entries : at \in started[t]..Telemetry!Finish(t)}
  BY DEF Telemetry!Usage
<1>2. s \in Sessions /\ e[1] = s /\ e[2] \in session[s].entries /\ e = <<e[1], e[2]>>
  BY <1>1 DEF Telemetry!Matching
<1>3. e[2] \in started[t]..Telemetry!Finish(t) BY <1>1
<1>4. session[s].entries \subseteq Times BY <1>2 DEF TelemetryInv, TelemetryTyped
<1>5. started[t] \in Int /\ Telemetry!Finish(t) \in Int
  BY DEF TelemetryInv, TelemetryTyped, Times, Telemetry!Finish
<1>6. e[2] \in Int BY <1>2, <1>4 DEF Times
<1> QED BY <1>1, <1>2, <1>3, <1>4, <1>5, <1>6 DEF Spent, Spending

LEMMA UsageHolds ==
    ASSUME TelemetryInv, NEW t \in Tasks, NEW e \in Spending,
           Spent(t, e), e[1] \in Telemetry!Matching(t)
    PROVE  e \in Telemetry!Usage(t)
<1>1. e = <<e[1], e[2]>> /\ e[1] \in Sessions BY DEF Spending
<1>2. started[t] \in Int /\ Telemetry!Finish(t) \in Int
  BY DEF TelemetryInv, TelemetryTyped, Times, Telemetry!Finish
<1>3. e[2] \in Int BY DEF Spending, Times
<1>4. e[2] \in started[t]..Telemetry!Finish(t) BY <1>2, <1>3 DEF Spent
<1>5. e[2] \in session[e[1]].entries BY DEF Spent
<1>6. e \in {e[1]} \X {at \in session[e[1]].entries : at \in started[t]..Telemetry!Finish(t)}
  BY <1>1, <1>4, <1>5
<1> QED BY <1>6 DEF Telemetry!Usage

(* A task that another's step leaves alone, while its sessions may go on.     *)
LEMMA OwnStays ==
    ASSUME TelemetryInv, NEW t \in Tasks, Own(t), TelemetryTyped',
           worktree'[t] = worktree[t], started'[t] = started[t], ended'[t] = ended[t],
           now <= now', taskRecord'[t].usage = taskRecord[t].usage,
           taskRecord'[t].path = taskRecord[t].path, settled'[t] = settled[t],
           t \in thinned' <=> t \in thinned,
           \A s \in Sessions : /\ session[s].entries \subseteq session'[s].entries
                               /\ session[s].seen \subseteq session'[s].seen
    PROVE  Own(t)'
<1>1. taskRecord[t] \in Records /\ settled[t] \subseteq Spending /\ started[t] \in Nat /\ now \in Nat
      /\ now' \in Nat /\ ended[t] \in Nat
  BY DEF TelemetryInv, TelemetryTyped, Times
<1>2. taskRecord[t].usage \subseteq Spending /\ taskRecord[t].path \in Sessions \cup {Telemetry!None}
  BY <1>1 DEF Records
<1>3. Telemetry!Live(t)' <=> Telemetry!Live(t) BY DEF Telemetry!Live
<1>4. Telemetry!Finish(t) \in Nat /\ Telemetry!Finish(t)' \in Nat /\ Telemetry!Finish(t) <= Telemetry!Finish(t)'
  BY <1>1, <1>3 DEF Telemetry!Finish
<1>5. ASSUME NEW e \in taskRecord'[t].usage \cup settled'[t] PROVE Spent(t, e)'
  <2>1. e \in Spending /\ e \in taskRecord[t].usage \cup settled[t] BY <1>1, <1>2, <1>5
  <2>2. e[1] \in Sessions /\ e[2] \in Nat BY <2>1 DEF Spending, Times
  <2>3. Spent(t, e) BY <2>1 DEF Own
  <2> QED BY <1>1, <1>4, <2>2, <2>3 DEF Spent
<1>6. settled'[t] # {} /\ t \notin thinned' =>
         settled'[t] \subseteq taskRecord'[t].usage /\ t \in session'[taskRecord'[t].path].seen
  <2> SUFFICES ASSUME settled'[t] # {}, t \notin thinned'
               PROVE  settled'[t] \subseteq taskRecord'[t].usage /\ t \in session'[taskRecord'[t].path].seen
    OBVIOUS
  <2>1. settled[t] \subseteq taskRecord[t].usage /\ t \in session[taskRecord[t].path].seen
        /\ taskRecord[t].path # Telemetry!None
    BY DEF Own
  <2> QED BY <1>2, <2>1
<1> QED BY <1>1, <1>3, <1>5, <1>6 DEF Own

LEMMA SyncKeeps ==
    ASSUME Telemetry!Parameters, TelemetryInv, NEW t \in Tasks, Telemetry!Sync(t)
    PROVE  TelemetryInv'
<1>1. /\ worktree[t] # "absent" /\ Own(t)
      /\ UNCHANGED <<now, worktree, started, ended, rollout, session>>
  BY DEF Telemetry!Sync, TelemetryInv
<1>2. PICK new \in Telemetry!Telemetry(t) : taskRecord' = [taskRecord EXCEPT ![t] = [new EXCEPT !.status = Telemetry!Status(t)]]
  BY DEF Telemetry!Sync
<1>3. taskRecord[t] \in Records /\ settled[t] \subseteq Spending BY DEF TelemetryInv, TelemetryTyped
<1>4. Telemetry!NoRecord \in Records BY DEF Telemetry!NoRecord, Records
<1>5. \/ new = Telemetry!NoRecord /\ (Telemetry!Usage(t) = {} \/ Telemetry!Live(t))
      \/ new = taskRecord[t] /\ Telemetry!Usage(t) = {} /\ new.path # Telemetry!None /\ Telemetry!MatchesWorktree(new.path, t)
      \/ /\ new = [Telemetry!NoRecord EXCEPT !.usage = Telemetry!Usage(t), !.path = new.path]
         /\ Telemetry!Usage(t) # {} /\ new.path \in Telemetry!Matching(t)
  <2>1. CASE Telemetry!Live(t) /\ t \in Queued BY <1>2, <2>1 DEF Telemetry!Telemetry
  <2>2. CASE ~(Telemetry!Live(t) /\ t \in Queued) /\ Telemetry!Usage(t) # {}
    <3>1. PICK p \in Telemetry!FirstPaths(t) : new = [Telemetry!NoRecord EXCEPT !.usage = Telemetry!Usage(t), !.path = p]
      BY <1>2, <2>2 DEF Telemetry!Telemetry
    <3>2. new.path = p BY <3>1 DEF Telemetry!NoRecord
    <3>3. p \in Telemetry!Matching(t) BY <3>1 DEF Telemetry!FirstPaths
    <3> QED BY <2>2, <3>1, <3>2, <3>3
  <2>3. CASE ~(Telemetry!Live(t) /\ t \in Queued) /\ Telemetry!Usage(t) = {}
    BY <1>2, <2>3 DEF Telemetry!Telemetry
  <2> QED BY <2>1, <2>2, <2>3
<1>6. Telemetry!Usage(t) \subseteq Spending /\ \A e \in Telemetry!Usage(t) : Spent(t, e) BY UsageIs
<1>7. /\ new \in Records
      /\ \A e \in new.usage : Spent(t, e)
      /\ new.path = Telemetry!None => new.usage = {}
  <2>1. CASE new = Telemetry!NoRecord BY <1>4, <2>1 DEF Telemetry!NoRecord
  <2>2. CASE new = taskRecord[t] /\ new.path # Telemetry!None BY <1>1, <1>3, <2>2 DEF Own
  <2>3. CASE /\ new = [Telemetry!NoRecord EXCEPT !.usage = Telemetry!Usage(t), !.path = new.path]
             /\ new.path \in Telemetry!Matching(t)
    <3>1. new.path \in Sessions BY <2>3 DEF Telemetry!Matching
    <3>2. new.usage = Telemetry!Usage(t) /\ new \in Records
      BY <1>6, <2>3, <3>1 DEF Telemetry!NoRecord, Records
    <3>3. new.path # Telemetry!None BY <3>1 DEF Telemetry!Parameters
    <3> QED BY <1>6, <3>2, <3>3
  <2> QED BY <1>5, <2>1, <2>2, <2>3
<1>8. Telemetry!Status(t) \in {Telemetry!None, "open", "closed"}
  BY <1>1 DEF Telemetry!Status, TelemetryInv, TelemetryTyped
<1>9. [new EXCEPT !.status = Telemetry!Status(t)] \in Records BY <1>7, <1>8 DEF Records
<1>10. /\ taskRecord' \in [Tasks -> Records]
       /\ taskRecord'[t].usage = new.usage /\ taskRecord'[t].path = new.path
       /\ \A u \in Tasks \ {t} : taskRecord'[u] = taskRecord[u]
  <2>1. taskRecord \in [Tasks -> Records] BY DEF TelemetryInv, TelemetryTyped
  <2>2. taskRecord'[t] = [new EXCEPT !.status = Telemetry!Status(t)] /\ taskRecord' \in [Tasks -> Records]
    BY <1>2, <1>9, <2>1
  <2>3. taskRecord'[t].usage = new.usage /\ taskRecord'[t].path = new.path BY <1>7, <2>2 DEF Records
  <2> QED BY <1>2, <2>1, <2>2, <2>3
<1>11. /\ settled'[t] = (IF ~Telemetry!Live(t) /\ settled[t] = {} THEN new.usage ELSE settled[t])
       /\ \A u \in Tasks \ {t} : settled'[u] = settled[u]
       /\ settled' \in [Tasks -> SUBSET Spending]
  <2>1. settled \in [Tasks -> SUBSET Spending] BY DEF TelemetryInv, TelemetryTyped
  <2>2. new.usage \in SUBSET Spending BY <1>7 DEF Records
  <2> QED BY <1>10, <2>1, <2>2 DEF Telemetry!Sync
<1>12. /\ thinned' \subseteq Tasks /\ thinned \subseteq thinned'
       /\ \A u \in Tasks \ {t} : u \in thinned' <=> u \in thinned
       /\ t \notin thinned' => /\ Telemetry!Usage(t) # {} => Telemetry!Counted(t) \subseteq Telemetry!Matching(t)
                               /\ new.path \in {Telemetry!None} \cup {s \in Sessions : Telemetry!MatchesWorktree(s, t)}
  <2>1. thinned \subseteq Tasks BY DEF TelemetryInv, TelemetryTyped
  <2> QED BY <1>10, <2>1 DEF Telemetry!Sync
<1>13. TelemetryTyped' BY <1>1, <1>10, <1>11, <1>12 DEF TelemetryInv, TelemetryTyped
<1>14. ASSUME settled'[t] # {}, t \notin thinned'
       PROVE  settled'[t] \subseteq new.usage /\ t \in session[new.path].seen
  <2>1. new.path # Telemetry!None => t \in session[new.path].seen
    BY <1>12, <1>14 DEF Telemetry!MatchesWorktree
  <2>2. CASE settled[t] = {} BY <1>7, <1>11, <1>14, <2>1, <2>2
  <2>3. CASE settled[t] # {}
    <3>1. /\ settled'[t] = settled[t] /\ ~Telemetry!Live(t) /\ t \notin thinned
          /\ settled[t] \subseteq taskRecord[t].usage /\ t \in session[taskRecord[t].path].seen
      BY <1>1, <1>11, <1>12, <1>14, <2>3 DEF Own
    <3>2. taskRecord[t].path # Telemetry!None BY <1>1, <2>3, <3>1 DEF Own
    <3>3. CASE Telemetry!Usage(t) # {}
      <4>1. new = [Telemetry!NoRecord EXCEPT !.usage = Telemetry!Usage(t), !.path = new.path]
        BY <1>5, <3>1, <3>3
      <4>2. new.usage = Telemetry!Usage(t) BY <4>1 DEF Telemetry!NoRecord
      <4>3. Telemetry!Counted(t) \subseteq Telemetry!Matching(t) BY <1>12, <1>14, <3>3
      <4>4. ASSUME NEW e \in settled[t] PROVE e \in Telemetry!Usage(t)
        <5>1. e \in Spending /\ Spent(t, e) BY <1>1, <1>3 DEF Own
        <5>2. e[1] \in Telemetry!Matching(t) BY <4>3 DEF Telemetry!Counted
        <5> QED BY <5>1, <5>2, UsageHolds
      <4>5. new.path # Telemetry!None BY <1>7, <2>3, <4>2, <4>4
      <4> QED BY <2>1, <3>1, <4>2, <4>4, <4>5
    <3>4. CASE Telemetry!Usage(t) = {}
      <4>1. taskRecord[t].path \in Sessions BY <1>3, <3>2 DEF Records
      <4>2. ~(Telemetry!Live(t) /\ t \in Queued) /\ Telemetry!MatchesWorktree(taskRecord[t].path, t)
        BY <3>1 DEF Telemetry!MatchesWorktree
      <4>3. new = taskRecord[t] BY <1>2, <3>2, <3>4, <4>2 DEF Telemetry!Telemetry
      <4> QED BY <3>1, <4>3
    <3> QED BY <3>3, <3>4
  <2> QED BY <2>2, <2>3
<1>15. Own(t)'
  <2>1. (Telemetry!Live(t)' <=> Telemetry!Live(t)) /\ (Telemetry!Finish(t)' = Telemetry!Finish(t))
    BY <1>1 DEF Telemetry!Live, Telemetry!Finish
  <2>2. \A e \in taskRecord'[t].usage \cup settled'[t] : Spent(t, e)'
    <3> SUFFICES ASSUME NEW e \in taskRecord'[t].usage \cup settled'[t] PROVE Spent(t, e)' OBVIOUS
    <3>1. e \in new.usage \cup settled[t] BY <1>10, <1>11
    <3>2. Spent(t, e) BY <1>1, <1>7, <3>1 DEF Own
    <3> QED BY <1>1, <2>1, <3>2 DEF Spent
  <2>3. started'[t] <= now' BY <1>1 DEF Own
  <2>4. Telemetry!Live(t)' => settled'[t] = {} BY <1>1, <1>11, <2>1 DEF Own
  <2>5. settled'[t] # {} /\ t \notin thinned' =>
          settled'[t] \subseteq taskRecord'[t].usage /\ t \in session'[taskRecord'[t].path].seen
    BY <1>1, <1>10, <1>14
  <2> QED BY <1>7, <1>10, <2>2, <2>3, <2>4, <2>5 DEF Own
<1>16. ASSUME NEW u \in Tasks \ {t}, worktree[u] # "absent" PROVE Own(u)'
  <2>1. Own(u) /\ now \in Nat BY <1>16 DEF TelemetryInv, TelemetryTyped, Times
  <2> QED BY <1>1, <1>10, <1>11, <1>12, <1>13, <2>1, OwnStays
<1> QED BY <1>1, <1>13, <1>15, <1>16 DEF TelemetryInv

(* The task's life.                                                          *)
LEMMA LifeKeeps ==
    ASSUME Telemetry!Parameters, TelemetryInv, NEW t \in Tasks,
           Telemetry!BundleSync(t) \/ Telemetry!Opens(t) \/ Telemetry!Closes(t) \/ Telemetry!CleansUp(t)
    PROVE  TelemetryInv'
<1>1. UNCHANGED <<now, session>> /\ now \in Nat /\ now \in Times
  BY DEF Telemetry!BundleSync, Telemetry!Opens, Telemetry!Closes, Telemetry!CleansUp,
       Telemetry!history, TelemetryInv, TelemetryTyped, Times
<1>2. taskRecord[t] \in Records /\ taskRecord \in [Tasks -> Records]
      /\ settled \in [Tasks -> SUBSET Spending] /\ thinned \subseteq Tasks
      /\ worktree \in [Tasks -> {"absent", "open", "closed"}]
      /\ started \in [Tasks -> Times] /\ ended \in [Tasks -> Times]
  BY DEF TelemetryInv, TelemetryTyped
<1>3. [taskRecord[t] EXCEPT !.status = "closed"] \in Records BY <1>2 DEF Records
<1>4. [Telemetry!NoRecord EXCEPT !.status = "open"] \in Records BY DEF Telemetry!NoRecord, Records
<1>5. /\ TelemetryTyped'
      /\ \A u \in Tasks \ {t} :
           /\ worktree'[u] = worktree[u] /\ started'[u] = started[u] /\ ended'[u] = ended[u]
           /\ taskRecord'[u] = taskRecord[u] /\ settled'[u] = settled[u]
           /\ u \in thinned' <=> u \in thinned
  <2>1. CASE Telemetry!BundleSync(t)
    <3>1. /\ taskRecord' = [taskRecord EXCEPT ![t] = [taskRecord[t] EXCEPT !.status = "closed"]]
          /\ UNCHANGED <<worktree, started, ended, settled, thinned>>
      BY <2>1 DEF Telemetry!BundleSync, Telemetry!history
    <3> QED BY <1>1, <1>2, <1>3, <3>1 DEF TelemetryInv, TelemetryTyped
  <2>2. CASE Telemetry!Opens(t)
    <3>1. /\ worktree' = [worktree EXCEPT ![t] = "open"] /\ started' = [started EXCEPT ![t] = now]
          /\ taskRecord' = [taskRecord EXCEPT ![t] = [Telemetry!NoRecord EXCEPT !.status = "open"]]
          /\ settled' = [settled EXCEPT ![t] = {}] /\ thinned' = thinned \ {t} /\ UNCHANGED ended
      BY <2>2 DEF Telemetry!Opens
    <3>2. taskRecord' \in [Tasks -> Records] /\ started' \in [Tasks -> Times]
      BY <1>1, <1>2, <1>4, <3>1
    <3>3. \A u \in Tasks \ {t} : taskRecord'[u] = taskRecord[u] BY <1>2, <3>1
    <3> QED BY <1>1, <1>2, <3>1, <3>2, <3>3 DEF TelemetryInv, TelemetryTyped
  <2>3. CASE Telemetry!Closes(t)
    BY <1>1, <1>2, <2>3 DEF Telemetry!Closes, TelemetryInv, TelemetryTyped, Telemetry!history
  <2>4. CASE Telemetry!CleansUp(t)
    <3>1. /\ taskRecord' = taskRecord
             \/ taskRecord' = [taskRecord EXCEPT ![t] = [taskRecord[t] EXCEPT !.status = "closed"]]
          /\ worktree' = [worktree EXCEPT ![t] = "absent"]
          /\ UNCHANGED <<started, ended, settled, thinned>>
      BY <2>4 DEF Telemetry!CleansUp, Telemetry!history
    <3>2. taskRecord' \in [Tasks -> Records] /\ \A u \in Tasks \ {t} : taskRecord'[u] = taskRecord[u]
      BY <1>2, <1>3, <3>1
    <3> QED BY <1>1, <1>2, <3>1, <3>2 DEF TelemetryInv, TelemetryTyped
  <2> QED BY <2>1, <2>2, <2>3, <2>4
<1>6. worktree'[t] # "absent" => Own(t)'
  <2>1. CASE Telemetry!BundleSync(t)
    <3>1. /\ taskRecord' = [taskRecord EXCEPT ![t] = [taskRecord[t] EXCEPT !.status = "closed"]]
          /\ UNCHANGED <<worktree, started, ended, settled, thinned>>
      BY <2>1 DEF Telemetry!BundleSync, Telemetry!history
    <3>2. taskRecord'[t].usage = taskRecord[t].usage /\ taskRecord'[t].path = taskRecord[t].path
      BY <1>2, <3>1 DEF Records
    <3>3. worktree[t] # "absent" => Own(t) BY DEF TelemetryInv
    <3> QED BY <1>1, <1>5, <3>1, <3>2, <3>3, OwnStays
  <2>2. CASE Telemetry!Opens(t)
    <3>1. taskRecord'[t] = [Telemetry!NoRecord EXCEPT !.status = "open"]
      BY <1>2, <2>2 DEF Telemetry!Opens
    <3>2. taskRecord'[t].usage = {} BY <3>1 DEF Telemetry!NoRecord
    <3>3. settled'[t] = {} /\ started'[t] = now BY <1>2, <2>2 DEF Telemetry!Opens
    <3> QED BY <1>1, <3>2, <3>3 DEF Own
  <2>3. CASE Telemetry!Closes(t)
    <3>1. /\ Own(t) /\ Telemetry!Live(t) /\ worktree'[t] = "closed" /\ ended'[t] = now
          /\ UNCHANGED <<started, taskRecord, settled, thinned>>
      BY <1>2, <2>3 DEF Telemetry!Closes, TelemetryInv, Telemetry!Live, Telemetry!history
    <3>2. Telemetry!Finish(t)' = Telemetry!Finish(t) /\ ~Telemetry!Live(t)'
      BY <3>1 DEF Telemetry!Finish, Telemetry!Live
    <3>3. \A e \in taskRecord[t].usage \cup settled[t] : Spent(t, e) => Spent(t, e)'
      BY <1>1, <3>1, <3>2 DEF Spent
    <3> QED BY <1>1, <3>1, <3>2, <3>3 DEF Own
  <2>4. CASE Telemetry!CleansUp(t) BY <1>2, <2>4 DEF Telemetry!CleansUp
  <2> QED BY <2>1, <2>2, <2>3, <2>4
<1>7. ASSUME NEW u \in Tasks \ {t}, worktree'[u] # "absent" PROVE Own(u)'
  <2>1. Own(u) BY <1>5, <1>7 DEF TelemetryInv
  <2> QED BY <1>1, <1>5, <2>1, OwnStays
<1>8. \A s \in Sessions : \A at \in session'[s].entries : at <= now' BY <1>1 DEF TelemetryInv
<1> QED BY <1>5, <1>6, <1>7, <1>8 DEF TelemetryInv

LEMMA WritesKeeps ==
    ASSUME Telemetry!Parameters, TelemetryInv, NEW s \in Sessions, Telemetry!Writes(s)
    PROVE  TelemetryInv'
<1>1. /\ UNCHANGED <<now, worktree, started, ended, taskRecord, settled, thinned>>
      /\ now \in Times /\ now \in Nat
  BY DEF Telemetry!Writes, Telemetry!history, TelemetryInv, TelemetryTyped, Times
<1>2. PICK seen \in SUBSET Tasks :
        session' = [session EXCEPT ![s] = [entries |-> session[s].entries \cup {now},
                                           seen |-> session[s].seen \cup seen, touched |-> now]]
  BY DEF Telemetry!Writes
<1>3. session \in [Sessions -> [entries : SUBSET Times, seen : SUBSET Tasks, touched : Times]]
  BY DEF TelemetryInv, TelemetryTyped
<1>4. /\ session'[s].entries = session[s].entries \cup {now}
      /\ session'[s].seen = session[s].seen \cup seen
      /\ \A r \in Sessions \ {s} : session'[r] = session[r]
  BY <1>2, <1>3
<1>5. session' \in [Sessions -> [entries : SUBSET Times, seen : SUBSET Tasks, touched : Times]]
  BY <1>1, <1>2, <1>3
<1>6. TelemetryTyped' BY <1>1, <1>5 DEF TelemetryInv, TelemetryTyped
<1>7. \A r \in Sessions : \A at \in session'[r].entries : at <= now' BY <1>1, <1>4 DEF TelemetryInv
<1>8. \A r \in Sessions : /\ session[r].entries \subseteq session'[r].entries
                          /\ session[r].seen \subseteq session'[r].seen
  BY <1>4
<1>9. ASSUME NEW t \in Tasks, worktree[t] # "absent" PROVE Own(t)'
  <2>1. Own(t) BY <1>9 DEF TelemetryInv
  <2> QED BY <1>1, <1>6, <1>8, <2>1, OwnStays
<1> QED BY <1>1, <1>6, <1>7, <1>9 DEF TelemetryInv

LEMMA TickKeeps ==
    ASSUME Telemetry!Parameters, TelemetryInv, Telemetry!Tick
    PROVE  TelemetryInv'
<1>1. /\ UNCHANGED <<worktree, started, ended, session, taskRecord, settled, thinned>>
      /\ now' = now + 1 /\ now < MaxTime /\ now \in Nat /\ MaxTime \in Nat /\ now <= now'
  BY DEF Telemetry!Tick, Telemetry!history, TelemetryInv, TelemetryTyped, Times,
       Telemetry!Parameters
<1>2. TelemetryTyped' BY <1>1 DEF TelemetryInv, TelemetryTyped, Times
<1>3. ASSUME NEW s \in Sessions, NEW at \in session'[s].entries PROVE at <= now'
  <2>1. at <= now /\ session[s].entries \subseteq Times BY <1>1 DEF TelemetryInv, TelemetryTyped
  <2> QED BY <1>1, <2>1 DEF Times
<1>4. ASSUME NEW t \in Tasks, worktree[t] # "absent" PROVE Own(t)'
  <2>1. Own(t) BY <1>4 DEF TelemetryInv
  <2> QED BY <1>1, <1>2, <2>1, OwnStays
<1> QED BY <1>1, <1>2, <1>3, <1>4 DEF TelemetryInv

LEMMA TelemetryStarting ==
    ASSUME Telemetry!Parameters, Telemetry!Init
    PROVE  TelemetryInv
<1>1. 0 \in Times BY DEF Telemetry!Parameters, Times
<1>2. Telemetry!NoRecord \in Records BY DEF Telemetry!NoRecord, Records
<1>3. TelemetryTyped BY <1>1, <1>2 DEF Telemetry!Init, TelemetryTyped
<1>4. \A s \in Sessions : \A at \in session[s].entries : at <= now BY DEF Telemetry!Init
<1>5. \A t \in Tasks : worktree[t] = "absent" BY DEF Telemetry!Init
<1> QED BY <1>3, <1>4, <1>5 DEF TelemetryInv

LEMMA TelemetryStepKeeps ==
    ASSUME Telemetry!Parameters, TelemetryInv, [Telemetry!Next]_(Telemetry!vars)
    PROVE  TelemetryInv'
<1>1. CASE UNCHANGED Telemetry!vars
  <2>1. UNCHANGED <<now, worktree, started, ended, session, taskRecord, settled, thinned>>
    BY <1>1 DEF Telemetry!vars, Telemetry!history
  <2>2. TelemetryTyped' BY <2>1 DEF TelemetryInv, TelemetryTyped
  <2>3. now \in Nat BY DEF TelemetryInv, TelemetryTyped, Times
  <2>4. ASSUME NEW t \in Tasks, worktree[t] # "absent" PROVE Own(t)'
    BY <2>1, <2>2, <2>3, <2>4, OwnStays DEF TelemetryInv
  <2> QED BY <2>1, <2>2, <2>4 DEF TelemetryInv
<1>2. CASE Telemetry!Next BY <1>2, SyncKeeps, LifeKeeps, WritesKeeps, TickKeeps DEF Telemetry!Next
<1> QED BY <1>1, <1>2

LEMMA Follows ==
    ASSUME Telemetry!Parameters, TelemetryInv
    PROVE  Telemetry!TypeOK /\ Telemetry!UsageIsTheTasksOwn
<1>1. ASSUME NEW t \in Tasks
      PROVE  taskRecord[t].status \in {Telemetry!None, "open", "closed"} /\ taskRecord[t].usage \subseteq Spending
  BY DEF TelemetryInv, TelemetryTyped, Records
<1>2. Telemetry!TypeOK
  BY <1>1 DEF TelemetryInv, TelemetryTyped, Telemetry!TypeOK, Spending, Times, Telemetry!Parameters
<1>3. ASSUME NEW t \in Tasks, worktree[t] = "closed", settled[t] # {}
      PROVE  /\ \A e \in taskRecord[t].usage : e[2] \in started[t]..ended[t]
             /\ t \in thinned \/ settled[t] \subseteq taskRecord[t].usage
  <2>1. Own(t) /\ Telemetry!Finish(t) = ended[t]
    BY <1>3 DEF TelemetryInv, Telemetry!Finish, Telemetry!Live
  <2>2. ASSUME NEW e \in taskRecord[t].usage PROVE e[2] \in started[t]..ended[t]
    <3>1. Spent(t, e) /\ e \in Spending BY <1>1, <2>1 DEF Own
    <3>2. e[2] \in Int /\ started[t] \in Int /\ ended[t] \in Int
      BY <3>1 DEF Spending, Times, TelemetryInv, TelemetryTyped
    <3> QED BY <2>1, <3>1, <3>2 DEF Spent
  <2> QED BY <1>3, <2>1, <2>2 DEF Own
<1> QED BY <1>2, <1>3 DEF Telemetry!UsageIsTheTasksOwn

(* The variables of the telemetry keep their types.                          *)
THEOREM TelemetryTypeCorrect == Telemetry!Parameters => (Telemetry!Spec => []Telemetry!TypeOK)
<1> SUFFICES ASSUME Telemetry!Parameters PROVE Telemetry!Spec => []Telemetry!TypeOK OBVIOUS
<1>1. Telemetry!Init => TelemetryInv BY TelemetryStarting
<1>2. TelemetryInv /\ [Telemetry!Next]_(Telemetry!vars) => TelemetryInv' BY TelemetryStepKeeps
<1>3. TelemetryInv => Telemetry!TypeOK BY Follows
<1> QED BY <1>1, <1>2, <1>3, PTL DEF Telemetry!Spec

(* The usage in the record of a task is its own, and what was found at its   *)
(* end is not taken away (task_flow_sync.rs).                                *)
THEOREM UsageKept == Telemetry!Parameters => (Telemetry!Spec => []Telemetry!UsageIsTheTasksOwn)
<1> SUFFICES ASSUME Telemetry!Parameters
             PROVE  Telemetry!Spec => []Telemetry!UsageIsTheTasksOwn OBVIOUS
<1>1. Telemetry!Init => TelemetryInv BY TelemetryStarting
<1>2. TelemetryInv /\ [Telemetry!Next]_(Telemetry!vars) => TelemetryInv' BY TelemetryStepKeeps
<1>3. TelemetryInv => Telemetry!UsageIsTheTasksOwn BY Follows
<1> QED BY <1>1, <1>2, <1>3, PTL DEF Telemetry!Spec

----------------------------------------------------------------------------
(* TaskEvidence, for all tasks, summaries and trees.                         *)
(*                                                                           *)
(* Where a closeout stands says what has been done by then: its tree is      *)
(* checked (Checks), delivered (Delivered), and its success written down     *)
(* (Reported).                                                               *)

CONSTANTS Summaries, Broken, Limit, MaxEvents
VARIABLES base, fork, index, torn, head, logs, stage, envStatus, bundles, checked,
          moved, order, proofs, twinned, turns

Evidence == INSTANCE TaskEvidence

EvidenceTyped ==
  /\ base.tree \subseteq Tasks
  /\ DOMAIN fork = Tasks /\ DOMAIN stage = Tasks /\ DOMAIN envStatus = Tasks /\ DOMAIN bundles = Tasks

(* Where a closeout stands, and what has been done by then.                  *)
Checks(t) == stage[t] \in {"index", "deliver"} => Evidence!Tree(t) \in checked
Delivered(t) == stage[t] \in {"close", "bundle", "cleanup"} => t \in base.tree
Reported(t) == stage[t] \in {"bundle", "cleanup"} => envStatus[t] = "closed:success"

EvidenceInv ==
  /\ EvidenceTyped /\ Evidence!DeliveredTreeIsChecked /\ Evidence!SuccessIsDelivered
  /\ \A t \in Tasks : Checks(t) /\ Delivered(t) /\ Reported(t)

---------------------------------------------------------------------------
(* What a step of one task does to another one.                              *)
LEMMA OthersStay ==
    ASSUME EvidenceInv, NEW t \in Tasks, NEW u \in Tasks \ {t},
           fork'[u].tree = fork[u].tree, stage'[u] = stage[u], envStatus'[u] = envStatus[u],
           base.tree \subseteq base'.tree, checked \subseteq checked'
    PROVE  Checks(u)' /\ Delivered(u)' /\ Reported(u)'
<1>1. Evidence!Tree(u)' = Evidence!Tree(u) BY DEF Evidence!Tree
<1>2. Checks(u) /\ Delivered(u) /\ Reported(u) BY DEF EvidenceInv
<1> QED BY <1>1, <1>2 DEF Checks, Delivered, Reported

(* What a step that delivers nothing leaves of what has been delivered.      *)
LEMMA DeliveriesStay ==
    ASSUME EvidenceInv, UNCHANGED <<base, moved>>, checked \subseteq checked',
           \A t \in Tasks : \A b \in bundles'[t] : b.receipt = "success" =>
               b \in bundles[t] \/ (b.status = "closed:success" /\ t \in base.tree)
    PROVE  Evidence!DeliveredTreeIsChecked' /\ Evidence!SuccessIsDelivered'
<1>1. Evidence!DeliveredTreeIsChecked' BY DEF EvidenceInv, Evidence!DeliveredTreeIsChecked
<1>2. Evidence!SuccessIsDelivered' BY DEF EvidenceInv, Evidence!SuccessIsDelivered
<1> QED BY <1>1, <1>2

(* The agent, and the start of a closeout.                                   *)
LEMMA AgentKeeps ==
    ASSUME EvidenceInv, NEW t \in Tasks,
           Evidence!OpensTask(t) \/ Evidence!AgentWorks(t) \/ Evidence!AgentResolves(t) \/ Evidence!Closeout(t) \/ Evidence!Drops(t)
    PROVE  EvidenceInv'
<1>1. /\ UNCHANGED <<base, checked, moved>> /\ stage[t] = "idle" /\ EvidenceTyped
  BY DEF Evidence!OpensTask, Evidence!AgentWorks, Evidence!AgentResolves, Evidence!Closeout,
       Evidence!Drops, Evidence!Working, Evidence!history, EvidenceInv
<1>2. /\ DOMAIN fork' = Tasks /\ \A u \in Tasks \ {t} : fork'[u] = fork[u]
  BY <1>1 DEF Evidence!OpensTask, Evidence!AgentWorks, Evidence!AgentResolves, Evidence!Closeout,
       Evidence!Drops, Evidence!work, EvidenceTyped
<1>3. /\ DOMAIN stage' = Tasks /\ stage'[t] \in {"idle", "preflight"}
      /\ \A u \in Tasks \ {t} : stage'[u] = stage[u]
  BY <1>1 DEF Evidence!OpensTask, Evidence!AgentWorks, Evidence!AgentResolves, Evidence!Closeout,
       Evidence!Drops, Evidence!Goto, EvidenceTyped
<1>4. /\ DOMAIN envStatus' = Tasks /\ \A u \in Tasks \ {t} : envStatus'[u] = envStatus[u]
  BY <1>1 DEF Evidence!OpensTask, Evidence!AgentWorks, Evidence!AgentResolves, Evidence!Closeout,
       Evidence!Drops, EvidenceTyped
<1>5. /\ DOMAIN bundles' = Tasks
      /\ \A u \in Tasks : \A b \in bundles'[u] : b.receipt = "success" => b \in bundles[u]
  <2>1. CASE UNCHANGED bundles BY <1>1, <2>1 DEF EvidenceTyped
  <2>2. CASE Evidence!Drops(t)
    <3>1. PICK outcome \in {"blocked", "failed"} :
             bundles' = [bundles EXCEPT ![t] = @ \cup {[status |-> "closed:" \o outcome, receipt |-> outcome]}]
      BY <2>2 DEF Evidence!Drops
    <3>2. PICK new : new = [status |-> "closed:" \o outcome, receipt |-> outcome] OBVIOUS
    <3>3. new.receipt # "success" BY <3>1, <3>2
    <3>4. bundles' = [bundles EXCEPT ![t] = @ \cup {new}] BY <3>1, <3>2
    <3> QED BY <1>1, <3>3, <3>4 DEF EvidenceTyped
  <2> QED
    BY <2>1, <2>2 DEF Evidence!OpensTask, Evidence!AgentWorks, Evidence!AgentResolves,
       Evidence!Closeout
<1>6. EvidenceTyped' BY <1>1, <1>2, <1>3, <1>4, <1>5 DEF EvidenceTyped
<1>7. \A u \in Tasks : Checks(u)' /\ Delivered(u)' /\ Reported(u)'
  <2>1. Checks(t)' /\ Delivered(t)' /\ Reported(t)' BY <1>3 DEF Checks, Delivered, Reported
  <2>2. \A u \in Tasks \ {t} : Checks(u)' /\ Delivered(u)' /\ Reported(u)'
    BY <1>1, <1>2, <1>3, <1>4, OthersStay
  <2> QED BY <2>1, <2>2
<1>8. Evidence!DeliveredTreeIsChecked' /\ Evidence!SuccessIsDelivered' BY <1>1, <1>5, DeliveriesStay
<1> QED BY <1>6, <1>7, <1>8 DEF EvidenceInv

(* The checks and the index, before the delivery.                            *)
LEMMA ProofKeeps ==
    ASSUME EvidenceInv, NEW t \in Tasks, Evidence!Preflight(t) \/ Evidence!UpdatesIndex(t)
    PROVE  EvidenceInv'
<1>1. UNCHANGED <<base, fork, moved, envStatus, bundles>> /\ EvidenceTyped
  BY DEF Evidence!Preflight, Evidence!UpdatesIndex, Evidence!work, EvidenceInv
<1>2. /\ DOMAIN stage' = Tasks /\ stage'[t] \in {"fail", "index", "deliver"}
      /\ \A u \in Tasks \ {t} : stage'[u] = stage[u]
  BY <1>1 DEF Evidence!Preflight, Evidence!UpdatesIndex, Evidence!Goto, EvidenceTyped
<1>3. checked \subseteq checked' BY DEF Evidence!Preflight, Evidence!UpdatesIndex
<1>4. Evidence!Tree(t)' = Evidence!Tree(t) BY <1>1 DEF Evidence!Tree
<1>5. Checks(t)'
  <2>1. CASE Evidence!Preflight(t)
    BY <1>1, <1>4, <2>1 DEF Evidence!Preflight, Evidence!Goto, Checks, EvidenceTyped
  <2>2. CASE Evidence!UpdatesIndex(t)
    <3>1. Evidence!Tree(t) \in checked BY <2>2 DEF Evidence!UpdatesIndex, EvidenceInv, Checks
    <3> QED BY <1>3, <1>4, <3>1 DEF Checks
  <2> QED BY <2>1, <2>2
<1>6. Delivered(t)' /\ Reported(t)' BY <1>2 DEF Delivered, Reported
<1>7. \A u \in Tasks \ {t} : Checks(u)' /\ Delivered(u)' /\ Reported(u)'
  BY <1>1, <1>2, <1>3, OthersStay
<1>8. EvidenceTyped' BY <1>1, <1>2 DEF EvidenceTyped
<1>9. Evidence!DeliveredTreeIsChecked' /\ Evidence!SuccessIsDelivered' BY <1>1, <1>3, DeliveriesStay
<1> QED BY <1>5, <1>6, <1>7, <1>8, <1>9 DEF EvidenceInv

LEMMA DeliversKeeps ==
    ASSUME EvidenceInv, NEW t \in Tasks, Evidence!Delivers(t)
    PROVE  EvidenceInv'
<1>1. stage[t] = "deliver" /\ UNCHANGED <<envStatus, bundles, checked>> /\ EvidenceTyped
  BY DEF Evidence!Delivers, EvidenceInv
<1>2. CASE Evidence!Goto(t, "fail") /\ UNCHANGED <<base, fork, moved>>
  <2>1. /\ DOMAIN stage' = Tasks /\ stage'[t] = "fail" /\ \A u \in Tasks \ {t} : stage'[u] = stage[u]
    BY <1>1, <1>2 DEF Evidence!Goto, EvidenceTyped
  <2>2. Checks(t)' /\ Delivered(t)' /\ Reported(t)' BY <2>1 DEF Checks, Delivered, Reported
  <2>3. \A u \in Tasks \ {t} : Checks(u)' /\ Delivered(u)' /\ Reported(u)'
    BY <1>1, <1>2, <2>1, OthersStay
  <2>4. EvidenceTyped' BY <1>1, <1>2, <2>1 DEF EvidenceTyped
  <2>5. Evidence!DeliveredTreeIsChecked' /\ Evidence!SuccessIsDelivered'
    BY <1>1, <1>2, DeliveriesStay
  <2> QED BY <2>2, <2>3, <2>4, <2>5 DEF EvidenceInv
<1>3. CASE ~ (Evidence!Goto(t, "fail") /\ UNCHANGED <<base, fork, moved>>)
  <2>1. /\ base'.tree = base.tree \cup {t}
        /\ moved' = IF base.tree # fork[t].tree THEN moved \cup {base'.tree} ELSE moved
        /\ fork' = [fork EXCEPT ![t] = base'] /\ Evidence!Goto(t, "close")
    BY <1>3 DEF Evidence!Delivers
  <2>2. /\ DOMAIN stage' = Tasks /\ stage'[t] = "close" /\ \A u \in Tasks \ {t} : stage'[u] = stage[u]
    BY <1>1, <2>1 DEF Evidence!Goto, EvidenceTyped
  <2>3. EvidenceTyped' BY <1>1, <2>1, <2>2 DEF EvidenceTyped
  <2>4. Evidence!DeliveredTreeIsChecked'
    <3>1. Evidence!Tree(t) \in checked BY <1>1 DEF EvidenceInv, Checks
    <3>2. CASE base.tree = fork[t].tree
      BY <1>1, <2>1, <3>1, <3>2 DEF Evidence!Tree, Evidence!DeliveredTreeIsChecked
    <3>3. CASE base.tree # fork[t].tree BY <2>1, <3>3 DEF Evidence!DeliveredTreeIsChecked
    <3> QED BY <3>2, <3>3
  <2>5. Evidence!SuccessIsDelivered' BY <1>1, <2>1 DEF EvidenceInv, Evidence!SuccessIsDelivered
  <2>6. Checks(t)' /\ Delivered(t)' /\ Reported(t)' BY <2>1, <2>2 DEF Checks, Delivered, Reported
  <2>7. \A u \in Tasks \ {t} : Checks(u)' /\ Delivered(u)' /\ Reported(u)'
    BY <1>1, <2>1, <2>2, OthersStay DEF EvidenceTyped
  <2> QED BY <2>3, <2>4, <2>5, <2>6, <2>7 DEF EvidenceInv
<1> QED BY <1>2, <1>3

(* The end of a closeout, of work that is delivered or has failed.           *)
LEMMA EndKeeps ==
    ASSUME EvidenceInv, NEW t \in Tasks,
           Evidence!Closes(t) \/ Evidence!Bundles(t) \/ Evidence!CleansUp(t) \/ Evidence!Fails(t)
    PROVE  EvidenceInv'
<1>1. UNCHANGED <<base, fork, checked, moved>> /\ EvidenceTyped
  BY DEF Evidence!Closes, Evidence!Bundles, Evidence!CleansUp, Evidence!Fails, Evidence!work,
       Evidence!history, EvidenceInv
<1>2. stage[t] \in {"close", "bundle", "cleanup", "fail"} /\ (stage[t] # "fail" => t \in base.tree)
  BY DEF Evidence!Closes, Evidence!Bundles, Evidence!CleansUp, Evidence!Fails, EvidenceInv,
       Delivered
<1>3. /\ DOMAIN stage' = Tasks /\ \A u \in Tasks \ {t} : stage'[u] = stage[u]
      /\ stage'[t] \in {"bundle", "cleanup", "idle", "fail"}
      /\ stage'[t] \in {"bundle", "cleanup"} => stage[t] \in {"close", "bundle"}
  BY <1>1 DEF Evidence!Closes, Evidence!Bundles, Evidence!CleansUp, Evidence!Fails, Evidence!Goto,
       EvidenceTyped
<1>4. DOMAIN envStatus' = Tasks /\ \A u \in Tasks \ {t} : envStatus'[u] = envStatus[u]
  BY <1>1 DEF Evidence!Closes, Evidence!Bundles, Evidence!CleansUp, Evidence!Fails, EvidenceTyped
<1>5. Reported(t)'
  <2>1. CASE Evidence!Closes(t) BY <1>1, <2>1 DEF Evidence!Closes, Reported, EvidenceTyped
  <2>2. CASE Evidence!Bundles(t) BY <2>2 DEF Evidence!Bundles, EvidenceInv, Reported
  <2>3. CASE Evidence!CleansUp(t) \/ Evidence!Fails(t)
    BY <1>1, <2>3 DEF Evidence!CleansUp, Evidence!Fails, Evidence!Goto, Reported, EvidenceTyped
  <2> QED BY <2>1, <2>2, <2>3
<1>6. /\ DOMAIN bundles' = Tasks
      /\ \A u \in Tasks : \A b \in bundles'[u] : b.receipt = "success" =>
            b \in bundles[u] \/ (b.status = "closed:success" /\ u \in base.tree)
  <2>1. CASE UNCHANGED bundles BY <1>1, <2>1 DEF EvidenceTyped
  <2>2. ASSUME NEW new, bundles' = [bundles EXCEPT ![t] = @ \cup {new}], new.receipt # "success"
        PROVE  /\ DOMAIN bundles' = Tasks
               /\ \A u \in Tasks : \A b \in bundles'[u] : b.receipt = "success" =>
                     b \in bundles[u] \/ (b.status = "closed:success" /\ u \in base.tree)
    BY <1>1, <2>2 DEF EvidenceTyped
  <2>3. CASE Evidence!Bundles(t)
    <3>1. UNCHANGED bundles \/ bundles' = [bundles EXCEPT ![t] = @ \cup {Evidence!Archive(t, "none")}]
      BY <2>3 DEF Evidence!Bundles
    <3>2. Evidence!Archive(t, "none").receipt # "success" BY DEF Evidence!Archive
    <3> QED BY <2>1, <2>2, <3>1, <3>2
  <2>4. CASE Evidence!Fails(t)
    <3>1. PICK new : /\ new.receipt = "failed-closeout"
                     /\ UNCHANGED bundles \/ bundles' = [bundles EXCEPT ![t] = @ \cup {new}]
      <4>1. [status |-> envStatus'[t], receipt |-> "failed-closeout"].receipt = "failed-closeout" OBVIOUS
      <4> QED BY <2>4, <4>1 DEF Evidence!Fails
    <3>2. new.receipt # "success" BY <3>1
    <3> QED BY <2>1, <2>2, <3>1, <3>2
  <2>5. CASE Evidence!CleansUp(t)
    <3>1. CASE bundles' = [bundles EXCEPT ![t] = (@ \ {Evidence!Archive(t, "none")}) \cup {Evidence!Archive(t, "success")}]
      <4>1. envStatus[t] = "closed:success" /\ t \in base.tree
        BY <1>2, <2>5 DEF Evidence!CleansUp, EvidenceInv, Reported
      <4>2. Evidence!Archive(t, "success").status = "closed:success" BY <4>1 DEF Evidence!Archive
      <4> QED BY <1>1, <3>1, <4>1, <4>2 DEF EvidenceTyped
    <3> QED BY <2>1, <2>5, <3>1 DEF Evidence!CleansUp
  <2> QED BY <2>1, <2>3, <2>4, <2>5 DEF Evidence!Closes
<1>7. Checks(t)' /\ Delivered(t)' BY <1>1, <1>2, <1>3 DEF Checks, Delivered
<1>8. \A u \in Tasks \ {t} : Checks(u)' /\ Delivered(u)' /\ Reported(u)'
  BY <1>1, <1>3, <1>4, OthersStay
<1>9. EvidenceTyped' BY <1>1, <1>3, <1>4, <1>6 DEF EvidenceTyped
<1>10. Evidence!DeliveredTreeIsChecked' /\ Evidence!SuccessIsDelivered'
  BY <1>1, <1>6, DeliveriesStay
<1> QED BY <1>5, <1>7, <1>8, <1>9, <1>10 DEF EvidenceInv

LEMMA EvidenceStarting ==
    ASSUME Evidence!Init
    PROVE  EvidenceInv
<1>1. base.tree = {} /\ checked = {{}} BY DEF Evidence!Init
<1>2. \A t \in Tasks : stage[t] = "idle" /\ bundles[t] = {} BY DEF Evidence!Init
<1>3. EvidenceTyped BY <1>1 DEF Evidence!Init, EvidenceTyped
<1>4. Evidence!DeliveredTreeIsChecked /\ Evidence!SuccessIsDelivered
  BY <1>1, <1>2 DEF Evidence!DeliveredTreeIsChecked, Evidence!SuccessIsDelivered
<1>5. \A t \in Tasks : Checks(t) /\ Delivered(t) /\ Reported(t)
  BY <1>2 DEF Checks, Delivered, Reported
<1> QED BY <1>3, <1>4, <1>5 DEF EvidenceInv

LEMMA EvidenceStepKeeps ==
    ASSUME EvidenceInv, [Evidence!Next]_(Evidence!vars)
    PROVE  EvidenceInv'
<1>1. CASE UNCHANGED Evidence!vars
  <2>1. UNCHANGED <<base, fork, stage, envStatus, bundles, checked, moved>>
    BY <1>1 DEF Evidence!vars, Evidence!work, Evidence!history
  <2> QED
    BY <2>1 DEF EvidenceInv, EvidenceTyped, Evidence!DeliveredTreeIsChecked,
       Evidence!SuccessIsDelivered, Checks, Delivered,
                      Reported, Evidence!Tree
<1>2. CASE Evidence!Next
  BY <1>2, AgentKeeps, ProofKeeps, DeliversKeeps, EndKeeps DEF Evidence!Next, Evidence!Task
<1> QED BY <1>1, <1>2

(* The base branch holds a tree that has passed its checks unless its last   *)
(* delivery was rebased onto work the task had not seen, and a bundle with a *)
(* receipt of success is of a task that was delivered (proof_runs.rs,        *)
(* bundle.rs).                                                               *)
THEOREM DeliveriesProven == Evidence!Spec => [](Evidence!DeliveredTreeIsChecked /\ Evidence!SuccessIsDelivered)
<1>1. Evidence!Init => EvidenceInv BY EvidenceStarting
<1>2. EvidenceInv /\ [Evidence!Next]_(Evidence!vars) => EvidenceInv' BY EvidenceStepKeeps
<1>3. EvidenceInv => Evidence!DeliveredTreeIsChecked /\ Evidence!SuccessIsDelivered
  BY DEF EvidenceInv
<1> QED BY <1>1, <1>2, <1>3, PTL DEF Evidence!Spec

==============================================================================
