-------------------------- MODULE QueueBoardProofs --------------------------
(***************************************************************************)
(* Proofs about QueueBoard: its types, and the four properties that        *)
(* overlapping requests and run workers put in danger.                     *)
(*                                                                         *)
(* The types come first, with Consistent, which the fallback of a deleted  *)
(* tab needs (Base).  The race properties are inductive only with what     *)
(* holds between a read and its write (BoardInv):                          *)
(*   FreshChecked, FreshEditable: while nobody has written, what a handler *)
(*     has checked is still so;                                            *)
(*   StartedUnfinished: an item with a worker is not terminal, so that a   *)
(*     success is never written over but by a stopping worker;             *)
(*   Looked: what a worker has not seen of its run's rows is marked.       *)
(* A step keeps the rows that were there (RowsKept) or is one of the two   *)
(* that store rows (StoreRunRows, StoreAppendRows).                        *)
(***************************************************************************)
EXTENDS QueueBoard, FiniteSetTheorems, FunctionTheorems, TLAPS

At == {"off", "start", "loop", "loaded", "leave"}
Snapshot == UNION {[K -> Row] : K \in SUBSET Key}

RunRequest ==
    [op : {"run"}, run : Run, tab : Tab \cup {ActiveTab}, slugs : SUBSET Slug, fresh : BOOLEAN]
AppendRequest == [op : {"append"}, key : Key, fresh : BOOLEAN, pos : Nat \ {0}]
UpdateRequest == [op : {"update"}, key : Key, prompt : Prompt, fresh : BOOLEAN]
RemoveRequest == [op : {"remove"}, key : Key, fresh : BOOLEAN]
ClearRequest == [op : {"clear"}, run : Run, fresh : BOOLEAN, stop : BOOLEAN]
TabRequest ==
    [op : {"tab", "tab-rows"}, tab : Tab \ {DefaultTab}, run : Run \cup {NoRun},
     fresh : BOOLEAN]
Request ==
    {Idle} \cup RunRequest \cup AppendRequest \cup UpdateRequest \cup RemoveRequest
    \cup ClearRequest \cup TabRequest
USE DEF RunRequest, AppendRequest, UpdateRequest, RemoveRequest, ClearRequest, TabRequest

TabType == DOMAIN tab \subseteq Tab /\ tab \in [DOMAIN tab -> DOMAIN run \cup {NoRun}]
RunType == DOMAIN run \subseteq Run /\ run \in [DOMAIN run -> Status]
ItemType ==
    /\ DOMAIN item \subseteq Key /\ IsFiniteSet(DOMAIN item)
    /\ item \in [DOMAIN item -> Row]
    /\ \A k \in DOMAIN item : k[1] \in DOMAIN run
ExecType == DOMAIN exec \subseteq Key /\ exec \in [DOMAIN exec -> Prompt]
WorkerType ==
    /\ worker \in [Run -> [at : At, saw : Snapshot]]
    /\ \A r \in Run : \A k \in DOMAIN Saw(r) : k[1] = r
ReqType ==
    /\ req \in [Client -> Request]
    /\ \A c \in Client : req[c].op = "run" => IsFiniteSet(req[c].slugs)

Typed == TabType /\ RunType /\ ItemType /\ ExecType /\ WorkerType /\ ReqType

(* The rows a worker may have loaded: functions from some keys to rows.      *)
LEMMA SnapshotFacts ==
    /\ << >> \in Snapshot
    /\ \A f \in Snapshot : /\ DOMAIN f \subseteq Key
                           /\ \A k \in DOMAIN f : f[k] \in Row
    /\ \A f : \A K \in SUBSET Key : f \in [K -> Row] => f \in Snapshot
<1>1. << >> \in [{} -> Row] /\ {} \in SUBSET Key OBVIOUS
<1>2. \A f : \A K \in SUBSET Key : f \in [K -> Row] => f \in Snapshot
  BY Zenon DEF Snapshot
<1>3. ASSUME NEW f \in Snapshot
      PROVE  DOMAIN f \subseteq Key /\ \A k \in DOMAIN f : f[k] \in Row
  <2>1. PICK K \in SUBSET Key : f \in [K -> Row] BY <1>3, Zenon DEF Snapshot
  <2> QED BY <2>1
<1> QED BY <1>1, <1>2, <1>3, Zenon

(* The empty function has an empty, finite domain.                           *)
LEMMA NoRows == DOMAIN << >> = {} /\ IsFiniteSet(DOMAIN << >>)
<1>1. DOMAIN << >> = {} OBVIOUS
<1> QED BY <1>1, FS_EmptySet

(* A set of numbers has a least one.                                         *)
LEMMA Least ==
    ASSUME NEW S \in SUBSET Nat, S # {}
    PROVE  \E n \in S : \A m \in S : n <= m
<1> DEFINE R == OpToRel(<, Nat)
<1>1. IsWellFoundedOn(R, Nat) BY NatLessThanWellFounded
<1>2. \A m, n \in Nat : m < n => <<m, n>> \in R BY Zenon DEF OpToRel
<1> HIDE DEF R
<1>3. PICK n \in S : \A m \in S : ~ (<<m, n>> \in R) BY <1>1, WFMin
<1>4. ASSUME NEW m \in S PROVE n <= m
  <2>1. ~ (m < n) BY <1>2, <1>3
  <2> QED BY <2>1
<1> QED BY <1>4

(* A finite set of numbers has a greatest one.                               *)
LEMMA FiniteMax ==
    ASSUME NEW S \in SUBSET Nat, IsFiniteSet(S), S # {}
    PROVE  Max(S) \in S /\ \A x \in S : Max(S) >= x
<1> DEFINE Has(T) == \E m \in T : \A x \in T : m >= x
           Bad == {n \in Nat : \E T \in SUBSET Nat : /\ IsFiniteSet(T) /\ T # {}
                                                     /\ Cardinality(T) = n /\ ~Has(T)}
<1>1. Bad = {}
  <2> SUFFICES ASSUME Bad # {} PROVE FALSE OBVIOUS
  <2>1. PICK n \in Bad : \A m \in Bad : n <= m BY Least
  <2>2. PICK T \in SUBSET Nat : IsFiniteSet(T) /\ T # {} /\ Cardinality(T) = n /\ ~Has(T)
    OBVIOUS
  <2>3. PICK x \in T : TRUE BY <2>2
  <2> DEFINE U == T \ {x}
  <2>4. IsFiniteSet(U) /\ Cardinality(U) = n - 1 /\ n \in Nat
    BY <2>1, <2>2, <2>3, FS_RemoveElement
  <2>5. U # {}
    <3> SUFFICES ASSUME U = {} PROVE FALSE OBVIOUS
    <3>1. \A y \in T : y = x BY <2>3
    <3> QED BY <3>1, <2>2, <2>3
  <2>6. Cardinality(U) \in Nat BY <2>4, FS_CardinalityType
  <2>7. Has(U)
    <3>1. (n - 1) \notin Bad BY <2>1, <2>4
    <3> QED BY <3>1, <2>4, <2>5, <2>6
  <2>8. PICK m \in U : \A y \in U : m >= y BY <2>7
  <2>9. CASE m >= x BY <2>2, <2>3, <2>8, <2>9
  <2>10. CASE x >= m
    <3>1. \A y \in T : x >= y BY <2>3, <2>8, <2>10
    <3> QED BY <3>1, <2>2, <2>3
  <2> QED BY <2>9, <2>10, <2>2, <2>3
<1>2. Has(S)
  <2>1. Cardinality(S) \in Nat BY FS_CardinalityType
  <2> QED BY <1>1, <2>1
<1> QED BY <1>2 DEF Max

(* The positions that a stored run gives its items.                          *)
LEMMA Numbering ==
    ASSUME NEW S, IsFiniteSet(S)
    PROVE  LET order == CHOOSE f \in [S -> 1 .. Cardinality(S)] : IsInjective(f)
           IN  order \in [S -> Nat \ {0}]
<1>1. ExistsBijection(1 .. Cardinality(S), S) /\ Cardinality(S) \in Nat BY FS_CardinalityType
<1>2. ExistsBijection(S, 1 .. Cardinality(S)) BY <1>1, Fun_ExistsBijSymmetric
<1>3. \E f \in [S -> 1 .. Cardinality(S)] : IsInjective(f)
  BY <1>2 DEF ExistsBijection, Bijection, Injection
<1>4. (CHOOSE f \in [S -> 1 .. Cardinality(S)] : IsInjective(f)) \in [S -> 1 .. Cardinality(S)]
  BY <1>3
<1> QED BY <1>1, <1>4

---------------------------------------------------------------------------
(* The board starts typed and consistent.                                    *)
LEMMA InitTyped == Init => Typed /\ Consistent
<1> SUFFICES ASSUME Init PROVE Typed /\ Consistent OBVIOUS
<1> USE BoardAssumption
<1>1. << >> \in Snapshot BY SnapshotFacts
<1>2. WorkerType BY <1>1, NoRows DEF Init, Off, At, WorkerType, Saw
<1>3. ReqType BY DEF Init, Request, Idle, ReqType
<1>4. ItemType BY NoRows DEF Init, ItemType
<1>5. TabType /\ RunType /\ ExecType BY NoRows DEF Init, TabType, RunType, ExecType
<1> QED BY <1>2, <1>3, <1>4, <1>5 DEF Init, Typed, Consistent

(* After a write no request is fresh.                                        *)
NoneFresh == \A c \in Client : req[c].op \in {"run", "update"} => ~req[c].fresh

(* Ending the freshness of every request changes nothing else of it.         *)
LEMMA DisturbedReq ==
    ASSUME ReqType
    PROVE  /\ Disturbed \in [Client -> Request]
           /\ \A c \in Client :
                /\ Disturbed[c].op = req[c].op
                /\ req[c].op = "run" => /\ Disturbed[c].slugs = req[c].slugs
                                        /\ Disturbed[c].fresh = FALSE
                /\ req[c].op = "update" => Disturbed[c].fresh = FALSE
                /\ req[c].op = "clear" => Disturbed[c] \in ClearRequest
                /\ req[c].op = "tab-rows" => Disturbed[c] \in TabRequest
<1>1. ASSUME NEW q \in Request, q # Idle
      PROVE  LET d == [q EXCEPT !.fresh = FALSE]
             IN  /\ d \in Request
                 /\ d.op = q.op /\ d.fresh = FALSE
                 /\ q.op = "run" => d.slugs = q.slugs
                 /\ q.op = "clear" => d \in ClearRequest
                 /\ q.op = "tab-rows" => d \in TabRequest
  <2> DEFINE d == [q EXCEPT !.fresh = FALSE]
  <2>1. CASE q \in RunRequest
    BY <2>1 DEF Request
  <2>2. CASE q \in AppendRequest
    BY <2>2 DEF Request
  <2>3. CASE q \in UpdateRequest
    BY <2>3 DEF Request
  <2>4. CASE q \in RemoveRequest
    BY <2>4 DEF Request
  <2>5. CASE q \in ClearRequest BY <2>5 DEF Request
  <2>6. CASE q \in TabRequest BY <2>6 DEF Request
  <2> QED BY <1>1, <2>1, <2>2, <2>3, <2>4, <2>5, <2>6 DEF Request
<1>2. ASSUME NEW c \in Client
      PROVE  Disturbed[c] = IF req[c] = Idle THEN Idle ELSE [req[c] EXCEPT !.fresh = FALSE]
  BY DEF Disturbed
<1>3. Idle \in Request /\ Idle.op = "idle" BY DEF Request, Idle
<1>4. \A c \in Client : req[c] \in Request BY DEF ReqType
<1>5. Disturbed \in [Client -> Request] BY <1>1, <1>3, <1>4 DEF Disturbed
<1>6. ASSUME NEW c \in Client
      PROVE  /\ Disturbed[c].op = req[c].op
             /\ req[c].op = "run" => /\ Disturbed[c].slugs = req[c].slugs
                                     /\ Disturbed[c].fresh = FALSE
             /\ req[c].op = "update" => Disturbed[c].fresh = FALSE
             /\ req[c].op = "clear" => Disturbed[c] \in ClearRequest
             /\ req[c].op = "tab-rows" => Disturbed[c] \in TabRequest
  <2>1. CASE req[c] = Idle BY <2>1, <1>2, <1>3
  <2>2. CASE req[c] # Idle
    <3> DEFINE q == req[c]
               d == [q EXCEPT !.fresh = FALSE]
    <3>1. Disturbed[c] = d BY <2>2, <1>2
    <3>2. q \in Request /\ q # Idle BY <2>2, <1>4
    <3>3. /\ d \in Request
          /\ d.op = q.op /\ d.fresh = FALSE
          /\ q.op = "run" => d.slugs = q.slugs
          /\ q.op = "clear" => d \in ClearRequest
          /\ q.op = "tab-rows" => d \in TabRequest
      BY <3>2, <1>1
    <3> HIDE DEF d
    <3> QED BY <3>1, <3>3
  <2> QED BY <2>1, <2>2
<1> QED BY <1>5, <1>6

(* A step that writes to the board leaves the requests typed, none fresh.    *)
LEMMA WrittenReq ==
    ASSUME ReqType, \/ req' = Disturbed
                    \/ \E c \in Client : Done(c)
                    \/ \E c \in Client : ClearStops(c) \/ DeleteTabRows(c)
    PROVE  ReqType' /\ NoneFresh'
<1>1. CASE req' = Disturbed BY <1>1, DisturbedReq DEF ReqType, NoneFresh
<1>2. ASSUME NEW c \in Client, Done(c) PROVE ReqType' /\ NoneFresh'
  BY <1>2, DisturbedReq DEF ReqType, NoneFresh, Done, Request, Idle
<1>3. ASSUME NEW c \in Client, ClearStops(c) PROVE ReqType' /\ NoneFresh'
  <2>1. req' = [Disturbed EXCEPT ![c] = [Disturbed[c] EXCEPT !.stop = FALSE]]
    BY <1>3, DisturbedReq DEF ClearStops
  <2>2. /\ [Disturbed[c] EXCEPT !.stop = FALSE] \in Request
        /\ [Disturbed[c] EXCEPT !.stop = FALSE].op = "clear"
    BY <1>3, DisturbedReq DEF ClearStops, Request
  <2> QED BY <2>1, <2>2, DisturbedReq DEF ReqType, NoneFresh
<1>4. ASSUME NEW c \in Client, DeleteTabRows(c) PROVE ReqType' /\ NoneFresh'
  <2>1. req' = [Disturbed EXCEPT ![c] = [Disturbed[c] EXCEPT !.op = "tab"]]
    BY <1>4, DisturbedReq DEF DeleteTabRows
  <2>2. /\ [Disturbed[c] EXCEPT !.op = "tab"] \in Request
        /\ [Disturbed[c] EXCEPT !.op = "tab"].op = "tab"
    BY <1>4, DisturbedReq DEF DeleteTabRows, Request
  <2> QED BY <2>1, <2>2, DisturbedReq DEF ReqType, NoneFresh
<1> QED BY <1>1, <1>2, <1>3, <1>4

(* A step that reads fills one slot with a typed request.                    *)
LEMMA ReadReq ==
    ASSUME ReqType, NEW c \in Client, NEW q \in Request, req' = [req EXCEPT ![c] = q],
           q.op = "run" => IsFiniteSet(q.slugs)
    PROVE  ReqType'
BY DEF ReqType

(* A worker that loads rows of its own run stays typed.                      *)
LEMMA WorkerSet ==
    ASSUME WorkerType, NEW r \in Run, NEW at \in At, NEW saw \in Snapshot,
           \A k \in DOMAIN saw : k[1] = r,
           worker' = [worker EXCEPT ![r] = [at |-> at, saw |-> saw]]
    PROVE  WorkerType'
BY DEF WorkerType, Saw

(* A worker that moves on without rows stays typed.                          *)
LEMMA WorkerMoves ==
    ASSUME WorkerType, NEW r \in Run, NEW at \in At, Moves(r, at)
    PROVE  WorkerType'
<1>1. [Off EXCEPT !.at = at] = [at |-> at, saw |-> << >>] BY DEF Off
<1>2. worker' = [worker EXCEPT ![r] = [at |-> at, saw |-> << >>]] BY <1>1 DEF Moves
<1> QED BY <1>2, SnapshotFacts, NoRows, WorkerSet

(* Spawning a worker keeps the workers typed.                                *)
LEMMA WorkerSpawned ==
    ASSUME WorkerType, NEW r \in Run, worker' = Spawned(r)
    PROVE  WorkerType'
<1>1. CASE worker[r].at = "off"
  <2>1. Moves(r, "start") BY <1>1 DEF Spawned, Moves
  <2> QED BY <2>1, WorkerMoves DEF At
<1>2. CASE worker[r].at # "off" BY <1>2 DEF Spawned, WorkerType, Saw
<1> QED BY <1>1, <1>2

(* The rows of a run are rows that a worker may load.                        *)
LEMMA RestrictItem ==
    ASSUME ItemType, NEW r \in Run
    PROVE  /\ Restrict(item, Rows(r)) \in Snapshot
           /\ \A k \in DOMAIN Restrict(item, Rows(r)) : k[1] = r
<1>1. Rows(r) \in SUBSET Key /\ Rows(r) \subseteq DOMAIN item BY DEF ItemType, Rows
<1>2. Restrict(item, Rows(r)) \in [Rows(r) -> Row] BY <1>1 DEF Restrict, ItemType
<1>3. \A k \in Rows(r) : k[1] = r BY DEF Rows
<1> QED BY <1>1, <1>2, <1>3, SnapshotFacts

(* Deleting rows, and runs of which no row is left.                          *)
LEMMA FewerRows ==
    ASSUME Typed, NEW S, NEW gone \in SUBSET Run,
           item' = Without(item, S), run' = Without(run, gone), tab' = Detached(gone),
           \A k \in DOMAIN item \ S : k[1] \notin gone
    PROVE  TabType' /\ RunType' /\ ItemType'
<1>1. DOMAIN item' = DOMAIN item \ S /\ \A k \in DOMAIN item' : item'[k] = item[k]
  BY DEF Without, Restrict
<1>2. DOMAIN run' = DOMAIN run \ gone /\ \A r \in DOMAIN run' : run'[r] = run[r]
  BY DEF Without, Restrict
<1>3. IsFiniteSet(DOMAIN item') BY <1>1, FS_Subset DEF Typed, ItemType
<1>4. ItemType'
  <2>1. item' \in [DOMAIN item' -> Row] BY <1>1 DEF Typed, ItemType, Without, Restrict
  <2> QED BY <1>1, <1>2, <1>3, <2>1 DEF Typed, ItemType
<1>5. RunType'
  <2>1. run' \in [DOMAIN run' -> Status] BY <1>2 DEF Typed, RunType, Without, Restrict
  <2> QED BY <1>2, <2>1 DEF Typed, RunType
<1>6. TabType'
  <2>1. DOMAIN tab' = DOMAIN tab BY DEF Detached
  <2>2. tab' \in [DOMAIN tab -> DOMAIN run' \cup {NoRun}]
    BY <1>2 DEF Typed, TabType, Detached
  <2> QED BY <2>1, <2>2 DEF Typed, TabType
<1> QED BY <1>4, <1>5, <1>6

(* Statuses of runs.                                                         *)
LEMMA RunStatus ==
    ASSUME Typed, UNCHANGED tab, DOMAIN run' = DOMAIN run, run' \in [DOMAIN run -> Status]
    PROVE  TabType' /\ RunType'
BY DEF Typed, TabType, RunType

(* What a worker writes to the status of its run is a status.                *)
LEMMA SetStatusRun ==
    ASSUME RunType, NEW r, NEW s \in ActiveRun \cup Appendable \cup Terminal
    PROVE  DOMAIN SetStatus(r, s) = DOMAIN run /\ SetStatus(r, s) \in [DOMAIN run -> Status]
BY DEF RunType, SetStatus, Status

(* What a Stop writes to a run is a status.                                  *)
LEMMA StopRunRun ==
    ASSUME RunType, NEW r
    PROVE  DOMAIN StopRun(r) = DOMAIN run /\ StopRun(r) \in [DOMAIN run -> Status]
BY DEF RunType, StopRun, Status, ActiveRun

(* Statuses and marks of items.                                              *)
LEMMA ItemRewrite ==
    ASSUME ItemType, DOMAIN run' = DOMAIN run, DOMAIN item' = DOMAIN item,
           item' \in [DOMAIN item -> Row]
    PROVE  ItemType'
BY DEF ItemType

---------------------------------------------------------------------------
Base == Typed /\ Consistent

(* Reads leave the board alone and the requests typed.                       *)
LEMMA ReadsTyped ==
    ASSUME Base, NEW c \in Client,
           \/ CheckRun(c) \/ ReadAppend(c) \/ ReadUpdate(c) \/ ReadRemove(c)
           \/ StopForClear(c) \/ ReadTab(c)
    PROVE  Base' /\ UNCHANGED <<board, exec, worker>>
<1> USE BoardAssumption
<1>1. ASSUME NEW q \in Request, Reads(c, q), q.op = "run" => IsFiniteSet(q.slugs)
      PROVE  Base' /\ UNCHANGED <<board, exec, worker>>
  <2>1. ReqType' BY <1>1, ReadReq DEF Base, Typed, Reads
  <2>2. UNCHANGED <<tab, active, run, item, exec, worker>> BY <1>1 DEF Reads, board
  <2> QED BY <2>1, <2>2 DEF Base, Typed, TabType, RunType, ItemType, ExecType, WorkerType, Saw,
                            Consistent, board
<1>2. CASE CheckRun(c)
  <2>1. PICK p \in Package, t \in (DOMAIN tab \ {active}) \cup {ActiveTab} :
            Reads(c, [op |-> "run", run |-> p[1], tab |-> t, slugs |-> p[2], fresh |-> TRUE])
    BY <1>2 DEF CheckRun
  <2>2. p[1] \in Run /\ p[2] \in SUBSET Slug /\ IsFiniteSet(p[2]) OBVIOUS
  <2>3. t \in Tab \cup {ActiveTab} BY DEF Base, Typed, TabType
  <2>4. [op |-> "run", run |-> p[1], tab |-> t, slugs |-> p[2], fresh |-> TRUE] \in Request
    BY <2>2, <2>3 DEF Request
  <2> QED BY <1>1, <2>1, <2>2, <2>4
<1>3. CASE ReadAppend(c)
  <2>1. PICK k \in Key :
           /\ k[1] \in DOMAIN run
           /\ Reads(c, [op |-> "append", key |-> k, fresh |-> TRUE,
                        pos |-> 1 + Max({item[j].pos : j \in Rows(k[1])} \cup {0})])
    BY <1>3 DEF ReadAppend
  <2> DEFINE P == {item[j].pos : j \in Rows(k[1])}
  <2>2. IsFiniteSet(Rows(k[1])) BY FS_Subset DEF Base, Typed, ItemType, Rows
  <2>3. \A j \in Rows(k[1]) : item[j].pos \in Nat BY DEF Base, Typed, ItemType, Rows, Row
  <2>4. IsFiniteSet(P)
    <3> DEFINE f == [j \in Rows(k[1]) |-> item[j].pos]
    <3>1. f \in Surjection(Rows(k[1]), P) BY DEF Surjection
    <3> QED BY <3>1, <2>2, FS_Surjection
  <2>5. IsFiniteSet(P \cup {0}) BY <2>4, FS_AddElement
  <2>6. P \cup {0} \in SUBSET Nat /\ P \cup {0} # {} BY <2>3
  <2>7. Max(P \cup {0}) \in Nat BY <2>5, <2>6, FiniteMax
  <2>8. [op |-> "append", key |-> k, fresh |-> TRUE, pos |-> 1 + Max(P \cup {0})] \in Request
    BY <2>7 DEF Request
  <2> HIDE DEF P
  <2>9. Reads(c, [op |-> "append", key |-> k, fresh |-> TRUE, pos |-> 1 + Max(P \cup {0})])
    BY <2>1 DEF P
  <2> QED BY <1>1, <2>8, <2>9
<1>4. CASE ReadUpdate(c)
  <2>1. PICK k \in DOMAIN item, p \in Prompt :
           Reads(c, [op |-> "update", key |-> k, prompt |-> p, fresh |-> TRUE])
    BY <1>4 DEF ReadUpdate
  <2>2. [op |-> "update", key |-> k, prompt |-> p, fresh |-> TRUE] \in Request
    BY DEF Request, Base, Typed, ItemType
  <2> QED BY <1>1, <2>1, <2>2
<1>5. CASE ReadRemove(c)
  <2>1. PICK k \in DOMAIN item : Reads(c, [op |-> "remove", key |-> k, fresh |-> TRUE])
    BY <1>5 DEF ReadRemove
  <2>2. [op |-> "remove", key |-> k, fresh |-> TRUE] \in Request
    BY DEF Request, Base, Typed, ItemType
  <2> QED BY <1>1, <2>1, <2>2
<1>6. CASE StopForClear(c)
  <2>1. PICK r \in DOMAIN run :
           Reads(c, [op |-> "clear", run |-> r, fresh |-> TRUE,
                     stop |-> run[r].status \in ActiveRun])
    BY <1>6 DEF StopForClear
  <2>2. [op |-> "clear", run |-> r, fresh |-> TRUE, stop |-> run[r].status \in ActiveRun]
            \in Request
    BY DEF Request, Base, Typed, RunType
  <2> QED BY <1>1, <2>1, <2>2
<1>7. CASE ReadTab(c)
  <2>1. PICK t \in DOMAIN tab \ {DefaultTab} :
           Reads(c, [op |-> IF tab[t] = NoRun THEN "tab" ELSE "tab-rows", tab |-> t,
                     run |-> tab[t], fresh |-> TRUE])
    BY <1>7 DEF ReadTab
  <2>2. t \in Tab \ {DefaultTab} /\ tab[t] \in Run \cup {NoRun}
    BY DEF Base, Typed, TabType, RunType
  <2>3. [op |-> IF tab[t] = NoRun THEN "tab" ELSE "tab-rows", tab |-> t, run |-> tab[t],
         fresh |-> TRUE] \in Request
    BY <2>2 DEF Request
  <2> QED BY <1>1, <2>1, <2>3
<1> QED BY <1>2, <1>3, <1>4, <1>5, <1>6, <1>7

(* The request that a handler finds in its slot when it writes.              *)
LEMMA RequestShape ==
    ASSUME ReqType, NEW c \in Client
    PROVE  /\ req[c].op = "run" => /\ req[c].run \in Run /\ req[c].tab \in Tab \cup {ActiveTab}
                                   /\ req[c].slugs \in SUBSET Slug /\ IsFiniteSet(req[c].slugs)
                                   /\ req[c].fresh \in BOOLEAN
           /\ req[c].op = "append" => req[c].key \in Key /\ req[c].pos \in Nat \ {0}
           /\ req[c].op = "update" => /\ req[c].key \in Key /\ req[c].prompt \in Prompt
                                      /\ req[c].fresh \in BOOLEAN
           /\ req[c].op = "remove" => req[c].key \in Key
           /\ req[c].op = "clear" => req[c].run \in Run
           /\ req[c].op = "tab" => req[c].tab \in Tab \ {DefaultTab}
           /\ req[c].op = "tab-rows" => /\ req[c].tab \in Tab \ {DefaultTab}
                                        /\ req[c].run \in Run \cup {NoRun}
<1>1. req[c] \in Request BY DEF ReqType
<1>2. CASE req[c] \in RunRequest
  BY <1>2 DEF ReqType
<1>3. CASE req[c] \in AppendRequest
  BY <1>3
<1>4. CASE req[c] \in UpdateRequest
  BY <1>4
<1>5. CASE req[c] \in RemoveRequest BY <1>5
<1>6. CASE req[c] \in ClearRequest BY <1>6
<1>7. CASE req[c] \in TabRequest
  BY <1>7
<1>8. CASE req[c] = Idle BY <1>8 DEF Idle
<1> QED BY <1>1, <1>2, <1>3, <1>4, <1>5, <1>6, <1>7, <1>8 DEF Request

(* A refused write leaves the board alone.                                   *)
LEMMA RefuseTyped ==
    ASSUME Base, NEW c \in Client, Refuse(c)
    PROVE  Base' /\ UNCHANGED <<board, exec, worker>>
<1>1. Idle \in Request /\ Idle.op # "run" BY DEF Request, Idle
<1>2. ReqType' BY <1>1, ReadReq DEF Refuse, Base, Typed
<1> QED BY <1>2 DEF Refuse, board, Base, Typed, TabType, RunType, ItemType, ExecType, WorkerType,
                    Saw, Consistent

(* Storing a run keeps the tables typed and the tabs consistent.             *)
LEMMA StoreRunTyped ==
    ASSUME Base, NEW c \in Client, StoreRun(c)
    PROVE  Base'
<1> USE BoardAssumption
<1> DEFINE r == req[c].run
           t == IF req[c].tab = ActiveTab THEN active ELSE req[c].tab
           tabs == Assigned(t, r)
           kept == Kept(tabs, r)
           order == CHOOSE f \in [req[c].slugs -> 1 .. Cardinality(req[c].slugs)] : IsInjective(f)
           marks(k) == Marks("unchecked", ~req[c].fresh)
                       \cup Marks("unseen", worker[r].at \in {"loaded", "leave"})
                       \cup Marks("edited", k \in DOMAIN exec)
           new == {<<r, s>> : s \in req[c].slugs}
           old == {k \in DOMAIN item : k[1] \in kept \ {r}}
<1>1. Typed /\ Consistent /\ req[c].op = "run" BY DEF Base, StoreRun
<1>2. /\ r \in Run /\ req[c].slugs \in SUBSET Slug /\ IsFiniteSet(req[c].slugs)
      /\ req[c].fresh \in BOOLEAN
  BY <1>1, RequestShape DEF Typed
<1>3. CASE t \notin DOMAIN tab
  <2>1. Refuse(c) BY <1>3 DEF StoreRun
  <2> QED BY <2>1, RefuseTyped
<1>4. CASE t \in DOMAIN tab
  <2>1. /\ tab' = tabs
        /\ run' = [q \in kept |-> IF q = r THEN [status |-> "running", stop |-> FALSE] ELSE run[q]]
        /\ item' = [k \in old \cup new |-> IF k[1] = r THEN NewRow(marks(k), order[k[2]])
                                                       ELSE item[k]]
        /\ worker' = Spawned(r)
        /\ Done(c)
        /\ UNCHANGED <<active, exec>>
    BY <1>4 DEF StoreRun
  <2>2. order \in [req[c].slugs -> Nat \ {0}] BY <1>2, Numbering
  <2>3. /\ DOMAIN tabs = DOMAIN tab /\ tabs[t] = r
        /\ \A u \in DOMAIN tab : u # t => tabs[u] = IF tab[u] = r THEN NoRun ELSE tab[u]
    BY <1>4 DEF Assigned
  <2>4. r \in kept /\ kept \subseteq DOMAIN run \cup {r}
    BY <1>4, <2>3 DEF Kept, Shows
  <2>5. \A u \in DOMAIN tab : tabs[u] \in kept \cup {NoRun}
    BY <2>3, <2>4, <1>1 DEF Kept, Shows, Typed, TabType
  <2>6. TabType' BY <2>1, <2>3, <2>5, <1>1 DEF Typed, TabType, Assigned
  <2>7. RunType'
    <3>1. [status |-> "running", stop |-> FALSE] \in Status BY DEF Status, ActiveRun
    <3>2. \A q \in kept : run'[q] \in Status
      BY <2>1, <2>4, <3>1, <1>1 DEF Typed, RunType
    <3>3. run' \in [kept -> Status] BY <2>1, <3>2
    <3>4. kept \subseteq Run BY <2>4, <1>1, <1>2 DEF Typed, RunType
    <3> QED BY <3>3, <3>4 DEF RunType
  <2>8. ItemType'
    <3>1. new \subseteq Key BY <1>2 DEF Key
    <3>2. old \subseteq Key /\ old \subseteq DOMAIN item BY <1>1 DEF Typed, ItemType
    <3>3. IsFiniteSet(new)
      <4> DEFINE f == [s \in req[c].slugs |-> <<r, s>>]
      <4>1. f \in Surjection(req[c].slugs, new) BY DEF Surjection
      <4> QED BY <4>1, <1>2, FS_Surjection
    <3>4. IsFiniteSet(old) BY <3>2, <1>1, FS_Subset DEF Typed, ItemType
    <3>5. IsFiniteSet(old \cup new) BY <3>3, <3>4, FS_Union
    <3>6. ASSUME NEW k \in new PROVE item'[k] \in Row
      <4>1. k[1] = r /\ k[2] \in req[c].slugs OBVIOUS
      <4>2. item'[k] = NewRow(marks(k), order[k[2]]) BY <2>1, <4>1
      <4>3. order[k[2]] \in Nat \ {0} BY <4>1, <2>2
      <4>4. marks(k) \subseteq {"unchecked", "unseen", "edited", "reopened"} BY DEF Marks
      <4> HIDE DEF order, marks
      <4> QED BY <4>2, <4>3, <4>4 DEF NewRow, Row
    <3>7. ASSUME NEW k \in old PROVE item'[k] \in Row
      BY <2>1, <1>1 DEF Typed, ItemType
    <3>8. \A k \in new : k[1] = r OBVIOUS
    <3>9. DOMAIN item' = old \cup new /\ DOMAIN run' = kept BY <2>1
    <3>10. item' \in [DOMAIN item' -> Row] BY <2>1, <3>6, <3>7, <3>9
    <3>11. \A k \in DOMAIN item' : k[1] \in DOMAIN run' BY <3>8, <3>9, <2>4
    <3> QED BY <3>1, <3>2, <3>5, <3>9, <3>10, <3>11 DEF ItemType
  <2>9. ExecType' BY <2>1, <1>1 DEF Typed, ExecType
  <2>10. WorkerType' BY <2>1, <1>1, <1>2, WorkerSpawned DEF Typed
  <2>11. ReqType' BY <2>1, <1>1, WrittenReq DEF Typed
  <2>12. Consistent' BY <2>1, <2>3, <1>1, <1>2 DEF Consistent
  <2> QED BY <2>6, <2>7, <2>8, <2>9, <2>10, <2>11, <2>12 DEF Base, Typed
<1> QED BY <1>3, <1>4

(* Appending an item keeps the tables typed.                                 *)
LEMMA StoreAppendTyped ==
    ASSUME Base, NEW c \in Client, StoreAppend(c)
    PROVE  Base'
<1> USE BoardAssumption
<1> DEFINE k == req[c].key
           taken == k \in DOMAIN item \/ \E j \in Rows(k[1]) : item[j].pos = req[c].pos
           marks == {"unchecked"} \cup Marks("unseen", worker[k[1]].at \in {"loaded", "leave"})
                    \cup Marks("edited", k \in DOMAIN exec)
<1>1. Typed /\ Consistent /\ req[c].op = "append" BY DEF Base, StoreAppend
<1>2. k \in Key /\ req[c].pos \in Nat \ {0} /\ k[1] \in Run
  BY <1>1, RequestShape DEF Typed, Key
<1>3. CASE k[1] \notin DOMAIN run \/ taken
  <2>1. Refuse(c) BY <1>3 DEF StoreAppend
  <2> QED BY <2>1, RefuseTyped
<1>4. CASE ~(k[1] \notin DOMAIN run \/ taken)
  <2>1. /\ item' = Put(item, k, NewRow(marks, req[c].pos))
        /\ worker' = Spawned(k[1])
        /\ Done(c)
        /\ UNCHANGED <<tab, active, run, exec>>
    BY <1>4 DEF StoreAppend
  <2>2. NewRow(marks, req[c].pos) \in Row BY <1>2 DEF NewRow, Row, Marks
  <2>3. ItemType'
    <3>1. IsFiniteSet(DOMAIN item \cup {k}) BY <1>1, FS_AddElement DEF Typed, ItemType
    <3>2. DOMAIN item' = DOMAIN item \cup {k} BY <2>1 DEF Put
    <3> HIDE DEF marks
    <3>3. item' \in [DOMAIN item' -> Row]
      BY <2>1, <2>2, <1>1 DEF Put, Typed, ItemType
    <3> QED BY <3>1, <3>2, <3>3, <1>1, <1>2, <1>4, <2>1 DEF Typed, ItemType
  <2>4. WorkerType' BY <2>1, <1>1, <1>2, WorkerSpawned DEF Typed
  <2>5. ReqType' BY <2>1, <1>1, WrittenReq DEF Typed
  <2> QED BY <2>1, <2>3, <2>4, <2>5, <1>1
          DEF Base, Typed, TabType, RunType, ExecType, Consistent
<1> QED BY <1>3, <1>4

(* Updating an item keeps the tables typed.                                  *)
LEMMA StoreUpdateTyped ==
    ASSUME Base, NEW c \in Client, StoreUpdate(c)
    PROVE  Base'
<1> DEFINE k == req[c].key
<1>1. Typed /\ Consistent /\ req[c].op = "update" BY DEF Base, StoreUpdate
<1>2. k \in Key /\ req[c].prompt \in Prompt /\ k[1] \in Run
  BY <1>1, RequestShape DEF Typed, Key
<1>3. /\ item' = IF k \notin DOMAIN item THEN item
                 ELSE [item EXCEPT ![k].prompt = req[c].prompt,
                                   ![k].marks = @ \cup Marks("edited", ~req[c].fresh)]
      /\ worker' = Spawned(k[1]) /\ Done(c) /\ UNCHANGED <<tab, active, run, exec>>
  BY DEF StoreUpdate
<1>4. DOMAIN item' = DOMAIN item BY <1>3
<1>5. item' \in [DOMAIN item -> Row] BY <1>1, <1>2, <1>3 DEF Typed, ItemType, Row, Marks
<1>6. ItemType' BY <1>1, <1>3, <1>4, <1>5, ItemRewrite DEF Typed
<1>7. WorkerType' BY <1>3, <1>1, <1>2, WorkerSpawned DEF Typed
<1>8. ReqType' BY <1>3, <1>1, WrittenReq DEF Typed
<1> QED BY <1>1, <1>3, <1>6, <1>7, <1>8
        DEF Base, Typed, TabType, RunType, ExecType, Consistent

(* Tabs that stop showing deleted runs stay consistent.                      *)
LEMMA DetachedConsistent ==
    ASSUME Consistent, NEW gone, tab' = Detached(gone), active' = active
    PROVE  Consistent'
BY DEF Consistent, Detached

(* Deleting rows and runs keeps the tables typed.                            *)
LEMMA DeletesTyped ==
    ASSUME Base, NEW c \in Client,
           DeleteRow(c) \/ DeleteRows(c) \/ DeleteTabRows(c)
    PROVE  Base'
<1> USE BoardAssumption
<1>1. Typed /\ Consistent BY DEF Base
<1>2. ASSUME NEW S, NEW gone \in SUBSET Run,
             item' = Without(item, S), run' = Without(run, gone), tab' = Detached(gone),
             \A k \in DOMAIN item \ S : k[1] \notin gone,
             UNCHANGED <<active, exec, worker>>, ReqType'
      PROVE  Base'
  <2>1. TabType' /\ RunType' /\ ItemType' BY <1>1, <1>2, FewerRows
  <2>2. Consistent' BY <1>1, <1>2, DetachedConsistent
  <2> QED BY <1>1, <1>2, <2>1, <2>2 DEF Base, Typed, ExecType, WorkerType, Saw
<1>3. CASE DeleteRow(c)
  <2> DEFINE k == req[c].key
             gone == IF Rows(k[1]) \subseteq {k} THEN {k[1]} ELSE {}
  <2>1. /\ item' = Without(item, {k}) /\ run' = Without(run, gone) /\ tab' = Detached(gone)
        /\ Done(c) /\ UNCHANGED <<active, exec, worker>> /\ req[c].op = "remove"
    BY <1>3 DEF DeleteRow
  <2>2. k \in Key /\ k[1] \in Run BY <1>1, <2>1, RequestShape DEF Typed, Key
  <2>3. gone \in SUBSET Run BY <2>2
  <2>4. \A j \in DOMAIN item \ {k} : j[1] \notin gone BY DEF Rows
  <2>5. ReqType' BY <1>1, <2>1, WrittenReq DEF Typed
  <2> QED BY <1>2, <2>1, <2>3, <2>4, <2>5
<1>4. ASSUME NEW r \in Run \cup {NoRun}, DeletedRun(r), UNCHANGED <<active, exec, worker>>, ReqType'
      PROVE  Base'
  <2>1. CASE r \in Run
    <3>1. \A k \in DOMAIN item \ Rows(r) : k[1] \notin {r} BY DEF Rows
    <3> QED BY <1>2, <1>4, <2>1, <3>1 DEF DeletedRun
  <2>2. CASE r \notin Run
    <3>1. r \notin DOMAIN run BY <1>1, <2>2 DEF Typed, RunType
    <3>2. Rows(r) = {} BY <1>1, <3>1 DEF Rows, Typed, ItemType
    <3>3. run' = Without(run, {}) /\ item' = Without(item, {})
      BY <1>4, <3>1, <3>2 DEF DeletedRun, Without, Restrict
    <3>4. tab' = Detached({})
      <4>1. r = NoRun BY <2>2
      <4> QED BY <1>4, <4>1 DEF DeletedRun, Detached
    <3> QED BY <1>2, <1>4, <3>3, <3>4
  <2> QED BY <2>1, <2>2
<1>5. CASE DeleteRows(c)
  <2>1. /\ DeletedRun(req[c].run) /\ Done(c) /\ UNCHANGED <<active, exec, worker>>
        /\ req[c].op = "clear"
    BY <1>5 DEF DeleteRows
  <2>2. req[c].run \in Run BY <1>1, <2>1, RequestShape DEF Typed
  <2>3. ReqType' BY <1>1, <2>1, WrittenReq DEF Typed
  <2> QED BY <1>4, <2>1, <2>2, <2>3
<1>6. CASE DeleteTabRows(c)
  <2>1. /\ DeletedRun(req[c].run) /\ UNCHANGED <<active, exec, worker>> /\ req[c].op = "tab-rows"
    BY <1>6 DEF DeleteTabRows
  <2>2. req[c].run \in Run \cup {NoRun} BY <1>1, <2>1, RequestShape DEF Typed
  <2>3. ReqType' BY <1>1, <1>6, WrittenReq DEF Typed
  <2> QED BY <1>4, <2>1, <2>2, <2>3
<1> QED BY <1>3, <1>5, <1>6

(* Stopping a run before it is cleared keeps the tables typed.               *)
LEMMA ClearStopsTyped ==
    ASSUME Base, NEW c \in Client, ClearStops(c)
    PROVE  Base'
<1>1. Typed /\ Consistent BY DEF Base
<1>2. run' = StopRun(req[c].run) /\ UNCHANGED <<tab, active, item, exec, worker>>
  BY DEF ClearStops
<1>3. DOMAIN run' = DOMAIN run /\ run' \in [DOMAIN run -> Status]
  BY <1>1, <1>2, StopRunRun DEF Typed
<1>4. TabType' /\ RunType' BY <1>1, <1>2, <1>3, RunStatus
<1>5. ReqType' BY <1>1, WrittenReq DEF Typed
<1> QED BY <1>1, <1>2, <1>3, <1>4, <1>5
        DEF Base, Typed, ItemType, ExecType, WorkerType, Saw, Consistent

(* Deleting a tab keeps an active tab, and the default tab.                  *)
LEMMA DeleteTabTyped ==
    ASSUME Base, NEW c \in Client, DeleteTab(c)
    PROVE  Base'
<1> USE BoardAssumption
<1> DEFINE t == req[c].tab
<1>1. Typed /\ Consistent BY DEF Base
<1>2. req[c].op = "tab" /\ t # DefaultTab
  <2>1. req[c].op = "tab" BY DEF DeleteTab
  <2> QED BY <2>1, <1>1, RequestShape DEF Typed
<1>3. CASE t \notin DOMAIN tab
  <2>1. Refuse(c) BY <1>3 DEF DeleteTab
  <2> QED BY <2>1, RefuseTyped
<1>4. CASE t \in DOMAIN tab
  <2>1. /\ tab' = Without(tab, {t})
        /\ IF active = t THEN active' \in Fallbacks(DOMAIN tab \ {t}) ELSE UNCHANGED active
        /\ Done(c) /\ UNCHANGED <<run, item, exec, worker>>
    BY <1>4 DEF DeleteTab
  <2>2. DOMAIN tab' = DOMAIN tab \ {t} /\ \A u \in DOMAIN tab' : tab'[u] = tab[u]
    BY <2>1 DEF Without, Restrict
  <2>3. TabType'
    <3>1. tab' \in [DOMAIN tab' -> DOMAIN run \cup {NoRun}]
      BY <2>1, <2>2, <1>1 DEF Typed, TabType, Without, Restrict
    <3> QED BY <3>1, <2>1, <2>2, <1>1 DEF Typed, TabType
  <2>4. active' \in DOMAIN tab'
    <3>1. CASE active = t
      <4>1. \A T : DefaultTab \in T => Fallbacks(T) \subseteq T BY DEF Fallbacks
      <4>2. DefaultTab \in DOMAIN tab \ {t} BY <1>1, <1>2 DEF Consistent
      <4> QED BY <4>1, <4>2, <3>1, <2>1, <2>2
    <3>2. CASE active # t BY <3>2, <2>1, <2>2, <1>1 DEF Consistent
    <3> QED BY <3>1, <3>2
  <2>5. Consistent' BY <2>2, <2>4, <1>1, <1>2 DEF Consistent
  <2>6. ReqType' BY <1>1, <2>1, WrittenReq DEF Typed
  <2> QED BY <1>1, <2>1, <2>3, <2>5, <2>6
          DEF Base, Typed, RunType, ItemType, ExecType, WorkerType, Saw
<1> QED BY <1>3, <1>4

(* The requests that are one transaction keep the tables typed.              *)
LEMMA OneTransactionTyped ==
    ASSUME Base, CreateTab \/ SwitchTab \/ Stop \/ Continue
    PROVE  Base'
<1> USE BoardAssumption
<1>1. Typed /\ Consistent BY DEF Base
<1>2. ReqType'
  <2>1. req' = Disturbed BY DEF CreateTab, SwitchTab, Stop, Continue, AtOnce
  <2> QED BY <1>1, <2>1, WrittenReq DEF Typed
<1>3. CASE CreateTab
  <2>1. PICK t \in Tab \ DOMAIN tab : tab' = Put(tab, t, NoRun) /\ active' = t
    BY <1>3 DEF CreateTab
  <2>2. /\ DOMAIN tab' = DOMAIN tab \cup {t}
        /\ \A u \in DOMAIN tab' : tab'[u] = IF u = t THEN NoRun ELSE tab[u]
    BY <2>1 DEF Put
  <2>3. UNCHANGED <<run, item, exec, worker>> BY <1>3 DEF CreateTab
  <2>4. tab' \in [DOMAIN tab' -> DOMAIN run \cup {NoRun}]
    BY <2>1, <1>1 DEF Put, Typed, TabType
  <2>5. TabType' BY <2>1, <2>2, <2>3, <2>4, <1>1 DEF Typed, TabType
  <2>6. Consistent' BY <2>1, <2>2, <1>1 DEF Consistent
  <2> QED BY <1>1, <1>2, <2>3, <2>5, <2>6
          DEF Base, Typed, RunType, ItemType, ExecType, WorkerType, Saw
<1>4. CASE SwitchTab
  BY <1>1, <1>2, <1>4 DEF SwitchTab, Base, Typed, TabType, RunType, ItemType, ExecType,
                          WorkerType, Saw, Consistent
<1>5. CASE Stop
  <2>1. PICK r \in DOMAIN run : run' = StopRun(r) BY <1>5 DEF Stop
  <2>2. UNCHANGED <<tab, active, item, exec, worker>> BY <1>5 DEF Stop
  <2>3. DOMAIN run' = DOMAIN run /\ run' \in [DOMAIN run -> Status]
    BY <1>1, <2>1, StopRunRun DEF Typed
  <2>4. TabType' /\ RunType' BY <1>1, <2>2, <2>3, RunStatus
  <2> QED BY <1>1, <1>2, <2>2, <2>3, <2>4
          DEF Base, Typed, ItemType, ExecType, WorkerType, Saw, Consistent
<1>6. CASE Continue
  <2>1. PICK r \in DOMAIN run :
           /\ run' = [run EXCEPT ![r] = [status |-> "running", stop |-> FALSE]]
           /\ item' = [k \in DOMAIN item |-> IF k[1] = r /\ item[k].status = "stopped"
                                             THEN [item[k] EXCEPT !.status = "pending"] ELSE item[k]]
           /\ worker' = Spawned(r)
    BY <1>6 DEF Continue
  <2>2. UNCHANGED <<tab, active, exec>> BY <1>6 DEF Continue
  <2>3. r \in Run BY <1>1 DEF Typed, RunType
  <2>4. DOMAIN run' = DOMAIN run /\ run' \in [DOMAIN run -> Status]
    BY <1>1, <2>1 DEF Typed, RunType, Status, ActiveRun
  <2>5. TabType' /\ RunType' BY <1>1, <2>2, <2>4, RunStatus
  <2>6. DOMAIN item' = DOMAIN item /\ item' \in [DOMAIN item -> Row]
    BY <1>1, <2>1 DEF Typed, ItemType, Row
  <2>7. ItemType' BY <1>1, <2>4, <2>6, ItemRewrite DEF Typed
  <2>8. WorkerType' BY <1>1, <2>1, <2>3, WorkerSpawned DEF Typed
  <2> QED BY <1>1, <1>2, <2>2, <2>5, <2>7, <2>8 DEF Base, Typed, ExecType, Consistent
<1> QED BY <1>3, <1>4, <1>5, <1>6

(* The run workers keep the tables typed.                                    *)
LEMMA WorkerTyped ==
    ASSUME Base, NEW r \in Run, WorkerStep(r) \/ Resume(r)
    PROVE  Base'
<1>1. Typed /\ Consistent BY DEF Base
<1>2. ASSUME Writes PROVE ReqType' /\ UNCHANGED <<tab, active>>
  BY <1>1, <1>2, WrittenReq DEF Typed, Writes
<1>3. ASSUME NEW s \in {"running", "failed", "success", "stopped"},
             run' = SetStatus(r, s), UNCHANGED tab
      PROVE  TabType' /\ RunType' /\ DOMAIN run' = DOMAIN run
  <2>1. s \in ActiveRun \cup Appendable \cup Terminal BY DEF ActiveRun, Appendable, Terminal
  <2>2. DOMAIN run' = DOMAIN run /\ run' \in [DOMAIN run -> Status]
    BY <1>1, <1>3, <2>1, SetStatusRun DEF Typed
  <2> QED BY <1>1, <1>3, <2>2, RunStatus
<1>4. CASE WorkerStarts(r)
  <2>1. run' = SetStatus(r, "running") /\ Moves(r, "loop") /\ Writes /\ UNCHANGED <<item, exec>>
    BY <1>4 DEF WorkerStarts
  <2>2. WorkerType' BY <1>1, <2>1, WorkerMoves DEF Typed, At
  <2>3. TabType' /\ RunType' /\ DOMAIN run' = DOMAIN run BY <1>2, <1>3, <2>1
  <2> QED BY <1>1, <1>2, <2>1, <2>2, <2>3 DEF Base, Typed, ItemType, ExecType, Consistent
<1>5. CASE WorkerLoads(r)
  <2>1. WorkerType'
    <3>1. CASE r \in DOMAIN run
      BY <1>1, <1>5, <3>1, RestrictItem, WorkerSet DEF WorkerLoads, Typed, At
    <3>2. CASE r \notin DOMAIN run
      BY <1>1, <1>5, <3>2, WorkerMoves DEF WorkerLoads, Typed, At
    <3> QED BY <3>1, <3>2
  <2> QED BY <1>1, <1>5, <2>1 DEF WorkerLoads, board, Base, Typed, TabType, RunType, ItemType,
                                  ExecType, ReqType, Consistent
<1>6. CASE WorkerEnds(r)
  <2>1. /\ run' = SetStatus(r, IF SawFailure(r) THEN "failed" ELSE "success")
        /\ Moves(r, "leave") /\ Writes /\ UNCHANGED <<item, exec>>
    BY <1>6 DEF WorkerEnds
  <2>2. WorkerType' BY <1>1, <2>1, WorkerMoves DEF Typed, At
  <2>3. TabType' /\ RunType' /\ DOMAIN run' = DOMAIN run BY <1>2, <1>3, <2>1
  <2> QED BY <1>1, <1>2, <2>1, <2>2, <2>3 DEF Base, Typed, ItemType, ExecType, Consistent
<1>7. CASE WorkerStops(r)
  <2>1. /\ item' = [k \in DOMAIN item |->
                      IF k \in DOMAIN Saw(r) \ DOMAIN exec /\ Saw(r)[k].status # "success"
                      THEN Stopped(item[k]) ELSE item[k]]
        /\ run' = SetStatus(r, "stopped")
        /\ Moves(r, "leave") /\ Writes /\ UNCHANGED exec
    BY <1>7 DEF WorkerStops
  <2>2. WorkerType' BY <1>1, <2>1, WorkerMoves DEF Typed, At
  <2>3. TabType' /\ RunType' /\ DOMAIN run' = DOMAIN run BY <1>2, <1>3, <2>1
  <2>4. \A row \in Row : Stopped(row) \in Row BY DEF Row, Stopped, Marks
  <2>5. DOMAIN item' = DOMAIN item /\ item' \in [DOMAIN item -> Row]
    BY <1>1, <2>1, <2>4 DEF Typed, ItemType
  <2>6. ItemType' BY <1>1, <2>3, <2>5, ItemRewrite DEF Typed
  <2> QED BY <1>1, <1>2, <2>1, <2>2, <2>3, <2>6 DEF Base, Typed, ExecType, Consistent
<1>8. CASE WorkerSpawns(r)
  <2>1. PICK K \in SUBSET {k \in DOMAIN Saw(r) \cap DOMAIN item :
                          /\ Saw(r)[k].status \notin Terminal /\ item[k].status \notin Terminal
                          /\ k \notin DOMAIN exec} :
          /\ exec' = [k \in DOMAIN exec \cup K |-> IF k \in K THEN Saw(r)[k].prompt ELSE exec[k]]
          /\ item' = [k \in DOMAIN item |->
                        IF k \in K /\ item[k].prompt # Saw(r)[k].prompt
                        THEN [item[k] EXCEPT !.marks = @ \cup {"edited"}] ELSE item[k]]
    BY <1>8 DEF WorkerSpawns
  <2>2. run' = SetStatus(r, "running") /\ Moves(r, "loop") /\ Writes
    BY <1>8 DEF WorkerSpawns
  <2>3. WorkerType' BY <1>1, <2>2, WorkerMoves DEF Typed, At
  <2>4. TabType' /\ RunType' /\ DOMAIN run' = DOMAIN run BY <1>2, <1>3, <2>2
  <2>5. DOMAIN item' = DOMAIN item /\ item' \in [DOMAIN item -> Row]
    BY <1>1, <2>1 DEF Typed, ItemType, Row
  <2>6. ItemType' BY <1>1, <2>4, <2>5, ItemRewrite DEF Typed
  <2>7. ExecType'
    <3>1. Saw(r) \in Snapshot BY <1>1 DEF Typed, WorkerType, Saw
    <3>2. \A k \in K : k \in Key /\ Saw(r)[k] \in Row /\ Saw(r)[k].prompt \in Prompt
      BY <3>1, SnapshotFacts DEF Row
    <3>3. DOMAIN exec' = DOMAIN exec \cup K BY <2>1
    <3>4. exec' \in [DOMAIN exec' -> Prompt] BY <1>1, <2>1, <3>2, <3>3 DEF Typed, ExecType
    <3> QED BY <1>1, <3>2, <3>3, <3>4 DEF Typed, ExecType
  <2> QED BY <1>1, <1>2, <2>2, <2>3, <2>4, <2>6, <2>7 DEF Base, Typed, Consistent
<1>9. CASE WorkerLeaves(r)
  <2>1. WorkerType' BY <1>1, <1>9, WorkerMoves DEF WorkerLeaves, Typed, At
  <2> QED BY <1>1, <1>9, <2>1 DEF WorkerLeaves, board, Base, Typed, TabType, RunType, ItemType,
                                  ExecType, ReqType, Consistent
<1>10. CASE Resume(r)
  <2>1. WorkerType' BY <1>1, <1>10, WorkerSpawned DEF Resume, Typed
  <2> QED BY <1>1, <1>10, <2>1 DEF Resume, board, Base, Typed, TabType, RunType, ItemType,
                                   ExecType, ReqType, Consistent
<1> QED BY <1>4, <1>5, <1>6, <1>7, <1>8, <1>9, <1>10 DEF WorkerStep

(* The item workers keep the tables typed.                                   *)
LEMMA ItemTyped ==
    ASSUME Base, NEW k \in Key,
           ItemRuns(k) \/ ItemStops(k) \/ \E s \in Terminal : ItemEnds(k, s)
    PROVE  Base'
<1>1. Typed /\ Consistent BY DEF Base
<1>2. Writes /\ UNCHANGED <<run, worker>> BY DEF ItemRuns, ItemStops, ItemEnds
<1>3. ReqType' /\ UNCHANGED <<tab, active>> BY <1>1, <1>2, WrittenReq DEF Typed, Writes
<1>4. \E s \in {"running", "stopped"} \cup Terminal : item' = SetItem(k, s)
  BY DEF ItemRuns, ItemStops, ItemEnds
<1>5. DOMAIN item' = DOMAIN item /\ item' \in [DOMAIN item -> Row]
  BY <1>1, <1>4 DEF SetItem, Typed, ItemType, Row
<1>6. ItemType' BY <1>1, <1>2, <1>5, ItemRewrite DEF Typed
<1>7. ExecType'
  <2>1. CASE UNCHANGED exec BY <1>1, <2>1 DEF Typed, ExecType
  <2>2. CASE exec' = Without(exec, {k})
    BY <1>1, <2>2 DEF Typed, ExecType, Without, Restrict
  <2> QED BY <2>1, <2>2 DEF ItemRuns, ItemStops, ItemEnds
<1> QED BY <1>1, <1>2, <1>3, <1>6, <1>7
        DEF Base, Typed, TabType, RunType, WorkerType, Saw, Consistent

(* Every step keeps the types and the consistency of the tabs.               *)
LEMMA BaseStep == ASSUME Base, [Next]_vars PROVE Base'
<1>1. CASE UNCHANGED vars
  BY <1>1 DEF vars, Base, Typed, TabType, RunType, ItemType, ExecType, WorkerType, Saw, ReqType,
              Consistent
<1>2. ASSUME NEW c \in Client, Write(c) PROVE Base'
  BY <1>2, StoreRunTyped, StoreAppendTyped, StoreUpdateTyped, DeletesTyped, ClearStopsTyped,
     DeleteTabTyped DEF Write
<1> QED BY <1>1, <1>2, ReadsTyped, OneTransactionTyped, WorkerTyped, ItemTyped DEF Next

(* The tables refer to rows that exist, whatever the requests interleave.    *)
THEOREM TypeCorrect == Spec => []TypeOK
<1>1. Init => Base BY InitTyped DEF Base
<1>2. Base /\ [Next]_vars => Base' BY BaseStep
<1>3. Base => TypeOK
  BY DEF Base, Typed, TabType, RunType, ItemType, ExecType, WorkerType, TypeOK
<1> QED BY <1>1, <1>2, <1>3, PTL DEF Spec

---------------------------------------------------------------------------
(* What makes the race properties inductive.                                 *)
FreshChecked ==
    \A c \in Client : req[c].op = "run" /\ req[c].fresh => ConflictFree(req[c].run, req[c].slugs)
FreshEditable ==
    \A c \in Client : req[c].op = "update" /\ req[c].fresh => req[c].key \notin DOMAIN exec
StartedUnfinished == \A k \in DOMAIN exec \cap DOMAIN item : item[k].status \notin Terminal
LookedAt(r) ==
    /\ r \in DOMAIN run /\ worker[r].at \in {"loop", "loaded"} => run[r].status # "success"
    /\ \A k \in DOMAIN item : k[1] = r /\ item[k].status # "success" =>
         /\ worker[r].at = "loaded" => \/ "unseen" \in item[k].marks
                                       \/ k \in DOMAIN Saw(r) /\ Saw(r)[k].status # "success"
         /\ worker[r].at \in {"leave", "off"} /\ run[r].status = "success"
            => "unseen" \in item[k].marks
Looked == \A r \in Run : LookedAt(r)

BoardInv ==
    /\ Base /\ FreshChecked /\ FreshEditable /\ StartedUnfinished /\ Looked
    /\ UnfinishedTaskInOneRun /\ StartedItemKeepsItsPlan

(* The inductive invariant holds at the start: nothing is stored or read.    *)
LEMMA InitBoard == Init => BoardInv
<1> SUFFICES ASSUME Init PROVE BoardInv OBVIOUS
<1>1. Base BY InitTyped DEF Base
<1>2. DOMAIN item = {} /\ DOMAIN run = {} /\ DOMAIN exec = {} BY NoRows DEF Init
<1>3. \A c \in Client : req[c].op \notin {"run", "update"} BY DEF Init, Idle
<1> QED BY <1>1, <1>2, <1>3 DEF BoardInv, FreshChecked, FreshEditable, StartedUnfinished, Looked,
           LookedAt, UnfinishedTaskInOneRun, StartedItemKeepsItsPlan

(* Whoever writes to the board leaves no request fresh; reads are of the     *)
(* board as it is.                                                           *)
LEMMA FreshStep ==
    ASSUME BoardInv, Next
    PROVE  FreshChecked' /\ FreshEditable'
<1>1. ReqType /\ FreshChecked /\ FreshEditable BY DEF BoardInv, Base, Typed
<1>2. ASSUME NoneFresh' PROVE FreshChecked' /\ FreshEditable'
  BY <1>2 DEF NoneFresh, FreshChecked, FreshEditable
<1>3. ASSUME UNCHANGED <<board, exec>>, NEW c \in Client, NEW q, req' = [req EXCEPT ![c] = q],
             q.op = "run" => ConflictFree(q.run, q.slugs),
             q.op = "update" => q.key \notin DOMAIN exec
      PROVE  FreshChecked' /\ FreshEditable'
  <2>1. UNCHANGED <<tab, item, exec>> BY <1>3 DEF board
  <2>2. \A r, S : ConflictFree(r, S)' <=> ConflictFree(r, S)
    BY <2>1 DEF ConflictFree, Shown
  <2>3. \A d \in Client : req'[d] = IF d = c THEN q ELSE req[d] BY <1>1, <1>3 DEF ReqType
  <2> QED BY <1>1, <1>3, <2>1, <2>2, <2>3 DEF FreshChecked, FreshEditable
<1>4. ASSUME UNCHANGED <<board, exec, req>> PROVE FreshChecked' /\ FreshEditable'
  BY <1>1, <1>4 DEF board, FreshChecked, FreshEditable, ConflictFree, Shown
<1>5. ASSUME NEW c \in Client, Refuse(c) PROVE FreshChecked' /\ FreshEditable'
  BY <1>3, <1>5 DEF Refuse, Idle
<1>6. ASSUME NEW c \in Client, Write(c) PROVE FreshChecked' /\ FreshEditable'
  <2>1. Refuse(c) \/ Done(c) \/ ClearStops(c) \/ DeleteTabRows(c)
    BY <1>6 DEF Write, StoreRun, StoreAppend, StoreUpdate, DeleteRow, DeleteRows, DeleteTab
  <2> QED BY <1>1, <1>2, <1>5, <2>1, WrittenReq
<1>7. ASSUME NEW c \in Client, CheckRun(c) PROVE FreshChecked' /\ FreshEditable'
  BY <1>3, <1>7 DEF CheckRun, Reads
<1>8. ASSUME NEW c \in Client, ReadUpdate(c) PROVE FreshChecked' /\ FreshEditable'
  BY <1>3, <1>8 DEF ReadUpdate, Reads, Editable
<1>9. ASSUME NEW c \in Client, ReadAppend(c) \/ ReadRemove(c) \/ StopForClear(c) \/ ReadTab(c)
      PROVE  FreshChecked' /\ FreshEditable'
  BY <1>3, <1>9 DEF ReadAppend, ReadRemove, StopForClear, ReadTab, Reads
<1>10. ASSUME req' = Disturbed PROVE FreshChecked' /\ FreshEditable'
  BY <1>1, <1>2, <1>10, WrittenReq
<1>11. ASSUME CreateTab \/ SwitchTab \/ Stop \/ Continue PROVE req' = Disturbed
  BY <1>11 DEF CreateTab, SwitchTab, Stop, Continue, AtOnce
<1>12. ASSUME NEW r \in Run, WorkerStep(r) \/ Resume(r)
       PROVE  req' = Disturbed \/ UNCHANGED <<board, exec, req>>
  BY <1>12 DEF WorkerStep, WorkerStarts, WorkerLoads, WorkerEnds, WorkerStops, WorkerSpawns,
               WorkerLeaves, Resume, Writes
<1>13. ASSUME NEW k \in Key, ItemRuns(k) \/ ItemStops(k) \/ \E s \in Terminal : ItemEnds(k, s)
       PROVE  req' = Disturbed
  BY <1>13 DEF ItemRuns, ItemStops, ItemEnds, Writes
<1> QED BY <1>4, <1>6, <1>7, <1>8, <1>9, <1>10, <1>11, <1>12, <1>13 DEF Next

---------------------------------------------------------------------------
(* What a step does to the rows that were there: marks stay, success stays   *)
(* or is marked, and an item that runs is not terminal and keeps its prompt, *)
(* or is marked.                                                             *)
RowKept(k) ==
    /\ item[k].marks \subseteq item'[k].marks
    /\ item[k].status = "success" => item'[k].status = "success" \/ "reopened" \in item'[k].marks
    /\ k \in DOMAIN exec' => item'[k].status \notin Terminal
    /\ k \in DOMAIN exec' /\ exec'[k] # item'[k].prompt => "edited" \in item'[k].marks
RowsKept ==
    /\ DOMAIN item' \subseteq DOMAIN item
    /\ \A k \in DOMAIN item' : RowKept(k)
    /\ \A r \in Run : Shown(r)' => Shown(r)

(* A step that leaves tabs, rows and item workers alone keeps the rows.      *)
LEMMA SameRows ==
    ASSUME BoardInv, UNCHANGED <<tab, item, exec>>
    PROVE  RowsKept
BY DEF BoardInv, StartedUnfinished, StartedItemKeepsItsPlan, RowsKept, RowKept, Shown

(* Deleting rows, and runs from the tabs.                                    *)
LEMMA FewerKept ==
    ASSUME BoardInv, UNCHANGED exec, NEW S, item' = Without(item, S),
           NEW gone, tab' = Detached(gone)
    PROVE  RowsKept
<1> USE BoardAssumption
<1>1. DOMAIN item' \subseteq DOMAIN item /\ \A k \in DOMAIN item' : item'[k] = item[k]
  BY DEF Without, Restrict
<1>2. \A r \in Run : Shown(r)' => Shown(r) BY DEF Shown, Shows, Detached
<1> QED BY <1>1, <1>2
        DEF BoardInv, StartedUnfinished, StartedItemKeepsItsPlan, RowsKept, RowKept

(* A step that only rewrites rows keeps them if it keeps each.               *)
LEMMA RewrittenRows ==
    ASSUME UNCHANGED tab, DOMAIN item' = DOMAIN item, \A k \in DOMAIN item : RowKept(k)
    PROVE  RowsKept
BY DEF RowsKept, Shown

(* Updates and deletions keep the rows.                                      *)
LEMMA WritesKeepRows ==
    ASSUME BoardInv, NEW c \in Client,
           StoreUpdate(c) \/ DeleteRow(c) \/ ClearStops(c) \/ DeleteRows(c) \/ DeleteTabRows(c)
           \/ DeleteTab(c)
    PROVE  RowsKept
<1> USE BoardAssumption
<1>1. CASE StoreUpdate(c)
  <2> DEFINE k == req[c].key
  <2>1. /\ item' = IF k \notin DOMAIN item THEN item
                   ELSE [item EXCEPT ![k].prompt = req[c].prompt,
                                     ![k].marks = @ \cup Marks("edited", ~req[c].fresh)]
        /\ UNCHANGED <<tab, exec>> /\ req[c].op = "update"
    BY <1>1 DEF StoreUpdate
  <2>2. CASE k \notin DOMAIN item BY <2>1, <2>2, SameRows
  <2>3. CASE k \in DOMAIN item
    <3>1. /\ DOMAIN item' = DOMAIN item
          /\ \A j \in DOMAIN item : j # k => item'[j] = item[j]
      BY <2>1, <2>3
    <3>2. item[k] \in Row BY <2>3 DEF BoardInv, Base, Typed, ItemType
    <3>3. /\ item'[k].status = item[k].status
          /\ item'[k].marks = item[k].marks \cup Marks("edited", ~req[c].fresh)
      BY <2>1, <2>3, <3>2 DEF Row
    <3>4. k \in DOMAIN exec => "edited" \in item'[k].marks
      BY <2>1, <3>3 DEF BoardInv, FreshEditable, Marks
    <3>5. \A j \in DOMAIN item : RowKept(j)
      BY <2>1, <3>1, <3>3, <3>4
         DEF BoardInv, StartedUnfinished, StartedItemKeepsItsPlan, RowKept
    <3> QED BY <2>1, <3>1, <3>5, RewrittenRows
  <2> QED BY <2>2, <2>3
<1>2. CASE DeleteRow(c) BY <1>2, FewerKept DEF DeleteRow
<1>3. CASE ClearStops(c) BY <1>3, SameRows DEF ClearStops
<1>4. CASE DeleteRows(c) BY <1>4, FewerKept DEF DeleteRows, DeletedRun
<1>5. CASE DeleteTabRows(c) BY <1>5, FewerKept DEF DeleteTabRows, DeletedRun
<1>6. CASE DeleteTab(c)
  <2>1. CASE Refuse(c) BY <2>1, SameRows DEF Refuse, board
  <2>2. CASE tab' = Without(tab, {req[c].tab}) /\ UNCHANGED <<run, item, exec, worker>>
    <3>1. \A r \in Run : Shown(r)' => Shown(r)
      BY <2>2 DEF Shown, Shows, Without, Restrict
    <3> QED BY <2>2, <3>1
            DEF BoardInv, StartedUnfinished, StartedItemKeepsItsPlan, RowsKept, RowKept
  <2> QED BY <1>6, <2>1, <2>2 DEF DeleteTab
<1> QED BY <1>1, <1>2, <1>3, <1>4, <1>5, <1>6

(* The requests that are one transaction keep the rows.                      *)
LEMMA OneTransactionKeepsRows ==
    ASSUME BoardInv, CreateTab \/ SwitchTab \/ Stop \/ Continue
    PROVE  RowsKept
<1> USE BoardAssumption
<1>1. CASE CreateTab
  <2>1. PICK t \in Tab \ DOMAIN tab : tab' = Put(tab, t, NoRun) BY <1>1 DEF CreateTab
  <2>2. \A r \in Run : Shown(r)' => Shown(r) BY <2>1 DEF Shown, Shows, Put
  <2>3. UNCHANGED <<item, exec>> BY <1>1 DEF CreateTab
  <2> QED BY <2>2, <2>3
          DEF BoardInv, StartedUnfinished, StartedItemKeepsItsPlan, RowsKept, RowKept
<1>2. CASE SwitchTab BY <1>2, SameRows DEF SwitchTab
<1>3. CASE Stop BY <1>3, SameRows DEF Stop
<1>4. CASE Continue
  <2>1. PICK r \in DOMAIN run :
           item' = [k \in DOMAIN item |-> IF k[1] = r /\ item[k].status = "stopped"
                                          THEN [item[k] EXCEPT !.status = "pending"] ELSE item[k]]
    BY <1>4 DEF Continue
  <2>2. UNCHANGED <<tab, exec>> BY <1>4 DEF Continue
  <2>3. ASSUME NEW k \in DOMAIN item PROVE RowKept(k)
    <3>1. item[k] \in Row BY DEF BoardInv, Base, Typed, ItemType
    <3>2. /\ item'[k].marks = item[k].marks /\ item'[k].prompt = item[k].prompt
          /\ \/ item'[k].status = item[k].status
             \/ item[k].status = "stopped" /\ item'[k].status = "pending"
      BY <2>1, <3>1 DEF Row
    <3> QED BY <2>2, <3>2
            DEF BoardInv, StartedUnfinished, StartedItemKeepsItsPlan, RowKept, Terminal
  <2> QED BY <2>1, <2>2, <2>3, RewrittenRows
<1> QED BY <1>1, <1>2, <1>3, <1>4

(* The run workers keep the rows.                                            *)
LEMMA WorkerKeepsRows ==
    ASSUME BoardInv, NEW r \in Run, WorkerStep(r) \/ Resume(r)
    PROVE  RowsKept
<1>1. CASE WorkerStarts(r) \/ WorkerLoads(r) \/ WorkerEnds(r) \/ WorkerLeaves(r) \/ Resume(r)
  BY <1>1, SameRows DEF WorkerStarts, WorkerLoads, WorkerEnds, WorkerLeaves, Resume, Writes, board
<1>2. CASE WorkerStops(r)
  <2>1. /\ item' = [k \in DOMAIN item |->
                      IF k \in DOMAIN Saw(r) \ DOMAIN exec /\ Saw(r)[k].status # "success"
                      THEN Stopped(item[k]) ELSE item[k]]
        /\ UNCHANGED <<tab, exec>>
    BY <1>2 DEF WorkerStops, Writes
  <2>2. ASSUME NEW k \in DOMAIN item PROVE RowKept(k)
    <3>1. item[k] \in Row BY DEF BoardInv, Base, Typed, ItemType
    <3>2. /\ Stopped(item[k]).prompt = item[k].prompt
          /\ item[k].marks \subseteq Stopped(item[k]).marks
          /\ item[k].status = "success" => "reopened" \in Stopped(item[k]).marks
      BY <3>1 DEF Row, Stopped, Marks
    <3>3. item'[k] = item[k] \/ (item'[k] = Stopped(item[k]) /\ k \notin DOMAIN exec)
      BY <2>1
    <3> QED BY <2>1, <3>2, <3>3
            DEF BoardInv, StartedUnfinished, StartedItemKeepsItsPlan, RowKept
  <2> QED BY <2>1, <2>2, RewrittenRows
<1>3. CASE WorkerSpawns(r)
  <2>1. PICK K \in SUBSET {k \in DOMAIN Saw(r) \cap DOMAIN item :
                          /\ Saw(r)[k].status \notin Terminal /\ item[k].status \notin Terminal
                          /\ k \notin DOMAIN exec} :
          /\ exec' = [k \in DOMAIN exec \cup K |-> IF k \in K THEN Saw(r)[k].prompt ELSE exec[k]]
          /\ item' = [k \in DOMAIN item |->
                        IF k \in K /\ item[k].prompt # Saw(r)[k].prompt
                        THEN [item[k] EXCEPT !.marks = @ \cup {"edited"}] ELSE item[k]]
    BY <1>3 DEF WorkerSpawns
  <2>2. UNCHANGED tab BY <1>3 DEF WorkerSpawns, Writes
  <2>3. ASSUME NEW k \in DOMAIN item PROVE RowKept(k)
    <3>1. item[k] \in Row BY DEF BoardInv, Base, Typed, ItemType
    <3>2. /\ item'[k].status = item[k].status /\ item'[k].prompt = item[k].prompt
          /\ item[k].marks \subseteq item'[k].marks
          /\ k \in K /\ item[k].prompt # Saw(r)[k].prompt => "edited" \in item'[k].marks
      BY <2>1, <3>1 DEF Row
    <3>3. CASE k \in K
      <4>1. exec'[k] = Saw(r)[k].prompt /\ item[k].status \notin Terminal BY <2>1, <3>3
      <4> QED BY <3>2, <3>3, <4>1 DEF RowKept
    <3>4. CASE k \notin K
      <4>1. k \in DOMAIN exec' => k \in DOMAIN exec /\ exec'[k] = exec[k] BY <2>1, <3>4
      <4> QED BY <3>2, <4>1
              DEF BoardInv, StartedUnfinished, StartedItemKeepsItsPlan, RowKept
    <3> QED BY <3>3, <3>4
  <2> QED BY <2>1, <2>2, <2>3, RewrittenRows
<1> QED BY <1>1, <1>2, <1>3 DEF WorkerStep

(* The item workers keep the rows.                                           *)
LEMMA ItemKeepsRows ==
    ASSUME BoardInv, NEW k \in Key,
           ItemRuns(k) \/ ItemStops(k) \/ \E s \in Terminal : ItemEnds(k, s)
    PROVE  RowsKept
<1>1. UNCHANGED tab BY DEF ItemRuns, ItemStops, ItemEnds, Writes
<1>2. PICK s \in {"running", "stopped"} \cup Terminal :
         /\ item' = SetItem(k, s)
         /\ \/ UNCHANGED exec /\ s = "running"
            \/ exec' = Without(exec, {k})
  BY DEF ItemRuns, ItemStops, ItemEnds
<1>3. k \in DOMAIN exec BY DEF ItemRuns, ItemStops, ItemEnds
<1>4. DOMAIN item' = DOMAIN item /\ \A j \in DOMAIN item : j # k => item'[j] = item[j]
  BY <1>2 DEF SetItem
<1>5. ASSUME NEW j \in DOMAIN item PROVE RowKept(j)
  <2>1. item[j] \in Row BY DEF BoardInv, Base, Typed, ItemType
  <2>2. j \in DOMAIN exec' => j \in DOMAIN exec /\ exec'[j] = exec[j]
    BY <1>2 DEF Without, Restrict
  <2>3. CASE j # k
    BY <1>4, <2>2, <2>3 DEF BoardInv, StartedUnfinished, StartedItemKeepsItsPlan, RowKept
  <2>4. CASE j = k
    <3>1. /\ item'[j].marks = item[j].marks /\ item'[j].prompt = item[j].prompt
          /\ item'[j].status = s
      BY <1>2, <2>1, <2>4 DEF SetItem, Row
    <3>2. item[j].status \notin Terminal BY <1>3, <2>4 DEF BoardInv, StartedUnfinished
    <3>3. j \in DOMAIN exec' => s = "running" BY <1>2, <2>4 DEF Without, Restrict
    <3> QED BY <2>2, <3>1, <3>2, <3>3 DEF BoardInv, StartedItemKeepsItsPlan, RowKept, Terminal
  <2> QED BY <2>3, <2>4
<1> QED BY <1>1, <1>4, <1>5, RewrittenRows

(* All steps keep the rows but those that store new ones.                    *)
LEMMA OthersKeepRows ==
    ASSUME BoardInv, Next, \A c \in Client : ~StoreRun(c) /\ ~StoreAppend(c)
    PROVE  RowsKept
<1>1. ASSUME NEW c \in Client,
             CheckRun(c) \/ ReadAppend(c) \/ ReadUpdate(c) \/ ReadRemove(c) \/ StopForClear(c)
             \/ ReadTab(c)
      PROVE  RowsKept
  BY <1>1, ReadsTyped, SameRows DEF BoardInv, board
<1> QED BY <1>1, WritesKeepRows, OneTransactionKeepsRows, WorkerKeepsRows, ItemKeepsRows
        DEF Next, Write

(* What the step that stores a run leaves on the board.                      *)
LEMMA StoreRunRows ==
    ASSUME Base, NEW c \in Client, StoreRun(c)
    PROVE  \/ UNCHANGED <<board, exec, worker>>
           \/ LET r == req[c].run IN
              /\ r \in Run /\ UNCHANGED exec /\ worker' = Spawned(r)
              /\ r \in DOMAIN run' /\ run'[r].status = "running"
              /\ \A q \in DOMAIN run' : q # r => q \in DOMAIN run /\ run'[q] = run[q]
              /\ \A k \in DOMAIN item' : k[1] # r => k \in DOMAIN item /\ item'[k] = item[k]
              /\ \A k \in DOMAIN item' : k[1] = r =>
                   /\ k[2] \in req[c].slugs
                   /\ item'[k].status = "pending"
                   /\ ~req[c].fresh => "unchecked" \in item'[k].marks
                   /\ worker[r].at \in {"loaded", "leave"} => "unseen" \in item'[k].marks
                   /\ k \in DOMAIN exec => "edited" \in item'[k].marks
              /\ \A q \in Run : q # r /\ Shown(q)' => Shown(q)
<1> USE BoardAssumption
<1> DEFINE r == req[c].run
           t == IF req[c].tab = ActiveTab THEN active ELSE req[c].tab
           tabs == Assigned(t, r)
           kept == Kept(tabs, r)
           order == CHOOSE f \in [req[c].slugs -> 1 .. Cardinality(req[c].slugs)] : IsInjective(f)
           marks(k) == Marks("unchecked", ~req[c].fresh)
                       \cup Marks("unseen", worker[r].at \in {"loaded", "leave"})
                       \cup Marks("edited", k \in DOMAIN exec)
           new == {<<r, s>> : s \in req[c].slugs}
           old == {k \in DOMAIN item : k[1] \in kept \ {r}}
<1>1. CASE t \notin DOMAIN tab BY <1>1 DEF StoreRun, Refuse
<1>2. CASE t \in DOMAIN tab
  <2>1. /\ tab' = tabs
        /\ run' = [q \in kept |-> IF q = r THEN [status |-> "running", stop |-> FALSE] ELSE run[q]]
        /\ item' = [k \in old \cup new |-> IF k[1] = r THEN NewRow(marks(k), order[k[2]])
                                                       ELSE item[k]]
        /\ worker' = Spawned(r)
        /\ UNCHANGED exec
    BY <1>2 DEF StoreRun
  <2>2. r \in Run
    <3>1. req[c].op = "run" BY DEF StoreRun
    <3> QED BY <3>1, RequestShape DEF Base, Typed
  <2>3. r \in kept /\ kept \subseteq DOMAIN run \cup {r} BY <1>2 DEF Kept, Shows, Assigned
  <2>4. ASSUME NEW q \in Run, q # r, Shown(q)' PROVE Shown(q)
    BY <2>1, <2>4 DEF Shown, Shows, Assigned
  <2>5. /\ r \in DOMAIN run' /\ run'[r].status = "running"
        /\ \A q \in DOMAIN run' : q # r => q \in DOMAIN run /\ run'[q] = run[q]
    BY <2>1, <2>3
  <2>6. \A k \in DOMAIN item' : k[1] # r => k \in DOMAIN item /\ item'[k] = item[k]
    BY <2>1
  <2>7. ASSUME NEW k \in DOMAIN item', k[1] = r
        PROVE  /\ k[2] \in req[c].slugs
               /\ item'[k].status = "pending"
               /\ ~req[c].fresh => "unchecked" \in item'[k].marks
               /\ worker[r].at \in {"loaded", "leave"} => "unseen" \in item'[k].marks
               /\ k \in DOMAIN exec => "edited" \in item'[k].marks
    <3>1. k \in new BY <2>1, <2>7
    <3>2. item'[k] = NewRow(marks(k), order[k[2]]) BY <2>1, <2>7
    <3>3. item'[k].status = "pending" /\ item'[k].marks = marks(k) BY <3>2 DEF NewRow
    <3> QED BY <3>1, <3>3 DEF Marks
  <2> QED BY <2>1, <2>2, <2>4, <2>5, <2>6, <2>7
<1> QED BY <1>1, <1>2

(* What the step that appends an item leaves on the board.                   *)
LEMMA StoreAppendRows ==
    ASSUME Base, NEW c \in Client, StoreAppend(c)
    PROVE  \/ UNCHANGED <<board, exec, worker>>
           \/ LET k == req[c].key IN
              /\ k \in Key /\ UNCHANGED <<tab, run, exec>> /\ worker' = Spawned(k[1])
              /\ k \notin DOMAIN item /\ DOMAIN item' = DOMAIN item \cup {k}
              /\ \A j \in DOMAIN item : item'[j] = item[j]
              /\ item'[k].status = "pending" /\ "unchecked" \in item'[k].marks
              /\ worker[k[1]].at \in {"loaded", "leave"} => "unseen" \in item'[k].marks
              /\ k \in DOMAIN exec => "edited" \in item'[k].marks
<1> DEFINE k == req[c].key
           marks == {"unchecked"} \cup Marks("unseen", worker[k[1]].at \in {"loaded", "leave"})
                    \cup Marks("edited", k \in DOMAIN exec)
<1>1. CASE Refuse(c) BY <1>1 DEF Refuse
<1>2. CASE ~Refuse(c)
  <2>1. /\ item' = Put(item, k, NewRow(marks, req[c].pos)) /\ k \notin DOMAIN item
        /\ worker' = Spawned(k[1])
        /\ UNCHANGED <<tab, active, run, exec>> /\ req[c].op = "append"
    BY <1>2 DEF StoreAppend
  <2>2. k \in Key BY <2>1, RequestShape DEF Base, Typed
  <2>3. /\ DOMAIN item' = DOMAIN item \cup {k} /\ item'[k] = NewRow(marks, req[c].pos)
        /\ \A j \in DOMAIN item : item'[j] = item[j]
    BY <2>1 DEF Put
  <2>4. item'[k].status = "pending" /\ item'[k].marks = marks BY <2>3 DEF NewRow
  <2> QED BY <2>1, <2>2, <2>3, <2>4 DEF Marks
<1> QED BY <1>1, <1>2

(* Items with a worker stay unfinished and keep their plan.                  *)
LEMMA StartedStep ==
    ASSUME BoardInv, Next
    PROVE  StartedUnfinished' /\ StartedItemKeepsItsPlan'
<1>1. Base /\ StartedUnfinished /\ StartedItemKeepsItsPlan BY DEF BoardInv
<1>2. CASE RowsKept BY <1>2 DEF RowsKept, RowKept, StartedUnfinished, StartedItemKeepsItsPlan
<1>3. CASE UNCHANGED <<board, exec, worker>>
  BY <1>1, <1>3 DEF board, StartedUnfinished, StartedItemKeepsItsPlan
<1>4. ASSUME NEW c \in Client, StoreRun(c)
      PROVE  StartedUnfinished' /\ StartedItemKeepsItsPlan'
  BY <1>1, <1>3, <1>4, StoreRunRows DEF StartedUnfinished, StartedItemKeepsItsPlan, Terminal
<1>5. ASSUME NEW c \in Client, StoreAppend(c)
      PROVE  StartedUnfinished' /\ StartedItemKeepsItsPlan'
  BY <1>1, <1>3, <1>5, StoreAppendRows DEF StartedUnfinished, StartedItemKeepsItsPlan, Terminal
<1> QED BY <1>2, <1>4, <1>5, OthersKeepRows

(* Two runs that are shown share an unfinished task only by a row that was   *)
(* not checked: the checked run was fresh, and whatever it shares with       *)
(* another run had succeeded.                                                *)
LEMMA OneRunStep ==
    ASSUME BoardInv, Next
    PROVE  UnfinishedTaskInOneRun'
<1> USE BoardAssumption
<1> SUFFICES ASSUME NEW k \in DOMAIN item', NEW l \in DOMAIN item',
                    k[1] # l[1], SameTask(k[2], l[2]), Shown(k[1])', Shown(l[1])',
                    item'[k].status # "success", item'[l].status # "success"
             PROVE  {"unchecked", "reopened"} \cap (item'[k].marks \cup item'[l].marks) # {}
  BY DEF UnfinishedTaskInOneRun, Shown, Shows
<1>1. Base /\ Base' /\ UnfinishedTaskInOneRun /\ FreshChecked
  BY BaseStep DEF BoardInv
<1>2. DOMAIN item' \subseteq Key /\ k[1] \in Run /\ l[1] \in Run /\ k[2] \in Slug /\ l[2] \in Slug
  BY <1>1 DEF Base, Typed, ItemType, Key
<1>3. CASE RowsKept
  <2>1. k \in DOMAIN item /\ l \in DOMAIN item /\ Shown(k[1]) /\ Shown(l[1])
    BY <1>2, <1>3 DEF RowsKept
  <2>2. RowKept(k) /\ RowKept(l) BY <1>3 DEF RowsKept
  <2>3. CASE item[k].status = "success" \/ item[l].status = "success"
    BY <2>2, <2>3 DEF RowKept
  <2>4. CASE item[k].status # "success" /\ item[l].status # "success"
    BY <1>1, <2>1, <2>2, <2>4 DEF RowKept, UnfinishedTaskInOneRun
  <2> QED BY <2>3, <2>4
<1>4. CASE UNCHANGED <<board, exec, worker>>
  BY <1>1, <1>4 DEF board, UnfinishedTaskInOneRun, Shown
<1>5. ASSUME NEW c \in Client, StoreRun(c), ~UNCHANGED <<board, exec, worker>>
      PROVE  {"unchecked", "reopened"} \cap (item'[k].marks \cup item'[l].marks) # {}
  <2> DEFINE r == req[c].run
  <2>1. /\ \A j \in DOMAIN item' : j[1] # r => j \in DOMAIN item /\ item'[j] = item[j]
        /\ \A j \in DOMAIN item' : j[1] = r =>
             /\ j[2] \in req[c].slugs
             /\ ~req[c].fresh => "unchecked" \in item'[j].marks
        /\ \A q \in Run : q # r /\ Shown(q)' => Shown(q)
    BY <1>1, <1>5, StoreRunRows
  <2>2. req[c].op = "run" BY <1>5 DEF StoreRun
  <2>3. req[c].fresh => ConflictFree(r, req[c].slugs) BY <1>1, <2>2 DEF FreshChecked
  <2>4. ASSUME NEW i \in DOMAIN item', NEW j \in DOMAIN item', i[1] = r, j[1] # r,
               SameTask(j[2], i[2]), Shown(j[1])', item'[j].status # "success", j[1] \in Run
        PROVE  "unchecked" \in item'[i].marks
    <3>1. j \in DOMAIN item /\ item[j].status # "success" /\ Shown(j[1]) /\ i[2] \in req[c].slugs
      BY <2>1, <2>4
    <3>2. ~ConflictFree(r, req[c].slugs) BY <2>4, <3>1 DEF ConflictFree
    <3> QED BY <2>1, <2>3, <2>4, <3>2
  <2>5. CASE k[1] = r
    <3>1. SameTask(l[2], k[2]) BY <1>2
    <3> QED BY <1>2, <2>4, <2>5, <3>1
  <2>6. CASE l[1] = r BY <1>2, <2>4, <2>6
  <2>7. CASE k[1] # r /\ l[1] # r
    BY <1>1, <1>2, <2>1, <2>7 DEF UnfinishedTaskInOneRun
  <2> QED BY <2>5, <2>6, <2>7
<1>6. ASSUME NEW c \in Client, StoreAppend(c), ~UNCHANGED <<board, exec, worker>>
      PROVE  {"unchecked", "reopened"} \cap (item'[k].marks \cup item'[l].marks) # {}
  <2> DEFINE n == req[c].key
  <2>1. /\ UNCHANGED tab /\ DOMAIN item' = DOMAIN item \cup {n} /\ "unchecked" \in item'[n].marks
        /\ \A j \in DOMAIN item : item'[j] = item[j]
    BY <1>1, <1>6, StoreAppendRows
  <2>2. Shown(k[1]) /\ Shown(l[1]) BY <2>1 DEF Shown
  <2>3. CASE k = n \/ l = n BY <2>1, <2>3
  <2>4. CASE k # n /\ l # n BY <1>1, <2>1, <2>2, <2>4 DEF UnfinishedTaskInOneRun
  <2> QED BY <2>3, <2>4
<1> QED BY <1>3, <1>4, <1>5, <1>6, OthersKeepRows

---------------------------------------------------------------------------
(* A step that leaves the worker of a run alone, or starts one, and makes    *)
(* nothing of the run successful and no row of it unfinished.                *)
LEMMA QuietRun ==
    ASSUME NEW r \in Run, LookedAt(r), worker'[r] = worker[r] \/ worker'[r].at = "start",
           r \in DOMAIN run' => /\ r \in DOMAIN run
                                /\ run'[r].status = "success" => run[r].status = "success",
           \A k \in DOMAIN item' : k[1] = r =>
             /\ k \in DOMAIN item /\ k[1] \in DOMAIN run'
             /\ item[k].marks \subseteq item'[k].marks
             /\ item'[k].status # "success" => item[k].status # "success"
    PROVE  LookedAt(r)'
<1>1. CASE worker'[r].at = "start" BY <1>1 DEF LookedAt
<1>2. CASE worker'[r] = worker[r]
  <2>1. Saw(r)' = Saw(r) BY <1>2 DEF Saw
  <2> QED BY <1>2, <2>1 DEF LookedAt
<1> QED BY <1>1, <1>2

(* Spawning a worker moves the one worker that is off, and no other.         *)
LEMMA SpawnedWorker ==
    ASSUME WorkerType, NEW r \in Run, worker' = Spawned(r)
    PROVE  /\ \A q \in Run : q # r => worker'[q] = worker[q]
           /\ worker[r].at = "off" => worker'[r].at = "start"
           /\ worker[r].at # "off" => worker'[r] = worker[r]
BY DEF WorkerType, Spawned, Off

(* Steps that leave every worker alone, or start one.                        *)
LEMMA QuietStep ==
    ASSUME BoardInv, Base', UNCHANGED worker \/ \E r \in Run : worker' = Spawned(r),
           \A r \in DOMAIN run' : /\ r \in DOMAIN run
                                  /\ run'[r].status = "success" => run[r].status = "success",
           \A k \in DOMAIN item' :
             /\ k \in DOMAIN item
             /\ item[k].marks \subseteq item'[k].marks
             /\ item'[k].status # "success" => item[k].status # "success"
    PROVE  Looked'
<1> SUFFICES ASSUME NEW r \in Run PROVE LookedAt(r)' BY DEF Looked
<1>1. WorkerType /\ LookedAt(r) BY DEF BoardInv, Base, Typed, Looked
<1>2. worker'[r] = worker[r] \/ worker'[r].at = "start" BY <1>1, SpawnedWorker
<1>3. \A k \in DOMAIN item' : k[1] \in DOMAIN run' BY DEF Base, Typed, ItemType
<1> QED BY <1>1, <1>2, <1>3, QuietRun

(* A write to the status of a run.                                           *)
LEMMA SetStatusOf ==
    ASSUME RunType, NEW r, NEW s \in ActiveRun \cup Appendable \cup Terminal,
           run' = SetStatus(r, s) \/ run' = StopRun(r)
    PROVE  /\ DOMAIN run' = DOMAIN run
           /\ \A q \in DOMAIN run : q # r => run'[q] = run[q]
           /\ r \in DOMAIN run => \/ run' = SetStatus(r, s) /\ run'[r].status = s
                                  \/ run' = StopRun(r) /\ run'[r].status = "stopping"
                                  \/ run' = StopRun(r) /\ run'[r] = run[r]
BY DEF RunType, SetStatus, StopRun, Status

(* Updates and deletions hide nothing from a worker.                         *)
LEMMA WritesLooked ==
    ASSUME BoardInv, Base', NEW c \in Client,
           StoreUpdate(c) \/ DeleteRow(c) \/ ClearStops(c) \/ DeleteRows(c) \/ DeleteTabRows(c)
           \/ DeleteTab(c)
    PROVE  Looked'
<1>1. CASE StoreUpdate(c)
  <2> DEFINE k == req[c].key
  <2>1. /\ item' = IF k \notin DOMAIN item THEN item
                   ELSE [item EXCEPT ![k].prompt = req[c].prompt,
                                     ![k].marks = @ \cup Marks("edited", ~req[c].fresh)]
        /\ UNCHANGED run /\ req[c].op = "update" /\ worker' = Spawned(k[1])
    BY <1>1 DEF StoreUpdate
  <2>2. k[1] \in Run BY <2>1, RequestShape DEF BoardInv, Base, Typed, Key
  <2>3. ASSUME NEW j \in DOMAIN item'
        PROVE  /\ j \in DOMAIN item /\ item[j].marks \subseteq item'[j].marks
               /\ item'[j].status = item[j].status
    <3>1. item[j] \in Row /\ j \in DOMAIN item BY <2>1 DEF BoardInv, Base, Typed, ItemType
    <3> QED BY <2>1, <3>1 DEF Row
  <2> QED BY <2>1, <2>2, <2>3, QuietStep
<1>2. ASSUME UNCHANGED worker,
             UNCHANGED item \/ \E S : item' = Without(item, S),
             UNCHANGED run \/ \E S : run' = Without(run, S)
      PROVE  Looked'
  <2>1. \A j \in DOMAIN item' : j \in DOMAIN item /\ item'[j] = item[j]
    BY <1>2 DEF Without, Restrict
  <2>2. \A r \in DOMAIN run' : r \in DOMAIN run /\ run'[r] = run[r]
    BY <1>2 DEF Without, Restrict
  <2> QED BY <1>2, <2>1, <2>2, QuietStep
<1>3. CASE DeleteRow(c) BY <1>2, <1>3 DEF DeleteRow
<1>4. CASE DeleteRows(c) BY <1>2, <1>4 DEF DeleteRows, DeletedRun
<1>5. CASE DeleteTabRows(c) BY <1>2, <1>5 DEF DeleteTabRows, DeletedRun
<1>6. CASE DeleteTab(c) BY <1>2, <1>6 DEF DeleteTab, Refuse, board
<1>7. CASE ClearStops(c)
  <2>1. run' = StopRun(req[c].run) /\ UNCHANGED <<item, worker>> BY <1>7 DEF ClearStops
  <2>2. \A q \in DOMAIN run' : /\ q \in DOMAIN run
                               /\ run'[q].status = "success" => run[q].status = "success"
    BY <2>1, SetStatusOf DEF BoardInv, Base, Typed, ActiveRun
  <2> QED BY <2>1, <2>2, QuietStep
<1> QED BY <1>1, <1>3, <1>4, <1>5, <1>6, <1>7

(* The requests that are one transaction hide nothing from a worker.         *)
LEMMA OneTransactionLooked ==
    ASSUME BoardInv, Base', CreateTab \/ SwitchTab \/ Stop \/ Continue
    PROVE  Looked'
<1>1. CASE CreateTab \/ SwitchTab BY <1>1, QuietStep DEF CreateTab, SwitchTab
<1>2. CASE Stop
  <2>1. PICK r \in DOMAIN run : run' = StopRun(r) BY <1>2 DEF Stop
  <2>2. UNCHANGED <<item, worker>> BY <1>2 DEF Stop
  <2>3. \A q \in DOMAIN run' : /\ q \in DOMAIN run
                               /\ run'[q].status = "success" => run[q].status = "success"
    BY <2>1, SetStatusOf DEF BoardInv, Base, Typed, ActiveRun
  <2> QED BY <2>2, <2>3, QuietStep
<1>3. CASE Continue
  <2>1. PICK r \in DOMAIN run :
           /\ run' = [run EXCEPT ![r] = [status |-> "running", stop |-> FALSE]]
           /\ item' = [k \in DOMAIN item |-> IF k[1] = r /\ item[k].status = "stopped"
                                             THEN [item[k] EXCEPT !.status = "pending"] ELSE item[k]]
           /\ worker' = Spawned(r)
    BY <1>3 DEF Continue
  <2>2. r \in Run BY DEF BoardInv, Base, Typed, RunType
  <2>3. ASSUME NEW j \in DOMAIN item'
        PROVE  /\ j \in DOMAIN item /\ item[j].marks \subseteq item'[j].marks
               /\ item'[j].status # "success" => item[j].status # "success"
    <3>1. item[j] \in Row /\ j \in DOMAIN item BY <2>1 DEF BoardInv, Base, Typed, ItemType
    <3> QED BY <2>1, <3>1 DEF Row
  <2>4. \A q \in DOMAIN run' : /\ q \in DOMAIN run
                               /\ run'[q].status = "success" => run[q].status = "success"
    BY <2>1
  <2> QED BY <2>1, <2>2, <2>3, <2>4, QuietStep
<1> QED BY <1>1, <1>2, <1>3

(* The item workers make no row unfinished that had succeeded.               *)
LEMMA ItemLooked ==
    ASSUME BoardInv, Base', NEW k \in Key,
           ItemRuns(k) \/ ItemStops(k) \/ \E s \in Terminal : ItemEnds(k, s)
    PROVE  Looked'
<1>1. UNCHANGED <<run, worker>> BY DEF ItemRuns, ItemStops, ItemEnds
<1>2. RowsKept BY ItemKeepsRows
<1>3. ASSUME NEW j \in DOMAIN item', item'[j].status # "success" PROVE item[j].status # "success"
  <2>1. PICK s \in {"running", "stopped"} \cup Terminal : item' = SetItem(k, s)
    BY DEF ItemRuns, ItemStops, ItemEnds
  <2>2. k \in DOMAIN exec BY DEF ItemRuns, ItemStops, ItemEnds
  <2>3. k \in DOMAIN item => item[k].status # "success"
    BY <2>2 DEF BoardInv, StartedUnfinished, Terminal
  <2> QED BY <1>3, <2>1, <2>3 DEF SetItem
<1> QED BY <1>1, <1>2, <1>3, QuietStep DEF RowsKept, RowKept

(* A worker moves alone.                                                     *)
LEMMA MovedWorker ==
    ASSUME WorkerType, NEW r \in Run, NEW at, Moves(r, at)
    PROVE  worker'[r].at = at /\ \A q \in Run : q # r => worker'[q] = worker[q]
BY DEF WorkerType, Moves, Off

(* A worker of run r that writes to its run and to its rows only.            *)
LEMMA OtherRuns ==
    ASSUME BoardInv, NEW r \in Run, \A q \in Run : q # r => worker'[q] = worker[q],
           DOMAIN run' = DOMAIN run, \A q \in DOMAIN run : q # r => run'[q] = run[q],
           DOMAIN item' = DOMAIN item, \A k \in DOMAIN item : k[1] # r => item'[k] = item[k]
    PROVE  \A q \in Run : q # r => LookedAt(q)'
<1> SUFFICES ASSUME NEW q \in Run, q # r PROVE LookedAt(q)' OBVIOUS
<1>1. LookedAt(q) BY DEF BoardInv, Looked
<1>2. \A k \in DOMAIN item : k[1] \in DOMAIN run BY DEF BoardInv, Base, Typed, ItemType
<1> QED BY <1>1, <1>2, QuietRun

(* A worker ends its run successful only if it has seen nothing unfinished.  *)
LEMMA WorkerLooked ==
    ASSUME BoardInv, NEW r \in Run, WorkerStep(r) \/ Resume(r)
    PROVE  Looked'
<1> USE DEF Looked
<1>1. WorkerType /\ RunType /\ ItemType /\ LookedAt(r) BY DEF BoardInv, Base, Typed
<1>2. ASSUME NEW s \in {"running", "failed", "success", "stopped"}, run' = SetStatus(r, s)
      PROVE  /\ DOMAIN run' = DOMAIN run
             /\ \A q \in DOMAIN run : q # r => run'[q] = run[q]
             /\ r \in DOMAIN run => run'[r].status = s
  BY <1>1, <1>2 DEF RunType, SetStatus, Status
<1>3. CASE WorkerStarts(r)
  <2>1. run' = SetStatus(r, "running") /\ Moves(r, "loop") /\ UNCHANGED item
    BY <1>3 DEF WorkerStarts
  <2>2. LookedAt(r)' BY <1>1, <1>2, <2>1, MovedWorker DEF LookedAt
  <2> QED BY <1>1, <1>2, <2>1, <2>2, MovedWorker, OtherRuns
<1>4. CASE WorkerLoads(r)
  <2>1. UNCHANGED <<run, item>> BY <1>4 DEF WorkerLoads, board
  <2>2. worker[r].at = "loop" BY <1>4 DEF WorkerLoads
  <2>3. CASE r \in DOMAIN run
    <3>1. worker' = [worker EXCEPT ![r] = [at |-> "loaded", saw |-> Restrict(item, Rows(r))]]
      BY <1>4, <2>3 DEF WorkerLoads
    <3>2. /\ worker'[r].at = "loaded" /\ Saw(r)' = Restrict(item, Rows(r))
          /\ \A q \in Run : q # r => worker'[q] = worker[q]
      BY <1>1, <3>1 DEF WorkerType, Saw
    <3>3. \A k \in DOMAIN item : k[1] = r => k \in DOMAIN Saw(r)' /\ Saw(r)'[k] = item[k]
      BY <3>2 DEF Restrict, Rows
    <3>4. LookedAt(r)' BY <1>1, <2>1, <2>2, <3>2, <3>3 DEF LookedAt
    <3> QED BY <2>1, <3>2, <3>4, OtherRuns
  <2>4. CASE r \notin DOMAIN run
    <3>1. Moves(r, "leave") BY <1>4, <2>4 DEF WorkerLoads
    <3>2. LookedAt(r)' BY <1>1, <2>1, <2>4 DEF LookedAt, ItemType
    <3> QED BY <1>1, <2>1, <3>1, <3>2, MovedWorker, OtherRuns
  <2> QED BY <2>3, <2>4
<1>5. CASE WorkerEnds(r)
  <2>1. /\ worker[r].at = "loaded" /\ (SawFailure(r) \/ SawSuccess(r))
        /\ run' = SetStatus(r, IF SawFailure(r) THEN "failed" ELSE "success")
        /\ Moves(r, "leave") /\ UNCHANGED item
    BY <1>5 DEF WorkerEnds
  <2>2. worker[r].at = "loaded" /\ (SawFailure(r) \/ SawSuccess(r)) BY <1>5 DEF WorkerEnds
  <2>3. LookedAt(r)'
    <3>1. CASE SawFailure(r)
      <4>1. r \in DOMAIN run => run'[r].status = "failed" BY <1>2, <2>1, <3>1
      <4>2. \A k \in DOMAIN item : k[1] = r => r \in DOMAIN run BY <1>1 DEF ItemType
      <4> QED BY <1>1, <2>1, <4>1, <4>2, MovedWorker DEF LookedAt
    <3>2. CASE ~SawFailure(r)
      <4>1. \A k \in DOMAIN Saw(r) : Saw(r)[k].status = "success" BY <2>2, <3>2 DEF SawSuccess
      <4>2. \A k \in DOMAIN item :
               k[1] = r /\ item[k].status # "success" => "unseen" \in item[k].marks
        BY <1>1, <2>2, <4>1 DEF LookedAt
      <4> QED BY <1>1, <2>1, <4>2, MovedWorker DEF LookedAt
    <3> QED BY <3>1, <3>2
  <2>4. /\ DOMAIN run' = DOMAIN run
        /\ \A q \in DOMAIN run : q # r => run'[q] = run[q]
    BY <1>2, <2>1
  <2> QED BY <1>1, <2>1, <2>3, <2>4, MovedWorker, OtherRuns
<1>6. CASE WorkerStops(r)
  <2>1. /\ item' = [k \in DOMAIN item |->
                      IF k \in DOMAIN Saw(r) \ DOMAIN exec /\ Saw(r)[k].status # "success"
                      THEN Stopped(item[k]) ELSE item[k]]
        /\ run' = SetStatus(r, "stopped") /\ Moves(r, "leave")
    BY <1>6 DEF WorkerStops
  <2>2. \A k \in DOMAIN Saw(r) : k[1] = r BY <1>1 DEF WorkerType
  <2>3. LookedAt(r)' BY <1>1, <1>2, <2>1, MovedWorker DEF LookedAt, ItemType
  <2> QED BY <1>1, <1>2, <2>1, <2>2, <2>3, MovedWorker, OtherRuns
<1>7. CASE WorkerSpawns(r)
  <2>1. PICK K \in SUBSET DOMAIN Saw(r) :
           item' = [k \in DOMAIN item |->
                      IF k \in K /\ item[k].prompt # Saw(r)[k].prompt
                      THEN [item[k] EXCEPT !.marks = @ \cup {"edited"}] ELSE item[k]]
    BY <1>7 DEF WorkerSpawns
  <2>2. run' = SetStatus(r, "running") /\ Moves(r, "loop") BY <1>7 DEF WorkerSpawns
  <2>3. \A k \in DOMAIN Saw(r) : k[1] = r BY <1>1 DEF WorkerType
  <2>4. LookedAt(r)' BY <1>1, <1>2, <2>2, MovedWorker DEF LookedAt
  <2> QED BY <1>1, <1>2, <2>1, <2>2, <2>3, <2>4, MovedWorker, OtherRuns
<1>8. CASE WorkerLeaves(r)
  <2>1. worker[r].at = "leave" /\ Moves(r, "off") /\ UNCHANGED <<run, item>>
    BY <1>8 DEF WorkerLeaves, board
  <2>2. LookedAt(r)' BY <1>1, <2>1, MovedWorker DEF LookedAt
  <2> QED BY <1>1, <2>1, <2>2, MovedWorker, OtherRuns
<1>9. CASE Resume(r)
  <2>1. worker' = Spawned(r) BY <1>9 DEF Resume
  <2>2. Base' BY <1>9, WorkerTyped DEF BoardInv
  <2>3. UNCHANGED <<run, item>> BY <1>9 DEF Resume, board
  <2> QED BY <2>1, <2>2, <2>3, QuietStep
<1> QED BY <1>3, <1>4, <1>5, <1>6, <1>7, <1>8, <1>9 DEF WorkerStep

(* Rows stored under a worker that has looked are marked.                    *)
LEMMA StoresLooked ==
    ASSUME BoardInv, Base', NEW c \in Client, StoreRun(c) \/ StoreAppend(c)
    PROVE  Looked'
<1> USE DEF Looked
<1>1. Base /\ WorkerType BY DEF BoardInv, Base, Typed
<1>2. CASE UNCHANGED <<board, exec, worker>> BY <1>2, QuietStep DEF board
<1>3. ASSUME StoreRun(c), ~UNCHANGED <<board, exec, worker>> PROVE Looked'
  <2>0. PICK r : r = req[c].run OBVIOUS
  <2>1. /\ r \in Run /\ worker' = Spawned(r)
        /\ r \in DOMAIN run' /\ run'[r].status = "running"
        /\ \A q \in DOMAIN run' : q # r => q \in DOMAIN run /\ run'[q] = run[q]
        /\ \A k \in DOMAIN item' : k[1] # r => k \in DOMAIN item /\ item'[k] = item[k]
        /\ \A k \in DOMAIN item' :
             k[1] = r /\ worker[r].at \in {"loaded", "leave"} => "unseen" \in item'[k].marks
    BY <1>1, <1>3, <2>0, StoreRunRows
  <2>2. LookedAt(r)'
    <3>1. CASE worker[r].at = "off" BY <1>1, <2>1, <3>1, SpawnedWorker DEF LookedAt
    <3>2. CASE worker[r].at # "off"
      <4>1. worker'[r] = worker[r] BY <1>1, <2>1, <3>2, SpawnedWorker
      <4> QED BY <2>1, <4>1 DEF LookedAt
    <3> QED BY <3>1, <3>2
  <2>3. ASSUME NEW q \in Run, q # r PROVE LookedAt(q)'
    <3>1. worker'[q] = worker[q] BY <1>1, <2>1, <2>3, SpawnedWorker
    <3>2. LookedAt(q) BY DEF BoardInv
    <3>3. \A k \in DOMAIN item' : k[1] \in DOMAIN run' BY DEF Base, Typed, ItemType
    <3> QED BY <2>1, <2>3, <3>1, <3>2, <3>3, QuietRun
  <2> QED BY <2>2, <2>3
<1>4. ASSUME StoreAppend(c), ~UNCHANGED <<board, exec, worker>> PROVE Looked'
  <2>0. PICK n : n = req[c].key OBVIOUS
  <2>1. /\ n \in Key /\ n[1] \in Run /\ UNCHANGED run /\ worker' = Spawned(n[1])
        /\ DOMAIN item' = DOMAIN item \cup {n}
        /\ \A j \in DOMAIN item : item'[j] = item[j]
        /\ worker[n[1]].at \in {"loaded", "leave"} => "unseen" \in item'[n].marks
    BY <1>1, <1>4, <2>0, StoreAppendRows DEF Key
  <2>2. \A k \in DOMAIN item' : k[1] \in DOMAIN run' BY DEF Base, Typed, ItemType
  <2>3. ASSUME NEW q \in Run, q # n[1] PROVE LookedAt(q)'
    <3>1. worker'[q] = worker[q] BY <1>1, <2>1, <2>3, SpawnedWorker
    <3>2. LookedAt(q) BY DEF BoardInv
    <3>3. \A k \in DOMAIN item' : k[1] = q => k \in DOMAIN item /\ item'[k] = item[k]
      BY <2>1, <2>3
    <3> QED BY <2>1, <2>2, <3>1, <3>2, <3>3, QuietRun
  <2>4. LookedAt(n[1])'
    <3>1. LookedAt(n[1]) BY <2>1 DEF BoardInv
    <3>2. CASE worker[n[1]].at = "off" BY <1>1, <2>1, <3>2, SpawnedWorker DEF LookedAt
    <3>3. CASE worker[n[1]].at # "off"
      <4>1. worker'[n[1]] = worker[n[1]] BY <1>1, <2>1, <3>3, SpawnedWorker
      <4>2. Saw(n[1])' = Saw(n[1]) BY <4>1 DEF Saw
      <4> QED BY <2>1, <3>1, <3>3, <4>1, <4>2 DEF LookedAt
    <3> QED BY <3>2, <3>3
  <2> QED BY <2>3, <2>4
<1> QED BY <1>2, <1>3, <1>4

(* Every step keeps what the workers have looked at.                         *)
LEMMA LookedStep == ASSUME BoardInv, Next PROVE Looked'
<1>1. Base' BY BaseStep DEF BoardInv
<1>2. ASSUME NEW c \in Client,
             CheckRun(c) \/ ReadAppend(c) \/ ReadUpdate(c) \/ ReadRemove(c) \/ StopForClear(c)
             \/ ReadTab(c)
      PROVE  Looked'
  BY <1>1, <1>2, ReadsTyped, QuietStep DEF BoardInv, board
<1> QED BY <1>1, <1>2, WritesLooked, StoresLooked, OneTransactionLooked, WorkerLooked, ItemLooked
        DEF Next, Write

---------------------------------------------------------------------------
(* The invariant is inductive.                                               *)
LEMMA BoardStep == ASSUME BoardInv, [Next]_vars PROVE BoardInv'
<1>1. CASE Next
  BY <1>1, BaseStep, FreshStep, StartedStep, OneRunStep, LookedStep DEF BoardInv
<1>2. CASE UNCHANGED vars
  <2>1. Base' BY <1>2, BaseStep DEF BoardInv
  <2>2. UNCHANGED <<tab, active, run, item, exec, worker, req>> BY <1>2 DEF vars
  <2> QED BY <2>1, <2>2
          DEF BoardInv, FreshChecked, FreshEditable, StartedUnfinished, Looked, LookedAt, Saw,
              UnfinishedTaskInOneRun, StartedItemKeepsItsPlan, ConflictFree, Shown
<1> QED BY <1>1, <1>2

(* The invariant holds in every reachable state.                             *)
LEMMA BoardInvariant == Spec => []BoardInv
<1>1. Init => BoardInv BY InitBoard
<1>2. BoardInv /\ [Next]_vars => BoardInv' BY BoardStep
<1> QED BY <1>1, <1>2, PTL DEF Spec

(* An unfinished task is in one shown run, but for rows that no request      *)
(* checked and for rows that a stopping worker reopened                      *)
(* (ensure_queue_run_conflict_free).                                         *)
THEOREM OneRunPerTask == Spec => []UnfinishedTaskInOneRun
<1>1. BoardInv => UnfinishedTaskInOneRun BY DEF BoardInv
<1> QED BY <1>1, BoardInvariant, PTL

(* An item works on the prompt that its row shows, or the row is marked as   *)
(* edited across its start (apply_queue_update_item).                        *)
THEOREM PlansKept == Spec => []StartedItemKeepsItsPlan
<1>1. BoardInv => StartedItemKeepsItsPlan BY DEF BoardInv
<1> QED BY <1>1, BoardInvariant, PTL

(* A successful run whose worker has left has no unfinished item but one     *)
(* that was stored after the worker's last look (run_web_queue).             *)
THEOREM SuccessComplete == Spec => []SuccessMeansAllDone
<1>1. ASSUME BoardInv PROVE SuccessMeansAllDone
  <2>1. \A k \in DOMAIN item : k[1] \in Run
    BY <1>1 DEF BoardInv, Base, Typed, ItemType, RunType
  <2> QED BY <1>1, <2>1 DEF BoardInv, Looked, LookedAt, SuccessMeansAllDone
<1> QED BY <1>1, BoardInvariant, PTL

(* No step but the deletion of a tab takes a run that stays from its tab.    *)
KeepsTabs ==
    \A r \in DOMAIN run : Shown(r) /\ r \in DOMAIN run' /\ ~Shown(r)'
        => \E t \in DOMAIN tab : tab[t] = r /\ t \notin DOMAIN tab'

(* Every step keeps the tabs of runs that stay, but the deletion of a tab.   *)
LEMMA TabsStep == ASSUME Base, [Next]_vars PROVE KeepsTabs
<1> SUFFICES ASSUME NEW r \in DOMAIN run, NEW t \in DOMAIN tab, tab[t] = r, t \in DOMAIN tab',
                    r \in DOMAIN run'
             PROVE  Shown(r)'
  BY DEF KeepsTabs, Shown, Shows
<1>1. CASE UNCHANGED tab BY <1>1 DEF Shown, Shows
<1>2. ASSUME NEW gone, tab' = Detached(gone), run' = Without(run, gone) PROVE Shown(r)'
  BY <1>2 DEF Shown, Shows, Detached, Without, Restrict
<1>3. ASSUME NEW c \in Client, StoreRun(c) PROVE Shown(r)'
  <2>1. CASE Refuse(c) BY <1>1, <2>1 DEF Refuse, board
  <2>2. CASE ~Refuse(c)
    <3>1. PICK tabs : tab' = tabs /\ DOMAIN run' = Kept(tabs, req[c].run)
      BY <1>3, <2>2 DEF StoreRun
    <3> QED BY <3>1 DEF Kept, Shown
  <2> QED BY <2>1, <2>2
<1>4. ASSUME NEW c \in Client, Write(c) PROVE Shown(r)'
  <2>1. CASE DeleteTab(c)
    <3>1. CASE Refuse(c) BY <1>1, <3>1 DEF Refuse, board
    <3>2. CASE tab' = Without(tab, {req[c].tab})
      BY <3>2 DEF Shown, Shows, Without, Restrict
    <3> QED BY <2>1, <3>1, <3>2 DEF DeleteTab
  <2>2. CASE StoreAppend(c) BY <1>1, <2>2 DEF StoreAppend, Refuse, board
  <2>3. CASE StoreUpdate(c) BY <1>1, <2>3 DEF StoreUpdate
  <2>4. CASE DeleteRow(c) BY <1>2, <2>4 DEF DeleteRow
  <2>5. CASE ClearStops(c) BY <1>1, <2>5 DEF ClearStops
  <2>6. CASE DeleteRows(c) BY <1>2, <2>6 DEF DeleteRows, DeletedRun
  <2>7. CASE DeleteTabRows(c) BY <1>2, <2>7 DEF DeleteTabRows, DeletedRun
  <2> QED BY <1>3, <1>4, <2>1, <2>2, <2>3, <2>4, <2>5, <2>6, <2>7 DEF Write
<1>5. CASE CreateTab
  BY <1>5 DEF CreateTab, Shown, Shows, Put
<1>6. CASE SwitchTab \/ Stop \/ Continue BY <1>1, <1>6 DEF SwitchTab, Stop, Continue
<1>7. ASSUME NEW q \in Run, WorkerStep(q) \/ Resume(q) PROVE UNCHANGED tab
  BY <1>7 DEF WorkerStep, WorkerStarts, WorkerLoads, WorkerEnds, WorkerStops, WorkerSpawns,
              WorkerLeaves, Resume, Writes, board
<1>8. ASSUME NEW k \in Key, ItemRuns(k) \/ ItemStops(k) \/ \E s \in Terminal : ItemEnds(k, s)
      PROVE  UNCHANGED tab
  BY <1>8 DEF ItemRuns, ItemStops, ItemEnds, Writes
<1>9. ASSUME NEW c \in Client,
             CheckRun(c) \/ ReadAppend(c) \/ ReadUpdate(c) \/ ReadRemove(c) \/ StopForClear(c)
             \/ ReadTab(c)
      PROVE  UNCHANGED tab
  BY <1>9, ReadsTyped DEF board
<1>10. CASE UNCHANGED vars BY <1>1, <1>10 DEF vars
<1> QED BY <1>1, <1>4, <1>5, <1>6, <1>7, <1>8, <1>9, <1>10 DEF Next

(* One active tab, the default tab, no run on two tabs, and no run that      *)
(* leaves the board while its rows stay unless its tab is deleted            *)
(* (replace_web_queue, delete_web_queue_run, delete_web_queue_tab).          *)
THEOREM TabsStay == Spec => TabsShowTheirRuns
<1>1. Init => Base BY InitTyped DEF Base
<1>2. Base /\ [Next]_vars => Base' BY BaseStep
<1>3. Base => Consistent BY DEF Base
<1>4. Base /\ [Next]_vars
        => [\A r \in DOMAIN run : Shown(r) /\ r \in DOMAIN run' /\ ~Shown(r)'
              => \E t \in DOMAIN tab : tab[t] = r /\ t \notin DOMAIN tab']_vars
  BY TabsStep DEF KeepsTabs
<1> QED BY <1>1, <1>2, <1>3, <1>4, PTL DEF Spec, TabsShowTheirRuns
=============================================================================
