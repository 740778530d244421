--------------------------- MODULE TaskFlowProofs ---------------------------
(***************************************************************************)
(* Proofs about TaskFlow: its types, that a record says closed:success     *)
(* only of work that was pushed, that no work is lost that nobody gave up  *)
(* (TaskFlow implements TaskLife), and that a reported success is          *)
(* complete.                                                               *)
(*                                                                         *)
(* The first needs SuccessPushed, about all that may say closed:success.   *)
(* The others need AllFine and GivenUp:                                    *)
(*   BaseFine, TaskFine: where work may be, and that the work of other     *)
(*     tasks on a branch is in the base branch as well, so that a branch   *)
(*     that is thrown away takes its own task's work at most;              *)
(*   Phases: what a closeout has achieved at each of its phases, which     *)
(*     other commands, pushes and terminal-check do not undo;              *)
(*   GivenUp: whatever throws work away is entitled to.                    *)
(* A step then leaves all work where it is, or makes, loses or reports     *)
(* some (Outcome), and each of these is a step of TaskLife (LifeStep).     *)
(***************************************************************************)
EXTENDS TaskFlow, FiniteSetTheorems, TLAPS

---------------------------------------------------------------------------
(* Histories.                                                                *)

(* A set of numbers has a least one.                                         *)
LEMMA Least ==
    ASSUME NEW S \in SUBSET Nat, S # {}
    PROVE  \E n \in S : \A m \in S : n <= m
<1> DEFINE R == OpToRel(<, Nat)
<1>1. IsWellFoundedOn(R, Nat) BY NatLessThanWellFounded
<1>2. \A m, n \in Nat : m < n => <<m, n>> \in R BY Zenon DEF OpToRel
<1> HIDE DEF R
<1>3. PICK n \in S : \A m \in S : ~ (<<m, n>> \in R) BY <1>1, WFMin
<1>4. ASSUME NEW m \in S PROVE n <= m
  <2>1. ~ (m < n) BY <1>2, <1>3
  <2> QED BY <2>1
<1> QED BY <1>4

(* What follows holds of all logs, NoBranch among them.                      *)
LEMMA LogFacts ==
    ASSUME NEW S, NEW s \in Seq(S), NEW t \in Seq(S)
    PROVE  /\ Patches(s) \subseteq S
           /\ s \o t \in Seq(S) /\ Patches(s \o t) = Patches(s) \cup Patches(t)
           /\ \A p \in S : Append(s, p) \in Seq(S) /\ Patches(Append(s, p)) = Patches(s) \cup {p}
           /\ IsPrefix(s, t) => Patches(s) \subseteq Patches(t)
           /\ IsPrefix(s, s)
<1>1. Patches(s) \subseteq S BY DEF Patches
<1>2. s \o t \in Seq(S) /\ Patches(s \o t) = Patches(s) \cup Patches(t)
  <2>1. /\ s \o t \in Seq(S) /\ Len(s \o t) = Len(s) + Len(t)
        /\ \A i \in 1 .. Len(s) : (s \o t)[i] = s[i]
        /\ \A i \in 1 .. Len(t) : (s \o t)[Len(s) + i] = t[i]
    OBVIOUS
  <2>2. ASSUME NEW p \in Patches(s \o t) PROVE p \in Patches(s) \cup Patches(t)
    <3>1. PICK i \in 1 .. Len(s) + Len(t) : p = (s \o t)[i] BY <2>1 DEF Patches
    <3>2. CASE i <= Len(s) BY <2>1, <3>1, <3>2 DEF Patches
    <3>3. CASE i > Len(s)
      <4>1. i - Len(s) \in 1 .. Len(t) /\ i = Len(s) + (i - Len(s)) BY <3>1, <3>3
      <4>2. p = t[i - Len(s)] BY <2>1, <3>1, <4>1
      <4> QED BY <4>1, <4>2 DEF Patches
    <3> QED BY <3>1, <3>2, <3>3
  <2>3. ASSUME NEW p \in Patches(s) PROVE p \in Patches(s \o t)
    <3>1. PICK i \in 1 .. Len(s) : p = s[i] BY DEF Patches
    <3>2. i \in DOMAIN (s \o t) /\ p = (s \o t)[i] BY <2>1, <3>1
    <3> QED BY <3>2 DEF Patches
  <2>4. ASSUME NEW p \in Patches(t) PROVE p \in Patches(s \o t)
    <3>1. PICK i \in 1 .. Len(t) : p = t[i] BY DEF Patches
    <3>2. Len(s) + i \in DOMAIN (s \o t) /\ p = (s \o t)[Len(s) + i] BY <2>1, <3>1
    <3> QED BY <3>2 DEF Patches
  <2> QED BY <2>1, <2>2, <2>3, <2>4
<1>3. ASSUME NEW p \in S
      PROVE  Append(s, p) \in Seq(S) /\ Patches(Append(s, p)) = Patches(s) \cup {p}
  <2> DEFINE a == Append(s, p)
  <2>1. /\ a \in Seq(S) /\ Len(a) = Len(s) + 1 /\ a[Len(s) + 1] = p
        /\ \A i \in 1 .. Len(s) : a[i] = s[i]
    OBVIOUS
  <2>2. DOMAIN a = 1 .. Len(s) + 1 /\ DOMAIN s = 1 .. Len(s) BY <2>1
  <2> HIDE DEF a
  <2>3. ASSUME NEW x \in Patches(a) PROVE x \in Patches(s) \cup {p}
    <3>1. PICK i \in 1 .. Len(s) + 1 : x = a[i] BY <2>2 DEF Patches
    <3>2. i \in 1 .. Len(s) \/ i = Len(s) + 1 BY <3>1
    <3> QED BY <2>1, <2>2, <3>1, <3>2 DEF Patches
  <2>4. ASSUME NEW x \in Patches(s) \cup {p} PROVE x \in Patches(a)
    <3>1. CASE x \in Patches(s)
      <4>1. PICK i \in 1 .. Len(s) : x = s[i] BY <2>2, <3>1 DEF Patches
      <4>2. i \in DOMAIN a /\ x = a[i] BY <2>1, <2>2, <4>1
      <4> QED BY <4>2 DEF Patches
    <3>2. CASE x = p
      <4>1. Len(s) + 1 \in DOMAIN a BY <2>2
      <4> QED BY <2>1, <3>2, <4>1 DEF Patches
    <3> QED BY <3>1, <3>2
  <2> QED BY <2>1, <2>3, <2>4 DEF a
<1>4. ASSUME IsPrefix(s, t) PROVE Patches(s) \subseteq Patches(t)
  <2>1. Len(s) <= Len(t) /\ \A i \in 1 .. Len(s) : s[i] = t[i] BY <1>4 DEF IsPrefix
  <2> QED BY <2>1 DEF Patches
<1>5. IsPrefix(s, s) BY DEF IsPrefix
<1> QED BY <1>1, <1>2, <1>3, <1>4, <1>5

(* A prefix of a prefix is a prefix.                                          *)
LEMMA PrefixTransitive ==
    ASSUME NEW S, NEW s \in Seq(S), NEW t \in Seq(S), NEW u \in Seq(S),
           IsPrefix(s, t), IsPrefix(t, u)
    PROVE  IsPrefix(s, u)
BY DEF IsPrefix

(* Replaying a log leaves out what is on the other one.  The recursive       *)
(* function exists, and its values are what they should be: both by          *)
(* induction on the length.                                                  *)
LEMMA ReplayedFacts ==
    ASSUME NEW S, NEW log \in Seq(S), NEW onto \in Seq(S)
    PROVE  /\ Replayed(log, onto) \in Seq(S)
           /\ Patches(Replayed(log, onto)) = Patches(log) \ Patches(onto)
<1> DEFINE P == Patches(onto)
           N == Len(log)
           Next_(g, k) == IF k = 0 THEN <<>>
                          ELSE IF log[k] \in P THEN g[k - 1] ELSE Append(g[k - 1], log[k])
           Rec(g, n) == g = [k \in 0 .. n |-> Next_(g, k)]
           Good(g, n) == \A k \in 0 .. n :
               g[k] \in Seq(S) /\ Patches(g[k]) = {log[i] : i \in 1 .. k} \ P
<1>0. N \in Nat /\ \A k \in 1 .. N : log[k] \in S OBVIOUS
<1>1. ASSUME NEW g, NEW n \in 0 .. N, Rec(g, n) PROVE Good(g, n)
  <2> DEFINE Bad == {k \in 0 .. n :
                       ~ (g[k] \in Seq(S) /\ Patches(g[k]) = {log[i] : i \in 1 .. k} \ P)}
  <2>1. Bad = {}
    <3> SUFFICES ASSUME Bad # {} PROVE FALSE OBVIOUS
    <3>1. Bad \in SUBSET Nat BY <1>0
    <3>2. PICK k \in Bad : \A m \in Bad : k <= m BY <3>1, Least
    <3>3. g[k] = Next_(g, k) BY <1>1
    <3>4. CASE k = 0
      <4>1. g[k] = <<>> BY <3>3, <3>4
      <4>2. <<>> \in Seq(S) /\ Patches(<<>>) = {} BY DEF Patches
      <4>3. {log[i] : i \in 1 .. k} = {} BY <3>4
      <4> QED BY <4>1, <4>2, <4>3
    <3>5. CASE k # 0
      <4>1. k - 1 \in 0 .. n /\ k - 1 \notin Bad /\ k \in 1 .. N /\ log[k] \in S
        BY <1>0, <3>1, <3>2, <3>5
      <4>2. g[k - 1] \in Seq(S) /\ Patches(g[k - 1]) = {log[i] : i \in 1 .. (k - 1)} \ P BY <4>1
      <4>3. {log[i] : i \in 1 .. k} = {log[i] : i \in 1 .. (k - 1)} \cup {log[k]}
        <5>1. 1 .. k = (1 .. (k - 1)) \cup {k} BY <4>1
        <5> QED BY <5>1
      <4>4. Append(g[k - 1], log[k]) \in Seq(S)
            /\ Patches(Append(g[k - 1], log[k])) = Patches(g[k - 1]) \cup {log[k]}
        BY <4>1, <4>2, LogFacts
      <4>5. CASE log[k] \in P
        <5>1. g[k] = g[k - 1] BY <3>3, <3>5, <4>5
        <5> QED BY <4>2, <4>3, <4>5, <5>1
      <4>6. CASE log[k] \notin P
        <5>1. g[k] = Append(g[k - 1], log[k]) BY <3>3, <3>5, <4>6
        <5> QED BY <4>2, <4>3, <4>4, <4>6, <5>1
      <4> QED BY <4>5, <4>6
    <3> QED BY <3>4, <3>5
  <2> QED BY <2>1
<1>2. \A n \in 0 .. N : \E g : Rec(g, n)
  <2> DEFINE Bad == {n \in 0 .. N : ~ \E g : Rec(g, n)}
  <2>1. Bad = {}
    <3> SUFFICES ASSUME Bad # {} PROVE FALSE OBVIOUS
    <3>1. Bad \in SUBSET Nat BY <1>0
    <3>2. PICK n \in Bad : \A m \in Bad : n <= m BY <3>1, Least
    <3>3. CASE n = 0
      <4> DEFINE h == [k \in 0 .. 0 |-> <<>>]
      <4>1. Rec(h, 0) OBVIOUS
      <4> QED BY <3>2, <3>3, <4>1
    <3>4. CASE n # 0
      <4>1. n - 1 \in 0 .. N /\ n - 1 \notin Bad /\ n \in Nat
        <5>1. n \in 0 .. N OBVIOUS
        <5>2. n - 1 \in 0 .. N /\ n \in Nat /\ ~ (n <= n - 1) BY <1>0, <3>4, <5>1
        <5> HIDE DEF Bad
        <5> QED BY <3>2, <5>2
      <4>2. PICK g : Rec(g, n - 1) BY <4>1
      <4> DEFINE h == [k \in 0 .. n |-> IF k = n THEN Next_(g, n) ELSE g[k]]
      <4>3. \A k \in 0 .. (n - 1) : g[k] = Next_(g, k) BY <4>2
      <4>4. \A k \in 0 .. n : h[k] = IF k = n THEN Next_(g, n) ELSE g[k] OBVIOUS
      <4>5. \A k \in 0 .. n : k # 0 => k - 1 \in 0 .. (n - 1) /\ h[k - 1] = g[k - 1] BY <4>1, <4>4
      <4>6. ASSUME NEW k \in 0 .. n PROVE h[k] = Next_(h, k)
        <5> HIDE DEF h
        <5>1. Next_(h, k) = Next_(g, k) BY <4>5
        <5>2. CASE k = n BY <4>4, <5>1, <5>2
        <5>3. CASE k # n
          <6>1. k \in 0 .. (n - 1) BY <4>1, <5>3
          <6> QED BY <4>3, <4>4, <5>1, <5>3, <6>1
        <5> QED BY <5>2, <5>3
      <4>7. h = [k \in 0 .. n |-> h[k]] OBVIOUS
      <4>8. Rec(h, n)
        <5> HIDE DEF h
        <5> QED BY <4>6, <4>7
      <4> QED BY <3>2, <4>8
    <3> QED BY <3>3, <3>4
  <2> QED BY <2>1
<1>3. PICK f : /\ f = CHOOSE g : Rec(g, N)
               /\ Replayed(log, onto) = f[N]
  BY DEF Replayed
<1>4. Rec(f, N)
  <2>1. N \in 0 .. N BY <1>0
  <2>2. \E g : Rec(g, N) BY <1>2, <2>1
  <2> HIDE DEF Rec
  <2> QED BY <1>3, <2>2
<1>5. Good(f, N) /\ N \in 0 .. N
  <2>1. N \in 0 .. N BY <1>0
  <2> HIDE DEF Good, Rec
  <2> QED BY <1>1, <1>4, <2>1
<1>6. {log[i] : i \in 1 .. N} = Patches(log) BY DEF Patches
<1> QED BY <1>3, <1>5, <1>6

(* A rebased log is made of its patches and of those it was put onto.        *)
LEMMA RebasedFacts ==
    ASSUME NEW S, NEW log \in Seq(S), NEW onto \in Seq(S)
    PROVE  /\ Rebased(log, onto) \in Seq(S)
           /\ Patches(Rebased(log, onto)) = Patches(log) \cup Patches(onto)
BY LogFacts, ReplayedFacts DEF Rebased

---------------------------------------------------------------------------
(* Types.                                                                    *)
Entry == Patch \cup {<<"no branch", 0>>}
Log == {NoBranch} \cup Seq(Patch)
TreeState == [kind : {"none", "git", "residue"}, env : EnvStatus \cup {"none"},
              attached : BOOLEAN, head : Log, dirty : Seq(Patch)]

RepoType == {upstream, tracking, primary} \subseteq Seq(Patch) /\ branch \in [Task -> Log]
TreeType == tree \in [Task -> TreeState]
ProcType == proc \in [Task -> ProcPc]
BookType ==
    /\ record \in [Task -> EnvStatus \cup {"none"}]
    /\ check \in [pc : CheckPc, todo : SUBSET Task]
    /\ sync \in [pc : {"idle", "read", "write"}, task : Task \cup {"none"},
                  status : EnvStatus \cup {"none"}]
    /\ sync.pc # "idle" => sync.task \in Task
    /\ sync.pc = "write" => sync.status \in EnvStatus
CountType ==
    /\ made \in [Task -> 0 .. MaxWork]
    /\ {asked, pushed, bundled, said} \subseteq SUBSET Task
    /\ commands \in 0 .. MaxCommands /\ foreign \in 0 .. MaxForeign
    /\ {faults, checks} \subseteq 0 .. MaxTrouble
Typed == RepoType /\ TreeType /\ ProcType /\ BookType /\ CountType

(* A sequence over a set is one over every larger set.                        *)
LEMMA SeqWidens == ASSUME NEW S, NEW T, S \subseteq T, NEW l \in Seq(S) PROVE l \in Seq(T)
OBVIOUS

(* What a log may hold.                                                      *)
LEMMA LogTypes ==
    /\ Log \subseteq Seq(Entry) /\ Seq(Patch) \subseteq Log /\ <<>> \in Seq(Patch)
    /\ Patches(<<>>) = {} /\ Patches(NoBranch) = {<<"no branch", 0>>}
    /\ \A l \in Log : l # NoBranch => l \in Seq(Patch)
    /\ NoBranch \notin Seq(Patch)
<1>1. NoBranch \in Seq(Entry) BY DEF Entry, NoBranch
<1>2. \A l \in Seq(Patch) : l \in Seq(Entry)
  <2>1. Patch \subseteq Entry BY DEF Entry
  <2> QED BY <2>1, SeqWidens
<1>3. Patches(<<>>) = {} /\ Patches(NoBranch) = {<<"no branch", 0>>}
  <2>1. DOMAIN <<>> = {} OBVIOUS
  <2>2. \A x : {<<x>>[k] : k \in DOMAIN <<x>>} = {x} OBVIOUS
  <2> QED BY <2>1, <2>2 DEF Patches, NoBranch
<1>4. ASSUME NoBranch \in Seq(Patch) PROVE FALSE
  <2>1. NoBranch[1] = <<"no branch", 0>> /\ Len(NoBranch) = 1 BY DEF NoBranch
  <2>2. \A p \in Patch : p[2] # 0
    BY TaskFlowAssumption DEF Patch
  <2>3. \A S : \A l \in Seq(S) : Len(l) = 1 => l[1] \in S OBVIOUS
  <2>4. NoBranch[1] \in Patch BY <1>4, <2>1, <2>3
  <2>5. <<"no branch", 0>>[2] = 0 OBVIOUS
  <2> QED BY <2>1, <2>2, <2>4, <2>5
<1>5. <<>> \in Seq(Patch) OBVIOUS
<1> QED BY <1>1, <1>2, <1>3, <1>4, <1>5 DEF Log

(* What the commands do to a worktree leaves it a worktree: write_task_env,   *)
(* append_event, git worktree remove.                                         *)
LEMMA TreeWrites ==
    ASSUME TreeType, NEW t \in Task,
           \/ UNCHANGED tree \/ AppendEvent(t) \/ RemoveTree(t)
           \/ \E status \in EnvStatus : WriteEnv(t, status)
    PROVE  TreeType'
<1>1. NoTree \in TreeState BY LogTypes DEF NoTree, TreeState, Log
<1>2. CASE RemoveTree(t) BY <1>1, <1>2 DEF RemoveTree, TreeType
<1>3. CASE AppendEvent(t) BY <1>3 DEF AppendEvent, TreeType, TreeState
<1>4. ASSUME NEW status \in EnvStatus, WriteEnv(t, status) PROVE TreeType'
  <2>1. tree' = [tree EXCEPT ![t] = [tree[t] EXCEPT !.env = status,
                                         !.kind = IF @ = "none" THEN "residue" ELSE @]]
    BY <1>4 DEF WriteEnv, TreeType
  <2>2. [tree[t] EXCEPT !.env = status, !.kind = IF @ = "none" THEN "residue" ELSE @] \in TreeState
    BY DEF TreeType, TreeState
  <2> QED BY <2>1, <2>2 DEF TreeType
<1> QED BY <1>2, <1>3, <1>4 DEF TreeType

(* A command moves from one of its places to another, and no other command    *)
(* moves.                                                                     *)
LEMMA Moves ==
    ASSUME ProcType, NEW t \in Task, UNCHANGED proc \/ \E pc \in ProcPc : Goto(t, pc)
    PROVE  ProcType' /\ \A u \in Task : u # t => proc'[u] = proc[u]
BY DEF ProcType, Goto

(* A command that fails counts as trouble, of which there is a bound.         *)
LEMMA Counts ==
    ASSUME CountType, UNCHANGED <<made, asked, pushed, bundled, said, commands, foreign, checks>>,
           Fine \/ \E c \in Commands : Fault(c)
    PROVE  CountType'
BY TaskFlowAssumption DEF CountType, Fine, Fault, Room

(* Nothing is open at the start, and everything has its type.                 *)
LEMMA InitTyped == Init => Typed
<1> SUFFICES ASSUME Init PROVE Typed OBVIOUS
<1>1. NoTree \in TreeState BY LogTypes DEF NoTree, TreeState, Log
<1>2. RepoType BY LogTypes DEF Init, RepoType, Log
<1> QED BY <1>1, <1>2, TaskFlowAssumption
        DEF Init, Typed, TreeType, ProcType, BookType, CountType, ProcPc, CheckPc

(* The git commands and the agent.                                           *)
LEMMA WorkTyped ==
    ASSUME Typed, NEW t \in Task,
           AgentEdits(t) \/ AddWorktree(t) \/ Commit(t) \/ FetchAndForward(t) \/ Rebase(t)
           \/ Merge(t) \/ Push(t) \/ Unbranch(t)
    PROVE  Typed'
<1> USE TaskFlowAssumption DEF Typed, repo, history, counters
<1>1. CASE AgentEdits(t)
  <2>1. made[t] \in 0 .. MaxWork /\ made[t] < MaxWork BY <1>1 DEF AgentEdits, CountType
  <2>2. <<t, made[t] + 1>> \in Patch BY <2>1 DEF Patch
  <2>3. Append(tree[t].dirty, <<t, made[t] + 1>>) \in Seq(Patch)
    BY <2>2, LogFacts DEF TreeType, TreeState
  <2>4. [tree[t] EXCEPT !.dirty = Append(tree[t].dirty, <<t, made[t] + 1>>)] \in TreeState
    BY <2>3 DEF TreeType, TreeState
  <2>5. TreeType' BY <1>1, <2>4 DEF AgentEdits, TreeType
  <2> QED BY <1>1, <2>1, <2>5 DEF AgentEdits, RepoType, ProcType, BookType, CountType
<1>2. CASE AddWorktree(t)
  <2>1. [NoTree EXCEPT !.kind = "git"] \in TreeState BY LogTypes DEF NoTree, TreeState, Log
  <2>2. TreeType' BY <1>2, <2>1 DEF AddWorktree, TreeType
  <2>3. RepoType' BY <1>2, LogTypes DEF AddWorktree, RepoType
  <2>4. ProcType' BY <1>2, Moves DEF AddWorktree, ProcPc
  <2>5. CountType' BY <1>2, Counts DEF AddWorktree, Commands
  <2> QED BY <1>2, <2>2, <2>3, <2>4, <2>5 DEF AddWorktree, BookType
<1>3. CASE Commit(t)
  <2>1. ProcType' BY <1>3, Moves DEF Commit, Fails, ProcPc
  <2>2. CASE Git(t) /\ HeadLog(t) # NoBranch
    <3> DEFINE log == HeadLog(t) \o tree[t].dirty
    <3>1. HeadLog(t) \in Seq(Patch) /\ tree[t].dirty \in Seq(Patch)
      BY <2>2, LogTypes DEF HeadLog, RepoType, TreeType, TreeState
    <3>2. log \in Seq(Patch) BY <3>1, LogFacts
    <3>3. /\ [tree[t] EXCEPT !.dirty = <<>>] \in TreeState
          /\ [tree[t] EXCEPT !.dirty = <<>>, !.head = log] \in TreeState
      BY <3>2, LogTypes DEF TreeType, TreeState
    <3>4. TreeType' BY <1>3, <2>2, <3>3 DEF Commit, TreeType
    <3>5. RepoType' BY <1>3, <2>2, <3>2, LogTypes DEF Commit, RepoType
    <3> QED BY <1>3, <2>1, <3>4, <3>5 DEF Commit, BookType, CountType
  <2>3. CASE ~(Git(t) /\ HeadLog(t) # NoBranch)
    <3>1. TreeType' BY <1>3, <2>3, TreeWrites DEF Commit
    <3> QED BY <1>3, <2>1, <2>3, <3>1 DEF Commit, RepoType, BookType, CountType
  <2> QED BY <2>2, <2>3
<1>4. CASE FetchAndForward(t)
  <2>1. ProcType' BY <1>4, Moves DEF FetchAndForward, Fails, ProcPc
  <2>2. RepoType' BY <1>4 DEF FetchAndForward, RepoType
  <2> QED BY <1>4, <2>1, <2>2 DEF FetchAndForward, TreeType, BookType, CountType
<1>5. CASE Rebase(t)
  <2>1. ProcType' BY <1>5, Moves DEF Rebase, Fails, ProcPc
  <2>2. CountType' BY <1>5, Counts DEF Rebase, Commands
  <2>3. CASE UNCHANGED <<branch, tree>>
    BY <1>5, <2>1, <2>2, <2>3 DEF Rebase, RepoType, TreeType, BookType
  <2>4. CASE ~UNCHANGED <<branch, tree>>
    <3>1. Git(t) /\ HeadLog(t) # NoBranch BY <1>5, <2>4 DEF Rebase
    <3>2. HeadLog(t) \in Seq(Patch) /\ tracking \in Seq(Patch)
      BY <3>1, LogTypes DEF HeadLog, RepoType, TreeType, TreeState
    <3>3. Rebased(HeadLog(t), tracking) \in Seq(Patch) BY <3>2, RebasedFacts
    <3>4. CASE tree[t].attached
      <4>1. branch' = [branch EXCEPT ![t] = Rebased(HeadLog(t), tracking)] /\ UNCHANGED tree
        BY <1>5, <2>4, <3>4 DEF Rebase, HeadLog, RepoType
      <4>2. RepoType' BY <1>5, <4>1, <3>3, LogTypes DEF Rebase, RepoType
      <4> QED BY <1>5, <2>1, <2>2, <4>1, <4>2 DEF Rebase, TreeType, BookType
    <3>5. CASE ~tree[t].attached
      <4>1. tree' = [tree EXCEPT ![t] = [tree[t] EXCEPT !.head = Rebased(HeadLog(t), tracking)]]
            /\ UNCHANGED branch
        BY <1>5, <2>4, <3>5 DEF Rebase, HeadLog, TreeType
      <4>2. [tree[t] EXCEPT !.head = Rebased(HeadLog(t), tracking)] \in TreeState
        BY <3>3, LogTypes DEF TreeType, TreeState
      <4>3. TreeType' BY <4>1, <4>2 DEF TreeType
      <4> QED BY <1>5, <2>1, <2>2, <4>1, <4>3 DEF Rebase, RepoType, BookType
    <3> QED BY <3>4, <3>5
  <2> QED BY <2>3, <2>4
<1>6. CASE Merge(t)
  <2>1. ProcType' BY <1>6, Moves DEF Merge, Fails, ProcPc
  <2>2. RepoType' BY <1>6, LogTypes DEF Merge, RepoType
  <2> QED BY <1>6, <2>1, <2>2 DEF Merge, TreeType, BookType, CountType
<1>7. CASE Push(t)
  <2>1. ProcType' BY <1>7, Moves DEF Push, Fails, ProcPc
  <2>2. RepoType' BY <1>7 DEF Push, RepoType
  <2>3. pushed' = pushed \/ pushed' = pushed \cup {t} BY <1>7 DEF Push
  <2>4. faults' \in 0 .. MaxTrouble BY <1>7 DEF Push, Fine, Fault, Room, CountType
  <2>5. CountType' BY <1>7, <2>3, <2>4 DEF Push, CountType
  <2> QED BY <1>7, <2>1, <2>2, <2>5 DEF Push, TreeType, BookType
<1>8. CASE Unbranch(t)
  <2>1. ProcType' BY <1>8, Moves DEF Unbranch, Fails, ProcPc
  <2>2. CountType' BY <1>8, Counts DEF Unbranch, Commands
  <2>3. RepoType' BY <1>8 DEF Unbranch, RepoType, Log
  <2>4. TreeType'
    <3>1. CASE tree' = [tree EXCEPT ![t].attached = FALSE, ![t].head = HeadLog(t)]
      <4>1. tree' = [tree EXCEPT ![t] = [tree[t] EXCEPT !.attached = FALSE, !.head = HeadLog(t)]]
        BY <3>1 DEF TreeType
      <4>2. [tree[t] EXCEPT !.attached = FALSE, !.head = HeadLog(t)] \in TreeState
        BY DEF TreeType, TreeState, HeadLog, RepoType
      <4> QED BY <4>1, <4>2 DEF TreeType
    <3>2. CASE AppendEvent(t) BY <3>2, TreeWrites
    <3> QED BY <1>8, <3>1, <3>2 DEF Unbranch
  <2> QED BY <1>8, <2>1, <2>2, <2>3, <2>4 DEF Unbranch, BookType
<1> QED BY <1>1, <1>2, <1>3, <1>4, <1>5, <1>6, <1>7, <1>8

(* Everything else: the bookkeeping of the commands and of the two processes  *)
(* beside them.                                                               *)
LEMMA FlowTyped ==
    ASSUME Typed, NEW t \in Task,
           OpenRecord(t) \/ Resume(t) \/ OpenEnv(t) \/ Pause(t) \/ PauseRecord(t)
           \/ CloseoutStarts(t) \/ Preflight(t) \/ CloseEnv(t) \/ Bundle(t) \/ RemoveWorktree(t)
           \/ Fail(t) \/ FailBundle(t) \/ Clear(t) \/ Killed(t)
    PROVE  Typed'
<1> USE TaskFlowAssumption DEF Typed, repo, history, counters
<1>0. /\ tree[t].env \in EnvStatus \cup {"none"}
      /\ {"open", "paused", "failed-closeout", "closed:success"} \subseteq EnvStatus
  BY DEF TreeType, TreeState, EnvStatus, Closed
<1>1. CASE OpenRecord(t)
  <2>1. ProcType' BY <1>1, Moves DEF OpenRecord, ProcPc
  <2>2. BookType' BY <1>0, <1>1 DEF OpenRecord, BookType
  <2>3. CountType' BY <1>1 DEF OpenRecord, Begins, CountType
  <2> QED BY <1>1, <2>1, <2>2, <2>3 DEF OpenRecord, RepoType, TreeType
<1>2. CASE Resume(t)
  <2>1. ProcType' BY <1>2, Moves DEF Resume, ProcPc
  <2>2. TreeType' BY <1>0, <1>2, TreeWrites DEF Resume
  <2> QED BY <1>2, <2>1, <2>2 DEF Resume, RepoType, BookType, CountType
<1>3. CASE OpenEnv(t)
  <2>1. ProcType' BY <1>3, Moves DEF OpenEnv, ProcPc
  <2>2. TreeType' BY <1>0, <1>3, TreeWrites DEF OpenEnv
  <2> QED BY <1>3, <2>1, <2>2 DEF OpenEnv, RepoType, BookType, CountType
<1>4. CASE Pause(t)
  <2>1. ProcType' BY <1>4, Moves DEF Pause, ProcPc
  <2>2. TreeType' BY <1>0, <1>4, TreeWrites DEF Pause
  <2>3. CountType' BY <1>4 DEF Pause, Begins, CountType
  <2> QED BY <1>4, <2>1, <2>2, <2>3 DEF Pause, RepoType, BookType
<1>5. CASE PauseRecord(t)
  <2>1. ProcType' BY <1>5, Moves DEF PauseRecord, ProcPc
  <2>2. BookType' BY <1>0, <1>5 DEF PauseRecord, BookType
  <2> QED BY <1>5, <2>1, <2>2 DEF PauseRecord, RepoType, TreeType, CountType
<1>6. CASE CloseoutStarts(t)
  <2>1. ProcType' BY <1>6, Moves DEF CloseoutStarts, ProcPc
  <2>2. BookType' BY <1>0, <1>6 DEF CloseoutStarts, BookType
  <2>3. CountType' BY <1>6 DEF CloseoutStarts, Begins, CountType
  <2> QED BY <1>6, <2>1, <2>2, <2>3 DEF CloseoutStarts, RepoType, TreeType
<1>7. CASE Preflight(t)
  <2>1. ProcType' BY <1>7, Moves DEF Preflight, Fails, ProcPc
  <2>2. TreeType' BY <1>7, TreeWrites DEF Preflight
  <2>3. CountType' BY <1>7, Counts DEF Preflight, Commands
  <2> QED BY <1>7, <2>1, <2>2, <2>3 DEF Preflight, RepoType, BookType
<1>8. CASE CloseEnv(t)
  <2>1. ProcType'
    <3>1. proc' = [proc EXCEPT ![t] = "bundle"] \/ proc' = [proc EXCEPT ![t] = "fail"]
      BY <1>8 DEF CloseEnv, Fails, Goto
    <3> QED BY <3>1, Moves DEF Goto, ProcPc
  <2>2. TreeType' BY <1>0, <1>8, TreeWrites DEF CloseEnv
  <2> QED BY <1>8, <2>1, <2>2 DEF CloseEnv, RepoType, BookType, CountType
<1>9. CASE Bundle(t)
  <2>1. ProcType' BY <1>9, Moves DEF Bundle, Fails, ProcPc
  <2>2. TreeType' BY <1>9, TreeWrites DEF Bundle
  <2>3. CountType' BY <1>9 DEF Bundle, Fine, Fault, Room, CountType
  <2> QED BY <1>9, <2>1, <2>2, <2>3 DEF Bundle, RepoType, BookType
<1>10. CASE RemoveWorktree(t)
  <2>1. ProcType' BY <1>10, Moves DEF RemoveWorktree, Fails, ProcPc
  <2>2. TreeType' BY <1>10, TreeWrites DEF RemoveWorktree
  <2>3. CountType' BY <1>10 DEF RemoveWorktree, Fine, Fault, Room, CountType
  <2> QED BY <1>10, <2>1, <2>2, <2>3 DEF RemoveWorktree, RepoType, BookType
<1>11. CASE Fail(t)
  <2>1. ProcType' BY <1>11, Moves DEF Fail, ProcPc
  <2>2. TreeType' BY <1>0, <1>11, TreeWrites DEF Fail
  <2> QED BY <1>11, <2>1, <2>2 DEF Fail, RepoType, BookType, CountType
<1>12. CASE FailBundle(t)
  <2>1. ProcType' BY <1>12, Moves DEF FailBundle, ProcPc
  <2>2. CountType' BY <1>12 DEF FailBundle, Fine, Fault, Room, CountType
  <2> QED BY <1>12, <2>1, <2>2 DEF FailBundle, RepoType, TreeType, BookType
<1>13. CASE Clear(t)
  <2>1. TreeType' BY <1>13, TreeWrites DEF Clear
  <2>2. RepoType' BY <1>13 DEF Clear, RepoType, Log
  <2>3. CountType' BY <1>13 DEF Clear, Begins, CountType
  <2> QED BY <1>13, <2>1, <2>2, <2>3 DEF Clear, ProcType, BookType
<1>14. CASE Killed(t)
  <2>1. ProcType' BY <1>14, Moves DEF Killed, ProcPc
  <2>2. CountType' BY <1>14 DEF Killed, Room, CountType
  <2> QED BY <1>14, <2>1, <2>2 DEF Killed, RepoType, TreeType, BookType
<1> QED BY <1>1, <1>2, <1>3, <1>4, <1>5, <1>6, <1>7, <1>8, <1>9, <1>10, <1>11, <1>12, <1>13, <1>14

(* The same for a blocked or failed closeout, and for the mark every closeout *)
(* ends with.                                                                 *)
LEMMA DropTyped ==
    ASSUME Typed, NEW t \in Task, NEW o \in {"success", "blocked", "failed"},
           \/ Mark(t, o)
           \/ o # "success" /\ (DropStarts(t, o) \/ DropBundle(t, o) \/ DropRemove(t, o)
                                \/ DropReceipt(t, o))
    PROVE  Typed'
<1> USE TaskFlowAssumption DEF Typed, repo, history, counters
<1>0. /\ tree[t].env \in EnvStatus \cup {"none"}
      /\ ClosedAs[o] \in EnvStatus /\ MarkAt[o] \in ProcPc
      /\ o # "success" => {BundleAt[o], DropAt[o], ReceiptAt[o]} \subseteq ProcPc
  BY DEF TreeType, TreeState, EnvStatus, Closed, ClosedAs, MarkAt, BundleAt, DropAt, ReceiptAt,
         ProcPc
<1>1. CASE Mark(t, o)
  <2>1. ProcType' BY <1>1, Moves DEF Mark, ProcPc
  <2>2. BookType' BY <1>0, <1>1 DEF Mark, BookType
  <2> QED BY <1>1, <2>1, <2>2 DEF Mark, RepoType, TreeType, CountType
<1>2. CASE o # "success" /\ DropStarts(t, o)
  <2>1. ProcType' BY <1>0, <1>2, Moves DEF DropStarts
  <2>2. BookType' BY <1>0, <1>2 DEF DropStarts, BookType
  <2>3. TreeType' BY <1>0, <1>2, TreeWrites DEF DropStarts
  <2>4. CountType' BY <1>2 DEF DropStarts, Begins, CountType
  <2> QED BY <1>2, <2>1, <2>2, <2>3, <2>4 DEF DropStarts, RepoType
<1>3. CASE o # "success" /\ DropBundle(t, o)
  <2>1. ProcType'
    <3>1. "idle" \in ProcPc BY DEF ProcPc
    <3> QED BY <1>0, <1>3, <3>1, Moves DEF DropBundle
  <2>2. CountType' BY <1>3 DEF DropBundle, Fine, Fault, Room, CountType
  <2> QED BY <1>3, <2>1, <2>2 DEF DropBundle, RepoType, TreeType, BookType
<1>4. CASE o # "success" /\ DropRemove(t, o)
  <2>1. ProcType' BY <1>0, <1>4, Moves DEF DropRemove
  <2>2. TreeType' BY <1>4, TreeWrites DEF DropRemove
  <2>3. RepoType' BY <1>4 DEF DropRemove, RepoType, Log
  <2>4. CountType' BY <1>4, Counts DEF DropRemove, Commands
  <2> QED BY <1>4, <2>1, <2>2, <2>3, <2>4 DEF DropRemove, BookType
<1>5. CASE o # "success" /\ DropReceipt(t, o)
  <2>1. ProcType'
    <3>1. "idle" \in ProcPc BY DEF ProcPc
    <3> QED BY <1>0, <1>5, <3>1, Moves DEF DropReceipt
  <2>2. CountType' BY <1>5, Counts DEF DropReceipt, Commands
  <2> QED BY <1>5, <2>1, <2>2 DEF DropReceipt, RepoType, TreeType, BookType
<1> QED BY <1>1, <1>2, <1>3, <1>4, <1>5

(* The same for other people's pushes, terminal-check and the record          *)
(* synchronisation.                                                           *)
LEMMA BesideTyped == Typed /\ (SomebodyPushes \/ CheckStep \/ SyncStep) => Typed'
<1> SUFFICES ASSUME Typed, SomebodyPushes \/ CheckStep \/ SyncStep PROVE Typed' OBVIOUS
<1> USE TaskFlowAssumption DEF Typed, repo, history, counters
<1>1. CASE SomebodyPushes
  <2>1. foreign + 1 \in 1 .. MaxForeign BY <1>1 DEF SomebodyPushes, CountType
  <2>2. <<"foreign", foreign + 1>> \in Patch BY <2>1 DEF Patch
  <2>3. RepoType' BY <1>1, <2>2, LogFacts DEF SomebodyPushes, RepoType
  <2>4. CountType' BY <1>1, <2>1 DEF SomebodyPushes, CountType
  <2> QED BY <1>1, <2>3, <2>4 DEF SomebodyPushes, TreeType, ProcType, BookType
<1>2. CASE CheckLists
  <2> DEFINE next == CheckNext(check.pc)
  <2>1. check.pc \in CheckPc /\ next \in CheckPc BY DEF BookType, CheckPc, CheckNext
  <2>2. Listed(next) \subseteq SUBSET Task BY <2>1 DEF CheckPc, Listed
  <2>3. PICK todo \in Listed(next) :
             /\ check' = [pc |-> next, todo |-> todo]
             /\ asked' = asked \cup {t \in todo : /\ next # "residue"
                                         /\ tree[t].env \in Closed \cup {"paused", "none"}}
    BY <1>2 DEF CheckLists
  <2>4. BookType' BY <1>2, <2>1, <2>2, <2>3 DEF CheckLists, BookType
  <2>5. asked' \subseteq Task BY <2>2, <2>3 DEF CountType
  <2>6. checks' \in 0 .. MaxTrouble BY <1>2 DEF CheckLists, Room, CountType
  <2>7. CountType' BY <1>2, <2>5, <2>6 DEF CheckLists, CountType
  <2> QED BY <1>2, <2>4, <2>7 DEF CheckLists, RepoType, TreeType, ProcType
<1>3. ASSUME NEW t \in Task,
             ClearResidue(t) \/ ClearFinished(t) \/ ClearPaused(t) \/ ClearOrphan(t)
      PROVE  Typed'
  <2>1. TreeType' BY <1>3, TreeWrites DEF ClearResidue, ClearFinished, ClearPaused, ClearOrphan
  <2>2. RepoType'
    BY <1>3 DEF ClearResidue, ClearFinished, ClearPaused, ClearOrphan, RepoType, Log
  <2>3. CheckDone(t) \/ CheckAborts
    BY <1>3 DEF ClearResidue, ClearFinished, ClearPaused, ClearOrphan
  <2>4. check' \in [pc : CheckPc, todo : SUBSET Task]
    BY <2>3 DEF BookType, CheckDone, CheckAborts, CheckPc
  <2>5. BookType'
    BY <1>3, <2>4 DEF ClearResidue, ClearFinished, ClearPaused, ClearOrphan, BookType
  <2> QED BY <1>3, <2>1, <2>2, <2>5
          DEF ClearResidue, ClearFinished, ClearPaused, ClearOrphan, ProcType, CountType
<1>4. CASE SyncStep
  <2>1. BookType'
    <3>1. ASSUME NEW t \in Task, SyncLoads(t) PROVE BookType'
      <4>1. record[t] \in EnvStatus \cup {"none"} BY DEF BookType
      <4> QED BY <3>1, <4>1 DEF SyncLoads, BookType
    <3>2. CASE SyncReads
      <4>1. sync.task \in Task /\ tree[sync.task].env \in EnvStatus \cup {"none"}
        BY <3>2 DEF SyncReads, BookType, TreeType, TreeState
      <4> QED BY <3>2, <4>1 DEF SyncReads, NoSync, BookType
    <3>3. CASE SyncWrites BY <3>3 DEF SyncWrites, NoSync, BookType
    <3> QED BY <1>4, <3>1, <3>2, <3>3 DEF SyncStep
  <2> QED BY <1>4, <2>1
          DEF SyncStep, SyncLoads, SyncReads, SyncWrites, RepoType, TreeType, ProcType, CountType
<1> QED BY <1>1, <1>2, <1>3, <1>4 DEF CheckStep

(* Every variable keeps its type.                                            *)
LEMMA StepTyped == Typed /\ [Next]_vars => Typed'
<1> SUFFICES ASSUME Typed, [Next]_vars PROVE Typed' OBVIOUS
<1>1. ASSUME NEW t \in Task, AgentEdits(t) \/ Killed(t) \/ TaskStep(t) PROVE Typed'
  BY <1>1, WorkTyped, FlowTyped, DropTyped DEF TaskStep, SuccessPhase
<1>2. CASE UNCHANGED vars
  BY <1>2 DEF vars, repo, history, counters, Typed, RepoType, TreeType, ProcType, BookType,
              CountType
<1> QED BY <1>1, <1>2, BesideTyped DEF Next

(* Every variable has its type, and every counter keeps to its bound.         *)
THEOREM TypeCorrect == Spec => []TypeOK
<1>1. Typed => TypeOK
  BY DEF Typed, RepoType, TreeType, ProcType, BookType, CountType, TypeOK, Log, TreeState
<1> QED BY <1>1, InitTyped, StepTyped, PTL DEF Spec

---------------------------------------------------------------------------
(* What writing to a worktree, or removing it, does.                          *)
LEMMA TreeAfter ==
    ASSUME TreeType, NEW t \in Task
    PROVE  /\ \A status : WriteEnv(t, status) =>
                  /\ \A u \in Task : u # t => tree'[u] = tree[u]
                  /\ tree'[t].env = status /\ tree'[t].attached = tree[t].attached
                  /\ tree'[t].head = tree[t].head /\ tree'[t].dirty = tree[t].dirty
                  /\ tree'[t].kind = IF tree[t].kind = "none" THEN "residue" ELSE tree[t].kind
           /\ AppendEvent(t) =>
                  /\ \A u \in Task : u # t => tree'[u] = tree[u]
                  /\ tree'[t].env = tree[t].env /\ tree'[t].attached = tree[t].attached
                  /\ tree'[t].head = tree[t].head /\ tree'[t].dirty = tree[t].dirty
                  /\ tree'[t].kind = IF tree[t].kind = "none" THEN "residue" ELSE tree[t].kind
           /\ RemoveTree(t) => tree'[t] = NoTree /\ \A u \in Task : u # t => tree'[u] = tree[u]
<1> DEFINE Wrote(r) == /\ \A u \in Task : u # t => tree'[u] = tree[u]
                       /\ tree'[t] = r
<1>0. tree[t] \in TreeState /\ DOMAIN tree = Task BY DEF TreeType
<1>1. ASSUME NEW status, WriteEnv(t, status)
      PROVE  Wrote([tree[t] EXCEPT !.env = status, !.kind = IF @ = "none" THEN "residue" ELSE @])
  BY <1>1 DEF WriteEnv, TreeType
<1>2. ASSUME AppendEvent(t)
      PROVE  Wrote([tree[t] EXCEPT !.kind = IF @ = "none" THEN "residue" ELSE @])
  BY <1>2 DEF AppendEvent, TreeType
<1>3. ASSUME RemoveTree(t) PROVE Wrote(NoTree) BY <1>3 DEF RemoveTree, TreeType
<1>4. ASSUME NEW r, r = [tree[t] EXCEPT !.kind = IF @ = "none" THEN "residue" ELSE @]
      PROVE  /\ r.env = tree[t].env /\ r.attached = tree[t].attached
             /\ r.head = tree[t].head /\ r.dirty = tree[t].dirty
             /\ r.kind = IF tree[t].kind = "none" THEN "residue" ELSE tree[t].kind
  BY <1>0, <1>4 DEF TreeState
<1>5. ASSUME AppendEvent(t)
      PROVE  /\ \A u \in Task : u # t => tree'[u] = tree[u]
             /\ tree'[t].env = tree[t].env /\ tree'[t].attached = tree[t].attached
             /\ tree'[t].head = tree[t].head /\ tree'[t].dirty = tree[t].dirty
             /\ tree'[t].kind = IF tree[t].kind = "none" THEN "residue" ELSE tree[t].kind
  <2>1. PICK r : r = [tree[t] EXCEPT !.kind = IF @ = "none" THEN "residue" ELSE @] OBVIOUS
  <2>2. Wrote(r) BY <1>2, <1>5, <2>1
  <2>3. /\ r.env = tree[t].env /\ r.attached = tree[t].attached
        /\ r.head = tree[t].head /\ r.dirty = tree[t].dirty
        /\ r.kind = IF tree[t].kind = "none" THEN "residue" ELSE tree[t].kind
    BY <1>4, <2>1
  <2> QED BY <2>2, <2>3
<1>6. ASSUME NEW status, WriteEnv(t, status)
      PROVE  /\ \A u \in Task : u # t => tree'[u] = tree[u]
             /\ tree'[t].env = status /\ tree'[t].attached = tree[t].attached
             /\ tree'[t].head = tree[t].head /\ tree'[t].dirty = tree[t].dirty
             /\ tree'[t].kind = IF tree[t].kind = "none" THEN "residue" ELSE tree[t].kind
  <2>1. PICK r : r = [tree[t] EXCEPT !.env = status, !.kind = IF @ = "none" THEN "residue" ELSE @]
    OBVIOUS
  <2>2. Wrote(r) BY <1>1, <1>6, <2>1
  <2>3. /\ r.env = status /\ r.attached = tree[t].attached
        /\ r.head = tree[t].head /\ r.dirty = tree[t].dirty
        /\ r.kind = IF tree[t].kind = "none" THEN "residue" ELSE tree[t].kind
    BY <1>0, <2>1 DEF TreeState
  <2> QED BY <2>2, <2>3
<1> QED BY <1>3, <1>5, <1>6

(* Who may say closed:success: all of it goes back to a closeout that pushed. *)
LatePhases == {"close", "bundle", "unbranch", "remove", "mark:success"}
ClaimsSuccess(t) == record[t] = "closed:success" \/ tree[t].env = "closed:success"
                    \/ proc[t] \in LatePhases
SuccessPushed ==
    /\ \A t \in Task : ClaimsSuccess(t) => t \in pushed
    /\ sync.status = "closed:success" => sync.task \in pushed

(* Nothing says closed:success of a task that has not pushed: records,        *)
(* task.env files, and the status sync_task_flow_record_for_worktree carries  *)
(* from a read to its write.                                                  *)
LEMMA SuccessStep == Typed /\ SuccessPushed /\ [Next]_vars => SuccessPushed'
<1> SUFFICES ASSUME Typed, SuccessPushed, [Next]_vars PROVE SuccessPushed' OBVIOUS
<1> USE DEF repo, history, counters
<1>0. /\ \A u \in Task : tree[u] \in TreeState
      /\ DOMAIN proc = Task /\ DOMAIN record = Task /\ DOMAIN tree = Task
      /\ NoTree.env = "none"
      /\ ~ \E o \in {"blocked", "failed"} : ClosedAs[o] = "closed:success"
  BY DEF Typed, TreeType, ProcType, BookType, NoTree, ClosedAs
<1>1. ASSUME NEW t \in Task, sync' = sync, pushed \subseteq pushed',
             \A u \in Task : u # t => /\ proc'[u] = proc[u] /\ record'[u] = record[u]
                                      /\ tree'[u] = tree[u],
             ClaimsSuccess(t)' => ClaimsSuccess(t) \/ t \in pushed'
      PROVE  SuccessPushed'
  BY <1>1 DEF SuccessPushed, ClaimsSuccess
<1>2. ASSUME NEW t \in Task, AgentEdits(t) \/ Killed(t) \/ TaskStep(t) PROVE SuccessPushed'
  <2> DEFINE Same == /\ sync' = sync /\ pushed \subseteq pushed'
                     /\ \A u \in Task : u # t => /\ proc'[u] = proc[u] /\ record'[u] = record[u]
                                                 /\ tree'[u] = tree[u]
             Calm == ClaimsSuccess(t)' => ClaimsSuccess(t) \/ t \in pushed'
  <2> SUFFICES Same /\ Calm BY <1>1
  <2>1. CASE AgentEdits(t) BY <1>0, <2>1 DEF AgentEdits, ClaimsSuccess, TreeState
  <2>2. CASE Killed(t) BY <1>0, <2>2 DEF Killed, Goto, ClaimsSuccess, LatePhases
  <2>3. CASE OpenRecord(t) BY <1>0, <2>3 DEF OpenRecord, Goto, ClaimsSuccess, LatePhases
  <2>4. CASE Resume(t) BY <1>0, <2>4, TreeAfter DEF Typed, Resume, Goto, ClaimsSuccess, LatePhases
  <2>5. CASE AddWorktree(t)
    <3>1. [NoTree EXCEPT !.kind = "git"].env = "none" BY DEF NoTree
    <3> QED BY <1>0, <2>5, <3>1 DEF AddWorktree, Goto, ClaimsSuccess, LatePhases
  <2>6. CASE OpenEnv(t) BY <1>0, <2>6, TreeAfter DEF Typed, OpenEnv, Goto, ClaimsSuccess, LatePhases
  <2>7. CASE Pause(t) BY <1>0, <2>7, TreeAfter DEF Typed, Pause, Goto, ClaimsSuccess, LatePhases
  <2>8. CASE PauseRecord(t) BY <1>0, <2>8 DEF PauseRecord, Goto, ClaimsSuccess, LatePhases
  <2>9. CASE Clear(t) BY <1>0, <2>9, TreeAfter DEF Typed, Clear, ClaimsSuccess, LatePhases
  <2>10. CASE CloseoutStarts(t) BY <1>0, <2>10 DEF CloseoutStarts, Goto, ClaimsSuccess, LatePhases
  <2>11. CASE Preflight(t)
    BY <1>0, <2>11, TreeAfter DEF Typed, Preflight, Fails, Goto, ClaimsSuccess, LatePhases
  <2>12. CASE Commit(t)
    <3>1. CASE AppendEvent(t)
      BY <1>0, <2>12, <3>1, TreeAfter DEF Typed, Commit, Fails, Goto, ClaimsSuccess, LatePhases
    <3>2. CASE ~AppendEvent(t)
      BY <1>0, <2>12, <3>2 DEF Commit, Goto, ClaimsSuccess, LatePhases, TreeState
    <3> QED BY <3>1, <3>2
  <2>13. CASE FetchAndForward(t)
    BY <1>0, <2>13 DEF FetchAndForward, Fails, Goto, ClaimsSuccess, LatePhases
  <2>14. CASE Rebase(t)
    BY <1>0, <2>14 DEF Rebase, Fails, Goto, ClaimsSuccess, LatePhases, TreeState
  <2>15. CASE Merge(t) BY <1>0, <2>15 DEF Merge, Fails, Goto, ClaimsSuccess, LatePhases
  <2>16. CASE Push(t) BY <1>0, <2>16 DEF Push, Fails, Goto, ClaimsSuccess, LatePhases
  <2>17. CASE CloseEnv(t)
    BY <1>0, <2>17, TreeAfter DEF Typed, CloseEnv, Fails, Goto, ClaimsSuccess, LatePhases
  <2>18. CASE Bundle(t)
    BY <1>0, <2>18, TreeAfter DEF Typed, Bundle, Fails, Goto, ClaimsSuccess, LatePhases
  <2>19. CASE Unbranch(t)
    <3>1. CASE AppendEvent(t)
      BY <1>0, <2>19, <3>1, TreeAfter DEF Typed, Unbranch, Fails, Goto, ClaimsSuccess, LatePhases
    <3>2. CASE ~AppendEvent(t)
      BY <1>0, <2>19, <3>2 DEF Unbranch, Fails, Goto, ClaimsSuccess, LatePhases, TreeState
    <3> QED BY <3>1, <3>2
  <2>20. CASE RemoveWorktree(t)
    BY <1>0, <2>20, TreeAfter DEF Typed, RemoveWorktree, Fails, Goto, ClaimsSuccess, LatePhases
  <2>21. CASE Fail(t) BY <1>0, <2>21, TreeAfter DEF Typed, Fail, Goto, ClaimsSuccess, LatePhases
  <2>22. CASE FailBundle(t) BY <1>0, <2>22 DEF FailBundle, Goto, ClaimsSuccess, LatePhases
  <2>23. ASSUME NEW o \in {"blocked", "failed"},
                DropStarts(t, o) \/ DropBundle(t, o) \/ DropRemove(t, o) \/ DropReceipt(t, o)
         PROVE  Same /\ Calm
    <3> DEFINE Drops == {BundleAt[o], DropAt[o], ReceiptAt[o], MarkAt[o], "idle"}
    <3>1. Drops \cap LatePhases = {}
      BY DEF BundleAt, DropAt, ReceiptAt, MarkAt, LatePhases
    <3>2. \E pc \in Drops : Goto(t, pc)
      BY <2>23 DEF DropStarts, DropBundle, DropRemove, DropReceipt
    <3>3. proc'[t] \notin LatePhases /\ \A u \in Task : u # t => proc'[u] = proc[u]
      BY <1>0, <3>1, <3>2 DEF Goto
    <3>4. CASE DropStarts(t, o)
      BY <1>0, <3>3, <3>4, TreeAfter DEF Typed, DropStarts, ClaimsSuccess
    <3>5. CASE DropRemove(t, o)
      BY <1>0, <3>3, <3>5, TreeAfter DEF Typed, DropRemove, ClaimsSuccess
    <3>6. CASE DropBundle(t, o) \/ DropReceipt(t, o)
      BY <1>0, <3>3, <3>6 DEF DropBundle, DropReceipt, ClaimsSuccess
    <3> QED BY <2>23, <3>4, <3>5, <3>6
  <2>24. ASSUME NEW o \in {"success", "blocked", "failed"}, Mark(t, o) PROVE Same /\ Calm
    <3>1. o = "success" => proc[t] \in LatePhases BY <2>24 DEF Mark, MarkAt, LatePhases
    <3>2. o # "success" => ClosedAs[o] # "closed:success" BY <1>0
    <3> QED BY <1>0, <2>24, <3>1, <3>2 DEF Mark, Goto, ClaimsSuccess, LatePhases
  <2> QED BY <1>2, <2>1, <2>2, <2>3, <2>4, <2>5, <2>6, <2>7, <2>8, <2>9, <2>10, <2>11, <2>12,
             <2>13, <2>14, <2>15, <2>16, <2>17, <2>18, <2>19, <2>20, <2>21, <2>22, <2>23, <2>24
          DEF TaskStep, SuccessPhase
<1>3. CASE SomebodyPushes \/ CheckLists \/ UNCHANGED vars
  BY <1>3 DEF SomebodyPushes, CheckLists, vars, SuccessPushed, ClaimsSuccess
<1>4. ASSUME NEW t \in Task,
             ClearResidue(t) \/ ClearFinished(t) \/ ClearPaused(t) \/ ClearOrphan(t)
      PROVE  SuccessPushed'
  <2>1. UNCHANGED tree \/ RemoveTree(t)
    BY <1>4 DEF ClearResidue, ClearFinished, ClearPaused, ClearOrphan
  <2>2. UNCHANGED <<record, proc, sync, pushed>>
    BY <1>4 DEF ClearResidue, ClearFinished, ClearPaused, ClearOrphan
  <2>3. TreeType BY DEF Typed
  <2>4. ClaimsSuccess(t)' => ClaimsSuccess(t)
    BY <1>0, <2>1, <2>2, <2>3, TreeAfter DEF ClaimsSuccess
  <2> QED BY <1>1, <2>1, <2>2, <2>3, <2>4, TreeAfter
<1>5. CASE SyncStep
  <2>1. ASSUME NEW t \in Task, SyncLoads(t) PROVE SuccessPushed'
    <3>1. \A u \in Task : ClaimsSuccess(u)' <=> ClaimsSuccess(u)
      BY <2>1 DEF SyncLoads, ClaimsSuccess
    <3> QED BY <2>1, <3>1 DEF SyncLoads, SuccessPushed, ClaimsSuccess
  <2>2. CASE SyncReads
    <3>1. sync.task \in Task /\ sync \in [pc : {"idle", "read", "write"},
                                          task : Task \cup {"none"},
                                          status : EnvStatus \cup {"none"}]
      BY <2>2 DEF SyncReads, Typed, BookType
    <3> QED BY <2>2, <3>1 DEF SyncReads, NoSync, SuccessPushed, ClaimsSuccess
  <2>3. CASE SyncWrites
    <3>1. sync.task \in Task BY <2>3 DEF SyncWrites, Typed, BookType
    <3> QED BY <1>0, <2>3, <3>1 DEF SyncWrites, NoSync, SuccessPushed, ClaimsSuccess
  <2> QED BY <1>5, <2>1, <2>2, <2>3 DEF SyncStep
<1> QED BY <1>2, <1>3, <1>4, <1>5 DEF Next, CheckStep

(* A record says closed:success only if a closeout of that task has pushed,   *)
(* although the closeout writes it after its push, its cleanup, and every     *)
(* synchronisation, from a task.env read earlier (task_command,               *)
(* sync_task_flow_record_for_worktree).                                       *)
THEOREM SuccessDelivered == Spec => []RecordSuccessIsDelivered
<1>1. Init => SuccessPushed
  BY DEF Init, SuccessPushed, ClaimsSuccess, LatePhases, NoTree
<1>2. SuccessPushed => RecordSuccessIsDelivered
  BY DEF SuccessPushed, ClaimsSuccess, RecordSuccessIsDelivered
<1> QED BY <1>1, <1>2, InitTyped, StepTyped, SuccessStep, PTL DEF Spec

---------------------------------------------------------------------------
(* The inductive invariant.                                                  *)
W(log) == WorkOf \cap Patches(log)
OwnWork(t) == {p \in WorkOf : p[1] = t}
InBase(p) == p \in Patches(primary) \cup Patches(upstream)

(* Nothing is in the base branch, here or there, that no agent has made, and *)
(* the tracking branch is behind the remote.                                 *)
BaseFine == /\ W(upstream) \cup W(tracking) \cup W(primary) \subseteq MadeWork
            /\ W(tracking) \subseteq W(upstream)

(* A directory that is no worktree holds no work, a worktree has commits of  *)
(* its own only while its HEAD is detached, and then the branch is gone; all *)
(* it holds somebody has made, and what it has of other tasks is in the base *)
(* branch.                                                                   *)
TaskFine(t) ==
    /\ ~Git(t) => tree[t].attached /\ tree[t].dirty = <<>>
    /\ tree[t].attached => tree[t].head = <<>>
    /\ ~tree[t].attached => branch[t] = NoBranch
    /\ W(branch[t]) \cup W(tree[t].head) \cup W(tree[t].dirty) \subseteq MadeWork
    /\ \A p \in W(branch[t]) \cup W(tree[t].head) : p[1] = t \/ InBase(p)
    /\ \A p \in W(tree[t].dirty) : p[1] = t

(* Whose work may be thrown away.                                            *)
Dropping(t) == \E o \in {"blocked", "failed"} :
                  proc[t] \in {BundleAt[o], DropAt[o], ReceiptAt[o], MarkAt[o]}
GivenUp ==
    /\ \A t \in Task : Dropping(t) => t \in asked
    /\ check.pc \in {"terminal", "orphan", "paused"} => check.todo \subseteq asked

(* What a closeout has reached at each of its phases.                        *)
Working == {"fetch", "rebase", "merge", "push", "close", "bundle", "unbranch", "remove"}
Phase(t) ==
    /\ proc[t] \in Working => tree[t].dirty = <<>>
    /\ proc[t] \in {"push", "close", "bundle", "unbranch"}
       => \/ branch[t] = NoBranch /\ ~Git(t)
          \/ branch[t] # NoBranch /\ IsPrefix(branch[t], primary)
    /\ proc[t] \in {"close", "bundle", "unbranch", "remove"}
       => OwnWork(t) \cap Patches(primary) \subseteq Patches(upstream)
    /\ proc[t] \in {"unbranch", "remove"} => t \in bundled
    /\ proc[t] = "remove" => /\ branch[t] = NoBranch
                             /\ OwnWork(t) \cap Patches(tree[t].head) \subseteq Patches(upstream)
Phases == \A t \in Task : Phase(t)

KeepInv == BaseFine /\ (\A t \in Task : TaskFine(t)) /\ GivenUp /\ Phases

(* Most steps leave the histories alone, or throw away a branch or a worktree. *)
KeptTree(u) == /\ tree'[u].attached = tree[u].attached /\ tree'[u].head = tree[u].head
               /\ tree'[u].dirty = tree[u].dirty /\ Git(u)' = Git(u)
Quiet == /\ UNCHANGED <<upstream, tracking, primary, branch, made, said>>
         /\ asked \subseteq asked'
         /\ \A u \in Task : KeptTree(u)
Thinning == /\ UNCHANGED <<upstream, tracking, primary, made>>
            /\ asked \subseteq asked'
            /\ \A u \in Task : /\ KeptTree(u) \/ tree'[u] = NoTree
                               /\ branch'[u] \in {branch[u], NoBranch}
(* The rest of a task's state, as far as Phases is about it.                   *)
Apart(t) == /\ \A u \in Task : u # t => proc'[u] = proc[u] /\ (u \in bundled => u \in bundled')
            /\ check' = check

(* These steps of the commands leave every history alone.                     *)
LEMMA QuietActions ==
    ASSUME Typed, NEW t \in Task,
           OpenRecord(t) \/ Resume(t) \/ OpenEnv(t) \/ Pause(t) \/ PauseRecord(t)
           \/ CloseoutStarts(t) \/ Preflight(t) \/ Fail(t) \/ FailBundle(t) \/ Killed(t)
           \/ CloseEnv(t) \/ Bundle(t)
    PROVE  Quiet /\ Apart(t)
<1> USE TaskFlowAssumption DEF repo, history, counters
<1>0. TreeType /\ DOMAIN proc = Task BY DEF Typed, ProcType
<1>1. ASSUME UNCHANGED tree \/ AppendEvent(t) \/ \E status : WriteEnv(t, status)
      PROVE  \A u \in Task : KeptTree(u)
  BY <1>0, <1>1, TreeAfter DEF KeptTree, Git
<1>2. CASE OpenRecord(t) BY <1>0, <1>1, <1>2 DEF OpenRecord, Goto, Quiet, Apart
<1>3. CASE Resume(t) BY <1>0, <1>1, <1>3 DEF Resume, Goto, Quiet, Apart
<1>4. CASE OpenEnv(t) BY <1>0, <1>1, <1>4 DEF OpenEnv, Goto, Quiet, Apart
<1>5. CASE Pause(t) BY <1>0, <1>1, <1>5 DEF Pause, Goto, Quiet, Apart
<1>6. CASE PauseRecord(t) BY <1>0, <1>1, <1>6 DEF PauseRecord, Goto, Quiet, Apart
<1>7. CASE CloseoutStarts(t) BY <1>0, <1>1, <1>7 DEF CloseoutStarts, Goto, Quiet, Apart
<1>8. CASE Preflight(t) BY <1>0, <1>1, <1>8 DEF Preflight, Fails, Goto, Quiet, Apart
<1>9. CASE Fail(t) BY <1>0, <1>1, <1>9 DEF Fail, Goto, Quiet, Apart
<1>10. CASE FailBundle(t) BY <1>0, <1>1, <1>10 DEF FailBundle, Goto, Quiet, Apart
<1>11. CASE Killed(t) BY <1>0, <1>1, <1>11 DEF Killed, Goto, Quiet, Apart
<1>12. CASE CloseEnv(t) BY <1>0, <1>1, <1>12 DEF CloseEnv, Fails, Goto, Quiet, Apart
<1>13. CASE Bundle(t) BY <1>0, <1>1, <1>13 DEF Bundle, Fails, Goto, Quiet, Apart
<1> QED BY <1>2, <1>3, <1>4, <1>5, <1>6, <1>7, <1>8, <1>9, <1>10, <1>11, <1>12, <1>13

(* Which is the special case that nothing is thrown away.                     *)
LEMMA QuietIsThin == ASSUME Quiet PROVE Thinning
BY DEF Quiet, Thinning

(* The work on a log, where logs are put together.                            *)
LEMMA WorkFacts ==
    /\ W(<<>>) = {} /\ W(NoBranch) = {}
    /\ \A l, m \in Seq(Patch) : /\ W(l \o m) = W(l) \cup W(m)
                                /\ W(Rebased(l, m)) = W(l) \cup W(m)
                                /\ IsPrefix(l, m) => W(l) \subseteq W(m)
    /\ \A l \in Seq(Patch) : /\ \A p \in WorkOf \cap Patch : W(Append(l, p)) = W(l) \cup {p}
                             /\ \A p \in Patch \ WorkOf : W(Append(l, p)) = W(l)
<1>1. <<"no branch", 0>> \notin WorkOf
  <2>1. \A p \in WorkOf : p[2] # 0 BY TaskFlowAssumption DEF WorkOf
  <2> QED BY <2>1
<1>2. W(<<>>) = {} /\ W(NoBranch) = {} BY <1>1, LogTypes DEF W
<1>3. \A l, m \in Seq(Patch) : /\ W(l \o m) = W(l) \cup W(m)
                               /\ W(Rebased(l, m)) = W(l) \cup W(m)
                               /\ IsPrefix(l, m) => W(l) \subseteq W(m)
  BY LogFacts, RebasedFacts DEF W
<1>4. \A l \in Seq(Patch) : /\ \A p \in WorkOf \cap Patch : W(Append(l, p)) = W(l) \cup {p}
                            /\ \A p \in Patch \ WorkOf : W(Append(l, p)) = W(l)
  BY LogFacts DEF W
<1> QED BY <1>2, <1>3, <1>4

(* Throwing away keeps the base branch and the tasks in order.                *)
LEMMA ThinKeeps ==
    ASSUME Typed, BaseFine, \A t \in Task : TaskFine(t), Thinning
    PROVE  BaseFine' /\ \A t \in Task : TaskFine(t)'
<1>1. NoTree.attached /\ NoTree.head = <<>> /\ NoTree.dirty = <<>> /\ NoTree.kind # "git"
  BY DEF NoTree
<1>2. MadeWork' = MadeWork /\ UNCHANGED <<upstream, tracking, primary>>
  BY DEF Thinning, MadeWork
<1>3. BaseFine' BY <1>2 DEF BaseFine
<1>4. ASSUME NEW t \in Task PROVE TaskFine(t)'
  <2>1. /\ W(branch'[t]) \subseteq W(branch[t]) /\ W(tree'[t].head) \subseteq W(tree[t].head)
        /\ W(tree'[t].dirty) \subseteq W(tree[t].dirty)
    BY <1>1, WorkFacts DEF Thinning, KeptTree
  <2>2. branch'[t] \in {branch[t], NoBranch} /\ (KeptTree(t) \/ tree'[t] = NoTree)
    BY DEF Thinning
  <2> QED BY <1>1, <1>2, <2>1, <2>2 DEF TaskFine, KeptTree, Git, InBase
<1> QED BY <1>3, <1>4

(* A task nobody touches.                                                     *)
LEMMA OthersFine ==
    ASSUME NEW u \in Task, TaskFine(u), tree'[u] = tree[u], branch'[u] = branch[u],
           MadeWork \subseteq MadeWork', W(primary) \subseteq W(primary'),
           W(upstream) \subseteq W(upstream')
    PROVE  TaskFine(u)'
BY DEF TaskFine, Git, InBase, W

(* A blocked or failed closeout leaves the histories alone until it removes   *)
(* the worktree and the branch.                                               *)
LEMMA DropActions ==
    ASSUME Typed, NEW t \in Task, NEW o \in {"success", "blocked", "failed"},
           \/ Mark(t, o)
           \/ o # "success" /\ (DropStarts(t, o) \/ DropBundle(t, o) \/ DropReceipt(t, o))
    PROVE  Quiet /\ Apart(t)
<1> USE TaskFlowAssumption DEF repo, history, counters
<1>0. TreeType /\ DOMAIN proc = Task BY DEF Typed, ProcType
<1>1. ASSUME UNCHANGED tree \/ \E status : WriteEnv(t, status)
      PROVE  \A u \in Task : KeptTree(u)
  BY <1>0, <1>1, TreeAfter DEF KeptTree, Git
<1>2. CASE Mark(t, o) BY <1>0, <1>1, <1>2 DEF Mark, Goto, Quiet, Apart
<1>3. CASE DropStarts(t, o) BY <1>0, <1>1, <1>3 DEF DropStarts, Goto, Quiet, Apart
<1>4. CASE DropBundle(t, o) BY <1>0, <1>1, <1>4 DEF DropBundle, Goto, Quiet, Apart
<1>5. CASE DropReceipt(t, o) BY <1>0, <1>1, <1>5 DEF DropReceipt, Goto, Quiet, Apart
<1> QED BY <1>2, <1>3, <1>4, <1>5

(* The places of a blocked or failed closeout are not those of a successful   *)
(* one.                                                                       *)
LEMMA DroppingIs ==
    ASSUME NEW t \in Task
    PROVE  /\ Dropping(t) <=> proc[t] \in {"dropbundle:blocked", "dropbundle:failed",
                   "dropremove:blocked", "dropremove:failed", "receipt:blocked", "receipt:failed",
                   "mark:blocked", "mark:failed"}
           /\ \A o \in {"blocked", "failed"} :
                  {BundleAt[o], DropAt[o], ReceiptAt[o], MarkAt[o]} \cap Working = {}
BY DEF Dropping, BundleAt, DropAt, ReceiptAt, MarkAt, Working

(* The steps that throw a branch or a worktree away: the ones of the task's    *)
(* own commands, and terminal-check's.                                         *)
LEMMA ThinActions ==
    ASSUME Typed, NEW t \in Task,
           \/ Clear(t) \/ RemoveWorktree(t)
           \/ \E o \in {"blocked", "failed"} : DropRemove(t, o)
    PROVE  /\ Thinning /\ Apart(t)
           /\ \A u \in Task : u # t => tree'[u] = tree[u] /\ branch'[u] = branch[u]
<1> USE TaskFlowAssumption DEF repo, history, counters
<1>0. TreeType /\ DOMAIN proc = Task /\ DOMAIN branch = Task BY DEF Typed, ProcType, RepoType
<1>1. \A u \in Task : tree'[u] = tree[u] => KeptTree(u) BY DEF KeptTree, Git
<1>2. CASE Clear(t) BY <1>0, <1>1, <1>2, TreeAfter DEF Clear, Thinning, Apart
<1>3. CASE RemoveWorktree(t)
  BY <1>0, <1>1, <1>3, TreeAfter DEF RemoveWorktree, Fails, Goto, Thinning, Apart
<1>4. ASSUME NEW o \in {"blocked", "failed"}, DropRemove(t, o)
      PROVE  /\ Thinning /\ Apart(t)
             /\ \A u \in Task : u # t => tree'[u] = tree[u] /\ branch'[u] = branch[u]
  BY <1>0, <1>1, <1>4, TreeAfter DEF DropRemove, Goto, Thinning, Apart
<1> QED BY <1>2, <1>3, <1>4

CheckRemoves(t) == ClearResidue(t) \/ ClearFinished(t) \/ ClearPaused(t) \/ ClearOrphan(t)

(* terminal-check takes a branch only together with its worktree.             *)
LEMMA CheckThins ==
    ASSUME Typed, NEW t \in Task, CheckRemoves(t)
    PROVE  /\ Thinning /\ UNCHANGED <<proc, bundled, asked, said>>
           /\ \A u \in Task : branch'[u] = branch[u] \/ (branch'[u] = NoBranch /\ tree'[u] = NoTree)
           /\ \A u \in Task : u # t => tree'[u] = tree[u] /\ branch'[u] = branch[u]
           /\ CheckDone(t) \/ CheckAborts
<1> USE DEF repo, history, counters
<1>0. TreeType /\ DOMAIN branch = Task BY DEF Typed, RepoType
<1>1. \A u \in Task : tree'[u] = tree[u] => KeptTree(u) BY DEF KeptTree, Git
<1>2. CASE ClearResidue(t) BY <1>0, <1>1, <1>2, TreeAfter DEF ClearResidue, Thinning
<1>3. CASE ClearFinished(t) BY <1>0, <1>1, <1>3, TreeAfter DEF ClearFinished, Thinning
<1>4. CASE ClearPaused(t) BY <1>0, <1>1, <1>4, TreeAfter DEF ClearPaused, Thinning
<1>5. CASE ClearOrphan(t) BY <1>0, <1>1, <1>5, TreeAfter DEF ClearOrphan, Thinning
<1> QED BY <1>2, <1>3, <1>4, <1>5 DEF CheckRemoves

(* Listing worktrees and synchronising records touches no history.            *)
LEMMA BesideActions ==
    ASSUME Typed, CheckLists \/ SyncStep \/ UNCHANGED vars
    PROVE  Quiet /\ UNCHANGED <<proc, bundled>> /\ (CheckLists \/ UNCHANGED check)
<1>1. UNCHANGED tree => \A u \in Task : KeptTree(u) BY DEF KeptTree, Git
<1> QED BY <1>1 DEF CheckLists, SyncStep, SyncLoads, SyncReads, SyncWrites, vars, repo, history,
                    counters, Quiet

(* A phase stays as it is while others work.                                   *)
LEMMA PhaseKept ==
    ASSUME Typed, Typed', NEW u \in Task, Phase(u),
           proc'[u] = proc[u], u \in bundled => u \in bundled',
           KeptTree(u) \/ tree'[u] = NoTree,
           branch'[u] = branch[u] \/ (branch'[u] = NoBranch /\ tree'[u] = NoTree),
           Patches(upstream) \subseteq Patches(upstream'), IsPrefix(primary, primary'),
           OwnWork(u) \cap Patches(primary') \subseteq Patches(primary) \cup Patches(upstream')
    PROVE  Phase(u)'
<1>1. NoTree.dirty = <<>> /\ NoTree.head = <<>> /\ NoTree.kind # "git" BY DEF NoTree
<1>2. Patches(<<>>) = {} BY LogTypes
<1>3. branch[u] # NoBranch /\ IsPrefix(branch[u], primary) => IsPrefix(branch[u], primary')
  <2>1. branch[u] # NoBranch => branch[u] \in Seq(Patch) BY LogTypes DEF Typed, RepoType
  <2>2. primary \in Seq(Patch) /\ primary' \in Seq(Patch) BY DEF Typed, RepoType
  <2> QED BY <2>1, <2>2, PrefixTransitive
<1>4. OwnWork(u)' = OwnWork(u) BY DEF OwnWork, WorkOf
<1> QED BY <1>1, <1>2, <1>3, <1>4 DEF Phase, KeptTree, Git

(* A task whose command is at none of the phases has nothing to keep.         *)
LEMMA PhaseFree == ASSUME NEW u \in Task, proc'[u] \notin Working PROVE Phase(u)'
BY DEF Phase, Working

(* Own work in the base branch comes from the base branch when nothing of it  *)
(* changes.                                                                   *)
LEMMA SameBase ==
    ASSUME Typed, UNCHANGED <<upstream, primary>>
    PROVE  /\ Patches(upstream) \subseteq Patches(upstream') /\ IsPrefix(primary, primary')
           /\ \A u \in Task : OwnWork(u) \cap Patches(primary') \subseteq Patches(primary)
BY LogFacts DEF Typed, RepoType

---------------------------------------------------------------------------
(* The steps that make, move and deliver work.                               *)
Here(p, u) == p \in W(branch[u]) \cup W(tree[u].head) \cup W(tree[u].dirty)
Somewhere(p) == InBase(p) \/ \E u \in Task : Here(p, u)
NothingMoves == \A p \in WorkOf : Somewhere(p)' <=> Somewhere(p)
OnlyThere(t) == \A u \in Task : u # t => tree'[u] = tree[u] /\ branch'[u] = branch[u]
AllFine == BaseFine /\ (\A u \in Task : TaskFine(u)) /\ Phases
BaseGrows(t) ==
    /\ Patches(upstream) \subseteq Patches(upstream') /\ IsPrefix(primary, primary')
    /\ \A u \in Task : u # t => OwnWork(u) \cap Patches(primary')
                                   \subseteq Patches(primary) \cup Patches(upstream')

(* A step that changes one task's branch or worktree, and lets the base       *)
(* branch grow by nothing new of others, keeps the invariant if it keeps that *)
(* task's part of it.                                                         *)
LEMMA OneTask ==
    ASSUME Typed, Typed', AllFine, NEW t \in Task, OnlyThere(t), BaseGrows(t),
           \A u \in Task : u # t => proc'[u] = proc[u] /\ (u \in bundled => u \in bundled'),
           MadeWork \subseteq MadeWork', BaseFine', TaskFine(t)', Phase(t)'
    PROVE  AllFine'
<1>1. W(primary) \subseteq W(primary') /\ W(upstream) \subseteq W(upstream')
  BY WorkFacts DEF BaseGrows, W, Typed, RepoType
<1>2. ASSUME NEW u \in Task PROVE TaskFine(u)'
  <2>1. CASE u = t BY <2>1
  <2>2. CASE u # t
    <3>1. TaskFine(u) /\ tree'[u] = tree[u] /\ branch'[u] = branch[u]
      BY <2>2 DEF AllFine, OnlyThere
    <3> QED BY <1>1, <3>1, OthersFine
  <2> QED BY <2>1, <2>2
<1>3. ASSUME NEW u \in Task PROVE Phase(u)'
  <2>1. CASE u = t BY <2>1
  <2>2. CASE u # t
    <3>1. Phase(u) /\ KeptTree(u) /\ branch'[u] = branch[u]
      BY <2>2 DEF AllFine, Phases, OnlyThere, KeptTree, Git
    <3> QED BY <2>2, <3>1, PhaseKept DEF BaseGrows
  <2> QED BY <2>1, <2>2
<1> QED BY <1>2, <1>3 DEF AllFine, Phases

(* It loses nothing if that task and the base branch hold together what they  *)
(* did.                                                                       *)
LEMMA Moved ==
    ASSUME NEW t \in Task, OnlyThere(t),
           \A p \in WorkOf : (InBase(p) \/ Here(p, t))' <=> (InBase(p) \/ Here(p, t)),
           \A p \in WorkOf : InBase(p) => InBase(p)',
           \A p \in WorkOf : InBase(p)' => Somewhere(p)
    PROVE  NothingMoves
BY DEF NothingMoves, Somewhere, Here, OnlyThere

(* commit-task-worktree moves uncommitted patches to the branch, or to a      *)
(* detached HEAD.                                                             *)
LEMMA CommitKeeps ==
    ASSUME Typed, Typed', AllFine, NEW t \in Task, Commit(t)
    PROVE  AllFine' /\ NothingMoves /\ Apart(t)
<1> USE DEF repo, history, counters
<1>0. /\ DOMAIN tree = Task /\ DOMAIN branch = Task /\ DOMAIN proc = Task
      /\ tree[t] \in TreeState /\ tree[t].dirty \in Seq(Patch) /\ TaskFine(t) /\ TreeType
  BY DEF Typed, TreeType, RepoType, ProcType, TreeState, AllFine
<1>1. /\ UNCHANGED <<upstream, tracking, primary, made, bundled>> /\ MadeWork' = MadeWork
      /\ Apart(t) /\ proc'[t] \in {"fetch", "fail"} /\ OnlyThere(t)
  BY <1>0, TreeAfter DEF Commit, Fails, Goto, Apart, MadeWork, OnlyThere
<1>2. BaseFine' BY <1>1 DEF BaseFine, AllFine
<1>3. /\ TaskFine(t)' /\ (proc'[t] = "fetch" => tree'[t].dirty = <<>>)
      /\ \A p \in WorkOf : Here(p, t)' <=> Here(p, t)
  <2>1. CASE Git(t) /\ HeadLog(t) # NoBranch
    <3> DEFINE log == HeadLog(t) \o tree[t].dirty
    <3>1. HeadLog(t) \in Seq(Patch)
      BY <1>0, <2>1, LogTypes DEF HeadLog, Typed, RepoType, TreeState
    <3>2. W(log) = W(HeadLog(t)) \cup W(tree[t].dirty) BY <1>0, <3>1, WorkFacts
    <3> HIDE DEF log
    <3>3. CASE tree[t].attached
      <4>1. /\ branch'[t] = log /\ tree'[t].dirty = <<>> /\ tree'[t].head = tree[t].head
            /\ tree'[t].attached = tree[t].attached /\ tree'[t].kind = tree[t].kind
        <5>1. /\ tree' = [tree EXCEPT ![t] = [tree[t] EXCEPT !.dirty = <<>>]]
              /\ branch' = [branch EXCEPT ![t] = log]
          BY <1>0, <2>1, <3>3 DEF Commit, log
        <5> QED BY <1>0, <5>1 DEF TreeState
      <4>2. W(branch'[t]) = W(branch[t]) \cup W(tree[t].dirty) BY <3>2, <3>3, <4>1 DEF HeadLog
      <4> QED BY <1>0, <1>1, <3>3, <4>1, <4>2, WorkFacts DEF TaskFine, Git, InBase, Here
    <3>4. CASE ~tree[t].attached
      <4>1. /\ branch'[t] = branch[t] /\ tree'[t].dirty = <<>> /\ tree'[t].head = log
            /\ tree'[t].attached = tree[t].attached /\ tree'[t].kind = tree[t].kind
        <5>1. tree' = [tree EXCEPT ![t] = [tree[t] EXCEPT !.dirty = <<>>, !.head = log]]
          BY <1>0, <2>1, <3>4 DEF Commit, log
        <5> QED BY <1>0, <2>1, <3>4, <5>1 DEF Commit, TreeState
      <4>2. W(tree'[t].head) = W(tree[t].head) \cup W(tree[t].dirty)
        BY <3>2, <3>4, <4>1 DEF HeadLog
      <4> QED BY <1>0, <1>1, <3>4, <4>1, <4>2, WorkFacts DEF TaskFine, Git, InBase, Here
    <3> QED BY <3>3, <3>4
  <2>2. CASE ~(Git(t) /\ HeadLog(t) # NoBranch)
    <3>1. /\ tree'[t].dirty = tree[t].dirty /\ tree'[t].head = tree[t].head
          /\ tree'[t].attached = tree[t].attached /\ Git(t)' = Git(t)
          /\ branch' = branch /\ proc'[t] = "fail"
      BY <1>0, <2>2, TreeAfter DEF Commit, Git, Fails, Goto
    <3> QED BY <1>0, <1>1, <3>1 DEF TaskFine, InBase, Here
  <2> QED BY <2>1, <2>2
<1>4. Phase(t)' BY <1>1, <1>3 DEF Phase, Working
<1>5. BaseGrows(t) BY <1>1, SameBase DEF BaseGrows
<1>6. AllFine' BY <1>1, <1>2, <1>3, <1>4, <1>5, OneTask DEF Apart
<1>7. NothingMoves BY <1>1, <1>3, Moved DEF InBase, Somewhere
<1> QED BY <1>1, <1>6, <1>7

(* git worktree add -b: the new branch has what the base branch has.          *)
LEMMA AddWorktreeKeeps ==
    ASSUME Typed, Typed', AllFine, NEW t \in Task, AddWorktree(t)
    PROVE  AllFine' /\ NothingMoves /\ Apart(t)
<1> USE DEF repo, history, counters
<1>0. /\ DOMAIN tree = Task /\ DOMAIN branch = Task /\ DOMAIN proc = Task
      /\ tree[t] \in TreeState /\ TaskFine(t) /\ primary \in Seq(Patch)
  BY DEF Typed, TreeType, RepoType, ProcType, AllFine
<1>1. /\ UNCHANGED <<upstream, tracking, primary, made, bundled>> /\ MadeWork' = MadeWork
      /\ Apart(t) /\ proc'[t] \in {"env", "idle"} /\ OnlyThere(t)
  BY <1>0 DEF AddWorktree, Goto, Apart, MadeWork, OnlyThere, Fine, Fault
<1>2. BaseFine' BY <1>1 DEF BaseFine, AllFine
<1>3. TaskFine(t)' /\ \A p \in WorkOf : (Here(p, t)' => Here(p, t) \/ InBase(p))
                                        /\ (Here(p, t) => Here(p, t)')
  <2>1. CASE UNCHANGED <<branch, tree>> BY <1>0, <1>1, <2>1 DEF TaskFine, Git, InBase, Here
  <2>2. CASE ~UNCHANGED <<branch, tree>>
    <3>1. tree[t].kind = "none" /\ branch[t] = NoBranch /\ branch'[t] = primary
          /\ tree'[t] = [NoTree EXCEPT !.kind = "git"]
      BY <1>0, <2>2 DEF AddWorktree
    <3>2. /\ tree'[t].attached /\ tree'[t].head = <<>> /\ tree'[t].dirty = <<>>
          /\ tree'[t].kind = "git"
      BY <3>1 DEF NoTree
    <3>3. tree[t].head = <<>> /\ tree[t].dirty = <<>> BY <1>0, <3>1 DEF TaskFine, Git
    <3>4. W(primary) \subseteq MadeWork BY DEF AllFine, BaseFine
    <3> QED BY <1>1, <3>1, <3>2, <3>3, <3>4, WorkFacts DEF TaskFine, Git, InBase, Here, W
  <2> QED BY <2>1, <2>2
<1>4. Phase(t)' BY <1>1, PhaseFree DEF Working
<1>5. BaseGrows(t) BY <1>1, SameBase DEF BaseGrows
<1>6. AllFine' BY <1>1, <1>2, <1>3, <1>4, <1>5, OneTask DEF Apart
<1>7. NothingMoves BY <1>1, <1>3, Moved DEF InBase, Somewhere
<1> QED BY <1>1, <1>6, <1>7

(* Fetching and forwarding the primary checkout brings nothing but the        *)
(* remote's patches.                                                          *)
LEMMA FetchKeeps ==
    ASSUME Typed, Typed', AllFine, NEW t \in Task, FetchAndForward(t)
    PROVE  AllFine' /\ NothingMoves /\ Apart(t)
<1> USE DEF repo, history, counters
<1>0. /\ DOMAIN proc = Task /\ TaskFine(t) /\ Phase(t)
      /\ primary \in Seq(Patch) /\ upstream \in Seq(Patch)
  BY DEF Typed, RepoType, ProcType, AllFine, Phases
<1>1. /\ UNCHANGED <<upstream, branch, tree, made, bundled>> /\ MadeWork' = MadeWork
      /\ Apart(t) /\ proc[t] = "fetch" /\ proc'[t] \in {"rebase", "fail"} /\ OnlyThere(t)
      /\ tracking' = upstream
  BY <1>0 DEF FetchAndForward, Fails, Goto, Apart, MadeWork, OnlyThere
<1>2. \/ primary' = primary
      \/ primary' = upstream /\ IsPrefix(primary, upstream)
  BY DEF FetchAndForward
<1>3. /\ IsPrefix(primary, primary') /\ Patches(primary) \subseteq Patches(primary')
      /\ Patches(primary') \subseteq Patches(primary) \cup Patches(upstream)
  BY <1>0, <1>2, LogFacts
<1>4. BaseFine' BY <1>1, <1>3 DEF BaseFine, AllFine, W
<1>5. W(primary) \subseteq W(primary') BY <1>3 DEF W
<1>6. TaskFine(t)' BY <1>0, <1>1, <1>5, OthersFine
<1>7. Phase(t)' BY <1>0, <1>1 DEF Phase, Working
<1>8. BaseGrows(t) BY <1>1, <1>3 DEF BaseGrows
<1>9. AllFine' BY <1>1, <1>4, <1>6, <1>7, <1>8, OneTask DEF Apart
<1>10. \A p : InBase(p)' <=> InBase(p) BY <1>1, <1>3 DEF InBase
<1>11. NothingMoves BY <1>1, <1>10, Moved DEF Here, Somewhere
<1> QED BY <1>1, <1>9, <1>11

(* git merge --ff-only: what the branch brings of other tasks is in the base  *)
(* branch already.                                                            *)
LEMMA MergeKeeps ==
    ASSUME Typed, Typed', AllFine, NEW t \in Task, Merge(t)
    PROVE  AllFine' /\ NothingMoves /\ Apart(t)
<1> USE DEF repo, history, counters
<1>0. /\ DOMAIN proc = Task /\ TaskFine(t) /\ Phase(t)
      /\ primary \in Seq(Patch) /\ upstream \in Seq(Patch)
      /\ branch[t] # NoBranch => branch[t] \in Seq(Patch)
  BY LogTypes DEF Typed, RepoType, ProcType, AllFine, Phases
<1>1. /\ UNCHANGED <<upstream, tracking, branch, tree, made, bundled>> /\ MadeWork' = MadeWork
      /\ Apart(t) /\ proc[t] = "merge" /\ proc'[t] \in {"push", "fail"} /\ OnlyThere(t)
  BY <1>0 DEF Merge, Fails, Goto, Apart, MadeWork, OnlyThere
<1>2. \/ primary' = primary
      \/ primary' = branch[t] /\ branch[t] # NoBranch /\ IsPrefix(primary, branch[t])
  BY DEF Merge
<1>3. /\ IsPrefix(primary, primary') /\ Patches(primary) \subseteq Patches(primary')
      /\ Patches(primary') \subseteq Patches(primary) \cup Patches(branch[t])
  BY <1>0, <1>2, LogFacts
<1>4. BaseFine'
  <2>1. W(branch[t]) \subseteq MadeWork BY <1>0 DEF TaskFine
  <2> QED BY <1>1, <1>3, <2>1 DEF BaseFine, AllFine, W
<1>5. W(primary) \subseteq W(primary') BY <1>3 DEF W
<1>6. TaskFine(t)' BY <1>0, <1>1, <1>5, OthersFine
<1>7. Phase(t)'
  <2>1. CASE proc'[t] = "push"
    <3>1. branch[t] # NoBranch /\ IsPrefix(branch[t], primary')
      BY <1>0, <2>1, LogFacts DEF Merge, Fails, Goto
    <3>2. tree[t].dirty = <<>> BY <1>0, <1>1 DEF Phase, Working
    <3> QED BY <1>1, <2>1, <3>1, <3>2 DEF Phase
  <2>2. CASE proc'[t] = "fail" BY <2>2, PhaseFree DEF Working
  <2> QED BY <1>1, <2>1, <2>2
<1>8. BaseGrows(t)
  <2>1. ASSUME NEW u \in Task, u # t, NEW p \in OwnWork(u) \cap Patches(branch[t])
        PROVE  InBase(p)
    <3>1. p \in W(branch[t]) /\ p[1] # t BY <2>1 DEF OwnWork, W
    <3> QED BY <1>0, <3>1 DEF TaskFine
  <2> QED BY <1>1, <1>3, <2>1 DEF BaseGrows, InBase
<1>9. AllFine' BY <1>1, <1>4, <1>6, <1>7, <1>8, OneTask DEF Apart
<1>10. \A p \in WorkOf : InBase(p)' => InBase(p) \/ Here(p, t) BY <1>1, <1>3 DEF InBase, Here, W
<1>11. \A p : InBase(p) => InBase(p)' BY <1>1, <1>3 DEF InBase
<1>12. \A p : Here(p, t)' <=> Here(p, t) BY <1>1 DEF Here
<1>13. NothingMoves BY <1>1, <1>10, <1>11, <1>12, Moved DEF Somewhere
<1> QED BY <1>1, <1>9, <1>13

(* git push: what was on the remote stays, and what is new comes from the     *)
(* primary checkout.                                                          *)
LEMMA PushKeeps ==
    ASSUME Typed, Typed', AllFine, NEW t \in Task, Push(t)
    PROVE  AllFine' /\ NothingMoves /\ Apart(t)
<1> USE DEF repo, history, counters
<1>0. /\ DOMAIN proc = Task /\ TaskFine(t) /\ Phase(t)
      /\ primary \in Seq(Patch) /\ upstream \in Seq(Patch)
  BY DEF Typed, RepoType, ProcType, AllFine, Phases
<1>1. /\ UNCHANGED <<primary, branch, tree, made, bundled>> /\ MadeWork' = MadeWork
      /\ Apart(t) /\ proc[t] = "push" /\ proc'[t] \in {"close", "fail"} /\ OnlyThere(t)
      /\ proc'[t] = "close" => upstream' = primary
  BY <1>0 DEF Push, Fails, Goto, Apart, MadeWork, OnlyThere
<1>2. \/ upstream' = upstream /\ tracking' = tracking
      \/ upstream' = primary /\ tracking' = primary /\ IsPrefix(upstream, primary)
  BY DEF Push, Accepted
<1>3. /\ Patches(upstream) \subseteq Patches(upstream')
      /\ Patches(upstream') \subseteq Patches(primary) \cup Patches(upstream)
  BY <1>0, <1>2, LogFacts
<1>4. BaseFine' BY <1>1, <1>2, <1>3 DEF BaseFine, AllFine, W
<1>5. W(upstream) \subseteq W(upstream') BY <1>3 DEF W
<1>6. TaskFine(t)' BY <1>0, <1>1, <1>5, OthersFine
<1>7. Phase(t)'
  <2>1. CASE proc'[t] = "close"
    <3>1. /\ tree[t].dirty = <<>>
          /\ \/ branch[t] = NoBranch /\ ~Git(t)
             \/ branch[t] # NoBranch /\ IsPrefix(branch[t], primary)
      BY <1>0, <1>1 DEF Phase, Working
    <3> QED BY <1>1, <2>1, <3>1 DEF Phase, Git
  <2>2. CASE proc'[t] = "fail" BY <2>2, PhaseFree DEF Working
  <2> QED BY <1>1, <2>1, <2>2
<1>8. BaseGrows(t) BY <1>0, <1>1, <1>3, LogFacts DEF BaseGrows
<1>9. AllFine' BY <1>1, <1>4, <1>6, <1>7, <1>8, OneTask DEF Apart
<1>10. \A p : InBase(p)' <=> InBase(p) BY <1>1, <1>3 DEF InBase
<1>11. NothingMoves BY <1>1, <1>10, Moved DEF Here, Somewhere
<1> QED BY <1>1, <1>9, <1>11

(* git rebase keeps the patches of the branch and adds those of the remote.   *)
LEMMA RebaseKeeps ==
    ASSUME Typed, Typed', AllFine, NEW t \in Task, Rebase(t)
    PROVE  AllFine' /\ NothingMoves /\ Apart(t)
<1> USE DEF repo, history, counters
<1>0. /\ DOMAIN tree = Task /\ DOMAIN branch = Task /\ DOMAIN proc = Task
      /\ tree[t] \in TreeState /\ TaskFine(t) /\ Phase(t) /\ tracking \in Seq(Patch)
  BY DEF Typed, TreeType, RepoType, ProcType, AllFine, Phases
<1>1. /\ UNCHANGED <<upstream, tracking, primary, made, bundled>> /\ MadeWork' = MadeWork
      /\ Apart(t) /\ proc[t] = "rebase" /\ proc'[t] \in {"merge", "fail"} /\ OnlyThere(t)
  BY <1>0 DEF Rebase, Fails, Goto, Apart, MadeWork, OnlyThere, Fine, Fault
<1>2. BaseFine' BY <1>1 DEF BaseFine, AllFine
<1>3. /\ TaskFine(t)' /\ tree'[t].dirty = tree[t].dirty
      /\ \A p \in WorkOf : (Here(p, t)' => Here(p, t) \/ InBase(p)) /\ (Here(p, t) => Here(p, t)')
  <2>1. CASE UNCHANGED <<branch, tree>> BY <1>0, <1>1, <2>1 DEF TaskFine, Git, InBase, Here
  <2>2. CASE ~UNCHANGED <<branch, tree>>
    <3> DEFINE log == Rebased(HeadLog(t), tracking)
    <3>1. Git(t) /\ HeadLog(t) # NoBranch BY <2>2 DEF Rebase
    <3>2. HeadLog(t) \in Seq(Patch)
      BY <1>0, <3>1, LogTypes DEF HeadLog, Typed, RepoType, TreeState
    <3>3. W(log) = W(HeadLog(t)) \cup W(tracking) BY <1>0, <3>2, WorkFacts
    <3>4. W(tracking) \subseteq MadeWork /\ \A p \in W(tracking) : InBase(p)
      BY DEF AllFine, BaseFine, InBase, W
    <3> HIDE DEF log
    <3>5. CASE tree[t].attached
      <4>1. branch' = [branch EXCEPT ![t] = log] /\ UNCHANGED tree
        BY <1>0, <2>2, <3>5 DEF Rebase, HeadLog, log
      <4>2. W(branch'[t]) = W(branch[t]) \cup W(tracking) /\ tree'[t] = tree[t]
        BY <1>0, <3>3, <3>5, <4>1 DEF HeadLog
      <4> QED BY <1>0, <1>1, <3>4, <3>5, <4>2 DEF TaskFine, Git, InBase, Here
    <3>6. CASE ~tree[t].attached
      <4>1. /\ tree' = [tree EXCEPT ![t] = [tree[t] EXCEPT !.head = log]]
            /\ UNCHANGED branch
        BY <1>0, <2>2, <3>6 DEF Rebase, HeadLog, log
      <4>2. /\ tree'[t].dirty = tree[t].dirty /\ tree'[t].head = log
            /\ tree'[t].attached = tree[t].attached /\ tree'[t].kind = tree[t].kind
        BY <1>0, <4>1 DEF TreeState
      <4>3. W(tree'[t].head) = W(tree[t].head) \cup W(tracking) BY <3>3, <3>6, <4>2 DEF HeadLog
      <4> QED BY <1>0, <1>1, <3>4, <3>6, <4>1, <4>2, <4>3 DEF TaskFine, Git, InBase, Here
    <3> QED BY <3>5, <3>6
  <2> QED BY <2>1, <2>2
<1>4. Phase(t)' BY <1>0, <1>1, <1>3 DEF Phase, Working
<1>5. BaseGrows(t) BY <1>1, SameBase DEF BaseGrows
<1>6. AllFine' BY <1>1, <1>2, <1>3, <1>4, <1>5, OneTask DEF Apart
<1>7. NothingMoves BY <1>1, <1>3, Moved DEF InBase, Somewhere
<1> QED BY <1>1, <1>6, <1>7

(* If git branch -d cannot fail without a reason, a closeout that has detached *)
(* its HEAD goes on to delete the branch.                                      *)
LEMMA UnbranchKeeps ==
    ASSUME Typed, Typed', AllFine, NEW t \in Task, Unbranch(t), "branch-d" \notin Fallible
    PROVE  AllFine' /\ NothingMoves /\ Apart(t)
<1> USE DEF repo, history, counters
<1>0. /\ DOMAIN tree = Task /\ DOMAIN branch = Task /\ DOMAIN proc = Task /\ TreeType
      /\ tree[t] \in TreeState /\ TaskFine(t) /\ Phase(t) /\ primary \in Seq(Patch)
      /\ branch[t] # NoBranch => branch[t] \in Seq(Patch)
  BY LogTypes DEF Typed, TreeType, RepoType, ProcType, AllFine, Phases
<1>1. /\ UNCHANGED <<upstream, tracking, primary, made, bundled>> /\ MadeWork' = MadeWork
      /\ Apart(t) /\ proc[t] = "unbranch" /\ OnlyThere(t)
  BY <1>0, TreeAfter DEF Unbranch, Fails, Goto, Apart, MadeWork, OnlyThere
<1>2. BaseFine' BY <1>1 DEF BaseFine, AllFine
<1>3. ASSUME Git(t)
      PROVE  TaskFine(t)' /\ Phase(t)' /\ \A p \in WorkOf : Here(p, t)' <=> Here(p, t)
  <2>1. branch[t] # NoBranch /\ IsPrefix(branch[t], primary) BY <1>0, <1>1, <1>3 DEF Phase
  <2>2. /\ tree' = [tree EXCEPT ![t] = [tree[t] EXCEPT !.attached = FALSE, !.head = HeadLog(t)]]
        /\ branch' = [branch EXCEPT ![t] = NoBranch] /\ Goto(t, "remove")
    BY <1>0, <1>3, <2>1 DEF Unbranch, Fault
  <2>3. tree[t].attached /\ HeadLog(t) = branch[t] /\ tree[t].head = <<>>
    BY <1>0, <2>1 DEF TaskFine, HeadLog
  <2>4. /\ tree'[t].dirty = tree[t].dirty /\ tree'[t].head = branch[t]
        /\ ~tree'[t].attached /\ tree'[t].kind = tree[t].kind
        /\ branch'[t] = NoBranch /\ proc'[t] = "remove"
    BY <1>0, <2>2, <2>3 DEF TreeState, Goto
  <2>5. TaskFine(t)' /\ \A p \in WorkOf : Here(p, t)' <=> Here(p, t)
    BY <1>0, <1>1, <1>3, <2>3, <2>4, WorkFacts DEF TaskFine, Git, InBase, Here
  <2>6. Patches(branch[t]) \subseteq Patches(primary) BY <1>0, <2>1, LogFacts
  <2>7. OwnWork(t)' = OwnWork(t) BY DEF OwnWork, WorkOf
  <2>8. Phase(t)' BY <1>0, <1>1, <2>4, <2>6, <2>7 DEF Phase, Working
  <2> QED BY <2>5, <2>8
<1>4. ASSUME ~Git(t)
      PROVE  TaskFine(t)' /\ Phase(t)' /\ \A p \in WorkOf : Here(p, t)' <=> Here(p, t)
  <2>1. /\ tree'[t].dirty = tree[t].dirty /\ tree'[t].head = tree[t].head
        /\ tree'[t].attached = tree[t].attached /\ Git(t)' = Git(t)
        /\ branch' = branch /\ proc'[t] = "fail"
    BY <1>0, <1>4, TreeAfter DEF Unbranch, Git, Fails, Goto
  <2>2. TaskFine(t)' /\ \A p \in WorkOf : Here(p, t)' <=> Here(p, t)
    BY <1>0, <1>1, <2>1 DEF TaskFine, InBase, Here
  <2>3. Phase(t)' BY <2>1, PhaseFree DEF Working
  <2> QED BY <2>2, <2>3
<1>5. BaseGrows(t) BY <1>1, SameBase DEF BaseGrows
<1>6. AllFine'
  <2>1. TaskFine(t)' /\ Phase(t)' BY <1>3, <1>4
  <2> QED BY <1>1, <1>2, <1>5, <2>1, OneTask DEF Apart
<1>7. NothingMoves
  <2>1. \A p \in WorkOf : Here(p, t)' <=> Here(p, t) BY <1>3, <1>4
  <2> QED BY <1>1, <2>1, Moved DEF InBase, Somewhere
<1> QED BY <1>1, <1>6, <1>7

(* Other people's patches are no work of ours.                                *)
LEMMA SomebodyKeeps ==
    ASSUME Typed, Typed', AllFine, SomebodyPushes
    PROVE  AllFine' /\ NothingMoves /\ W(upstream') = W(upstream)
<1>1. foreign + 1 \in 1 .. MaxForeign
  BY TaskFlowAssumption DEF SomebodyPushes, Typed, CountType
<1>2. <<"foreign", foreign + 1>> \in Patch /\ <<"foreign", foreign + 1>> \notin WorkOf
  <2>1. \A p \in WorkOf : p[1] \in Task BY DEF WorkOf
  <2>2. <<"foreign", foreign + 1>>[1] = "foreign" OBVIOUS
  <2>3. <<"foreign", foreign + 1>> \notin WorkOf BY <2>1, <2>2, TaskFlowAssumption
  <2> QED BY <1>1, <2>3 DEF Patch
<1>3. /\ UNCHANGED <<tracking, primary, branch, tree, made, bundled, proc>> /\ MadeWork' = MadeWork
      /\ upstream' = Append(upstream, <<"foreign", foreign + 1>>)
      /\ upstream \in Seq(Patch) /\ primary \in Seq(Patch)
  BY DEF SomebodyPushes, history, MadeWork, Typed, RepoType
<1>4. W(upstream') = W(upstream) BY <1>2, <1>3, WorkFacts
<1>5. Patches(upstream) \subseteq Patches(upstream') BY <1>2, <1>3, LogFacts
<1>6. BaseFine' BY <1>3, <1>4 DEF BaseFine, AllFine
<1>7. ASSUME NEW u \in Task PROVE TaskFine(u)'
  BY <1>3, <1>4, OthersFine DEF AllFine
<1>8. ASSUME NEW u \in Task PROVE Phase(u)'
  <2>1. IsPrefix(primary, primary') BY <1>3, LogFacts
  <2>2. Phase(u) /\ KeptTree(u) BY <1>3 DEF AllFine, Phases, KeptTree, Git
  <2> QED BY <1>3, <1>5, <2>1, <2>2, PhaseKept
<1>9. NothingMoves
  <2>1. \A p \in WorkOf : InBase(p)' <=> InBase(p) BY <1>3, <1>4 DEF InBase, W
  <2> QED BY <1>3, <2>1 DEF NothingMoves, Somewhere, Here
<1> QED BY <1>4, <1>6, <1>7, <1>8, <1>9 DEF AllFine, Phases

(* A patch the agent makes is new, and in its worktree.                       *)
LEMMA EditKeeps ==
    ASSUME Typed, Typed', AllFine, NEW t \in Task, AgentEdits(t)
    PROVE  /\ AllFine' /\ Apart(t)
           /\ MadeWork' = MadeWork \cup {<<t, made[t] + 1>>}
           /\ <<t, made[t] + 1>> \in WorkOf \ MadeWork
           /\ \A p \in WorkOf : Somewhere(p)' <=> Somewhere(p) \/ p = <<t, made[t] + 1>>
<1> USE DEF repo, history, counters
<1> DEFINE n == <<t, made[t] + 1>>
<1>0. /\ DOMAIN tree = Task /\ TreeType /\ tree[t] \in TreeState /\ TaskFine(t)
      /\ tree[t].dirty \in Seq(Patch) /\ made \in [Task -> 0 .. MaxWork]
      /\ made[t] + 1 \in 1 .. MaxWork
  BY TaskFlowAssumption DEF Typed, TreeType, CountType, TreeState, AllFine, AgentEdits
<1>1. /\ UNCHANGED <<upstream, tracking, primary, branch, bundled, proc, check>>
      /\ Idle(t) /\ Git(t) /\ made' = [made EXCEPT ![t] = made[t] + 1]
      /\ tree' = [tree EXCEPT ![t] = [tree[t] EXCEPT !.dirty = Append(tree[t].dirty, n)]]
  BY <1>0 DEF AgentEdits, TreeType
<1>2. OnlyThere(t) /\ Apart(t) BY <1>0, <1>1 DEF OnlyThere, Apart
<1>3. /\ tree'[t].dirty = Append(tree[t].dirty, n) /\ tree'[t].head = tree[t].head
      /\ tree'[t].attached = tree[t].attached /\ tree'[t].kind = tree[t].kind
  BY <1>0, <1>1 DEF TreeState
<1>4. n \in WorkOf /\ n \in Patch BY <1>0 DEF WorkOf, Patch
<1>5. n \notin MadeWork /\ MadeWork' = MadeWork \cup {n}
  <2>1. n[1] = t /\ n[2] = made[t] + 1 /\ made[t] \in Nat BY <1>0, TaskFlowAssumption
  <2>2. \A p \in WorkOf : /\ p = <<p[1], p[2]>> /\ p[1] \in Task /\ p[2] \in Nat
    BY TaskFlowAssumption DEF WorkOf
  <2>3. n \notin MadeWork BY <2>1 DEF MadeWork
  <2>4. \A u \in Task : made'[u] = IF u = t THEN made[t] + 1 ELSE made[u] BY <1>0, <1>1
  <2>5. \A p \in WorkOf : p[1] = t => (p[2] <= made[t] + 1 <=> p[2] <= made[t] \/ p = n)
    BY <2>1, <2>2
  <2>6. ASSUME NEW p \in WorkOf
        PROVE  p[2] <= made'[p[1]] <=> p[2] <= made[p[1]] \/ p = n
    BY <2>1, <2>2, <2>4, <2>5
  <2> HIDE DEF n
  <2> QED BY <1>4, <2>3, <2>6 DEF MadeWork
<1>6. W(tree'[t].dirty) = W(tree[t].dirty) \cup {n} BY <1>0, <1>3, <1>4, WorkFacts
<1>7. n[1] = t OBVIOUS
<1> HIDE DEF n
<1>8. BaseFine' BY <1>1, <1>5 DEF AllFine, BaseFine
<1>9. TaskFine(t)' BY <1>0, <1>1, <1>3, <1>5, <1>6, <1>7 DEF TaskFine, Git, InBase
<1>10. Phase(t)' BY <1>1, PhaseFree DEF Idle, Working
<1>11. BaseGrows(t) BY <1>1, SameBase DEF BaseGrows
<1>12. AllFine' BY <1>1, <1>2, <1>5, <1>8, <1>9, <1>10, <1>11, OneTask
<1>13. ASSUME NEW p \in WorkOf PROVE Somewhere(p)' <=> Somewhere(p) \/ p = n
  <2>1. Here(p, t)' <=> Here(p, t) \/ p = n BY <1>1, <1>3, <1>6 DEF Here
  <2> QED BY <1>1, <1>2, <2>1 DEF Somewhere, InBase, Here, OnlyThere
<1> QED BY <1>2, <1>4, <1>5, <1>12, <1>13 DEF n

---------------------------------------------------------------------------
(* A quiet step keeps the invariant if it keeps the phase of the command it   *)
(* belongs to.                                                                *)
LEMMA QuietKeeps ==
    ASSUME Typed, Typed', AllFine, Quiet, NEW t \in Task, Apart(t), Phase(t)'
    PROVE  AllFine' /\ NothingMoves /\ W(upstream') = W(upstream)
<1>1. BaseFine' /\ \A u \in Task : TaskFine(u)' BY QuietIsThin, ThinKeeps DEF AllFine
<1>2. ASSUME NEW u \in Task PROVE Phase(u)'
  <2>1. CASE u = t BY <2>1
  <2>2. CASE u # t
    <3>1. /\ Phase(u) /\ KeptTree(u) /\ branch'[u] = branch[u] /\ proc'[u] = proc[u]
          /\ (u \in bundled => u \in bundled') /\ UNCHANGED <<upstream, primary>>
      BY <2>2 DEF AllFine, Phases, Quiet, Apart
    <3> QED BY <3>1, PhaseKept, SameBase
  <2> QED BY <2>1, <2>2
<1>3. NothingMoves BY DEF NothingMoves, Somewhere, Here, InBase, Quiet, KeptTree
<1> QED BY <1>1, <1>2, <1>3 DEF AllFine, Phases, Quiet

(* So do the steps beside the commands.                                       *)
LEMMA BesideKeeps ==
    ASSUME Typed, Typed', AllFine, CheckLists \/ SyncStep \/ UNCHANGED vars
    PROVE  AllFine' /\ NothingMoves /\ W(upstream') = W(upstream)
<1>1. Quiet /\ UNCHANGED <<proc, bundled>> BY BesideActions
<1>2. BaseFine' /\ \A u \in Task : TaskFine(u)' BY <1>1, QuietIsThin, ThinKeeps DEF AllFine
<1>3. ASSUME NEW u \in Task PROVE Phase(u)'
  <2>1. /\ Phase(u) /\ KeptTree(u) /\ branch'[u] = branch[u] /\ proc'[u] = proc[u]
        /\ UNCHANGED <<upstream, primary>>
    BY <1>1 DEF AllFine, Phases, Quiet
  <2> QED BY <1>1, <2>1, PhaseKept, SameBase
<1>4. NothingMoves BY <1>1 DEF NothingMoves, Somewhere, Here, InBase, Quiet, KeptTree
<1> QED BY <1>1, <1>2, <1>3, <1>4 DEF AllFine, Phases, Quiet

(* What a quiet step of a task's command leads to.                            *)
LEMMA QuietPhase ==
    ASSUME Typed, Typed', AllFine, NEW t \in Task,
           OpenRecord(t) \/ Resume(t) \/ OpenEnv(t) \/ Pause(t) \/ PauseRecord(t)
           \/ CloseoutStarts(t) \/ Preflight(t) \/ Fail(t) \/ FailBundle(t) \/ Killed(t)
           \/ CloseEnv(t) \/ Bundle(t)
    PROVE  Phase(t)' /\ ~Dropping(t)'
<1>0. DOMAIN proc = Task /\ Phase(t) BY DEF Typed, ProcType, AllFine, Phases
<1>1. Quiet BY QuietActions
<1>2. KeptTree(t) /\ branch'[t] = branch[t] /\ UNCHANGED <<upstream, primary>> BY <1>1 DEF Quiet
<1>3. OwnWork(t)' = OwnWork(t) BY DEF OwnWork, WorkOf
<1>4. CASE CloseEnv(t)
  <2>1. proc[t] = "close" /\ proc'[t] \in {"bundle", "fail"}
    BY <1>0, <1>4 DEF CloseEnv, Fails, Goto
  <2> QED BY <1>0, <1>2, <1>3, <2>1, DroppingIs DEF Phase, Working, KeptTree, Dropping, BundleAt,
             DropAt, ReceiptAt, MarkAt
<1>5. CASE Bundle(t)
  <2>1. proc[t] = "bundle" /\ proc'[t] \in {"unbranch", "fail"}
        /\ (proc'[t] = "unbranch" => t \in bundled')
    BY <1>0, <1>5 DEF Bundle, Fails, Goto
  <2> QED BY <1>0, <1>2, <1>3, <2>1, DroppingIs DEF Phase, Working, KeptTree, Dropping, BundleAt,
             DropAt, ReceiptAt, MarkAt
<1>6. CASE ~(CloseEnv(t) \/ Bundle(t))
  <2>1. proc'[t] \in {"find", "idle", "paused", "preflight", "commit", "fail", "failbundle"}
    BY <1>0, <1>6 DEF OpenRecord, Resume, OpenEnv, Pause, PauseRecord, CloseoutStarts, Preflight,
                      Fail, FailBundle, Killed, Fails, Goto
  <2>2. proc'[t] \notin Working BY <2>1 DEF Working
  <2>3. ~Dropping(t)' BY <2>1 DEF Dropping, BundleAt, DropAt, ReceiptAt, MarkAt
  <2> QED BY <2>2, <2>3, PhaseFree
<1> QED BY <1>4, <1>5, <1>6

(* A blocked or failed closeout reaches no phase of a successful one, and is  *)
(* one of a task given up.                                                    *)
LEMMA DropPhase ==
    ASSUME Typed, NEW t \in Task, NEW o \in {"success", "blocked", "failed"},
           \/ Mark(t, o)
           \/ o # "success" /\ (DropStarts(t, o) \/ DropBundle(t, o) \/ DropReceipt(t, o)
                                \/ DropRemove(t, o))
    PROVE  Phase(t)' /\ (Dropping(t)' => Dropping(t) \/ t \in asked')
<1> USE DEF repo, history, counters
<1>0. DOMAIN proc = Task BY DEF Typed, ProcType
<1>1. \/ proc'[t] = "idle"
      \/ o # "success" /\ proc'[t] \in {BundleAt[o], DropAt[o], ReceiptAt[o], MarkAt[o]}
  BY <1>0 DEF Mark, DropStarts, DropBundle, DropReceipt, DropRemove, Goto
<1>2. proc'[t] \notin Working BY <1>1, DroppingIs DEF Working
<1>3. o # "success" /\ (DropBundle(t, o) \/ DropReceipt(t, o) \/ DropRemove(t, o)) => Dropping(t)
  BY DEF DropBundle, DropReceipt, DropRemove, Dropping
<1>4. Mark(t, o) => proc'[t] = "idle" BY <1>0 DEF Mark, Goto
<1>5. DropStarts(t, o) => t \in asked' BY DEF DropStarts
<1>6. Dropping(t)' => proc'[t] # "idle" BY DEF Dropping, BundleAt, DropAt, ReceiptAt, MarkAt
<1> QED BY <1>2, <1>3, <1>4, <1>5, <1>6, PhaseFree

(* What a step does to the agents' work.                                      *)
NoWorkMoves == /\ NothingMoves /\ UNCHANGED <<made, said>> /\ asked \subseteq asked'
               /\ \/ W(upstream') = W(upstream)
                  \/ W(upstream) \subseteq W(upstream') /\ asked' = asked
WorkMade == \E p \in WorkOf \ MadeWork :
               /\ MadeWork' = MadeWork \cup {p} /\ UNCHANGED <<upstream, asked, said>>
               /\ \A q \in WorkOf : Somewhere(q)' <=> Somewhere(q) \/ q = p
WorkLost == /\ UNCHANGED <<upstream, made, said>> /\ asked \subseteq asked'
            /\ \A p \in WorkOf : /\ Somewhere(p)' => Somewhere(p)
                                 /\ Somewhere(p) /\ ~Somewhere(p)' => p[1] \in asked'
Reported(t) == /\ NothingMoves /\ UNCHANGED <<upstream, made, asked>> /\ said' = said \cup {t}
               /\ \A p \in OwnWork(t) : Somewhere(p) => p \in Patches(upstream)
               /\ branch'[t] = NoBranch /\ tree'[t].kind = "none" /\ t \in bundled'

(* Where one task's branch or worktree goes, only its own work goes with it.  *)
LEMMA ThinLoss ==
    ASSUME AllFine, NEW t \in Task, Thinning, OnlyThere(t)
    PROVE  \A p \in WorkOf : /\ Somewhere(p)' => Somewhere(p)
                             /\ Somewhere(p) /\ ~Somewhere(p)' => p[1] = t /\ Here(p, t)
<1>1. NoTree.head = <<>> /\ NoTree.dirty = <<>> BY DEF NoTree
<1>2. \A u \in Task : /\ W(branch'[u]) \subseteq W(branch[u])
                      /\ W(tree'[u].head) \subseteq W(tree[u].head)
                      /\ W(tree'[u].dirty) \subseteq W(tree[u].dirty)
  BY <1>1, WorkFacts DEF Thinning, KeptTree
<1>3. ASSUME NEW p \in WorkOf, Somewhere(p)' PROVE Somewhere(p)
  <2>1. CASE InBase(p)' BY <2>1 DEF Somewhere, InBase, Thinning
  <2>2. ASSUME NEW u \in Task, Here(p, u)' PROVE Somewhere(p)
    BY <1>2, <2>2 DEF Somewhere, Here
  <2> QED BY <1>3, <2>1, <2>2 DEF Somewhere
<1>4. ASSUME NEW p \in WorkOf, Somewhere(p), ~Somewhere(p)' PROVE p[1] = t /\ Here(p, t)
  <2>1. InBase(p)' <=> InBase(p) BY DEF InBase, Thinning
  <2>2. ~InBase(p) /\ ~InBase(p)' BY <1>4, <2>1 DEF Somewhere
  <2>3. PICK u \in Task : Here(p, u) /\ ~Here(p, u)' BY <1>4, <2>2 DEF Somewhere
  <2>4. u = t BY <2>3 DEF Here, OnlyThere
  <2>5. TaskFine(t) BY DEF AllFine
  <2> QED BY <2>2, <2>3, <2>4, <2>5 DEF TaskFine, Here
<1> QED BY <1>3, <1>4

(* git worktree remove and git branch -D, in a clear, a blocked or failed     *)
(* closeout, and at the end of a successful one, which has delivered          *)
(* everything by then (remove_success_task_worktree).                         *)
LEMMA ThinOutcome ==
    ASSUME Typed, Typed', AllFine, GivenUp, NEW t \in Task,
           \/ Clear(t) \/ RemoveWorktree(t)
           \/ \E o \in {"blocked", "failed"} : DropRemove(t, o)
    PROVE  /\ AllFine' /\ (Dropping(t)' => Dropping(t) \/ t \in asked')
           /\ NoWorkMoves \/ WorkLost \/ Reported(t)
<1> USE DEF repo, history, counters
<1>0. /\ Thinning /\ Apart(t) /\ OnlyThere(t) /\ DOMAIN proc = Task
      /\ TaskFine(t) /\ Phase(t) /\ TreeType
  BY ThinActions DEF OnlyThere, Typed, ProcType, AllFine, Phases
<1>1. Phase(t)' /\ (Dropping(t)' => Dropping(t) \/ t \in asked')
  <2>1. CASE Clear(t)
    <3>1. proc'[t] = "idle" BY <2>1 DEF Clear, Begins, Idle
    <3> QED BY <3>1, PhaseFree DEF Working, Dropping, BundleAt, DropAt, ReceiptAt, MarkAt
  <2>2. CASE RemoveWorktree(t)
    <3>1. proc'[t] \in {"mark:success", "fail"}
      BY <1>0, <2>2 DEF RemoveWorktree, Fails, Goto
    <3> QED BY <3>1, PhaseFree DEF Working, Dropping, BundleAt, DropAt, ReceiptAt, MarkAt
  <2>3. ASSUME NEW o \in {"blocked", "failed"}, DropRemove(t, o)
        PROVE  Phase(t)' /\ (Dropping(t)' => Dropping(t) \/ t \in asked')
    BY <2>3, DropPhase
  <2> QED BY <2>1, <2>2, <2>3
<1>2. AllFine'
  <2>1. BaseFine' /\ \A u \in Task : TaskFine(u)' BY <1>0, ThinKeeps DEF AllFine
  <2>2. ASSUME NEW u \in Task PROVE Phase(u)'
    <3>1. CASE u = t BY <1>1, <3>1
    <3>2. CASE u # t
      <4>1. /\ Phase(u) /\ KeptTree(u) /\ branch'[u] = branch[u] /\ proc'[u] = proc[u]
            /\ (u \in bundled => u \in bundled') /\ UNCHANGED <<upstream, primary>>
        BY <1>0, <3>2 DEF AllFine, Phases, Thinning, Apart, OnlyThere, KeptTree, Git
      <4> QED BY <4>1, PhaseKept, SameBase
    <3> QED BY <3>1, <3>2
  <2> QED BY <2>1, <2>2 DEF AllFine, Phases
<1>3. /\ UNCHANGED <<upstream, made>> /\ asked \subseteq asked'
      /\ \A p \in WorkOf : /\ Somewhere(p)' => Somewhere(p)
                           /\ Somewhere(p) /\ ~Somewhere(p)' => p[1] = t /\ Here(p, t)
  BY <1>0, ThinLoss DEF Thinning
<1>4. CASE Clear(t) \/ \E o \in {"blocked", "failed"} : DropRemove(t, o)
  <2>1. said' = said BY <1>4 DEF Clear, DropRemove
  <2>2. t \in asked'
    <3>1. CASE Clear(t) BY <3>1 DEF Clear
    <3>2. ASSUME NEW o \in {"blocked", "failed"}, DropRemove(t, o) PROVE t \in asked'
      BY <1>3, <3>2 DEF DropRemove, Dropping, GivenUp
    <3> QED BY <1>4, <3>1, <3>2
  <2> QED BY <1>1, <1>2, <1>3, <2>1, <2>2 DEF WorkLost
<1>5. CASE RemoveWorktree(t)
  <2>1. /\ asked' = asked /\ bundled' = bundled /\ UNCHANGED branch
        /\ proc[t] = "remove" /\ t \in bundled /\ branch[t] = NoBranch
        /\ tree[t].dirty = <<>> /\ OwnWork(t) \cap Patches(tree[t].head) \subseteq Patches(upstream)
        /\ OwnWork(t) \cap Patches(primary) \subseteq Patches(upstream)
    BY <1>0, <1>5 DEF RemoveWorktree, Phase, Working
  <2>2. ASSUME NEW p \in OwnWork(t), Somewhere(p) PROVE p \in Patches(upstream)
    <3>1. p \in WorkOf /\ p[1] = t BY DEF OwnWork
    <3>2. CASE InBase(p) BY <2>1, <3>2 DEF InBase
    <3>3. ASSUME NEW u \in Task, Here(p, u) PROVE p \in Patches(upstream)
      <4>1. CASE u = t
        <5>1. p \in W(tree[t].head) BY <2>1, <3>3, <4>1, WorkFacts DEF Here
        <5> QED BY <2>1, <5>1 DEF W
      <4>2. CASE u # t
        <5>1. TaskFine(u) BY DEF AllFine
        <5>2. InBase(p) BY <3>1, <3>3, <4>2, <5>1 DEF TaskFine, Here
        <5> QED BY <2>1, <5>2 DEF InBase
      <4> QED BY <4>1, <4>2
    <3> QED BY <2>2, <3>2, <3>3 DEF Somewhere
  <2>3. NothingMoves
    <3>1. ASSUME NEW p \in WorkOf, Somewhere(p), ~Somewhere(p)' PROVE FALSE
      <4>1. p \in OwnWork(t) BY <1>3, <3>1 DEF OwnWork
      <4>2. p \in Patches(upstream') BY <1>3, <2>2, <3>1, <4>1
      <4> QED BY <3>1, <4>2 DEF Somewhere, InBase
    <3> QED BY <1>3, <3>1 DEF NothingMoves
  <2>4. CASE said' = said BY <1>1, <1>2, <1>3, <2>1, <2>3, <2>4 DEF NoWorkMoves
  <2>5. CASE said' # said
    <3>1. said' = said \cup {t} /\ RemoveTree(t) BY <1>5, <2>5 DEF RemoveWorktree
    <3>2. tree'[t] = NoTree BY <1>0, <3>1, TreeAfter
    <3>3. tree'[t].kind = "none" BY <3>2 DEF NoTree
    <3> QED BY <1>1, <1>2, <1>3, <2>1, <2>2, <2>3, <3>1, <3>3 DEF Reported
  <2> QED BY <2>4, <2>5
<1> QED BY <1>4, <1>5

(* terminal-check removes work only of tasks it has rightly put on its list.  *)
LEMMA CheckOutcome ==
    ASSUME Typed, Typed', AllFine, GivenUp, NEW t \in Task, CheckRemoves(t)
    PROVE  AllFine' /\ GivenUp' /\ (NoWorkMoves \/ WorkLost)
<1>0. /\ Thinning /\ UNCHANGED <<proc, bundled, asked, said>> /\ OnlyThere(t)
      /\ \A u \in Task : branch'[u] = branch[u] \/ (branch'[u] = NoBranch /\ tree'[u] = NoTree)
      /\ CheckDone(t) \/ CheckAborts
  BY CheckThins DEF OnlyThere
<1>1. AllFine'
  <2>1. BaseFine' /\ \A u \in Task : TaskFine(u)' BY <1>0, ThinKeeps DEF AllFine
  <2>2. ASSUME NEW u \in Task PROVE Phase(u)'
    <3>1. /\ Phase(u) /\ (KeptTree(u) \/ tree'[u] = NoTree) /\ proc'[u] = proc[u]
          /\ (u \in bundled => u \in bundled') /\ UNCHANGED <<upstream, primary>>
      BY <1>0 DEF AllFine, Phases, Thinning
    <3> QED BY <1>0, <3>1, PhaseKept, SameBase
  <2> QED BY <2>1, <2>2 DEF AllFine, Phases
<1>2. GivenUp'
  <2>1. check \in [pc : CheckPc, todo : SUBSET Task] BY DEF Typed, BookType
  <2>2. check'.pc \in {"terminal", "orphan", "paused"} =>
            check'.pc = check.pc /\ check'.todo \subseteq check.todo
    BY <1>0, <2>1 DEF CheckDone, CheckAborts
  <2>3. \A u \in Task : Dropping(u)' <=> Dropping(u) BY <1>0 DEF Dropping
  <2> QED BY <1>0, <2>2, <2>3 DEF GivenUp
<1>3. /\ UNCHANGED <<upstream, made>> /\ asked \subseteq asked'
      /\ \A p \in WorkOf : /\ Somewhere(p)' => Somewhere(p)
                           /\ Somewhere(p) /\ ~Somewhere(p)' => p[1] = t /\ Here(p, t)
  BY <1>0, ThinLoss DEF Thinning
<1>4. CASE ClearFinished(t) \/ ClearPaused(t) \/ ClearOrphan(t)
  <2>1. t \in asked BY <1>4 DEF ClearFinished, ClearPaused, ClearOrphan, GivenUp
  <2> QED BY <1>0, <1>1, <1>2, <1>3, <2>1 DEF WorkLost
<1>5. CASE ClearResidue(t)
  <2>1. UNCHANGED tree \/ (~Git(t) /\ branch[t] = NoBranch) BY <1>5 DEF ClearResidue, Git
  <2>2. branch' = branch BY <1>5 DEF ClearResidue, repo
  <2>3. CASE UNCHANGED tree
    <3>1. NothingMoves BY <1>3, <2>2, <2>3, <1>0 DEF NothingMoves, Somewhere, Here, InBase, Thinning
    <3> QED BY <1>0, <1>1, <1>2, <1>3, <3>1 DEF NoWorkMoves
  <2>4. CASE ~Git(t) /\ branch[t] = NoBranch
    <3>1. TaskFine(t) BY DEF AllFine
    <3>2. \A p : ~Here(p, t) BY <2>4, <3>1, WorkFacts DEF TaskFine, Here
    <3>3. NothingMoves BY <1>3, <3>2 DEF NothingMoves
    <3> QED BY <1>0, <1>1, <1>2, <1>3, <3>3 DEF NoWorkMoves
  <2> QED BY <2>1, <2>3, <2>4
<1> QED BY <1>4, <1>5 DEF CheckRemoves

(* A step of one command keeps GivenUp if that command throws away nobody     *)
(* else's work.                                                               *)
LEMMA GivenUpKept ==
    ASSUME GivenUp, NEW t \in Task, Apart(t), asked \subseteq asked',
           Dropping(t)' => Dropping(t) \/ t \in asked'
    PROVE  GivenUp'
BY DEF GivenUp, Apart, Dropping

(* The git steps of a closeout, and the agent's edits, lose nothing.          *)
LEMMA WorkOutcome ==
    ASSUME Typed, Typed', AllFine, GivenUp, "branch-d" \notin Fallible, NEW t \in Task,
           AgentEdits(t) \/ AddWorktree(t) \/ Commit(t) \/ FetchAndForward(t) \/ Rebase(t)
           \/ Merge(t) \/ Push(t) \/ Unbranch(t)
    PROVE  AllFine' /\ GivenUp' /\ (NoWorkMoves \/ WorkMade)
<1> USE DEF repo, history, counters
<1>1. CASE AgentEdits(t)
  <2>1. /\ AllFine' /\ Apart(t) /\ UNCHANGED <<upstream, asked, said, proc>> /\ WorkMade
    BY <1>1, EditKeeps DEF AgentEdits, WorkMade
  <2>2. Dropping(t)' => Dropping(t) BY <2>1 DEF Dropping
  <2> QED BY <2>1, <2>2, GivenUpKept
<1>2. CASE ~AgentEdits(t)
  <2>1. AllFine' /\ NothingMoves /\ Apart(t)
    BY <1>2, AddWorktreeKeeps, CommitKeeps, FetchKeeps, RebaseKeeps, MergeKeeps, PushKeeps,
       UnbranchKeeps
  <2>2. UNCHANGED <<made, said, asked>>
    BY <1>2 DEF AddWorktree, Commit, FetchAndForward, Rebase, Merge, Push, Unbranch
  <2>3. W(upstream) \subseteq W(upstream')
    <3>1. CASE Push(t)
      BY <3>1, WorkFacts DEF Push, Accepted, Typed, RepoType
    <3>2. CASE ~Push(t)
      BY <1>2, <3>2 DEF AddWorktree, Commit, FetchAndForward, Rebase, Merge, Unbranch
    <3> QED BY <3>1, <3>2
  <2>4. ~Dropping(t)'
    <3>1. DOMAIN proc = Task BY DEF Typed, ProcType
    <3>2. proc'[t] \in {"env", "idle", "fail", "fetch", "rebase", "merge", "push", "close",
                       "remove"}
      BY <1>2, <3>1 DEF AddWorktree, Commit, FetchAndForward, Rebase, Merge, Push, Unbranch, Fails,
                        Goto
    <3> QED BY <3>2 DEF Dropping, BundleAt, DropAt, ReceiptAt, MarkAt
  <2>5. GivenUp' BY <2>1, <2>2, <2>4, GivenUpKept
  <2> QED BY <2>1, <2>2, <2>3, <2>5 DEF NoWorkMoves
<1> QED BY <1>1, <1>2

(* The quiet steps lose nothing.                                              *)
LEMMA QuietOutcome ==
    ASSUME Typed, Typed', AllFine, GivenUp, NEW t \in Task, Quiet, Apart(t), Phase(t)',
           Dropping(t)' => Dropping(t) \/ t \in asked'
    PROVE  AllFine' /\ GivenUp' /\ NoWorkMoves
<1>1. AllFine' /\ NothingMoves /\ W(upstream') = W(upstream) BY QuietKeeps
<1>2. GivenUp' BY GivenUpKept DEF Quiet
<1> QED BY <1>1, <1>2 DEF NoWorkMoves, Quiet

(* Nor do other people's pushes, the lists terminal-check makes, and the      *)
(* synchronisation.                                                           *)
LEMMA BesideOutcome ==
    ASSUME Typed, Typed', AllFine, GivenUp,
           SomebodyPushes \/ CheckLists \/ SyncStep \/ UNCHANGED vars
    PROVE  AllFine' /\ GivenUp' /\ NoWorkMoves
<1>1. CASE SomebodyPushes
  <2>1. UNCHANGED <<made, said, asked, proc, check>> BY <1>1 DEF SomebodyPushes, history
  <2> QED BY <1>1, <2>1, SomebodyKeeps DEF NoWorkMoves, GivenUp, Dropping
<1>2. CASE CheckLists \/ SyncStep \/ UNCHANGED vars
  <2>1. AllFine' /\ NothingMoves /\ W(upstream') = W(upstream) BY <1>2, BesideKeeps
  <2>2. Quiet /\ UNCHANGED proc /\ (CheckLists \/ UNCHANGED check) BY <1>2, BesideActions
  <2>3. \A u \in Task : Dropping(u)' <=> Dropping(u) BY <2>2 DEF Dropping
  <2>4. GivenUp'
    <3>1. CASE UNCHANGED check BY <2>2, <2>3, <3>1 DEF GivenUp, Quiet
    <3>2. CASE CheckLists
      <4> DEFINE next == CheckNext(check.pc)
      <4>1. check.pc \in CheckPc /\ next \in CheckPc BY DEF Typed, BookType, CheckPc, CheckNext
      <4>2. PICK todo \in Listed(next) :
               /\ check' = [pc |-> next, todo |-> todo]
               /\ asked' = asked \cup {u \in todo : /\ next # "residue"
                                           /\ tree[u].env \in Closed \cup {"paused", "none"}}
        BY <3>2 DEF CheckLists
      <4>3. next \in {"terminal", "orphan", "paused"} =>
                todo \subseteq {u \in Task : tree[u].env \in Closed \cup {"paused", "none"}}
        <5>1. CASE next = "terminal" BY <5>1 DEF Listed
        <5>2. CASE next = "orphan" BY <5>2 DEF Listed, HasEnv
        <5>3. CASE next = "paused" BY <5>3 DEF Listed
        <5> QED BY <5>1, <5>2, <5>3
      <4>4. check'.pc = next /\ check'.todo = todo BY <4>2
      <4> HIDE DEF next
      <4>5. check'.pc \in {"terminal", "orphan", "paused"} => check'.todo \subseteq asked'
        BY <4>2, <4>3, <4>4
      <4> QED BY <2>2, <2>3, <4>5 DEF GivenUp, Quiet
    <3> QED BY <2>2, <3>1, <3>2
  <2> QED BY <2>1, <2>2, <2>4 DEF NoWorkMoves, Quiet
<1> QED BY <1>1, <1>2

(* Every step keeps the invariant, and does one of four things to the work.   *)
LEMMA Outcome ==
    ASSUME Typed, Typed', AllFine, GivenUp, [Next]_vars, "branch-d" \notin Fallible
    PROVE  /\ AllFine' /\ GivenUp'
           /\ NoWorkMoves \/ WorkMade \/ WorkLost \/ \E t \in Task : Reported(t)
<1>1. ASSUME NEW t \in Task, TaskStep(t) \/ Killed(t) \/ AgentEdits(t)
      PROVE  AllFine' /\ GivenUp' /\ (NoWorkMoves \/ WorkMade \/ WorkLost \/ Reported(t))
  <2>1. CASE \/ AgentEdits(t) \/ AddWorktree(t) \/ Commit(t) \/ FetchAndForward(t) \/ Rebase(t)
             \/ Merge(t) \/ Push(t) \/ Unbranch(t)
    BY <2>1, WorkOutcome
  <2>2. CASE \/ OpenRecord(t) \/ Resume(t) \/ OpenEnv(t) \/ Pause(t) \/ PauseRecord(t)
             \/ CloseoutStarts(t) \/ Preflight(t) \/ Fail(t) \/ FailBundle(t) \/ Killed(t)
             \/ CloseEnv(t) \/ Bundle(t)
    <3>1. Quiet /\ Apart(t) BY <2>2, QuietActions
    <3>2. Phase(t)' /\ ~Dropping(t)' BY <2>2, QuietPhase
    <3> QED BY <3>1, <3>2, QuietOutcome
  <2>3. CASE \/ Clear(t) \/ RemoveWorktree(t)
             \/ \E o \in {"blocked", "failed"} : DropRemove(t, o)
    <3>1. /\ AllFine' /\ (Dropping(t)' => Dropping(t) \/ t \in asked')
          /\ NoWorkMoves \/ WorkLost \/ Reported(t)
      BY <2>3, ThinOutcome
    <3>2. Thinning /\ Apart(t) BY <2>3, ThinActions
    <3>3. GivenUp' BY <3>1, <3>2, GivenUpKept DEF Thinning
    <3> QED BY <3>1, <3>3
  <2>4. ASSUME NEW o \in {"success", "blocked", "failed"},
               \/ Mark(t, o)
               \/ o # "success" /\ (DropStarts(t, o) \/ DropBundle(t, o) \/ DropReceipt(t, o))
        PROVE  AllFine' /\ GivenUp' /\ NoWorkMoves
    <3>1. Quiet /\ Apart(t) BY <2>4, DropActions
    <3>2. Phase(t)' /\ (Dropping(t)' => Dropping(t) \/ t \in asked') BY <2>4, DropPhase
    <3> QED BY <3>1, <3>2, QuietOutcome
  <2> QED BY <1>1, <2>1, <2>2, <2>3, <2>4 DEF TaskStep, SuccessPhase
<1>2. ASSUME NEW t \in Task, CheckRemoves(t)
      PROVE  AllFine' /\ GivenUp' /\ (NoWorkMoves \/ WorkLost)
  BY <1>2, CheckOutcome
<1>3. CASE SomebodyPushes \/ CheckLists \/ SyncStep \/ UNCHANGED vars BY <1>3, BesideOutcome
<1> QED BY <1>1, <1>2, <1>3 DEF Next, CheckStep, CheckRemoves

(* At the start there is no work.                                             *)
LEMMA InitFine == Init => AllFine /\ GivenUp
<1> SUFFICES ASSUME Init PROVE AllFine /\ GivenUp OBVIOUS
<1>1. W(<<>>) = {} /\ W(NoBranch) = {} BY WorkFacts
<1>2. \A t \in Task : /\ proc[t] = "idle" /\ branch[t] = NoBranch /\ tree[t] = NoTree
  BY DEF Init
<1>3. NoTree.attached /\ NoTree.head = <<>> /\ NoTree.dirty = <<>> /\ NoTree.kind # "git"
  BY DEF NoTree
<1>4. BaseFine BY <1>1 DEF Init, BaseFine
<1>5. \A t \in Task : TaskFine(t) BY <1>1, <1>2, <1>3 DEF TaskFine, Git
<1>6. Phases BY <1>2 DEF Phases, Phase, Working
<1>7. GivenUp BY <1>2 DEF Init, GivenUp, Dropping, BundleAt, DropAt, ReceiptAt, MarkAt
<1> QED BY <1>4, <1>5, <1>6, <1>7 DEF AllFine

(* The work that is held somewhere.                                           *)
HeldFacts == /\ Held = {p \in WorkOf : Somewhere(p)} \ Delivered
             /\ Delivered = W(upstream) /\ Delivered \subseteq {p \in WorkOf : Somewhere(p)}
             /\ {p \in WorkOf : Somewhere(p)} \subseteq MadeWork
             /\ MadeWork \subseteq WorkOf

(* Held and Delivered are the work that is somewhere, and it is all work that *)
(* has been made.                                                             *)
LEMMA HeldIs == AllFine => HeldFacts
<1> SUFFICES ASSUME AllFine PROVE HeldFacts OBVIOUS
<1>1. Delivered = W(upstream) BY DEF Delivered, W
<1>2. \A p : p \in Held <=> p \in WorkOf /\ Somewhere(p) /\ p \notin Delivered
  <2> DEFINE B == UNION {Patches(branch[t]) : t \in Task}
             H == UNION {Patches(tree[t].head) \cup Patches(tree[t].dirty) : t \in Task}
  <2>1. \A p : p \in B <=> \E t \in Task : p \in Patches(branch[t]) BY Zenon
  <2>2. \A p : p \in H <=> \E t \in Task : p \in Patches(tree[t].head) \cup Patches(tree[t].dirty)
    BY Zenon
  <2>3. Held = (WorkOf \cap (Patches(primary) \cup B \cup H)) \ Delivered BY Zenon DEF Held
  <2> HIDE DEF B, H
  <2>4. ASSUME NEW p \in WorkOf
        PROVE  Somewhere(p) <=> p \in Delivered \cup Patches(primary) \cup B \cup H
    BY <2>1, <2>2 DEF Somewhere, InBase, Here, W, Delivered
  <2> QED BY <2>3, <2>4
<1>3. \A p \in WorkOf : Somewhere(p) => p \in MadeWork
  BY DEF AllFine, BaseFine, TaskFine, Somewhere, InBase, Here, W
<1>4. Delivered \subseteq {p \in WorkOf : Somewhere(p)} BY <1>1 DEF W, Somewhere, InBase
<1> QED BY <1>1, <1>2, <1>3, <1>4 DEF MadeWork, HeldFacts

(* The same after a step.                                                     *)
LEMMA HeldIsNext == AllFine' => HeldFacts'
BY HeldIs, PTL

(* The four kinds of steps are steps of TaskLife.                             *)
LEMMA LifeInit == Init => Life!Init
<1> SUFFICES ASSUME Init PROVE Life!Init OBVIOUS
<1>1. AllFine BY InitFine
<1>2. MadeWork = {} BY TaskFlowAssumption DEF Init, MadeWork, WorkOf
<1>3. Held = {} /\ Delivered = {} BY <1>1, <1>2, HeldIs DEF HeldFacts
<1> QED BY <1>2, <1>3 DEF Init, Life!Init

(* Every step of the task flow is a step of TaskLife, or a stutter: the       *)
(* agent's edit is Make, a push Deliver, the end of a successful closeout     *)
(* Report, whatever throws work away GiveUp.                                  *)
LEMMA LifeStep ==
    ASSUME Typed, Typed', AllFine, GivenUp, [Next]_vars, "branch-d" \notin Fallible
    PROVE  [Life!Next]_(Life!vars)
<1> DEFINE S == {p \in WorkOf : Somewhere(p)}
           lost == MadeWork \ (Held \cup Delivered)
<1>1. AllFine' BY Outcome
<1>2. /\ Held = S \ Delivered /\ Delivered = W(upstream) /\ Delivered \subseteq S
      /\ S \subseteq MadeWork /\ MadeWork \subseteq WorkOf
  BY HeldIs DEF HeldFacts
<1>3. /\ Held' = S' \ Delivered' /\ Delivered' = W(upstream') /\ Delivered' \subseteq S'
      /\ S' \subseteq MadeWork'
  BY <1>1, HeldIsNext DEF HeldFacts
<1>4. S' = {p \in WorkOf : Somewhere(p)'} BY DEF WorkOf
<1>5. lost = MadeWork \ S /\ lost' = MadeWork' \ S' BY <1>2, <1>3
<1>6. asked \subseteq Task /\ asked' \subseteq Task BY DEF Typed, CountType
<1>7. Life!Made = MadeWork BY <1>2 DEF Life!Made
<1> HIDE DEF lost
<1>8. CASE NoWorkMoves
  <2>1. S' = S BY <1>4, <1>8 DEF NoWorkMoves, NothingMoves
  <2>2. MadeWork' = MadeWork /\ said' = said BY <1>8 DEF NoWorkMoves, MadeWork
  <2>3. lost' = lost BY <1>5, <2>1, <2>2
  <2> HIDE DEF S
  <2>4. CASE Delivered' = Delivered
    <3>1. Held' = Held /\ asked' = asked \cup (asked' \ asked)
      BY <1>2, <1>3, <1>8, <2>1, <2>4 DEF NoWorkMoves
    <3>2. asked' \ asked \in SUBSET Task BY <1>6
    <3>3. /\ {} \in SUBSET {p \in Held : p[1] \in asked'}
          /\ Held' = Held \ {} /\ lost' = lost \cup {}
      BY <2>3, <3>1
    <3> QED BY <2>2, <2>4, <3>1, <3>2, <3>3 DEF Life!Next, Life!GiveUp, lost
  <2>5. CASE Delivered' # Delivered
    <3>1. asked' = asked /\ Delivered \subseteq Delivered'
      BY <1>2, <1>3, <1>8, <2>5 DEF NoWorkMoves
    <3>2. Delivered' \ Delivered \in SUBSET Held BY <1>2, <1>3, <2>1
    <3>3. /\ Held' = Held \ (Delivered' \ Delivered)
          /\ Delivered' = Delivered \cup (Delivered' \ Delivered)
      BY <1>2, <1>3, <2>1, <3>1
    <3> QED BY <2>2, <2>3, <3>1, <3>2, <3>3 DEF Life!Next, Life!Deliver, lost
  <2> QED BY <2>4, <2>5
<1>9. CASE WorkMade
  <2>1. PICK p \in WorkOf \ MadeWork :
            /\ MadeWork' = MadeWork \cup {p} /\ UNCHANGED <<upstream, asked, said>>
            /\ \A q \in WorkOf : Somewhere(q)' <=> Somewhere(q) \/ q = p
    BY <1>9 DEF WorkMade
  <2>2. S' = S \cup {p} BY <1>4, <2>1
  <2> HIDE DEF S
  <2>3. Delivered' = Delivered BY <1>2, <1>3, <2>1
  <2>4. Held' = Held \cup {p} /\ lost' = lost BY <1>2, <1>3, <1>5, <2>1, <2>2, <2>3
  <2>5. Life!Make(p) BY <1>7, <2>1, <2>3, <2>4 DEF Life!Make, lost
  <2> QED BY <2>1, <2>5 DEF Life!Next
<1>10. CASE WorkLost
  <2>1. S' \subseteq S /\ \A p \in S \ S' : p[1] \in asked' BY <1>4, <1>10 DEF WorkLost
  <2>2. MadeWork' = MadeWork /\ said' = said /\ UNCHANGED upstream /\ asked \subseteq asked'
    BY <1>10 DEF WorkLost, MadeWork
  <2> HIDE DEF S
  <2>3. Delivered' = Delivered BY <1>2, <1>3, <2>2
  <2>4. Held' = Held \ (S \ S') /\ lost' = lost \cup (S \ S')
    BY <1>2, <1>3, <1>5, <2>1, <2>2, <2>3
  <2>5. S \ S' \in SUBSET {p \in Held : p[1] \in asked'} BY <1>2, <1>3, <2>1, <2>3
  <2>6. asked' = asked \cup (asked' \ asked) /\ asked' \ asked \in SUBSET Task BY <1>6, <2>2
  <2> QED BY <2>2, <2>3, <2>4, <2>5, <2>6 DEF Life!Next, Life!GiveUp, lost
<1>11. ASSUME NEW t \in Task, Reported(t) PROVE [Life!Next]_(Life!vars)
  <2>1. S' = S BY <1>4, <1>11 DEF Reported, NothingMoves
  <2>2. \A p \in S : p[1] = t => p \in W(upstream) BY <1>11 DEF Reported, OwnWork, W
  <2>3. MadeWork' = MadeWork /\ UNCHANGED <<upstream, asked>> /\ said' = said \cup {t}
    BY <1>11 DEF Reported, MadeWork
  <2> HIDE DEF S
  <2>4. Delivered' = Delivered BY <1>2, <1>3, <2>3
  <2>5. Held' = Held /\ lost' = lost BY <1>2, <1>3, <1>5, <2>1, <2>3, <2>4
  <2>6. Life!Of(t) \cap Held = {} BY <1>2, <2>2 DEF Life!Of
  <2>7. Life!Report(t) BY <2>3, <2>4, <2>5, <2>6 DEF Life!Report, lost
  <2> QED BY <2>7 DEF Life!Next
<1> QED BY <1>8, <1>9, <1>10, <1>11, Outcome

(* The task flow implements TaskLife: whatever fails or is killed, and        *)
(* however commands, terminal-check and other people's pushes interleave,     *)
(* work is lost only of a task that was paused, given up, cleared or rightly  *)
(* listed, and success is reported only of work that is on the remote.  The   *)
(* assumption is that git branch -d fails only on a branch that is not        *)
(* merged, and that no process is killed between git checkout --detach and    *)
(* git branch -d: a task opened again after that commits to a detached HEAD,  *)
(* which a later closeout drops with its worktree.                            *)
THEOREM WorkKept ==
    ASSUME "branch-d" \notin Fallible
    PROVE  Spec => WorkIsNotLost
<1>1. Typed /\ Typed' /\ AllFine /\ GivenUp /\ [Next]_vars => AllFine' /\ GivenUp'
  BY Outcome
<1>2. Typed /\ Typed' /\ AllFine /\ GivenUp /\ [Next]_vars => [Life!Next]_(Life!vars)
  BY LifeStep
<1> QED BY <1>1, <1>2, InitTyped, InitFine, LifeInit, StepTyped, PTL
        DEF Spec, WorkIsNotLost, Life!Spec

(* A closeout that reports success has left no branch and no worktree, has    *)
(* written its bundle, and every patch of the task that was still somewhere   *)
(* is on the remote (closeout_success_inner), under the same assumption.      *)
THEOREM ReportsComplete ==
    ASSUME "branch-d" \notin Fallible
    PROVE  Spec => ReportedSuccessIsComplete
<1> DEFINE Complete == \A t \in said' \ said :
                           /\ {p \in Held : p[1] = t} \subseteq Patches(upstream')
                           /\ branch'[t] = NoBranch /\ tree'[t].kind = "none" /\ t \in bundled'
<1>1. Typed /\ Typed' /\ AllFine /\ GivenUp /\ [Next]_vars => AllFine' /\ GivenUp'
  BY Outcome
<1>2. Typed /\ Typed' /\ AllFine /\ GivenUp /\ [Next]_vars => [Complete]_vars
  <2> SUFFICES ASSUME Typed, Typed', AllFine, GivenUp, [Next]_vars, NEW t \in said' \ said
               PROVE  /\ {p \in Held : p[1] = t} \subseteq Patches(upstream')
                      /\ branch'[t] = NoBranch /\ tree'[t].kind = "none" /\ t \in bundled'
    OBVIOUS
  <2>1. PICK u \in Task : Reported(u) BY Outcome DEF NoWorkMoves, WorkMade, WorkLost
  <2>2. u = t BY <2>1 DEF Reported
  <2>3. {p \in Held : p[1] = t} \subseteq {p \in OwnWork(t) : Somewhere(p)}
    BY HeldIs DEF HeldFacts, OwnWork
  <2> QED BY <2>1, <2>2, <2>3 DEF Reported
<1> QED BY <1>1, <1>2, InitTyped, InitFine, StepTyped, PTL DEF Spec, ReportedSuccessIsComplete
=============================================================================
