-------------------------- MODULE AgentProofs --------------------------
(***************************************************************************)
(* Proofs about agents: how item workers launch them (QueueLaunch), what   *)
(* the registry keeps of them (AgentSessions), and how a message typed for *)
(* a task finds its agent (TaskChat).  Each component is proved by itself, *)
(* for every value of its constants; they share no variables.              *)
(***************************************************************************)
EXTENDS TaskChat, FiniteSetTheorems, WellFoundedInduction, Integers, FiniteSets, TLAPS

----------------------------------------------------------------------------
(* TaskChat, for all tasks, windows, messages and openings.                  *)
(*                                                                           *)
(* A text is fit for an agent when it is a packet, or a message typed for    *)
(* the agent's task, or misled (Fine).  That holds of every input line and   *)
(* of everything heard because it holds of every request under way, whose    *)
(* target is an agent of its task from the moment it has one (FitCall), and  *)
(* because a window shows a terminal of its task or has strayed (FitWindow). *)

Texts == Messages \cup {Packet}
Targets == Agents \cup {NoTarget}
Stages == {"idle", "asked", "record", "start", "packet", "enter-packet", "store-record", "store-item",
           "paste", "enter", "ok", "failed"}
CallSet == [stage : Stages, task : Tasks \cup {None}, target : Targets, copy : Entries, text : Texts]
ContextSet == [task : Tasks \cup {None}, target : Targets, available : BOOLEAN]

(* A text is for an agent: the packet, or a message of its task or misled.   *)
Fine(m, x) == m = Packet \/ (m \in Messages /\ meant[m] \in Tasks /\ (x[1] = meant[m] \/ m \in misled))
Gone(m) == m \in dropped \/ \E e \in heard : e[1] = m

(* What is known of a request: its task, its text, where the text goes and   *)
(* whether it stands in the input line.                                      *)
FitCall(c, r) ==
    r.stage # "idle" =>
        /\ r.task \in Tasks /\ context[c[1]].task \in Tasks
        /\ r.stage \in {"paste", "enter", "ok"} => r.target \in Agents
        /\ c[2] = "ensure" => /\ r.text = Packet /\ r.stage \notin {"paste", "enter"}
                              /\ r.target # NoTarget => r.target[1] = r.task
        /\ c[2] = "send" => /\ r.text \in Messages /\ meant[r.text] = r.task
                            /\ r.target # NoTarget => Fine(r.text, r.target)
                            /\ r.stage = "enter" => Gone(r.text) \/ r.text \in input[r.target]
                            /\ r.stage = "ok" => Gone(r.text)

FitWindow(w) ==
    /\ context[w].target # NoTarget => context[w].target[1] = context[w].task \/ w \in strayed
    /\ context[w].task = None => ~context[w].available /\ reading[w] = None /\ w \notin timer

WorldTyped ==
    /\ item \in [Tasks -> Entries] /\ record \in [Tasks -> Entries]
    /\ listed \subseteq Agents /\ terminals \subseteq Agents
    /\ input \in [Agents -> SUBSET Texts] /\ heard \subseteq Texts \X Agents
    /\ acts \in 0 .. MaxEvents
WindowsTyped ==
    /\ context \in [Windows -> ContextSet] /\ reading \in [Windows -> Tasks \cup {None}]
    /\ meant \in [Messages -> Tasks \cup {None}]
Texted ==
    /\ \A x \in Agents : \A m \in input[x] : Fine(m, x)
    /\ \A e \in heard : Fine(e[1], e[2])

Inv ==
    /\ WorldTyped /\ WindowsTyped /\ call \in [Calls -> CallSet]
    /\ \A c \in Calls : FitCall(c, call[c])
    /\ \A w \in Windows : FitWindow(w)
    /\ Texted
    /\ \A m \in reported : Gone(m)

---------------------------------------------------------------------------
(* The terminals: what is typed in is for their agent, and nothing is lost   *)
(* that is not counted as dropped.                                           *)
Flows ==
    /\ input' \in [Agents -> SUBSET Texts] /\ heard' \subseteq Texts \X Agents
    /\ heard \subseteq heard' /\ dropped \subseteq dropped'
    /\ \A x \in Agents : \A m \in input[x] : m \in input'[x] \/ Gone(m)'
    /\ \A x \in Agents : \A m \in input'[x] : Fine(m, x)
    /\ \A e \in heard' : Fine(e[1], e[2])

LEMMA StillFlows ==
    ASSUME Inv, UNCHANGED <<input, heard, dropped>>
    PROVE  Flows
BY DEF Inv, WorldTyped, Texted, Flows

LEMMA PasteFlows ==
    ASSUME Inv, NEW x \in Agents, NEW m \in Texts, Pastes(x, m), Fine(m, x),
           UNCHANGED <<heard, dropped>>
    PROVE  Flows /\ m \in input'[x]
<1>1. input \in [Agents -> SUBSET Texts] /\ input' = [input EXCEPT ![x] = input[x] \cup {m}]
  BY DEF Inv, WorldTyped, Pastes
<1>2. /\ input'[x] = input[x] \cup {m} /\ \A y \in Agents \ {x} : input'[y] = input[y]
      /\ input' \in [Agents -> SUBSET Texts]
  BY <1>1
<1>3. \A y \in Agents : \A n \in input[y] : n \in input'[y] BY <1>2
<1>4. \A y \in Agents : \A n \in input'[y] : Fine(n, y) BY <1>2 DEF Inv, Texted
<1> QED BY <1>2, <1>3, <1>4 DEF Flows, Inv, WorldTyped, Texted

LEMMA EnterFlows ==
    ASSUME Inv, NEW x \in Agents, Enters(x), UNCHANGED dropped
    PROVE  Flows /\ \A m \in input[x] : Gone(m)'
<1>1. /\ input \in [Agents -> SUBSET Texts] /\ heard \subseteq Texts \X Agents
      /\ input' = [input EXCEPT ![x] = {}] /\ heard' = heard \cup {<<m, x>> : m \in input[x]}
  BY DEF Inv, WorldTyped, Enters
<1>2. /\ input'[x] = {} /\ \A y \in Agents \ {x} : input'[y] = input[y]
      /\ input' \in [Agents -> SUBSET Texts]
  BY <1>1
<1>3. \A m \in input[x] : Gone(m)'
  <2> TAKE m \in input[x]
  <2>1. <<m, x>> \in heard' /\ <<m, x>>[1] = m BY <1>1
  <2> QED BY <2>1 DEF Gone
<1>4. \A y \in Agents : \A n \in input[y] : n \in input'[y] \/ Gone(n)' BY <1>2, <1>3
<1>5. \A y \in Agents : \A n \in input'[y] : Fine(n, y) BY <1>2 DEF Inv, Texted
<1>6. \A e \in heard' : Fine(e[1], e[2]) BY <1>1 DEF Inv, Texted
<1>7. heard' \subseteq Texts \X Agents BY <1>1
<1> QED BY <1>1, <1>2, <1>3, <1>4, <1>5, <1>6, <1>7 DEF Flows

(* The terminal ends, or its line is erased.                                 *)
LEMMA EmptyFlows ==
    ASSUME Inv, NEW x \in Agents, input' = [input EXCEPT ![x] = {}],
           dropped' = dropped \cup input[x], UNCHANGED heard
    PROVE  Flows
<1>1. input \in [Agents -> SUBSET Texts] BY DEF Inv, WorldTyped
<1>2. /\ input'[x] = {} /\ \A y \in Agents \ {x} : input'[y] = input[y]
      /\ input' \in [Agents -> SUBSET Texts]
  BY <1>1
<1>3. \A y \in Agents : \A n \in input[y] : n \in input'[y] \/ Gone(n)' BY <1>2 DEF Gone
<1>4. \A y \in Agents : \A n \in input'[y] : Fine(n, y) BY <1>2 DEF Inv, Texted
<1> QED BY <1>2, <1>3, <1>4 DEF Flows, Inv, WorldTyped, Texted

(* A step of the server, of an agent or of a worker: the windows stay as     *)
(* they are, and one request may go on.                                      *)
WorldMoves ==
    /\ UNCHANGED windows
    /\ item' \in [Tasks -> Entries] /\ record' \in [Tasks -> Entries]
    /\ listed' \subseteq Agents /\ terminals' \subseteq Agents /\ acts' \in 0 .. MaxEvents
    /\ Flows

LEMMA StaysFit ==
    ASSUME WorldMoves, NEW c \in Calls, NEW r \in CallSet, FitCall(c, r)
    PROVE  FitCall(c, r)'
<1>1. /\ context' = context /\ meant' = meant /\ misled' = misled BY DEF WorldMoves, windows
<1>2. \A m : Gone(m) => Gone(m)' BY DEF WorldMoves, Flows, Gone
<1>3. r.stage # "idle" /\ r.stage = "enter" /\ c[2] = "send" => Gone(r.text)' \/ r.text \in input'[r.target]
  BY <1>2 DEF WorldMoves, Flows, FitCall
<1> QED BY <1>1, <1>2, <1>3 DEF FitCall, Fine

LEMMA WorldKeeps ==
    ASSUME Inv, WorldMoves,
           \/ UNCHANGED call
           \/ \E c \in Calls : \E r \in CallSet : call' = [call EXCEPT ![c] = r] /\ FitCall(c, r)'
    PROVE  Inv'
<1>1. /\ UNCHANGED <<context, reading, timer, strayed, meant, misled, reported>>
  BY DEF WorldMoves, windows
<1>2. \A m : Gone(m) => Gone(m)' BY DEF WorldMoves, Flows, Gone
<1>3. call' \in [Calls -> CallSet] /\ \A d \in Calls : FitCall(d, call[d])'
  <2>1. ASSUME NEW d \in Calls, call'[d] = call[d] PROVE FitCall(d, call[d])'
    <3>1. PICK r \in CallSet : r = call[d] BY DEF Inv
    <3>2. FitCall(d, r) BY <3>1 DEF Inv
    <3>3. FitCall(d, r)' BY <3>2, StaysFit
    <3> QED BY <2>1, <3>1, <3>3 DEF FitCall
  <2>2. call \in [Calls -> CallSet] BY DEF Inv
  <2>3. CASE UNCHANGED call BY <2>1, <2>2, <2>3
  <2>4. ASSUME NEW c \in Calls, NEW r \in CallSet, call' = [call EXCEPT ![c] = r], FitCall(c, r)'
        PROVE  call' \in [Calls -> CallSet] /\ \A d \in Calls : FitCall(d, call[d])'
    <3>1. call' \in [Calls -> CallSet] /\ call'[c] = r BY <2>2, <2>4
    <3>2. FitCall(c, call[c])' BY <2>4, <3>1 DEF FitCall
    <3>3. \A d \in Calls \ {c} : call'[d] = call[d] BY <2>2, <2>4
    <3> QED BY <2>1, <3>1, <3>2, <3>3
  <2> QED BY <2>3, <2>4
<1>4. WorldTyped' BY DEF WorldMoves, Flows, WorldTyped
<1>5. WindowsTyped' BY <1>1 DEF WindowsTyped, Inv
<1>6. \A w \in Windows : FitWindow(w)' BY <1>1 DEF FitWindow, Inv
<1>7. Texted' BY <1>1 DEF WorldMoves, Flows, Texted, Fine
<1>8. \A m \in reported' : Gone(m)' BY <1>1, <1>2 DEF Inv
<1> QED BY <1>3, <1>4, <1>5, <1>6, <1>7, <1>8 DEF Inv

LEMMA CallMovesOn ==
    ASSUME Inv, WorldMoves, NEW c \in Calls, NEW r \in CallSet, call' = [call EXCEPT ![c] = r],
           FitCall(c, r)
    PROVE  Inv'
BY StaysFit, WorldKeeps

---------------------------------------------------------------------------
(* The server's steps.                                                       *)

LEMMA Quiet ==
    ASSUME Inv, UNCHANGED windows, UNCHANGED <<input, heard, dropped>>,
           item' \in [Tasks -> Entries], record' \in [Tasks -> Entries],
           listed' \subseteq Agents, terminals' \subseteq Agents, acts' \in 0 .. MaxEvents
    PROVE  WorldMoves
BY StillFlows DEF WorldMoves

LEMMA Typed ==
    ASSUME Inv
    PROVE  /\ item \in [Tasks -> Entries] /\ record \in [Tasks -> Entries]
           /\ listed \subseteq Agents /\ terminals \subseteq Agents /\ acts \in 0 .. MaxEvents
           /\ call \in [Calls -> CallSet]
BY DEF Inv, WorldTyped

(* The call's stage changes, and nothing else of it.                         *)
LEMMA StageMoves ==
    ASSUME Inv, WorldMoves, NEW c \in Calls, NEW stage \in Stages \ {"paste", "enter", "ok"},
           Moves(c, stage), call[c].stage # "idle"
    PROVE  Inv'
<1> DEFINE r == [call[c] EXCEPT !.stage = stage]
<1>1. call[c] \in CallSet /\ call \in [Calls -> CallSet] /\ FitCall(c, call[c]) BY DEF Inv
<1>2. call' = [call EXCEPT ![c] = r] BY <1>1 DEF Moves
<1>3. /\ r \in CallSet /\ r.stage = stage /\ r.task = call[c].task /\ r.text = call[c].text
      /\ r.target = call[c].target
  BY <1>1 DEF CallSet
<1> HIDE DEF r
<1>4. FitCall(c, r) BY <1>1, <1>3 DEF FitCall
<1> QED BY <1>2, <1>3, <1>4, CallMovesOn

LEMMA ReadyKeeps ==
    ASSUME Inv, WorldMoves, NEW c \in Calls, NEW x \in Agents, Ready(c, x), call[c].stage # "idle",
           x[1] = call[c].task \/ x = call[c].target
    PROVE  Inv'
<1> DEFINE stage == IF c[2] = "ensure" THEN "ok" ELSE "paste"
           r == [call[c] EXCEPT !.target = x, !.stage = stage]
<1>1. call[c] \in CallSet /\ call \in [Calls -> CallSet] /\ FitCall(c, call[c]) BY DEF Inv
<1>2. call' = [call EXCEPT ![c] = r] BY <1>1 DEF Ready
<1>3. /\ r \in CallSet /\ r.stage = stage /\ r.task = call[c].task /\ r.text = call[c].text
      /\ r.target = x
  BY <1>1 DEF CallSet, Targets, Stages
<1> HIDE DEF r
<1>4. x # NoTarget BY DEF Agents, NoTarget, None
<1>5. c[2] = "ensure" => r.target[1] = r.task BY <1>1, <1>3, <1>4 DEF FitCall
<1>6. c[2] = "send" => Fine(r.text, r.target)
  <2> SUFFICES ASSUME c[2] = "send" PROVE Fine(r.text, r.target) OBVIOUS
  <2>1. r.text \in Messages /\ meant[r.text] = r.task /\ r.task \in Tasks BY <1>1, <1>3 DEF FitCall
  <2>2. CASE x[1] = call[c].task BY <1>3, <2>1, <2>2 DEF Fine
  <2>3. CASE x = call[c].target BY <1>1, <1>3, <1>4, <2>3 DEF FitCall
  <2> QED BY <2>2, <2>3
<1>7. FitCall(c, r) BY <1>1, <1>3, <1>5, <1>6 DEF FitCall
<1> QED BY <1>2, <1>3, <1>7, CallMovesOn

LEMMA TargetOfTask ==
    ASSUME Inv, NEW t \in Tasks, NEW a
    PROVE  /\ Target(t, a) # NoTarget => Target(t, a) \in Agents /\ Target(t, a)[1] = t
           /\ ItemTarget(t) # NoTarget => ItemTarget(t) \in Agents /\ ItemTarget(t)[1] = t
<1>1. \A b : Target(t, b) # NoTarget => Target(t, b) \in Agents /\ Target(t, b)[1] = t
  BY Typed DEF Target
<1>2. <<t, "work">> \in Agents BY DEF Agents
<1> QED BY <1>1, <1>2 DEF ItemTarget

LEMMA LooksUpKeeps ==
    ASSUME Inv, NEW c \in Calls, LooksUp(c)
    PROVE  Inv'
<1>1. call[c].stage = "asked" /\ UNCHANGED <<world, windows, acts>> BY DEF LooksUp
<1>2. WorldMoves BY <1>1, Typed, Quiet DEF world
<1>3. call[c] \in CallSet /\ call \in [Calls -> CallSet] /\ FitCall(c, call[c]) BY DEF Inv
<1>4. call[c].task \in Tasks BY <1>1, <1>3 DEF FitCall
<1>5. CASE call[c].target # NoTarget
  <2>1. call[c].target \in Agents BY <1>3, <1>5 DEF CallSet, Targets
  <2> QED BY <1>1, <1>2, <1>5, <2>1, ReadyKeeps DEF LooksUp
<1>6. CASE call[c].target = NoTarget /\ ItemTarget(call[c].task) # NoTarget
  <2>1. ItemTarget(call[c].task) \in Agents /\ ItemTarget(call[c].task)[1] = call[c].task
    BY <1>4, <1>6, TargetOfTask
  <2> QED BY <1>1, <1>2, <1>6, <2>1, ReadyKeeps DEF LooksUp
<1>7. CASE call[c].target = NoTarget /\ ItemTarget(call[c].task) = NoTarget
  <2> DEFINE copy == [call[c].copy EXCEPT !.agent = item[call[c].task].agent]
             r == [call[c] EXCEPT !.stage = "record", !.copy = copy]
  <2>1. call' = [call EXCEPT ![c] = r]
    <3>1. call' = [call EXCEPT ![c].stage = "record", ![c].copy.agent = item[call[c].task].agent]
      BY <1>7 DEF LooksUp
    <3> QED BY <1>3, <3>1
  <2>2. copy \in Entries
    <3>1. item[call[c].task] \in Entries BY <1>4, Typed
    <3> QED BY <1>3, <3>1 DEF CallSet, Entries
  <2> HIDE DEF copy
  <2>3. /\ r \in CallSet /\ r.stage = "record" /\ r.task = call[c].task /\ r.text = call[c].text
        /\ r.target = call[c].target
    BY <1>3, <2>2 DEF CallSet, Stages
  <2> HIDE DEF r
  <2>4. FitCall(c, r) BY <1>1, <1>3, <2>3 DEF FitCall
  <2> QED BY <1>2, <2>1, <2>3, <2>4, CallMovesOn
<1> QED BY <1>5, <1>6, <1>7

LEMMA ReadsRecordKeeps ==
    ASSUME Inv, NEW c \in Calls, ReadsRecord(c)
    PROVE  Inv'
<1> DEFINE t == call[c].task
           who == IF record[t].agent # None THEN record[t].agent ELSE call[c].copy.agent
<1>1. call[c].stage = "record" /\ UNCHANGED <<world, windows, acts>> BY DEF ReadsRecord
<1>2. WorldMoves BY <1>1, Typed, Quiet DEF world
<1>3. call[c] \in CallSet /\ call \in [Calls -> CallSet] /\ FitCall(c, call[c]) BY DEF Inv
<1>4. t \in Tasks BY <1>1, <1>3 DEF FitCall
<1>5. CASE record[t].status # None /\ Target(t, who) # NoTarget
  <2>1. Target(t, who) \in Agents /\ Target(t, who)[1] = t BY <1>4, <1>5, TargetOfTask
  <2>2. Ready(c, Target(t, who)) BY <1>5 DEF ReadsRecord
  <2> QED BY <1>1, <1>2, <2>1, <2>2, ReadyKeeps
<1>6. CASE ~(record[t].status # None /\ Target(t, who) # NoTarget)
  <2> DEFINE stage == IF Resumable(record[t].status) THEN "start" ELSE "failed"
             r == [call[c] EXCEPT !.stage = stage, !.copy = record[t]]
  <2>1. call' = [call EXCEPT ![c] = r] BY <1>3, <1>6 DEF ReadsRecord
  <2>2. record[t] \in Entries BY <1>4, Typed
  <2>3. stage \in {"start", "failed"} OBVIOUS
  <2> HIDE DEF stage
  <2>4. /\ r \in CallSet /\ r.stage = stage /\ r.task = call[c].task /\ r.text = call[c].text
        /\ r.target = call[c].target
    BY <1>3, <2>2, <2>3 DEF CallSet, Stages
  <2> HIDE DEF r
  <2>5. FitCall(c, r) BY <1>1, <1>3, <2>3, <2>4 DEF FitCall
  <2> QED BY <1>2, <2>1, <2>4, <2>5, CallMovesOn
<1> QED BY <1>5, <1>6

LEMMA StartsAgentKeeps ==
    ASSUME Parameters, Inv, NEW c \in Calls, StartsAgent(c)
    PROVE  Inv'
<1> DEFINE x == <<call[c].task, "chat">>
<1>1. /\ call[c].stage = "start" /\ UNCHANGED <<item, record, input, heard, dropped, windows>>
      /\ \E stage \in {"packet", "failed"} : Moves(c, stage)
      /\ listed' = listed \/ listed' = listed \cup {x}
      /\ terminals' = terminals \/ terminals' = terminals \cup {x}
      /\ acts' = acts \/ (acts < MaxEvents /\ acts' = acts + 1)
  BY DEF StartsAgent
<1>2. call[c].task \in Tasks BY <1>1 DEF Inv, FitCall
<1>3. x \in Agents BY <1>2 DEF Agents
<1>4. acts' \in 0 .. MaxEvents
  <2>1. MaxEvents \in Nat /\ acts \in 0 .. MaxEvents BY Typed DEF Parameters
  <2> QED BY <1>1, <2>1
<1> HIDE DEF x
<1>5. WorldMoves BY <1>1, <1>3, <1>4, Typed, Quiet
<1> QED BY <1>1, <1>5, StageMoves DEF Stages

LEMMA InstructsKeeps ==
    ASSUME Parameters, Inv, NEW c \in Calls, Instructs(c)
    PROVE  Inv'
<1> DEFINE x == <<call[c].task, "chat">>
<1>1. call[c].stage \in {"packet", "enter-packet"} /\ UNCHANGED <<item, record, listed, windows>>
  BY DEF Instructs
<1>2. call[c].task \in Tasks BY <1>1 DEF Inv, FitCall
<1>3. x \in Agents BY <1>2 DEF Agents
<1> HIDE DEF x
<1>4. ASSUME Flows, terminals' \subseteq Agents, acts' \in 0 .. MaxEvents,
             NEW stage \in {"enter-packet", "store-record", "failed"}, Moves(c, stage)
      PROVE  Inv'
  <2>1. WorldMoves BY <1>1, <1>4, Typed DEF WorldMoves
  <2> QED BY <1>1, <1>4, <2>1, StageMoves DEF Stages
<1>5. CASE /\ call[c].stage = "packet" /\ Pastes(x, Packet) /\ Moves(c, "enter-packet")
           /\ UNCHANGED <<terminals, heard, dropped, acts>>
  <2>1. Flows BY <1>3, <1>5, PasteFlows DEF Texts, Fine
  <2> QED BY <1>4, <1>5, <2>1, Typed
<1>6. CASE /\ call[c].stage = "enter-packet" /\ Enters(x) /\ Moves(c, "store-record")
           /\ UNCHANGED <<terminals, dropped, acts>>
  <2>1. Flows BY <1>3, <1>6, EnterFlows
  <2> QED BY <1>4, <1>6, <2>1, Typed
<1>7. CASE /\ IF Reaches(x) THEN Event ELSE UNCHANGED acts
           /\ Ends(x) /\ Moves(c, "failed") /\ UNCHANGED heard
  <2>1. Flows BY <1>3, <1>7, EmptyFlows DEF Ends
  <2>2. acts' \in 0 .. MaxEvents
    <3>1. MaxEvents \in Nat /\ acts \in 0 .. MaxEvents BY Typed DEF Parameters
    <3> QED BY <1>7, <3>1 DEF Event
  <2>3. terminals' \subseteq Agents BY <1>7, Typed DEF Ends
  <2> QED BY <1>4, <1>7, <2>1, <2>2, <2>3
<1> QED BY <1>5, <1>6, <1>7 DEF Instructs, x

LEMMA StoresAgentKeeps ==
    ASSUME Inv, NEW c \in Calls, StoresAgent(c)
    PROVE  Inv'
<1> DEFINE t == call[c].task
<1>1. call[c] \in CallSet /\ call \in [Calls -> CallSet] /\ FitCall(c, call[c]) BY DEF Inv
<1>2. t \in Tasks BY <1>1 DEF StoresAgent, FitCall
<1>3. CASE /\ call[c].stage = "store-record"
           /\ record' = [record EXCEPT ![t] = [call[c].copy EXCEPT !.agent = "chat"]]
           /\ Moves(c, "store-item")
           /\ UNCHANGED <<item, listed, terminals, input, heard, dropped, windows, acts>>
  <2>1. [call[c].copy EXCEPT !.agent = "chat"] \in Entries BY <1>1 DEF CallSet, Entries
  <2>2. record' \in [Tasks -> Entries] BY <1>2, <1>3, <2>1, Typed
  <2>3. WorldMoves BY <1>3, <2>2, Typed, Quiet
  <2> QED BY <1>3, <2>3, StageMoves DEF Stages
<1>4. CASE /\ call[c].stage = "store-item"
           /\ item' = IF item[t].status = None THEN item ELSE [item EXCEPT ![t].agent = "chat"]
           /\ Ready(c, <<t, "chat">>)
           /\ UNCHANGED <<record, listed, terminals, input, heard, dropped, windows, acts>>
  <2>1. [item[t] EXCEPT !.agent = "chat"] \in Entries BY <1>2, Typed DEF Entries
  <2>2. item' \in [Tasks -> Entries] BY <1>2, <1>4, <2>1, Typed
  <2>3. WorldMoves BY <1>4, <2>2, Typed, Quiet
  <2>4. <<t, "chat">> \in Agents BY <1>2 DEF Agents
  <2> QED BY <1>4, <2>3, <2>4, ReadyKeeps
<1> QED BY <1>3, <1>4 DEF StoresAgent

LEMMA SendsKeeps ==
    ASSUME Parameters, Inv, NEW c \in Calls, Sends(c)
    PROVE  Inv'
<1>1. /\ call[c].stage \in {"paste", "enter"}
      /\ UNCHANGED <<item, record, listed, terminals, dropped, windows>>
  BY DEF Sends
<1>2. call[c] \in CallSet /\ call \in [Calls -> CallSet] /\ FitCall(c, call[c]) BY DEF Inv
<1>3. PICK x \in Agents, m \in Messages : /\ x = call[c].target /\ m = call[c].text /\ c[2] = "send"
                                         /\ m \in Texts /\ x # NoTarget /\ Fine(m, x)
  <2>1. c[2] \in {"ensure", "send"} BY DEF Calls
  <2>2. call[c].target \in Agents /\ c[2] # "ensure" BY <1>1, <1>2 DEF FitCall
  <2>3. call[c].target # NoTarget BY <2>2 DEF Agents, NoTarget, None
  <2> QED BY <1>1, <1>2, <2>1, <2>2, <2>3 DEF FitCall, Texts
<1>4. ASSUME NEW stage \in {"enter", "ok"}, Moves(c, stage), Flows, UNCHANGED acts,
             stage = "enter" => m \in input'[x], stage = "ok" => Gone(m)'
      PROVE  Inv'
  <2>1. WorldMoves BY <1>1, <1>4, Typed DEF WorldMoves
  <2>2. [call[c] EXCEPT !.stage = stage] \in CallSet BY <1>2 DEF CallSet, Stages
  <2>3. PICK r \in CallSet : /\ call' = [call EXCEPT ![c] = r] /\ r.stage = stage
                             /\ r.task = call[c].task /\ r.text = m /\ r.target = x
    <3>1. PICK r \in CallSet : r = [call[c] EXCEPT !.stage = stage] BY <2>2
    <3>2. /\ r.stage = stage /\ r.task = call[c].task /\ r.text = m /\ r.target = x
      BY <1>2, <1>3, <3>1 DEF CallSet
    <3> QED BY <1>2, <1>4, <3>1, <3>2 DEF Moves
  <2>4. context' = context /\ meant' = meant /\ misled' = misled BY <1>1 DEF windows
  <2>5. call[c].task \in Tasks /\ context[c[1]].task \in Tasks /\ meant[m] = call[c].task
    BY <1>1, <1>2, <1>3 DEF FitCall
  <2>6. Fine(m, x)' BY <1>3, <2>4 DEF Fine
  <2>7. FitCall(c, r)' BY <1>3, <1>4, <2>3, <2>4, <2>5, <2>6 DEF FitCall
  <2> QED BY <2>1, <2>3, <2>7, WorldKeeps
<1>5. CASE /\ call[c].stage = "paste" /\ Pastes(x, m) /\ Moves(c, "enter") /\ UNCHANGED <<heard, acts>>
  <2>1. Flows /\ m \in input'[x] BY <1>1, <1>3, <1>5, PasteFlows
  <2> QED BY <1>4, <1>5, <2>1
<1>6. CASE /\ call[c].stage = "enter" /\ Enters(x) /\ Moves(c, "ok") /\ UNCHANGED acts
  <2>1. Flows /\ \A n \in input[x] : Gone(n)' BY <1>1, <1>3, <1>6, EnterFlows
  <2>2. Gone(m) \/ m \in input[x] BY <1>2, <1>3, <1>6 DEF FitCall
  <2>3. Gone(m)'
    <3>1. CASE m \in input[x] BY <2>1, <3>1
    <3>2. CASE Gone(m) BY <2>1, <3>2 DEF Gone, Flows
    <3> QED BY <2>2, <3>1, <3>2
  <2> QED BY <1>4, <1>6, <2>1, <2>3
<1>7. CASE /\ IF Reaches(x) THEN Event ELSE UNCHANGED acts
           /\ Moves(c, "failed") /\ UNCHANGED <<input, heard>>
  <2>1. acts' \in 0 .. MaxEvents
    <3>1. MaxEvents \in Nat /\ acts \in 0 .. MaxEvents BY Typed DEF Parameters
    <3> QED BY <1>7, <3>1 DEF Event
  <2>2. WorldMoves BY <1>1, <1>7, <2>1, Typed, Quiet
  <2> QED BY <1>1, <1>7, <2>2, StageMoves DEF Stages
<1> QED BY <1>3, <1>5, <1>6, <1>7 DEF Sends

LEMMA ServeKeeps ==
    ASSUME Parameters, Inv, NEW c \in Calls, Serve(c)
    PROVE  Inv'
BY LooksUpKeeps, ReadsRecordKeeps, StartsAgentKeeps, InstructsKeeps, StoresAgentKeeps, SendsKeeps
   DEF Serve

---------------------------------------------------------------------------
(* The windows' steps.                                                       *)

LEMMA StillFits ==
    ASSUME Inv, UNCHANGED <<input, heard, dropped, meant, misled>>,
           \A w \in Windows : context[w].task \in Tasks => context'[w].task \in Tasks,
           NEW d \in Calls, call'[d] = call[d]
    PROVE  FitCall(d, call[d])'
<1>1. FitCall(d, call[d]) /\ d[1] \in Windows BY DEF Inv, Calls
<1> QED BY <1>1 DEF FitCall, Fine, Gone

LEMMA WindowKeeps ==
    ASSUME Inv, UNCHANGED <<world, meant, misled>>, acts' \in 0 .. MaxEvents, NEW w \in Windows,
           context' \in [Windows -> ContextSet], reading' \in [Windows -> Tasks \cup {None}],
           context[w].task \in Tasks => context'[w].task \in Tasks,
           \A v \in Windows \ {w} :
               /\ context'[v] = context[v] /\ reading'[v] = reading[v]
               /\ v \in timer' <=> v \in timer
               /\ v \in strayed' <=> v \in strayed,
           FitWindow(w)',
           \/ UNCHANGED call
           \/ \E c \in Calls : \E r \in CallSet : call' = [call EXCEPT ![c] = r] /\ FitCall(c, r)',
           \A m \in reported' : Gone(m)
    PROVE  Inv'
<1>1. \A v \in Windows : context[v].task \in Tasks => context'[v].task \in Tasks OBVIOUS
<1>2. call' \in [Calls -> CallSet] /\ \A d \in Calls : FitCall(d, call[d])'
  <2>1. call \in [Calls -> CallSet] BY DEF Inv
  <2>2. \A d \in Calls : call'[d] = call[d] => FitCall(d, call[d])' BY <1>1, StillFits DEF world
  <2>3. CASE UNCHANGED call BY <2>1, <2>2, <2>3
  <2>4. ASSUME NEW c \in Calls, NEW r \in CallSet, call' = [call EXCEPT ![c] = r], FitCall(c, r)'
        PROVE  call' \in [Calls -> CallSet] /\ \A d \in Calls : FitCall(d, call[d])'
    <3>1. call' \in [Calls -> CallSet] /\ call'[c] = r BY <2>1, <2>4
    <3>2. FitCall(c, call[c])' BY <2>4, <3>1 DEF FitCall
    <3>3. \A d \in Calls \ {c} : call'[d] = call[d] BY <2>1, <2>4
    <3> QED BY <2>2, <3>1, <3>2, <3>3
  <2> QED BY <2>3, <2>4
<1>3. WorldTyped' BY DEF Inv, WorldTyped, world
<1>4. WindowsTyped' BY DEF Inv, WindowsTyped
<1>5. \A v \in Windows : FitWindow(v)' BY DEF Inv, FitWindow
<1>6. Texted' BY DEF Inv, Texted, Fine, world
<1>7. \A m \in reported' : Gone(m)' BY DEF Gone, world
<1> QED BY <1>2, <1>3, <1>4, <1>5, <1>6, <1>7 DEF Inv

LEMMA WindowTyped ==
    ASSUME Inv, NEW w \in Windows
    PROVE  /\ context \in [Windows -> ContextSet] /\ context[w] \in ContextSet
           /\ reading \in [Windows -> Tasks \cup {None}] /\ FitWindow(w) /\ acts \in 0 .. MaxEvents
           /\ \A m \in reported : Gone(m)
BY DEF Inv, WindowsTyped, WorldTyped

LEMMA ShowsKeeps ==
    ASSUME Parameters, Inv, NEW w \in Windows, NEW t \in Tasks, NEW x \in Targets, Shows(w, t, x),
           x = NoTarget \/ x[1] = t \/ (context[w].task = t /\ context[w].target = x /\ strayed' = strayed),
           UNCHANGED <<world, meant, misled, reported, call>>, acts' \in 0 .. MaxEvents,
           timer' \subseteq timer, timer \subseteq timer' \cup {w},
           strayed' = strayed \/ strayed' = strayed \ {w}
    PROVE  Inv'
<1> DEFINE k == [task |-> t, target |-> x, available |-> x # NoTarget]
<1>1. context' = [context EXCEPT ![w] = k] /\ reading' = [reading EXCEPT ![w] = t] BY DEF Shows
<1>2. k \in ContextSet /\ k.task = t /\ k.target = x BY DEF ContextSet
<1> HIDE DEF k
<1>3. /\ context' \in [Windows -> ContextSet] /\ context'[w] = k
      /\ \A v \in Windows \ {w} : context'[v] = context[v] /\ reading'[v] = reading[v]
      /\ reading' \in [Windows -> Tasks \cup {None}]
  BY <1>1, <1>2, WindowTyped
<1>4. t # None BY DEF Parameters
<1>5. FitWindow(w)' BY <1>2, <1>3, <1>4, WindowTyped DEF FitWindow
<1>6. \A v \in Windows \ {w} : (v \in timer' <=> v \in timer) /\ (v \in strayed' <=> v \in strayed)
  OBVIOUS
<1> QED BY <1>2, <1>3, <1>5, <1>6, WindowTyped, WindowKeeps

LEMMA TerminalsFit ==
    ASSUME Inv, NEW t, NEW x \in Terminals(t)
    PROVE  x \in Targets /\ (x = NoTarget \/ x[1] = t)
BY Typed DEF Terminals, Targets

LEMMA OpensTranscriptKeeps ==
    ASSUME Parameters, Inv, NEW w \in Windows, OpensTranscript(w)
    PROVE  Inv'
<1>0. PICK t \in Tasks : \E x \in Terminals(t) : Shows(w, t, x) BY DEF OpensTranscript
<1>1. PICK x \in Terminals(t) : Shows(w, t, x) BY <1>0
<1>2. x \in Targets /\ (x = NoTarget \/ x[1] = t) BY TerminalsFit
<1>3. acts' \in 0 .. MaxEvents
  <2>1. MaxEvents \in Nat /\ acts \in 0 .. MaxEvents BY Typed DEF Parameters
  <2> QED BY <2>1 DEF OpensTranscript, Event
<1> QED BY <1>1, <1>2, <1>3, ShowsKeeps DEF OpensTranscript

LEMMA ReopensKeeps ==
    ASSUME Parameters, Inv, NEW w \in Windows, Reopens(w)
    PROVE  Inv'
<1>1. context[w].task \in Tasks BY WindowTyped DEF Reopens, FitWindow, ContextSet
<1>2. /\ timer' \subseteq timer /\ timer \subseteq timer' \cup {w} /\ acts' \in 0 .. MaxEvents
      /\ UNCHANGED <<world, meant, misled, reported, call>>
  BY Typed DEF Reopens
<1>3. CASE Shows(w, context[w].task, context[w].target) /\ UNCHANGED strayed
  <2>1. context[w].target \in Targets BY WindowTyped DEF ContextSet
  <2> QED BY <1>1, <1>2, <1>3, <2>1, ShowsKeeps
<1>4. ASSUME NEW x \in Terminals(context[w].task), Shows(w, context[w].task, x),
             strayed' = strayed \ {w}
      PROVE  Inv'
  <2>1. x \in Targets /\ (x = NoTarget \/ x[1] = context[w].task) BY TerminalsFit
  <2> QED BY <1>1, <1>2, <1>4, <2>1, ShowsKeeps
<1> QED BY <1>3, <1>4 DEF Reopens

LEMMA IdleFits == Idle \in CallSet /\ Idle.stage = "idle" /\ \A c : FitCall(c, Idle)'
<1>1. [status |-> None, agent |-> None] \in Entries BY DEF Entries
<1>2. Idle \in CallSet BY <1>1 DEF Idle, CallSet, Stages, Targets, Texts
<1>3. Idle.stage = "idle" BY DEF Idle
<1> QED BY <1>2, <1>3 DEF FitCall

Asked(t, x, m) == [Idle EXCEPT !.stage = "asked", !.task = t, !.target = x, !.text = m]

LEMMA AskedFits ==
    ASSUME NEW t \in Tasks, NEW x \in Targets, NEW m \in Texts
    PROVE  /\ Asked(t, x, m) \in CallSet
           /\ Asked(t, x, m).stage = "asked" /\ Asked(t, x, m).task = t
           /\ Asked(t, x, m).target = x /\ Asked(t, x, m).text = m
<1>1. Idle \in CallSet BY IdleFits
<1> QED BY <1>1 DEF Asked, CallSet, Stages

LEMMA LoadsKeeps ==
    ASSUME Parameters, Inv, NEW w \in Windows, Loads(w)
    PROVE  Inv'
<1> DEFINE t == reading[w]
<1>1. /\ t # None /\ reading' = [reading EXCEPT ![w] = None]
      /\ UNCHANGED <<world, timer, strayed, meant, misled, reported, acts>>
  BY DEF Loads
<1>2. /\ context \in [Windows -> ContextSet] /\ context[w] \in ContextSet /\ t \in Tasks
      /\ context[w].task \in Tasks
  BY <1>1, WindowTyped DEF FitWindow, ContextSet
<1>3. reading' \in [Windows -> Tasks \cup {None}] /\ \A v \in Windows \ {w} : reading'[v] = reading[v]
  BY <1>1, WindowTyped
<1>4. /\ context' \in [Windows -> ContextSet] /\ \A v \in Windows \ {w} : context'[v] = context[v]
      /\ context'[w].task = context[w].task /\ context'[w].target = context[w].target
  <2>1. CASE UNCHANGED context BY <1>2, <2>1
  <2>2. ASSUME NEW b \in BOOLEAN, context' = [context EXCEPT ![w].available = b]
        PROVE  /\ context' \in [Windows -> ContextSet]
               /\ \A v \in Windows \ {w} : context'[v] = context[v]
               /\ context'[w].task = context[w].task /\ context'[w].target = context[w].target
    <3>1. PICK k : k = [context[w] EXCEPT !.available = b] OBVIOUS
    <3>2. k \in ContextSet /\ k.task = context[w].task /\ k.target = context[w].target
      BY <1>2, <3>1 DEF ContextSet
    <3>3. context' = [context EXCEPT ![w] = k] BY <1>2, <2>2, <3>1
    <3> QED BY <1>2, <3>2, <3>3
  <2>3. UNCHANGED context \/ \E b \in BOOLEAN : context' = [context EXCEPT ![w].available = b]
    <3>1. ASSUME NEW source, context' = [context EXCEPT ![w].available =
                                          context[w].target # NoTarget \/ ChatAvailable(t, source)]
          PROVE  \E b \in BOOLEAN : context' = [context EXCEPT ![w].available = b]
      BY <3>1 DEF ChatAvailable, Resumable
    <3> QED BY <3>1 DEF Loads
  <2> QED BY <2>1, <2>2, <2>3
<1>5. FitWindow(w)'
  <2>1. context'[w].task # None BY <1>2, <1>4 DEF Parameters
  <2> QED BY <1>1, <1>4, <2>1, WindowTyped DEF FitWindow
<1>6. UNCHANGED call \/ \E c \in Calls : \E r \in CallSet : call' = [call EXCEPT ![c] = r] /\ FitCall(c, r)'
  <2>1. UNCHANGED call \/ Asks(w, "ensure", t, NoTarget, Packet) BY DEF Loads
  <2>2. CASE Asks(w, "ensure", t, NoTarget, Packet)
    <3>1. NoTarget \in Targets /\ Packet \in Texts BY DEF Targets, Texts
    <3>2. PICK r \in CallSet :
            /\ r = Asked(t, NoTarget, Packet)
            /\ r.stage = "asked" /\ r.task = t /\ r.target = NoTarget /\ r.text = Packet
      BY <1>2, <3>1, AskedFits
    <3>3. call' = [call EXCEPT ![<<w, "ensure">>] = r] BY <2>2, <3>2 DEF Asks, Asked
    <3>4. <<w, "ensure">> \in Calls BY DEF Calls
    <3>5. r.task \in Tasks /\ context'[w].task \in Tasks BY <1>2, <1>4, <3>2
    <3>6. FitCall(<<w, "ensure">>, r)' BY <3>2, <3>5 DEF FitCall
    <3> QED BY <3>3, <3>4, <3>6
  <2> QED BY <2>1, <2>2
<1> HIDE DEF t
<1> QED BY <1>1, <1>2, <1>3, <1>4, <1>5, <1>6, WindowTyped, WindowKeeps

(* The window is done with a request: it takes its terminal, or not.         *)
LEMMA Unheeded ==
    ASSUME Inv, NEW w \in Windows, NEW c \in Calls, c[1] = w, call[c].stage # "idle",
           call' = [call EXCEPT ![c] = Idle], UNCHANGED <<world, windows, acts>>
    PROVE  Inv'
<1>1. UNCHANGED <<context, reading, timer, strayed, meant, misled, reported>> BY DEF windows
<1>2. \E d \in Calls : \E r \in CallSet : call' = [call EXCEPT ![d] = r] /\ FitCall(d, r)'
  BY IdleFits
<1>3. FitWindow(w)' BY <1>1, WindowTyped DEF FitWindow
<1> QED BY <1>1, <1>2, <1>3, WindowTyped, WindowKeeps

LEMMA Heeded ==
    ASSUME Parameters, Inv, NEW w \in Windows, NEW c \in Calls, c[1] = w, call[c].stage = "ok",
           call' = [call EXCEPT ![c] = Idle], UNCHANGED <<world, reading, meant, misled, acts>>,
           NEW k \in ContextSet, context' = [context EXCEPT ![w] = k],
           k.task = context[w].task, k.target = call[c].target,
           k.target[1] = k.task \/ w \in strayed',
           \A v \in Windows \ {w} : (v \in timer' <=> v \in timer) /\ (v \in strayed' <=> v \in strayed),
           \A m \in reported' : Gone(m)
    PROVE  Inv'
<1>1. /\ context \in [Windows -> ContextSet] /\ context[w] \in ContextSet /\ context[w].task \in Tasks
      /\ call[c] \in CallSet
  BY WindowTyped DEF Inv, FitCall
<1>2. \E d \in Calls : \E r \in CallSet : call' = [call EXCEPT ![d] = r] /\ FitCall(d, r)'
  BY IdleFits
<1>4. /\ context' \in [Windows -> ContextSet] /\ context'[w] = k
      /\ \A v \in Windows \ {w} : context'[v] = context[v]
  BY <1>1
<1>5. FitWindow(w)' BY <1>1, <1>4 DEF FitWindow, Parameters
<1>6. /\ context'[w].task \in Tasks /\ acts' \in 0 .. MaxEvents
      /\ reading' \in [Windows -> Tasks \cup {None}]
      /\ \A v \in Windows \ {w} : reading'[v] = reading[v]
  BY <1>1, <1>4, WindowTyped
<1> QED BY <1>2, <1>4, <1>5, <1>6, WindowKeeps

LEMMA EnsuredKeeps ==
    ASSUME Parameters, Inv, NEW w \in Windows, Ensured(w)
    PROVE  Inv'
<1>1. PICK c \in Calls : c = <<w, "ensure">> BY DEF Calls
<1>2. /\ call[c].stage \in {"ok", "failed"} /\ call' = [call EXCEPT ![c] = Idle]
      /\ UNCHANGED <<world, reading, timer, strayed, meant, misled, reported, acts>>
  BY <1>1 DEF Ensured
<1>3. c[1] = w /\ c[2] = "ensure" BY <1>1
<1>4. CASE call[c].stage = "ok" /\ context[w].task = call[c].task
  <2>1. PICK k \in ContextSet : /\ context' = [context EXCEPT ![w] = k]
                                /\ k.task = context[w].task /\ k.target = call[c].target
    <3>1. context' = [context EXCEPT ![w].target = call[c].target, ![w].available = TRUE]
      BY <1>1, <1>4 DEF Ensured
    <3>2. PICK k : k = [context[w] EXCEPT !.target = call[c].target, !.available = TRUE] OBVIOUS
    <3>3. context[w] \in ContextSet /\ call[c].target \in Targets BY WindowTyped DEF Inv, CallSet
    <3>4. k \in ContextSet /\ k.task = context[w].task /\ k.target = call[c].target
      BY <3>2, <3>3 DEF ContextSet
    <3>5. context' = [context EXCEPT ![w] = k] BY <3>1, <3>2, WindowTyped
    <3> QED BY <3>4, <3>5
  <2>2. FitCall(c, call[c]) BY DEF Inv
  <2>3. call[c].target # NoTarget BY <1>4, <2>2 DEF FitCall, Agents, NoTarget, None
  <2>4. call[c].target[1] = context[w].task BY <1>3, <1>4, <2>2, <2>3 DEF FitCall
  <2> QED BY <1>2, <1>3, <1>4, <2>1, <2>4, WindowTyped, Heeded
<1>5. CASE ~(call[c].stage = "ok" /\ context[w].task = call[c].task)
  <2>1. UNCHANGED context BY <1>1, <1>5 DEF Ensured
  <2> QED BY <1>2, <1>3, <2>1, Unheeded DEF windows
<1> QED BY <1>4, <1>5

LEMMA SentKeeps ==
    ASSUME Parameters, Inv, NEW w \in Windows, Sent(w)
    PROVE  Inv'
<1>1. PICK c \in Calls : c = <<w, "send">> BY DEF Calls
<1>2. /\ call[c].stage \in {"ok", "failed"} /\ call' = [call EXCEPT ![c] = Idle]
      /\ UNCHANGED <<world, reading, meant, misled, acts>>
  BY <1>1 DEF Sent
<1>3. c[1] = w /\ c[2] = "send" BY <1>1
<1>4. CASE call[c].stage = "ok"
  <2>1. /\ context' = [context EXCEPT ![w].target = call[c].target]
        /\ strayed' = IF context[w].task # call[c].task \/ call[c].text \in misled
                      THEN strayed \cup {w} ELSE strayed
        /\ timer' = timer \cup {w} /\ reported' = reported \cup {call[c].text}
    BY <1>1, <1>4 DEF Sent
  <2>3. PICK k \in ContextSet : /\ context' = [context EXCEPT ![w] = k]
                                /\ k.task = context[w].task /\ k.target = call[c].target
    <3>2. PICK k : k = [context[w] EXCEPT !.target = call[c].target] OBVIOUS
    <3>3. context[w] \in ContextSet /\ call[c].target \in Targets BY WindowTyped DEF Inv, CallSet
    <3>4. k \in ContextSet /\ k.task = context[w].task /\ k.target = call[c].target
      BY <3>2, <3>3 DEF ContextSet
    <3>5. context' = [context EXCEPT ![w] = k] BY <2>1, <3>2, WindowTyped
    <3> QED BY <3>4, <3>5
  <2>4. FitCall(c, call[c]) BY DEF Inv
  <2>5. /\ call[c].target # NoTarget /\ Fine(call[c].text, call[c].target) /\ Gone(call[c].text)
        /\ call[c].text \in Messages /\ meant[call[c].text] = call[c].task
    BY <1>3, <1>4, <2>4 DEF FitCall, Agents, NoTarget, None
  <2>6. call[c].target[1] = context[w].task \/ w \in strayed'
    BY <2>1, <2>5 DEF Fine, Parameters
  <2>7. \A m \in reported' : Gone(m) BY <2>1, <2>5, WindowTyped
  <2>8. \A v \in Windows \ {w} : (v \in timer' <=> v \in timer) /\ (v \in strayed' <=> v \in strayed)
    BY <2>1
  <2> QED BY <1>2, <1>3, <1>4, <2>3, <2>6, <2>7, <2>8, Heeded
<1>5. CASE call[c].stage # "ok"
  <2>1. UNCHANGED <<context, strayed, timer, reported>> BY <1>1, <1>5 DEF Sent
  <2> QED BY <1>2, <1>3, <2>1, Unheeded DEF windows
<1> QED BY <1>4, <1>5

(* A message is new: nothing stands anywhere of it.                          *)
LEMMA TypesKeeps ==
    ASSUME Parameters, Inv, NEW w \in Windows, Types(w)
    PROVE  Inv'
<1>1. /\ context[w].available /\ call[<<w, "send">>] = Idle
      /\ UNCHANGED <<world, context, reading, timer, strayed, reported, acts>>
  BY DEF Types
<1>2. PICK m \in Messages :
        /\ meant[m] = None /\ meant' = [meant EXCEPT ![m] = context[w].task]
        /\ misled' = IF w \in strayed THEN misled \cup {m} ELSE misled
        /\ Asks(w, "send", context[w].task, context[w].target, m)
  BY DEF Types
<1>3. /\ context[w] \in ContextSet /\ context[w].task \in Tasks /\ context[w].target \in Targets
      /\ meant \in [Messages -> Tasks \cup {None}] /\ call \in [Calls -> CallSet]
      /\ None \notin Tasks /\ m # Packet
  BY <1>1, WindowTyped DEF FitWindow, ContextSet, Inv, WindowsTyped, Parameters
<1>4. /\ meant' \in [Messages -> Tasks \cup {None}] /\ meant'[m] = context[w].task
      /\ \A n \in Messages \ {m} : meant'[n] = meant[n]
      /\ misled \subseteq misled' /\ (w \in strayed => m \in misled')
  BY <1>2, <1>3
<1>5. \A n, x : Fine(n, x) => Fine(n, x)' BY <1>2, <1>3, <1>4 DEF Fine
<1>6. \A n : Gone(n) => Gone(n)' BY <1>1 DEF Gone, world
<1>7. ASSUME NEW d \in Calls, call'[d] = call[d] PROVE FitCall(d, call[d])'
  <2>1. FitCall(d, call[d]) BY DEF Inv
  <2>2. PICK r \in CallSet : r = call[d] BY <1>3
  <2>3. r.stage # "idle" /\ d[2] = "send" => r.text # m BY <1>2, <1>3, <2>1, <2>2 DEF FitCall
  <2>4. FitCall(d, r)'
    BY <1>1, <1>4, <1>5, <1>6, <2>1, <2>2, <2>3 DEF FitCall, world
  <2> QED BY <1>7, <2>2, <2>4 DEF FitCall
<1>8. call' \in [Calls -> CallSet] /\ \A d \in Calls : FitCall(d, call[d])'
  <2>1. m \in Texts BY DEF Texts
  <2>2. PICK r \in CallSet :
          /\ r = Asked(context[w].task, context[w].target, m)
          /\ r.stage = "asked" /\ r.task = context[w].task /\ r.target = context[w].target /\ r.text = m
    BY <1>3, <2>1, AskedFits
  <2>3. PICK c \in Calls : c = <<w, "send">> BY DEF Calls
  <2>4. call' = [call EXCEPT ![c] = r] BY <1>2, <2>2, <2>3 DEF Asks, Asked
  <2>5. /\ call' \in [Calls -> CallSet] /\ call'[c] = r /\ \A d \in Calls \ {c} : call'[d] = call[d]
    BY <1>3, <2>4
  <2>6. r.target # NoTarget => Fine(r.text, r.target)'
    <3>1. context[w].target # NoTarget => context[w].target[1] = context[w].task \/ w \in strayed
      BY WindowTyped DEF FitWindow
    <3> QED BY <1>3, <1>4, <2>2, <3>1 DEF Fine
  <2>7. r.task \in Tasks /\ context'[w].task \in Tasks /\ c[1] = w /\ c[2] = "send"
        /\ meant'[r.text] = r.task
    BY <1>1, <1>3, <1>4, <2>2, <2>3
  <2>8. FitCall(c, r)' BY <2>2, <2>6, <2>7 DEF FitCall
  <2>9. FitCall(c, call[c])' BY <2>5, <2>8 DEF FitCall
  <2> QED BY <1>7, <2>5, <2>9
<1>9. WorldTyped' BY <1>1 DEF Inv, WorldTyped, world
<1>10. WindowsTyped' BY <1>1, <1>4 DEF Inv, WindowsTyped
<1>11. \A v \in Windows : FitWindow(v)' BY <1>1 DEF Inv, FitWindow
<1>12. Texted' BY <1>1, <1>5 DEF Inv, Texted, world
<1>13. \A n \in reported' : Gone(n)' BY <1>1, <1>6 DEF Inv
<1> QED BY <1>8, <1>9, <1>10, <1>11, <1>12, <1>13 DEF Inv

---------------------------------------------------------------------------
(* Agents and the queue.                                                     *)
LEMMA WorkStartsKeeps ==
    ASSUME Parameters, Inv, NEW t \in Tasks, WorkStarts(t)
    PROVE  Inv'
<1>1. [status |-> "running", agent |-> "work"] \in Entries
      /\ [status |-> "open", agent |-> "work"] \in Entries
  BY DEF Entries
<1>2. item' \in [Tasks -> Entries] /\ record' \in [Tasks -> Entries] BY <1>1, Typed DEF WorkStarts
<1>3. <<t, "work">> \in Agents BY DEF Agents
<1>4. listed' \subseteq Agents /\ terminals' \subseteq Agents BY <1>3, Typed DEF WorkStarts
<1>5. acts' \in 0 .. MaxEvents
  <2>1. MaxEvents \in Nat /\ acts \in 0 .. MaxEvents BY Typed DEF Parameters
  <2> QED BY <2>1 DEF WorkStarts, Event
<1>6. WorldMoves BY <1>2, <1>4, <1>5, Quiet DEF WorkStarts
<1> QED BY <1>6, WorldKeeps DEF WorkStarts

LEMMA AgentActsKeeps ==
    ASSUME Parameters, Inv, NEW x \in Agents, AgentActs(x)
    PROVE  Inv'
<1>1. acts' \in 0 .. MaxEvents
  <2>1. MaxEvents \in Nat /\ acts \in 0 .. MaxEvents BY Typed DEF Parameters
  <2> QED BY <2>1 DEF AgentActs, Event
<1>2. ASSUME NEW s \in {"open", "paused", "closed:blocked"},
             record' = [record EXCEPT ![x[1]].status = s],
             UNCHANGED <<item, listed, terminals, input, heard, dropped, windows, call>>
      PROVE  Inv'
  <2>1. x[1] \in Tasks BY DEF Agents
  <2>2. [record[x[1]] EXCEPT !.status = s] \in Entries BY <2>1, Typed DEF Entries
  <2>3. record' \in [Tasks -> Entries] BY <1>2, <2>1, <2>2, Typed
  <2> QED BY <1>1, <1>2, <2>3, Typed, Quiet, WorldKeeps
<1>3. ASSUME Ends(x), UNCHANGED <<item, record, listed, heard, windows, call>>
      PROVE  Inv'
  <2>1. Flows BY <1>3, EmptyFlows DEF Ends
  <2>2. WorldMoves BY <1>1, <1>3, <2>1, Typed DEF WorldMoves, Ends
  <2> QED BY <1>3, <2>2, WorldKeeps
<1>4. ASSUME listed' = listed \ {x},
             UNCHANGED <<item, record, terminals, input, heard, dropped, windows, call>>
      PROVE  Inv'
  <2>1. listed' \subseteq Agents BY <1>4, Typed
  <2> QED BY <1>1, <1>4, <2>1, Typed, Quiet, WorldKeeps
<1> QED BY <1>2, <1>3, <1>4 DEF AgentActs

LEMMA KeysKeeps ==
    ASSUME Parameters, Inv, NEW x \in Agents, Keys(x)
    PROVE  Inv'
<1>1. acts' \in 0 .. MaxEvents
  <2>1. MaxEvents \in Nat /\ acts \in 0 .. MaxEvents BY Typed DEF Parameters
  <2> QED BY <2>1 DEF Keys, Event
<1>2. Flows
  <2>1. CASE Enters(x) /\ UNCHANGED dropped BY <2>1, EnterFlows
  <2>2. CASE input' = [input EXCEPT ![x] = {}] /\ dropped' = dropped \cup input[x] /\ UNCHANGED heard
    BY <2>2, EmptyFlows
  <2> QED BY <2>1, <2>2 DEF Keys
<1>3. WorldMoves BY <1>1, <1>2, Typed DEF WorldMoves, Keys
<1> QED BY <1>3, WorldKeeps DEF Keys

---------------------------------------------------------------------------
LEMMA Starting ==
    ASSUME Parameters, Init
    PROVE  Inv
<1>1. PICK o \in Openings : item = o.item /\ record = o.record /\ listed = o.listed /\ terminals = o.living
  BY DEF Init
<1>2. /\ input = [x \in Agents |-> {}] /\ heard = {} /\ dropped = {}
      /\ context = [w \in Windows |-> [task |-> None, target |-> NoTarget, available |-> FALSE]]
      /\ reading = [w \in Windows |-> None] /\ timer = {} /\ call = [c \in Calls |-> Idle]
      /\ meant = [m \in Messages |-> None] /\ reported = {} /\ strayed = {} /\ misled = {} /\ acts = 0
  BY DEF Init
<1>3. WorldTyped BY <1>1, <1>2 DEF WorldTyped, Parameters
<1>4. WindowsTyped BY <1>2 DEF WindowsTyped, ContextSet, Targets
<1>5. call \in [Calls -> CallSet] /\ \A c \in Calls : FitCall(c, call[c])
  <2>1. Idle \in CallSet /\ Idle.stage = "idle" BY IdleFits
  <2> QED BY <1>2, <2>1 DEF FitCall
<1>6. \A w \in Windows : FitWindow(w) BY <1>2 DEF FitWindow
<1>7. Texted /\ \A m \in reported : Gone(m) BY <1>2 DEF Texted
<1> QED BY <1>3, <1>4, <1>5, <1>6, <1>7 DEF Inv

LEMMA StepKeeps ==
    ASSUME Parameters, Inv, [Next]_vars
    PROVE  Inv'
<1>1. CASE UNCHANGED vars
  <2>1. UNCHANGED <<world, windows, call, acts>> BY <1>1 DEF vars
  <2>2. WorldMoves BY <2>1, Typed, Quiet DEF world
  <2> QED BY <2>1, <2>2, WorldKeeps
<1>2. ASSUME NEW w \in Windows, Window(w) PROVE Inv'
  BY <1>2, OpensTranscriptKeeps, ReopensKeeps, LoadsKeeps, EnsuredKeeps, TypesKeeps, SentKeeps
    DEF Window
<1> QED BY <1>1, <1>2, ServeKeeps, WorkStartsKeeps, AgentActsKeeps, KeysKeeps DEF Next

LEMMA Follows ==
    ASSUME Inv
    PROVE  TypeOK /\ MessagesReachTheirTask
<1>1. TypeOK
  <2>1. acts \in 0 .. MaxEvents BY DEF Inv, WorldTyped
  <2>2. acts <= MaxEvents BY <2>1
  <2>3. \A c \in Calls : call[c].target \in Agents \cup {NoTarget} /\ call[c].text \in Messages \cup {Packet}
    BY DEF Inv, CallSet, Targets, Texts
  <2> QED BY <2>2, <2>3 DEF TypeOK, Inv, WorldTyped, Texts
<1>2. MessagesReachTheirTask BY DEF MessagesReachTheirTask, Inv, Texted, Fine, Gone
<1> QED BY <1>1, <1>2

---------------------------------------------------------------------------
(* The variables of the chat keep their types.                               *)
THEOREM TypeCorrect == Parameters => (Spec => []TypeOK)
<1> SUFFICES ASSUME Parameters PROVE Spec => []TypeOK OBVIOUS
<1>1. Init => Inv BY Starting
<1>2. Inv /\ [Next]_vars => Inv' BY StepKeeps
<1>3. Inv => TypeOK BY Follows
<1> QED BY <1>1, <1>2, <1>3, PTL DEF Spec

(* A message is heard by an agent of the task it was typed for only, and one *)
(* that was answered as sent was entered, with the exceptions the module     *)
(* names (terminal_chat.rs).                                                 *)
THEOREM MessagesReached == Parameters => (Spec => []MessagesReachTheirTask)
<1> SUFFICES ASSUME Parameters PROVE Spec => []MessagesReachTheirTask OBVIOUS
<1>1. Init => Inv BY Starting
<1>2. Inv /\ [Next]_vars => Inv' BY StepKeeps
<1>3. Inv => MessagesReachTheirTask BY Follows
<1> QED BY <1>1, <1>2, <1>3, PTL DEF Spec

----------------------------------------------------------------------------
(* QueueLaunch, for every number of items, slugs, repositories and ports.    *)
(*                                                                           *)
(* A worker checks first and launches later.  Where it stands says what its  *)
(* row and its agent are (Placed), that no other worker has passed the check *)
(* of the same slug (SlugsApart), that the worktree its agent is told to     *)
(* open is not there (TreesApart), and which ports of other items it has     *)
(* read, and thus avoids (PortsApart).                                       *)

CONSTANTS Items, SlugOf, RepoOf, KindOf, PortOf, Ports, Statuses, Retries, Interval
VARIABLES queueRows, itemWorker, agent, told, worktrees, remote, local, repair, synced,
          outran, events

Launch == INSTANCE QueueLaunch

(* A set of positions has a least one.                                       *)
LEMMA LeastPosition ==
    ASSUME NEW S \in SUBSET Nat, S # {}
    PROVE  \E n \in S : \A m \in S : n <= m
<1> DEFINE R == OpToRel(<, Nat)
<1>1. IsWellFoundedOn(R, Nat) BY NatLessThanWellFounded
<1>2. \A m, n \in Nat : m < n => <<m, n>> \in R BY Zenon DEF OpToRel
<1> HIDE DEF R
<1>3. PICK n \in S : \A m \in S : ~ (<<m, n>> \in R) BY <1>1, WFMin
<1>4. ASSUME NEW m \in S PROVE n <= m
  <2>1. ~ (m < n) BY <1>2, <1>3
  <2> QED BY <2>1
<1> QED BY <1>4

---------------------------------------------------------------------------
(* Where a worker is past the check of its slug, about to start an agent, or *)
(* has its port for the agent.                                               *)
Past == {"workspace", "clean", "start", "reserve", "rotate", "store", "doctor", "open", "wait", "sync",
         "asleep"}
Prepared == {"clean", "start", "reserve", "rotate", "store", "doctor", "open"}
HasPort == {"doctor", "open", "wait", "sync"}
Follow == {"wait", "sync"}

Stored == [status : {"absent", "open", "closed:success", "failed-closeout"}, repo : Launch!Repos \cup {Launch!None},
           launcher : BOOLEAN, agent : SUBSET Items]

(* The worker's place, its row and its agent go together.                    *)
Placed ==
    /\ local \in [Launch!Slugs -> Stored]
    /\ \A i \in Items :
        /\ itemWorker[i].at = "idle" => queueRows[i].status # "running"
        /\ itemWorker[i].at \in Past => ~Launch!RowTerminal(queueRows[i].status)
        /\ itemWorker[i].at \in Follow <=> queueRows[i].status = "running"
        /\ agent[i] # "none" => itemWorker[i].at \in Follow
        /\ itemWorker[i].at = "slug" => ~Launch!RowTerminal(queueRows[i].status)
        /\ itemWorker[i].at \in {"rotate", "store"} =>
               itemWorker[i].then \in {"doctor", "asleep"}
               /\ (itemWorker[i].then = "asleep" => queueRows[i].retries < Retries)
        /\ itemWorker[i].at = "store" => Ports \ itemWorker[i].used # {}
        /\ itemWorker[i].at \in {"clean", "start"} => ~Launch!Native(i)

SlugsApart ==
    \A i, j \in Items : i # j /\ SlugOf[i] = SlugOf[j] =>
        ~(itemWorker[i].at \in Past /\ itemWorker[j].at \in Past)

TreesApart ==
    \A i \in Items : told[i] = "new" /\ (itemWorker[i].at \in Prepared \/ agent[i] = "live")
                        => RepoOf[i] \notin worktrees[SlugOf[i]]

Others(i) == {j \in Items \ {i} : Launch!Native(j) /\ queueRows[j].status # "success"}
UsedBy(i) == {queueRows[j].port : j \in Others(i)}

PortsApart ==
    outran \/ \A i \in Items : Launch!Native(i) =>
        /\ itemWorker[i].at \in HasPort => queueRows[i].port \notin UsedBy(i)
        /\ itemWorker[i].at = "store" => UsedBy(i) \subseteq itemWorker[i].used

LaunchInv == Launch!TypeOK /\ Placed /\ SlugsApart /\ TreesApart /\ PortsApart

---------------------------------------------------------------------------
LEMMA Chosen ==
    ASSUME Launch!Parameters, NEW p \in Ports, NEW used
    PROVE  Launch!NextPort(p, used) \in Ports
           /\ (Ports \ used # {} => Launch!NextPort(p, used) \notin used)
<1> DEFINE above == {q \in Ports \ used : q > p}
           below == {q \in Ports \ used : q < p}
<1>0. Ports \in SUBSET Nat BY DEF Launch!Parameters
<1>1. above # {} => Launch!Min(above) \in above
  <2>1. above \in SUBSET Nat BY <1>0
  <2>2. above # {} => \E x \in above : \A y \in above : x <= y BY <2>1, LeastPosition
  <2> QED BY <2>2 DEF Launch!Min
<1>2. below # {} => Launch!Min(below) \in below
  <2>1. below \in SUBSET Nat BY <1>0
  <2>2. below # {} => \E x \in below : \A y \in below : x <= y BY <2>1, LeastPosition
  <2> QED BY <2>2 DEF Launch!Min
<1>3. Launch!NextPort(p, used) = IF above # {} THEN Launch!Min(above) ELSE IF below # {} THEN Launch!Min(below) ELSE p
  BY DEF Launch!NextPort
<1>4. ASSUME above = {}, below = {}, NEW q \in Ports \ used PROVE q = p
  <2>1. q \in Nat /\ p \in Nat BY <1>0
  <2>2. ~(q > p) /\ ~(q < p) BY <1>4
  <2> QED BY <2>1, <2>2
<1> HIDE DEF above, below
<1>5. Launch!NextPort(p, used) \in Ports BY <1>1, <1>2, <1>3 DEF above, below
<1>6. ASSUME Ports \ used # {} PROVE Launch!NextPort(p, used) \notin used
  <2>1. CASE above # {} BY <1>1, <1>3, <2>1 DEF above
  <2>2. CASE above = {} /\ below # {} BY <1>2, <1>3, <2>2 DEF below
  <2>3. CASE above = {} /\ below = {} BY <1>3, <1>4, <1>6, <2>3
  <2> QED BY <2>1, <2>2, <2>3
<1> QED BY <1>5, <1>6

(* What is assumed of sizes, in this module's words: the instance counts as  *)
(* it does.                                                                  *)
LEMMA Sizes ==
    ASSUME Launch!Parameters
    PROVE  IsFiniteSet(Items) /\ IsFiniteSet(Ports) /\ Cardinality(Items) <= Cardinality(Ports)
<1>1. \A S : Launch!Cardinality(S) = Cardinality(S) BY DEF Launch!Cardinality, Cardinality
<1>2. \A S : Launch!IsFiniteSet(S) <=> IsFiniteSet(S) BY DEF Launch!IsFiniteSet, IsFiniteSet
<1> QED BY <1>1, <1>2 DEF Launch!Parameters

(* The other items cannot have all ports.                                    *)
LEMMA FreePort ==
    ASSUME Launch!Parameters, NEW i \in Items
    PROVE  Ports \ UsedBy(i) # {}
<1> SUFFICES ASSUME Ports \subseteq UsedBy(i) PROVE FALSE OBVIOUS
<1> DEFINE T == Items \ {i}
           f == [p \in Ports |-> CHOOSE j \in T : queueRows[j].port = p]
<1>1. IsFiniteSet(T) /\ Cardinality(T) = Cardinality(Items) - 1
      /\ Cardinality(Items) \in Nat /\ Cardinality(Ports) \in Nat
  BY Sizes, FS_RemoveElement, FS_CardinalityType
<1>2. Cardinality(T) < Cardinality(Ports) /\ IsFiniteSet(Ports) BY <1>1, Sizes
<1>3. \A p \in Ports : f[p] \in T /\ queueRows[f[p]].port = p
  <2> TAKE p \in Ports
  <2>1. \E j \in T : queueRows[j].port = p BY DEF UsedBy, Others
  <2> QED BY <2>1
<1>4. f \in [Ports -> T] BY <1>3
<1> HIDE DEF f, T
<1>5. \E p, q \in Ports : p # q /\ f[p] = f[q] BY <1>1, <1>2, <1>4, FS_PigeonHole
<1> QED BY <1>3, <1>5

---------------------------------------------------------------------------
(* A step that is about one item: its row, its worker and its agent change,  *)
(* and what the invariant says of this item holds again.                     *)
RowSet == [status : Statuses \cup {"pending", "starting", "running", "waiting", "success", "failed"},
           port : Ports, retries : 0 .. Retries]
Places == {"idle", "slug", "workspace", "clean", "start", "reserve", "rotate", "store", "doctor", "open",
           "wait", "sync", "asleep"}
WorkerSet == [at : Places, used : SUBSET Ports, then : {Launch!None, "doctor", "asleep"}]
AgentStates == {"none", "live", "working"}
Contexts == {Launch!None, "native", "remote", "existing", "new"}

Fit(i, r, w, a) ==
    /\ w.at = "idle" => r.status # "running"
    /\ w.at \in Past => ~Launch!RowTerminal(r.status)
    /\ w.at \in Follow <=> r.status = "running"
    /\ a # "none" => w.at \in Follow
    /\ w.at = "slug" => ~Launch!RowTerminal(r.status)
    /\ w.at \in {"rotate", "store"} => w.then \in {"doctor", "asleep"}
                                       /\ (w.then = "asleep" => r.retries < Retries)
    /\ w.at = "store" => Ports \ w.used # {}
    /\ w.at \in {"clean", "start"} => ~Launch!Native(i)

KeepsPorts(i, r, w) ==
    /\ r.port # queueRows[i].port => /\ r.port \notin UsedBy(i)
                                     /\ \A j \in Items \ {i} : itemWorker[j].at # "store"
    /\ w.at \in HasPort => r.port \notin UsedBy(i)
    /\ w.at = "store" => UsedBy(i) \subseteq w.used

Becomes(i, r, w, a) ==
    /\ r \in RowSet /\ w \in WorkerSet /\ a \in AgentStates
    /\ queueRows' = [queueRows EXCEPT ![i] = r]
    /\ itemWorker' = [itemWorker EXCEPT ![i] = w]
    /\ agent' = [agent EXCEPT ![i] = a]
    /\ Fit(i, r, w, a)
    /\ w.at \in Past => itemWorker[i].at \in Past \/ ~Launch!SlugTaken(i)
    /\ told'[i] = "new" /\ (w.at \in Prepared \/ a = "live") => RepoOf[i] \notin worktrees[SlugOf[i]]
    /\ queueRows[i].status = "success" => r.status = "success"
    /\ (Launch!Native(i) /\ ~outran') => KeepsPorts(i, r, w)

LaunchMoves(i) ==
    /\ \E r, w, a : Becomes(i, r, w, a)
    /\ told' \in [Items -> Contexts] /\ \A j \in Items \ {i} : told'[j] = told[j]
    /\ outran' \in BOOLEAN /\ (outran => outran')
    /\ worktrees' = worktrees /\ remote' = remote /\ repair' = repair
    /\ local' \in [Launch!Slugs -> Stored] /\ synced' \in [Launch!Repos -> 0 .. Interval]
    /\ events' \in 0 .. MaxEvents

LEMMA PlacedFits ==
    Placed <=> /\ local \in [Launch!Slugs -> Stored]
               /\ \A i \in Items : Fit(i, queueRows[i], itemWorker[i], agent[i])
BY DEF Placed, Fit

LEMMA MoveKeeps ==
    ASSUME LaunchInv, NEW i \in Items, LaunchMoves(i)
    PROVE  LaunchInv'
<1>1. PICK r, w, a : Becomes(i, r, w, a) BY DEF LaunchMoves
<1>2. /\ queueRows \in [Items -> RowSet] /\ itemWorker \in [Items -> WorkerSet]
      /\ agent \in [Items -> AgentStates]
  BY DEF LaunchInv, Launch!TypeOK, RowSet, WorkerSet, Places, AgentStates
<1>3. /\ r \in RowSet /\ w \in WorkerSet /\ a \in AgentStates
      /\ queueRows' = [queueRows EXCEPT ![i] = r] /\ itemWorker' = [itemWorker EXCEPT ![i] = w]
      /\ agent' = [agent EXCEPT ![i] = a]
  BY <1>1 DEF Becomes
<1>4. /\ queueRows'[i] = r /\ itemWorker'[i] = w /\ agent'[i] = a
      /\ \A j \in Items \ {i} : /\ queueRows'[j] = queueRows[j] /\ itemWorker'[j] = itemWorker[j]
                                /\ agent'[j] = agent[j]
  BY <1>2, <1>3
<1>5. Launch!TypeOK'
  <2>1. \A s \in Launch!Slugs : local'[s].status \in {"absent", "open", "closed:success", "failed-closeout"}
    BY DEF LaunchMoves, Stored
  <2>2. /\ queueRows' \in [Items -> RowSet] /\ itemWorker' \in [Items -> WorkerSet]
        /\ agent' \in [Items -> AgentStates]
    BY <1>2, <1>3
  <2>3. /\ worktrees' = worktrees /\ remote' = remote /\ repair' = repair
        /\ told' \in [Items -> Contexts] /\ outran' \in BOOLEAN
        /\ synced' \in [Launch!Repos -> 0 .. Interval] /\ events' \in 0 .. MaxEvents
    BY DEF LaunchMoves
  <2>4. Launch!TypeOK BY DEF LaunchInv
  <2> QED
    BY <2>1, <2>2, <2>3, <2>4 DEF Launch!TypeOK, RowSet, WorkerSet, Places, AgentStates, Contexts
<1>6. Placed'
  <2>1. \A j \in Items : Fit(j, queueRows[j], itemWorker[j], agent[j]) BY PlacedFits DEF LaunchInv
  <2>2. Fit(i, r, w, a) BY <1>1 DEF Becomes
  <2>3. \A j \in Items : Fit(j, queueRows'[j], itemWorker'[j], agent'[j]) BY <1>4, <2>1, <2>2
  <2>4. local' \in [Launch!Slugs -> Stored] BY DEF LaunchMoves
  <2> QED BY <2>3, <2>4 DEF Placed, Fit
<1>7. SlugsApart'
  <2>1. ASSUME NEW j \in Items \ {i}, SlugOf[j] = SlugOf[i], w.at \in Past, itemWorker[j].at \in Past
        PROVE  FALSE
    <3>1. itemWorker[i].at \in Past \/ ~Launch!SlugTaken(i) BY <1>1, <2>1 DEF Becomes
    <3>2. ~Launch!RowTerminal(queueRows[j].status) BY <2>1 DEF LaunchInv, Placed
    <3>3. Launch!SlugTaken(i) BY <2>1, <3>2 DEF Launch!SlugTaken
    <3> QED BY <2>1, <3>1, <3>3 DEF LaunchInv, SlugsApart
  <2> QED BY <1>4, <2>1 DEF SlugsApart, LaunchInv
<1>8. TreesApart'
  <2>1. /\ worktrees' = worktrees /\ \A j \in Items \ {i} : told'[j] = told[j] BY DEF LaunchMoves
  <2>2. told'[i] = "new" /\ (w.at \in Prepared \/ a = "live") => RepoOf[i] \notin worktrees[SlugOf[i]]
    BY <1>1 DEF Becomes
  <2> QED BY <1>4, <2>1, <2>2 DEF TreesApart, LaunchInv
<1>9. PortsApart'
  <2> SUFFICES ASSUME ~outran', NEW j \in Items, Launch!Native(j)
               PROVE  /\ itemWorker'[j].at \in HasPort => queueRows'[j].port \notin UsedBy(j)'
                      /\ itemWorker'[j].at = "store" => UsedBy(j)' \subseteq itemWorker'[j].used
    BY DEF PortsApart
  <2>1. ~outran BY DEF LaunchMoves
  <2>2. UsedBy(i)' = UsedBy(i) BY <1>4 DEF UsedBy, Others, Launch!Native
  <2>3. CASE j = i
    <3>1. KeepsPorts(i, r, w) BY <1>1, <2>3 DEF Becomes
    <3> QED BY <1>4, <2>2, <2>3, <3>1 DEF KeepsPorts
  <2>4. CASE j # i
    <3>1. queueRows'[j] = queueRows[j] /\ itemWorker'[j] = itemWorker[j] BY <1>4, <2>4
    <3>2. /\ itemWorker[j].at \in HasPort => queueRows[j].port \notin UsedBy(j)
          /\ itemWorker[j].at = "store" => UsedBy(j) \subseteq itemWorker[j].used
      BY <2>1 DEF LaunchInv, PortsApart
    <3>3. UsedBy(j)' \subseteq UsedBy(j) \cup {r.port} BY <1>4 DEF UsedBy, Others, Launch!Native
    <3>4. Launch!Native(i) /\ r.port = queueRows[i].port => UsedBy(j)' \subseteq UsedBy(j)
      <4>1. queueRows[i].status = "success" => r.status = "success" BY <1>1 DEF Becomes
      <4> QED BY <1>4, <4>1 DEF UsedBy, Others, Launch!Native
    <3>5. ~Launch!Native(i) => UsedBy(j)' \subseteq UsedBy(j)
      BY <1>4 DEF UsedBy, Others, Launch!Native
    <3>6. CASE UsedBy(j)' \subseteq UsedBy(j) BY <3>1, <3>2, <3>6
    <3>7. CASE Launch!Native(i) /\ r.port # queueRows[i].port
      <4>1. KeepsPorts(i, r, w) BY <1>1, <3>7 DEF Becomes
      <4>2. r.port \notin UsedBy(i) /\ itemWorker[j].at # "store" BY <2>4, <3>7, <4>1 DEF KeepsPorts
      <4>3. ASSUME itemWorker[j].at \in HasPort PROVE queueRows[j].port # r.port
        <5>1. ~Launch!RowTerminal(queueRows[j].status) BY <4>3 DEF LaunchInv, Placed, HasPort, Past
        <5>2. queueRows[j].port \in UsedBy(i) BY <2>4, <5>1 DEF Launch!RowTerminal, UsedBy, Others
        <5> QED BY <4>2, <5>2
      <4> QED BY <3>1, <3>2, <3>3, <4>2, <4>3
    <3> QED BY <3>4, <3>5, <3>6, <3>7
  <2> QED BY <2>3, <2>4
<1> QED BY <1>5, <1>6, <1>7, <1>8, <1>9 DEF LaunchInv

---------------------------------------------------------------------------
(* Each step of a worker or of the operator is one about its item.           *)

(* What the invariant says of the item before the step.                      *)
LEMMA Before ==
    ASSUME LaunchInv, NEW i \in Items
    PROVE  /\ queueRows[i] \in RowSet /\ itemWorker[i] \in WorkerSet /\ agent[i] \in AgentStates
           /\ Fit(i, queueRows[i], itemWorker[i], agent[i])
           /\ queueRows \in [Items -> RowSet] /\ itemWorker \in [Items -> WorkerSet]
           /\ agent \in [Items -> AgentStates] /\ told \in [Items -> Contexts]
           /\ local \in [Launch!Slugs -> Stored] /\ synced \in [Launch!Repos -> 0 .. Interval]
           /\ outran \in BOOLEAN /\ events \in 0 .. MaxEvents
           /\ told[i] = "new" /\ (itemWorker[i].at \in Prepared \/ agent[i] = "live")
                  => RepoOf[i] \notin worktrees[SlugOf[i]]
           /\ (Launch!Native(i) /\ ~outran) =>
                  /\ itemWorker[i].at \in HasPort => queueRows[i].port \notin UsedBy(i)
                  /\ itemWorker[i].at = "store" => UsedBy(i) \subseteq itemWorker[i].used
<1>1. Fit(i, queueRows[i], itemWorker[i], agent[i]) /\ local \in [Launch!Slugs -> Stored]
  BY PlacedFits DEF LaunchInv
<1>2. /\ queueRows \in [Items -> RowSet] /\ itemWorker \in [Items -> WorkerSet]
      /\ agent \in [Items -> AgentStates] /\ told \in [Items -> Contexts]
      /\ synced \in [Launch!Repos -> 0 .. Interval] /\ outran \in BOOLEAN /\ events \in 0 .. MaxEvents
  BY DEF LaunchInv, Launch!TypeOK, RowSet, WorkerSet, Places, AgentStates, Contexts
<1> QED BY <1>1, <1>2 DEF LaunchInv, TreesApart, PortsApart

(* A worker that goes on with its row and its agent as they are.             *)
LEMMA GoesOn ==
    ASSUME LaunchInv, NEW i \in Items, NEW w \in WorkerSet,
           UNCHANGED <<queueRows, agent>>, itemWorker' = [itemWorker EXCEPT ![i] = w],
           Fit(i, queueRows[i], w, agent[i]),
           w.at \in Past => itemWorker[i].at \in Past \/ ~Launch!SlugTaken(i),
           w.at \in Prepared /\ told'[i] = "new" => RepoOf[i] \notin worktrees[SlugOf[i]],
           agent[i] = "live" => told'[i] = told[i],
           Launch!Native(i) /\ ~outran => /\ w.at \in HasPort => queueRows[i].port \notin UsedBy(i)
                                          /\ w.at = "store" => UsedBy(i) \subseteq w.used,
           told' \in [Items -> Contexts], \A j \in Items \ {i} : told'[j] = told[j],
           outran' = outran, worktrees' = worktrees, remote' = remote, repair' = repair,
           local' \in [Launch!Slugs -> Stored], synced' \in [Launch!Repos -> 0 .. Interval],
           events' \in 0 .. MaxEvents
    PROVE  LaunchMoves(i)
<1>1. /\ queueRows[i] \in RowSet /\ agent[i] \in AgentStates
      /\ queueRows' = [queueRows EXCEPT ![i] = queueRows[i]]
      /\ agent' = [agent EXCEPT ![i] = agent[i]]
  BY Before
<1>2. KeepsPorts(i, queueRows[i], w) \/ ~Launch!Native(i) \/ outran' BY DEF KeepsPorts
<1>3. told'[i] = "new" /\ (w.at \in Prepared \/ agent[i] = "live")
          => RepoOf[i] \notin worktrees[SlugOf[i]]
  BY Before
<1>4. Becomes(i, queueRows[i], w, agent[i]) BY <1>1, <1>2, <1>3 DEF Becomes
<1>5. outran' \in BOOLEAN BY Before
<1> QED BY <1>4, <1>5 DEF LaunchMoves

LEMMA BeginsMoves ==
    ASSUME LaunchInv, NEW i \in Items, Launch!Begins(i)
    PROVE  LaunchMoves(i)
<1> DEFINE r == [queueRows[i] EXCEPT !.status = "starting"]
           w == [Launch!Idle EXCEPT !.at = "slug"]
<1>0. /\ queueRows[i] \in RowSet /\ itemWorker[i] \in WorkerSet /\ agent[i] \in AgentStates
      /\ Fit(i, queueRows[i], itemWorker[i], agent[i]) /\ agent \in [Items -> AgentStates]
      /\ queueRows \in [Items -> RowSet]
  BY Before
<1>1. /\ queueRows' = [queueRows EXCEPT ![i] = r] /\ itemWorker' = [itemWorker EXCEPT ![i] = w]
      /\ agent' = [agent EXCEPT ![i] = agent[i]]
      /\ UNCHANGED <<told, worktrees, remote, local, repair, synced, outran, events>>
  BY <1>0 DEF Launch!Begins, Launch!Row, Launch!Goes, Launch!world
<1>2. r \in RowSet /\ r.status = "starting" /\ r.port = queueRows[i].port BY <1>0 DEF RowSet
<1>3. w = [at |-> "slug", used |-> {}, then |-> Launch!None] /\ w \in WorkerSet
  BY DEF Launch!Idle, WorkerSet, Places, Launch!None
<1>4. agent[i] = "none" /\ queueRows[i].status # "success"
  BY <1>0 DEF Launch!Begins, Fit, Follow, Past, Launch!RowTerminal
<1> HIDE DEF r, w
<1>5. Fit(i, r, w, agent[i]) BY <1>2, <1>3, <1>4 DEF Fit, Past, Follow, Launch!RowTerminal
<1>6. KeepsPorts(i, r, w) BY <1>2, <1>3 DEF KeepsPorts, HasPort
<1>7. Becomes(i, r, w, agent[i])
  BY <1>0, <1>1, <1>2, <1>3, <1>4, <1>5, <1>6 DEF Becomes, Past, Prepared
<1> QED BY <1>1, <1>7, Before DEF LaunchMoves

(* A worker that changes its row's status, or its retries, and keeps the     *)
(* port; it ends where it has no port to keep, or where it had one already.  *)
LEMMA Restatuses ==
    ASSUME LaunchInv, NEW i \in Items, NEW r \in RowSet, NEW w \in WorkerSet, NEW a \in AgentStates,
           queueRows' = [queueRows EXCEPT ![i] = r], itemWorker' = [itemWorker EXCEPT ![i] = w],
           agent' = [agent EXCEPT ![i] = a],
           r.port = queueRows[i].port, queueRows[i].status = "success" => r.status = "success",
           Fit(i, r, w, a),
           w.at \in Past => itemWorker[i].at \in Past,
           w.at \notin Prepared \cup {"store"},
           a = "live" => agent[i] = "live" \/ itemWorker[i].at \in Prepared,
           w.at \in HasPort => itemWorker[i].at \in HasPort \/ ~Launch!Native(i),
           UNCHANGED <<told, worktrees, remote, repair, outran>>,
           local' \in [Launch!Slugs -> Stored], synced' \in [Launch!Repos -> 0 .. Interval],
           events' \in 0 .. MaxEvents
    PROVE  LaunchMoves(i)
<1>1. (Launch!Native(i) /\ ~outran') => KeepsPorts(i, r, w) BY Before DEF KeepsPorts
<1>2. told'[i] = "new" /\ (w.at \in Prepared \/ a = "live") => RepoOf[i] \notin worktrees[SlugOf[i]]
  BY Before
<1>3. Becomes(i, r, w, a) BY <1>1, <1>2 DEF Becomes
<1> QED BY <1>3, Before DEF LaunchMoves

LEMMA GivesUpMoves ==
    ASSUME LaunchInv, NEW i \in Items, Launch!GivesUp(i), itemWorker[i].at # "idle",
           agent' = [agent EXCEPT ![i] = "none"],
           UNCHANGED <<told, worktrees, remote, repair, outran>>,
           local' \in [Launch!Slugs -> Stored], synced' \in [Launch!Repos -> 0 .. Interval],
           events' \in 0 .. MaxEvents
    PROVE  LaunchMoves(i)
<1> DEFINE r == [queueRows[i] EXCEPT !.status = "failed"]
<1>1. queueRows[i] \in RowSet /\ itemWorker[i] \in WorkerSet
      /\ Fit(i, queueRows[i], itemWorker[i], agent[i])
  BY Before
<1>2. queueRows' = [queueRows EXCEPT ![i] = r] /\ itemWorker' = [itemWorker EXCEPT ![i] = Launch!Idle]
  <2>1. [Launch!Idle EXCEPT !.at = "idle"] = Launch!Idle BY DEF Launch!Idle
  <2>2. queueRows' = [queueRows EXCEPT ![i] = r] BY Before DEF Launch!GivesUp, Launch!Row
  <2> QED BY <2>1, <2>2 DEF Launch!GivesUp, Launch!Goes
<1>3. r \in RowSet /\ r.status = "failed" /\ r.port = queueRows[i].port BY <1>1 DEF RowSet
<1>4. Launch!Idle \in WorkerSet /\ Launch!Idle.at = "idle"
  BY DEF Launch!Idle, WorkerSet, Places, Launch!None
<1>5. queueRows[i].status # "success"
  BY <1>1 DEF Fit, Launch!RowTerminal, WorkerSet, Places, Past
<1> HIDE DEF r
<1>6. Fit(i, r, Launch!Idle, "none") BY <1>3, <1>4 DEF Fit, Past, Follow
<1>7. "none" \in AgentStates BY DEF AgentStates
<1> QED BY <1>2, <1>3, <1>4, <1>5, <1>6, <1>7, Restatuses DEF Past, Prepared, HasPort

LEMMA ChecksSlugMoves ==
    ASSUME LaunchInv, NEW i \in Items, Launch!ChecksSlug(i)
    PROVE  LaunchMoves(i)
<1>1. /\ itemWorker[i].at = "slug"
      /\ UNCHANGED <<agent, told, worktrees, remote, local, repair, synced, outran, events>>
  BY DEF Launch!ChecksSlug, Launch!world
<1>2. Fit(i, queueRows[i], itemWorker[i], agent[i]) /\ agent \in [Items -> AgentStates]
      /\ told \in [Items -> Contexts]
  BY Before
<1>3. agent[i] = "none" BY <1>1, <1>2 DEF Fit, Follow
<1>4. agent' = [agent EXCEPT ![i] = "none"] BY <1>1, <1>2, <1>3
<1>5. CASE Launch!SlugTaken(i) BY <1>1, <1>4, <1>5, Before, GivesUpMoves DEF Launch!ChecksSlug
<1>6. CASE ~Launch!SlugTaken(i)
  <2> DEFINE w == [Launch!Idle EXCEPT !.at = "workspace"]
  <2>1. itemWorker' = [itemWorker EXCEPT ![i] = w] /\ UNCHANGED queueRows
    BY <1>6 DEF Launch!ChecksSlug, Launch!Goes
  <2>2. w \in WorkerSet /\ w.at = "workspace" BY DEF Launch!Idle, WorkerSet, Places, Launch!None
  <2> HIDE DEF w
  <2>3. Fit(i, queueRows[i], w, agent[i]) BY <1>1, <1>2, <1>3, <2>2 DEF Fit, Past, Follow
  <2> QED BY <1>1, <1>6, <2>1, <2>2, <2>3, Before, GoesOn DEF Prepared, HasPort
<1> QED BY <1>5, <1>6

LEMMA PreparesMoves ==
    ASSUME LaunchInv, NEW i \in Items, Launch!Prepares(i)
    PROVE  LaunchMoves(i)
<1>1. /\ itemWorker[i].at = "workspace"
      /\ UNCHANGED <<agent, worktrees, remote, local, repair, synced, outran, events>>
  BY DEF Launch!Prepares, Launch!world
<1>2. Fit(i, queueRows[i], itemWorker[i], agent[i]) /\ agent \in [Items -> AgentStates]
      /\ told \in [Items -> Contexts]
  BY Before
<1>3. agent[i] = "none" BY <1>1, <1>2 DEF Fit, Follow
<1>4. agent' = [agent EXCEPT ![i] = "none"] BY <1>1, <1>2, <1>3
<1>5. CASE Launch!ScopeTaken(i) BY <1>1, <1>4, <1>5, Before, GivesUpMoves DEF Launch!Prepares
<1>6. CASE ~Launch!ScopeTaken(i)
  <2> DEFINE w == [Launch!Idle EXCEPT !.at = IF Launch!Native(i) THEN "reserve" ELSE "clean"]
  <2>1. itemWorker' = [itemWorker EXCEPT ![i] = w] /\ UNCHANGED queueRows
        /\ told' = [told EXCEPT ![i] = Launch!Context(i)]
    BY <1>6 DEF Launch!Prepares, Launch!Goes
  <2>2. w \in WorkerSet /\ w.at \in {"reserve", "clean"} /\ (w.at = "clean" => ~Launch!Native(i))
    BY DEF Launch!Idle, WorkerSet, Places, Launch!None
  <2> HIDE DEF w
  <2>3. Fit(i, queueRows[i], w, agent[i]) BY <1>1, <1>2, <1>3, <2>2 DEF Fit, Past, Follow
  <2>4. Launch!Context(i) \in Contexts /\ (Launch!Context(i) = "new" => RepoOf[i] \notin worktrees[SlugOf[i]])
    BY DEF Launch!Context, Contexts
  <2>5. /\ told' \in [Items -> Contexts] /\ told'[i] = Launch!Context(i)
        /\ \A j \in Items \ {i} : told'[j] = told[j]
    BY <1>2, <2>1, <2>4
  <2> QED BY <1>1, <1>3, <2>1, <2>2, <2>3, <2>4, <2>5, Before, GoesOn DEF Prepared, HasPort, Past
<1> QED BY <1>5, <1>6

LEMMA CleansUpMoves ==
    ASSUME Launch!Parameters, LaunchInv, NEW i \in Items, Launch!CleansUp(i)
    PROVE  LaunchMoves(i)
<1>1. /\ itemWorker[i].at = "clean"
      /\ UNCHANGED <<agent, told, worktrees, remote, local, repair, synced, outran>>
  BY DEF Launch!CleansUp, Launch!world
<1>2. Fit(i, queueRows[i], itemWorker[i], agent[i]) /\ agent \in [Items -> AgentStates]
      /\ told \in [Items -> Contexts]
  BY Before
<1>3. agent[i] = "none" BY <1>1, <1>2 DEF Fit, Follow
<1>4. agent' = [agent EXCEPT ![i] = "none"] BY <1>1, <1>2, <1>3
<1>5. CASE Launch!Happens /\ Launch!GivesUp(i)
  <2>1. events' \in 0 .. MaxEvents BY <1>5, Before DEF Launch!Happens, Launch!Parameters
  <2> QED BY <1>1, <1>4, <1>5, <2>1, Before, GivesUpMoves
<1>6. CASE Launch!Goes(i, "start") /\ UNCHANGED <<queueRows, events>>
  <2> DEFINE w == [Launch!Idle EXCEPT !.at = "start"]
  <2>1. itemWorker' = [itemWorker EXCEPT ![i] = w] BY <1>6 DEF Launch!Goes
  <2>2. w \in WorkerSet /\ w.at = "start" BY DEF Launch!Idle, WorkerSet, Places, Launch!None
  <2> HIDE DEF w
  <2>4. ~Launch!Native(i) BY <1>1, <1>2 DEF Fit
  <2>3. Fit(i, queueRows[i], w, agent[i]) BY <1>1, <1>2, <1>3, <2>2, <2>4 DEF Fit, Past, Follow
  <2> QED BY <1>1, <1>6, <2>1, <2>2, <2>3, Before, GoesOn DEF Prepared, HasPort, Past
<1> QED BY <1>5, <1>6 DEF Launch!CleansUp

LEMMA ReservesMoves ==
    ASSUME LaunchInv, NEW i \in Items, Launch!Reserves(i)
    PROVE  LaunchMoves(i)
<1> DEFINE w == IF Launch!PortTaken(i) THEN [at |-> "rotate", used |-> {}, then |-> "doctor"]
                ELSE [Launch!Idle EXCEPT !.at = "doctor"]
<1>1. /\ itemWorker[i].at = "reserve" /\ itemWorker' = [itemWorker EXCEPT ![i] = w]
      /\ UNCHANGED <<queueRows, agent, told, worktrees, remote, local, repair, synced, outran, events>>
  BY DEF Launch!Reserves, Launch!world
<1>2. Fit(i, queueRows[i], itemWorker[i], agent[i]) BY Before
<1>3. agent[i] = "none" BY <1>1, <1>2 DEF Fit, Follow
<1>4. w \in WorkerSet /\ w.at \in {"rotate", "doctor"} /\ (w.at = "rotate" => w.then = "doctor")
      /\ (w.at = "doctor" => ~Launch!PortTaken(i))
  <2>1. CASE Launch!PortTaken(i) BY <2>1 DEF WorkerSet, Places
  <2>2. CASE ~Launch!PortTaken(i) BY <2>2 DEF WorkerSet, Places, Launch!Idle, Launch!None
  <2> QED BY <2>1, <2>2
<1> HIDE DEF w
<1>5. Fit(i, queueRows[i], w, agent[i]) BY <1>1, <1>2, <1>3, <1>4 DEF Fit, Past, Follow
<1>6. ~Launch!PortTaken(i) => queueRows[i].port \notin UsedBy(i)
  BY DEF Launch!PortTaken, UsedBy, Others
<1>7. told[i] = "new" => RepoOf[i] \notin worktrees[SlugOf[i]] BY <1>1, Before DEF Prepared
<1> QED BY <1>1, <1>4, <1>5, <1>6, <1>7, Before, GoesOn DEF Past, HasPort

LEMMA RotatesMoves ==
    ASSUME Launch!Parameters, LaunchInv, NEW i \in Items, Launch!Rotates(i)
    PROVE  LaunchMoves(i)
<1> DEFINE w == [itemWorker[i] EXCEPT !.at = "store", !.used = UsedBy(i)]
<1>1. /\ itemWorker[i].at = "rotate"
      /\ UNCHANGED <<queueRows, agent, told, worktrees, remote, local, repair, synced, outran, events>>
  BY DEF Launch!Rotates, Launch!world
<1>2. Fit(i, queueRows[i], itemWorker[i], agent[i]) /\ itemWorker[i] \in WorkerSet
      /\ itemWorker \in [Items -> WorkerSet] /\ queueRows \in [Items -> RowSet]
  BY Before
<1>3. itemWorker' = [itemWorker EXCEPT ![i] = w] BY <1>2 DEF Launch!Rotates, UsedBy, Others
<1>4. UsedBy(i) \subseteq Ports BY <1>2 DEF UsedBy, Others, RowSet
<1>5. w \in WorkerSet /\ w.at = "store" /\ w.used = UsedBy(i) /\ w.then = itemWorker[i].then
  BY <1>2, <1>4 DEF WorkerSet, Places
<1> HIDE DEF w
<1>6. Fit(i, queueRows[i], w, agent[i]) BY <1>1, <1>2, <1>5, FreePort DEF Fit, Past, Follow
<1>7. told[i] = "new" => RepoOf[i] \notin worktrees[SlugOf[i]] BY <1>1, Before DEF Prepared
<1> QED BY <1>1, <1>3, <1>5, <1>6, <1>7, Before, GoesOn DEF Past, HasPort

LEMMA StoresMoves ==
    ASSUME Launch!Parameters, LaunchInv, NEW i \in Items, Launch!Stores(i)
    PROVE  LaunchMoves(i)
<1> DEFINE p == Launch!NextPort(queueRows[i].port, itemWorker[i].used)
           q == [queueRows[i] EXCEPT !.port = p]
           r == IF itemWorker[i].then = "asleep" THEN Launch!Sleeping(q) ELSE q
           w == [Launch!Idle EXCEPT !.at = itemWorker[i].then]
<1>1. /\ itemWorker[i].at = "store" /\ itemWorker' = [itemWorker EXCEPT ![i] = w]
      /\ queueRows' = [queueRows EXCEPT ![i] = r]
      /\ outran' = (outran \/ \E j \in Items \ {i} : itemWorker[j].at = "store")
      /\ UNCHANGED <<agent, told, worktrees, remote, local, repair, synced, events>>
  BY Before DEF Launch!Stores, Launch!Goes, Launch!world
<1>2. /\ Fit(i, queueRows[i], itemWorker[i], agent[i]) /\ itemWorker[i] \in WorkerSet
      /\ queueRows[i] \in RowSet /\ agent \in [Items -> AgentStates]
      /\ itemWorker \in [Items -> WorkerSet] /\ queueRows \in [Items -> RowSet]
  BY Before
<1>3. agent[i] = "none" /\ ~Launch!RowTerminal(queueRows[i].status) /\ queueRows[i].status # "running"
      /\ itemWorker[i].then \in {"doctor", "asleep"}
  BY <1>1, <1>2 DEF Fit, Follow, Past
<1>4. queueRows[i].port \in Ports BY <1>2 DEF RowSet
<1>5. p \in Ports /\ (Ports \ itemWorker[i].used # {} => p \notin itemWorker[i].used)
  BY <1>4, Chosen
<1>6. Launch!Native(i) /\ ~outran => p \notin UsedBy(i)
  <2> SUFFICES ASSUME Launch!Native(i), ~outran PROVE p \notin UsedBy(i) OBVIOUS
  <2>1. UsedBy(i) \subseteq itemWorker[i].used BY <1>1, Before
  <2>2. Ports \ itemWorker[i].used # {} BY <1>1, <1>2 DEF Fit
  <2> QED BY <1>5, <2>1, <2>2
<1> HIDE DEF p
<1>7. /\ r.port = p /\ r.status \in {queueRows[i].status, "waiting"}
      /\ r \in RowSet
  <2>1. q \in RowSet /\ q.port = p /\ q.status = queueRows[i].status /\ q.retries = queueRows[i].retries
    BY <1>2, <1>5 DEF RowSet
  <2>2. CASE itemWorker[i].then # "asleep" BY <2>1, <2>2
  <2>3. CASE itemWorker[i].then = "asleep"
    <3>1. queueRows[i].retries < Retries /\ queueRows[i].retries \in 0 .. Retries /\ Retries \in Nat
      BY <1>1, <1>2, <2>3 DEF Fit, RowSet, Launch!Parameters
    <3>2. queueRows[i].retries + 1 \in 0 .. Retries BY <3>1
    <3> HIDE DEF q
    <3>3. r = [q EXCEPT !.status = "waiting", !.retries = q.retries + 1] BY <2>3 DEF Launch!Sleeping
    <3> QED BY <2>1, <3>2, <3>3 DEF RowSet
  <2> QED BY <2>2, <2>3
<1>8. w \in WorkerSet /\ w.at = itemWorker[i].then
  BY <1>3 DEF Launch!Idle, WorkerSet, Places, Launch!None
<1> HIDE DEF r, w, q
<1>9. Fit(i, r, w, "none") BY <1>3, <1>7, <1>8 DEF Fit, Past, Follow, Launch!RowTerminal
<1>10. (Launch!Native(i) /\ ~outran') => KeepsPorts(i, r, w)
  BY <1>1, <1>3, <1>6, <1>7, <1>8 DEF KeepsPorts
<1>11. told[i] = "new" => RepoOf[i] \notin worktrees[SlugOf[i]] BY <1>1, Before DEF Prepared
<1>12. agent' = [agent EXCEPT ![i] = "none"] /\ "none" \in AgentStates
  BY <1>1, <1>2, <1>3 DEF AgentStates
<1>13. Becomes(i, r, w, "none")
  BY <1>1, <1>3, <1>7, <1>8, <1>9, <1>10, <1>11, <1>12 DEF Becomes, Past, Launch!RowTerminal
<1> QED BY <1>1, <1>13, Before DEF LaunchMoves

LEMMA FailsMoves ==
    ASSUME Launch!Parameters, LaunchInv, NEW i \in Items, NEW why, Launch!LaunchFails(i, why),
           itemWorker[i].at \in {"doctor", "open", "start"}, Launch!Happens
    PROVE  LaunchMoves(i)
<1>1. /\ UNCHANGED <<told, worktrees, remote, local, repair, synced, outran>>
      /\ events' \in 0 .. MaxEvents
  BY Before DEF Launch!LaunchFails, Launch!world, Launch!Happens, Launch!Parameters
<1>2. /\ Fit(i, queueRows[i], itemWorker[i], agent[i]) /\ queueRows[i] \in RowSet
      /\ agent \in [Items -> AgentStates] /\ itemWorker \in [Items -> WorkerSet]
      /\ queueRows \in [Items -> RowSet]
  BY Before
<1>3. agent[i] = "none" /\ queueRows[i].status # "success" /\ queueRows[i].status # "running"
  BY <1>2 DEF Fit, Follow, Past, Launch!RowTerminal
<1>4. agent = [agent EXCEPT ![i] = "none"] /\ "none" \in AgentStates BY <1>2, <1>3 DEF AgentStates
<1>5. CASE queueRows[i].retries = Retries
  BY <1>1, <1>4, <1>5, Before, GivesUpMoves DEF Launch!LaunchFails
<1>6. queueRows[i].retries # Retries =>
        queueRows[i].retries < Retries /\ queueRows[i].retries + 1 \in 0 .. Retries
  <2>1. Retries \in Nat /\ queueRows[i].retries \in 0 .. Retries
    BY <1>2 DEF Launch!Parameters, RowSet
  <2> QED BY <2>1
<1>7. CASE queueRows[i].retries # Retries /\ why = "port"
  <2> DEFINE w == [at |-> "rotate", used |-> {}, then |-> "asleep"]
  <2>1. /\ itemWorker' = [itemWorker EXCEPT ![i] = w] /\ UNCHANGED <<queueRows, agent>>
    BY <1>4, <1>7 DEF Launch!LaunchFails
  <2>2. w \in WorkerSet /\ w.at = "rotate" /\ w.then = "asleep" BY DEF WorkerSet, Places
  <2> HIDE DEF w
  <2>3. Fit(i, queueRows[i], w, agent[i])
    BY <1>2, <1>3, <1>6, <1>7, <2>2 DEF Fit, Past, Follow
  <2>4. told[i] = "new" => RepoOf[i] \notin worktrees[SlugOf[i]] BY Before DEF Prepared
  <2> QED BY <1>1, <2>1, <2>2, <2>3, <2>4, Before, GoesOn DEF Past, HasPort
<1>8. CASE queueRows[i].retries # Retries /\ why # "port"
  <2> DEFINE r == Launch!Sleeping(queueRows[i])
             w == [Launch!Idle EXCEPT !.at = "asleep"]
  <2>1. /\ queueRows' = [queueRows EXCEPT ![i] = r] /\ itemWorker' = [itemWorker EXCEPT ![i] = w]
        /\ agent' = [agent EXCEPT ![i] = "none"]
    BY <1>2, <1>3, <1>4, <1>8 DEF Launch!LaunchFails, Launch!Goes
  <2>2. r \in RowSet /\ r.status = "waiting" /\ r.port = queueRows[i].port
    <3>1. queueRows[i].retries + 1 \in 0 .. Retries BY <1>6, <1>8
    <3>2. r = [queueRows[i] EXCEPT !.status = "waiting", !.retries = queueRows[i].retries + 1]
      BY DEF Launch!Sleeping
    <3> QED BY <1>2, <3>1, <3>2 DEF RowSet
  <2>3. w \in WorkerSet /\ w.at = "asleep" BY DEF Launch!Idle, WorkerSet, Places, Launch!None
  <2> HIDE DEF r, w
  <2>4. Fit(i, r, w, "none") BY <2>2, <2>3 DEF Fit, Past, Follow, Launch!RowTerminal
  <2> QED
    BY <1>1, <1>3, <1>4, <2>1, <2>2, <2>3, <2>4, Before, Restatuses DEF Past, Prepared, HasPort
<1> QED BY <1>5, <1>7, <1>8

LEMMA DoctorMoves ==
    ASSUME Launch!Parameters, LaunchInv, NEW i \in Items, Launch!Doctor(i)
    PROVE  LaunchMoves(i)
<1>1. itemWorker[i].at = "doctor" BY DEF Launch!Doctor
<1>2. CASE Launch!Happens /\ Launch!LaunchFails(i, "prerequisites") BY <1>1, <1>2, FailsMoves
<1>3. CASE Launch!Goes(i, "open") /\ UNCHANGED <<queueRows, agent, told, Launch!world, synced, outran, events>>
  <2> DEFINE w == [Launch!Idle EXCEPT !.at = "open"]
  <2>1. /\ itemWorker' = [itemWorker EXCEPT ![i] = w]
        /\ UNCHANGED <<queueRows, agent, told, worktrees, remote, local, repair, synced, outran, events>>
    BY <1>3 DEF Launch!Goes, Launch!world
  <2>2. w \in WorkerSet /\ w.at = "open" BY DEF Launch!Idle, WorkerSet, Places, Launch!None
  <2> HIDE DEF w
  <2>3. Fit(i, queueRows[i], w, agent[i]) BY <1>1, <2>2, Before DEF Fit, Past, Follow
  <2>4. told[i] = "new" => RepoOf[i] \notin worktrees[SlugOf[i]] BY <1>1, Before DEF Prepared
  <2> QED BY <1>1, <2>1, <2>2, <2>3, <2>4, Before, GoesOn DEF Past, HasPort
<1> QED BY <1>2, <1>3 DEF Launch!Doctor

LEMMA LaunchedMoves ==
    ASSUME LaunchInv, NEW i \in Items, Launch!Launched(i), itemWorker[i].at \in {"open", "start"},
           itemWorker[i].at = "start" => ~Launch!Native(i),
           UNCHANGED <<told, worktrees, remote, repair, synced, outran, events>>,
           local' \in [Launch!Slugs -> Stored]
    PROVE  LaunchMoves(i)
<1> DEFINE r == [queueRows[i] EXCEPT !.status = "running"]
           w == [Launch!Idle EXCEPT !.at = "wait"]
<1>1. /\ Fit(i, queueRows[i], itemWorker[i], agent[i]) /\ queueRows[i] \in RowSet
      /\ agent \in [Items -> AgentStates] /\ itemWorker \in [Items -> WorkerSet]
      /\ queueRows \in [Items -> RowSet]
  BY Before
<1>2. agent[i] = "none" /\ queueRows[i].status # "success"
  BY <1>1 DEF Fit, Follow, Past, Launch!RowTerminal
<1>3. /\ queueRows' = [queueRows EXCEPT ![i] = r] /\ itemWorker' = [itemWorker EXCEPT ![i] = w]
      /\ agent' = [agent EXCEPT ![i] = "live"]
  BY <1>1, <1>2 DEF Launch!Launched, Launch!Row, Launch!Goes
<1>4. r \in RowSet /\ r.status = "running" /\ r.port = queueRows[i].port BY <1>1 DEF RowSet
<1>5. w \in WorkerSet /\ w.at = "wait" /\ "live" \in AgentStates
  BY DEF Launch!Idle, WorkerSet, Places, Launch!None, AgentStates
<1> HIDE DEF r, w
<1>6. Fit(i, r, w, "live") BY <1>4, <1>5 DEF Fit, Past, Follow, Launch!RowTerminal
<1> QED BY <1>2, <1>3, <1>4, <1>5, <1>6, Before, Restatuses DEF Past, Prepared, HasPort

LEMMA OpensMoves ==
    ASSUME Launch!Parameters, LaunchInv, NEW i \in Items, Launch!Opens(i)
    PROVE  LaunchMoves(i)
<1>1. itemWorker[i].at = "open" BY DEF Launch!Opens
<1>2. CASE Launch!Launched(i) /\ UNCHANGED <<told, Launch!world, synced, outran, events>>
  BY <1>1, <1>2, LaunchedMoves, Before DEF Launch!world
<1>3. CASE Launch!Happens /\ \E why \in {"port", "update"} : Launch!LaunchFails(i, why)
  BY <1>1, <1>3, FailsMoves
<1> QED BY <1>2, <1>3 DEF Launch!Opens

LEMMA StartsMoves ==
    ASSUME Launch!Parameters, LaunchInv, NEW i \in Items, Launch!Starts(i)
    PROVE  LaunchMoves(i)
<1>1. itemWorker[i].at = "start" BY DEF Launch!Starts
<1>2. ~Launch!Native(i) BY <1>1, Before DEF Fit
<1>3. CASE /\ Launch!Launched(i)
           /\ local' = [local EXCEPT ![SlugOf[i]] =
                           IF @.status # "absent" /\ Launch!Matches(i, @) THEN [@ EXCEPT !.agent = {i}] ELSE @]
           /\ UNCHANGED <<told, worktrees, remote, repair, synced, outran, events>>
  <2>1. local \in [Launch!Slugs -> Stored] /\ SlugOf[i] \in Launch!Slugs BY Before DEF Launch!Slugs
  <2>2. [local[SlugOf[i]] EXCEPT !.agent = {i}] \in Stored BY <2>1 DEF Stored
  <2>3. local' \in [Launch!Slugs -> Stored] BY <1>3, <2>1, <2>2
  <2> QED BY <1>1, <1>2, <1>3, <2>3, LaunchedMoves
<1>4. CASE Launch!Happens /\ Launch!LaunchFails(i, "terminal") BY <1>1, <1>4, FailsMoves
<1> QED BY <1>3, <1>4 DEF Launch!Starts

LEMMA DecidesMoves ==
    ASSUME LaunchInv, NEW i \in Items, NEW status,
           Launch!Decides(i, status), itemWorker[i].at \in Follow,
           UNCHANGED <<told, worktrees, remote, repair, outran>>,
           local' \in [Launch!Slugs -> Stored], synced' \in [Launch!Repos -> 0 .. Interval],
           events' \in 0 .. MaxEvents
    PROVE  LaunchMoves(i)
<1>1. /\ Fit(i, queueRows[i], itemWorker[i], agent[i]) /\ queueRows[i] \in RowSet
      /\ agent \in [Items -> AgentStates] /\ itemWorker \in [Items -> WorkerSet]
      /\ queueRows \in [Items -> RowSet]
  BY Before
<1>2. queueRows[i].status = "running" BY <1>1 DEF Fit
<1>3. [Launch!Idle EXCEPT !.at = "idle"] = Launch!Idle /\ Launch!Idle \in WorkerSet /\ Launch!Idle.at = "idle"
  BY DEF Launch!Idle, WorkerSet, Places, Launch!None
<1>4. ASSUME NEW s \in {"success", "failed", "pending"}, Launch!Row(i, s), Launch!Goes(i, "idle"),
             agent' = [agent EXCEPT ![i] = "none"]
      PROVE  LaunchMoves(i)
  <2> DEFINE r == [queueRows[i] EXCEPT !.status = s]
  <2>1. queueRows' = [queueRows EXCEPT ![i] = r] /\ itemWorker' = [itemWorker EXCEPT ![i] = Launch!Idle]
    BY <1>1, <1>3, <1>4 DEF Launch!Row, Launch!Goes
  <2>2. r \in RowSet /\ r.status = s /\ r.port = queueRows[i].port BY <1>1 DEF RowSet
  <2>3. "none" \in AgentStates BY DEF AgentStates
  <2> HIDE DEF r
  <2>4. Fit(i, r, Launch!Idle, "none") BY <1>3, <2>2 DEF Fit, Past, Follow
  <2> QED BY <1>2, <1>3, <1>4, <2>1, <2>2, <2>3, <2>4, Restatuses DEF Past, Prepared, HasPort
<1>5. CASE Launch!Terminal(status) BY <1>4, <1>5 DEF Launch!Decides
<1>6. CASE ~Launch!Terminal(status) /\ agent[i] = "none"
  <2>1. agent' = [agent EXCEPT ![i] = "none"] BY <1>1, <1>6 DEF Launch!Decides
  <2> QED BY <1>4, <1>6, <2>1 DEF Launch!Decides
<1>7. CASE ~Launch!Terminal(status) /\ agent[i] # "none"
  <2> DEFINE w == [Launch!Idle EXCEPT !.at = "wait"]
  <2>1. itemWorker' = [itemWorker EXCEPT ![i] = w] /\ UNCHANGED <<queueRows, agent>>
    BY <1>7 DEF Launch!Decides, Launch!Goes
  <2>2. w \in WorkerSet /\ w.at = "wait" BY DEF Launch!Idle, WorkerSet, Places, Launch!None
  <2> HIDE DEF w
  <2>3. Fit(i, queueRows[i], w, agent[i]) BY <1>2, <2>2 DEF Fit, Past, Follow, Launch!RowTerminal
  <2>4. itemWorker[i].at \in Past /\ itemWorker[i].at \in HasPort BY DEF Past, HasPort, Follow
  <2> QED BY <1>1, <2>1, <2>2, <2>3, <2>4, Before, GoesOn DEF Past, HasPort, Prepared
<1> QED BY <1>5, <1>6, <1>7

LEMMA PollsMoves ==
    ASSUME Launch!Parameters, LaunchInv, NEW i \in Items, Launch!Polls(i)
    PROVE  LaunchMoves(i)
<1>1. /\ itemWorker[i].at = "wait"
      /\ UNCHANGED <<told, worktrees, remote, local, repair, outran, events>>
      /\ synced' = synced \/ synced' = Launch!SyncBegun(i)
      /\ (\E status : Launch!Decides(i, status)) \/ (Launch!Goes(i, "sync") /\ UNCHANGED <<queueRows, agent>>)
  BY DEF Launch!Polls, Launch!world
<1>2. synced' \in [Launch!Repos -> 0 .. Interval]
  <2>1. synced \in [Launch!Repos -> 0 .. Interval] /\ Interval \in Nat
    BY Before DEF Launch!Parameters
  <2> QED BY <1>1, <2>1 DEF Launch!SyncBegun
<1>3. CASE \E status : Launch!Decides(i, status)
  BY <1>1, <1>2, <1>3, Before, DecidesMoves DEF Follow
<1>4. CASE Launch!Goes(i, "sync") /\ UNCHANGED <<queueRows, agent>>
  <2> DEFINE w == [Launch!Idle EXCEPT !.at = "sync"]
  <2>1. itemWorker' = [itemWorker EXCEPT ![i] = w] BY <1>4 DEF Launch!Goes
  <2>2. w \in WorkerSet /\ w.at = "sync" BY DEF Launch!Idle, WorkerSet, Places, Launch!None
  <2> HIDE DEF w
  <2>3. Fit(i, queueRows[i], w, agent[i])
    BY <1>1, <2>2, Before DEF Fit, Past, Follow, Launch!RowTerminal
  <2> QED BY <1>1, <1>2, <1>4, <2>1, <2>2, <2>3, Before, GoesOn DEF Past, HasPort, Prepared
<1> QED BY <1>1, <1>3, <1>4

LEMMA SyncsMoves ==
    ASSUME Launch!Parameters, LaunchInv, NEW i \in Items, Launch!Syncs(i)
    PROVE  LaunchMoves(i)
<1>1. itemWorker[i].at = "sync" /\ UNCHANGED <<told, worktrees, remote, repair, synced, outran>>
  BY DEF Launch!Syncs
<1>2. local \in [Launch!Slugs -> Stored] /\ synced \in [Launch!Repos -> 0 .. Interval] /\ events \in 0 .. MaxEvents
      /\ MaxEvents \in Nat
  BY Before DEF Launch!Parameters
<1>3. synced' \in [Launch!Repos -> 0 .. Interval] BY <1>1, <1>2
<1>4. ASSUME local' = Launch!Synced(i), NEW status, Launch!Decides(i, status), UNCHANGED events
      PROVE  LaunchMoves(i)
  <2>1. remote \in [Launch!Slugs -> [status : {"absent", "open", "closed:success", "failed-closeout"},
                              repo : Launch!Repos \cup {Launch!None}]]
    BY DEF LaunchInv, Launch!TypeOK
  <2>2. Launch!Synced(i) \in [Launch!Slugs -> Stored] BY <1>2, <2>1 DEF Launch!Synced, Stored
  <2> QED BY <1>1, <1>2, <1>3, <1>4, <2>2, DecidesMoves DEF Follow
<1>5. ASSUME Launch!Happens, UNCHANGED local, NEW status, Launch!Decides(i, status)
      PROVE  LaunchMoves(i)
  <2>1. events' \in 0 .. MaxEvents BY <1>2, <1>5 DEF Launch!Happens
  <2> QED BY <1>1, <1>2, <1>3, <1>5, <2>1, DecidesMoves DEF Follow
<1>6. ASSUME Launch!Happens, UNCHANGED local, Launch!Goes(i, "wait"), UNCHANGED <<queueRows, agent>>
      PROVE  LaunchMoves(i)
  <2> DEFINE w == [Launch!Idle EXCEPT !.at = "wait"]
  <2>0. events' \in 0 .. MaxEvents BY <1>2, <1>6 DEF Launch!Happens
  <2>1. itemWorker' = [itemWorker EXCEPT ![i] = w] BY <1>6 DEF Launch!Goes
  <2>2. w \in WorkerSet /\ w.at = "wait" BY DEF Launch!Idle, WorkerSet, Places, Launch!None
  <2> HIDE DEF w
  <2>3. Fit(i, queueRows[i], w, agent[i])
    BY <1>1, <2>2, Before DEF Fit, Past, Follow, Launch!RowTerminal
  <2> QED
    BY <1>1, <1>2, <1>3, <1>6, <2>0, <2>1, <2>2, <2>3, Before, GoesOn DEF Past, HasPort, Prepared
<1>7. CASE /\ local' = Launch!Synced(i)
           /\ Launch!Decides(i, Launch!LocalStatus(i, Launch!Synced(i)[SlugOf[i]]).status)
           /\ UNCHANGED events
  BY <1>4, <1>7
<1>8. CASE /\ Launch!Happens
           /\ LET r == local[SlugOf[i]]
              IN  IF Launch!Native(i) /\ ~(r.status = "open" /\ Launch!Matches(i, r))
                  THEN Launch!Goes(i, "wait") /\ UNCHANGED <<queueRows, agent>>
                  ELSE Launch!Decides(i, IF Launch!Native(i) THEN r.status ELSE Launch!LocalStatus(i, r).status)
           /\ UNCHANGED local
  BY <1>5, <1>6, <1>8
<1> QED BY <1>7, <1>8 DEF Launch!Syncs

LEMMA ContinuesMoves ==
    ASSUME Launch!Parameters, LaunchInv, NEW i \in Items, Launch!Continues(i)
    PROVE  LaunchMoves(i)
<1> DEFINE r == [queueRows[i] EXCEPT !.status = "pending", !.retries = 0]
<1>1. /\ queueRows[i] \in RowSet /\ itemWorker[i] \in WorkerSet /\ agent[i] \in AgentStates
      /\ Fit(i, queueRows[i], itemWorker[i], agent[i])
      /\ queueRows \in [Items -> RowSet] /\ itemWorker \in [Items -> WorkerSet]
      /\ agent \in [Items -> AgentStates] /\ events \in 0 .. MaxEvents
      /\ MaxEvents \in Nat /\ Retries \in Nat
  BY Before DEF Launch!Parameters
<1>2. /\ queueRows' = [queueRows EXCEPT ![i] = r] /\ itemWorker[i].at = "idle"
      /\ queueRows[i].status = "failed"
      /\ itemWorker' = [itemWorker EXCEPT ![i] = itemWorker[i]]
      /\ agent' = [agent EXCEPT ![i] = agent[i]]
      /\ UNCHANGED <<told, worktrees, remote, local, repair, synced, outran>>
      /\ events' \in 0 .. MaxEvents
  <2>1. queueRows' = [queueRows EXCEPT ![i] = r] BY <1>1 DEF Launch!Continues
  <2>2. events' \in 0 .. MaxEvents BY <1>1 DEF Launch!Continues, Launch!Happens
  <2> QED BY <1>1, <2>1, <2>2 DEF Launch!Continues, Launch!world
<1>3. r \in RowSet /\ r.status = "pending" /\ r.port = queueRows[i].port
  <2>1. 0 \in 0 .. Retries BY <1>1
  <2> QED BY <1>1, <2>1 DEF RowSet
<1> HIDE DEF r
<1>4. Fit(i, r, itemWorker[i], agent[i]) BY <1>1, <1>2, <1>3 DEF Fit, Past, Follow
<1> QED BY <1>1, <1>2, <1>3, <1>4, Before, Restatuses DEF Past, Prepared, HasPort

---------------------------------------------------------------------------
(* A step beside the workers: of an agent, of somebody who repairs a task,   *)
(* of time.                                                                  *)
LEMMA BesideKeeps ==
    ASSUME LaunchInv, UNCHANGED <<queueRows, itemWorker, told, outran>>,
           agent' \in [Items -> AgentStates],
           \A i \in Items : /\ agent'[i] # "none" => agent[i] # "none"
                            /\ agent'[i] = "live" => agent[i] = "live",
           worktrees' \in [Launch!Slugs -> SUBSET Launch!Repos],
           \A i \in Items : told[i] = "new" /\ (itemWorker[i].at \in Prepared \/ agent'[i] = "live")
                               => RepoOf[i] \notin worktrees'[SlugOf[i]],
           remote' \in [Launch!Slugs -> [status : {"absent", "open", "closed:success", "failed-closeout"},
                                  repo : Launch!Repos \cup {Launch!None}]],
           repair' \in [Launch!Slugs -> [status : {"absent", "open", "closed:success", "failed-closeout"},
                                  newer : BOOLEAN]],
           local' \in [Launch!Slugs -> Stored], synced' \in [Launch!Repos -> 0 .. Interval],
           events' \in 0 .. MaxEvents
    PROVE  LaunchInv'
<1>1. Launch!TypeOK'
  <2>1. \A s \in Launch!Slugs : local'[s].status \in {"absent", "open", "closed:success", "failed-closeout"}
    BY DEF Stored
  <2> QED BY <2>1 DEF Launch!TypeOK, LaunchInv, AgentStates
<1>2. Placed'
  <2>1. \A i \in Items : Fit(i, queueRows[i], itemWorker[i], agent[i]) BY PlacedFits DEF LaunchInv
  <2>2. \A i \in Items : Fit(i, queueRows'[i], itemWorker'[i], agent'[i]) BY <2>1 DEF Fit
  <2> QED BY <2>2 DEF Placed, Fit
<1>3. SlugsApart' BY DEF SlugsApart, LaunchInv
<1>4. TreesApart' BY DEF TreesApart
<1>5. PortsApart' BY DEF PortsApart, LaunchInv, UsedBy, Others, Launch!Native
<1> QED BY <1>1, <1>2, <1>3, <1>4, <1>5 DEF LaunchInv

(* What that lemma asks of the variables a step leaves alone.                *)
LEMMA BeforeBeside ==
    ASSUME LaunchInv
    PROVE  /\ agent \in [Items -> AgentStates] /\ worktrees \in [Launch!Slugs -> SUBSET Launch!Repos]
           /\ remote \in [Launch!Slugs -> [status : {"absent", "open", "closed:success", "failed-closeout"},
                                     repo : Launch!Repos \cup {Launch!None}]]
           /\ repair \in [Launch!Slugs -> [status : {"absent", "open", "closed:success", "failed-closeout"},
                                     newer : BOOLEAN]]
           /\ local \in [Launch!Slugs -> Stored] /\ synced \in [Launch!Repos -> 0 .. Interval]
           /\ events \in 0 .. MaxEvents
           /\ \A i \in Items : told[i] = "new" /\ (itemWorker[i].at \in Prepared \/ agent[i] = "live")
                               => RepoOf[i] \notin worktrees[SlugOf[i]]
BY DEF LaunchInv, Launch!TypeOK, Placed, AgentStates, TreesApart

LEMMA DeathKeeps ==
    ASSUME Launch!Parameters, LaunchInv, NEW i \in Items, Launch!AgentDies(i)
    PROVE  LaunchInv'
<1>1. agent' = [agent EXCEPT ![i] = "none"] /\ events' \in 0 .. MaxEvents
      /\ UNCHANGED <<queueRows, itemWorker, told, worktrees, remote, local, repair, synced, outran>>
  BY BeforeBeside DEF Launch!AgentDies, Launch!Happens, Launch!Parameters, Launch!world
<1>2. agent' \in [Items -> AgentStates] BY <1>1, BeforeBeside DEF AgentStates
<1>3. \A j \in Items : (agent'[j] # "none" => agent[j] # "none") /\ (agent'[j] = "live" => agent[j] = "live")
  BY <1>1, BeforeBeside
<1> QED BY <1>1, <1>2, <1>3, BeforeBeside, BesideKeeps

LEMMA RepairKeeps ==
    ASSUME Launch!Parameters, LaunchInv, NEW s \in Launch!Slugs, Launch!Repairs(s)
    PROVE  LaunchInv'
<1>1. events' \in 0 .. MaxEvents
      /\ UNCHANGED <<queueRows, itemWorker, agent, told, worktrees, remote, local, synced, outran>>
  BY BeforeBeside DEF Launch!Repairs, Launch!Happens, Launch!Parameters
<1>2. repair' \in [Launch!Slugs -> [status : {"absent", "open", "closed:success", "failed-closeout"},
                             newer : BOOLEAN]]
  BY BeforeBeside DEF Launch!Repairs
<1> QED BY <1>1, <1>2, BeforeBeside, BesideKeeps

LEMMA TickKeeps ==
    ASSUME Launch!Parameters, LaunchInv, Launch!Tick
    PROVE  LaunchInv'
<1>1. UNCHANGED <<queueRows, itemWorker, agent, told, worktrees, remote, local, repair, outran, events>>
  BY DEF Launch!Tick, Launch!world
<1>2. synced' \in [Launch!Repos -> 0 .. Interval]
  <2>1. synced \in [Launch!Repos -> 0 .. Interval] /\ Interval \in Nat
    BY BeforeBeside DEF Launch!Parameters
  <2>2. \A r \in Launch!Repos : (IF synced[r] < Interval THEN synced[r] + 1 ELSE Interval) \in 0 .. Interval
    BY <2>1
  <2> QED BY <2>2 DEF Launch!Tick
<1> QED BY <1>1, <1>2, BeforeBeside, BesideKeeps

(* An agent that opens a worktree is past the check of its slug; no other    *)
(* item of the slug is.                                                      *)
LEMMA OpeningKeeps ==
    ASSUME LaunchInv, NEW i \in Items, Launch!AgentOpens(i)
    PROVE  LaunchInv'
<1> DEFINE s == SlugOf[i]
<1>1. /\ agent[i] = "live" /\ agent' = [agent EXCEPT ![i] = "working"]
      /\ UNCHANGED <<queueRows, itemWorker, told, synced, outran, events>>
      /\ \/ worktrees' = worktrees \/ worktrees' = [worktrees EXCEPT ![s] = @ \cup {RepoOf[i]}]
      /\ remote' = remote \/ Launch!There(i, "open")
      /\ local' = local \/ Launch!Here(i, "open")
      /\ repair' = repair \/ repair' = Launch!Older(s)
  BY DEF Launch!AgentOpens, Launch!world, Launch!Here, Launch!There
<1>2. s \in Launch!Slugs /\ RepoOf[i] \in Launch!Repos BY DEF Launch!Slugs, Launch!Repos
<1>3. agent' \in [Items -> AgentStates] BY <1>1, BeforeBeside DEF AgentStates
<1>4. \A j \in Items : (agent'[j] # "none" => agent[j] # "none") /\ (agent'[j] = "live" => agent[j] = "live")
  BY <1>1, BeforeBeside
<1>5. worktrees' \in [Launch!Slugs -> SUBSET Launch!Repos] BY <1>1, <1>2, BeforeBeside
<1>6. local' \in [Launch!Slugs -> Stored]
  <2>1. [status |-> "open", repo |-> RepoOf[i], launcher |-> FALSE, agent |-> {i}] \in Stored
    BY <1>2 DEF Stored
  <2> QED BY <1>1, <1>2, <2>1, BeforeBeside DEF Launch!Here
<1>7. remote' \in [Launch!Slugs -> [status : {"absent", "open", "closed:success", "failed-closeout"},
                             repo : Launch!Repos \cup {Launch!None}]]
  BY <1>1, <1>2, BeforeBeside DEF Launch!There
<1>8. repair' \in [Launch!Slugs -> [status : {"absent", "open", "closed:success", "failed-closeout"},
                             newer : BOOLEAN]]
  BY <1>1, <1>2, BeforeBeside DEF Launch!Older
<1>9. ASSUME NEW j \in Items, told[j] = "new", itemWorker[j].at \in Prepared \/ agent'[j] = "live"
      PROVE  RepoOf[j] \notin worktrees'[SlugOf[j]]
  <2>1. itemWorker[i].at \in Follow BY <1>1, Before DEF Fit
  <2>2. j # i BY <1>1, <1>9, <2>1, BeforeBeside DEF Follow, Prepared
  <2>3. agent'[j] = agent[j] BY <1>1, <2>2, BeforeBeside
  <2>4. itemWorker[j].at \in Past
    <3>1. agent[j] = "live" => itemWorker[j].at \in Follow BY Before DEF Fit
    <3> QED BY <1>9, <2>3, <3>1 DEF Follow, Prepared, Past
  <2>5. SlugOf[j] # s BY <2>1, <2>2, <2>4 DEF LaunchInv, SlugsApart, Follow, Past
  <2>6. SlugOf[j] \in Launch!Slugs BY DEF Launch!Slugs
  <2>7. worktrees'[SlugOf[j]] = worktrees[SlugOf[j]] BY <1>1, <2>5, <2>6, BeforeBeside
  <2> QED BY <1>9, <2>3, <2>7, BeforeBeside
<1> HIDE DEF s
<1> QED BY <1>1, <1>3, <1>4, <1>5, <1>6, <1>7, <1>8, <1>9, BeforeBeside, BesideKeeps

LEMMA ClosingKeeps ==
    ASSUME LaunchInv, NEW i \in Items, NEW status \in {"closed:success", "failed-closeout"},
           Launch!AgentCloses(i, status)
    PROVE  LaunchInv'
<1> DEFINE s == SlugOf[i]
<1>1. /\ UNCHANGED <<queueRows, itemWorker, agent, told, synced, outran, events>>
      /\ \/ worktrees' = worktrees \/ worktrees' = [worktrees EXCEPT ![s] = @ \ {RepoOf[i]}]
      /\ remote' = remote \/ Launch!There(i, status)
      /\ local' = local \/ Launch!Here(i, status)
      /\ repair' = Launch!Older(s)
  BY DEF Launch!AgentCloses, Launch!Here, Launch!There
<1>2. s \in Launch!Slugs /\ RepoOf[i] \in Launch!Repos BY DEF Launch!Slugs, Launch!Repos
<1>3. worktrees' \in [Launch!Slugs -> SUBSET Launch!Repos] BY <1>1, <1>2, BeforeBeside
<1>4. local' \in [Launch!Slugs -> Stored]
  <2>1. [status |-> status, repo |-> RepoOf[i], launcher |-> FALSE, agent |-> {i}] \in Stored
    BY <1>2 DEF Stored
  <2> QED BY <1>1, <1>2, <2>1, BeforeBeside DEF Launch!Here
<1>5. remote' \in [Launch!Slugs -> [status : {"absent", "open", "closed:success", "failed-closeout"},
                             repo : Launch!Repos \cup {Launch!None}]]
  BY <1>1, <1>2, BeforeBeside DEF Launch!There
<1>6. repair' \in [Launch!Slugs -> [status : {"absent", "open", "closed:success", "failed-closeout"},
                             newer : BOOLEAN]]
  BY <1>1, <1>2, BeforeBeside DEF Launch!Older
<1>7. \A u \in Launch!Slugs : worktrees'[u] \subseteq worktrees[u] BY <1>1, <1>2, BeforeBeside
<1>8. \A j \in Items : SlugOf[j] \in Launch!Slugs BY DEF Launch!Slugs
<1> HIDE DEF s
<1> QED BY <1>1, <1>3, <1>4, <1>5, <1>6, <1>7, <1>8, BeforeBeside, BesideKeeps

LEMMA LaunchStarting ==
    ASSUME Launch!Parameters, Launch!Init
    PROVE  LaunchInv
<1>1. PICK st \in [Items -> Statuses] :
        queueRows = [i \in Items |-> [status |-> st[i], port |-> PortOf[i], retries |-> 0]]
  BY DEF Launch!Init
<1>2. /\ itemWorker = [i \in Items |-> Launch!Idle] /\ agent = [i \in Items |-> "none"]
      /\ told = [i \in Items |-> Launch!None] /\ worktrees = [s \in Launch!Slugs |-> {}]
      /\ remote = [s \in Launch!Slugs |-> [status |-> "absent", repo |-> Launch!None]]
      /\ local = [s \in Launch!Slugs |-> Launch!NoTask]
      /\ repair = [s \in Launch!Slugs |-> [status |-> "absent", newer |-> FALSE]]
      /\ synced = [r \in Launch!Repos |-> Interval] /\ outran = FALSE /\ events = 0
  BY DEF Launch!Init
<1>3. Retries \in Nat /\ Interval \in Nat /\ MaxEvents \in Nat /\ PortOf \in [Items -> Ports]
      /\ "running" \notin Statuses
  BY DEF Launch!Parameters
<1>4. Launch!TypeOK
  <2>1. queueRows \in [Items -> RowSet]
    <3>1. \A i \in Items : [status |-> st[i], port |-> PortOf[i], retries |-> 0] \in RowSet
      <4>1. 0 \in 0 .. Retries BY <1>3
      <4> QED BY <1>3, <4>1 DEF RowSet
    <3> QED BY <1>1, <3>1
  <2>2. itemWorker \in [Items -> WorkerSet] BY <1>2 DEF WorkerSet, Places, Launch!Idle, Launch!None
  <2>3. /\ agent \in [Items -> AgentStates] /\ told \in [Items -> Contexts]
        /\ worktrees \in [Launch!Slugs -> SUBSET Launch!Repos] /\ synced \in [Launch!Repos -> 0 .. Interval]
        /\ outran \in BOOLEAN /\ events \in 0 .. MaxEvents
    <3>1. agent \in [Items -> AgentStates] /\ told \in [Items -> Contexts]
      BY <1>2 DEF AgentStates, Contexts
    <3>2. worktrees \in [Launch!Slugs -> SUBSET Launch!Repos] /\ outran \in BOOLEAN BY <1>2
    <3>3. synced \in [Launch!Repos -> 0 .. Interval] /\ events \in 0 .. MaxEvents
      <4>1. Interval \in 0 .. Interval /\ 0 \in 0 .. MaxEvents BY <1>3
      <4> QED BY <1>2, <4>1
    <3> QED BY <3>1, <3>2, <3>3
  <2>4. /\ remote \in [Launch!Slugs -> [status : {"absent", "open", "closed:success", "failed-closeout"},
                                 repo : Launch!Repos \cup {Launch!None}]]
        /\ repair \in [Launch!Slugs -> [status : {"absent", "open", "closed:success", "failed-closeout"},
                                 newer : BOOLEAN]]
        /\ \A s \in Launch!Slugs : local[s].status = "absent"
    BY <1>2 DEF Launch!NoTask
  <2> QED BY <2>1, <2>2, <2>3, <2>4
          DEF Launch!TypeOK, RowSet, WorkerSet, Places, AgentStates, Contexts
<1>5. Placed
  BY <1>1, <1>2, <1>3 DEF Placed, Stored, Launch!NoTask, Launch!Idle, Launch!None, Past, Follow
<1>6. \A i \in Items : itemWorker[i].at = "idle" /\ agent[i] = "none" BY <1>2 DEF Launch!Idle
<1> QED BY <1>4, <1>5, <1>6
        DEF LaunchInv, SlugsApart, TreesApart, PortsApart, Past, Prepared, HasPort

LEMMA LaunchStepKeeps ==
    ASSUME Launch!Parameters, LaunchInv, [Launch!Next]_(Launch!vars)
    PROVE  LaunchInv'
<1>1. CASE UNCHANGED Launch!vars
  <2>1. UNCHANGED <<queueRows, itemWorker, agent, told, worktrees, remote, local, repair, synced, outran,
                    events>>
    BY <1>1 DEF Launch!vars, Launch!world
  <2> QED BY <2>1, BeforeBeside, BesideKeeps
<1>2. ASSUME NEW i \in Items, Launch!Launches(i) PROVE LaunchInv'
  BY <1>2, BeginsMoves, ChecksSlugMoves, PreparesMoves, CleansUpMoves, ReservesMoves, RotatesMoves,
     StoresMoves, DoctorMoves, OpensMoves, StartsMoves, MoveKeeps DEF Launch!Launches
<1>3. ASSUME NEW i \in Items, Launch!Follows(i) \/ Launch!Continues(i) PROVE LaunchInv'
  BY <1>3, PollsMoves, SyncsMoves, ContinuesMoves, MoveKeeps DEF Launch!Follows
<1>4. ASSUME NEW i \in Items, Launch!Works(i) \/ Launch!AgentDies(i) PROVE LaunchInv'
  BY <1>4, OpeningKeeps, ClosingKeeps, DeathKeeps DEF Launch!Works
<1> QED BY <1>1, <1>2, <1>3, <1>4, RepairKeeps, TickKeeps DEF Launch!Next

LEMMA Apart ==
    ASSUME LaunchInv
    PROVE  Launch!AgentsKeepApart
<1>1. ASSUME ~outran, NEW i \in Items, NEW j \in Items, i # j, Launch!Native(i), Launch!Native(j),
             queueRows[i].status = "running", queueRows[j].status = "running"
      PROVE  queueRows[i].port # queueRows[j].port
  <2>1. itemWorker[i].at \in HasPort BY <1>1 DEF LaunchInv, Placed, Follow, HasPort
  <2>2. queueRows[i].port \notin UsedBy(i) BY <1>1, <2>1 DEF LaunchInv, PortsApart
  <2>3. queueRows[j].port \in UsedBy(i) BY <1>1 DEF UsedBy, Others
  <2> QED BY <2>2, <2>3
<1>2. TreesApart BY DEF LaunchInv
<1> QED BY <1>1, <1>2 DEF Launch!AgentsKeepApart, TreesApart

---------------------------------------------------------------------------
(* The variables of the launches keep their types.                           *)
THEOREM LaunchTypeCorrect == Launch!Parameters => (Launch!Spec => []Launch!TypeOK)
<1> SUFFICES ASSUME Launch!Parameters PROVE Launch!Spec => []Launch!TypeOK OBVIOUS
<1>1. Launch!Init => LaunchInv BY LaunchStarting
<1>2. LaunchInv /\ [Launch!Next]_(Launch!vars) => LaunchInv' BY LaunchStepKeeps
<1>3. LaunchInv => Launch!TypeOK BY DEF LaunchInv
<1> QED BY <1>1, <1>2, <1>3, PTL DEF Launch!Spec

(* Remote agents share no proxy port unless two workers chose ports at once, *)
(* and no agent is told to open a task whose worktree is there already       *)
(* (start_web_queue_item, queue_worker.rs).                                  *)
THEOREM KeptApart == Launch!Parameters => (Launch!Spec => []Launch!AgentsKeepApart)
<1> SUFFICES ASSUME Launch!Parameters PROVE Launch!Spec => []Launch!AgentsKeepApart OBVIOUS
<1>1. Launch!Init => LaunchInv BY LaunchStarting
<1>2. LaunchInv /\ [Launch!Next]_(Launch!vars) => LaunchInv' BY LaunchStepKeeps
<1>3. LaunchInv => Launch!AgentsKeepApart BY Apart
<1> QED BY <1>1, <1>2, <1>3, PTL DEF Launch!Spec

----------------------------------------------------------------------------
(* AgentSessions, for every number of launches, ids, files and passes.       *)
(*                                                                           *)
(* A worktree a later launch has got was left by the launch before it        *)
(* (Launched); a pass only dooms the rows of agents that have left           *)
(* (Passing), and has claimed every session file that a record it knows of   *)
(* names (Claiming).                                                         *)

CONSTANTS Launches, Ids, Names, Resumes, Files, Workers, MaxCrashes
VARIABLES step, name, tree, living, clients, reused, registry, recent, adhoc, files,
          pass, loaded, known, claims, doomed, crossed, late, accidents

Registry == INSTANCE AgentSessions

Steps == {"new", "checked", "spawned", "stored", "done", "failed"}
Over == {"stored", "done", "failed"}
Sessions == {Registry!Absent, Registry!Plain} \cup Files

RegistryTyped ==
    /\ Registry!TypeOK
    /\ name \in [Launches -> Ids]
    /\ pass \in [Workers -> {Registry!Idle, "sync", "prune"} \cup Ids]
    /\ loaded \in [Workers -> SUBSET Launches] /\ known \in [Workers -> [Launches -> Sessions]]
    /\ claims \in [Workers -> SUBSET Files] /\ doomed \in [Workers -> SUBSET Ids]

(* A launch whose process has been there for good, and is no more.           *)
Left(j) == step[j] \in Over /\ j \notin living
Alone(l) == ~ \E k \in Launches \ {l} : name[k] = name[l]

Launched(l) ==
    /\ step[l] \in {"new", "checked"} => l \notin living
    /\ step[l] \in {"checked", "spawned"} \/ l \in living => tree[l] # 0
    /\ step[l] = "new" => tree[l] = 0
    /\ Registry!Listed(l) => step[l] \in Over
    /\ tree[l] <= l
    /\ step[l] # "new" => \A k \in Launches : k < l => step[k] # "new"
    /\ tree[l] # 0 /\ l \notin Resumes =>
           tree[l] = l \/ \E j \in Launches : j < l /\ tree[j] = tree[l] /\ Left(j)
    /\ l \in living /\ step[l] \in {"stored", "done"} /\ Alone(l) => Registry!Listed(l)

Passing(w) ==
    /\ \A l \in loaded[w] : step[l] \in Over
    /\ \A i \in Ids : i \in doomed[w] \/ pass[w] = i => \E k \in Launches : name[k] = i /\ Left(k)

Claiming(w) ==
    /\ \A k \in Launches : known[w][k] \in Files => known[w][k] \in claims[w]
    /\ crossed \/ \A k, l \in Launches : known[w][k] \in Files /\ known[w][k] = known[w][l] => k = l

RegistryInv ==
    /\ RegistryTyped
    /\ \A l \in Launches : Launched(l)
    /\ \A w \in Workers : Passing(w)
    /\ Registry!SessionClaimedOnce /\ \A w \in Workers : Claiming(w)

---------------------------------------------------------------------------
(* What a step that is not of this part leaves as it is.                     *)

LEMMA FilesStay ==
    ASSUME RegistryInv, UNCHANGED <<adhoc, known, claims, crossed>>
    PROVE  Registry!SessionClaimedOnce' /\ \A w \in Workers : Claiming(w)'
BY DEF RegistryInv, Registry!SessionClaimedOnce, Claiming

LEMMA PassesStay ==
    ASSUME RegistryInv, UNCHANGED <<pass, loaded, doomed, name>>,
           \A l \in Launches : step[l] \in Over => step'[l] \in Over,
           \A l \in Launches : Left(l) => Left(l)'
    PROVE  \A w \in Workers : Passing(w)'
<1> SUFFICES ASSUME NEW w \in Workers PROVE Passing(w)' OBVIOUS
<1>1. Passing(w) /\ loaded[w] \subseteq Launches BY DEF RegistryInv, RegistryTyped
<1>2. \A l \in loaded'[w] : step'[l] \in Over BY <1>1 DEF Passing
<1>3. ASSUME NEW i \in Ids, i \in doomed'[w] \/ pass'[w] = i
      PROVE  \E k \in Launches : name'[k] = i /\ Left(k)'
  BY <1>1, <1>3 DEF Passing
<1> QED BY <1>2, <1>3 DEF Passing

(* Agents exit, rows go: only the row of an id whose launch has left.        *)
LEMMA LaunchesStay ==
    ASSUME Registry!Parameters, RegistryInv, UNCHANGED <<step, name, tree>>,
           living' \subseteq living,
           \A i \in Ids : registry'[i] # registry[i] =>
               registry'[i] = 0 /\ \E k \in Launches : name[k] = i /\ Left(k)
    PROVE  /\ \A l \in Launches : Launched(l)'
           /\ \A l \in Launches : (Left(l) => Left(l)') /\ (step[l] \in Over => step'[l] \in Over)
<1>1. \A l \in Launches : Left(l) => Left(l)' BY DEF Left
<1>2. ASSUME NEW l \in Launches PROVE Launched(l)'
  <2>1. Launched(l) /\ name[l] \in Ids /\ l # 0
    BY DEF RegistryInv, RegistryTyped, Registry!Parameters
  <2>2. Registry!Listed(l)' => Registry!Listed(l) BY <2>1 DEF Registry!Listed
  <2>3. l \in living' /\ step'[l] \in {"stored", "done"} /\ Alone(l)' => Registry!Listed(l)'
    <3> SUFFICES ASSUME l \in living', step[l] \in {"stored", "done"}, Alone(l)
                 PROVE  Registry!Listed(l)'
      BY DEF Alone
    <3>1. Registry!Listed(l) BY <2>1 DEF Launched
    <3>2. registry'[name[l]] = registry[name[l]] BY <2>1 DEF Alone, Left
    <3> QED BY <3>1, <3>2 DEF Registry!Listed
  <2>4. tree'[l] # 0 /\ l \notin Resumes =>
          tree'[l] = l \/ \E j \in Launches : j < l /\ tree'[j] = tree'[l] /\ Left(j)'
    BY <1>1, <2>1 DEF Launched
  <2>5. /\ step'[l] \in {"new", "checked"} => l \notin living'
        /\ step'[l] \in {"checked", "spawned"} \/ l \in living' => tree'[l] # 0
        /\ step'[l] = "new" => tree'[l] = 0 /\ tree'[l] <= l
        /\ tree'[l] <= l
        /\ Registry!Listed(l)' => step'[l] \in Over
        /\ step'[l] # "new" => \A k \in Launches : k < l => step'[k] # "new"
    BY <2>1, <2>2 DEF Launched
  <2> QED BY <2>3, <2>4, <2>5 DEF Launched
<1> QED BY <1>1, <1>2

---------------------------------------------------------------------------
(* Types.                                                                    *)

LEMMA WorktreesAre ==
    ASSUME NEW l, NEW t \in Registry!Worktrees(l)
    PROVE  t = l \/ \E k \in Registry!Reusable(l) : t = tree[k]
<1>1. CASE t \in Registry!NamedResume(l) BY <1>1 DEF Registry!NamedResume
<1>2. CASE t \in Registry!Latest(l) BY <1>2 DEF Registry!Latest
<1> QED BY <1>1, <1>2 DEF Registry!Worktrees, Registry!Own

LEMMA TypedLaunch ==
    ASSUME Registry!Parameters, RegistryInv, NEW l \in Launches,
           Registry!Launch(l) \/ Registry!LaunchDies(l)
    PROVE  RegistryTyped'
<1>1. RegistryTyped BY DEF RegistryInv
<1>2. CASE Registry!Check(l)
  <2>1. \A t \in Registry!Worktrees(l) : t \in Launches \cup {0}
    <3>1. \A k \in Registry!Reusable(l) : tree[k] \in Launches \cup {0}
      BY <1>1 DEF Registry!Reusable, RegistryTyped, Registry!TypeOK
    <3> QED BY <3>1, WorktreesAre
  <2>2. tree' \in [Launches -> Launches \cup {0}]
    <3>1. UNCHANGED tree \/ \E t \in Registry!Worktrees(l) : tree' = [tree EXCEPT ![l] = t]
      BY <1>2 DEF Registry!Check
    <3> QED BY <1>1, <2>1, <3>1 DEF RegistryTyped, Registry!TypeOK
  <2>3. step' \in [Launches -> Steps]
    BY <1>1, <1>2 DEF Registry!Check, RegistryTyped, Registry!TypeOK, Steps
  <2>4. UNCHANGED <<name, living, clients, reused, registry, recent, adhoc, files, Registry!passing,
                    crossed, late, accidents>>
    BY <1>2 DEF Registry!Check
  <2> QED BY <1>1, <2>2, <2>3, <2>4 DEF RegistryTyped, Registry!TypeOK, Steps, Registry!passing
<1>3. CASE Registry!Spawn(l)
  BY <1>1, <1>3 DEF Registry!Spawn, RegistryTyped, Registry!TypeOK, Registry!passing
<1>4. CASE Registry!Store(l)
  BY <1>1, <1>4 DEF Registry!Store, RegistryTyped, Registry!TypeOK, Registry!passing
<1>5. CASE Registry!Record(l)
  BY <1>1, <1>5 DEF Registry!Record, RegistryTyped, Registry!TypeOK, Registry!passing
<1>6. CASE Registry!LaunchDies(l)
  <2>1. accidents' \in 0 .. MaxCrashes
    BY <1>1, <1>6 DEF Registry!LaunchDies, RegistryTyped, Registry!TypeOK, Registry!Parameters
  <2> QED
    BY <1>1, <1>6, <2>1 DEF Registry!LaunchDies, RegistryTyped, Registry!TypeOK, Registry!passing
<1> QED BY <1>2, <1>3, <1>4, <1>5, <1>6 DEF Registry!Launch

LEMMA TypedAgent ==
    ASSUME Registry!Parameters, RegistryInv, NEW l \in Launches,
           Registry!Agent(l) \/ Registry!Ages(l) \/ \E f \in Files : Registry!Writes(f)
    PROVE  RegistryTyped'
<1>1. RegistryTyped BY DEF RegistryInv
<1>2. UNCHANGED Registry!Agents /\ living' \subseteq Launches /\ clients' \subseteq Launches
      /\ reused' \subseteq Launches /\ recent' \subseteq Launches /\ files' \subseteq Files
  BY <1>1 DEF Registry!Agent, Registry!Exits, Registry!Attaches, Registry!Detaches,
       Registry!PidReused, Registry!PidFreed, Registry!Ages, Registry!Writes, RegistryTyped,
       Registry!TypeOK
<1>3. accidents' \in 0 .. MaxCrashes
  BY <1>1 DEF Registry!Agent, Registry!Exits, Registry!Attaches, Registry!Detaches,
       Registry!PidReused, Registry!PidFreed, Registry!Ages, Registry!Writes, RegistryTyped,
       Registry!TypeOK, Registry!Parameters
<1> QED BY <1>1, <1>2, <1>3 DEF RegistryTyped, Registry!TypeOK, Registry!Agents, Registry!passing

LEMMA TypedPass ==
    ASSUME Registry!Parameters, RegistryInv, NEW w \in Workers,
           Registry!Pass(w) \/ Registry!PassDies(w) \/ \E l \in Launches : Registry!Drop(w, l)
    PROVE  RegistryTyped'
<1>1. RegistryTyped BY DEF RegistryInv
<1>2. Registry!Rows \subseteq Launches BY DEF Registry!Rows
<1>3. CASE Registry!SyncLoads(w)
  <2>1. {adhoc[l] : l \in Launches} \ {Registry!Absent, Registry!Plain} \subseteq Files
    BY <1>1 DEF RegistryTyped, Registry!TypeOK
  <2>2. adhoc \in [Launches -> Sessions] BY <1>1 DEF RegistryTyped, Registry!TypeOK, Sessions
  <2> QED
    BY <1>1, <1>2, <1>3, <2>1, <2>2 DEF Registry!SyncLoads, Registry!Turn, Registry!launching,
       RegistryTyped, Registry!TypeOK
<1>4. CASE Registry!PruneLoads(w)
  BY <1>1, <1>2, <1>4 DEF Registry!PruneLoads, Registry!Turn, Registry!launching, RegistryTyped,
     Registry!TypeOK
<1>5. CASE Registry!PassEnds(w)
  <2>1. [l \in Launches |-> Registry!Absent] \in [Launches -> Sessions] BY DEF Sessions
  <2> QED
    BY <1>1, <1>5, <2>1 DEF Registry!PassEnds, Registry!Turn, Registry!launching, RegistryTyped,
       Registry!TypeOK
<1>6. ASSUME NEW l \in Launches, Registry!Import(w, l) PROVE RegistryTyped'
  <2>1. CASE UNCHANGED <<recent, adhoc, known, claims, crossed, late>>
    BY <1>1, <1>6, <2>1 DEF Registry!Import, Registry!launching, RegistryTyped, Registry!TypeOK
  <2>2. ASSUME NEW f \in Registry!Candidates(w, l),
               adhoc' = [adhoc EXCEPT ![l] = f], recent' = recent \cup {l},
               known' = [known EXCEPT ![w][l] = f],
               claims' = [claims EXCEPT ![w] = Registry!Claimed(w, f)],
               crossed' \in BOOLEAN, late' = late \/ late' = late \cup {l}
        PROVE  RegistryTyped'
    <3>1. f \in Files BY <1>1 DEF Registry!Candidates, RegistryTyped, Registry!TypeOK
    <3>2. Registry!Claimed(w, f) \subseteq Files BY <1>1, <3>1 DEF Registry!Claimed, RegistryTyped
    <3>3. known' \in [Workers -> [Launches -> Sessions]]
      BY <1>1, <2>2, <3>1 DEF RegistryTyped, Sessions
    <3> QED
      BY <1>1, <1>6, <2>2, <3>1, <3>2, <3>3 DEF Registry!Import, Registry!launching,
         RegistryTyped, Registry!TypeOK
  <2>3. crossed \in BOOLEAN BY <1>1 DEF RegistryTyped, Registry!TypeOK
  <2>4. CASE \E f \in Registry!Candidates(w, l) :
               /\ adhoc' = [adhoc EXCEPT ![l] = f]
               /\ recent' = recent \cup {l}
               /\ known' = [known EXCEPT ![w][l] = f]
               /\ claims' = [claims EXCEPT ![w] = Registry!Claimed(w, f)]
               /\ crossed' = (crossed \/ \E k \in Launches : adhoc[k] # known[w][k]
                                                          /\ f \in {adhoc[k], adhoc[l]} \ {Registry!Absent, Registry!Plain})
               /\ late' = IF Registry!Listed(l) THEN late ELSE late \cup {l}
    BY <2>2, <2>3, <2>4
  <2> QED BY <1>6, <2>1, <2>4 DEF Registry!Import
<1>7. ASSUME NEW l \in Launches, Registry!Decide(w, l) PROVE RegistryTyped'
  BY <1>1, <1>7 DEF Registry!Decide, Registry!Turn, RegistryTyped, Registry!TypeOK
<1>8. ASSUME NEW l \in Launches, Registry!Drop(w, l) PROVE RegistryTyped'
  BY <1>1, <1>8 DEF Registry!Drop, Registry!Turn, RegistryTyped, Registry!TypeOK
<1>9. ASSUME NEW i \in Ids, Registry!DeleteRecords(w, i) PROVE RegistryTyped'
  BY <1>1, <1>9 DEF Registry!DeleteRecords, Registry!Turn, Registry!launching, RegistryTyped,
       Registry!TypeOK
<1>10. ASSUME NEW i \in Ids, Registry!DeleteRow(w, i) PROVE RegistryTyped'
  BY <1>1, <1>10 DEF Registry!DeleteRow, Registry!Turn, Registry!launching, RegistryTyped,
       Registry!TypeOK, Registry!AdHocOf
<1>11. CASE Registry!PassDies(w)
  <2>1. accidents' \in 0 .. MaxCrashes
    BY <1>1, <1>11 DEF Registry!PassDies, RegistryTyped, Registry!TypeOK, Registry!Parameters
  <2>2. [l \in Launches |-> Registry!Absent] \in [Launches -> Sessions] BY DEF Sessions
  <2> QED
    BY <1>1, <1>11, <2>1, <2>2 DEF Registry!PassDies, Registry!Turn, Registry!launching,
       RegistryTyped, Registry!TypeOK
<1> QED BY <1>3, <1>4, <1>5, <1>6, <1>7, <1>8, <1>9, <1>10, <1>11 DEF Registry!Pass

---------------------------------------------------------------------------
(* Launches.                                                                 *)

(* A step of a launch: what is known of the others, and of the passes.       *)
LEMMA StepMoves ==
    ASSUME Registry!Parameters, RegistryInv, NEW l \in Launches, NEW s \in Steps,
           step' = [step EXCEPT ![l] = s],
           s # "new", step[l] \notin Over \/ s \in Over, step[l] # "new",
           UNCHANGED <<name, tree, living, registry, Registry!passing>>,
           s \in {"new", "checked"} => l \notin living,
           s \in {"checked", "spawned"} => tree[l] # 0,
           Registry!Listed(l) => s \in Over,
           l \in living /\ s \in {"stored", "done"} /\ Alone(l) => Registry!Listed(l)
    PROVE  (\A k \in Launches : Launched(k)') /\ (\A w \in Workers : Passing(w)')
<1>1. RegistryTyped /\ step \in [Launches -> Steps]
  BY DEF RegistryInv, RegistryTyped, Registry!TypeOK, Steps
<1>2. step'[l] = s /\ \A k \in Launches \ {l} : step'[k] = step[k] BY <1>1
<1>3. \A k \in Launches : (Left(k) => Left(k)') /\ (step[k] \in Over => step'[k] \in Over)
  BY <1>2 DEF Left
<1>4. ASSUME NEW k \in Launches PROVE Launched(k)'
  <2>1. Launched(k) /\ (Registry!Listed(k)' <=> Registry!Listed(k)) /\ (Alone(k)' <=> Alone(k))
    BY DEF RegistryInv, Registry!Listed, Alone
  <2>2. tree'[k] # 0 /\ k \notin Resumes =>
          tree'[k] = k \/ \E j \in Launches : j < k /\ tree'[j] = tree'[k] /\ Left(j)'
    BY <1>3, <2>1 DEF Launched
  <2>3. step'[k] # "new" => \A j \in Launches : j < k => step'[j] # "new"
    BY <1>2, <2>1 DEF Launched
  <2>4. CASE k = l BY <1>2, <2>1, <2>2, <2>3, <2>4 DEF Launched
  <2>5. CASE k # l BY <1>2, <2>1, <2>2, <2>3, <2>5 DEF Launched
  <2> QED BY <2>4, <2>5
<1> QED BY <1>3, <1>4, PassesStay DEF Registry!passing

LEMMA CheckKeeps ==
    ASSUME Registry!Parameters, RegistryInv, NEW l \in Launches, Registry!Check(l)
    PROVE  RegistryInv'
<1>1. RegistryTyped /\ step \in [Launches -> Steps] /\ RegistryTyped' /\ Launched(l)
  BY TypedLaunch DEF Registry!Launch, RegistryInv, RegistryTyped, Registry!TypeOK, Steps
<1>2. /\ step[l] = "new" /\ \A k \in Launches : k < l => step[k] # "new"
      /\ UNCHANGED <<name, living, registry, adhoc, pass, loaded, known, claims, doomed, crossed>>
  BY DEF Registry!Check, Registry!passing
<1>3. l \notin living /\ tree[l] = 0 /\ ~Registry!Listed(l) /\ l \in Nat /\ l # 0
  BY <1>1, <1>2 DEF Launched, Over, Registry!Parameters
<1>4. PICK s \in {"failed", "checked"} : step' = [step EXCEPT ![l] = s] BY DEF Registry!Check
<1>5. step'[l] = s /\ \A k \in Launches \ {l} : step'[k] = step[k] BY <1>1, <1>4
<1>6. \A k \in Launches : (Left(k) => Left(k)') /\ (step[k] \in Over => step'[k] \in Over)
  BY <1>2, <1>5 DEF Left, Over
<1>7. /\ \A k \in Launches \ {l} : tree'[k] = tree[k]
      /\ \/ tree'[l] = 0 /\ s = "failed"
         \/ tree'[l] \in Registry!Worktrees(l)
  <2>1. CASE step' = [step EXCEPT ![l] = "failed"] /\ UNCHANGED tree BY <1>1, <1>3, <1>5, <2>1
  <2>2. CASE \E t \in Registry!Worktrees(l) : tree' = [tree EXCEPT ![l] = t]
    BY <1>1, <2>2 DEF RegistryTyped, Registry!TypeOK
  <2> QED BY <2>1, <2>2 DEF Registry!Check
<1>8. /\ tree'[l] <= l /\ (s = "checked" => tree'[l] # 0)
      /\ tree'[l] # 0 /\ l \notin Resumes =>
            tree'[l] = l \/ \E j \in Launches : j < l /\ tree'[j] = tree'[l] /\ Left(j)'
  <2>1. CASE tree'[l] = 0 /\ s = "failed" BY <1>3, <2>1
  <2>2. CASE tree'[l] = l BY <1>3, <2>2
  <2>3. ASSUME NEW k \in Registry!Reusable(l), tree'[l] = tree[k]
        PROVE  /\ tree'[l] <= l /\ (s = "checked" => tree'[l] # 0)
               /\ tree'[l] # 0 /\ l \notin Resumes =>
                     tree'[l] = l \/ \E j \in Launches : j < l /\ tree'[j] = tree'[l] /\ Left(j)'
    <3>1. k \in Launches /\ k # l /\ tree[k] # 0 /\ Registry!Listed(k) /\ (l \in Resumes \/ ~Registry!Running(k))
      BY DEF Registry!Reusable
    <3>2. Launched(k) /\ k \in Nat /\ tree[k] \in Nat
      BY <1>1, <3>1 DEF RegistryInv, RegistryTyped, Registry!TypeOK, Registry!Parameters
    <3>3. step[k] \in Over BY <3>1, <3>2 DEF Launched
    <3>4. ~ (l < k) BY <1>2, <3>1, <3>2, <3>3 DEF Launched, Over
    <3>5. k < l BY <1>3, <3>1, <3>2, <3>4
    <3>6. tree[k] <= k BY <3>2 DEF Launched
    <3>7. l \notin Resumes => Left(k)' BY <1>6, <3>1, <3>3 DEF Left, Registry!Running
    <3> QED BY <1>3, <1>7, <2>3, <3>1, <3>2, <3>5, <3>6, <3>7
  <2>4. ASSUME tree'[l] \in Registry!Worktrees(l)
        PROVE  /\ tree'[l] <= l /\ (s = "checked" => tree'[l] # 0)
               /\ tree'[l] # 0 /\ l \notin Resumes =>
                     tree'[l] = l \/ \E j \in Launches : j < l /\ tree'[j] = tree'[l] /\ Left(j)'
    <3>1. PICK t \in Registry!Worktrees(l) : t = tree'[l] BY <2>4
    <3>2. t = l \/ \E k \in Registry!Reusable(l) : t = tree[k] BY WorktreesAre
    <3> QED BY <2>2, <2>3, <3>1, <3>2
  <2> QED BY <1>7, <2>1, <2>4
<1>9. ASSUME NEW k \in Launches PROVE Launched(k)'
  <2>1. Launched(k) /\ (Registry!Listed(k)' <=> Registry!Listed(k)) /\ (Alone(k)' <=> Alone(k))
    BY <1>2 DEF RegistryInv, Registry!Listed, Alone
  <2>2. CASE k = l
    BY <1>2, <1>3, <1>5, <1>8, <2>1, <2>2 DEF Launched
  <2>3. CASE k # l
    <3>1. tree'[k] # 0 /\ k \notin Resumes =>
            tree'[k] = k \/ \E j \in Launches : j < k /\ tree'[j] = tree'[k] /\ Left(j)'
      <4> SUFFICES ASSUME tree[k] # 0, k \notin Resumes, tree[k] # k
                   PROVE  \E j \in Launches : j < k /\ tree'[j] = tree'[k] /\ Left(j)'
        BY <1>7, <2>3
      <4>1. PICK j \in Launches : j < k /\ tree[j] = tree[k] /\ Left(j) BY <2>1 DEF Launched
      <4>2. j # l BY <1>2, <4>1 DEF Left, Over
      <4> QED BY <1>6, <1>7, <2>3, <4>1, <4>2
    <3> QED BY <1>2, <1>5, <1>7, <2>1, <2>3, <3>1 DEF Launched
  <2> QED BY <2>2, <2>3
<1> QED BY <1>1, <1>2, <1>6, <1>9, FilesStay, PassesStay DEF RegistryInv

LEMMA SpawnKeeps ==
    ASSUME Registry!Parameters, RegistryInv, NEW l \in Launches, Registry!Spawn(l)
    PROVE  RegistryInv'
<1>1. RegistryTyped /\ step \in [Launches -> Steps] /\ RegistryTyped' /\ Launched(l)
  BY TypedLaunch DEF Registry!Launch, RegistryInv, RegistryTyped, Registry!TypeOK, Steps
<1>2. /\ step[l] = "checked"
      /\ UNCHANGED <<name, tree, registry, adhoc, pass, loaded, known, claims, doomed, crossed>>
  BY DEF Registry!Spawn, Registry!passing
<1>3. l \notin living /\ tree[l] # 0 /\ ~Registry!Listed(l) BY <1>1, <1>2 DEF Launched, Over
<1>4. CASE step' = [step EXCEPT ![l] = "failed"] /\ UNCHANGED living
  <2>1. (\A k \in Launches : Launched(k)') /\ (\A w \in Workers : Passing(w)')
    BY <1>2, <1>3, <1>4, StepMoves DEF Steps, Over, Registry!passing
  <2> QED BY <1>1, <1>2, <2>1, FilesStay DEF RegistryInv
<1>5. CASE step' = [step EXCEPT ![l] = "spawned"] /\ living' = living \cup {l}
  <2>1. step'[l] = "spawned" /\ \A k \in Launches \ {l} : step'[k] = step[k] BY <1>1, <1>5
  <2>2. \A k \in Launches : (Left(k) => Left(k)') /\ (step[k] \in Over => step'[k] \in Over)
    BY <1>2, <1>5, <2>1 DEF Left, Over
  <2>3. ASSUME NEW k \in Launches PROVE Launched(k)'
    <3>1. Launched(k) /\ (Registry!Listed(k)' <=> Registry!Listed(k)) /\ (Alone(k)' <=> Alone(k))
      BY <1>2 DEF RegistryInv, Registry!Listed, Alone
    <3>2. tree'[k] # 0 /\ k \notin Resumes =>
            tree'[k] = k \/ \E j \in Launches : j < k /\ tree'[j] = tree'[k] /\ Left(j)'
      BY <1>2, <2>2, <3>1 DEF Launched
    <3>3. step'[k] # "new" => \A j \in Launches : j < k => step'[j] # "new"
      BY <1>2, <2>1, <3>1 DEF Launched
    <3>4. CASE k = l BY <1>2, <1>3, <2>1, <3>1, <3>2, <3>3, <3>4 DEF Launched, Over
    <3>5. CASE k # l BY <1>2, <1>5, <2>1, <3>1, <3>2, <3>3, <3>5 DEF Launched
    <3> QED BY <3>4, <3>5
  <2> QED BY <1>1, <1>2, <2>2, <2>3, FilesStay, PassesStay DEF RegistryInv
<1> QED BY <1>4, <1>5 DEF Registry!Spawn

LEMMA StoreKeeps ==
    ASSUME Registry!Parameters, RegistryInv, NEW l \in Launches, Registry!Store(l)
    PROVE  RegistryInv'
<1>1. RegistryTyped /\ step \in [Launches -> Steps] /\ RegistryTyped' /\ Launched(l) /\ name[l] \in Ids /\ l # 0
  BY TypedLaunch DEF Registry!Launch, RegistryInv, RegistryTyped, Registry!TypeOK, Steps,
       Registry!Parameters
<1>2. /\ step[l] = "spawned"
      /\ UNCHANGED <<name, tree, living, adhoc, pass, loaded, known, claims, doomed, crossed>>
  BY DEF Registry!Store, Registry!passing
<1>3. tree[l] # 0 /\ ~Registry!Listed(l) BY <1>1, <1>2 DEF Launched, Over
<1>4. CASE step' = [step EXCEPT ![l] = "failed"] /\ UNCHANGED <<registry, recent>>
  <2>1. (\A k \in Launches : Launched(k)') /\ (\A w \in Workers : Passing(w)')
    BY <1>2, <1>3, <1>4, StepMoves DEF Steps, Over, Registry!passing
  <2> QED BY <1>1, <1>2, <2>1, FilesStay DEF RegistryInv
<1>5. CASE /\ registry[name[l]] = 0 /\ step' = [step EXCEPT ![l] = "stored"]
           /\ registry' = [registry EXCEPT ![name[l]] = l]
  <2>1. step'[l] = "stored" /\ \A k \in Launches \ {l} : step'[k] = step[k] BY <1>1, <1>5
  <2>2. \A k \in Launches : (Left(k) => Left(k)') /\ (step[k] \in Over => step'[k] \in Over)
    BY <1>2, <1>5, <2>1 DEF Left, Over
  <2>3. registry'[name[l]] = l /\ \A i \in Ids \ {name[l]} : registry'[i] = registry[i]
    BY <1>1, <1>5 DEF RegistryTyped, Registry!TypeOK
  <2>4. ASSUME NEW k \in Launches PROVE Launched(k)'
    <3>1. Launched(k) /\ (Alone(k)' <=> Alone(k)) /\ name[k] \in Ids
      BY <1>1, <1>2 DEF RegistryInv, Alone, RegistryTyped
    <3>2. tree'[k] # 0 /\ k \notin Resumes =>
            tree'[k] = k \/ \E j \in Launches : j < k /\ tree'[j] = tree'[k] /\ Left(j)'
      BY <1>2, <2>2, <3>1 DEF Launched
    <3>3. step'[k] # "new" => \A j \in Launches : j < k => step'[j] # "new"
      BY <1>2, <2>1, <3>1 DEF Launched
    <3>4. CASE k = l
      BY <1>2, <1>3, <2>1, <2>3, <3>1, <3>2, <3>3, <3>4 DEF Launched, Over, Registry!Listed
    <3>5. CASE k # l
      <4>1. Registry!Listed(k)' => Registry!Listed(k) BY <1>2, <2>3, <3>1, <3>5 DEF Registry!Listed
      <4>2. Alone(k) => (Registry!Listed(k)' <=> Registry!Listed(k))
        BY <1>2, <2>3, <3>1, <3>5 DEF Registry!Listed, Alone
      <4> QED BY <1>2, <2>1, <3>1, <3>2, <3>3, <3>5, <4>1, <4>2 DEF Launched
    <3> QED BY <3>4, <3>5
  <2> QED BY <1>1, <1>2, <2>2, <2>4, FilesStay, PassesStay DEF RegistryInv
<1> QED BY <1>4, <1>5 DEF Registry!Store

LEMMA RecordKeeps ==
    ASSUME Registry!Parameters, RegistryInv, NEW l \in Launches, Registry!Record(l)
    PROVE  RegistryInv'
<1>1. RegistryTyped /\ RegistryTyped' /\ Launched(l) BY TypedLaunch DEF Registry!Launch, RegistryInv
<1>2. /\ step[l] = "stored" /\ step' = [step EXCEPT ![l] = "done"]
      /\ adhoc' = adhoc \/ adhoc' = [adhoc EXCEPT ![l] = Registry!Plain]
      /\ UNCHANGED <<name, tree, living, registry, Registry!passing, pass, loaded, known, claims, doomed, crossed>>
  BY DEF Registry!Record, Registry!passing
<1>3. (\A k \in Launches : Launched(k)') /\ (\A w \in Workers : Passing(w)')
  BY <1>1, <1>2, StepMoves DEF Steps, Over, Launched
<1>4. Registry!SessionClaimedOnce'
  BY <1>1, <1>2 DEF Registry!SessionClaimedOnce, RegistryInv, RegistryTyped, Registry!TypeOK,
       Registry!Parameters
<1>5. \A w \in Workers : Claiming(w)' BY <1>2 DEF Claiming, RegistryInv
<1> QED BY <1>1, <1>3, <1>4, <1>5 DEF RegistryInv

LEMMA LaunchDiesKeeps ==
    ASSUME Registry!Parameters, RegistryInv, NEW l \in Launches, Registry!LaunchDies(l)
    PROVE  RegistryInv'
<1>1. RegistryTyped /\ RegistryTyped' /\ Launched(l) BY TypedLaunch DEF RegistryInv
<1>2. /\ step[l] # "new" /\ step' = [step EXCEPT ![l] = "failed"]
      /\ UNCHANGED <<name, tree, living, registry, adhoc, Registry!passing, known, claims, crossed>>
  BY DEF Registry!LaunchDies, Registry!passing
<1>3. (\A k \in Launches : Launched(k)') /\ (\A w \in Workers : Passing(w)')
  BY <1>1, <1>2, StepMoves DEF Steps, Over
<1> QED BY <1>1, <1>2, <1>3, FilesStay DEF RegistryInv

LEMMA AgentKeeps ==
    ASSUME Registry!Parameters, RegistryInv, NEW l \in Launches,
           Registry!Agent(l) \/ Registry!Ages(l) \/ \E f \in Files : Registry!Writes(f)
    PROVE  RegistryInv'
<1>1. UNCHANGED <<step, name, tree, registry, adhoc, pass, loaded, known, claims, doomed, crossed>>
      /\ living' \subseteq living
  BY DEF Registry!Agent, Registry!Exits, Registry!Attaches, Registry!Detaches, Registry!PidReused,
       Registry!PidFreed, Registry!Ages, Registry!Writes, Registry!Agents, Registry!passing
<1>2. \A k \in Launches : Launched(k)' BY <1>1, LaunchesStay
<1>3. \A w \in Workers : Passing(w)' BY <1>1, LaunchesStay, PassesStay
<1> QED BY <1>1, <1>2, <1>3, FilesStay, TypedAgent DEF RegistryInv

---------------------------------------------------------------------------
(* Passes.                                                                   *)

(* A worker's step changes its own pass: what the others have decided stays. *)
LEMMA PassMoves ==
    ASSUME Registry!Parameters, RegistryInv, NEW w \in Workers, UNCHANGED <<step, name, tree>>,
           living' \subseteq living,
           \A i \in Ids : registry'[i] # registry[i] =>
               registry'[i] = 0 /\ \E k \in Launches : name[k] = i /\ Left(k),
           \A v \in Workers \ {w} : pass'[v] = pass[v] /\ loaded'[v] = loaded[v] /\ doomed'[v] = doomed[v],
           \A l \in loaded'[w] : l \in Launches /\ step[l] \in Over,
           \A i \in Ids : i \in doomed'[w] \/ pass'[w] = i => \E k \in Launches : name[k] = i /\ Left(k)'
    PROVE  (\A l \in Launches : Launched(l)') /\ (\A v \in Workers : Passing(v)')
<1>1. /\ \A l \in Launches : Launched(l)'
      /\ \A l \in Launches : (Left(l) => Left(l)') /\ (step[l] \in Over => step'[l] \in Over)
  BY LaunchesStay
<1>2. Passing(w)' BY DEF Passing
<1>3. ASSUME NEW v \in Workers \ {w} PROVE Passing(v)'
  <2>1. Passing(v) BY DEF RegistryInv
  <2>2. \A i \in Ids : i \in doomed'[v] \/ pass'[v] = i => \E k \in Launches : name'[k] = i /\ Left(k)'
    BY <1>1, <2>1 DEF Passing
  <2>3. \A l \in loaded'[v] : step'[l] \in Over BY <2>1 DEF Passing
  <2> QED BY <2>2, <2>3 DEF Passing
<1> QED BY <1>1, <1>2, <1>3

LEMMA WorkerTyped ==
    ASSUME RegistryInv, NEW w \in Workers
    PROVE  /\ RegistryTyped /\ Passing(w) /\ Claiming(w) /\ Registry!SessionClaimedOnce
           /\ loaded[w] \subseteq Launches /\ claims[w] \subseteq Files
           /\ known[w] \in [Launches -> Sessions] /\ adhoc \in [Launches -> Sessions]
           /\ \A l \in Registry!Rows : l \in Launches /\ step[l] \in Over
BY DEF RegistryInv, RegistryTyped, Registry!TypeOK, Registry!Rows, Launched, Sessions

LEMMA FilesApart == Registry!Parameters => Registry!Absent \notin Files /\ Registry!Plain \notin Files
BY DEF Registry!Parameters

LEMMA IdsApart == Registry!Parameters => Registry!Idle \notin Ids /\ "sync" \notin Ids /\ "prune" \notin Ids
BY DEF Registry!Parameters

(* What a worker that starts, or is done with a pass, knows and claims.      *)
LEMMA ClaimsMove ==
    ASSUME Registry!Parameters, RegistryInv, NEW w \in Workers, UNCHANGED <<adhoc, crossed>>,
           \A v \in Workers \ {w} : known'[v] = known[v] /\ claims'[v] = claims[v],
           \/ /\ known'[w] = adhoc /\ claims'[w] = {adhoc[l] : l \in Launches} \ {Registry!Absent, Registry!Plain}
           \/ known'[w] = [l \in Launches |-> Registry!Absent] /\ claims'[w] = {}
    PROVE  Registry!SessionClaimedOnce' /\ \A v \in Workers : Claiming(v)'
<1>1. Registry!SessionClaimedOnce' BY DEF RegistryInv, Registry!SessionClaimedOnce
<1>2. Claiming(w)'
  <2>1. CASE known'[w] = adhoc /\ claims'[w] = {adhoc[l] : l \in Launches} \ {Registry!Absent, Registry!Plain}
    BY <1>1, <2>1, FilesApart DEF Registry!SessionClaimedOnce, Claiming
  <2>2. CASE known'[w] = [l \in Launches |-> Registry!Absent] /\ claims'[w] = {}
    BY <2>2, FilesApart DEF Claiming
  <2> QED BY <2>1, <2>2
<1>3. \A v \in Workers \ {w} : Claiming(v)' BY DEF RegistryInv, Claiming
<1> QED BY <1>1, <1>2, <1>3

LEMMA SyncLoadsKeeps ==
    ASSUME Registry!Parameters, RegistryInv, NEW w \in Workers, Registry!SyncLoads(w)
    PROVE  RegistryInv'
<1>1. /\ UNCHANGED <<step, name, tree, living, registry, adhoc, doomed, crossed>>
      /\ pass' = [pass EXCEPT ![w] = "sync"] /\ loaded' = [loaded EXCEPT ![w] = Registry!Rows]
      /\ known' = [known EXCEPT ![w] = adhoc]
      /\ claims' = [claims EXCEPT ![w] = {adhoc[l] : l \in Launches} \ {Registry!Absent, Registry!Plain}]
  BY DEF Registry!SyncLoads, Registry!Turn, Registry!launching
<1>2. /\ pass'[w] = "sync" /\ loaded'[w] = Registry!Rows /\ known'[w] = adhoc
      /\ claims'[w] = {adhoc[l] : l \in Launches} \ {Registry!Absent, Registry!Plain}
      /\ \A v \in Workers \ {w} : /\ pass'[v] = pass[v] /\ loaded'[v] = loaded[v]
                                 /\ known'[v] = known[v] /\ claims'[v] = claims[v]
  BY <1>1, WorkerTyped DEF RegistryTyped
<1>3. \A i \in Ids : i \in doomed'[w] \/ pass'[w] = i => \E k \in Launches : name[k] = i /\ Left(k)'
  BY <1>1, <1>2, WorkerTyped, IdsApart DEF Passing, Left
<1>4. (\A l \in Launches : Launched(l)') /\ (\A v \in Workers : Passing(v)')
  BY <1>1, <1>2, <1>3, WorkerTyped, PassMoves
<1>5. Registry!SessionClaimedOnce' /\ \A v \in Workers : Claiming(v)' BY <1>1, <1>2, ClaimsMove
<1> QED BY <1>4, <1>5, TypedPass DEF RegistryInv, Registry!Pass

LEMMA PruneLoadsKeeps ==
    ASSUME Registry!Parameters, RegistryInv, NEW w \in Workers, Registry!PruneLoads(w)
    PROVE  RegistryInv'
<1>1. /\ UNCHANGED <<step, name, tree, living, registry, adhoc, known, claims, doomed, crossed>>
      /\ pass' = [pass EXCEPT ![w] = "prune"] /\ loaded' = [loaded EXCEPT ![w] = Registry!Rows \ recent]
  BY DEF Registry!PruneLoads, Registry!Turn, Registry!launching
<1>2. /\ pass'[w] = "prune" /\ loaded'[w] = Registry!Rows \ recent
      /\ \A v \in Workers \ {w} : pass'[v] = pass[v] /\ loaded'[v] = loaded[v]
  BY <1>1, WorkerTyped DEF RegistryTyped
<1>3. \A i \in Ids : i \in doomed'[w] \/ pass'[w] = i => \E k \in Launches : name[k] = i /\ Left(k)'
  BY <1>1, <1>2, WorkerTyped, IdsApart DEF Passing, Left
<1>4. (\A l \in Launches : Launched(l)') /\ (\A v \in Workers : Passing(v)')
  BY <1>1, <1>2, <1>3, WorkerTyped, PassMoves
<1> QED BY <1>1, <1>4, TypedPass, FilesStay DEF RegistryInv, Registry!Pass

(* A pass ends, or dies.                                                     *)
LEMMA EndKeeps ==
    ASSUME Registry!Parameters, RegistryInv, NEW w \in Workers,
           Registry!PassEnds(w) \/ Registry!PassDies(w)
    PROVE  RegistryInv'
<1>1. /\ UNCHANGED <<step, name, tree, living, registry, adhoc, crossed>>
      /\ pass' = [pass EXCEPT ![w] = Registry!Idle]
      /\ loaded' = loaded \/ loaded' = [loaded EXCEPT ![w] = {}]
      /\ doomed' = doomed \/ doomed' = [doomed EXCEPT ![w] = {}]
      /\ known' = [known EXCEPT ![w] = [l \in Launches |-> Registry!Absent]]
      /\ claims' = [claims EXCEPT ![w] = {}]
  BY DEF Registry!PassEnds, Registry!PassDies, Registry!Turn, Registry!launching
<1>2. /\ pass'[w] = Registry!Idle /\ known'[w] = [l \in Launches |-> Registry!Absent] /\ claims'[w] = {}
      /\ loaded'[w] \subseteq loaded[w] /\ doomed'[w] \subseteq doomed[w]
      /\ \A v \in Workers \ {w} : /\ pass'[v] = pass[v] /\ loaded'[v] = loaded[v]
                                 /\ doomed'[v] = doomed[v]
                                 /\ known'[v] = known[v] /\ claims'[v] = claims[v]
  BY <1>1, WorkerTyped DEF RegistryTyped
<1>3. \A i \in Ids : i \in doomed'[w] \/ pass'[w] = i => \E k \in Launches : name[k] = i /\ Left(k)'
  BY <1>1, <1>2, WorkerTyped, IdsApart DEF Passing, Left
<1>4. \A l \in loaded'[w] : l \in Launches /\ step[l] \in Over BY <1>2, WorkerTyped DEF Passing
<1>5. (\A l \in Launches : Launched(l)') /\ (\A v \in Workers : Passing(v)')
  BY <1>1, <1>2, <1>3, <1>4, PassMoves
<1>6. Registry!SessionClaimedOnce' /\ \A v \in Workers : Claiming(v)' BY <1>1, <1>2, ClaimsMove
<1> QED BY <1>5, <1>6, TypedPass DEF RegistryInv, Registry!Pass

(* A file is taken that no record has, or was loaded with: unless another    *)
(* pass has stored a record since.                                           *)
LEMMA ImportKeeps ==
    ASSUME Registry!Parameters, RegistryInv, NEW w \in Workers, NEW l \in Launches,
           Registry!Import(w, l)
    PROVE  RegistryInv'
<1>1. /\ UNCHANGED <<step, name, tree, living, registry, pass, doomed>>
      /\ loaded' = [loaded EXCEPT ![w] = @ \ {l}]
  BY DEF Registry!Import, Registry!launching
<1>2. /\ loaded'[w] \subseteq loaded[w] /\ \A v \in Workers \ {w} : loaded'[v] = loaded[v]
  BY <1>1, WorkerTyped DEF RegistryTyped
<1>3. \A i \in Ids : i \in doomed'[w] \/ pass'[w] = i => \E k \in Launches : name[k] = i /\ Left(k)'
  BY <1>1, WorkerTyped DEF Passing, Left
<1>4. \A k \in loaded'[w] : k \in Launches /\ step[k] \in Over BY <1>2, WorkerTyped DEF Passing
<1>5. (\A k \in Launches : Launched(k)') /\ (\A v \in Workers : Passing(v)')
  BY <1>1, <1>2, <1>3, <1>4, PassMoves
<1>6. Registry!SessionClaimedOnce' /\ \A v \in Workers : Claiming(v)'
  <2>1. CASE UNCHANGED <<adhoc, known, claims, crossed>> BY <2>1, FilesStay
  <2>2. ASSUME NEW f \in Registry!Candidates(w, l), adhoc' = [adhoc EXCEPT ![l] = f],
               known' = [known EXCEPT ![w][l] = f],
               claims' = [claims EXCEPT ![w] = Registry!Claimed(w, f)],
               crossed' = (crossed \/ \E k \in Launches : adhoc[k] # known[w][k]
                                                      /\ f \in {adhoc[k], adhoc[l]} \ {Registry!Absent, Registry!Plain})
        PROVE  Registry!SessionClaimedOnce' /\ \A v \in Workers : Claiming(v)'
    <3>1. f \in Files /\ f \notin {Registry!Absent, Registry!Plain}
          /\ (IF known[w][l] \in {Registry!Absent, Registry!Plain} THEN f \notin claims[w] ELSE f = known[w][l])
      BY WorkerTyped, FilesApart DEF Registry!Candidates, RegistryTyped, Registry!TypeOK
    <3>2. /\ adhoc'[l] = f /\ \A k \in Launches \ {l} : adhoc'[k] = adhoc[k]
          /\ known'[w][l] = f /\ \A k \in Launches \ {l} : known'[w][k] = known[w][k]
          /\ claims'[w] = claims[w] \cup {f}
          /\ \A v \in Workers \ {w} : known'[v] = known[v] /\ claims'[v] = claims[v]
      BY <2>2, WorkerTyped DEF Registry!Claimed, RegistryTyped
    <3>3. ASSUME ~crossed', NEW k \in Launches \ {l}, known[w][k] = f PROVE FALSE
      <4>1. known[w][k] \in claims[w] BY <3>1, <3>3, WorkerTyped DEF Claiming
      <4>2. known[w][l] = f BY <3>1, <3>3, <4>1
      <4>3. ~crossed BY <2>2, <3>3
      <4> QED BY <3>1, <3>3, <4>2, <4>3, WorkerTyped DEF Claiming
    <3>4. ASSUME ~crossed', NEW k \in Launches \ {l}, adhoc[k] = f PROVE FALSE
      <4>1. adhoc[k] = known[w][k] BY <2>2, <3>1, <3>4
      <4> QED BY <3>3, <3>4, <4>1
    <3>5. ~crossed' => ~crossed BY <2>2
    <3>6. Registry!SessionClaimedOnce'
      <4> SUFFICES ASSUME ~crossed', NEW k \in Launches, NEW j \in Launches, adhoc'[k] \in Files,
                          adhoc'[k] = adhoc'[j]
                   PROVE  k = j
        BY DEF Registry!SessionClaimedOnce
      <4>1. CASE k = l \/ j = l BY <3>2, <3>4, <4>1
      <4>2. CASE k # l /\ j # l BY <3>2, <3>5, <4>2, WorkerTyped DEF Registry!SessionClaimedOnce
      <4> QED BY <4>1, <4>2
    <3>7. Claiming(w)'
      <4>1. \A k \in Launches : known'[w][k] \in Files => known'[w][k] \in claims'[w]
        BY <3>2, WorkerTyped DEF Claiming
      <4>2. ASSUME ~crossed', NEW k \in Launches, NEW j \in Launches, known'[w][k] \in Files,
                   known'[w][k] = known'[w][j]
            PROVE  k = j
        <5>1. CASE k = l \/ j = l BY <3>2, <3>3, <4>2, <5>1
        <5>2. CASE k # l /\ j # l BY <3>2, <3>5, <4>2, <5>2, WorkerTyped DEF Claiming
        <5> QED BY <5>1, <5>2
      <4> QED BY <4>1, <4>2 DEF Claiming
    <3>8. \A v \in Workers \ {w} : Claiming(v)' BY <3>2, <3>5 DEF RegistryInv, Claiming
    <3> QED BY <3>6, <3>7, <3>8
  <2> QED BY <2>1, <2>2 DEF Registry!Import
<1> QED BY <1>5, <1>6, TypedPass DEF RegistryInv, Registry!Pass

(* An id is doomed when its agent has gone, or goes with the decision.       *)
LEMMA DecideKeeps ==
    ASSUME Registry!Parameters, RegistryInv, NEW w \in Workers, NEW l \in Launches,
           Registry!Decide(w, l)
    PROVE  RegistryInv'
<1> DEFINE decision == Registry!StaleDecision(l)
           fails    == decision = "TerminateUnattached" /\ Registry!Session(l) = {}
<1>1. /\ UNCHANGED <<step, name, tree, registry, adhoc, known, claims, crossed>> /\ l \in loaded[w]
      /\ pass' = [pass EXCEPT ![w] = IF fails THEN Registry!Idle ELSE "prune"]
      /\ loaded' = [loaded EXCEPT ![w] = IF fails THEN {} ELSE @ \ {l}]
      /\ doomed' = [doomed EXCEPT ![w] = IF fails THEN {}
                                         ELSE IF decision = "SkipAttached" THEN @ ELSE @ \cup {name[l]}]
      /\ living' = IF decision = "TerminateUnattached" THEN living \ Registry!Session(l) ELSE living
  BY DEF Registry!Decide, Registry!Turn
<1>2. decision \in {"DeleteExited", "SkipAttached", "TerminateUnattached"}
      /\ (decision = "DeleteExited" => l \notin living)
  BY DEF Registry!StaleDecision, Registry!Running
<1> HIDE DEF decision
<1>3. living' \subseteq living BY <1>1
<1>4. /\ pass'[w] \in {Registry!Idle, "prune"} /\ loaded'[w] \subseteq loaded[w]
      /\ doomed'[w] \subseteq doomed[w] \/ (doomed'[w] = doomed[w] \cup {name[l]} /\ decision # "SkipAttached")
      /\ \A v \in Workers \ {w} : pass'[v] = pass[v] /\ loaded'[v] = loaded[v] /\ doomed'[v] = doomed[v]
  BY <1>1, WorkerTyped DEF RegistryTyped
<1>5. decision # "SkipAttached" => Left(l)'
  <2>1. step[l] \in Over BY <1>1, WorkerTyped DEF Passing
  <2>2. decision = "TerminateUnattached" => l \notin living' BY <1>1 DEF Registry!Session
  <2> QED BY <1>1, <1>2, <1>3, <2>1, <2>2 DEF Left
<1>6. ASSUME NEW i \in Ids, i \in doomed'[w] \/ pass'[w] = i
      PROVE  \E k \in Launches : name[k] = i /\ Left(k)'
  <2>1. CASE i \in doomed[w]
    <3>1. PICK k \in Launches : name[k] = i /\ Left(k) BY <2>1, WorkerTyped DEF Passing
    <3>2. Left(k)' BY <1>1, <1>3, <3>1 DEF Left
    <3> QED BY <3>1, <3>2
  <2>2. CASE i = name[l] /\ decision # "SkipAttached" BY <1>5, <2>2
  <2>3. pass'[w] # i BY <1>4, IdsApart
  <2> QED BY <1>4, <1>6, <2>1, <2>2, <2>3
<1>7. \A k \in loaded'[w] : k \in Launches /\ step[k] \in Over BY <1>4, WorkerTyped DEF Passing
<1>8. (\A k \in Launches : Launched(k)') /\ (\A v \in Workers : Passing(v)')
  BY <1>1, <1>3, <1>4, <1>6, <1>7, PassMoves
<1> QED BY <1>1, <1>8, TypedPass, FilesStay DEF RegistryInv, Registry!Pass

LEMMA DropKeeps ==
    ASSUME Registry!Parameters, RegistryInv, NEW w \in Workers, NEW l \in Launches,
           Registry!Drop(w, l)
    PROVE  RegistryInv'
<1>1. /\ UNCHANGED <<step, name, tree, registry, adhoc, loaded, known, claims, crossed>> /\ l \in Registry!Rows
      /\ living' = living \ (IF Registry!Running(l) THEN Registry!Session(l) ELSE {})
      /\ doomed' = [doomed EXCEPT ![w] = {name[l]}] /\ pass' = [pass EXCEPT ![w] = "prune"]
  BY DEF Registry!Drop, Registry!Turn
<1>2. living' \subseteq living BY <1>1
<1>3. /\ pass'[w] = "prune" /\ doomed'[w] = {name[l]}
      /\ \A v \in Workers \ {w} : pass'[v] = pass[v] /\ doomed'[v] = doomed[v]
  BY <1>1, WorkerTyped DEF RegistryTyped
<1>4. Left(l)' BY <1>1, WorkerTyped DEF Left, Registry!Running, Registry!Session
<1>5. \A i \in Ids : i \in doomed'[w] \/ pass'[w] = i => \E k \in Launches : name[k] = i /\ Left(k)'
  BY <1>3, <1>4, IdsApart
<1>6. \A k \in loaded'[w] : k \in Launches /\ step[k] \in Over BY <1>1, WorkerTyped DEF Passing
<1>7. (\A k \in Launches : Launched(k)') /\ (\A v \in Workers : Passing(v)')
  BY <1>1, <1>2, <1>3, <1>5, <1>6, PassMoves
<1> QED BY <1>1, <1>7, TypedPass, FilesStay DEF RegistryInv

LEMMA DeleteRecordsKeeps ==
    ASSUME Registry!Parameters, RegistryInv, NEW w \in Workers, NEW i \in Ids,
           Registry!DeleteRecords(w, i)
    PROVE  RegistryInv'
<1>1. /\ UNCHANGED <<step, name, tree, living, registry, loaded, known, claims, doomed, crossed>>
      /\ i \in doomed[w] /\ pass' = [pass EXCEPT ![w] = i]
      /\ adhoc' = [l \in Launches |-> IF l \in Registry!AdHocOf(i) THEN Registry!Absent ELSE adhoc[l]]
  BY DEF Registry!DeleteRecords, Registry!Turn, Registry!launching
<1>2. pass'[w] = i /\ \A v \in Workers \ {w} : pass'[v] = pass[v]
  BY <1>1, WorkerTyped DEF RegistryTyped
<1>3. \A j \in Ids : j \in doomed'[w] \/ pass'[w] = j => \E k \in Launches : name[k] = j /\ Left(k)'
  BY <1>1, <1>2, WorkerTyped DEF Passing, Left
<1>4. \A k \in loaded'[w] : k \in Launches /\ step[k] \in Over BY <1>1, WorkerTyped DEF Passing
<1>5. (\A k \in Launches : Launched(k)') /\ (\A v \in Workers : Passing(v)')
  BY <1>1, <1>2, <1>3, <1>4, PassMoves
<1>6. Registry!SessionClaimedOnce'
  BY <1>1, WorkerTyped, FilesApart DEF Registry!SessionClaimedOnce
<1>7. \A v \in Workers : Claiming(v)' BY <1>1 DEF Claiming, RegistryInv
<1> QED BY <1>5, <1>6, <1>7, TypedPass DEF RegistryInv, Registry!Pass

LEMMA DeleteRowKeeps ==
    ASSUME Registry!Parameters, RegistryInv, NEW w \in Workers, NEW i \in Ids,
           Registry!DeleteRow(w, i)
    PROVE  RegistryInv'
<1>1. /\ UNCHANGED <<step, name, tree, living, adhoc, loaded, known, claims, crossed>> /\ pass[w] = i
      /\ registry' = [registry EXCEPT ![i] = 0] /\ doomed' = [doomed EXCEPT ![w] = @ \ {i}]
      /\ pass' = [pass EXCEPT ![w] = "prune"]
  BY DEF Registry!DeleteRow, Registry!Turn, Registry!launching
<1>2. \E k \in Launches : name[k] = i /\ Left(k) BY <1>1, WorkerTyped DEF Passing
<1>3. /\ pass'[w] = "prune" /\ doomed'[w] \subseteq doomed[w]
      /\ \A v \in Workers \ {w} : pass'[v] = pass[v] /\ doomed'[v] = doomed[v]
      /\ \A j \in Ids : registry'[j] # registry[j] => j = i /\ registry'[j] = 0
  BY <1>1, WorkerTyped DEF RegistryTyped, Registry!TypeOK
<1>4. \A j \in Ids : j \in doomed'[w] \/ pass'[w] = j => \E k \in Launches : name[k] = j /\ Left(k)'
  BY <1>1, <1>3, WorkerTyped, IdsApart DEF Passing, Left
<1>5. \A k \in loaded'[w] : k \in Launches /\ step[k] \in Over BY <1>1, WorkerTyped DEF Passing
<1>6. \A j \in Ids : registry'[j] # registry[j] =>
        registry'[j] = 0 /\ \E k \in Launches : name[k] = j /\ Left(k)
  BY <1>2, <1>3
<1>7. (\A k \in Launches : Launched(k)') /\ (\A v \in Workers : Passing(v)')
  BY <1>1, <1>3, <1>4, <1>5, <1>6, PassMoves
<1> QED BY <1>1, <1>7, TypedPass, FilesStay DEF RegistryInv, Registry!Pass

---------------------------------------------------------------------------
LEMMA RegistryStarting ==
    ASSUME Registry!Parameters, Registry!Init
    PROVE  RegistryInv
<1>1. RegistryTyped
  <2>0. [l \in Launches |-> Registry!Absent] \in [Launches -> Sessions]
    <3> SUFFICES Registry!Absent \in Sessions OBVIOUS
    <3> QED BY DEF Sessions
  <2>1. adhoc = [l \in Launches |-> Registry!Absent] /\ adhoc \in [Launches -> Sessions]
    <3>1. adhoc = [l \in Launches |-> Registry!Absent] BY DEF Registry!Init
    <3> QED BY <2>0, <3>1
  <2>2. known \in [Workers -> [Launches -> Sessions]]
    <3>1. known = [w \in Workers |-> adhoc] BY DEF Registry!Init
    <3> QED BY <2>1, <3>1
  <2>3. accidents \in 0..MaxCrashes /\ crossed \in BOOLEAN
    <3>1. accidents = 0 /\ crossed = FALSE BY DEF Registry!Init
    <3>2. 0 \in 0..MaxCrashes BY DEF Registry!Parameters
    <3> QED BY <3>1, <3>2
  <2>4. name \in [Launches -> Ids] BY DEF Registry!Init, Registry!Parameters
  <2>5. /\ step \in [Launches -> {"new", "checked", "spawned", "stored", "done", "failed"}]
        /\ tree \in [Launches -> Launches \cup {0}] /\ registry \in [Ids -> Launches \cup {0}]
        /\ living \subseteq Launches /\ clients \subseteq Launches /\ reused \subseteq Launches
        /\ recent \subseteq Launches /\ late \subseteq Launches /\ files \subseteq Files
    BY DEF Registry!Init
  <2>6. /\ pass \in [Workers -> {Registry!Idle, "sync", "prune"} \cup Ids]
        /\ loaded \in [Workers -> SUBSET Launches]
        /\ claims \in [Workers -> SUBSET Files] /\ doomed \in [Workers -> SUBSET Ids]
    BY DEF Registry!Init, Registry!Idle
  <2>7. \A w \in Workers : /\ loaded[w] \subseteq Launches /\ claims[w] \subseteq Files
                          /\ doomed[w] \subseteq Ids
    BY <2>6
  <2>8. adhoc \in [Launches -> {Registry!Absent, Registry!Plain} \cup Files] BY <2>1 DEF Sessions
  <2> QED BY <2>1, <2>2, <2>3, <2>4, <2>5, <2>6, <2>7, <2>8 DEF RegistryTyped, Registry!TypeOK
<1>2. \A l \in Launches : Launched(l)
  <2> SUFFICES ASSUME NEW l \in Launches PROVE Launched(l) OBVIOUS
  <2>1. l \in Nat /\ l # 0 /\ name[l] \in Ids BY <1>1 DEF Registry!Parameters, RegistryTyped
  <2>2. registry[name[l]] = 0 BY <2>1 DEF Registry!Init
  <2>3. step[l] = "new" /\ tree[l] = 0 /\ l \notin living BY DEF Registry!Init
  <2>4. ~Registry!Listed(l) BY <2>1, <2>2 DEF Registry!Listed
  <2> QED BY <2>1, <2>3, <2>4 DEF Launched
<1>3. \A w \in Workers : Passing(w)
  <2> SUFFICES ASSUME NEW w \in Workers PROVE Passing(w) OBVIOUS
  <2>1. loaded[w] = {} /\ doomed[w] = {} /\ pass[w] = Registry!Idle
    BY DEF Registry!Init, Registry!Idle
  <2> QED BY <2>1, IdsApart DEF Passing
<1>4. Registry!SessionClaimedOnce BY FilesApart DEF Registry!Init, Registry!SessionClaimedOnce
<1>5. \A w \in Workers : Claiming(w) BY FilesApart DEF Registry!Init, Claiming
<1> QED BY <1>1, <1>2, <1>3, <1>4, <1>5 DEF RegistryInv

LEMMA RegistryStepKeeps ==
    ASSUME Registry!Parameters, RegistryInv, [Registry!Next]_(Registry!vars)
    PROVE  RegistryInv'
<1>1. CASE UNCHANGED Registry!vars
  <2>1. UNCHANGED <<step, name, tree, living, clients, reused, registry, recent, adhoc, files, pass,
                    loaded, known, claims, doomed, crossed, late, accidents>>
    BY <1>1 DEF Registry!vars, Registry!launching, Registry!passing
  <2>2. RegistryTyped' BY <2>1 DEF RegistryInv, RegistryTyped, Registry!TypeOK
  <2>3. \A l \in Launches : Launched(l)' BY <2>1, LaunchesStay
  <2>4. \A w \in Workers : Passing(w)' BY <2>1, LaunchesStay, PassesStay
  <2> QED BY <2>1, <2>2, <2>3, <2>4, FilesStay DEF RegistryInv
<1>2. ASSUME NEW l \in Launches,
             Registry!Launch(l) \/ Registry!LaunchDies(l) \/ Registry!Agent(l) \/ Registry!Ages(l)
      PROVE  RegistryInv'
  BY <1>2, CheckKeeps, SpawnKeeps, StoreKeeps, RecordKeeps, LaunchDiesKeeps, AgentKeeps
    DEF Registry!Launch
<1>3. ASSUME NEW f \in Files, Registry!Writes(f) PROVE RegistryInv'
  <2>1. \E l \in Launches : TRUE
    BY <1>3 DEF Registry!Writes, RegistryInv, RegistryTyped, Registry!TypeOK
  <2> QED BY <1>3, <2>1, AgentKeeps
<1>4. ASSUME NEW w \in Workers,
             Registry!Pass(w) \/ Registry!PassDies(w) \/ \E l \in Launches : Registry!Drop(w, l)
      PROVE  RegistryInv'
  BY <1>4, SyncLoadsKeeps, PruneLoadsKeeps, EndKeeps, ImportKeeps, DecideKeeps, DropKeeps,
     DeleteRecordsKeeps, DeleteRowKeeps DEF Registry!Pass
<1> QED BY <1>1, <1>2, <1>3, <1>4 DEF Registry!Next

LEMMA RegistryFollows ==
    ASSUME Registry!Parameters, RegistryInv
    PROVE  Registry!RunningAgentsStayListed /\ Registry!SharedTreesWereLeft
<1>1. Registry!RunningAgentsStayListed
  BY DEF RegistryInv, Launched, Registry!RunningAgentsStayListed, Alone, RegistryTyped,
     Registry!TypeOK
<1>2. ASSUME NEW k \in living, NEW l \in living, k < l, tree[k] = tree[l], l \notin Resumes
      PROVE  \E j \in Launches \ {k, l} : tree[j] = tree[k] /\ j < l
  <2>1. k \in Launches /\ l \in Launches BY DEF RegistryInv, RegistryTyped, Registry!TypeOK
  <2>2. k \in Nat /\ l \in Nat BY <2>1 DEF Registry!Parameters
  <2>3. Launched(k) /\ Launched(l) BY <2>1 DEF RegistryInv
  <2>4. tree[l] # l BY <1>2, <2>2, <2>3 DEF Launched
  <2>5. PICK j \in Launches : j < l /\ tree[j] = tree[l] /\ Left(j) BY <1>2, <2>3, <2>4 DEF Launched
  <2>6. j # k /\ j # l BY <2>5 DEF Left
  <2> QED BY <1>2, <2>5, <2>6
<1> QED BY <1>1, <1>2 DEF Registry!SharedTreesWereLeft

---------------------------------------------------------------------------
(* The variables of the registry keep their types.                           *)
THEOREM RegistryTypeCorrect == Registry!Parameters => (Registry!Spec => []Registry!TypeOK)
<1> SUFFICES ASSUME Registry!Parameters PROVE Registry!Spec => []Registry!TypeOK OBVIOUS
<1>1. Registry!Init => RegistryInv BY RegistryStarting
<1>2. RegistryInv /\ [Registry!Next]_(Registry!vars) => RegistryInv' BY RegistryStepKeeps
<1>3. RegistryInv => Registry!TypeOK BY DEF RegistryInv, RegistryTyped
<1> QED BY <1>1, <1>2, <1>3, PTL DEF Registry!Spec

(* A running agent keeps its row in the registry unless its id was used      *)
(* twice, a session file is in the record of one launch only unless passes   *)
(* crossed, and a worktree two running agents share was left by a third one  *)
(* unless the later of them resumed a session (agents.rs).                   *)
THEOREM PlacesKept ==
    Registry!Parameters => (Registry!Spec => [](Registry!RunningAgentsStayListed /\ Registry!SessionClaimedOnce /\ Registry!SharedTreesWereLeft))
<1> SUFFICES ASSUME Registry!Parameters
             PROVE  Registry!Spec => [](Registry!RunningAgentsStayListed /\ Registry!SessionClaimedOnce /\ Registry!SharedTreesWereLeft)
  OBVIOUS
<1>1. Registry!Init => RegistryInv BY RegistryStarting
<1>2. RegistryInv /\ [Registry!Next]_(Registry!vars) => RegistryInv' BY RegistryStepKeeps
<1>3. RegistryInv => Registry!RunningAgentsStayListed /\ Registry!SessionClaimedOnce /\ Registry!SharedTreesWereLeft
  BY RegistryFollows DEF RegistryInv
<1> QED BY <1>1, <1>2, <1>3, PTL DEF Registry!Spec

========================================================================
