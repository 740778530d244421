------------------------------ MODULE TaskChat ------------------------------
(* Chatting with the agent of a task: the transcript window of the dashboard
   (webapp_assets/app/queue.js, terminal.js), the requests it makes
   (webapp/terminal_chat.rs, terminal_chat_transcript.rs), and the terminals the
   text is pasted into.

   A window makes its requests asynchronously and changes its task meanwhile.  The
   server looks up the queue item, the task record and the agents one after the
   other; a task that is paused or blocked and has no terminal gets a chat agent,
   which takes many seconds to come up.  A text is pasted and then entered, in two
   commands, into a terminal that several requests may be writing to. *)
EXTENDS Naturals

CONSTANTS Tasks,
          Remote,     \* the tasks whose queue item runs remotely
          Windows,
          Messages,   \* what operators type, in order: 1..n
          Openings,   \* initial situations: items, records, agents
          MaxEvents   \* bound: transcripts opened, acts of agents and workers, and failures

VARIABLES
  item,        \* of each task: its status, or none, and its agent
  record,      \* of each task: its status, or none, and its agent
  listed,      \* the agents with a row in the registry
  terminals,   \* the agents whose terminal exists
  input,       \* what stands in a terminal's input line
  context,     \* of each window: its task, the terminal, and whether one can be had
  reading,     \* the task whose transcript a window waits for
  timer,       \* windows that will reopen their transcript
  call,        \* the server's work for the two mutations of each window
  meant,       \* the task each message was typed for
  heard,       \* the messages entered, with their terminal
  reported,    \* messages answered as sent
  strayed,     \* windows that took over the terminal of a task they do not show: of the one
               \* they had shown before, or that a misled message had gone to
  misled,      \* messages typed in such a window
  dropped,     \* messages in the input line of a terminal that ended
  acts

world == <<item, record, listed, terminals, input, heard, dropped>>
windows == <<context, reading, timer, strayed, meant, misled, reported>>
vars == <<world, windows, call, acts>>

None == "none"
Packet == 0
Agents == Tasks \X {"work", "chat"}
NoTarget == <<None, None>>
Calls == Windows \X {"ensure", "send"}
Idle == [stage |-> "idle", task |-> None, target |-> NoTarget, copy |-> [status |-> None, agent |-> None],
         text |-> Packet]

Init ==
  /\ \E o \in Openings : item = o.item /\ record = o.record /\ listed = o.listed /\ terminals = o.living
  /\ input = [x \in Agents |-> {}] /\ heard = {} /\ dropped = {}
  /\ context = [w \in Windows |-> [task |-> None, target |-> NoTarget, available |-> FALSE]]
  /\ reading = [w \in Windows |-> None] /\ timer = {}
  /\ call = [c \in Calls |-> Idle]
  /\ meant = [m \in Messages |-> None]
  /\ reported = {} /\ strayed = {} /\ misled = {} /\ acts = 0

----------------------------------------------------------------------------
(* Terminals *)

\* Rows outlive their agents by the age threshold of the registry, and a row is
\* all that a terminal's target is taken from.
Target(t, a) == IF a # None /\ <<t, a>> \in listed THEN <<t, a>> ELSE NoTarget

\* A remote item's terminal is taken from the item itself.
ItemTarget(t) ==
  IF Target(t, item[t].agent) = NoTarget /\ t \in Remote /\ item[t].agent = "work"
     /\ item[t].status \in {"running", "failed"}
  THEN <<t, "work">> ELSE Target(t, item[t].agent)

\* A command to a remote terminal finds its launcher through the item.
Reaches(x) == x \in terminals /\ (x[1] \in Remote /\ x[2] = "work" => item[x[1]].agent = "work")

Pastes(x, m) == Reaches(x) /\ input' = [input EXCEPT ![x] = @ \cup {m}]

\* Whatever stands in the input line is entered as one message.
Enters(x) ==
  /\ Reaches(x)
  /\ heard' = heard \cup {<<m, x>> : m \in input[x]}
  /\ input' = [input EXCEPT ![x] = {}]

Ends(x) ==
  /\ terminals' = terminals \ {x}
  /\ dropped' = dropped \cup input[x]
  /\ input' = [input EXCEPT ![x] = {}]

----------------------------------------------------------------------------
(* The server *)

Moves(c, stage) == call' = [call EXCEPT ![c].stage = stage]
Event == acts < MaxEvents /\ acts' = acts + 1

\* The request has its terminal: a target request is answered with it.
Ready(c, x) ==
  call' = [call EXCEPT ![c].target = x, ![c].stage = IF c[2] = "ensure" THEN "ok" ELSE "paste"]

Resumable(status) == status \in {"closed:blocked", "paused"}

\* First the item's terminal; a send may bring its own.
LooksUp(c) ==
  LET t == call[c].task
  IN  /\ call[c].stage = "asked"
      /\ IF call[c].target # NoTarget THEN Ready(c, call[c].target)
         ELSE IF ItemTarget(t) # NoTarget THEN Ready(c, ItemTarget(t))
         ELSE call' = [call EXCEPT ![c].stage = "record", ![c].copy.agent = item[t].agent]
      /\ UNCHANGED <<world, windows, acts>>

\* Then the record, and the terminal of its agent.  Without either the record must
\* be paused or blocked; a request for another item wakes its run's worker.
ReadsRecord(c) ==
  LET t == call[c].task
      agent == IF record[t].agent # None THEN record[t].agent ELSE call[c].copy.agent
  IN  /\ call[c].stage = "record"
      /\ IF record[t].status # None /\ Target(t, agent) # NoTarget THEN Ready(c, Target(t, agent))
         ELSE call' = [call EXCEPT ![c].stage = IF Resumable(record[t].status) THEN "start" ELSE "failed",
                                   ![c].copy = record[t]]
      /\ UNCHANGED <<world, windows, acts>>

\* The chat agent of a task always has the same id, which must be free.
StartsAgent(c) ==
  LET x == <<call[c].task, "chat">>
  IN  /\ call[c].stage = "start"
      /\ \/ /\ x \notin listed \cup terminals
            /\ listed' = listed \cup {x} /\ terminals' = terminals \cup {x}
            /\ Moves(c, "packet") /\ UNCHANGED acts
         \/ /\ x \in listed \cup terminals \/ acts < MaxEvents
            /\ acts' = IF x \in listed \cup terminals THEN acts ELSE acts + 1
            /\ Moves(c, "failed") /\ UNCHANGED <<listed, terminals>>
      /\ UNCHANGED <<item, record, input, heard, dropped, windows>>

\* It is told about its task once its terminal is there; or it is terminated.
Instructs(c) ==
  LET x == <<call[c].task, "chat">>
  IN  /\ \/ /\ call[c].stage = "packet" /\ Pastes(x, Packet) /\ Moves(c, "enter-packet")
            /\ UNCHANGED <<terminals, heard, dropped, acts>>
         \/ /\ call[c].stage = "enter-packet" /\ Enters(x) /\ Moves(c, "store-record")
            /\ UNCHANGED <<terminals, dropped, acts>>
         \/ /\ call[c].stage \in {"packet", "enter-packet"}
            /\ IF Reaches(x) THEN Event ELSE UNCHANGED acts
            /\ Ends(x) /\ Moves(c, "failed") /\ UNCHANGED heard
      /\ UNCHANGED <<item, record, listed, windows>>

\* The record as it was read gets the agent, then the item.
StoresAgent(c) ==
  LET t == call[c].task
  IN  \/ /\ call[c].stage = "store-record"
         /\ record' = [record EXCEPT ![t] = [call[c].copy EXCEPT !.agent = "chat"]]
         /\ Moves(c, "store-item")
         /\ UNCHANGED <<item, listed, terminals, input, heard, dropped, windows, acts>>
      \/ /\ call[c].stage = "store-item"
         /\ item' = IF item[t].status = None THEN item ELSE [item EXCEPT ![t].agent = "chat"]
         /\ Ready(c, <<t, "chat">>)
         /\ UNCHANGED <<record, listed, terminals, input, heard, dropped, windows, acts>>

\* The text is pasted and, after a pause, entered.
Sends(c) ==
  LET x == call[c].target
  IN  /\ \/ /\ call[c].stage = "paste" /\ Pastes(x, call[c].text) /\ Moves(c, "enter")
            /\ UNCHANGED <<heard, acts>>
         \/ /\ call[c].stage = "enter" /\ Enters(x) /\ Moves(c, "ok")
            /\ UNCHANGED acts
         \/ /\ call[c].stage \in {"paste", "enter"}
            /\ IF Reaches(x) THEN Event ELSE UNCHANGED acts
            /\ Moves(c, "failed") /\ UNCHANGED <<input, heard>>
      /\ UNCHANGED <<item, record, listed, terminals, dropped, windows>>

Serve(c) ==
  \/ LooksUp(c)
  \/ ReadsRecord(c)
  \/ StartsAgent(c)
  \/ Instructs(c)
  \/ StoresAgent(c)
  \/ Sends(c)

\* A transcript comes from the Codex session, the task's execution log or, as a
\* notice, from the queue item; a live queue task's session is not read.
Sources(t) ==
  LET live == record[t].status \in {"open", "paused"}
  IN  (IF record[t].status # None THEN {"log"} ELSE {})
      \cup (IF record[t].status # None /\ (live => t \in Remote) THEN {"session"} ELSE {})
      \cup (IF item[t].status # None THEN {"notice"} ELSE {})

ChatAvailable(t, source) ==
  \/ source # "notice" /\ Resumable(record[t].status)
  \/ source # "log" /\ ItemTarget(t) # NoTarget

----------------------------------------------------------------------------
(* A window *)

Terminals(t) == {NoTarget} \cup {x \in listed : x[1] = t}

\* The terminal is the one the window's last snapshot shows for the task.
Shows(w, t, x) ==
  /\ context' = [context EXCEPT ![w] = [task |-> t, target |-> x, available |-> x # NoTarget]]
  /\ reading' = [reading EXCEPT ![w] = t]

OpensTranscript(w) ==
  /\ \E t \in Tasks \ {context[w].task} : \E x \in Terminals(t) : Shows(w, t, x)
  /\ strayed' = strayed \ {w} /\ Event
  /\ UNCHANGED <<world, timer, meant, misled, reported, call>>

Reopens(w) ==
  /\ w \in timer /\ timer' = timer \ {w}
  /\ \/ context[w].target \in listed /\ Shows(w, context[w].task, context[w].target)
        /\ UNCHANGED strayed
     \/ \E x \in Terminals(context[w].task) : Shows(w, context[w].task, x)
        /\ strayed' = strayed \ {w}
  /\ UNCHANGED <<world, meant, misled, reported, call, acts>>

Asks(w, kind, t, x, m) ==
  call' = [call EXCEPT ![<<w, kind>>] =
             [Idle EXCEPT !.stage = "asked", !.task = t, !.target = x, !.text = m]]

\* The answer about one task may come when the window shows another: it decides
\* about the composer all the same.  A chat that could be had is started at once.
Loads(w) ==
  LET t == reading[w]
  IN  /\ t # None
      /\ reading' = [reading EXCEPT ![w] = None]
      /\ \/ \E source \in Sources(t) :
              LET available == ChatAvailable(t, source)
              IN  /\ context' = [context EXCEPT ![w].available = context[w].target # NoTarget \/ available]
                  /\ IF context[w].target = NoTarget /\ available /\ call[<<w, "ensure">>] = Idle
                     THEN Asks(w, "ensure", t, NoTarget, Packet) ELSE UNCHANGED call
         \/ UNCHANGED <<context, call>>
      /\ UNCHANGED <<world, timer, strayed, meant, misled, reported, acts>>

(* Mutant: the terminal is taken whatever the window shows by now. *)
EnsuredBlind(w) ==
  LET c == <<w, "ensure">>
  IN  /\ call[c].stage \in {"ok", "failed"}
      /\ call' = [call EXCEPT ![c] = Idle]
      /\ IF call[c].stage = "ok"
         THEN context' = [context EXCEPT ![w].target = call[c].target, ![w].available = TRUE]
         ELSE UNCHANGED context
      /\ UNCHANGED <<world, reading, timer, strayed, meant, misled, reported, acts>>

Ensured(w) ==
  LET c == <<w, "ensure">>
  IN  /\ call[c].stage \in {"ok", "failed"}
      /\ call' = [call EXCEPT ![c] = Idle]
      /\ IF call[c].stage = "ok" /\ context[w].task = call[c].task
         THEN context' = [context EXCEPT ![w].target = call[c].target, ![w].available = TRUE]
         ELSE UNCHANGED context
      /\ UNCHANGED <<world, reading, timer, strayed, meant, misled, reported, acts>>

Types(w) ==
  /\ context[w].available /\ call[<<w, "send">>] = Idle
  /\ \E m \in Messages :
       /\ meant[m] = None /\ \A n \in Messages : n < m => meant[n] # None
       /\ meant' = [meant EXCEPT ![m] = context[w].task]
       /\ misled' = IF w \in strayed THEN misled \cup {m} ELSE misled
       /\ Asks(w, "send", context[w].task, context[w].target, m)
  /\ UNCHANGED <<world, context, reading, timer, strayed, reported, acts>>

\* The answer's terminal becomes the window's, also when it shows another task.
Sent(w) ==
  LET c == <<w, "send">>
  IN  /\ call[c].stage \in {"ok", "failed"}
      /\ call' = [call EXCEPT ![c] = Idle]
      /\ IF call[c].stage = "ok"
         THEN /\ context' = [context EXCEPT ![w].target = call[c].target]
              /\ strayed' = IF context[w].task # call[c].task \/ call[c].text \in misled
                            THEN strayed \cup {w} ELSE strayed
              /\ timer' = timer \cup {w}
              /\ reported' = reported \cup {call[c].text}
         ELSE UNCHANGED <<context, strayed, timer, reported>>
      /\ UNCHANGED <<world, reading, meant, misled, acts>>

Window(w) ==
  \/ OpensTranscript(w)
  \/ Reopens(w)
  \/ Loads(w)
  \/ Ensured(w)
  \/ Types(w)
  \/ Sent(w)

----------------------------------------------------------------------------
(* Agents and the queue *)

\* The run's worker starts a waiting item, whose agent opens its task.
WorkStarts(t) ==
  /\ Event /\ item[t].status = "waiting" /\ <<t, "work">> \notin listed \cup terminals
  /\ item' = [item EXCEPT ![t] = [status |-> "running", agent |-> "work"]]
  /\ record' = [record EXCEPT ![t] = [status |-> "open", agent |-> "work"]]
  /\ terminals' = terminals \cup {<<t, "work">>}
  /\ listed' = IF t \in Remote THEN listed ELSE listed \cup {<<t, "work">>}
  /\ UNCHANGED <<input, heard, dropped, windows, call>>

\* An agent pauses, resumes or closes its task, or exits; its row goes later.
AgentActs(x) ==
  \/ /\ Event /\ x \in terminals /\ record[x[1]].status # None
     /\ \E s \in {"open", "paused", "closed:blocked"} : record' = [record EXCEPT ![x[1]].status = s]
     /\ UNCHANGED <<item, listed, terminals, input, heard, dropped, windows, call>>
  \/ /\ Event /\ x \in terminals /\ Ends(x)
     /\ UNCHANGED <<item, record, listed, heard, windows, call>>
  \/ /\ Event /\ x \in listed \ terminals /\ listed' = listed \ {x}
     /\ UNCHANGED <<item, record, terminals, input, heard, dropped, windows, call>>

\* The operator's own keys go to a terminal too: they enter or erase what stands there.
Keys(x) ==
  /\ Event /\ input[x] # {} /\ Reaches(x)
  /\ \/ Enters(x) /\ UNCHANGED dropped
     \/ input' = [input EXCEPT ![x] = {}] /\ dropped' = dropped \cup input[x] /\ UNCHANGED heard
  /\ UNCHANGED <<item, record, listed, terminals, windows, call>>

Next ==
  \/ \E c \in Calls : Serve(c)
  \/ \E w \in Windows : Window(w)
  \/ \E t \in Tasks : WorkStarts(t)
  \/ \E x \in Agents : AgentActs(x) \/ Keys(x)

Spec == Init /\ [][Next]_vars

----------------------------------------------------------------------------
Entries == [status : {None, "waiting", "running", "failed", "open", "paused", "closed:blocked"},
            agent : {None, "work", "chat"}]

\* What the proofs assume: tasks have names, messages are not the packet, and the initial
\* situations are of items, records and agents.
Parameters ==
  /\ None \notin Tasks /\ Messages \subseteq Nat \ {Packet} /\ MaxEvents \in Nat
  /\ \A o \in Openings : /\ {o.item, o.record} \subseteq [Tasks -> Entries]
                         /\ o.listed \subseteq Agents /\ o.living \subseteq Agents

TypeOK ==
  /\ item \in [Tasks -> Entries] /\ record \in [Tasks -> Entries]
  /\ listed \subseteq Agents /\ terminals \subseteq Agents
  /\ \A c \in Calls : call[c].target \in Agents \cup {NoTarget} /\ call[c].text \in Messages \cup {Packet}
  /\ heard \subseteq (Messages \cup {Packet}) \X Agents
  /\ acts <= MaxEvents

\* A message is heard by an agent of the task the window showed when it was typed,
\* unless an earlier answer had left the window with the terminal of the task it had
\* shown before, or that such a message had gone to; and a message answered as sent was
\* entered, unless it was erased, or the terminal ended, while it stood in the input line.
MessagesReachTheirTask ==
  /\ \A e \in heard : e[1] # Packet /\ e[2][1] # meant[e[1]] => e[1] \in misled
  /\ \A m \in reported : m \in dropped \/ \E e \in heard : e[1] = m
=============================================================================
