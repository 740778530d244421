----------------------------- MODULE QueueClient -----------------------------
(* qcold queue (queue.rs): a command loads its package of prompts, finds the *)
(* run it is meant for, sees to it that the dashboard's daemon is there, and *)
(* posts its request; and the daemon's start and stop by processes that know *)
(* of each other only through the pid file (webapp.rs). Everything here runs *)
(* beside everything else; the queue itself is QueueBoard's.                 *)
EXTENDS Naturals, Sequences, FiniteSets, SequencesExt

CONSTANTS Commands,    \* processes: queue commands, and qcold telegram serve --daemon
          Packages,    \* what may be sent (see Loaded)
          Runs,        \* the runs one of which is current
          MaxDaemons,  \* bound: daemons started
          MaxFaults    \* bound: daemons and commands that die, requests that time out

VARIABLES command,    \* process -> [at, run, items, pid, posts]
          pidfile,    \* the pid in it, NoFile when there is none, Empty when nothing is in it yet
          daemons,    \* pid -> "none", "booting", "listening", "stopping" or "dead"
          current,    \* the run of the active tab
          received,   \* the requests served
          doubled,    \* two starts or stops ran at once, or one was cut short
          mishaps

vars == <<command, pidfile, daemons, current, received, doubled, mishaps>>

Pids == 1 .. MaxDaemons
NoFile == 0
Empty == MaxDaemons + 1      \* an empty pid file
Nobody == [at |-> "idle", run |-> "none", items |-> <<>>, pid |-> 0, posts |-> FALSE]

---------------------------------------------------------------------------
(* Packages: a manifest's layers, default selection and items, or files that *)
(* are layers, prompts or neither, by their directory. What a blank text     *)
(* comes to, is nothing.                                                     *)

(* The last of several layers with one name counts.                          *)
LayerText(layers, name) == layers[CHOOSE n \in DOMAIN layers :
    /\ layers[n].name = name
    /\ \A m \in DOMAIN layers : layers[m].name = name => m <= n].text

ApplyLayers(prompt, layers, selected) ==
    LET firsts == {n \in DOMAIN selected : \A m \in 1 .. n - 1 : selected[m] # selected[n]}
        order == SetToSortSeq(firsts, <)
        names == [n \in DOMAIN order |-> selected[order[n]]]
        known == SelectSeq(names, LAMBDA name : \E l \in ToSet(layers) : l.name = name)
    IN  Append([n \in DOMAIN known |-> LayerText(layers, known[n])], prompt)

LayerNames(layers) == [n \in DOMAIN layers |-> layers[n].name]

(* An item's own selection, or the manifest's, or all of its layers.         *)
Selected(p, item) == IF item.own THEN item.layers
                     ELSE IF p.chosen THEN p.defaults ELSE LayerNames(p.layers)

FromManifest(p) ==
    [n \in DOMAIN p.items |->
        [slug |-> p.items[n].slug,
         parts |-> ApplyLayers(p.items[n].text, p.layers, Selected(p, p.items[n]))]]

(* Files outside layers/, prompts/ and tasks/ are prompts only when there    *)
(* are no others.                                                            *)
FromFiles(files) ==
    LET Role(r) == SelectSeq(files, LAMBDA f : f.role = r /\ f.text # "")
        layers == [n \in DOMAIN Role("layer") |->
                      [name |-> Role("layer")[n].stem, text |-> Role("layer")[n].text]]
        source == IF Role("prompt") = <<>> THEN Role("fallback") ELSE Role("prompt")
    IN  [n \in DOMAIN source |->
            [slug |-> source[n].stem, parts |-> ApplyLayers(source[n].text, layers, LayerNames(layers))]]

(* load_prompt_package: nothing to send is an error.                         *)
Loaded(p) == IF p.kind = "files" THEN FromFiles(p.files) ELSE FromManifest(p)

---------------------------------------------------------------------------
(* Commands.                                                                 *)

Goes(c, at) == command' = [command EXCEPT ![c].at = at]
Ends(c) == command' = [command EXCEPT ![c] = Nobody]

(* A queue command, with the run it names, its package names or is current.  *)
Load(c) ==
    /\ command[c].at = "idle"
    /\ \E p \in Packages :
          /\ Loaded(p) # <<>>
          /\ \E run \in IF p.run = "none" THEN {current} ELSE {p.run} :
                command' = [command EXCEPT ![c] = [at |-> "health", run |-> run, items |-> Loaded(p),
                                                   pid |-> 0, posts |-> TRUE]]
    /\ UNCHANGED <<pidfile, daemons, current, received, doubled, mishaps>>

Listening == \E d \in Pids : daemons[d] = "listening"

(* ensure_daemon asks once before it starts a daemon, and again after it.    *)
Health(c) ==
    /\ command[c].at = "health"
    /\ Goes(c, IF Listening THEN "post" ELSE "start")
    /\ UNCHANGED <<pidfile, daemons, current, received, doubled, mishaps>>

Waits(c) ==
    /\ command[c].at = "reach"
    /\ IF Listening THEN Goes(c, "post") ELSE Ends(c)
    /\ UNCHANGED <<pidfile, daemons, current, received, doubled, mishaps>>

Faulty == mishaps < MaxFaults /\ mishaps' = mishaps + 1

(* The request is served once it arrives; its answer may come too late.      *)
Post(c) ==
    /\ command[c].at = "post"
    /\ \/ /\ Listening
          /\ received' = received \cup {[run |-> command[c].run, items |-> command[c].items]}
       \/ ~Listening /\ UNCHANGED received
    /\ Ends(c)
    /\ UNCHANGED <<pidfile, daemons, current, doubled, mishaps>>

SwitchTab(run) ==
    /\ current' = run /\ run # current
    /\ UNCHANGED <<command, pidfile, daemons, received, doubled, mishaps>>

---------------------------------------------------------------------------
(* The daemon's start. replace_existing_daemon comes first.                  *)

Busy(c) == command[c].at \in {"start", "term", "spawn", "write", "fill", "watch"}

Alive(d) == daemons[d] \in {"booting", "listening", "stopping"}
Removed == pidfile' = NoFile

(* Somebody starts or restarts the daemon, or stops it for good.             *)
Serve(c) ==
    /\ command[c].at = "idle"
    /\ Goes(c, "start")
    /\ UNCHANGED <<pidfile, daemons, current, received, doubled, mishaps>>

(* An empty pid file or a dead daemon's is removed; a live one is asked to   *)
(* stop.                                                                     *)
ReadsPid(c) ==
    /\ command[c].at = "start"
    /\ IF pidfile = NoFile THEN Goes(c, "spawn") /\ UNCHANGED <<pidfile, daemons>>
       ELSE IF pidfile = Empty \/ ~Alive(pidfile)
       THEN Goes(c, "spawn") /\ Removed /\ UNCHANGED daemons
       ELSE /\ command' = [command EXCEPT ![c].at = "term", ![c].pid = pidfile]
            /\ daemons' = [daemons EXCEPT ![pidfile] = "stopping"]
            /\ UNCHANGED pidfile
    /\ doubled' = (doubled \/ \E d \in Commands \ {c} : Busy(d))
    /\ UNCHANGED <<current, received, mishaps>>

(* Mutant: a daemon that does not stop is taken to have stopped.             *)
AwaitsStopAnyway(c) ==
    /\ command[c].at = "term"
    /\ Goes(c, "spawn") /\ Removed
    /\ UNCHANGED <<daemons, current, received, doubled, mishaps>>

(* What the pid file holds by then is not looked at; a daemon that does not  *)
(* stop in time keeps it, and the command fails.                             *)
AwaitsStop(c) ==
    /\ command[c].at = "term"
    /\ IF Alive(command[c].pid) THEN Ends(c) /\ UNCHANGED pidfile
       ELSE Removed /\ (Goes(c, "spawn") \/ (~command[c].posts /\ Ends(c)))
    /\ UNCHANGED <<daemons, current, received, doubled, mishaps>>

Spawn(c) ==
    /\ command[c].at = "spawn"
    /\ \E d \in Pids :
          /\ daemons[d] = "none" /\ \A e \in 1 .. d - 1 : daemons[e] # "none"
          /\ daemons' = [daemons EXCEPT ![d] = "booting"]
          /\ command' = [command EXCEPT ![c].at = "write", ![c].pid = d]
    /\ UNCHANGED <<pidfile, current, received, doubled, mishaps>>

(* The file is emptied, and then written.                                    *)
WritesPid(c) ==
    /\ \/ command[c].at = "write" /\ pidfile' = Empty /\ Goes(c, "fill")
       \/ command[c].at = "fill" /\ pidfile' = command[c].pid /\ Goes(c, "watch")
    /\ UNCHANGED <<daemons, current, received, doubled, mishaps>>

(* A child that exits while it is watched takes the pid file with it, whose  *)
(* ever that is; one that exits later is not noticed.                        *)
Watches(c) ==
    /\ command[c].at = "watch"
    /\ IF ~Alive(command[c].pid) THEN Removed /\ Ends(c)
       ELSE /\ UNCHANGED pidfile
            /\ IF command[c].posts THEN Goes(c, "reach") ELSE Ends(c)
    /\ UNCHANGED <<daemons, current, received, doubled, mishaps>>

(* A daemon binds its address, or finds it taken and exits.                  *)
Binds(d) ==
    /\ daemons[d] = "booting"
    /\ LET taken == \E e \in Pids \ {d} : daemons[e] = "listening" \/ daemons[e] = "stopping"
       IN  daemons' = [daemons EXCEPT ![d] = IF taken THEN "dead" ELSE "listening"]
    /\ UNCHANGED <<command, pidfile, current, received, doubled, mishaps>>

Exits(d) ==
    /\ Alive(d)
    /\ IF daemons[d] = "stopping" THEN UNCHANGED mishaps ELSE Faulty
    /\ daemons' = [daemons EXCEPT ![d] = "dead"]
    /\ UNCHANGED <<command, pidfile, current, received, doubled>>

CommandDies(c) ==
    /\ command[c].at # "idle" /\ Faulty
    /\ doubled' = (doubled \/ Busy(c))
    /\ Ends(c)
    /\ UNCHANGED <<pidfile, daemons, current, received>>

Init ==
    /\ command = [c \in Commands |-> Nobody]
    /\ pidfile = NoFile /\ daemons = [d \in Pids |-> "none"]
    /\ current \in Runs /\ received = {} /\ doubled = FALSE /\ mishaps = 0

Asks(c) == Load(c) \/ Health(c) \/ Waits(c) \/ Post(c)
Starts(c) == Serve(c) \/ ReadsPid(c) \/ AwaitsStop(c) \/ Spawn(c) \/ WritesPid(c) \/ Watches(c)

Next ==
    \/ \E c \in Commands : Asks(c) \/ Starts(c) \/ CommandDies(c)
    \/ \E d \in Pids : Binds(d) \/ Exits(d)
    \/ \E run \in Runs : SwitchTab(run)

Spec == Init /\ [][Next]_vars

---------------------------------------------------------------------------
\* What the proofs assume of the bounds.
Parameters == MaxDaemons \in Nat /\ MaxFaults \in Nat

TypeOK ==
    /\ \A c \in Commands : /\ command[c].at \in {"idle", "health", "post", "reach", "start", "term", "spawn",
                                                 "write", "fill", "watch"}
                           /\ command[c].pid \in 0 .. MaxDaemons
    /\ pidfile \in 0 .. MaxDaemons + 1
    /\ daemons \in [Pids -> {"none", "booting", "listening", "stopping", "dead"}]
    /\ current \in Runs /\ doubled \in BOOLEAN /\ mishaps \in 0 .. MaxFaults

(* A daemon that has the address can be found: when no start or stop is      *)
(* under way, the pid file names it, so that the next start replaces it. Two *)
(* starts at once may end with one that is in no pid file (start_daemon).    *)
ListeningDaemonIsRecorded ==
    doubled \/ \A d \in Pids :
        daemons[d] \in {"listening", "stopping"} => pidfile = d \/ \E c \in Commands : Busy(c)

(* What a queue gets is the package as its author wrote it: a prompt for     *)
(* each of its items, in order, under every layer selected for it, once      *)
(* (apply_layers, package_from_named_files). Of layers with one name only    *)
(* the last is left.                                                         *)
Once(s, x) == Cardinality({n \in DOMAIN s : s[n] = x}) = 1
Last1(layers, n) == \A m \in n + 1 .. Len(layers) : layers[m].name # layers[n].name
LayersOf(p) == IF p.kind = "manifest" THEN p.layers
               ELSE LET found == SelectSeq(p.files, LAMBDA f : f.role = "layer" /\ f.text # "")
                    IN  [n \in DOMAIN found |-> [name |-> found[n].stem, text |-> found[n].text]]
PromptsOf(p) == IF p.kind = "manifest" THEN p.items
                ELSE LET some == \E f \in ToSet(p.files) : f.role = "prompt" /\ f.text # ""
                         role == IF some THEN "prompt" ELSE "fallback"
                     IN  SelectSeq(p.files, LAMBDA f : f.text # "" /\ f.role = role)
Wants(p, prompt, name) == p.kind = "files" \/ name \in ToSet(Selected(p, prompt))
Whole(p, items) ==
    LET prompts == PromptsOf(p)
    IN  /\ Len(items) = Len(prompts)
        /\ \A n \in DOMAIN prompts :
              /\ Last(items[n].parts) = prompts[n].text
              /\ \A k \in DOMAIN LayersOf(p) :
                     Once(items[n].parts, LayersOf(p)[k].text)
                       <=> Last1(LayersOf(p), k) /\ Wants(p, prompts[n], LayersOf(p)[k].name)

PackagesArriveWhole ==
    \A r \in received : \E p \in Packages : p.run \in {"none", r.run} /\ Whole(p, r.items)
=============================================================================
