------------------------------ MODULE Desktop ------------------------------
(***************************************************************************)
(* The desktop install: `maestro run`, the supervisor of the backend and   *)
(* the web server (maestro_cs/supervisor.py), and the commands that find   *)
(* it through the files of the run folder: start, stop, restart and update *)
(* (maestro_cs/control.py, update.py).                                     *)
(*                                                                         *)
(* One command runs at a time; an autostart unit launches runs of its own. *)
(* A supervisor or a server can die at any step.  The two windows are the  *)
(* rare timings: "race", a launch or a command while another run has not   *)
(* recorded itself yet, and "orphan", a supervisor that dies while a       *)
(* server of its is not yet recorded or does not listen yet.               *)
(***************************************************************************)
EXTENDS Integers, Sequences, SequencesExt, FiniteSets

CONSTANTS
  LastRun,      \* bounds the runs
  LastServer,   \* bounds the servers that are ever spawned
  LastTime,     \* bounds the time
  MaxRestarts,  \* max_restarts
  Span,         \* restart_window
  Windows       \* the rare timings that may happen: "race", "orphan"

ASSUME DesktopConstants ==
  /\ {LastRun, LastServer, LastTime, MaxRestarts, Span} \subseteq Nat
  /\ Windows \subseteq {"race", "orphan"}

Runs == 1..LastRun
Servers == 1..LastServer
Names == {"backend", "web"}
Specs == <<"backend", "web">>
Nobody == 0

VARIABLES
  now,
  runs,      \* the supervisors
  servers,   \* the processes they spawned
  files,     \* the run folder
  command    \* the maestro command that runs

vars == <<now, runs, servers, files, command>>

-----------------------------------------------------------------------------
(* State *)

(* at: the next spec, in a start or in a pass of the watch.                *)
Run == [step : {"none", "look", "clear", "record", "signals", "spawn", "note", "await",
                "watch", "scan", "stop web", "stop backend", "cleanup", "gone"},
        at : 1..2, starting : BOOLEAN, stopping : BOOLEAN,
        child : [Names -> Servers \cup {Nobody}],
        exits : [Names -> Seq(0..LastTime)],
        restarts : [Names -> Seq(0..LastTime)]]
NewRun == [step |-> "none", at |-> 1, starting |-> TRUE, stopping |-> FALSE,
           child |-> [n \in Names |-> Nobody],
           exits |-> [n \in Names |-> <<>>], restarts |-> [n \in Names |-> <<>>]]
Server == [name : Names, run : Runs \cup {Nobody}, state : {"none", "starting", "up", "dead"}]
NoServer == [name |-> "backend", run |-> Nobody, state |-> "none"]
Folder == [supervisor : Runs \cup {Nobody}, ready : Runs \cup {Nobody}, stop : BOOLEAN,
           server : [Names -> Servers \cup {Nobody}]]
EmptyFolder == [supervisor |-> Nobody, ready |-> Nobody, stop |-> FALSE,
                server |-> [n \in Names |-> Nobody]]
Idle == [verb |-> "none", step |-> "idle", target |-> Nobody, again |-> FALSE, quiet |-> FALSE]

Init ==
  /\ now = 0
  /\ runs = [r \in Runs |-> NewRun]
  /\ servers = [s \in Servers |-> NoServer]
  /\ files = EmptyFolder
  /\ command = Idle

Alive(r) == r # Nobody /\ runs[r].step \notin {"none", "gone"}
Lives(s) == s # Nobody /\ servers[s].state \in {"starting", "up"}
Up(name) == \E s \in Servers : servers[s].name = name /\ servers[s].state = "up"
PortsFree == \A n \in Names : ~Up(n)
Supervised == Alive(files.supervisor)  \* running_supervisor

(* A run that the records do not show yet.                                 *)
Early(r) == runs[r].step \in {"look", "clear", "record"}
Calm == "race" \in Windows \/ \A r \in Runs : ~Early(r)

Killed(S) == [s \in Servers |-> IF s \in S /\ Lives(s) THEN [servers[s] EXCEPT !.state = "dead"]
                                ELSE servers[s]]
Recorded == {files.server[n] : n \in Names} \ {Nobody}
ChildrenOf(r) == {s \in Servers : servers[s].run = r}

-----------------------------------------------------------------------------
(* A run until it watches its servers *)

Goes(r, step) == runs' = [runs EXCEPT ![r].step = step]

(* The autostart unit, at login and after a failure.                       *)
Autostart ==
  \E r \in Runs :
    /\ runs[r].step = "none" /\ \A q \in 1..(r - 1) : runs[q].step # "none"
    /\ Calm
    /\ "race" \in Windows \/ command.step \in {"idle", "stopped", "uv", "ready"}
    /\ Goes(r, "look")
    /\ command' = [command EXCEPT !.quiet = FALSE]
    /\ UNCHANGED <<now, servers, files>>

\* mutant: a second run does not look for the first one's record
LooksAtPorts(r) == PortsFree
MayRun(r) == ~Supervised /\ PortsFree
Look(r) ==
  /\ runs[r].step = "look"
  /\ Goes(r, IF MayRun(r) THEN "clear" ELSE "gone")
  /\ UNCHANGED <<now, servers, files, command>>

Clear(r) ==
  /\ runs[r].step = "clear"
  /\ files' = [files EXCEPT !.stop = FALSE, !.ready = Nobody]
  /\ Goes(r, "record")
  /\ UNCHANGED <<now, servers, command>>

Record(r) ==
  /\ runs[r].step = "record"
  /\ files' = [files EXCEPT !.supervisor = r]
  /\ Goes(r, "signals")
  /\ UNCHANGED <<now, servers, command>>

InstallSignals(r) ==
  /\ runs[r].step = "signals"
  /\ Goes(r, "spawn")
  /\ UNCHANGED <<now, servers, files, command>>

Spec1(r) == Specs[runs[r].at]
ShouldStop(r) == runs[r].stopping \/ files.stop
Ends(r) == Goes(r, "stop web")

Spawn(r) ==
  /\ runs[r].step = "spawn"
  /\ \/ \E s \in Servers :
          /\ servers[s].state = "none" /\ \A t \in 1..(s - 1) : servers[t].state # "none"
          /\ servers' = [servers EXCEPT ![s] = [name |-> Spec1(r), run |-> r, state |-> "starting"]]
          /\ runs' = [runs EXCEPT ![r].step = "note", ![r].child[Spec1(r)] = s]
     \/ Ends(r) /\ UNCHANGED servers  \* it could not be run
  /\ UNCHANGED <<now, files, command>>

Note(r) ==
  /\ runs[r].step = "note"
  /\ files' = [files EXCEPT !.server[Spec1(r)] = runs[r].child[Spec1(r)]]
  /\ Goes(r, "await")
  /\ UNCHANGED <<now, servers, command>>

(* The next spec, or the watch once both servers are healthy.              *)
Healthy(r) ==
  IF runs[r].at = 2 THEN [runs[r] EXCEPT !.at = 1, !.step = "watch", !.starting = FALSE]
  ELSE [runs[r] EXCEPT !.at = 2, !.step = IF runs[r].starting THEN "spawn" ELSE "scan"]

Await(r) ==
  LET state == servers[runs[r].child[Spec1(r)]].state
  IN /\ runs[r].step = "await"
     /\ \/ /\ state = "up" /\ ~ShouldStop(r)
           /\ runs' = [runs EXCEPT ![r] = Healthy(r)]
           /\ files' = IF runs[r].starting /\ runs[r].at = 2 THEN [files EXCEPT !.ready = r] ELSE files
        \/ /\ ShouldStop(r) \/ state = "dead"
           /\ Ends(r) /\ UNCHANGED files
        \/ /\ state = "starting"  \* not healthy in time
           /\ Ends(r) /\ UNCHANGED files
     /\ UNCHANGED <<now, servers, command>>

-----------------------------------------------------------------------------
(* The watch *)

Watch(r) ==
  /\ runs[r].step = "watch"
  /\ IF ShouldStop(r) THEN Ends(r) ELSE Goes(r, "scan")
  /\ UNCHANGED <<now, servers, files, command>>

(* The times of a sequence that are within the window.                     *)
Within(times) ==
  LET kept[i \in 0..Len(times)] ==
        IF i = 0 THEN <<>>
        ELSE IF now - times[i] < Span THEN Append(kept[i - 1], times[i]) ELSE kept[i - 1]
  IN  kept[Len(times)]

\* mutant: one exit too many is let through
RecentBefore(r, name) == Within(runs[r].exits[name])
Recent(r, name) == Append(Within(runs[r].exits[name]), now)

Scan(r) ==
  LET name == Spec1(r)
      recent == Recent(r, name)
  IN /\ runs[r].step = "scan"
     /\ IF Lives(runs[r].child[name])
        THEN runs' = [runs EXCEPT ![r] = Healthy(r)]
        ELSE IF Len(recent) <= MaxRestarts
        THEN runs' = [runs EXCEPT ![r].step = "spawn", ![r].exits[name] = recent,
                                  ![r].restarts[name] = Append(@, now)]
        ELSE runs' = [runs EXCEPT ![r].step = "stop web", ![r].exits[name] = recent]
     /\ UNCHANGED <<now, servers, files, command>>

-----------------------------------------------------------------------------
(* The end of a run *)

Stopped(r, name) == {s \in {runs[r].child[name]} : s # Nobody}

StopWeb(r) ==
  /\ runs[r].step = "stop web"
  /\ servers' = Killed(Stopped(r, "web"))
  /\ Goes(r, "stop backend")
  /\ UNCHANGED <<now, files, command>>

StopBackend(r) ==
  /\ runs[r].step = "stop backend"
  /\ servers' = Killed(Stopped(r, "backend"))
  /\ Goes(r, "cleanup")
  /\ UNCHANGED <<now, files, command>>

(* It removes the files by name, whoever wrote them.                       *)
Cleanup(r) ==
  /\ runs[r].step = "cleanup"
  /\ files' = EmptyFolder
  /\ Goes(r, "gone")
  /\ UNCHANGED <<now, servers, command>>

(* Killed from outside: nothing is cleaned up and its servers go on.       *)
Dies(r) ==
  /\ Alive(r)
  /\ "orphan" \in Windows \/ \A s \in ChildrenOf(r) : Lives(s) => s \in Recorded /\ servers[s].state = "up"
  /\ Goes(r, "gone")
  /\ UNCHANGED <<now, servers, files, command>>

-----------------------------------------------------------------------------
(* The servers and the time *)

(* A port has one listener; a server that finds it taken exits.            *)
Listens ==
  \E s \in Servers :
    /\ servers[s].state = "starting"
    /\ servers' = [servers EXCEPT ![s].state = IF Up(servers[s].name) THEN "dead" ELSE "up"]
    /\ UNCHANGED <<now, runs, files, command>>

Exits ==
  \E s \in Servers :
    /\ Lives(s)
    /\ servers' = Killed({s})
    /\ UNCHANGED <<now, runs, files, command>>

Tick == now < LastTime /\ now' = now + 1 /\ UNCHANGED <<runs, servers, files, command>>

-----------------------------------------------------------------------------
(* The commands *)

At(step) == command.step = step
Then(step) == command' = [command EXCEPT !.step = step]
Done == command' = Idle

(* An update stops and starts Maestro again if a supervisor runs.          *)
Begin ==
  /\ At("idle") /\ Calm
  /\ \E verb \in {"start", "stop", "restart", "update"} :
       command' = [verb |-> verb, target |-> Nobody, quiet |-> TRUE,
                   again |-> verb = "update" /\ Supervised,
                   step |-> IF verb = "start" THEN "look"
                            ELSE IF verb = "update" /\ ~Supervised THEN "uv" ELSE "find"]
  /\ UNCHANGED <<now, runs, servers, files>>

(* The servers that the records still name, and then the records.          *)
\* mutant: the records go first
ReapedTooLate == files' = EmptyFolder /\ UNCHANGED servers
Reaped == servers' = Killed(Recorded) /\ files' = EmptyFolder

Find ==
  /\ At("find")
  /\ IF Supervised
     THEN /\ command' = [command EXCEPT !.step = "ask", !.target = files.supervisor]
          /\ UNCHANGED <<servers, files>>
     ELSE Reaped /\ Then("stopped")
  /\ UNCHANGED <<now, runs>>

(* The file, then SIGTERM, which kills a run that has no handler yet.      *)
Ask ==
  LET r == command.target
  IN /\ At("ask")
     /\ files' = [files EXCEPT !.stop = TRUE]
     /\ runs' = IF ~Alive(r) THEN runs
                ELSE IF runs[r].step = "signals" THEN [runs EXCEPT ![r].step = "gone"]
                ELSE [runs EXCEPT ![r].stopping = TRUE]
     /\ Then("wait")
     /\ UNCHANGED <<now, servers>>

Stops ==
  /\ At("wait") /\ ~Alive(command.target)
  /\ Then("sweep")
  /\ UNCHANGED <<now, runs, servers, files>>

(* After 30 s it is killed with all that it spawned.                       *)
KillTree ==
  /\ At("wait") /\ Alive(command.target)
  /\ servers' = Killed(ChildrenOf(command.target))
  /\ Goes(command.target, "gone")
  /\ Then("sweep")
  /\ UNCHANGED <<now, files>>

Sweep ==
  /\ At("sweep")
  /\ Reaped
  /\ Then("stopped")
  /\ UNCHANGED <<now, runs>>

AfterStop ==
  /\ At("stopped")
  /\ IF command.verb = "stop" THEN Done ELSE Then(IF command.verb = "update" THEN "uv" ELSE "look")
  /\ UNCHANGED <<now, runs, servers, files>>

(* uv replaces the program's files, or fails.                              *)
Upgrade ==
  /\ At("uv")
  /\ IF command.again THEN Then("look") ELSE Done
  /\ UNCHANGED <<now, runs, servers, files>>

StartLook ==
  /\ At("look") /\ Calm
  /\ IF Supervised THEN Done /\ UNCHANGED <<servers, files>>
     ELSE Reaped /\ Then("launch")
  /\ UNCHANGED <<now, runs>>

Launch ==
  /\ At("launch") /\ Calm
  /\ \/ /\ PortsFree
        /\ \E r \in Runs :
             /\ runs[r].step = "none" /\ \A q \in 1..(r - 1) : runs[q].step # "none"
             /\ Goes(r, "look")
             /\ command' = [command EXCEPT !.step = "ready", !.target = r, !.quiet = FALSE]
     \/ Done /\ UNCHANGED runs  \* a port is taken, or the run could not be spawned
  /\ UNCHANGED <<now, servers, files>>

(* It is ready, or it died, or 180 s have passed.                          *)
Waited == At("ready") /\ Done /\ UNCHANGED <<now, runs, servers, files>>

-----------------------------------------------------------------------------
(* Specification *)

RunStep(r) ==
  \/ Look(r) \/ Clear(r) \/ Record(r) \/ InstallSignals(r) \/ Spawn(r) \/ Note(r) \/ Await(r)
  \/ Watch(r) \/ Scan(r) \/ StopWeb(r) \/ StopBackend(r) \/ Cleanup(r)
CommandStep ==
  \/ Find \/ Ask \/ Stops \/ KillTree \/ Sweep \/ AfterStop \/ Upgrade
  \/ StartLook \/ Launch \/ Waited
Next ==
  \/ Begin \/ CommandStep \/ Autostart \/ Listens \/ Exits \/ Tick
  \/ \E r \in Runs : RunStep(r) \/ Dies(r)

Spec == Init /\ [][Next]_vars

-----------------------------------------------------------------------------
(* Properties *)

TypeOK ==
  /\ now \in 0..LastTime
  /\ \A r \in Runs : runs[r] \in Run
  /\ servers \in [Servers -> Server]
  /\ files \in Folder

(* "Maestro stopped.": when stop returns and nothing was launched since it *)
(* began, no supervisor and no server runs, whatever died on the way       *)
(* (control.py, stop and _reap_recorded).                                  *)
StoppedMeansStopped ==
  At("stopped") /\ command.quiet =>
    /\ \A r \in Runs : ~Alive(r)
    /\ \A s \in Servers : ~Lives(s)

(* A run that watches its servers is the one that the record names, and    *)
(* its servers are the recorded ones: stop, status and update find it.     *)
RunningIsRecorded ==
  \A r \in Runs : runs[r].step \in {"watch", "scan"} =>
    /\ files.supervisor = r
    /\ files.server = runs[r].child

(* A server is restarted at most MaxRestarts times in any span of time     *)
(* (supervisor.py, _may_restart).                                          *)
RestartsAreBounded ==
  \A r \in Runs, n \in Names :
    LET times == runs[r].restarts[n]
    IN \A i, j \in DOMAIN times : i <= j /\ times[j] - times[i] < Span => j - i < MaxRestarts

(* No server of this install runs while uv replaces its files, if nothing  *)
(* was launched meanwhile (update.py, _will_be_stopped).                   *)
NothingRunsDuringUpgrade ==
  At("uv") /\ command.quiet => \A s \in Servers : ~Lives(s)
=============================================================================
