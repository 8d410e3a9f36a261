------------------------------ MODULE Supervisor ------------------------------
(***************************************************************************)
(* The Mac app's BridgeSupervisor and the bridge processes it starts.       *)
(* start, stop and the resets are async functions: they give up the event   *)
(* loop at every await, so that buttons, exit notifications and the timers  *)
(* of earlier crashes run in between.  The app can die and come back while  *)
(* a bridge it started is still there.                                      *)
(*                                                                          *)
(* Grain: what an async function does from one await to the next is one     *)
(* step.  Abstracted: the two ports are one, looked up once; log lines, but *)
(* for those that make the reset buttons appear; the time a delay takes.    *)
(***************************************************************************)
EXTENDS Integers

CONSTANTS
  Calls,        \* async calls made by buttons, the tray and the launch
  MaxBridges,   \* processes at a time; one that is over and forgotten can be another later
  Buttons,      \* those that reset the pairing and the camera permission
  MaxRestarts,  \* automatic restarts until the user intervenes (5 in the code)
  MaxClicks,    \* bound on what the user does
  MaxCrashes,   \* bound on the times a bridge exits by itself
  MaxLaunches   \* bound on the times the app is launched

Bridges == 1..MaxBridges
None    == 0

ASSUME SupervisorAssumption ==
  /\ Calls \cap Bridges = {} /\ MaxBridges \in Nat
  /\ MaxRestarts \in Nat /\ MaxClicks \in Nat /\ MaxCrashes \in Nat /\ MaxLaunches \in Nat

Tasks   == Calls \cup Bridges      \* the exit handler of a bridge is a task of its own

VARIABLES
  app,           \* the app runs
  status,        \* _status
  proc,          \* _proc
  userStopped,   \* _userStopped
  autoRestarts,  \* _autoRestartCount
  offered,       \* the reset buttons that are shown
  task,          \* each async call: the await it is at, the bridges it is about,
                 \* and where it goes on when it has stopped the bridge
  bridge,        \* each process
  signal,        \* the signal on its way to it
  orphans,       \* processes whose app is gone
  overtaken,     \* history: stop was called while a start was under way
  refused,       \* history: a bridge could not be started
  lingered,      \* history: one start killed a process, and the next still met it
  clicks, crashes, launches    \* history, for the bounds

supervisorVars == <<app, status, proc, userStopped, autoRestarts, offered>>
processVars    == <<bridge, signal, orphans>>
history        == <<overtaken, refused, lingered, clicks, crashes, launches>>
vars           == <<supervisorVars, task, processVars, history>>

Idle == [at |-> "idle", about |-> {}, then |-> "idle"]

Ends(t)             == task' = [task EXCEPT ![t] = Idle]
Awaits(t, p, about) == task' = [task EXCEPT ![t] = [at |-> p, about |-> about, then |-> "idle"]]
At(t, p)            == app /\ task[t].at = p

Alive(p) == bridge[p] \in {"up", "serving"}
Own      == {p \in Bridges : bridge[p] \in {"up", "serving", "exited", "failed"}} \ orphans
Spawning == {"lsof", "kill", "spawn", "spawned"}

TaskStates ==
  [at : Spawning \cup {"idle", "pause", "quit", "backoff", "term", "killed"},
   about : SUBSET Bridges, then : {"idle", "pause", "quit"}]

(* The processes that are over, with all that was about them: what t can    *)
(* spawn next.                                                              *)
Free(t) == {p \in Bridges : /\ bridge[p] = "none" /\ (task[p] = Idle \/ p = t)
                            /\ \A u \in Tasks : p \notin task[u].about}

Init ==
  /\ app = TRUE /\ status = "stopped" /\ proc = None
  /\ userStopped = FALSE /\ autoRestarts = 0 /\ offered = {} /\ overtaken = FALSE
  /\ \E t \in Calls : task = [u \in Tasks |-> IF u = t THEN [Idle EXCEPT !.at = "pause"] ELSE Idle]
  /\ bridge = [p \in Bridges |-> "none"] /\ signal = [p \in Bridges |-> "none"]
  /\ orphans = {} /\ refused = FALSE /\ lingered = FALSE
  /\ clicks = 0 /\ crashes = 0 /\ launches = 1

-----------------------------------------------------------------------------
(* start(): called by a button, after a reset, after a crash or at launch.  *)

(* A fault: only a bridge that runs keeps start from starting another.      *)
EvenIfStarting == status # "running"

MayStart == status \notin {"running", "starting"}

(* Up to the first await.                                                   *)
start(t) ==
  IF MayStart
  THEN /\ status' = "starting" /\ userStopped' = FALSE
       /\ Awaits(t, "lsof", {})
  ELSE Ends(t) /\ UNCHANGED <<status, userStopped>>

(* Who listens on the ports: one that has come so far only on the preview's *)
(* may be found, too.                                                       *)
Lsof(t) ==
  /\ At(t, "lsof")
  /\ \E found \in SUBSET {p \in Bridges : Alive(p)} :
       /\ {p \in Bridges : bridge[p] = "serving"} \subseteq found
       /\ Awaits(t, "kill", found)
  /\ UNCHANGED <<supervisorVars, processVars, history>>

(* A fault: the holders are looked up and left alone.                       *)
SparesHolders(t) ==
  /\ At(t, "kill")
  /\ Awaits(t, "spawn", {})
  /\ UNCHANGED <<supervisorVars, processVars, history>>

KillHolders(t) ==
  /\ At(t, "kill")
  /\ signal' = [p \in Bridges |-> IF p \in task[t].about /\ Alive(p) THEN "kill" ELSE signal[p]]
  /\ lingered' = (lingered \/ \E p \in Bridges : Alive(p) /\ signal[p] = "kill")
  /\ Awaits(t, "spawn", {})
  /\ UNCHANGED <<supervisorVars, bridge, orphans, overtaken, refused, clicks, crashes, launches>>

(* Process.start makes the process; the app hears of it later.              *)
Spawn(t) ==
  /\ At(t, "spawn")
  /\ \E p \in Free(t) :
       /\ \A q \in Free(t) : p <= q
       /\ bridge' = [bridge EXCEPT ![p] = "up"]
       /\ Awaits(t, "spawned", {p})
  /\ UNCHANGED <<supervisorVars, signal, orphans, history>>

(* There is no binary, or it cannot be started.                             *)
SpawnFails(t) ==
  /\ At(t, "spawn") /\ ~refused
  /\ status' = "error" /\ refused' = TRUE
  /\ Ends(t)
  /\ UNCHANGED <<app, proc, userStopped, autoRestarts, offered, processVars,
                 overtaken, lingered, clicks, crashes, launches>>

Spawned(t) ==
  /\ At(t, "spawned")
  /\ proc' \in task[t].about
  /\ status' = "running"
  /\ Ends(t)
  /\ UNCHANGED <<app, userStopped, autoRestarts, offered, processVars, history>>

-----------------------------------------------------------------------------
(* The exit handler of a bridge: proc.exitCode.then(...).                   *)

(* A fault: the attempts are not limited.                                   *)
NoLimit == ~userStopped

MayRestart == ~userStopped /\ autoRestarts < MaxRestarts

Exited(p) ==
  /\ app /\ p \in Own /\ ~Alive(p)
  /\ \A t \in Tasks : ~(task[t].at = "spawned" /\ p \in task[t].about)
  /\ bridge' = [bridge EXCEPT ![p] = "none"]
  /\ signal' = [signal EXCEPT ![p] = "none"]
  /\ proc' = None
  /\ status' = IF bridge[p] = "exited" THEN "stopped" ELSE "error"
  /\ IF MayRestart
     THEN autoRestarts' = autoRestarts + 1 /\ Awaits(p, "backoff", {p})
     ELSE UNCHANGED <<autoRestarts, task>>
  /\ UNCHANGED <<app, userStopped, offered, orphans, history>>

(* A fault: what the user wanted since is not asked for.                    *)
AnyhowWanted == TRUE

StillWanted == ~userStopped

BackoffOver(p) ==
  /\ At(p, "backoff")
  /\ IF StillWanted THEN start(p)
                    ELSE Ends(p) /\ UNCHANGED <<status, userStopped>>
  /\ UNCHANGED <<app, proc, autoRestarts, offered, processVars, history>>

-----------------------------------------------------------------------------
(* stop(), and what goes on afterwards: nothing, the pause of a reset, quit. *)

stop(t, then) ==
  /\ userStopped' = TRUE /\ autoRestarts' = 0
  /\ overtaken' = (overtaken \/ status = "starting")
  /\ IF proc = None
     THEN /\ status' = "stopped" /\ signal' = signal
          /\ task' = [task EXCEPT ![t] = [at |-> then, about |-> {}, then |-> "idle"]]
     ELSE /\ status' = status
          /\ signal' = IF Alive(proc) /\ signal[proc] = "none"
                       THEN [signal EXCEPT ![proc] = "term"] ELSE signal
          /\ task' = [task EXCEPT ![t] = [at |-> "term", about |-> {proc}, then |-> then]]

Resumes(t) == task' = [task EXCEPT ![t] = [at |-> task[t].then, about |-> {}, then |-> "idle"]]

(* The exit came within two seconds, and was handled.                       *)
StopAnswered(t) ==
  /\ At(t, "term") \/ At(t, "killed")
  /\ \A p \in task[t].about : bridge[p] = "none"
  /\ Resumes(t)
  /\ UNCHANGED <<supervisorVars, processVars, history>>

(* It did not come: SIGKILL, and two seconds more.                          *)
TermTimeout(t) ==
  /\ At(t, "term")
  /\ \A p \in task[t].about : bridge[p] # "none"
  /\ signal' = [p \in Bridges |-> IF p \in task[t].about /\ Alive(p) THEN "kill" ELSE signal[p]]
  /\ task' = [task EXCEPT ![t].at = "killed"]
  /\ UNCHANGED <<supervisorVars, bridge, orphans, history>>

KillTimeout(t) ==
  /\ At(t, "killed")
  /\ \A p \in task[t].about : bridge[p] # "none"
  /\ Resumes(t)
  /\ UNCHANGED <<supervisorVars, processVars, history>>

(* The pause of a reset, or of the launch, is over.                         *)
PauseOver(t) ==
  /\ At(t, "pause")
  /\ start(t)
  /\ UNCHANGED <<app, proc, autoRestarts, offered, processVars, history>>

-----------------------------------------------------------------------------
(* The user.                                                                *)
Clicks(t) ==
  /\ At(t, "idle") /\ clicks < MaxClicks
  /\ clicks' = clicks + 1
  /\ UNCHANGED <<app, proc, bridge, orphans, refused, lingered, crashes, launches>>

ClickStart(t) ==
  /\ Clicks(t) /\ status # "running"
  /\ start(t)
  /\ UNCHANGED <<autoRestarts, offered, signal, overtaken>>

ClickStop(t) ==
  /\ Clicks(t) /\ status = "running"
  /\ stop(t, "idle")
  /\ offered' = offered

(* resetPairing and resetCameraPermissionAndRestart, each by its button.     *)
reset(t, b) ==
  /\ Clicks(t) /\ b \in offered
  /\ offered' = offered \ {b}
  /\ stop(t, "pause")

Quit(t) ==
  /\ Clicks(t)
  /\ stop(t, "quit")
  /\ offered' = offered

(* A bridge logs its PIN, and that it may not use the camera.               *)
_onLogLine(p) ==
  /\ app /\ p \in Own /\ Alive(p)
  /\ \A t \in Tasks : ~(task[t].at = "spawned" /\ p \in task[t].about)
  /\ \E b \in Buttons \ offered : offered' = offered \cup {b}
  /\ UNCHANGED <<app, status, proc, userStopped, autoRestarts, task, processVars, history>>

-----------------------------------------------------------------------------
(* The app ends: the tray's exit(0), or a crash or a force quit.            *)
Gone ==
  /\ app' = FALSE
  /\ status' = "stopped" /\ proc' = None /\ userStopped' = FALSE
  /\ autoRestarts' = 0 /\ offered' = {} /\ overtaken' = FALSE
  /\ orphans' = orphans \cup {p \in Own : Alive(p)}
  /\ bridge' = [p \in Bridges |-> IF p \in Own /\ ~Alive(p) THEN "none" ELSE bridge[p]]
  /\ signal' = [p \in Bridges |-> IF p \in Own /\ ~Alive(p) THEN "none" ELSE signal[p]]
  /\ task' = [t \in Tasks |-> Idle]

Exits(t) ==
  /\ At(t, "quit") /\ Gone
  /\ UNCHANGED <<refused, lingered, clicks, crashes, launches>>

AppDies ==
  /\ app /\ Gone
  /\ UNCHANGED <<refused, lingered, clicks, crashes, launches>>

Launch(t) ==
  /\ ~app /\ launches < MaxLaunches
  /\ launches' = launches + 1
  /\ app' = TRUE
  /\ Awaits(t, "pause", {})
  /\ UNCHANGED <<status, proc, userStopped, autoRestarts, offered, processVars,
                 overtaken, refused, lingered, clicks, crashes>>

-----------------------------------------------------------------------------
(* A bridge process.                                                        *)

(* It is over.  An orphan's exit code is nobody's concern.                  *)
Dies(p, codes) ==
  /\ IF p \in orphans
     THEN bridge' = [bridge EXCEPT ![p] = "none"] /\ signal' = [signal EXCEPT ![p] = "none"]
     ELSE (\E c \in codes : bridge' = [bridge EXCEPT ![p] = c]) /\ signal' = signal
  /\ orphans' = orphans \ {p}
  /\ UNCHANGED <<supervisorVars, task, overtaken, refused, lingered, clicks, launches>>

(* It listens, or cannot and exits with 1.                                  *)
Serve(p) ==
  /\ bridge[p] = "up"
  /\ IF \A q \in Bridges : bridge[q] # "serving"
     THEN /\ bridge' = [bridge EXCEPT ![p] = "serving"]
          /\ UNCHANGED <<supervisorVars, task, signal, orphans, history>>
     ELSE Dies(p, {"failed"}) /\ crashes' = crashes

(* SIGTERM ends it with 0, or before its handler is set as a failure.       *)
Signalled(p) ==
  /\ Alive(p) /\ signal[p] # "none"
  /\ Dies(p, IF signal[p] = "kill" THEN {"failed"} ELSE {"exited", "failed"})
  /\ crashes' = crashes

(* A fault: stdin is not watched.                                           *)
NeverNotices(p) == FALSE

(* The watcher of stdin sees the end of the file.                           *)
SeesEof(p) == Alive(p) /\ p \in orphans

ParentGone(p) ==
  /\ SeesEof(p)
  /\ Dies(p, {"exited"})
  /\ crashes' = crashes

Crash(p) ==
  /\ Alive(p) /\ crashes < MaxCrashes
  /\ Dies(p, {"exited", "failed"})
  /\ crashes' = crashes + 1

-----------------------------------------------------------------------------
StartStep(t) == Lsof(t) \/ KillHolders(t) \/ Spawn(t) \/ SpawnFails(t) \/ Spawned(t)

CallStep(t) ==
  \/ StopAnswered(t) \/ TermTimeout(t) \/ KillTimeout(t) \/ PauseOver(t) \/ Exits(t)

ProcessStep(p) == Serve(p) \/ Signalled(p) \/ ParentGone(p)

HandlerStep(p) == Exited(p) \/ BackoffOver(p)

User(t) ==
  \/ ClickStart(t) \/ ClickStop(t) \/ Quit(t)
  \/ \E b \in Buttons : reset(t, b)

Next ==
  \/ \E t \in Tasks : StartStep(t)
  \/ \E p \in Bridges : ProcessStep(p) \/ HandlerStep(p) \/ _onLogLine(p) \/ Crash(p)
  \/ \E t \in Calls : CallStep(t) \/ User(t) \/ Launch(t)
  \/ AppDies

Spec == Init /\ [][Next]_vars

(* The event loop goes on, timers expire, and a process that is alive runs. *)
Fairness ==
  /\ \A t \in Tasks : WF_vars(StartStep(t))
  /\ \A t \in Calls : WF_vars(CallStep(t))
  /\ \A p \in Bridges : WF_vars(ProcessStep(p)) /\ WF_vars(HandlerStep(p))

FairSpec == Spec /\ Fairness

-----------------------------------------------------------------------------
(* Values of the variables.                                                 *)
SupervisorTypeOK ==
  /\ status \in {"stopped", "starting", "running", "error"}
  /\ proc \in Bridges \cup {None} /\ autoRestarts \in 0..MaxRestarts
  /\ offered \subseteq Buttons /\ orphans \subseteq Bridges
  /\ bridge \in [Bridges -> {"none", "up", "serving", "exited", "failed"}]
  /\ signal \in [Bridges -> {"none", "term", "kill"}]
  /\ task \in [Tasks -> TaskStates]

(* What the app shows is true: in "stopped" and "error" there is no bridge  *)
(* of this app, and a bridge that lives is the one stop() would end, or is  *)
(* about to become it - unless stop() met a start under way (StatusShown).  *)
NoneLost ==
  app /\ ~overtaken =>
    /\ status \in {"stopped", "error"} => Own = {}
    /\ \A p \in Own : p = proc \/ \E t \in Tasks : task[t].at = "spawned" /\ p \in task[t].about
    /\ \A p, q \in Own : p = q

(* Once the user has stopped the bridge no timer of an earlier crash and no *)
(* exit handler starts one again: nothing is spawned, and only a call the   *)
(* user made begins a start.                                                *)
NothingSpawned == \A p \in Bridges : bridge'[p] = "up" => bridge[p] = "up"

StoppedStaysStopped ==
  [][app /\ app' /\ userStopped /\ ~overtaken =>
       /\ NothingSpawned
       /\ status' = "starting" => \E t \in Calls : task'[t] # task[t]]_vars

Serving == \E p \in Bridges : bridge[p] = "serving" /\ p = proc

(* A bridge that exits by itself is replaced by one that serves, whatever   *)
(* is left over of older ones, before the attempts are used up: a crash     *)
(* costs one, a bridge of an earlier app two - one that it takes the port   *)
(* from before lsof sees it, one that finds it killed but not gone.         *)
(* MaxRestarts is the code's 5, MaxCrashes leaves attempts for the orphan.  *)
(* Excepted are a stop, the end of the app, a bridge that cannot be started *)
(* and a process that a kill does not end before the next start.            *)
CrashIsRepaired ==
  \A p \in Bridges : task[p].at = "backoff" ~>
    \/ Serving
    \/ ~app \/ userStopped \/ overtaken \/ refused \/ lingered

(* Whatever dies when, in the end no process of an app that is gone holds   *)
(* the camera, and what the app shows is what there is.                     *)
SettlesDown ==
  <>[](orphans = {} /\ (app /\ ~overtaken => (status = "running" <=> Serving)))

(* tray_controller.dart shows cameraTemplateError "(bridge stopped or in    *)
(* error state)": when nothing is under way, then there is no bridge, if    *)
(* none was refused.                                                        *)
StatusShown ==
  (app /\ ~refused /\ \A t \in Tasks : task[t] = Idle) =>
    (status \in {"stopped", "error"} => \A p \in Own : ~Alive(p))

(* "Auto-restart unless user explicitly stopped via stop().  _userStopped   *)
(* flag is set by stop(); cleared by start()": a bridge that runs and that  *)
(* nobody is stopping would be restarted.                                   *)
RunsSupervised ==
  (app /\ (\A t \in Tasks : task[t] = Idle) /\ Serving /\ signal[proc] = "none") => ~userStopped
=============================================================================
