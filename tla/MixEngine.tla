------------------------------ MODULE MixEngine ------------------------------
(***************************************************************************)
(* The mix engine of DeviceManager: the authored cues, the plan solved from  *)
(* them (MixSolver) against the roster, and the thread that runs the plan.   *)
(* Clients edit, load, save, start and stop on threads of their own; the     *)
(* hotplug thread solves again when a camera comes or goes; the main thread  *)
(* tears down.                                                               *)
(*                                                                          *)
(* Grain: a section under mu_, mix_mu_ or the entry of one under mix_ctl_mu_  *)
(* is one step; mix_ctl_mu_ itself is held over steps, as in the code.       *)
(* Indices into the plan count from 1; 0 is the code's -1.                   *)
(*                                                                          *)
(* Abstracted: phase, elapsed and total seconds; the library's and the       *)
(* scratch's files; broadcasts.  A wait ends at any time.  What set_active   *)
(* does to the program is DeviceManager's; here a cue on air is now.         *)
(* Cameras move only for the engine.                                         *)
(***************************************************************************)
EXTENDS MixSolver, FiniteSets

CONSTANTS
  CamOrder,     \* all cameras, in serial order
  Clients,
  Edits,        \* what clients author: [cues, mode]
  MaxCommands,  \* bound on the commands of all clients
  MaxPlugs      \* bound on the cameras that come or go

Cams    == {CamOrder[k] : k \in 1..Len(CamOrder)}
Threads == Clients \cup {"hotplug", "main"}
Nobody  == "nobody"
NoCue   == [at |-> 0]
Junk    == [at |-> -1]

(* What clients author is a list and a mode; a pan has a cost, whatever the  *)
(* camera and the shots.                                                    *)
ASSUME EngineAssumption ==
  /\ Len(CamOrder) \in Nat /\ None \notin Cams
  /\ Clients \cap {"hotplug", "main", Nobody} = {}
  /\ \A e \in Edits :
       /\ e = [cues |-> e.cues, mode |-> e.mode] /\ e.mode \in {"once", "forward", "ping_pong"}
       /\ Len(e.cues) \in Nat
       /\ \A c \in Cams, i, j \in 1..Len(e.cues) :
            PanCost(c, e.cues[i].shot, e.cues[j].shot) \in Nat
  /\ MaxCommands \in Nat /\ MaxPlugs \in Nat

VARIABLES
  sessions,             \* the cameras that are attached
  started,              \* started_
  cues, mode, plan,     \* mix_cues_, mix_mode_, mix_plan_
  running, quit,        \* mix_running_, mix_quit_
  index, direction,     \* mix_cue_index_, mix_direction_
  ctl,                  \* who holds mix_ctl_mu_
  work,                 \* each thread: its call, its place in it, the roster it saw
  loop,                 \* where the mix thread is, "none" if there is none to join
  now,                  \* the cue the mix thread read last, with its meanwhile
  pose,                 \* the shot each camera was sent to last
  commands, plugs,      \* history, for the bounds
  dirty,                \* history: something but the run itself changed since a cue was read
  cancelled,            \* history: the run was ended from outside since it was launched
  quiet,                \* history: a stop has returned since the last launch
  unsolved              \* history: cues were taken over without solving them

authored == <<cues, mode>>
flags    == <<running, quit>>
cursor   == <<index, direction>>
thread   == <<loop, now, pose>>
hist     == <<commands, plugs, dirty, cancelled, quiet, unsolved>>
vars     == <<sessions, started, authored, plan, flags, cursor, ctl, work, thread, hist>>

Idle == [call |-> "none", at |-> "idle", seen |-> {}]

At(t, call, place) == work[t].call = call /\ work[t].at = place
Goes(t, place)     == work' = [work EXCEPT ![t].at = place]
Ends(t)            == work' = [work EXCEPT ![t] = Idle]
Begins(t, call, place) ==
  /\ work[t] = Idle
  /\ work' = [work EXCEPT ![t] = [call |-> call, at |-> place, seen |-> {}]]

Length == Len(plan.cues)

(* The serials in order, as the map sessions_ lists them.                   *)
Roster(attached) ==
  LET here == InOrder({k \in 1..Len(CamOrder) : CamOrder[k] \in attached}, Len(CamOrder))
  IN  [k \in 1..Len(here) |-> CamOrder[here[k]]]

(* The cues are loaded; some cameras are there already, and were solved for. *)
Init ==
  /\ sessions \in SUBSET Cams /\ started = TRUE
  /\ \E e \in Edits : cues = e.cues /\ mode = e.mode
  /\ plan = IF sessions = {} THEN NoPlan({}) ELSE solve(cues, Roster(sessions), mode = "forward")
  /\ running = FALSE /\ quit = FALSE /\ index = 0 /\ direction = 1
  /\ ctl = Nobody /\ work = [t \in Threads |-> Idle]
  /\ loop = "none" /\ now = NoCue /\ pose = [c \in Cams |-> Hold]
  /\ commands = 0 /\ plugs = 0
  /\ dirty = TRUE /\ cancelled = FALSE /\ quiet = FALSE /\ unsolved = (sessions = {})

-----------------------------------------------------------------------------
(* mix_replan, in two sections: the roster under mu_, then the plan from    *)
(* the cues as they are by then, under mix_mu_.                             *)

Snapshot(t) ==
  /\ work[t].at = "snapshot"
  /\ work' = [work EXCEPT ![t].at = "solve", ![t].seen = sessions]
  /\ UNCHANGED <<sessions, started, authored, plan, flags, cursor, ctl, thread, hist>>

(* Where the caller goes on.                                                *)
AfterSolve(call) ==
  CASE call \in {"set", "load"} -> "clamp"
    [] call = "start"           -> "check"
    [] call = "plug"            -> "idle"

Replan(t) ==
  /\ work[t].at = "solve"
  /\ plan' = solve(cues, Roster(work[t].seen), mode = "forward")
  /\ unsolved' = FALSE /\ dirty' = TRUE
  /\ IF work[t].call = "plug" THEN Ends(t) ELSE Goes(t, AfterSolve(work[t].call))
  /\ UNCHANGED <<sessions, started, authored, flags, cursor, ctl, thread,
                 commands, plugs, cancelled, quiet>>

(* A camera comes or goes; the hotplug thread solves before the next one.   *)
Plug(c) ==
  /\ started /\ plugs < MaxPlugs
  /\ plugs' = plugs + 1
  /\ sessions' = IF c \in sessions THEN sessions \ {c} ELSE sessions \cup {c}
  /\ Begins("hotplug", "plug", "snapshot")
  /\ dirty' = TRUE
  /\ UNCHANGED <<started, authored, plan, flags, cursor, ctl, thread,
                 commands, cancelled, quiet, unsolved>>

-----------------------------------------------------------------------------
(* Clients.                                                                 *)

Calls(t, call, place) ==
  /\ commands < MaxCommands
  /\ commands' = commands + 1
  /\ Begins(t, call, place)

(* A fault: an edit is not solved.                                          *)
EditIsNotSolved == "clamp"

AfterEdit == "snapshot"

(* mix_set and mix_load: the scratch is replaced, solved, and the cursor of *)
(* a run clamped.                                                           *)
Edit(t, call, e) ==
  /\ Calls(t, call, AfterEdit)
  /\ cues' = e.cues /\ mode' = e.mode
  /\ dirty' = TRUE
  /\ UNCHANGED <<sessions, started, plan, flags, cursor, ctl, thread,
                 plugs, cancelled, quiet, unsolved>>

mix_set(t, e)  == Edit(t, "set", e)
mix_load(t, e) == Edit(t, "load", e)

SetClamps(t) ==
  /\ At(t, "set", "clamp")
  /\ IF running /\ Length = 0
     THEN running' = FALSE /\ quit' = TRUE /\ cancelled' = (loop # "none")
     ELSE UNCHANGED <<flags, cancelled>>
  /\ index' = IF running /\ Length > 0 /\ index > Length THEN Length ELSE index
  /\ dirty' = TRUE
  /\ Ends(t)
  /\ UNCHANGED <<sessions, started, authored, plan, direction, ctl, thread,
                 commands, plugs, quiet, unsolved>>

LoadClamps(t) ==
  /\ At(t, "load", "clamp")
  /\ index' = IF running /\ index > Length THEN Length ELSE index
  /\ dirty' = TRUE
  /\ Ends(t)
  /\ UNCHANGED <<sessions, started, authored, plan, flags, direction, ctl, thread,
                 commands, plugs, cancelled, quiet, unsolved>>

(* The scratch is replaced and not solved.                                  *)
mix_save_as(t, e) ==
  /\ commands < MaxCommands /\ work[t] = Idle
  /\ commands' = commands + 1
  /\ cues' = e.cues /\ mode' = e.mode
  /\ dirty' = TRUE /\ unsolved' = TRUE
  /\ UNCHANGED <<sessions, started, plan, flags, cursor, ctl, work, thread,
                 plugs, cancelled, quiet>>

mix_start(t) ==
  /\ Calls(t, "start", "ctl")
  /\ UNCHANGED <<sessions, started, authored, plan, flags, cursor, ctl, thread,
                 plugs, dirty, cancelled, quiet, unsolved>>

(* A fault: teardown is not looked at.                                      *)
EvenAfterStop == TRUE

MayStart == started

StartDecides(t) ==
  /\ At(t, "start", "ctl") /\ ctl = Nobody
  /\ IF MayStart /\ ~running
     THEN ctl' = t /\ Goes(t, "snapshot")
     ELSE UNCHANGED ctl /\ Ends(t)
  /\ UNCHANGED <<sessions, started, authored, plan, flags, cursor, thread, hist>>

(* A fault: the flags are set before the finishing thread is joined.        *)
ArmedBeforeJoin(place) == place = "check"

ArmedAt(place) == place = "join"

Arms(place) ==
  /\ running' = IF ArmedAt(place) THEN TRUE ELSE running
  /\ quit' = IF ArmedAt(place) THEN FALSE ELSE quit

StartChecks(t) ==
  /\ At(t, "start", "check")
  /\ IF Length = 0
     THEN ctl' = Nobody /\ Ends(t) /\ UNCHANGED <<cursor, flags>>
     ELSE index' = 1 /\ direction' = 1 /\ Arms("check") /\ Goes(t, "join") /\ UNCHANGED ctl
  /\ dirty' = TRUE
  /\ UNCHANGED <<sessions, started, authored, plan, thread,
                 commands, plugs, cancelled, quiet, unsolved>>

Finished == loop = "none"

Launch(t) ==
  /\ At(t, "start", "join") /\ Finished
  /\ Arms("join")
  /\ loop' = "top" /\ now' = NoCue
  /\ ctl' = Nobody /\ Ends(t)
  /\ dirty' = TRUE /\ cancelled' = FALSE /\ quiet' = FALSE
  /\ UNCHANGED <<sessions, started, authored, plan, cursor, pose, commands, plugs, unsolved>>

mix_stop(t) ==
  /\ Calls(t, "stop", "ctl")
  /\ UNCHANGED <<sessions, started, authored, plan, flags, cursor, ctl, thread,
                 plugs, dirty, cancelled, quiet, unsolved>>

(* mix_stop and stop: the flags, then the join, under mix_ctl_mu_.          *)
StopSignals(t) ==
  /\ work[t].call \in {"stop", "down"} /\ work[t].at = "ctl" /\ ctl = Nobody
  /\ ctl' = t
  /\ running' = FALSE /\ quit' = TRUE /\ cancelled' = (loop # "none")
  /\ Goes(t, "join")
  /\ UNCHANGED <<sessions, started, authored, plan, cursor, thread,
                 commands, plugs, dirty, quiet, unsolved>>

StopJoins(t) ==
  /\ work[t].call \in {"stop", "down"} /\ work[t].at = "join" /\ Finished
  /\ ctl' = Nobody /\ quiet' = TRUE
  /\ Goes(t, IF work[t].call = "stop" THEN "reset" ELSE "clear")
  /\ UNCHANGED <<sessions, started, authored, plan, flags, cursor, thread,
                 commands, plugs, dirty, cancelled, unsolved>>

(* With mix_ctl_mu_ released.                                               *)
StopResets(t) ==
  /\ At(t, "stop", "reset")
  /\ index' = 0 /\ dirty' = TRUE
  /\ Ends(t)
  /\ UNCHANGED <<sessions, started, authored, plan, flags, direction, ctl, thread,
                 commands, plugs, cancelled, quiet, unsolved>>

(* DeviceManager::stop.                                                     *)
stop ==
  /\ started /\ started' = FALSE
  /\ Begins("main", "down", "ctl")
  /\ UNCHANGED <<sessions, authored, plan, flags, cursor, ctl, thread, hist>>

SessionsDie ==
  /\ At("main", "down", "clear")
  /\ sessions' = {} /\ dirty' = TRUE
  /\ Goes("main", "down")
  /\ UNCHANGED <<started, authored, plan, flags, cursor, ctl, thread,
                 commands, plugs, cancelled, quiet, unsolved>>

-----------------------------------------------------------------------------
(* The mix thread.                                                          *)

(* A fault: the flags are not looked at.                                    *)
GoesOnAlways == TRUE

GoesOn == running /\ ~quit

LoopTop ==
  /\ loop = "top"
  /\ loop' = IF GoesOn THEN "read" ELSE "exit"
  /\ UNCHANGED <<sessions, started, authored, plan, flags, cursor, ctl, work, now, pose, hist>>

(* A fault: the cursor is taken as it is.                                   *)
CursorAsItIs == index

Cursor == IF index \in 1..Length THEN index ELSE 1

(* A fault: the meanwhile shown is the one walked.                          *)
AsShown(i) == plan.cues[i].meanwhile

Walks(i) == meanwhile_at(plan, i, direction, mode)

LoopRead ==
  /\ loop = "read"
  /\ IF Length = 0
     THEN running' = FALSE /\ loop' = "exit" /\ UNCHANGED <<index, now, dirty>>
     ELSE /\ index' = Cursor
          /\ now' = IF Cursor \in DOMAIN plan.cues
                    THEN [at |-> Cursor, camera |-> plan.cues[Cursor].camera,
                          shot |-> plan.cues[Cursor].shot, walks |-> Walks(Cursor)]
                    ELSE Junk
          /\ loop' = "air" /\ dirty' = FALSE
          /\ UNCHANGED running
  /\ UNCHANGED <<sessions, started, authored, plan, quit, direction, ctl, work, pose,
                 commands, plugs, cancelled, quiet, unsolved>>

(* The cue goes on air: its camera and the idle ones of the meanwhile are   *)
(* sent to their shots, those that are attached.                            *)
LoopAirs ==
  /\ loop = "air"
  /\ pose' = [c \in Cams |->
       IF c \notin sessions THEN pose[c]
       ELSE IF c = now.camera THEN (IF now.shot = Hold THEN pose[c] ELSE now.shot)
       ELSE IF \E w \in now.walks : w.camera = c /\ w.shot # Hold
       THEN (CHOOSE w \in now.walks : w.camera = c).shot
       ELSE pose[c]]
  /\ loop' = "wait"
  /\ UNCHANGED <<sessions, started, authored, plan, flags, cursor, ctl, work, now, hist>>

(* The pan has landed and the hold is over, or the run is.                  *)
LoopWaits ==
  /\ loop = "wait"
  /\ loop' = IF GoesOn THEN "advance" ELSE "exit"
  /\ UNCHANGED <<sessions, started, authored, plan, flags, cursor, ctl, work, now, pose, hist>>

LoopAdvances ==
  /\ loop = "advance"
  /\ IF Length = 0
     THEN running' = FALSE /\ loop' = "exit" /\ UNCHANGED cursor
     ELSE /\ loop' = "top"
          /\ IF mode = "once"
             THEN index' = index + 1 /\ running' = (running /\ index < Length) /\ UNCHANGED direction
             ELSE /\ UNCHANGED running
                  /\ IF mode = "ping_pong" /\ Length = 1
                     THEN index' = 1 /\ UNCHANGED direction
                     ELSE LET next == Turned(index, direction, Length, mode)
                          IN  index' = next[1] /\ direction' = next[2]
  /\ UNCHANGED <<sessions, started, authored, plan, quit, ctl, work, now, pose, hist>>

LoopExits ==
  /\ loop = "exit"
  /\ running' = FALSE /\ index' = 0 /\ dirty' = TRUE
  /\ loop' = "none" /\ now' = NoCue /\ cancelled' = FALSE
  /\ UNCHANGED <<sessions, started, authored, plan, quit, direction, ctl, work, pose,
                 commands, plugs, quiet, unsolved>>

MixLoop == LoopTop \/ LoopRead \/ LoopAirs \/ LoopWaits \/ LoopAdvances \/ LoopExits

-----------------------------------------------------------------------------
Client(t) ==
  \/ \E e \in Edits : mix_set(t, e) \/ mix_load(t, e) \/ mix_save_as(t, e)
  \/ mix_start(t) \/ mix_stop(t)

(* What a thread does of a call that it has begun.                          *)
Proceeds(t) ==
  \/ Snapshot(t) \/ Replan(t) \/ SetClamps(t) \/ LoadClamps(t)
  \/ StartDecides(t) \/ StartChecks(t) \/ Launch(t)
  \/ StopSignals(t) \/ StopJoins(t) \/ StopResets(t)
  \/ SessionsDie

Next ==
  \/ \E t \in Clients : Client(t)
  \/ \E t \in Threads : Proceeds(t)
  \/ \E c \in Cams : Plug(c)
  \/ stop
  \/ MixLoop

Spec == Init /\ [][Next]_vars

-----------------------------------------------------------------------------
(* Values of the variables.  However edits, saves, cameras and stops move    *)
(* the plan and the cursor under a run, what goes on air (now) is a cue of  *)
(* the plan and never what an index past its end would read.                *)
EngineTypeOK ==
  /\ sessions \subseteq Cams /\ started \in BOOLEAN
  /\ [cues |-> cues, mode |-> mode] \in Edits
  /\ running \in BOOLEAN /\ quit \in BOOLEAN
  /\ index \in Nat /\ direction \in {-1, 1}
  /\ ctl \in Threads \cup {Nobody}
  /\ loop \in {"none", "top", "read", "air", "wait", "advance", "exit"}
  /\ \A i \in 1..Length : plan.cues[i].camera \in Cams
  /\ now # Junk

(* mix_start: a run that was launched and not ended from outside begins.    *)
(* The cleanup of an older run, which clears the flag, never comes after    *)
(* the flag was set for the newer one.                                      *)
StartNotLost == (loop = "top" /\ now = NoCue /\ ~cancelled) => (running /\ ~quit)

(* The flag that makes mix_start a no-op is set only while a thread runs    *)
(* that will clear it.                                                      *)
RunningIsDriven == running => loop # "none"

(* An acknowledged mix_start is one that a thread carries out.              *)
StartTakes == StartNotLost /\ RunningIsDriven

(* mix_start, mix_stop and stop join the mix thread with mix_ctl_mu_ held:    *)
(* that thread has been told to leave, and until the join is over no other  *)
(* call takes it back, so that a join is never for good.                    *)
JoinedIsLeaving == (\E t \in Threads : work[t].at = "join") => ~(running /\ ~quit)

(* Once mix_stop has joined, no cue goes on air until the next start.       *)
StoppedIsStill == quiet => loop = "none"

(* stop: "Stop the mix engine before sessions die: mix_loop touches         *)
(* sessions."  When they die no thread is left, and none is launched.       *)
DownIsQuiet == At("main", "down", "down") => (loop = "none" /\ ~running)

(* A mix that was stopped, by a client or by the teardown, stays stopped.   *)
StopHolds == StoppedIsStill /\ DownIsQuiet

(* No edit is between its section and its solve.                            *)
Current == ~unsolved /\ \A t \in Clients : work[t].at \notin {"snapshot", "solve"}

(* Whatever edits overlap, once they are over the plan is of the cues that  *)
(* are shown as authored, save_as apart.                                    *)
PlanOfAuthored ==
  Current =>
    \/ Length = 0
    \/ /\ Length = Len(Live(cues))
       /\ \A i \in 1..Length :
            plan.cues[i].cue_index = Live(cues)[i] /\ plan.cues[i].shot = cues[Live(cues)[i]].shot

(* The run goes on to another cue, and nothing else happened meanwhile.     *)
ReadsNext == loop = "read" /\ loop' = "air" /\ ~dirty /\ now # NoCue

(* The point of the meanwhile: a camera that goes live has been walked, off *)
(* air, to the shot it goes live with, in every mode and direction.         *)
ArrivesWalked ==
  [][(ReadsNext /\ now'.camera # now.camera /\ now'.shot # Hold /\ now'.camera \in sessions)
       => pose[now'.camera] = now'.shot]_vars

(* detach: "A camera left, so the colouring changes (and a running mix may  *)
(* now be down to one camera...). Re-solve."  With every call over, the     *)
(* plan names attached cameras only.                                        *)
PlanFitsRoster ==
  (\A t \in Threads : work[t] = Idle) => \A i \in 1..Length : plan.cues[i].camera \in sessions

=============================================================================
