--------------------------- MODULE CommandWorker ----------------------------
(***************************************************************************)
(* The command queue and worker thread of one DeviceSession, next to its    *)
(* motion planner: calls of cmd_* from any thread (some raise               *)
(* motion_cancel_ at call time, ahead of the queue), the queued handlers    *)
(* the worker runs in order, the velocity watchdog at the end of a worker   *)
(* pass, the flag that remembers that AI tracking was switched off for      *)
(* manual control, and the sequence thread, which works on the same planner *)
(* and camera with no regard to the queue.                                  *)
(*                                                                          *)
(* Abstracted: poses and zoom values; replies and broadcasts; the gimbal is *)
(* either turning under a manual velocity or not; AI tracking is on or off. *)
(* Handlers that touch none of this state (image, exposure, presets stored  *)
(* on the camera) are not here, nor is what the sequence thread does        *)
(* besides its steps (module Sequencer).  Time passes in units of which the *)
(* watchdog allows WatchdogAge without a refresh; CoalesceAge is the window *)
(* in which a second velocity is dropped.  The age of the last velocity     *)
(* counts up to MaxAge: every longer one is as good as that to all guards.  *)
(***************************************************************************)
EXTENDS MotionPlanner, Sequences

CONSTANTS
  Commands,      \* the kinds of command clients send
  MaxCalls,      \* bound on the number of commands
  WatchdogAge,   \* 400 ms
  CoalesceAge,   \* 30 ms
  MaxLag,        \* bound on the time a command waits in the queue
  MaxSteps,      \* bound on the steps of sequences
  Failable       \* the SDK calls that may return an error: "speed", "watchdog", "ai"

Kinds == {"angle", "angle_slow", "recall", "recall_slow", "recenter",
          "velocity", "velocity_zero", "ptz_stop",
          "zoom_slow", "zoom_final", "zoom_drag", "zoom_smooth", "zoom_drive", "zoom_stop",
          "ai_mode", "ai_none", "ai_unknown", "ai_enable", "ai_disable",
          "sequence_start", "sequence_stop"}

MaxAge == WatchdogAge + MaxLag + CoalesceAge

ASSUME WorkerAssumption ==
  /\ Commands \subseteq Kinds
  /\ MaxCalls \in Nat
  /\ WatchdogAge \in Nat \ {0} /\ CoalesceAge \in Nat \ {0} /\ MaxLag \in Nat
  /\ MaxSteps \in Nat
  /\ Failable \subseteq {"speed", "watchdog", "ai"}

VARIABLES
  q,             \* q_: the commands queued, each with the age of its call
  wkpc,          \* where the worker is: "drain", "act", "watchdog"
  item,          \* the command being handled
  velocity_active,           \* velocity_active_
  vage,          \* age of last_velocity_apply_, at most MaxAge
  ai_disabled_for_manual,    \* ai_disabled_for_manual_
  turning,       \* camera: the gimbal turns under a manual velocity
  missed,        \* history: the SDK refused the zero speed of the watchdog, and has
                 \* accepted no speed since
  ai_on,         \* camera: AI tracking owns the gimbal
  ai_refused,    \* history: the SDK refused the last AI command
  calling,       \* a caller between its motion_cancel and its submit (at most one),
                 \* and whether nothing has come in its way
  calls,         \* history: commands sent so far
  lastCall,      \* history: the last call, and whether nothing has come in its way
  sequencing,    \* seq_running_ and not seq_quit_
  spc,           \* where the sequence thread is: "off", "step", "move", "rest"
  steps          \* steps of sequences so far

aiVars      == <<ai_disabled_for_manual, ai_on, ai_refused>>
gimbalVars  == <<turning, missed>>
seqVars     == <<sequencing, spc, steps>>
workVars    == <<q, wkpc, item, velocity_active, vage, aiVars, gimbalVars, calling, calls, lastCall,
                 seqVars>>
sessionVars == <<vars, workVars>>

NoItem == [kind |-> "none", age |-> 0]
NoCall == [kind |-> "none", quiet |-> FALSE]

SessionInit ==
  /\ Init
  /\ q = <<>> /\ wkpc = "drain" /\ item = NoItem
  /\ velocity_active = FALSE /\ vage = MaxAge
  /\ ai_disabled_for_manual = FALSE
  /\ calling = NoCall /\ turning = FALSE /\ missed = FALSE /\ ai_on \in BOOLEAN /\ ai_refused = FALSE
  /\ calls = 0 /\ lastCall = [class |-> "other", quiet |-> FALSE]
  /\ sequencing = FALSE /\ spc = "off" /\ steps = 0

-----------------------------------------------------------------------------
(* Calls, on the caller's thread.                                           *)

(* A fault: the call leaves the planner alone.                              *)
PlannerLeftAlone == cancels' = cancels + 1 /\ UNCHANGED <<plannerVars, wpc, stop_pc,
                      issued, waits, preempted, late, waited, aim>>

CancelAhead == motion_cancel

(* Commands that call motion_cancel before they submit their work.          *)
CancelsAtCall == {"velocity", "velocity_zero", "ptz_stop", "recenter"}

(* What the last call was, as far as the properties ask.                    *)
CallClass(k) ==
  CASE k = "ptz_stop" -> "stop"
    [] k \in {"velocity", "velocity_zero", "recenter"} -> "preempting"
    [] OTHER -> "other"

(* Nothing is queued or being handled, no target waits for the planner and  *)
(* no step of a sequence is being taken.                                    *)
Quiet ==
  /\ q = <<>> /\ wkpc \notin {"act", "move"}
  /\ ~have_pending
  /\ spc \in {"off", "rest"}

Enqueue(k, quiet) ==
  /\ q' = Append(q, [kind |-> k, age |-> 0])
  /\ lastCall' = [class |-> CallClass(k), quiet |-> quiet]

(* The call of a command that leaves the planner to its handler: it only    *)
(* queues.  A caller between its motion_cancel and its submit is overtaken. *)
Submit(k) ==
  /\ calls < MaxCalls
  /\ k \notin CancelsAtCall
  /\ calls' = calls + 1
  /\ Enqueue(k, FALSE)
  /\ calling' = [calling EXCEPT !.quiet = FALSE]
  /\ UNCHANGED <<vars, wkpc, item, velocity_active, vage, aiVars, gimbalVars, seqVars>>

(* The call of a command that cancels first ...                             *)
CallCancels(k) ==
  /\ calls < MaxCalls
  /\ k \in CancelsAtCall /\ calling = NoCall
  /\ calls' = calls + 1
  /\ CancelAhead
  /\ calling' = [kind |-> k, quiet |-> Quiet]
  /\ UNCHANGED <<q, wkpc, item, velocity_active, vage, aiVars, gimbalVars, lastCall, seqVars>>

(* ... and then queues.                                                     *)
CallQueues ==
  /\ calling # NoCall
  /\ Enqueue(calling.kind, calling.quiet)
  /\ calling' = NoCall
  /\ UNCHANGED <<vars, wkpc, item, velocity_active, vage, aiVars, gimbalVars, calls, seqVars>>

-----------------------------------------------------------------------------
(* Handlers, on the worker thread.  A handler that works with the planner   *)
(* takes two steps: what it does up to motion_cancel, and the rest.         *)

(* cameraSetAiModeU and aiSetEnabledR towards on or off; either may fail.   *)
AiCall(on) ==
  \/ ai_on' = on /\ ai_refused' = FALSE
  \/ "ai" \in Failable /\ ai_on' = ai_on /\ ai_refused' = TRUE

(* AI-off for manual control: the results are not looked at.                *)
AiOff == AiCall(FALSE) /\ ai_disabled_for_manual' = TRUE

AiOffOnce ==
  IF ai_disabled_for_manual THEN UNCHANGED aiVars ELSE AiOff

(* A fault: the flag follows the command although the SDK refused it.       *)
SpeedRefusedAnyway(stopping) ==
  /\ velocity_active' = ~stopping
  /\ UNCHANGED gimbalVars

(* aiSetGimbalSpeedCtrlR returned an error, or 0.                           *)
SpeedRefused(stopping) == UNCHANGED <<velocity_active, gimbalVars>>
SpeedSet(stopping) ==
  /\ turning' = ~stopping
  /\ missed' = FALSE
  /\ velocity_active' = ~stopping

GimbalSpeed(stopping) ==
  \/ SpeedSet(stopping)
  \/ "speed" \in Failable /\ SpeedRefused(stopping)

(* What a position move does to a manual velocity is the camera's affair.   *)
GimbalMove == turning' \in {FALSE, turning} /\ UNCHANGED missed

Pop ==
  /\ wkpc = "drain"
  /\ q # <<>>
  /\ item' = Head(q)
  /\ q' = Tail(q)
  /\ wkpc' = "act"
  /\ UNCHANGED <<vars, velocity_active, vage, aiVars, gimbalVars, calling, calls, lastCall, seqVars>>

Handling(kinds) == wkpc = "act" /\ item.kind \in kinds
Finishing(kinds) == wkpc = "move" /\ item.kind \in kinds

Done ==
  /\ wkpc' = "drain"
  /\ item' = NoItem
  /\ UNCHANGED <<q, calling, calls, lastCall>>

GoOn ==
  /\ wkpc' = "move"
  /\ UNCHANGED <<q, item, calling, calls, lastCall>>

(* A velocity called less than CoalesceAge after the last one applied is    *)
(* dropped, a zero velocity never is.                                       *)
cmd_ptz_velocity ==
  /\ Handling({"velocity", "velocity_zero"})
  /\ LET stopping == item.kind = "velocity_zero" IN
       IF ~stopping /\ vage - item.age < CoalesceAge
       THEN UNCHANGED <<velocity_active, vage, aiVars, gimbalVars>>
       ELSE /\ vage' = item.age
            /\ AiOffOnce
            /\ GimbalSpeed(stopping)
  /\ Done
  /\ UNCHANGED <<vars, seqVars>>

cmd_ptz_stop ==
  /\ Handling({"ptz_stop"})
  /\ GimbalSpeed(TRUE)
  /\ Done
  /\ UNCHANGED <<vars, vage, aiVars, seqVars>>

cmd_ptz_recenter ==
  /\ Handling({"recenter"})
  /\ AiOff
  /\ GimbalMove
  /\ Done
  /\ UNCHANGED <<vars, velocity_active, vage, seqVars>>

(* A target for the planner (duration_ms > 0), or one SDK command.          *)
StartPlannedMove ==
  motion_start /\ Done /\ UNCHANGED <<velocity_active, vage, aiVars, gimbalVars, seqVars>>

MoveAtOnce ==
  GimbalMove /\ Done /\ UNCHANGED <<vars, velocity_active, vage, aiVars, seqVars>>

CancelThenGoOn ==
  motion_cancel /\ GoOn /\ UNCHANGED <<velocity_active, vage, gimbalVars, seqVars>>

cmd_ptz_angle ==
  \/ Handling({"angle", "angle_slow"}) /\ CancelThenGoOn /\ AiOff
  \/ Finishing({"angle_slow"}) /\ StartPlannedMove
  \/ Finishing({"angle"}) /\ MoveAtOnce

cmd_preset_recall ==
  \/ Handling({"recall", "recall_slow"}) /\ CancelThenGoOn /\ AiOffOnce
  \/ Finishing({"recall_slow"}) /\ StartPlannedMove
  \/ Finishing({"recall"}) /\ MoveAtOnce

(* Zoom: a slow or a final value preempts the planner, a value in the       *)
(* middle of a drag does not; the lens is not modelled.                     *)
ZoomAtOnce == Done /\ UNCHANGED <<vars, velocity_active, vage, aiVars, gimbalVars, seqVars>>

cmd_zoom_set ==
  \/ Handling({"zoom_slow", "zoom_final"}) /\ CancelThenGoOn /\ UNCHANGED aiVars
  \/ Finishing({"zoom_slow"}) /\ StartPlannedMove
  \/ Finishing({"zoom_final"}) /\ ZoomAtOnce
  \/ Handling({"zoom_drag"}) /\ ZoomAtOnce

cmd_zoom_set_smooth == Handling({"zoom_smooth"}) /\ ZoomAtOnce

(* Nothing is done if the lens is at that end already.                      *)
cmd_zoom_drive ==
  \/ Handling({"zoom_drive"}) /\ ZoomAtOnce
  \/ Handling({"zoom_drive"}) /\ CancelThenGoOn /\ UNCHANGED aiVars
  \/ Finishing({"zoom_drive"}) /\ StartPlannedMove

cmd_zoom_stop ==
  \/ Handling({"zoom_stop"}) /\ CancelThenGoOn /\ UNCHANGED aiVars
  \/ Finishing({"zoom_stop"}) /\ ZoomAtOnce

(* The flag is set before the name of the mode is looked at.                *)
cmd_ai_set_mode ==
  /\ Handling({"ai_mode", "ai_none", "ai_unknown"})
  /\ ai_disabled_for_manual' = (item.kind = "ai_none")
  /\ IF item.kind = "ai_unknown" THEN UNCHANGED <<ai_on, ai_refused>>
     ELSE AiCall(item.kind = "ai_mode")
  /\ Done
  /\ UNCHANGED <<vars, velocity_active, vage, gimbalVars, seqVars>>

(* A fault: enabling AI does not drop the flag.                             *)
EnableKeepsFlag(enabled) == ai_disabled_for_manual

FlagAfterEnable(enabled) == ~enabled

cmd_ai_set_enabled ==
  /\ Handling({"ai_enable", "ai_disable"})
  /\ LET enabled == item.kind = "ai_enable" IN
       /\ ai_disabled_for_manual' = FlagAfterEnable(enabled)
       /\ AiCall(enabled)
  /\ Done
  /\ UNCHANGED <<vars, velocity_active, vage, gimbalVars, seqVars>>

(* Nothing is done if a sequence runs or none is configured.  The thread of *)
(* an earlier one is joined.                                                *)
cmd_sequence_start ==
  /\ Handling({"sequence_start"})
  /\ \/ UNCHANGED seqVars
     \/ /\ ~sequencing /\ spc = "off" /\ steps < MaxSteps
        /\ sequencing' = TRUE /\ spc' = "step" /\ steps' = steps + 1
  /\ Done
  /\ UNCHANGED <<vars, velocity_active, vage, aiVars, gimbalVars>>

(* Tell the thread to quit, cancel the move it may wait for, join it.       *)
cmd_sequence_stop ==
  \/ /\ Handling({"sequence_stop"})
     /\ sequencing' = FALSE
     /\ motion_cancel
     /\ GoOn
     /\ UNCHANGED <<velocity_active, vage, aiVars, gimbalVars, spc, steps>>
  \/ /\ Finishing({"sequence_stop"})
     /\ spc = "off"
     /\ Done
     /\ UNCHANGED <<vars, velocity_active, vage, aiVars, gimbalVars, seqVars>>

(* A fault: the watchdog waits for a velocity that is never refreshed again *)
(* only while commands keep coming.                                         *)
WatchdogFiresOnTraffic == velocity_active /\ vage > WatchdogAge /\ q # <<>>

(* The queue is empty: the watchdog, then the status poll (not modelled).   *)
WatchdogFires == velocity_active /\ vage > WatchdogAge

EndOfDrain ==
  /\ wkpc = "drain"
  /\ q = <<>>
  /\ wkpc' = "watchdog"
  /\ UNCHANGED <<vars, q, item, velocity_active, vage, aiVars, gimbalVars, calling, calls, lastCall,
                 seqVars>>

(* The watchdog's own zero speed; nobody looks at its result.               *)
WatchdogStops ==
  \/ turning' = FALSE /\ missed' = FALSE
  \/ "watchdog" \in Failable /\ turning' = turning /\ missed' = TRUE

Watchdog ==
  /\ wkpc = "watchdog"
  /\ IF WatchdogFires
     THEN velocity_active' = FALSE /\ WatchdogStops
     ELSE UNCHANGED <<velocity_active, gimbalVars>>
  /\ wkpc' = "drain"
  /\ UNCHANGED <<vars, q, item, vage, aiVars, calling, calls, lastCall, seqVars>>

worker_loop ==
  \/ Pop
  \/ cmd_ptz_velocity \/ cmd_ptz_stop \/ cmd_ptz_recenter \/ cmd_ptz_angle
  \/ cmd_zoom_set \/ cmd_zoom_set_smooth \/ cmd_zoom_drive \/ cmd_zoom_stop \/ cmd_preset_recall
  \/ cmd_ai_set_mode \/ cmd_ai_set_enabled
  \/ cmd_sequence_start \/ cmd_sequence_stop
  \/ EndOfDrain \/ Watchdog

-----------------------------------------------------------------------------
(* The sequence thread.  trigger_step switches AI off without a look at the *)
(* flag and cancels the planner, ...                                        *)
StepCancels ==
  /\ spc = "step"
  /\ AiCall(FALSE)
  /\ motion_cancel
  /\ spc' = "move"
  /\ UNCHANGED <<q, wkpc, item, velocity_active, vage, ai_disabled_for_manual, gimbalVars, calling,
                 calls, lastCall, sequencing, steps>>

(* ... then gives it a target (transition_ms > 0) or sends the preset.      *)
StepMoves ==
  /\ spc = "move"
  /\ \/ motion_start /\ UNCHANGED gimbalVars
     \/ GimbalMove /\ UNCHANGED vars
  /\ spc' = "rest"
  /\ UNCHANGED <<q, wkpc, item, velocity_active, vage, aiVars, calling, calls, lastCall,
                 sequencing, steps>>

(* The move has ended or its deadline passed, and the hold: the next step   *)
(* is in the way of a call that nothing else came in the way of.            *)
NextStep ==
  /\ spc = "rest"
  /\ sequencing /\ steps < MaxSteps
  /\ steps' = steps + 1
  /\ spc' = "step"
  /\ calling' = [calling EXCEPT !.quiet = FALSE]
  /\ lastCall' = [lastCall EXCEPT !.quiet = FALSE]
  /\ UNCHANGED <<vars, q, wkpc, item, velocity_active, vage, aiVars, gimbalVars, calls, sequencing>>

(* A list that is run once is over, or the thread was told to quit.         *)
SequenceEnds ==
  /\ spc = "rest"
  /\ spc' = "off"
  /\ sequencing' = FALSE
  /\ UNCHANGED <<vars, q, wkpc, item, velocity_active, vage, aiVars, gimbalVars, calling, calls,
                 lastCall, steps>>

sequence_loop == StepCancels \/ StepMoves \/ NextStep \/ SequenceEnds

-----------------------------------------------------------------------------
(* Time.  A command that has waited MaxLag is handled before time goes on.  *)
TimePasses ==
  /\ \A i \in 1..Len(q) : q[i].age < MaxLag
  /\ item.age < MaxLag \/ item = NoItem
  /\ vage' = IF vage < MaxAge THEN vage + 1 ELSE MaxAge
  /\ q' = [i \in 1..Len(q) |-> [q[i] EXCEPT !.age = @ + 1]]
  /\ item' = IF item = NoItem THEN item ELSE [item EXCEPT !.age = @ + 1]
  /\ UNCHANGED <<vars, wkpc, velocity_active, aiVars, gimbalVars, calling, calls, lastCall, seqVars>>

Planner == motion_loop /\ UNCHANGED workVars

SessionNext ==
  \/ \E k \in Commands : Submit(k) \/ CallCancels(k)
  \/ CallQueues
  \/ worker_loop
  \/ sequence_loop
  \/ Planner
  \/ TimePasses

(* The worker and the planner thread are scheduled, a call or a step of a   *)
(* sequence that has begun goes on, a sequence thread told to quit ends and *)
(* time passes; no client has to send anything.                             *)
SessionSpec ==
  /\ SessionInit /\ [][SessionNext]_sessionVars
  /\ WF_sessionVars(CallQueues)
  /\ WF_sessionVars(worker_loop)
  /\ WF_sessionVars(Planner)
  /\ WF_sessionVars(StepCancels \/ StepMoves \/ (~sequencing /\ SequenceEnds))
  /\ WF_sessionVars(TimePasses)

-----------------------------------------------------------------------------
(* Values of the worker's variables.                                        *)
SessionTypeOK ==
  /\ TypeOK
  /\ Len(q) <= MaxCalls
  /\ \A i \in 1..Len(q) : q[i].kind \in Commands /\ q[i].age \in 0..MaxLag
  /\ wkpc \in {"drain", "act", "move", "watchdog"}
  /\ item \in [kind : Commands \cup {"none"}, age : 0..MaxLag]
  /\ velocity_active \in BOOLEAN /\ turning \in BOOLEAN /\ missed \in BOOLEAN
  /\ ai_on \in BOOLEAN /\ ai_refused \in BOOLEAN
  /\ ai_disabled_for_manual \in BOOLEAN
  /\ vage \in 0..MaxAge
  /\ calling \in [kind : Commands \cup {"none"}, quiet : BOOLEAN]
  /\ calls \in 0..MaxCalls
  /\ lastCall \in [class : {"stop", "preempting", "other"}, quiet : BOOLEAN]
  /\ sequencing \in BOOLEAN /\ spc \in {"off", "step", "move", "rest"} /\ steps \in 0..MaxSteps

(* The session never loses sight of a turning gimbal: whatever mix of       *)
(* refused and accepted SDK calls came before, velocity_active_ is set as   *)
(* long as the gimbal turns under a manual velocity, unless it was the      *)
(* watchdog's own zero speed that the SDK refused.                          *)
TurningIsWatched == turning => velocity_active \/ missed

(* A manual velocity ends although its client went away and both its stops  *)
(* were lost or refused by the SDK (the comment on the velocity watchdog),  *)
(* unless the SDK refuses the watchdog, too.                                *)
TurningEnds == turning ~> ~turning \/ missed

(* The same without the exception: "any velocity that has not been          *)
(* refreshed for 400ms is stopped here" (the same comment).                 *)
EveryTurnEnds == turning ~> ~turning

(* ai_disabled_for_manual_ lies only when the SDK refused to switch AI off: *)
(* otherwise, while it is set the camera is not tracking and the velocities *)
(* that skip AiOff are not ignored by it.                                   *)
FlagMeansAiOff == ai_disabled_for_manual /\ ai_on => ai_refused

(* A stop, velocity or recenter whose call began with no command queued or  *)
(* handled, no target waiting and no step of a sequence being taken: from   *)
(* then on no move is queued or goes on uncancelled, until another command  *)
(* is called or a sequence takes its next step.                             *)
PreemptingCallHolds ==
  lastCall.quiet \/ calling.quiet
    => ~have_pending /\ (ppc \in Driving => cancel)

(* The cancellation matrix of docs/SLOW_MOTION_DESIGN.md: ptz.stop cancels  *)
(* the planner move and the gimbal stays put.  Once a stop was handled and  *)
(* nothing was sent after it, no move is queued or goes on uncancelled.     *)
StopIsFinal ==
  (lastCall.class = "stop" /\ calling = NoCall /\ q = <<>> /\ wkpc = "drain")
    => ~have_pending /\ (ppc \in Driving => cancel)

=============================================================================
