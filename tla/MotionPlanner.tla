--------------------------- MODULE MotionPlanner ----------------------------
(***************************************************************************)
(* The motion planner of one DeviceSession: the motion_* members, the       *)
(* planner thread that runs motion_loop, the callers of motion_start and    *)
(* motion_cancel, the one thread that blocks in motion_wait_idle (the        *)
(* sequencer) and the part of stop() that ends the planner thread.          *)
(*                                                                          *)
(* Grain: a critical section of motion_mu_ is one step unless the thread    *)
(* goes from its wait predicate to sleep inside it (steps Dequeue/Park and  *)
(* WaitCheck/WaitPark hold motion_mu_ in between); every atomic that is     *)
(* read or written outside the lock has a step of its own.  A notify        *)
(* reaches only the threads that are asleep when it happens.                *)
(*                                                                          *)
(* Abstracted: poses, easing, tick cadence (a move has Ticks waypoints),    *)
(* which of the gimbal and the lens a waypoint is sent to (it depends on    *)
(* the axes of the target and on the time since the last zoom waypoint),    *)
(* motion_busy_ (nobody reads it), spurious wake-ups (both predicates are   *)
(* re-evaluated, so they only delay), and the two branches of motion_loop   *)
(* that skip a target with no duration or a session with no device: every   *)
(* caller of motion_start checks both first.                                *)
(***************************************************************************)
EXTENDS Integers

CONSTANTS
  MaxMoves,      \* bound on the number of motion_start calls
  MaxCancels,    \* bound on the number of motion_cancel calls
  MaxWaits,      \* bound on the number of motion_wait_idle calls
  Ticks          \* waypoints of a move

ASSUME PlannerAssumption ==
  /\ MaxMoves \in Nat \ {0}
  /\ MaxCancels \in Nat
  /\ MaxWaits \in Nat
  /\ Ticks \in Nat \ {0}

Moves  == 1..MaxMoves
NoMove == 0

VARIABLES
  have_pending,  \* motion_have_pending_
  pending,       \* motion_pending_: the number of the move, NoMove before the first
  cancel,        \* motion_cancel_
  active,        \* motion_active_
  quit,          \* motion_quit_
  mu,            \* holder of motion_mu_ between two steps
  ppc,           \* where the planner thread is
  cur,           \* local t of motion_loop
  tick,          \* local i of motion_loop
  wpc,           \* where the thread in motion_wait_idle is
  stop_pc,       \* where stop() is
  \* history
  issued,        \* motion_start calls so far; the last one is move number issued
  cancels,       \* motion_cancel calls so far
  waits,         \* motion_wait_idle calls so far
  preempted,     \* cur was cancelled or superseded after it was dequeued
  late,          \* SDK commands cur sent after that
  waited,        \* the last move issued when motion_wait_idle was entered
  aim            \* the move whose command the SDK received last

plannerVars == <<have_pending, pending, cancel, active, quit, mu, ppc, cur, tick>>
histVars    == <<issued, cancels, waits, preempted, late, waited, aim>>
vars        == <<plannerVars, wpc, stop_pc, histVars>>

Free == "free"

PlannerSteps == {"top", "check", "park", "asleep", "begin", "tick", "gimbal", "zoom",
                 "land?", "landgimbal", "landzoom", "clear", "notify", "done"}
(* From the dequeuing of a move to the end of its final-landing block.      *)
Driving      == {"begin", "tick", "gimbal", "zoom", "land?", "landgimbal", "landzoom",
                 "clear"}
WaitSteps    == {"out", "check", "park", "asleep", "expired", "idle", "timeout"}

Init ==
  /\ have_pending = FALSE /\ pending = NoMove
  /\ cancel = FALSE /\ active = FALSE /\ quit = FALSE
  /\ mu = Free
  /\ ppc = "top" /\ cur = NoMove /\ tick = 0
  /\ wpc = "out" /\ stop_pc = "up"
  /\ issued = 0 /\ cancels = 0 /\ waits = 0 /\ preempted = FALSE /\ late = 0
  /\ waited = NoMove /\ aim = NoMove

-----------------------------------------------------------------------------
(* Callers: the command worker and the sequencer thread.                    *)

(* A fault: a target is stored and nobody wakes the planner.                *)
NotifyForgotten == UNCHANGED ppc

(* notify_all on motion_cv_: the planner thread, if it sleeps, wakes up and *)
(* goes back to its predicate.                                              *)
NotifyPlanner == ppc' = IF ppc = "asleep" THEN "check" ELSE ppc

MarkPreempted ==
  preempted' = (preempted \/ ppc \in Driving)

motion_start ==
  /\ mu = Free
  /\ issued < MaxMoves
  /\ issued' = issued + 1
  /\ pending' = issued'
  /\ have_pending' = TRUE
  /\ cancel' = TRUE
  /\ NotifyPlanner
  /\ MarkPreempted
  /\ UNCHANGED <<active, quit, mu, cur, tick, wpc, stop_pc, cancels, waits,
                 late, waited, aim>>

motion_cancel ==
  /\ cancels < MaxCancels
  /\ cancels' = cancels + 1
  /\ cancel' = TRUE
  /\ NotifyPlanner
  /\ MarkPreempted
  /\ UNCHANGED <<have_pending, pending, active, quit, mu, cur, tick, wpc, stop_pc,
                 issued, waits, late, waited, aim>>

-----------------------------------------------------------------------------
(* motion_loop                                                              *)

(* while (!motion_quit_)                                                    *)
LoopTop ==
  /\ ppc = "top"
  /\ ppc' = IF quit THEN "done" ELSE "check"
  /\ UNCHANGED <<have_pending, pending, cancel, active, quit, mu, cur, tick,
                 wpc, stop_pc, histVars>>

(* Under motion_mu_, the predicate of motion_cv_ holds because of quit.     *)
QuitSeen ==
  /\ ppc = "check" /\ mu = Free
  /\ quit
  /\ ppc' = "done"
  /\ UNCHANGED <<have_pending, pending, cancel, active, quit, mu, cur, tick,
                 wpc, stop_pc, histVars>>

(* Under motion_mu_, a target is pending: take it, start a fresh run.       *)
Dequeue ==
  /\ ppc = "check" /\ mu = Free
  /\ ~quit /\ have_pending
  /\ cur' = pending
  /\ have_pending' = FALSE
  /\ cancel' = FALSE
  /\ active' = TRUE
  /\ ppc' = "begin"
  /\ preempted' = FALSE
  /\ late' = 0
  /\ UNCHANGED <<pending, quit, mu, tick, wpc, stop_pc, issued, cancels, waits,
                 waited, aim>>

(* The predicate is false: the thread is about to sleep, motion_mu_ held.   *)
FoundNothing ==
  /\ ppc = "check" /\ mu = Free
  /\ ~quit /\ ~have_pending
  /\ mu' = "planner"
  /\ ppc' = "park"
  /\ UNCHANGED <<have_pending, pending, cancel, active, quit, cur, tick,
                 wpc, stop_pc, histVars>>

Park ==
  /\ ppc = "park"
  /\ mu' = Free
  /\ ppc' = "asleep"
  /\ UNCHANGED <<have_pending, pending, cancel, active, quit, cur, tick,
                 wpc, stop_pc, histVars>>

(* One SDK command on behalf of cur.                                        *)
Send ==
  /\ aim' = cur
  /\ late' = IF preempted THEN late + 1 ELSE late
  /\ UNCHANGED <<issued, cancels, waits, preempted, waited>>

SendOrNot == Send \/ UNCHANGED histVars

(* Read the start pose; a short zoom target is sent at once.                *)
Begin ==
  /\ ppc = "begin"
  /\ tick' = 1
  /\ ppc' = "tick"
  /\ SendOrNot
  /\ UNCHANGED <<have_pending, pending, cancel, active, quit, mu, cur, wpc, stop_pc>>

(* The head of the tick loop: i <= ticks, not cancelled, not quitting.      *)
KeepTicking == tick <= Ticks /\ ~cancel /\ ~quit

TickTest ==
  /\ ppc = "tick"
  /\ ppc' = IF KeepTicking THEN "gimbal" ELSE "land?"
  /\ UNCHANGED <<have_pending, pending, cancel, active, quit, mu, cur, tick,
                 wpc, stop_pc, histVars>>

(* A waypoint is up to two commands, and nobody looks at motion_cancel_     *)
(* between them.                                                            *)
TickGimbal ==
  /\ ppc = "gimbal"
  /\ SendOrNot
  /\ ppc' = "zoom"
  /\ UNCHANGED <<have_pending, pending, cancel, active, quit, mu, cur, tick, wpc, stop_pc>>

TickZoom ==
  /\ ppc = "zoom"
  /\ SendOrNot
  /\ tick' = tick + 1
  /\ ppc' = "tick"
  /\ UNCHANGED <<have_pending, pending, cancel, active, quit, mu, cur, wpc, stop_pc>>

(* A fault: the final landing is sent whether or not the move was cancelled. *)
MayLandAnyway == TRUE

(* Final exact landing, if not cancelled.                                   *)
MayLand == ~cancel /\ ~quit

LandTest ==
  /\ ppc = "land?"
  /\ ppc' = IF MayLand THEN "landgimbal" ELSE "clear"
  /\ UNCHANGED <<have_pending, pending, cancel, active, quit, mu, cur, tick,
                 wpc, stop_pc, histVars>>

(* So is the landing.                                                       *)
LandGimbal ==
  /\ ppc = "landgimbal"
  /\ SendOrNot
  /\ ppc' = "landzoom"
  /\ UNCHANGED <<have_pending, pending, cancel, active, quit, mu, cur, tick, wpc, stop_pc>>

LandZoom ==
  /\ ppc = "landzoom"
  /\ SendOrNot
  /\ ppc' = "clear"
  /\ UNCHANGED <<have_pending, pending, cancel, active, quit, mu, cur, tick, wpc, stop_pc>>

(* motion_active_.store(false), outside motion_mu_.                         *)
ClearActive ==
  /\ ppc = "clear"
  /\ active' = FALSE
  /\ ppc' = "notify"
  /\ UNCHANGED <<have_pending, pending, cancel, quit, mu, cur, tick,
                 wpc, stop_pc, histVars>>

(* motion_done_cv_.notify_all(), outside motion_mu_.                        *)
NotifyDone ==
  /\ ppc = "notify"
  /\ wpc' = IF wpc = "asleep" THEN "check" ELSE wpc
  /\ ppc' = "top"
  /\ UNCHANGED <<have_pending, pending, cancel, active, quit, mu, cur, tick,
                 stop_pc, histVars>>

motion_loop ==
  \/ LoopTop \/ QuitSeen \/ Dequeue \/ FoundNothing \/ Park
  \/ Begin \/ TickTest \/ TickGimbal \/ TickZoom \/ LandTest \/ LandGimbal \/ LandZoom
  \/ ClearActive \/ NotifyDone

-----------------------------------------------------------------------------
(* motion_wait_idle, called by the sequencer after it started a move.       *)

(* A fault: the predicate forgets the target that is still queued.          *)
IdleForgetsQueued == ~active

IdlePredicate == ~active /\ ~have_pending

WaitEnter ==
  /\ wpc \in {"out", "idle", "timeout"}
  /\ waits < MaxWaits
  /\ waits' = waits + 1
  /\ wpc' = "check"
  /\ waited' = issued
  /\ UNCHANGED <<plannerVars, stop_pc, issued, cancels, preempted, late, aim>>

WaitCheck ==
  /\ wpc = "check" /\ mu = Free
  /\ \/ IdlePredicate  /\ wpc' = "idle" /\ mu' = mu
     \/ ~IdlePredicate /\ wpc' = "park" /\ mu' = "waiter"
  /\ UNCHANGED <<have_pending, pending, cancel, active, quit, ppc, cur, tick,
                 stop_pc, histVars>>

WaitPark ==
  /\ wpc = "park"
  /\ mu' = Free
  /\ wpc' = "asleep"
  /\ UNCHANGED <<have_pending, pending, cancel, active, quit, ppc, cur, tick,
                 stop_pc, histVars>>

(* The deadline of wait_until passes while the thread sleeps.               *)
WaitExpire ==
  /\ wpc = "asleep"
  /\ wpc' = "expired"
  /\ UNCHANGED <<plannerVars, stop_pc, histVars>>

(* ... and the predicate decides the result.                                *)
WaitExpired ==
  /\ wpc = "expired" /\ mu = Free
  /\ wpc' = IF IdlePredicate THEN "idle" ELSE "timeout"
  /\ UNCHANGED <<plannerVars, stop_pc, histVars>>

motion_wait_idle == WaitCheck \/ WaitPark \/ WaitExpire \/ WaitExpired

-----------------------------------------------------------------------------
(* The planner's part of stop(): three stores and a join, motion_mu_ never  *)
(* taken.                                                                   *)

StopQuit ==
  /\ stop_pc = "up"
  /\ quit' = TRUE
  /\ stop_pc' = "cancel"
  /\ UNCHANGED <<have_pending, pending, cancel, active, mu, ppc, cur, tick,
                 wpc, histVars>>

StopCancel ==
  /\ stop_pc = "cancel"
  /\ cancel' = TRUE
  /\ stop_pc' = "notify"
  /\ MarkPreempted
  /\ UNCHANGED <<have_pending, pending, active, quit, mu, ppc, cur, tick, wpc,
                 issued, cancels, waits, late, waited, aim>>

StopNotify ==
  /\ stop_pc = "notify"
  /\ NotifyPlanner
  /\ stop_pc' = "join"
  /\ UNCHANGED <<have_pending, pending, cancel, active, quit, mu, cur, tick,
                 wpc, histVars>>

StopJoin ==
  /\ stop_pc = "join"
  /\ ppc = "done"
  /\ stop_pc' = "down"
  /\ UNCHANGED <<plannerVars, wpc, histVars>>

stop == StopQuit \/ StopCancel \/ StopNotify \/ StopJoin

-----------------------------------------------------------------------------
Next ==
  \/ motion_start \/ motion_cancel
  \/ motion_loop
  \/ WaitEnter \/ motion_wait_idle
  \/ stop

Spec == Init /\ [][Next]_vars

(* The scheduler runs the planner thread and the waiting thread; the        *)
(* deadline of motion_wait_idle passes; a stop() that has begun goes on.    *)
(* Nobody is obliged to call motion_start, motion_cancel, motion_wait_idle  *)
(* or stop().                                                               *)
Fairness ==
  /\ WF_vars(motion_loop)
  /\ WF_vars(motion_wait_idle)
  /\ WF_vars(StopCancel \/ StopNotify \/ StopJoin)

FairSpec == Spec /\ Fairness

-----------------------------------------------------------------------------
(* Values of the variables, and who may hold motion_mu_.                    *)
TypeOK ==
  /\ have_pending \in BOOLEAN
  /\ pending \in 0..MaxMoves
  /\ cancel \in BOOLEAN /\ active \in BOOLEAN /\ quit \in BOOLEAN
  /\ mu \in {Free, "planner", "waiter"}
  /\ ppc \in PlannerSteps
  /\ cur \in 0..MaxMoves
  /\ tick \in 0..(Ticks + 1)
  /\ wpc \in WaitSteps
  /\ stop_pc \in {"up", "cancel", "notify", "join", "down"}
  /\ issued \in 0..MaxMoves
  /\ cancels \in 0..MaxCancels
  /\ waits \in 0..MaxWaits
  /\ preempted \in BOOLEAN
  /\ late \in Nat
  /\ waited \in 0..MaxMoves
  /\ aim \in 0..MaxMoves

(* A move is settled when it is neither queued for the planner nor being    *)
(* driven by it.                                                            *)
Settled(m) ==
  /\ ~(have_pending /\ pending = m)
  /\ ~(ppc \in Driving /\ cur = m)

(* When motion_wait_idle reports idle, the move its caller chained on has   *)
(* landed, was cancelled or was replaced: the sequencer's hold clock cannot *)
(* start while that move is still queued or moving (the B2 fix).            *)
WaitCoversMove == wpc = "idle" => Settled(waited)

(* Once a move was cancelled or superseded after the planner took it, it    *)
(* sends at most two more SDK commands: the gimbal and the zoom part of the *)
(* waypoint or landing whose check had passed.                              *)
CancelBites == late <= 2

(* Every requested move is taken by the planner or replaced, unless the     *)
(* session stops: a wake-up of motion_start is never lost.                  *)
RequestTaken ==
  \A m \in Moves : (have_pending /\ pending = m) ~> (~have_pending \/ pending # m \/ quit)

(* motion_wait_idle returns, whatever the planner and its callers do.       *)
WaitReturns == wpc = "check" ~> wpc \in {"idle", "timeout"}

(* No wake-up the planner or a waiter needs is lost.                        *)
NoLostWakeup == RequestTaken /\ WaitReturns

(* stop() joins the planner thread: docs/SLOW_MOTION_DESIGN.md asks for a   *)
(* deterministic join so that the thread does not leak.                     *)
JoinReturns == stop_pc = "join" ~> stop_pc = "down"

(* The planner implements the one-slot promise its callers rely on.         *)
Slot == INSTANCE MoveSlot WITH
  requested <- IF have_pending THEN pending ELSE NoMove,
  driving   <- IF ppc \in Driving THEN cur ELSE NoMove,
  quota     <- IF ppc \notin Driving \/ ~preempted THEN 3 ELSE 2 - late,
  aim       <- aim

ImplementsMoveSlot == Slot!Spec

=============================================================================
