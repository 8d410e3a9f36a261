--------------------------- MODULE SessionProofs ----------------------------
(***************************************************************************)
(* Proofs about a session.  First its planner, MotionPlanner, for every     *)
(* number of moves, cancels, waits and ticks: the type invariant, the two   *)
(* safety properties its run checks, and that it implements MoveSlot.       *)
(* Then CommandWorker, for any commands, bounds and time constants, on top  *)
(* of the inductive invariant of the planner.                               *)
(***************************************************************************)
EXTENDS CommandWorker, SequenceTheorems, TLAPS

(* The planner.                                                             *)

(* motion_active_ is true exactly while the planner thread drives a move.   *)
ActiveInv == active <=> ppc \in Driving

(* motion_mu_ is held across a step only by a thread about to sleep.        *)
LockInv ==
  /\ mu = "planner" <=> ppc = "park"
  /\ mu = "waiter" <=> wpc = "park"

(* The queued move is the last one issued, and newer than the driven one.   *)
QueueInv ==
  /\ pending = issued
  /\ have_pending => cur < pending
  /\ cur <= issued
  /\ waited <= issued
  /\ ppc \in Driving => cur # NoMove

(* A preempted move still sees its cancel, and has sent nothing late before *)
(* the gimbal part of a waypoint, at most one command before the zoom part. *)
LateInv ==
  /\ preempted => cancel
  /\ late > 0 => preempted
  /\ late <= 2
  /\ ppc \in {"begin", "gimbal", "landgimbal"} => late = 0
  /\ ppc \in {"zoom", "landzoom"} => late <= 1

TickInv == ppc \in {"tick", "gimbal", "zoom"} => tick \in 1..(Ticks + 1)
SendInv == ppc \in {"gimbal", "zoom"} => tick <= Ticks

IInv ==
  /\ TypeOK /\ ActiveInv /\ LockInv /\ QueueInv /\ LateInv
  /\ TickInv /\ SendInv /\ WaitCoversMove

LEMMA InitIInv == Init => IInv
  <1> SUFFICES ASSUME Init PROVE IInv
    OBVIOUS
  <1> USE PlannerAssumption DEF Init, NoMove, Free
  <1>1. TypeOK
    <2>1. /\ have_pending \in BOOLEAN /\ cancel \in BOOLEAN /\ active \in BOOLEAN
          /\ quit \in BOOLEAN /\ preempted \in BOOLEAN
      OBVIOUS
    <2>2. /\ pending \in 0..MaxMoves /\ cur \in 0..MaxMoves /\ issued \in 0..MaxMoves
          /\ waited \in 0..MaxMoves /\ aim \in 0..MaxMoves
          /\ tick \in 0..(Ticks + 1) /\ cancels \in 0..MaxCancels
          /\ waits \in 0..MaxWaits /\ late \in Nat
      OBVIOUS
    <2>3. /\ mu \in {Free, "planner", "waiter"} /\ ppc \in PlannerSteps
          /\ wpc \in WaitSteps /\ stop_pc \in {"up", "cancel", "notify", "join", "down"}
      BY DEF PlannerSteps, WaitSteps
    <2>4. QED
      BY <2>1, <2>2, <2>3 DEF TypeOK
  <1>2. ActiveInv
    BY DEF ActiveInv, Driving
  <1>3. LockInv /\ QueueInv /\ TickInv /\ SendInv /\ WaitCoversMove
    BY DEF LockInv, QueueInv, TickInv, SendInv, WaitCoversMove, Driving
  <1>4. LateInv
    BY DEF LateInv
  <1>5. QED
    BY <1>1, <1>2, <1>3, <1>4 DEF IInv

LEMMA NextIInv == IInv /\ [Next]_vars => IInv'
  <1> SUFFICES ASSUME IInv, [Next]_vars PROVE IInv'
    OBVIOUS
  <1> USE PlannerAssumption
      DEF IInv, TypeOK, ActiveInv, LockInv, QueueInv, LateInv, TickInv, SendInv,
          WaitCoversMove, Settled, PlannerSteps, Driving, WaitSteps, NoMove, Free,
          plannerVars, histVars
  <1>1. CASE motion_start
    BY <1>1 DEF motion_start, NotifyPlanner, MarkPreempted
  <1>2. CASE motion_cancel
    BY <1>2 DEF motion_cancel, NotifyPlanner, MarkPreempted
  <1>3. CASE motion_loop
    <2>1. CASE LoopTop
      BY <2>1 DEF LoopTop
    <2>2. CASE QuitSeen
      BY <2>2 DEF QuitSeen
    <2>3. CASE Dequeue
      <3> USE <2>3 DEF Dequeue
      <3>1. TypeOK' /\ TickInv' /\ SendInv'
        OBVIOUS
      <3>2. ActiveInv' /\ LockInv'
        OBVIOUS
      <3>3. QueueInv'
        OBVIOUS
      <3>4. LateInv'
        OBVIOUS
      <3>5. WaitCoversMove'
        OBVIOUS
      <3>6. QED
        BY <3>1, <3>2, <3>3, <3>4, <3>5
    <2>4. CASE FoundNothing
      BY <2>4 DEF FoundNothing
    <2>5. CASE Park
      BY <2>5 DEF Park
    <2>6. CASE Begin
      BY <2>6 DEF Begin, SendOrNot, Send
    <2>7. CASE TickTest
      BY <2>7 DEF TickTest, KeepTicking
    <2>8. CASE TickGimbal \/ TickZoom
      <3>1. CASE TickGimbal
        BY <3>1 DEF TickGimbal, SendOrNot, Send
      <3>2. CASE TickZoom
        BY <3>2 DEF TickZoom, SendOrNot, Send
      <3>3. QED
        BY <2>8, <3>1, <3>2
    <2>9. CASE LandTest
      BY <2>9 DEF LandTest, MayLand
    <2>10. CASE LandGimbal \/ LandZoom
      <3>1. CASE LandGimbal
        BY <3>1 DEF LandGimbal, SendOrNot, Send
      <3>2. CASE LandZoom
        BY <3>2 DEF LandZoom, SendOrNot, Send
      <3>3. QED
        BY <2>10, <3>1, <3>2
    <2>11. CASE ClearActive
      BY <2>11 DEF ClearActive
    <2>12. CASE NotifyDone
      BY <2>12 DEF NotifyDone
    <2>13. QED
      BY <1>3, <2>1, <2>2, <2>3, <2>4, <2>5, <2>6, <2>7, <2>8, <2>9, <2>10, <2>11,
         <2>12 DEF motion_loop
  <1>4. CASE WaitEnter
    BY <1>4 DEF WaitEnter
  <1>5. CASE motion_wait_idle
    <2>1. CASE WaitCheck
      BY <2>1 DEF WaitCheck, IdlePredicate
    <2>2. CASE WaitPark
      BY <2>2 DEF WaitPark
    <2>3. CASE WaitExpire
      BY <2>3 DEF WaitExpire
    <2>4. CASE WaitExpired
      <3> USE <2>4 DEF WaitExpired
      <3>1. CASE IdlePredicate
        <4>1. wpc' = "idle" /\ UNCHANGED <<plannerVars, stop_pc, histVars>>
          BY <3>1
        <4>2. ppc \notin Driving /\ ~have_pending
          BY <3>1 DEF IdlePredicate
        <4>3. WaitCoversMove'
          BY <4>1, <4>2
        <4>4. QED
          BY <4>1, <4>3
      <3>2. CASE ~IdlePredicate
        BY <3>2
      <3>3. QED
        BY <3>1, <3>2
    <2>5. QED
      BY <1>5, <2>1, <2>2, <2>3, <2>4 DEF motion_wait_idle
  <1>6. CASE stop
    <2>1. CASE StopQuit
      BY <2>1 DEF StopQuit
    <2>2. CASE StopCancel
      BY <2>2 DEF StopCancel, MarkPreempted
    <2>3. CASE StopNotify
      BY <2>3 DEF StopNotify, NotifyPlanner
    <2>4. CASE StopJoin
      BY <2>4 DEF StopJoin
    <2>5. QED
      BY <1>6, <2>1, <2>2, <2>3, <2>4 DEF stop
  <1>7. CASE UNCHANGED vars
    BY <1>7 DEF vars
  <1>8. QED
    BY <1>1, <1>2, <1>3, <1>4, <1>5, <1>6, <1>7 DEF Next

THEOREM Invariance == Spec => []IInv
  BY InitIInv, NextIInv, PTL DEF Spec

(* The variables keep their types and motion_mu_ its holders.               *)
THEOREM TypeCorrect == Spec => []TypeOK
  BY Invariance, PTL DEF IInv

(* motion_wait_idle reports idle only when the move it was called for is    *)
(* neither queued nor moving.                                               *)
THEOREM WaitCovers == Spec => []WaitCoversMove
  BY Invariance, PTL DEF IInv

(* A move that was cancelled or superseded after it was dequeued sends at   *)
(* most two more commands: the parts of the waypoint whose check had passed. *)
THEOREM CancelBounded == Spec => []CancelBites
  <1>1. IInv => CancelBites
    BY DEF IInv, LateInv, CancelBites
  <1>2. QED
    BY <1>1, Invariance, PTL

-----------------------------------------------------------------------------
(* The planner implements the one-slot promise: every step of its threads   *)
(* is a step of MoveSlot on the mapped variables or leaves them unchanged.  *)
THEOREM Refinement == Spec => ImplementsMoveSlot
  <1> USE PlannerAssumption DEF NoMove, Slot!NoMove, Slot!Moves, Moves, Slot!Unlimited, Slot!Preempted
  <1>1. Init => Slot!Init
    BY DEF Init, Slot!Init, Driving
  <1>2. IInv /\ IInv' /\ [Next]_vars => [Slot!Next]_Slot!slotVars
    <2> SUFFICES ASSUME IInv, IInv', [Next]_vars PROVE [Slot!Next]_Slot!slotVars
      OBVIOUS
    <2> USE DEF IInv, TypeOK, ActiveInv, QueueInv, LateInv, PlannerSteps, Driving,
                plannerVars, histVars
    <2>1. CASE motion_start
      <3>1. Slot!Request(issued')
        BY <2>1 DEF motion_start, NotifyPlanner, MarkPreempted, Slot!Request
      <3>2. issued' \in 1..MaxMoves
        BY <2>1 DEF motion_start
      <3>3. QED
        BY <3>1, <3>2 DEF Slot!Next
    <2>2. CASE motion_cancel
      BY <2>2 DEF motion_cancel, NotifyPlanner, MarkPreempted, Slot!Cancel, Slot!Next
    <2>3. CASE Dequeue
      BY <2>3 DEF Dequeue, Slot!Take, Slot!Next
    <2>4. CASE Begin \/ TickGimbal \/ LandGimbal
      <3>1. CASE Send
        BY <2>4, <3>1 DEF Begin, TickGimbal, LandGimbal, Send, Slot!Command, Slot!Next
      <3>2. CASE UNCHANGED histVars
        BY <2>4, <3>2 DEF Begin, TickGimbal, LandGimbal, Slot!slotVars
      <3>3. QED
        BY <2>4, <3>1, <3>2 DEF Begin, TickGimbal, LandGimbal, SendOrNot
    <2>5. CASE TickZoom \/ LandZoom
      <3>1. CASE Send
        BY <2>5, <3>1 DEF TickZoom, LandZoom, Send, Slot!Command, Slot!Next
      <3>2. CASE UNCHANGED histVars
        BY <2>5, <3>2 DEF TickZoom, LandZoom, Slot!slotVars
      <3>3. QED
        BY <2>5, <3>1, <3>2 DEF TickZoom, LandZoom, SendOrNot
    <2>7. CASE ClearActive
      BY <2>7 DEF ClearActive, Slot!Finish, Slot!Next
    <2>8. CASE LoopTop \/ QuitSeen \/ FoundNothing \/ Park \/ TickTest \/ LandTest \/ NotifyDone
      BY <2>8 DEF LoopTop, QuitSeen, FoundNothing, Park, TickTest, LandTest, NotifyDone,
                  Slot!slotVars
    <2>9. CASE WaitEnter \/ motion_wait_idle
      BY <2>9 DEF WaitEnter, motion_wait_idle, WaitCheck, WaitPark, WaitExpire, WaitExpired,
                  Slot!slotVars
    <2>10. CASE StopCancel
      BY <2>10 DEF StopCancel, MarkPreempted, Slot!Cancel, Slot!Next
    <2>11. CASE StopQuit \/ StopNotify \/ StopJoin
      BY <2>11 DEF StopQuit, StopNotify, StopJoin, NotifyPlanner, Slot!slotVars
    <2>12. CASE UNCHANGED vars
      BY <2>12 DEF vars, Slot!slotVars
    <2>13. QED
      BY <2>1, <2>2, <2>3, <2>4, <2>5, <2>7, <2>8, <2>9, <2>10, <2>11, <2>12
         DEF Next, motion_loop, stop
  <1>3. QED
    BY <1>1, <1>2, Invariance, PTL DEF Spec, ImplementsMoveSlot, Slot!Spec

-----------------------------------------------------------------------------
(* The queue, the worker, the gimbal and the AI latch.                      *)

Items == [kind : Commands, age : 0..MaxLag]

(* The worker has an item exactly while it handles one.                     *)
ItemInv ==
  /\ q \in Seq(Items)
  /\ wkpc \in {"drain", "act", "move", "watchdog"}
  /\ IF wkpc \in {"act", "move"} THEN item \in Items ELSE item = NoItem

(* A call that has begun is one that cancels first; what is queued or about *)
(* to be was called.                                                        *)
CallInv ==
  /\ IF calling = NoCall THEN Len(q) <= calls
     ELSE /\ calling \in [kind : Commands \cap CancelsAtCall, quiet : BOOLEAN]
          /\ Len(q) + 1 <= calls
  /\ calls \in 0..MaxCalls
  /\ lastCall \in [class : {"stop", "preempting", "other"}, quiet : BOOLEAN]

GimbalInv ==
  /\ velocity_active \in BOOLEAN /\ turning \in BOOLEAN /\ missed \in BOOLEAN
  /\ vage \in 0..MaxAge

AiInv ==
  /\ ai_on \in BOOLEAN /\ ai_refused \in BOOLEAN /\ ai_disabled_for_manual \in BOOLEAN
  /\ FlagMeansAiOff

(* The variables of the sequence thread keep their types.                   *)
SequenceInv ==
  /\ sequencing \in BOOLEAN /\ spc \in {"off", "step", "move", "rest"} /\ steps \in 0..MaxSteps

(* While a quiet call is the last one, there is no command about that could *)
(* start a move: those that are have cancelled one, and no step of a        *)
(* sequence is being taken.                                                 *)
QuietInv ==
  /\ calling.quiet => q = <<>> /\ wkpc \notin {"act", "move"}
  /\ calling.quiet \/ lastCall.quiet => spc \in {"off", "rest"}
  /\ lastCall.quiet => /\ \A i \in 1..Len(q) : q[i].kind \in CancelsAtCall
                       /\ wkpc # "move"
                       /\ wkpc = "act" => item.kind \in CancelsAtCall

WInv == ItemInv /\ CallInv /\ GimbalInv /\ AiInv /\ QuietInv /\ PreemptingCallHolds

-----------------------------------------------------------------------------
(* The planner's part of a step.                                            *)
LEMMA PlannerPart ==
  ASSUME SessionNext
  PROVE  [Next]_vars
BY DEF SessionNext, Submit, CallCancels, CancelAhead, CallQueues, worker_loop, Pop,
   cmd_ptz_velocity, cmd_ptz_stop, cmd_ptz_recenter, cmd_ptz_angle, cmd_zoom_set,
   cmd_zoom_set_smooth, cmd_zoom_drive, cmd_zoom_stop, cmd_preset_recall, cmd_ai_set_mode,
   cmd_ai_set_enabled, cmd_sequence_start, cmd_sequence_stop, EndOfDrain, Watchdog, TimePasses,
   sequence_loop, StepCancels, StepMoves, NextStep, SequenceEnds, Planner, StartPlannedMove, MoveAtOnce,
   CancelThenGoOn, ZoomAtOnce, Next

(* Without a target, a planner whose move is cancelled leaves it at that.   *)
LEMMA PlannerStaysIdle ==
  ASSUME motion_loop, ~have_pending, ppc \in Driving => cancel
  PROVE  ~have_pending' /\ (ppc' \in Driving => cancel')
BY DEF motion_loop, LoopTop, QuitSeen, Dequeue, FoundNothing, Park, Begin, TickTest, TickGimbal,
   TickZoom, LandTest, LandGimbal, LandZoom, ClearActive, NotifyDone, Driving

LEMMA Cancelled ==
  ASSUME motion_cancel
  PROVE  cancel' = TRUE /\ have_pending' = have_pending
BY DEF motion_cancel

-----------------------------------------------------------------------------
LEMMA Numbers ==
  /\ MaxLag \in Nat /\ MaxAge \in Nat /\ MaxLag <= MaxAge /\ MaxCalls \in Nat
  /\ 0 \in 0..MaxLag /\ MaxAge \in 0..MaxAge
  /\ Commands \subseteq Kinds /\ "none" \notin Commands
BY WorkerAssumption DEF MaxAge, Kinds

LEMMA WInvInit == SessionInit => WInv
<1> SUFFICES ASSUME SessionInit PROVE WInv
  OBVIOUS
<1>1. ItemInv
  BY DEF SessionInit, ItemInv
<1>2. CallInv
  BY Numbers DEF SessionInit, CallInv
<1>3. GimbalInv /\ AiInv
  BY Numbers DEF SessionInit, GimbalInv, AiInv, FlagMeansAiOff
<1>4. QuietInv /\ PreemptingCallHolds
  BY DEF SessionInit, QuietInv, PreemptingCallHolds, NoCall
<1> QED
  BY <1>1, <1>2, <1>3, <1>4 DEF WInv

(* A command is queued.                                                     *)
LEMMA Queued ==
  ASSUME q \in Seq(Items), NEW k \in Commands, NEW quiet \in BOOLEAN, Enqueue(k, quiet)
  PROVE  /\ q' \in Seq(Items) /\ Len(q') = Len(q) + 1 /\ Len(q) \in Nat
         /\ q = <<>> => \A i \in 1..Len(q') : q'[i].kind = k
         /\ lastCall' \in [class : {"stop", "preempting", "other"}, quiet : BOOLEAN]
         /\ lastCall'.quiet = quiet
<1>1. [kind |-> k, age |-> 0] \in Items
  BY Numbers DEF Items
<1>2. CallClass(k) \in {"stop", "preempting", "other"}
  BY DEF CallClass
<1> QED
  BY <1>1, <1>2 DEF Enqueue

(* Something comes in the way of a call under way.                          *)
LEMMA CallOvertaken ==
  ASSUME CallInv, calling' = [calling EXCEPT !.quiet = FALSE]
  PROVE  /\ calling'.quiet = FALSE /\ (calling = NoCall <=> calling' = NoCall)
         /\ calling # NoCall => calling' \in [kind : Commands \cap CancelsAtCall, quiet : BOOLEAN]
<1>1. CASE calling = NoCall
  BY <1>1 DEF NoCall
<1>2. CASE calling # NoCall
  <2>1. calling \in [kind : Commands \cap CancelsAtCall, quiet : BOOLEAN]
    BY <1>2 DEF CallInv
  <2>2. calling' \in [kind : Commands \cap CancelsAtCall, quiet : BOOLEAN] /\ ~calling'.quiet
    BY <2>1
  <2>3. calling' # NoCall
    BY <2>2, Numbers DEF NoCall
  <2> QED
    BY <1>2, <2>2, <2>3
<1> QED
  BY <1>1, <1>2

LEMMA WInvCalls ==
  ASSUME WInv, (\E k \in Commands : Submit(k) \/ CallCancels(k)) \/ CallQueues
  PROVE  WInv'
<1> USE DEF WInv
<1>1. ASSUME NEW k \in Commands, Submit(k) PROVE WInv'
  <2>1. Enqueue(k, FALSE) /\ q \in Seq(Items)
    BY <1>1 DEF Submit, ItemInv
  <2>2. /\ q' \in Seq(Items) /\ Len(q') = Len(q) + 1 /\ Len(q) \in Nat
        /\ lastCall' \in [class : {"stop", "preempting", "other"}, quiet : BOOLEAN]
        /\ lastCall'.quiet = FALSE
    BY <2>1, Queued
  <2>3. calls' = calls + 1 /\ calls' \in 0..MaxCalls /\ UNCHANGED <<wkpc, item>>
    BY <1>1, Numbers DEF Submit, CallInv
  <2>4. calling' = [calling EXCEPT !.quiet = FALSE]
    BY <1>1 DEF Submit
  <2>5. calling'.quiet = FALSE /\ (calling = NoCall <=> calling' = NoCall)
        /\ (calling # NoCall => calling' \in [kind : Commands \cap CancelsAtCall, quiet : BOOLEAN])
    BY <2>4, CallOvertaken
  <2>6. ItemInv' /\ CallInv'
    BY <2>2, <2>3, <2>5 DEF ItemInv, CallInv
  <2>7. GimbalInv' /\ AiInv'
    BY <1>1 DEF Submit, GimbalInv, AiInv, FlagMeansAiOff, aiVars, gimbalVars
  <2>8. QuietInv' /\ PreemptingCallHolds'
    BY <2>2, <2>5 DEF QuietInv, PreemptingCallHolds
  <2> QED
    BY <2>6, <2>7, <2>8
<1>2. ASSUME NEW k \in Commands, CallCancels(k) PROVE WInv'
  <2>1. /\ k \in CancelsAtCall /\ calling = NoCall /\ calls' = calls + 1 /\ calls' \in 0..MaxCalls
        /\ calling' = [kind |-> k, quiet |-> Quiet]
        /\ UNCHANGED <<q, wkpc, item, velocity_active, vage, aiVars, gimbalVars, lastCall, spc>>
    BY <1>2, Numbers DEF CallCancels, CallInv, seqVars
  <2>2. Quiet \in BOOLEAN
    BY DEF Quiet
  <2>3. calling' # NoCall /\ calling' \in [kind : Commands \cap CancelsAtCall, quiet : BOOLEAN]
    BY <2>1, <2>2, Numbers DEF NoCall
  <2>4. cancel' = TRUE /\ have_pending' = have_pending
    BY <1>2, Cancelled DEF CallCancels, CancelAhead
  <2>5. ItemInv'
    BY <2>1 DEF ItemInv
  <2>6. CallInv'
    BY <2>1, <2>3 DEF CallInv, ItemInv
  <2>7. GimbalInv' /\ AiInv'
    BY <2>1 DEF GimbalInv, AiInv, FlagMeansAiOff, aiVars, gimbalVars
  <2>8. QuietInv'
    BY <2>1 DEF QuietInv, Quiet
  <2>9. PreemptingCallHolds'
    BY <2>1, <2>4 DEF PreemptingCallHolds, Quiet
  <2> QED
    BY <2>5, <2>6, <2>7, <2>8, <2>9
<1>3. CASE CallQueues
  <2>1. /\ calling \in [kind : Commands \cap CancelsAtCall, quiet : BOOLEAN] /\ calling # NoCall
        /\ Enqueue(calling.kind, calling.quiet) /\ calling' = NoCall
        /\ UNCHANGED <<vars, wkpc, item, velocity_active, vage, aiVars, gimbalVars, calls, spc>>
    BY <1>3 DEF CallQueues, CallInv, seqVars
  <2>2. /\ q' \in Seq(Items) /\ Len(q') = Len(q) + 1 /\ Len(q) \in Nat
        /\ q = <<>> => \A i \in 1..Len(q') : q'[i].kind = calling.kind
        /\ lastCall' \in [class : {"stop", "preempting", "other"}, quiet : BOOLEAN]
        /\ lastCall'.quiet = calling.quiet
    BY <2>1, Queued DEF ItemInv
  <2>3. ItemInv' /\ CallInv'
    BY <2>1, <2>2 DEF ItemInv, CallInv
  <2>4. GimbalInv' /\ AiInv'
    BY <2>1 DEF GimbalInv, AiInv, FlagMeansAiOff, aiVars, gimbalVars
  <2>5. QuietInv'
    BY <2>1, <2>2 DEF QuietInv, NoCall
  <2>6. PreemptingCallHolds'
    BY <2>1, <2>2 DEF PreemptingCallHolds, NoCall, vars, plannerVars
  <2> QED
    BY <2>3, <2>4, <2>5, <2>6
<1> QED
  BY <1>1, <1>2, <1>3

-----------------------------------------------------------------------------
(* What the handlers do to the gimbal and to AI.                            *)
LEMMA GimbalKept ==
  ASSUME WInv, NEW stopping \in BOOLEAN
  PROVE  /\ GimbalSpeed(stopping) => /\ velocity_active' \in BOOLEAN
                                     /\ turning' \in BOOLEAN /\ missed' \in BOOLEAN
         /\ GimbalMove => turning' \in BOOLEAN /\ missed' \in BOOLEAN
BY DEF WInv, GimbalInv, GimbalSpeed, SpeedSet, SpeedRefused, GimbalMove, gimbalVars

LEMMA AiOffKept ==
  ASSUME WInv, AiOff \/ AiOffOnce
  PROVE  AiInv'
<1>1. CASE UNCHANGED aiVars
  BY <1>1 DEF WInv, AiInv, FlagMeansAiOff, aiVars
<1>2. CASE AiOff
  BY <1>2 DEF WInv, AiInv, FlagMeansAiOff, AiOff, AiCall
<1> QED
  BY <1>1, <1>2 DEF AiOffOnce

(* A handler that ends, or has a second step to come; a sequence is started *)
(* by a command that does not cancel at its call.                           *)
LEMMA HandlerKept ==
  ASSUME WInv, \/ Done /\ UNCHANGED spc
               \/ Done /\ wkpc = "act" /\ item.kind \notin CancelsAtCall
               \/ GoOn /\ wkpc = "act" /\ item.kind \notin CancelsAtCall
  PROVE  ItemInv' /\ CallInv' /\ QuietInv'
<1>1. CASE Done /\ UNCHANGED spc
  BY <1>1 DEF WInv, Done, ItemInv, CallInv, QuietInv
<1>3. CASE Done /\ wkpc = "act" /\ item.kind \notin CancelsAtCall
  <2>1. ~lastCall.quiet /\ ~calling.quiet
    BY <1>3 DEF WInv, QuietInv
  <2> QED
    BY <1>3, <2>1 DEF WInv, Done, ItemInv, CallInv, QuietInv
<1>2. CASE GoOn /\ wkpc = "act" /\ item.kind \notin CancelsAtCall
  <2>1. ~lastCall.quiet /\ ~calling.quiet
    BY <1>2 DEF WInv, QuietInv
  <2> QED
    BY <1>2, <2>1 DEF WInv, GoOn, ItemInv, CallInv, QuietInv
<1> QED
  BY <1>1, <1>2, <1>3

(* No move is started while a quiet call is the last one.                   *)
LEMMA HoldsKept ==
  ASSUME WInv, UNCHANGED <<calling, lastCall>>,
         \/ UNCHANGED vars
         \/ motion_cancel
         \/ wkpc = "move"
  PROVE  PreemptingCallHolds'
<1>1. CASE UNCHANGED vars
  BY <1>1 DEF WInv, PreemptingCallHolds, vars, plannerVars
<1>2. CASE motion_cancel
  BY <1>2, Cancelled DEF WInv, PreemptingCallHolds
<1>3. CASE wkpc = "move"
  BY <1>3 DEF WInv, QuietInv, PreemptingCallHolds
<1> QED
  BY <1>1, <1>2, <1>3

LEMMA WInvHandlers ==
  ASSUME WInv,
         \/ cmd_ptz_velocity \/ cmd_ptz_stop \/ cmd_ptz_recenter \/ cmd_ptz_angle
         \/ cmd_zoom_set \/ cmd_zoom_set_smooth \/ cmd_zoom_drive \/ cmd_zoom_stop
         \/ cmd_preset_recall \/ cmd_ai_set_mode \/ cmd_ai_set_enabled
         \/ cmd_sequence_start \/ cmd_sequence_stop
  PROVE  WInv'
<1>0. ItemInv /\ CallInv /\ GimbalInv /\ AiInv /\ QuietInv /\ PreemptingCallHolds
  BY DEF WInv
<1>1. /\ \/ Done /\ UNCHANGED spc
         \/ Done /\ wkpc = "act" /\ item.kind \notin CancelsAtCall
         \/ GoOn /\ wkpc = "act" /\ item.kind \notin CancelsAtCall
      /\ UNCHANGED <<calling, lastCall>>
      /\ UNCHANGED vars \/ motion_cancel \/ wkpc = "move"
  BY DEF cmd_ptz_velocity, cmd_ptz_stop, cmd_ptz_recenter, cmd_ptz_angle, cmd_zoom_set,
     cmd_zoom_set_smooth, cmd_zoom_drive, cmd_zoom_stop, cmd_preset_recall, cmd_ai_set_mode,
     cmd_ai_set_enabled, cmd_sequence_start, cmd_sequence_stop, StartPlannedMove, MoveAtOnce,
     CancelThenGoOn, ZoomAtOnce, Handling, Finishing, Done, GoOn, CancelsAtCall, seqVars
<1>2. ItemInv' /\ CallInv' /\ QuietInv' /\ PreemptingCallHolds'
  BY <1>1, HandlerKept, HoldsKept
<1>3. AiInv'
  <2>1. CASE UNCHANGED aiVars
    BY <1>0, <2>1 DEF AiInv, FlagMeansAiOff, aiVars
  <2>2. CASE AiOff \/ AiOffOnce
    BY <2>2, AiOffKept
  <2>3. CASE cmd_ai_set_mode
    <3>1. CASE item.kind = "ai_unknown"
      BY <1>0, <2>3, <3>1 DEF cmd_ai_set_mode, AiInv, FlagMeansAiOff
    <3>2. CASE item.kind # "ai_unknown"
      BY <1>0, <2>3, <3>2 DEF cmd_ai_set_mode, AiInv, FlagMeansAiOff, AiCall, Handling
    <3> QED
      BY <3>1, <3>2
  <2>4. CASE cmd_ai_set_enabled
    BY <1>0, <2>4 DEF cmd_ai_set_enabled, AiInv, FlagMeansAiOff, AiCall, FlagAfterEnable
  <2> QED
    BY <2>1, <2>2, <2>3, <2>4 DEF cmd_ptz_velocity, cmd_ptz_stop, cmd_ptz_recenter, cmd_ptz_angle,
       cmd_zoom_set, cmd_zoom_set_smooth, cmd_zoom_drive, cmd_zoom_stop, cmd_preset_recall,
       cmd_sequence_start, cmd_sequence_stop, StartPlannedMove, MoveAtOnce, CancelThenGoOn, ZoomAtOnce
<1>4. GimbalInv'
  <2>1. CASE UNCHANGED <<velocity_active, vage, gimbalVars>>
    BY <1>0, <2>1 DEF GimbalInv, gimbalVars
  <2>2. CASE GimbalMove /\ UNCHANGED <<velocity_active, vage>>
    BY <1>0, <2>2, GimbalKept DEF GimbalInv
  <2>3. CASE cmd_ptz_velocity
    <3>1. item.age \in 0..MaxAge
      BY <1>0, <2>3, Numbers DEF cmd_ptz_velocity, Handling, ItemInv, Items
    <3>2. \/ UNCHANGED <<velocity_active, vage, turning, missed>>
          \/ vage' = item.age /\ GimbalSpeed(item.kind = "velocity_zero")
      BY <2>3 DEF cmd_ptz_velocity, gimbalVars
    <3>3. (item.kind = "velocity_zero") \in BOOLEAN
      OBVIOUS
    <3> QED
      BY <1>0, <3>1, <3>2, <3>3, GimbalKept DEF GimbalInv
  <2>4. CASE cmd_ptz_stop
    BY <1>0, <2>4, GimbalKept DEF cmd_ptz_stop, GimbalInv
  <2> QED
    BY <2>1, <2>2, <2>3, <2>4 DEF cmd_ptz_recenter, cmd_ptz_angle,
       cmd_zoom_set, cmd_zoom_set_smooth, cmd_zoom_drive, cmd_zoom_stop, cmd_preset_recall,
       cmd_ai_set_mode, cmd_ai_set_enabled, cmd_sequence_start, cmd_sequence_stop,
       StartPlannedMove, MoveAtOnce, CancelThenGoOn, ZoomAtOnce
<1> QED
  BY <1>2, <1>3, <1>4 DEF WInv

(* The worker's rounds.                                                     *)
LEMMA WInvRounds ==
  ASSUME WInv, Pop \/ EndOfDrain \/ Watchdog
  PROVE  WInv'
<1>0. ItemInv /\ CallInv /\ GimbalInv /\ AiInv /\ QuietInv /\ PreemptingCallHolds
  BY DEF WInv
<1>1. UNCHANGED <<vars, vage, aiVars, calling, calls, lastCall, spc>>
  BY DEF Pop, EndOfDrain, Watchdog, seqVars
<1>2. AiInv' /\ PreemptingCallHolds'
  BY <1>0, <1>1, HoldsKept DEF AiInv, FlagMeansAiOff, aiVars
<1>3. CASE Pop
  <2>1. q # <<>> /\ item' = q[1] /\ q' = Tail(q) /\ wkpc' = "act"
        /\ UNCHANGED <<velocity_active, turning, missed>>
    BY <1>3 DEF Pop, gimbalVars
  <2>2. /\ q \in Seq(Items) /\ Len(q) \in Nat /\ Len(q) > 0 /\ q' \in Seq(Items)
        /\ Len(q') = Len(q) - 1 /\ \A i \in 1..Len(q') : q'[i] = q[i + 1] /\ i + 1 \in 1..Len(q)
        /\ q[1] \in Items /\ 1 \in 1..Len(q)
    BY <1>0, <2>1 DEF ItemInv
  <2>3. ItemInv'
    BY <2>1, <2>2 DEF ItemInv
  <2>4. CallInv'
    BY <1>0, <1>1, <2>2 DEF CallInv
  <2>5. QuietInv'
    <3>1. ~calling'.quiet
      BY <1>0, <1>1, <2>1 DEF QuietInv
    <3>2. lastCall'.quiet => /\ \A i \in 1..Len(q') : q'[i].kind \in CancelsAtCall
                             /\ item'.kind \in CancelsAtCall
      BY <1>0, <1>1, <2>1, <2>2 DEF QuietInv
    <3> QED
      BY <1>0, <1>1, <2>1, <3>1, <3>2 DEF QuietInv
  <2> QED
    BY <1>0, <1>1, <1>2, <2>1, <2>3, <2>4, <2>5 DEF WInv, GimbalInv
<1>4. CASE EndOfDrain \/ Watchdog
  <2>1. wkpc \notin {"act", "move"} /\ wkpc' \in {"drain", "watchdog"} /\ UNCHANGED <<q, item>>
    BY <1>4 DEF EndOfDrain, Watchdog
  <2>2. ItemInv' /\ CallInv' /\ QuietInv'
    BY <1>0, <1>1, <2>1 DEF ItemInv, CallInv, QuietInv
  <2>3. velocity_active' \in BOOLEAN /\ turning' \in BOOLEAN /\ missed' \in BOOLEAN
    <3>1. CASE EndOfDrain
      BY <1>0, <3>1 DEF EndOfDrain, GimbalInv, gimbalVars
    <3>2. CASE Watchdog
      BY <1>0, <3>2 DEF Watchdog, WatchdogStops, GimbalInv, gimbalVars
    <3> QED
      BY <1>4, <3>1, <3>2
  <2> QED
    BY <1>0, <1>1, <1>2, <2>2, <2>3 DEF WInv, GimbalInv
<1> QED
  BY <1>3, <1>4

LEMMA FunctionIsSeq ==
  ASSUME NEW S, NEW n \in Nat, NEW f \in [1..n -> S]
  PROVE  f \in Seq(S) /\ Len(f) = n
<1>1. f \in Seq(S)
  BY SeqDef
<1>2. 1..n = 1..Len(f) /\ Len(f) \in Nat
  BY <1>1, LenProperties
<1>3. n <= Len(f) /\ Len(f) <= n
  <2>1. n > 0 => n \in 1..Len(f)
    BY <1>2
  <2>2. Len(f) > 0 => Len(f) \in 1..n
    BY <1>2
  <2> QED
    BY <1>2, <2>1, <2>2
<1> QED
  BY <1>1, <1>2, <1>3

LEMMA WInvTime ==
  ASSUME WInv, TimePasses
  PROVE  WInv'
<1>0. ItemInv /\ CallInv /\ GimbalInv /\ AiInv /\ QuietInv /\ PreemptingCallHolds
  BY DEF WInv
<1>1. UNCHANGED <<vars, wkpc, velocity_active, aiVars, turning, missed, calling, calls, lastCall, spc>>
  BY DEF TimePasses, gimbalVars, seqVars
<1>2. /\ q \in Seq(Items) /\ Len(q) \in Nat
      /\ q' = [i \in 1..Len(q) |-> [q[i] EXCEPT !.age = @ + 1]]
  BY <1>0 DEF ItemInv, TimePasses
<1>3. \A i \in 1..Len(q) : [q[i] EXCEPT !.age = @ + 1] \in Items
  <2> TAKE i \in 1..Len(q)
  <2>1. q[i] \in Items /\ q[i].age < MaxLag
    BY <1>2 DEF TimePasses
  <2> QED
    BY <2>1, Numbers DEF Items
<1>4. q' \in Seq(Items) /\ Len(q') = Len(q) /\ \A i \in 1..Len(q) : q'[i].kind = q[i].kind
  <2>1. q' \in Seq(Items) /\ Len(q') = Len(q)
    <3>1. q' \in [1..Len(q) -> Items]
      BY <1>2, <1>3
    <3> QED
      BY <1>2, <3>1, FunctionIsSeq
  <2>2. \A i \in 1..Len(q) : q'[i].kind = q[i].kind
    <3> SUFFICES ASSUME NEW i \in 1..Len(q) PROVE q'[i].kind = q[i].kind
      OBVIOUS
    <3>1. q[i] \in Items /\ q'[i] = [q[i] EXCEPT !.age = @ + 1]
      BY <1>2
    <3> QED
      BY <3>1 DEF Items
  <2> QED
    BY <2>1, <2>2
<1>5. IF wkpc \in {"act", "move"} THEN item' \in Items /\ item'.kind = item.kind ELSE item' = NoItem
  <2>1. CASE item = NoItem
    <3>1. item' = item
      BY <2>1 DEF TimePasses
    <3> QED
      BY <1>0, <2>1, <3>1 DEF ItemInv
  <2>2. CASE item # NoItem
    <3>1. item \in Items /\ item.age < MaxLag /\ item' = [item EXCEPT !.age = @ + 1]
          /\ wkpc \in {"act", "move"}
      BY <1>0, <2>2 DEF TimePasses, ItemInv
    <3> QED
      BY <3>1, Numbers DEF Items
  <2> QED
    BY <2>1, <2>2
<1>6. ItemInv' /\ CallInv'
  BY <1>0, <1>1, <1>4, <1>5 DEF ItemInv, CallInv
<1>7. GimbalInv'
  <2>1. vage' \in 0..MaxAge
    BY <1>0, Numbers DEF TimePasses, GimbalInv
  <2> QED
    BY <1>0, <1>1, <2>1 DEF GimbalInv
<1>8. AiInv' /\ PreemptingCallHolds'
  BY <1>0, <1>1, HoldsKept DEF AiInv, FlagMeansAiOff, aiVars
<1>9. QuietInv'
  <2>1. q = <<>> => q' = <<>>
    BY <1>2, <1>4
  <2> QED
    BY <1>0, <1>1, <1>4, <1>5, <2>1 DEF QuietInv
<1> QED
  BY <1>6, <1>7, <1>8, <1>9 DEF WInv

LEMMA WInvPlanner ==
  ASSUME WInv, Planner
  PROVE  WInv'
<1>1. motion_loop /\ UNCHANGED workVars
  BY DEF Planner
<1>2. PreemptingCallHolds'
  BY <1>1, PlannerStaysIdle DEF WInv, PreemptingCallHolds, workVars
<1> QED
  BY <1>1, <1>2 DEF WInv, ItemInv, CallInv, GimbalInv, AiInv, FlagMeansAiOff, QuietInv, workVars,
     aiVars, gimbalVars, seqVars

(* The sequence thread: it is in the way of nothing but planner, AI and     *)
(* gimbal, and takes no step under a quiet call that it does not end.       *)
LEMMA WInvSequence ==
  ASSUME WInv, sequence_loop
  PROVE  WInv'
<1>0. ItemInv /\ CallInv /\ GimbalInv /\ AiInv /\ QuietInv /\ PreemptingCallHolds
  BY DEF WInv
<1>1. UNCHANGED <<q, wkpc, item, velocity_active, vage, calls>>
  BY DEF sequence_loop, StepCancels, StepMoves, NextStep, SequenceEnds
<1>2. ItemInv'
  BY <1>0, <1>1 DEF ItemInv
<1>3. GimbalInv'
  BY <1>0, <1>1, GimbalKept DEF sequence_loop, StepCancels, StepMoves, NextStep, SequenceEnds, GimbalInv,
     gimbalVars
<1>4. AiInv'
  <2>1. CASE StepCancels
    BY <1>0, <2>1 DEF StepCancels, AiInv, FlagMeansAiOff, AiCall
  <2>2. CASE UNCHANGED aiVars
    BY <1>0, <2>2 DEF AiInv, FlagMeansAiOff, aiVars
  <2> QED
    BY <2>1, <2>2 DEF sequence_loop, StepMoves, NextStep, SequenceEnds
<1>5. CASE NextStep
  <2>1. /\ calling' = [calling EXCEPT !.quiet = FALSE] /\ lastCall' = [lastCall EXCEPT !.quiet = FALSE]
        /\ UNCHANGED <<q, wkpc, item, calls, have_pending, ppc, cancel>>
    BY <1>5 DEF NextStep, vars, plannerVars
  <2>2. lastCall' \in [class : {"stop", "preempting", "other"}, quiet : BOOLEAN] /\ ~lastCall'.quiet
    BY <1>0, <2>1 DEF CallInv
  <2>3. calling'.quiet = FALSE /\ (calling = NoCall <=> calling' = NoCall)
        /\ (calling # NoCall => calling' \in [kind : Commands \cap CancelsAtCall, quiet : BOOLEAN])
    BY <1>0, <2>1, CallOvertaken
  <2>4. CallInv'
    BY <1>0, <2>1, <2>2, <2>3 DEF CallInv
  <2>5. QuietInv' /\ PreemptingCallHolds'
    BY <2>2, <2>3 DEF QuietInv, PreemptingCallHolds
  <2> QED
    BY <1>2, <1>3, <1>4, <2>4, <2>5 DEF WInv
<1>6. CASE StepCancels \/ StepMoves \/ SequenceEnds
  <2>1. UNCHANGED <<calling, lastCall>>
    BY <1>6 DEF StepCancels, StepMoves, SequenceEnds
  <2>2. CallInv'
    BY <1>0, <1>1, <2>1 DEF CallInv
  <2>3. QuietInv'
    BY <1>0, <1>1, <1>6, <2>1 DEF QuietInv, StepCancels, StepMoves, SequenceEnds
  <2>4. PreemptingCallHolds'
    BY <1>0, <1>6, <2>1 DEF QuietInv, PreemptingCallHolds, StepCancels, StepMoves, SequenceEnds, vars,
       plannerVars
  <2> QED
    BY <1>2, <1>3, <1>4, <2>2, <2>3, <2>4 DEF WInv
<1> QED
  BY <1>5, <1>6 DEF sequence_loop

LEMMA SequenceKept ==
  ASSUME SequenceInv, [SessionNext]_sessionVars
  PROVE  SequenceInv'
<1>1. CASE UNCHANGED seqVars
  BY <1>1 DEF SequenceInv, seqVars
<1>2. CASE cmd_sequence_start \/ cmd_sequence_stop \/ sequence_loop
  <2>1. MaxSteps \in Nat
    BY WorkerAssumption
  <2>2. CASE steps' = steps + 1 /\ steps < MaxSteps /\ spc' = "step" /\ sequencing' \in BOOLEAN
    BY <2>1, <2>2 DEF SequenceInv
  <2>3. CASE UNCHANGED steps /\ spc' \in {"off", "move", "rest", spc} /\ sequencing' \in {FALSE, sequencing}
    BY <2>3 DEF SequenceInv
  <2>4. sequencing \in BOOLEAN
    BY DEF SequenceInv
  <2> QED
    BY <1>1, <1>2, <2>2, <2>3, <2>4 DEF cmd_sequence_start, cmd_sequence_stop, sequence_loop,
       StepCancels, StepMoves, NextStep, SequenceEnds
<1> QED
  BY <1>1, <1>2 DEF SessionNext, Submit, CallCancels, CallQueues, worker_loop, Pop, cmd_ptz_velocity,
     cmd_ptz_stop, cmd_ptz_recenter, cmd_ptz_angle, cmd_zoom_set, cmd_zoom_set_smooth, cmd_zoom_drive,
     cmd_zoom_stop, cmd_preset_recall, cmd_ai_set_mode, cmd_ai_set_enabled, EndOfDrain, Watchdog,
     TimePasses, Planner, StartPlannedMove, MoveAtOnce, CancelThenGoOn, ZoomAtOnce, sessionVars, workVars

THEOREM WInvariance == SessionSpec => [](IInv /\ WInv /\ SequenceInv)
<1>1. SessionInit => IInv /\ WInv /\ SequenceInv
  <2>1. SessionInit => SequenceInv
    <3>1. 0 \in 0..MaxSteps
      BY WorkerAssumption
    <3> QED
      BY <3>1, Zenon DEF SessionInit, SequenceInv
  <2> QED
    BY <2>1, WInvInit, InitIInv DEF SessionInit
<1>2. IInv /\ WInv /\ SequenceInv /\ [SessionNext]_sessionVars => IInv' /\ WInv' /\ SequenceInv'
  <2> SUFFICES ASSUME IInv, WInv, SequenceInv, [SessionNext]_sessionVars
               PROVE  IInv' /\ WInv' /\ SequenceInv'
    OBVIOUS
  <2>3. SequenceInv'
    BY SequenceKept
  <2>1. CASE SessionNext
    <3>1. IInv'
      BY <2>1, PlannerPart, NextIInv
    <3>2. WInv'
      BY <2>1, WInvCalls, WInvHandlers, WInvRounds, WInvTime, WInvPlanner, WInvSequence
         DEF SessionNext, worker_loop
    <3> QED
      BY <2>3, <3>1, <3>2
  <2>2. CASE UNCHANGED sessionVars
    <3>1. IInv'
      BY <2>2, NextIInv DEF sessionVars
    <3>2. WInv'
      BY <2>2, HoldsKept DEF WInv, ItemInv, CallInv, GimbalInv, AiInv, FlagMeansAiOff, QuietInv,
         sessionVars, workVars, aiVars, gimbalVars, seqVars
    <3> QED
      BY <2>3, <3>1, <3>2
  <2> QED
    BY <2>1, <2>2
<1> QED
  BY <1>1, <1>2, PTL DEF SessionSpec

(* The queue, the worker and the planner keep their types and bounds.       *)
THEOREM SessionTypeCorrect == SessionSpec => []SessionTypeOK
<1>1. IInv /\ WInv /\ SequenceInv => SessionTypeOK
  <2> SUFFICES ASSUME IInv, WInv, SequenceInv PROVE SessionTypeOK
    OBVIOUS
  <2>1. ItemInv /\ CallInv /\ GimbalInv /\ AiInv
    BY DEF WInv
  <2>2. Len(q) <= MaxCalls /\ \A i \in 1..Len(q) : q[i].kind \in Commands /\ q[i].age \in 0..MaxLag
    <3>1. q \in Seq(Items) /\ Len(q) \in Nat /\ Len(q) <= calls /\ calls \in 0..MaxCalls
      BY <2>1, Numbers DEF ItemInv, CallInv
    <3>2. Len(q) <= MaxCalls
      BY <3>1, Numbers
    <3>3. ASSUME NEW i \in 1..Len(q) PROVE q[i].kind \in Commands /\ q[i].age \in 0..MaxLag
      <4>1. q[i] \in Items
        BY <3>1
      <4> QED
        BY <4>1 DEF Items
    <3> QED
      BY <3>2, <3>3
  <2>3. item \in [kind : Commands \cup {"none"}, age : 0..MaxLag]
    BY <2>1, Numbers DEF ItemInv, Items, NoItem
  <2>5. Len(q) \in Nat /\ TypeOK
    BY <2>1 DEF ItemInv, IInv
  <2>4. calling \in [kind : Commands \cup {"none"}, quiet : BOOLEAN]
    <3>1. CASE calling = NoCall
      BY <3>1 DEF NoCall
    <3>2. CASE calling # NoCall
      BY <2>1, <3>2 DEF CallInv
    <3> QED
      BY <3>1, <3>2
  <2> QED
    BY <2>1, <2>2, <2>3, <2>4, <2>5 DEF SessionTypeOK, ItemInv, CallInv, GimbalInv, AiInv,
       SequenceInv
<1> QED
  BY <1>1, WInvariance, PTL

(* While the flag that spares AI-off is set, AI is off or refused to be.    *)
THEOREM FlagIsTrue == SessionSpec => []FlagMeansAiOff
<1>1. WInv => FlagMeansAiOff
  BY DEF WInv, AiInv
<1> QED
  BY <1>1, WInvariance, PTL

(* A stop, velocity or recenter into a quiet session ends all movement of   *)
(* the planner until another command comes or a sequence takes a step.      *)
THEOREM QuietCallHolds == SessionSpec => []PreemptingCallHolds
<1>1. WInv => PreemptingCallHolds
  BY DEF WInv
<1> QED
  BY <1>1, WInvariance, PTL

(* A turning gimbal is watched, unless the SDK refused the watchdog itself. *)
THEOREM Watched == SessionSpec => []TurningIsWatched
<1>1. SessionInit => TurningIsWatched
  BY DEF SessionInit, TurningIsWatched
<1>2. WInv /\ TurningIsWatched /\ [SessionNext]_sessionVars => TurningIsWatched'
  <2> SUFFICES ASSUME WInv, TurningIsWatched, [SessionNext]_sessionVars PROVE TurningIsWatched'
    OBVIOUS
  <2>1. velocity_active \in BOOLEAN /\ turning \in BOOLEAN /\ missed \in BOOLEAN
    BY DEF WInv, GimbalInv
  <2>2. CASE UNCHANGED <<velocity_active, gimbalVars>>
    BY <2>2 DEF TurningIsWatched, gimbalVars
  <2>3. ASSUME NEW stopping \in BOOLEAN, GimbalSpeed(stopping) PROVE TurningIsWatched'
    BY <2>3 DEF TurningIsWatched, GimbalSpeed, SpeedSet, SpeedRefused, gimbalVars
  <2>4. CASE GimbalMove /\ UNCHANGED velocity_active
    BY <2>1, <2>4 DEF TurningIsWatched, GimbalMove
  <2>5. CASE Watchdog
    <3>1. CASE UNCHANGED <<velocity_active, gimbalVars>>
      BY <2>2, <3>1
    <3>2. CASE WatchdogStops
      BY <2>1, <3>2 DEF TurningIsWatched, WatchdogStops
    <3> QED
      BY <2>5, <3>1, <3>2 DEF Watchdog
  <2>6. CASE cmd_ptz_velocity \/ cmd_ptz_stop
    <3>1. UNCHANGED <<velocity_active, gimbalVars>> \/ \E stopping \in BOOLEAN : GimbalSpeed(stopping)
      BY <2>6 DEF cmd_ptz_velocity, cmd_ptz_stop
    <3> QED
      BY <2>2, <2>3, <3>1
  <2>7. CASE worker_loop
    BY <2>2, <2>4, <2>5, <2>6, <2>7 DEF worker_loop, Pop, cmd_ptz_recenter, cmd_ptz_angle,
       cmd_zoom_set, cmd_zoom_set_smooth, cmd_zoom_drive, cmd_zoom_stop, cmd_preset_recall,
       cmd_ai_set_mode, cmd_ai_set_enabled, cmd_sequence_start, cmd_sequence_stop, EndOfDrain,
       StartPlannedMove, MoveAtOnce, CancelThenGoOn, ZoomAtOnce
  <2>8. CASE sequence_loop
    BY <2>2, <2>4, <2>8 DEF sequence_loop, StepCancels, StepMoves, NextStep, SequenceEnds
  <2> QED
    BY <2>2, <2>7, <2>8 DEF SessionNext, Submit, CallCancels, CallQueues, TimePasses, Planner,
       workVars, sessionVars
<1> QED
  BY <1>1, <1>2, WInvariance, PTL DEF SessionSpec

=============================================================================
