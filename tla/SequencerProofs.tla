-------------------------- MODULE SequencerProofs ---------------------------
(***************************************************************************)
(* What holds of Sequencer for any step lists and any backlog: who owns the *)
(* thread object seq_thr_, and what clients are told of the sequence.       *)
(* Nothing here depends on how the planner or the clients behave.           *)
(***************************************************************************)
EXTENDS Sequencer, TLAPS

(* seq_ctl_mu_ is held from the entry of a start or stop to its last touch  *)
(* of the thread object, seq_mu_ from the start of a run to its publication.*)
CtlInv ==
  /\ seq_ctl = "worker" <=> wpc \in {"start2", "launch", "publish", "stop2", "join"}
  /\ seq_ctl = "hotplug" <=> hpc \in {"cancel", "join"}
  /\ seq_mu = "worker" <=> wpc \in {"launch", "publish"}

(* No start is past its entry once the teardown has had seq_ctl_mu_.        *)
DownInv ==
  /\ up <=> hpc = "plugged"
  /\ hpc \notin {"plugged", "ctl"} => wpc \notin {"start2", "launch", "publish"}
  /\ DownStaysDown

(* A living thread can be joined; one that was just started waits for       *)
(* seq_mu_; a stopped one is gone before its stop resets the snapshot.      *)
ThreadInv ==
  /\ Alive => joinable
  /\ wpc = "publish" => spc = "boot"
  /\ wpc = "reset" => ~Alive

(* The snapshot follows the thread, but for the last step of a start or stop.*)
SnapInv == wpc \notin {"publish", "reset"} => (snap_running <=> Alive)

(* A run has its index in the list and a thread that is not about to leave, *)
(* but for the moment before its thread is launched; the worker's copy of   *)
(* seq_running_ may be stale only in saying that a run goes on.             *)
DrivenInv ==
  /\ seq_running => ~seq_quit
  /\ (seq_running /\ wpc \in {"set2", "load2"}) => was_running
  /\ (seq_running /\ ~strayed) => InRange(index)
  /\ (seq_running /\ ~strayed /\ wpc # "launch") => (Alive /\ spc # "leave")

QInv == SeqTypeOK /\ CtlInv /\ DownInv /\ ThreadInv /\ SnapInv /\ DrivenInv

-----------------------------------------------------------------------------
Lists == Edits \cup SaveEdits \cup {Empty}

LEMMA ListsBounded ==
  ASSUME NEW e \in Lists
  PROVE  e.list \in Seq(StepKinds) /\ Len(e.list) \in 0..MaxSteps /\ e.mode \in LoopModes
<1>1. CASE e = Empty
  BY <1>1, SequencerAssumption DEF Empty, LoopModes
<1>2. CASE e # Empty
  BY <1>2, SequencerAssumption DEF Lists
<1> QED
  BY <1>1, <1>2

(* The index of a step over stays within the list.                          *)
LEMMA AdvanceInRange ==
  ASSUME NEW i \in Nat, NEW n \in Nat, i < n, direction \in {-1, 1},
         mode = "once" => i + 1 < n
  PROVE  Advance(i, n) \in 0..(n - 1) /\ Turn(i, n) \in {-1, 1}
<1>1. (i + 1) % n \in 0..(n - 1)
  OBVIOUS
<1> QED
  BY <1>1 DEF Advance, Turn

(* The type invariant in parts: the list and the places in it, the flags,   *)
(* and where the threads are.                                               *)
ListTyped ==
  /\ [list |-> steps, mode |-> mode] \in Lists /\ arg \in Lists
  /\ {index, idx, snap_index} \subseteq -1..(MaxSteps - 1) /\ direction \in {-1, 1}
  /\ kind \in StepKinds /\ backlog \in 0..MaxBacklog

StrayTyped == strayed \in BOOLEAN

FlagsTyped ==
  /\ seq_running \in BOOLEAN /\ seq_quit \in BOOLEAN /\ up \in BOOLEAN
  /\ joinable \in BOOLEAN /\ was_running \in BOOLEAN /\ slow \in BOOLEAN
  /\ have_pending \in BOOLEAN /\ cancel \in BOOLEAN /\ active \in BOOLEAN
  /\ snap_running \in BOOLEAN

PlacesTyped ==
  /\ seq_mu \in {Free, "worker"} /\ seq_ctl \in {Free, "worker", "hotplug"}
  /\ spc \in {"boot", "index", "read", "trigger", "cancel", "move", "stamp", "triggered", "loop",
              "hold", "leave", "done"}
  /\ wpc \in {"idle", "set", "set2", "load", "load2", "save", "start", "start2", "launch",
              "publish", "stop", "stop2", "join", "reset", "exited"}
  /\ hpc \in {"plugged", "ctl", "cancel", "join", "worker", "down"}

LEMMA TypeInParts == SeqTypeOK <=> ListTyped /\ StrayTyped /\ FlagsTyped /\ PlacesTyped
BY DEF SeqTypeOK, ListTyped, StrayTyped, FlagsTyped, PlacesTyped, Lists

LEMMA QInvInit == Init => QInv
<1> SUFFICES ASSUME Init PROVE QInv
  OBVIOUS
<1>1. SeqTypeOK
  <2>1. ListTyped
    BY SequencerAssumption DEF Init, ListTyped, Lists, Empty, StepKinds
  <2>2. StrayTyped /\ FlagsTyped /\ PlacesTyped
    BY DEF Init, StrayTyped, FlagsTyped, PlacesTyped
  <2> QED
    BY <2>1, <2>2, TypeInParts
<1>2. CtlInv /\ DownInv /\ ThreadInv /\ SnapInv /\ DrivenInv
  BY DEF Init, CtlInv, DownInv, DownStaysDown, ThreadInv, SnapInv, DrivenInv, Alive, Free
<1> QED
  BY <1>1, <1>2 DEF QInv

(* The sequence thread and the planner keep the types ...                   *)
LEMMA TypeLoop ==
  ASSUME SeqTypeOK, sequence_loop \/ HoldGoesOn \/ MoveTimesOut \/ PlannerTakes \/ PlannerFinishes
  PROVE  SeqTypeOK'
<1> USE DEF listVars, flags, locks, seqVars, workVars, hotVars, planVars, snapVars
<1>0. ListTyped /\ StrayTyped /\ FlagsTyped /\ PlacesTyped
  BY TypeInParts
<1>1. FlagsTyped'
  <2> USE <1>0 DEF FlagsTyped
  <2>1. CASE ReadTransition
    BY <2>1 DEF ReadTransition
  <2>2. CASE ReadIndex \/ Trigger
    BY <2>2 DEF ReadIndex, Trigger
  <2>3. CASE TriggerCancels \/ TriggerStamps
    BY <2>3 DEF TriggerCancels, TriggerStamps, MotionCancel
  <2>4. CASE TriggerMoves
    <3>1. CASE UNCHANGED planVars
      BY <2>4, <3>1 DEF TriggerMoves
    <3>2. CASE MotionStart
      BY <2>4, <3>2 DEF TriggerMoves, MotionStart
    <3> QED
      BY <2>4, <3>1, <3>2 DEF TriggerMoves
  <2>5. CASE MoveOver \/ MoveTimesOut
    <3>1. WaitEnds
      BY <2>5 DEF MoveOver, MoveTimesOut
    <3> QED
      BY <3>1 DEF WaitEnds
  <2>9. CASE LoopTest \/ HoldEnds \/ HoldGoesOn
    BY <2>9 DEF LoopTest, HoldEnds, HoldGoesOn
  <2>6. CASE StepOver
    BY <2>6 DEF StepOver
  <2>7. CASE LoopEnds
    BY <2>7 DEF LoopEnds
  <2>8. CASE PlannerTakes \/ PlannerFinishes
    BY <2>8 DEF PlannerTakes, PlannerFinishes
  <2> QED
    BY <2>1, <2>2, <2>3, <2>4, <2>5, <2>6, <2>7, <2>8, <2>9 DEF sequence_loop
<1>2. PlacesTyped'
  BY <1>0 DEF PlacesTyped, sequence_loop, ReadTransition, ReadIndex, Trigger, TriggerCancels,
     TriggerMoves, TriggerStamps, MoveOver, MoveTimesOut, LoopTest, HoldEnds, HoldGoesOn, StepOver,
     LoopEnds, PlannerTakes, PlannerFinishes, MotionCancel, MotionStart, WaitEnds
<1>3. Len(steps) \in 0..MaxSteps /\ steps \in Seq(StepKinds) /\ MaxSteps \in Nat \ {0}
  BY <1>0, ListsBounded, SequencerAssumption DEF ListTyped
<1>4. ListTyped'
  <2>1. CASE UNCHANGED <<listVars, idx, snap_index, kind, arg, backlog>>
    BY <1>0, <2>1 DEF ListTyped
  <2>2. CASE ReadIndex
    BY <1>0, <2>2 DEF ReadIndex, ListTyped
  <2>3. CASE Trigger
    <3>1. InRange(idx) => StepAt(idx) \in StepKinds
      BY <1>0, <1>3 DEF InRange, StepAt, ListTyped
    <3> QED
      BY <1>0, <2>3, <3>1 DEF Trigger, ListTyped
  <2>4. CASE TriggerStamps
    BY <1>0, <2>4 DEF TriggerStamps, ListTyped, StepKinds
  <2>5. CASE StepOver
    <3>1. index \in Nat /\ index < Len(steps) /\ direction \in {-1, 1}
      BY <1>0, <1>3, <2>5 DEF StepOver, InRange, ListTyped
    <3>2. CASE mode = "once" /\ index + 1 >= Len(steps)
      BY <1>0, <2>5, <3>2, <2>1 DEF StepOver, Advance
    <3>3. CASE ~(mode = "once" /\ index + 1 >= Len(steps))
      <4>1. (mode = "once" => index + 1 < Len(steps)) /\ Len(steps) \in Nat
        BY <1>3, <3>1, <3>3
      <4>2. /\ Advance(index, Len(steps)) \in 0..(Len(steps) - 1)
            /\ Turn(index, Len(steps)) \in {-1, 1}
        BY <3>1, <4>1, AdvanceInRange
      <4>3. /\ index' = Advance(index, Len(steps)) /\ idx' = Advance(index, Len(steps))
            /\ direction' = Turn(index, Len(steps))
            /\ UNCHANGED <<steps, mode, snap_index, kind, arg, backlog>>
        BY <2>5, <3>3 DEF StepOver, Advance
      <4>4. Advance(index, Len(steps)) \in -1..(MaxSteps - 1)
        BY <1>3, <4>2
      <4> QED
        BY <1>0, <4>2, <4>3, <4>4 DEF ListTyped
    <3> QED
      BY <3>2, <3>3
  <2>6. CASE LoopEnds
    BY <1>0, <1>3, <2>6 DEF LoopEnds, ListTyped
  <2> QED
    BY <2>1, <2>2, <2>3, <2>4, <2>5, <2>6 DEF sequence_loop, ReadTransition, TriggerCancels,
       TriggerMoves, MoveOver, MoveTimesOut, LoopTest, HoldEnds, HoldGoesOn, PlannerTakes,
       PlannerFinishes, WaitEnds
<1>5. StrayTyped'
  BY <1>0 DEF StrayTyped, sequence_loop, ReadTransition, ReadIndex, Trigger, TriggerCancels,
     TriggerMoves, TriggerStamps, MoveOver, MoveTimesOut, LoopTest, HoldEnds, HoldGoesOn, StepOver,
     LoopEnds, PlannerTakes, PlannerFinishes, WaitEnds
<1> QED
  BY <1>1, <1>2, <1>4, <1>5, TypeInParts DEF SeqTypeOK, ListTyped, StrayTyped, FlagsTyped, PlacesTyped,
     Lists

(* ... and so do the worker ...                                             *)
LEMMA TypeWorker ==
  ASSUME SeqTypeOK, Commands \/ worker
  PROVE  SeqTypeOK'
<1> USE DEF listVars, flags, locks, seqVars, workVars, hotVars, planVars, snapVars
<1>0. ListTyped /\ StrayTyped /\ FlagsTyped /\ PlacesTyped
  BY TypeInParts
<1>1. arg \in Lists /\ arg = [list |-> arg.list, mode |-> arg.mode] /\ Len(arg.list) \in 0..MaxSteps
      /\ Empty \in Lists /\ MaxSteps \in Nat \ {0} /\ index \in -1..(MaxSteps - 1)
  <2>1. arg \in Lists /\ Empty \in Lists /\ index \in -1..(MaxSteps - 1)
    BY <1>0 DEF ListTyped, Lists
  <2>2. arg \in [list : Seq(StepKinds), mode : LoopModes]
    <3>1. Empty \in [list : Seq(StepKinds), mode : LoopModes]
      BY DEF Empty, LoopModes
    <3> QED
      BY <2>1, <3>1, SequencerAssumption DEF Lists
  <2> QED
    BY <2>1, <2>2, ListsBounded, SequencerAssumption
<1>2. CASE Commands
  <2>1. PICK a \in Lists, place \in {"set", "load", "save", "start", "stop"} : Receive(place, a)
    BY <1>1, <1>2 DEF Commands, Lists
  <2>2. backlog' \in 0..MaxBacklog
    BY <1>0, <2>1, SequencerAssumption DEF Receive, ListTyped
  <2>3. ListTyped'
    BY <1>0, <2>1, <2>2 DEF Receive, ListTyped
  <2>4. StrayTyped' /\ FlagsTyped' /\ PlacesTyped'
    BY <1>0, <2>1 DEF Receive, StrayTyped, FlagsTyped, PlacesTyped
  <2> QED
    BY <2>3, <2>4 DEF SeqTypeOK, ListTyped, StrayTyped, FlagsTyped, PlacesTyped, Lists
<1>3. CASE worker
  <2>1. FlagsTyped'
    <3> USE <1>0 DEF FlagsTyped, Reply, Continue
    <3>1. CASE ReadWasRunning \/ cmd_sequence_set
      BY <3>1 DEF ReadWasRunning, cmd_sequence_set
    <3>2. CASE cmd_sequence_load \/ cmd_sequence_save_as \/ WorkerExits
      BY <3>2 DEF cmd_sequence_load, cmd_sequence_save_as, WorkerExits
    <3>3. CASE StartEnters
      BY <3>3 DEF StartEnters
    <3>4. CASE StartChecks
      BY <3>4 DEF StartChecks
    <3>5. CASE StartLaunches \/ StartPublishes
      BY <3>5 DEF StartLaunches, StartPublishes
    <3>6. CASE cmd_sequence_stop
      BY <3>6 DEF cmd_sequence_stop, StopFlags, StopCancels, StopJoins, StopResets, TellToQuit,
         MotionCancel
    <3> QED
      BY <1>3, <3>1, <3>2, <3>3, <3>4, <3>5, <3>6 DEF worker, cmd_sequence_start
  <2>2. PlacesTyped'
    BY <1>0, <1>3 DEF PlacesTyped, worker, ReadWasRunning, cmd_sequence_set, cmd_sequence_load,
       cmd_sequence_save_as, cmd_sequence_start, StartEnters, StartChecks, StartLaunches,
       StartPublishes, cmd_sequence_stop, StopFlags, StopCancels, StopJoins, StopResets,
       WorkerExits, Reply, Continue, KeepLocks
  <2>3. ListTyped'
    <3>1. CASE UNCHANGED <<listVars, idx, snap_index, kind, arg, backlog>>
      BY <1>0, <3>1 DEF ListTyped
    <3>2. CASE cmd_sequence_set \/ cmd_sequence_load \/ cmd_sequence_save_as
      <4>1. Clamped \in -1..(MaxSteps - 1)
        BY <1>1 DEF Clamped
      <4>2. /\ steps' = arg.list /\ mode' = arg.mode /\ arg' = Empty
            /\ index' \in {index, Clamped}
            /\ UNCHANGED <<direction, idx, snap_index, kind, backlog>>
        BY <3>2 DEF cmd_sequence_set, cmd_sequence_load, cmd_sequence_save_as, Reply
      <4> QED
        BY <1>0, <1>1, <4>1, <4>2 DEF ListTyped
    <3>3. CASE UNCHANGED <<listVars, idx, snap_index, kind, backlog>> /\ arg' = Empty
      BY <1>0, <1>1, <3>3 DEF ListTyped
    <3>4. CASE StartEnters
      BY <3>1, <3>3, <3>4 DEF StartEnters, Reply, Continue
    <3>5. CASE StartChecks
      BY <1>0, <1>1, <3>5 DEF StartChecks, Reply, Continue, ListTyped
    <3>6. CASE StartPublishes \/ StopResets
      BY <1>0, <1>1, <3>6 DEF StartPublishes, StopResets, Reply, ListTyped
    <3> QED
      BY <1>3, <3>1, <3>2, <3>4, <3>5, <3>6 DEF worker, ReadWasRunning, cmd_sequence_start,
         StartLaunches, cmd_sequence_stop, StopFlags, StopCancels, StopJoins, WorkerExits, Continue
  <2>4. StrayTyped'
    BY <1>0, <1>3 DEF StrayTyped, worker, ReadWasRunning, cmd_sequence_set, cmd_sequence_load,
       cmd_sequence_save_as, cmd_sequence_start, StartEnters, StartChecks, StartLaunches,
       StartPublishes, cmd_sequence_stop, StopFlags, StopCancels, StopJoins, StopResets, WorkerExits
  <2> QED
    BY <2>1, <2>2, <2>3, <2>4 DEF SeqTypeOK, ListTyped, StrayTyped, FlagsTyped, PlacesTyped, Lists
<1> QED
  BY <1>2, <1>3

(* ... and the hotplug thread.                                              *)
LEMMA TypeStop ==
  ASSUME SeqTypeOK, Unplug \/ stop
  PROVE  SeqTypeOK'
<1> USE DEF listVars, flags, locks, seqVars, workVars, hotVars, planVars, snapVars
<1>0. ListTyped /\ StrayTyped /\ FlagsTyped /\ PlacesTyped
  BY TypeInParts
<1>1. ListTyped' /\ StrayTyped'
  BY <1>0 DEF ListTyped, StrayTyped, Unplug, stop, DownFlags, DownCancels, DownJoins, DownEnds
<1>2. FlagsTyped'
  <2>1. CASE Unplug \/ DownFlags
    BY <1>0, <2>1 DEF FlagsTyped, Unplug, DownFlags, TellToQuit
  <2>2. CASE DownCancels
    BY <1>0, <2>2 DEF FlagsTyped, DownCancels, MotionCancel
  <2>3. CASE DownJoins \/ DownEnds
    BY <1>0, <2>3 DEF FlagsTyped, DownJoins, DownEnds
  <2> QED
    BY <2>1, <2>2, <2>3 DEF stop
<1>3. PlacesTyped'
  BY <1>0 DEF PlacesTyped, Unplug, stop, DownFlags, DownCancels, DownJoins, DownEnds
<1> QED
  BY <1>1, <1>2, <1>3 DEF SeqTypeOK, ListTyped, StrayTyped, FlagsTyped, PlacesTyped, Lists

-----------------------------------------------------------------------------
(* The sequence thread moves on, ends or is not there.                      *)
LEMMA OwnLoop ==
  ASSUME QInv, sequence_loop \/ HoldGoesOn \/ MoveTimesOut \/ PlannerTakes \/ PlannerFinishes
  PROVE  (CtlInv /\ DownInv /\ ThreadInv /\ SnapInv)'
<1>1. /\ UNCHANGED <<seq_ctl, seq_mu, joinable, wpc, hpc, up>>
      /\ Alive' => Alive
      /\ spc = "boot" => seq_mu = Free \/ spc' = "boot"
      /\ \/ UNCHANGED snap_running /\ (Alive <=> Alive')
         \/ snap_running' = TRUE /\ Alive /\ Alive'
         \/ snap_running' = FALSE /\ ~Alive'
  BY DEF sequence_loop, ReadTransition, ReadIndex, Trigger, TriggerCancels, TriggerMoves,
     TriggerStamps, MoveOver, MoveTimesOut, WaitEnds, LoopTest, HoldEnds, HoldGoesOn, StepOver,
     LoopEnds, PlannerTakes, PlannerFinishes, MotionCancel, MotionStart, Alive, listVars, flags,
     locks, seqVars, workVars, hotVars, planVars, snapVars
<1> QED
  BY <1>1 DEF QInv, CtlInv, DownInv, DownStaysDown, ThreadInv, SnapInv, Alive, Free

LEMMA OwnWorker ==
  ASSUME QInv, Commands \/ worker
  PROVE  (CtlInv /\ DownInv /\ ThreadInv /\ SnapInv)'
<1> USE DEF QInv, CtlInv, DownInv, DownStaysDown, ThreadInv, SnapInv, Alive, Reply, Continue, Free,
            listVars, flags, locks, seqVars, workVars, hotVars, planVars, snapVars
<1>1. CASE Commands
  <2>1. PICK a \in Lists, place \in {"set", "load", "save", "start", "stop"} : Receive(place, a)
    BY <1>1 DEF Commands, Lists
  <2> QED
    BY <2>1 DEF Receive
<1>2. CASE ReadWasRunning \/ cmd_sequence_set \/ cmd_sequence_load \/ cmd_sequence_save_as
  <2>1. /\ UNCHANGED <<seq_mu, seq_ctl, joinable, spc, hpc, up, snap_running>>
        /\ wpc \in {"set", "load", "set2", "load2", "save"} /\ wpc' \in {"set2", "load2", "idle"}
    BY <1>2 DEF ReadWasRunning, cmd_sequence_set, cmd_sequence_load, cmd_sequence_save_as
  <2> QED
    BY <2>1
<1>3. CASE StartEnters
  BY <1>3 DEF StartEnters, CtlFree, MayStart
<1>4. CASE StartChecks
  BY <1>4 DEF StartChecks
<1>5. CASE StartLaunches
  BY <1>5 DEF StartLaunches, JoinedSeqThread, KeepLocks
<1>6. CASE StartPublishes
  BY <1>6 DEF StartPublishes
<1>7. CASE StopFlags \/ StopCancels
  BY <1>7 DEF StopFlags, StopCancels, CtlFree, TellToQuit, MotionCancel
<1>8. CASE StopJoins
  BY <1>8 DEF StopJoins, JoinedSeqThread
<1>9. CASE StopResets
  BY <1>9 DEF StopResets
<1>10. CASE WorkerExits
  BY <1>10 DEF WorkerExits
<1> QED
  BY <1>1, <1>2, <1>3, <1>4, <1>5, <1>6, <1>7, <1>8, <1>9, <1>10
     DEF worker, cmd_sequence_start, cmd_sequence_stop

LEMMA OwnStop ==
  ASSUME QInv, Unplug \/ stop
  PROVE  (CtlInv /\ DownInv /\ ThreadInv /\ SnapInv)'
<1> USE DEF QInv, CtlInv, DownInv, DownStaysDown, ThreadInv, SnapInv, Alive, Free,
            listVars, flags, locks, seqVars, workVars, hotVars, planVars, snapVars
<1>1. CASE Unplug
  BY <1>1 DEF Unplug
<1>2. CASE DownFlags \/ DownCancels
  BY <1>2 DEF DownFlags, DownCancels, CtlFree, TellToQuit, MotionCancel
<1>3. CASE DownJoins
  BY <1>3 DEF DownJoins, JoinedSeqThread
<1>4. CASE DownEnds
  BY <1>4 DEF DownEnds
<1> QED
  BY <1>1, <1>2, <1>3, <1>4 DEF stop

(* A step of the sequence thread leaves the index in the list and ends only *)
(* a run that is over.                                                      *)
LEMMA DrivenLoop ==
  ASSUME QInv, sequence_loop \/ HoldGoesOn \/ MoveTimesOut \/ PlannerTakes \/ PlannerFinishes
  PROVE  DrivenInv'
<1> USE DEF listVars, flags, locks, seqVars, workVars, hotVars, planVars, snapVars
<1>0. DrivenInv /\ SeqTypeOK
  BY DEF QInv
<1>1. CASE StepOver
  <2>1. steps' = steps /\ strayed' = strayed /\ seq_quit' = seq_quit /\ wpc' = wpc
        /\ was_running' = was_running /\ InRange(index) /\ ~seq_quit
    BY <1>1 DEF StepOver
  <2>2. CASE mode = "once" /\ Advance(index, Len(steps)) >= Len(steps)
    BY <1>0, <1>1, <2>1, <2>2 DEF StepOver, DrivenInv
  <2>3. CASE ~(mode = "once" /\ Advance(index, Len(steps)) >= Len(steps))
    <3>1. index' = Advance(index, Len(steps)) /\ spc' = "read" /\ seq_running' = seq_running
      BY <1>1, <2>3 DEF StepOver
    <3>2. Len(steps) \in Nat /\ index \in Nat /\ index < Len(steps) /\ direction \in {-1, 1}
      <4>1. [list |-> steps, mode |-> mode] \in Lists /\ index \in -1..(MaxSteps - 1)
            /\ direction \in {-1, 1}
        BY <1>0, TypeInParts DEF ListTyped
      <4> QED
        BY <2>1, <4>1, ListsBounded, SequencerAssumption DEF InRange
    <3>3. mode = "once" => index + 1 < Len(steps)
      BY <2>3, <3>2 DEF Advance
    <3>4. index' \in 0..(Len(steps) - 1)
      BY <3>1, <3>2, <3>3, AdvanceInRange
    <3>5. InRange(index)'
      BY <2>1, <3>2, <3>4 DEF InRange
    <3> QED
      BY <1>0, <2>1, <3>1, <3>5 DEF DrivenInv, Alive
  <2> QED
    BY <2>2, <2>3
<1>2. CASE UNCHANGED <<listVars, flags, wpc, was_running>> /\ Alive /\ spc' \notin {"leave", "done"}
  BY <1>0, <1>2 DEF DrivenInv, Alive, InRange
<1>3. CASE ReadTransition \/ ReadIndex \/ Trigger \/ TriggerCancels \/ TriggerMoves
           \/ TriggerStamps \/ MoveOver \/ MoveTimesOut \/ HoldGoesOn
  BY <1>2, <1>3 DEF ReadTransition, ReadIndex, Trigger, TriggerCancels, TriggerMoves, TriggerStamps,
     MoveOver, MoveTimesOut, WaitEnds, HoldGoesOn, Alive
<1>4. CASE LoopTest \/ HoldEnds \/ LoopEnds
  BY <1>0, <1>4 DEF LoopTest, HoldEnds, LoopEnds, DrivenInv, Alive, InRange
<1>5. CASE PlannerTakes \/ PlannerFinishes
  BY <1>0, <1>5 DEF PlannerTakes, PlannerFinishes, DrivenInv, Alive, InRange
<1> QED
  BY <1>1, <1>3, <1>4, <1>5 DEF sequence_loop

(* An edit clamps the index, or says that it has not.                       *)
LEMMA DrivenWorker ==
  ASSUME QInv, Commands \/ worker
  PROVE  DrivenInv'
<1> USE DEF listVars, flags, locks, seqVars, workVars, hotVars, planVars, snapVars, Reply, Continue
<1>0. DrivenInv /\ SeqTypeOK /\ CtlInv /\ ThreadInv
  BY DEF QInv
<1>1. CASE Commands
  <2>1. PICK a \in Lists, place \in {"set", "load", "save", "start", "stop"} : Receive(place, a)
    BY <1>1 DEF Commands, Lists
  <2> QED
    BY <1>0, <2>1 DEF Receive, DrivenInv, Alive, InRange
<1>2. CASE ReadWasRunning
  BY <1>0, <1>2 DEF ReadWasRunning, DrivenInv, Alive, InRange
<1>3. CASE cmd_sequence_set \/ cmd_sequence_load \/ cmd_sequence_save_as
  <2>1. Len(arg.list) \in Nat /\ (arg.list # <<>> => Len(arg.list) > 0)
        /\ index \in Int
    <3>1. arg \in Lists /\ index \in -1..(MaxSteps - 1)
      BY <1>0, TypeInParts DEF ListTyped
    <3>2. arg.list \in Seq(StepKinds)
      BY <3>1, ListsBounded
    <3> QED
      BY <3>1, <3>2, SequencerAssumption
  <2>2. steps' = arg.list /\ wpc' = "idle" /\ UNCHANGED spc
    BY <1>3 DEF cmd_sequence_set, cmd_sequence_load, cmd_sequence_save_as
  <2>3. CASE cmd_sequence_set
    BY <1>0, <2>1, <2>2, <2>3 DEF cmd_sequence_set, Clamped, DrivenInv, Alive, InRange
  <2>4. CASE cmd_sequence_load
    BY <1>0, <2>1, <2>2, <2>4 DEF cmd_sequence_load, Clamped, DrivenInv, Alive, InRange
  <2>5. CASE cmd_sequence_save_as
    BY <1>0, <2>1, <2>2, <2>5 DEF cmd_sequence_save_as, DrivenInv, Alive, InRange
  <2> QED
    BY <1>3, <2>3, <2>4, <2>5
<1>4. CASE StartEnters
  BY <1>0, <1>4 DEF StartEnters, DrivenInv, Alive, InRange
<1>5. CASE StartChecks
  <2>1. CASE steps = <<>>
    BY <1>0, <1>5, <2>1 DEF StartChecks, DrivenInv, Alive, InRange
  <2>2. CASE steps # <<>>
    <3>1. Len(steps) > 0
      <4>1. [list |-> steps, mode |-> mode] \in Lists
        BY <1>0, TypeInParts DEF ListTyped
      <4>2. steps \in Seq(StepKinds)
        BY <4>1, ListsBounded
      <4> QED
        BY <2>2, <4>2
    <3> QED
      BY <1>5, <2>2, <3>1 DEF StartChecks, DrivenInv, InRange
  <2> QED
    BY <2>1, <2>2
<1>6. CASE StartLaunches
  BY <1>0, <1>6 DEF StartLaunches, DrivenInv, Alive, InRange
<1>7. CASE StartPublishes
  BY <1>0, <1>7 DEF StartPublishes, DrivenInv, ThreadInv, Alive, InRange
<1>8. CASE cmd_sequence_stop
  BY <1>0, <1>8 DEF cmd_sequence_stop, StopFlags, StopCancels, StopJoins, StopResets, TellToQuit,
     DrivenInv, Alive, InRange
<1>9. CASE WorkerExits
  BY <1>0, <1>9 DEF WorkerExits, DrivenInv, Alive, InRange
<1> QED
  BY <1>1, <1>2, <1>3, <1>4, <1>5, <1>6, <1>7, <1>8, <1>9 DEF worker, cmd_sequence_start

LEMMA DrivenStop ==
  ASSUME QInv, Unplug \/ stop
  PROVE  DrivenInv'
BY DEF QInv, DrivenInv, Unplug, stop, DownFlags, DownCancels, DownJoins, DownEnds, TellToQuit,
   Alive, InRange, listVars, flags, locks, seqVars, workVars, hotVars, planVars, snapVars

THEOREM QInvariance == Spec => []QInv
<1>1. QInv /\ [Next]_vars => QInv'
  <2> SUFFICES ASSUME QInv, [Next]_vars PROVE QInv'
    OBVIOUS
  <2>1. CASE UNCHANGED vars
    BY <2>1 DEF QInv, SeqTypeOK, CtlInv, DownInv, DownStaysDown, ThreadInv, SnapInv, DrivenInv,
       InRange, Alive, vars, listVars, flags, locks, seqVars, workVars, hotVars, planVars, snapVars
  <2>2. CASE Next
    <3>1. SeqTypeOK
      BY DEF QInv
    <3>2. SeqTypeOK'
      BY <2>2, <3>1, TypeLoop, TypeWorker, TypeStop DEF Next
    <3>3. (CtlInv /\ DownInv /\ ThreadInv /\ SnapInv)'
      BY <2>2, OwnLoop, OwnWorker, OwnStop DEF Next
    <3>4. DrivenInv'
      BY <2>2, DrivenLoop, DrivenWorker, DrivenStop DEF Next
    <3> QED
      BY <3>2, <3>3, <3>4 DEF QInv
  <2> QED
    BY <2>1, <2>2
<1> QED
  BY <1>1, QInvInit, PTL DEF Spec

(* The variables keep their types; the index stays within the longest list. *)
THEOREM SequencerTypeCorrect == Spec => []SeqTypeOK
BY QInvariance, PTL DEF QInv

(* For any lists, edited, loaded and saved at any moment of a run: but for  *)
(* the two edits that do not clamp, a sequence said to run has its thread.  *)
THEOREM SequencesAreDriven == Spec => []RunningIsDriven
<1>1. QInv => RunningIsDriven
  BY DEF QInv, DrivenInv, RunningIsDriven
<1> QED
  BY <1>1, QInvariance, PTL

(* Unplugging a camera while its sequence runs, starts or stops never races *)
(* the thread object, and no start comes after it.                          *)
THEOREM TeardownOwns == Spec => []TeardownOwnsThread
<1>1. QInv => TeardownOwnsThread
  BY DEF QInv, CtlInv, DownInv, TeardownOwnsThread, SoleJoiner, Free
<1> QED
  BY <1>1, QInvariance, PTL

(* What clients are told between two commands is true of the thread.        *)
THEOREM SnapshotTells == Spec => []SnapshotTruth
<1>1. QInv => SnapshotTruth
  BY DEF QInv, SnapInv, SnapshotTruth
<1> QED
  BY <1>1, QInvariance, PTL

=============================================================================
