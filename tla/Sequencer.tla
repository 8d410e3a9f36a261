------------------------------ MODULE Sequencer ------------------------------
(***************************************************************************)
(* The per-camera sequencer of one DeviceSession: the sequence thread       *)
(* (sequence_loop), the sequence commands on the worker thread, and the     *)
(* part of stop(), on the hotplug thread, that ends the sequence.  Three    *)
(* threads share seq_ctl_mu_, seq_mu_, the seq_* members and the planner.    *)
(*                                                                          *)
(* Grain: a critical section of seq_mu_ is one step, but for the one of     *)
(* cmd_sequence_start, which spans join() and a thread start; seq_ctl_mu_   *)
(* is held across steps; every other access has a step of its own.          *)
(*                                                                          *)
(* Abstracted: a step of the list is "slow" (transition_ms > 0, driven by   *)
(* the planner) or "instant"; the stay time of a step is over or not; the   *)
(* planner is MotionPlanner without its own interleavings; the command      *)
(* queue (commands come one at a time); names, phases and files.            *)
(***************************************************************************)
EXTENDS Integers, Sequences

CONSTANTS
  Edits,       \* the step lists, each with a loop mode, that sequence.set and .load bring
  SaveEdits,   \* those that sequence.save_as brings
  MaxSteps,    \* bound on the length of a step list
  MaxBacklog   \* bound on the commands queued when the camera is unplugged

StepKinds == {"slow", "instant"}
LoopModes == {"once", "forward", "ping_pong"}

ASSUME SequencerAssumption ==
  /\ Edits \cup SaveEdits \subseteq [list : Seq(StepKinds), mode : LoopModes]
  /\ MaxSteps \in Nat \ {0} /\ \A e \in Edits \cup SaveEdits : Len(e.list) <= MaxSteps
  /\ MaxBacklog \in Nat

VARIABLES
  steps, mode, index, direction,     \* seq_steps_, seq_mode_, seq_step_index_, seq_direction_
  strayed,                           \* history: an edit that does not clamp has taken the list
                                     \* from under the index of the run
  seq_running, seq_quit,             \* the atomics
  seq_mu, seq_ctl,                   \* holder of seq_mu_ and seq_ctl_mu_ between two steps
  joinable,                          \* seq_thr_.joinable()
  spc, idx, slow, kind,              \* sequence thread: its place and its locals
  wpc, arg, was_running,             \* worker thread: its place and its locals
  hpc, up, backlog,                  \* hotplug thread; running_; commands still queued
  have_pending, cancel, active,      \* the planner
  snap_running, snap_index           \* snap_.sequence_running, snap_.sequence_step_index

listVars == <<steps, mode, index, direction, strayed>>
flags    == <<seq_running, seq_quit>>
locks    == <<seq_mu, seq_ctl>>
seqVars  == <<spc, idx, slow, kind>>
workVars == <<wpc, arg, was_running>>
hotVars  == <<hpc, up, backlog>>
planVars == <<have_pending, cancel, active>>
snapVars == <<snap_running, snap_index>>
vars == <<listVars, flags, locks, joinable, seqVars, workVars, hotVars, planVars, snapVars>>

Free  == "free"
Empty == [list |-> <<>>, mode |-> "forward"]

Init ==
  /\ steps = <<>> /\ mode = "forward" /\ index = 0 /\ direction = 1
  /\ strayed = FALSE
  /\ seq_running = FALSE /\ seq_quit = FALSE
  /\ seq_mu = Free /\ seq_ctl = Free /\ joinable = FALSE
  /\ spc = "done" /\ idx = 0 /\ slow = FALSE /\ kind = "instant"
  /\ wpc = "idle" /\ arg = Empty /\ was_running = FALSE
  /\ hpc = "plugged" /\ up = TRUE /\ backlog = 0
  /\ have_pending = FALSE /\ cancel = FALSE /\ active = FALSE
  /\ snap_running = FALSE /\ snap_index = -1

InRange(i) == i >= 0 /\ i < Len(steps)
StepAt(i)  == steps[i + 1]

-----------------------------------------------------------------------------
(* The planner, as the sequencer sees it: see MotionPlanner.                *)

MotionCancel == cancel' = TRUE /\ UNCHANGED <<have_pending, active>>
MotionStart  == cancel' = TRUE /\ have_pending' = TRUE /\ UNCHANGED active

PlannerTakes ==
  /\ ~active /\ have_pending
  /\ have_pending' = FALSE /\ cancel' = FALSE /\ active' = TRUE
  /\ UNCHANGED <<listVars, flags, locks, joinable, seqVars, workVars, hotVars, snapVars>>

PlannerFinishes ==
  /\ active
  /\ active' = FALSE
  /\ UNCHANGED <<listVars, flags, locks, joinable, seqVars, workVars, hotVars,
                 have_pending, cancel, snapVars>>

PlannerIdle == ~active /\ ~have_pending

-----------------------------------------------------------------------------
(* sequence_loop                                                            *)

Alive == spc # "done"

(* Read the transition of the step about to be triggered, bounds checked.   *)
ReadTransition ==
  /\ spc \in {"boot", "read"} /\ seq_mu = Free
  /\ LET i == IF spc = "boot" THEN index ELSE idx IN
       slow' = (InRange(i) /\ StepAt(i) = "slow")
  /\ spc' = IF spc = "boot" THEN "index" ELSE "trigger"
  /\ UNCHANGED <<listVars, flags, locks, joinable, idx, kind, workVars, hotVars,
                 planVars, snapVars>>

(* The first step reads the index once more, without seq_mu_.               *)
ReadIndex ==
  /\ spc = "index"
  /\ idx' = index
  /\ spc' = "trigger"
  /\ UNCHANGED <<listVars, flags, locks, joinable, slow, kind, workVars, hotVars,
                 planVars, snapVars>>

(* trigger_step: an index that has fallen out of the list does nothing.     *)
Trigger ==
  /\ spc = "trigger" /\ seq_mu = Free
  /\ IF InRange(idx)
     THEN kind' = StepAt(idx) /\ spc' = "cancel"
     ELSE kind' = kind /\ spc' = "triggered"
  /\ UNCHANGED <<listVars, flags, locks, joinable, idx, slow, workVars, hotVars,
                 planVars, snapVars>>

TriggerCancels ==
  /\ spc = "cancel"
  /\ MotionCancel
  /\ spc' = "move"
  /\ UNCHANGED <<listVars, flags, locks, joinable, idx, slow, kind, workVars, hotVars, snapVars>>

(* A slow step to a known preset goes to the planner, any other to the SDK. *)
TriggerMoves ==
  /\ spc = "move"
  /\ \/ kind = "slow" /\ MotionStart
     \/ UNCHANGED planVars
  /\ spc' = "stamp"
  /\ UNCHANGED <<listVars, flags, locks, joinable, idx, slow, kind, workVars, hotVars, snapVars>>

TriggerStamps ==
  /\ spc = "stamp"
  /\ snap_running' = TRUE /\ snap_index' = idx
  /\ spc' = "triggered"
  /\ kind' = "instant"
  /\ UNCHANGED <<listVars, flags, locks, joinable, idx, slow, workVars, hotVars, planVars>>

(* motion_wait_idle, after a slow step only: it returns when the planner is  *)
(* idle, or when its deadline has passed.                                   *)
WaitEnds ==
  /\ spc' = "loop"
  /\ slow' = FALSE
  /\ UNCHANGED <<listVars, flags, locks, joinable, idx, kind, workVars, hotVars,
                 planVars, snapVars>>

MoveOver     == spc = "triggered" /\ (slow => PlannerIdle) /\ WaitEnds
MoveTimesOut == spc = "triggered" /\ slow /\ ~PlannerIdle /\ WaitEnds

(* while (seq_running_ && !seq_quit_)                                       *)
LoopTest ==
  /\ spc = "loop"
  /\ spc' = IF seq_running /\ ~seq_quit THEN "hold" ELSE "leave"
  /\ UNCHANGED <<listVars, flags, locks, joinable, idx, slow, kind, workVars, hotVars,
                 planVars, snapVars>>

(* A fault: ping_pong turns round one step too late.                        *)
AdvanceTooFar(i, n) ==
  CASE mode = "once"    -> i + 1
    [] mode = "forward" -> (i + 1) % n
    [] OTHER            -> i + direction

(* The index after i in a list of n steps.                                  *)
Advance(i, n) ==
  CASE mode = "once"    -> i + 1
    [] mode = "forward" -> (i + 1) % n
    [] OTHER -> IF n <= 1 THEN 0
                ELSE IF i + direction >= n THEN i - 1
                ELSE IF i + direction < 0 THEN i + 1 ELSE i + direction

Turn(i, n) ==
  IF mode # "ping_pong" \/ n <= 1 THEN direction
  ELSE IF i + direction >= n THEN -1
  ELSE IF i + direction < 0 THEN 1 ELSE direction

(* The body of the loop, after its sleep, under seq_mu_.                    *)
HoldEnds ==
  /\ spc = "hold" /\ seq_mu = Free
  /\ seq_quit \/ ~seq_running \/ ~InRange(index)
  /\ spc' = "leave"
  /\ UNCHANGED <<listVars, flags, locks, joinable, idx, slow, kind, workVars, hotVars,
                 planVars, snapVars>>

HoldGoesOn ==
  /\ spc = "hold" /\ seq_mu = Free
  /\ ~seq_quit /\ seq_running /\ InRange(index)
  /\ spc' = "loop"
  /\ UNCHANGED <<listVars, flags, locks, joinable, idx, slow, kind, workVars, hotVars,
                 planVars, snapVars>>

(* The stay time is over.                                                   *)
StepOver ==
  /\ spc = "hold" /\ seq_mu = Free
  /\ ~seq_quit /\ seq_running /\ InRange(index)
  /\ LET n == Len(steps)
         next == Advance(index, n) IN
       IF mode = "once" /\ next >= n
       THEN /\ seq_running' = FALSE
            /\ spc' = "leave"
            /\ UNCHANGED <<index, direction, idx>>
       ELSE /\ index' = next /\ idx' = next
            /\ direction' = Turn(index, n)
            /\ spc' = "read"
            /\ UNCHANGED seq_running
  /\ UNCHANGED <<steps, mode, strayed, seq_quit, locks, joinable, slow, kind, workVars, hotVars,
                 planVars, snapVars>>

LoopEnds ==
  /\ spc = "leave"
  /\ snap_running' = FALSE /\ snap_index' = -1
  /\ spc' = "done"
  /\ idx' = 0 /\ slow' = FALSE
  /\ UNCHANGED <<listVars, flags, locks, joinable, kind, workVars, hotVars, planVars>>

sequence_loop ==
  \/ ReadTransition \/ ReadIndex \/ Trigger \/ TriggerCancels \/ TriggerMoves \/ TriggerStamps
  \/ MoveOver \/ LoopTest \/ HoldEnds \/ StepOver \/ LoopEnds

-----------------------------------------------------------------------------
(* The worker thread.  While the session is up clients may send anything;   *)
(* afterwards only the backlog is drained.                                  *)

Receive(place, a) ==
  /\ wpc = "idle"
  /\ up \/ backlog > 0
  /\ backlog' = IF up THEN backlog ELSE backlog - 1
  /\ wpc' = place /\ arg' = a
  /\ UNCHANGED <<listVars, flags, locks, joinable, seqVars, was_running, hpc, up,
                 planVars, snapVars>>

Reply           == wpc' = "idle" /\ arg' = Empty /\ was_running' = FALSE
Continue(place) == wpc' = place /\ UNCHANGED <<arg, was_running>>

Commands ==
  \/ \E a \in Edits : Receive("set", a) \/ Receive("load", a)
  \/ \E a \in SaveEdits : Receive("save", a)
  \/ Receive("start", Empty)
  \/ Receive("stop", Empty)

(* seq_running_ is read before seq_mu_ is taken.                            *)
ReadWasRunning ==
  /\ wpc \in {"set", "load"}
  /\ was_running' = seq_running
  /\ wpc' = IF wpc = "set" THEN "set2" ELSE "load2"
  /\ UNCHANGED <<listVars, flags, locks, joinable, seqVars, arg, hotVars, planVars, snapVars>>

(* A fault: the index is left where it was.                                 *)
NotClamped == index

Clamped == IF index >= Len(arg.list) THEN Len(arg.list) - 1 ELSE index

cmd_sequence_set ==
  /\ wpc = "set2" /\ seq_mu = Free
  /\ steps' = arg.list /\ mode' = arg.mode
  /\ IF was_running /\ arg.list = <<>>
     THEN seq_running' = FALSE /\ seq_quit' = TRUE ELSE UNCHANGED flags
  /\ index' = IF was_running /\ arg.list # <<>> THEN Clamped ELSE index
  /\ Reply
  /\ UNCHANGED <<direction, strayed, locks, joinable, seqVars, hotVars, planVars, snapVars>>

cmd_sequence_load ==
  /\ wpc = "load2" /\ seq_mu = Free
  /\ steps' = arg.list /\ mode' = arg.mode
  /\ index' = IF was_running THEN Clamped ELSE index
  /\ strayed' = IF seq_running /\ arg.list = <<>> THEN TRUE ELSE strayed
  /\ Reply
  /\ UNCHANGED <<direction, flags, locks, joinable, seqVars, hotVars,
                 planVars, snapVars>>

cmd_sequence_save_as ==
  /\ wpc = "save" /\ seq_mu = Free
  /\ steps' = arg.list /\ mode' = arg.mode
  /\ strayed' = IF seq_running /\ index >= Len(arg.list) THEN TRUE ELSE strayed
  /\ Reply
  /\ UNCHANGED <<index, direction, flags, locks, joinable, seqVars,
                 hotVars, planVars, snapVars>>

MayStart == up /\ ~seq_running

(* A fault: seq_ctl_mu_ is not taken.                                       *)
CtlIgnored == TRUE

CtlFree == seq_ctl = Free

StartEnters ==
  /\ wpc = "start" /\ CtlFree
  /\ IF MayStart THEN Continue("start2") /\ seq_ctl' = "worker"
     ELSE Reply /\ UNCHANGED seq_ctl
  /\ UNCHANGED <<listVars, flags, seq_mu, joinable, seqVars, hotVars,
                 planVars, snapVars>>

(* Under both locks: refuse an empty list, or set up a run.                 *)
StartChecks ==
  /\ wpc = "start2" /\ seq_mu = Free
  /\ IF steps = <<>>
     THEN /\ Reply /\ seq_ctl' = Free
          /\ UNCHANGED <<flags, index, direction, strayed, seq_mu>>
     ELSE /\ Continue("launch") /\ seq_mu' = "worker"
          /\ seq_running' = TRUE /\ seq_quit' = FALSE
          /\ index' = 0 /\ direction' = 1 /\ strayed' = FALSE
          /\ UNCHANGED seq_ctl
  /\ UNCHANGED <<steps, mode, joinable, seqVars, hotVars, planVars, snapVars>>

(* if (seq_thr_.joinable()) seq_thr_.join()                                 *)
JoinedSeqThread == joinable => ~Alive

(* A fault: the locks go before the snapshot is written.                    *)
LocksGone == seq_mu' = Free /\ seq_ctl' = Free

KeepLocks == UNCHANGED locks

StartLaunches ==
  /\ wpc = "launch" /\ JoinedSeqThread
  /\ spc' = "boot"
  /\ joinable' = TRUE
  /\ KeepLocks
  /\ Continue("publish")
  /\ UNCHANGED <<listVars, flags, idx, slow, kind, hotVars, planVars, snapVars>>

StartPublishes ==
  /\ wpc = "publish"
  /\ snap_running' = TRUE /\ snap_index' = 0
  /\ seq_mu' = Free /\ seq_ctl' = Free
  /\ Reply
  /\ UNCHANGED <<listVars, flags, joinable, seqVars, hotVars, planVars>>

cmd_sequence_start == StartEnters \/ StartChecks \/ StartLaunches \/ StartPublishes

(* A fault: the sequence thread is joined without being told to end.        *)
JoinsWithoutQuit == UNCHANGED flags

TellToQuit == seq_running' = FALSE /\ seq_quit' = TRUE

StopFlags ==
  /\ wpc = "stop" /\ CtlFree
  /\ seq_ctl' = "worker"
  /\ TellToQuit
  /\ Continue("stop2")
  /\ UNCHANGED <<listVars, seq_mu, joinable, seqVars, hotVars, planVars, snapVars>>

StopCancels ==
  /\ wpc = "stop2"
  /\ MotionCancel
  /\ Continue("join")
  /\ UNCHANGED <<listVars, flags, locks, joinable, seqVars, hotVars, snapVars>>

StopJoins ==
  /\ wpc = "join" /\ JoinedSeqThread
  /\ joinable' = FALSE
  /\ seq_ctl' = Free
  /\ Continue("reset")
  /\ UNCHANGED <<listVars, flags, seq_mu, seqVars, hotVars, planVars, snapVars>>

StopResets ==
  /\ wpc = "reset"
  /\ snap_running' = FALSE /\ snap_index' = -1
  /\ Reply
  /\ UNCHANGED <<listVars, flags, locks, joinable, seqVars, hotVars, planVars>>

cmd_sequence_stop == StopFlags \/ StopCancels \/ StopJoins \/ StopResets

(* The queue is drained and running_ is false.                              *)
WorkerExits ==
  /\ wpc = "idle" /\ ~up /\ backlog = 0
  /\ wpc' = "exited"
  /\ UNCHANGED <<listVars, flags, locks, joinable, seqVars, arg, was_running, hotVars,
                 planVars, snapVars>>

worker ==
  \/ ReadWasRunning \/ cmd_sequence_set \/ cmd_sequence_load \/ cmd_sequence_save_as
  \/ cmd_sequence_start \/ cmd_sequence_stop \/ WorkerExits

-----------------------------------------------------------------------------
(* stop(), on the hotplug thread.                                           *)

Unplug ==
  /\ hpc = "plugged"
  /\ up' = FALSE
  /\ backlog' \in 0..MaxBacklog
  /\ hpc' = "ctl"
  /\ UNCHANGED <<listVars, flags, locks, joinable, seqVars, workVars, planVars, snapVars>>

DownFlags ==
  /\ hpc = "ctl" /\ CtlFree
  /\ seq_ctl' = "hotplug"
  /\ TellToQuit
  /\ hpc' = "cancel"
  /\ UNCHANGED <<listVars, seq_mu, joinable, seqVars, workVars, up, backlog, planVars, snapVars>>

DownCancels ==
  /\ hpc = "cancel"
  /\ MotionCancel
  /\ hpc' = "join"
  /\ UNCHANGED <<listVars, flags, locks, joinable, seqVars, workVars, up, backlog, snapVars>>

DownJoins ==
  /\ hpc = "join" /\ JoinedSeqThread
  /\ joinable' = FALSE
  /\ seq_ctl' = Free
  /\ hpc' = "worker"
  /\ UNCHANGED <<listVars, flags, seq_mu, seqVars, workVars, up, backlog, planVars, snapVars>>

DownEnds ==
  /\ hpc = "worker" /\ wpc = "exited"
  /\ hpc' = "down"
  /\ UNCHANGED <<listVars, flags, locks, joinable, seqVars, workVars, up, backlog, planVars, snapVars>>

stop == DownFlags \/ DownCancels \/ DownJoins \/ DownEnds

-----------------------------------------------------------------------------
Next ==
  \/ sequence_loop \/ HoldGoesOn \/ MoveTimesOut
  \/ PlannerTakes \/ PlannerFinishes
  \/ Commands \/ worker
  \/ Unplug \/ stop

(* The threads that exist are scheduled, what is queued is handled, the     *)
(* planner finishes a move it has taken, and the stay time of a step ends.  *)
(* Nobody has to send a command or unplug the camera, and a deadline need   *)
(* not pass.                                                                *)
Fairness ==
  /\ WF_vars(sequence_loop)
  /\ WF_vars(PlannerTakes) /\ WF_vars(PlannerFinishes)
  /\ WF_vars(worker \/ (~up /\ Commands))
  /\ WF_vars(stop)

Spec == Init /\ [][Next]_vars /\ Fairness

-----------------------------------------------------------------------------
(* Values of the variables; -1 is the index a load of an empty list leaves. *)
SeqTypeOK ==
  /\ {[list |-> steps, mode |-> mode], arg} \subseteq Edits \cup SaveEdits \cup {Empty}
  /\ index \in -1..(MaxSteps - 1) /\ direction \in {-1, 1}
  /\ seq_running \in BOOLEAN /\ seq_quit \in BOOLEAN
  /\ seq_mu \in {Free, "worker"} /\ seq_ctl \in {Free, "worker", "hotplug"}
  /\ spc \in {"boot", "index", "read", "trigger", "cancel", "move", "stamp", "triggered", "loop",
              "hold", "leave", "done"}
  /\ idx \in -1..(MaxSteps - 1) /\ slow \in BOOLEAN /\ kind \in StepKinds
  /\ wpc \in {"idle", "set", "set2", "load", "load2", "save", "start", "start2", "launch",
              "publish", "stop", "stop2", "join", "reset", "exited"}
  /\ hpc \in {"plugged", "ctl", "cancel", "join", "worker", "down"}
  /\ up \in BOOLEAN /\ backlog \in 0..MaxBacklog
  /\ joinable \in BOOLEAN /\ was_running \in BOOLEAN
  /\ have_pending \in BOOLEAN /\ cancel \in BOOLEAN /\ active \in BOOLEAN
  /\ strayed \in BOOLEAN /\ snap_running \in BOOLEAN /\ snap_index \in -1..(MaxSteps - 1)

(* Two threads never join seq_thr_ at the same time, nor does one start it  *)
(* while the other joins it (the comment on seq_ctl_mu_: unplugging a       *)
(* camera while its sequence runs must not race the std::thread object).    *)
SoleJoiner == ~(wpc \in {"launch", "join"} /\ hpc = "join")

(* After the unplugged session has joined the sequence thread no command    *)
(* still in the queue starts another one.                                   *)
DownStaysDown == hpc \in {"worker", "down"} => ~Alive

(* A command and the unplugging never meet at the thread object, neither at *)
(* once nor with a start after the join.                                    *)
TeardownOwnsThread == SoleJoiner /\ DownStaysDown

(* Between two commands the snapshot clients see says a sequence runs       *)
(* exactly when there is a sequence thread.                                 *)
SnapshotTruth == wpc = "idle" => (snap_running <=> Alive)

(* Between two commands a sequence said to run has a thread that runs it,   *)
(* so that sequence.start never acknowledges a sequence nobody drives       *)
(* (CHANGELOG 0.3.1: an edit of a running sequence clamps its index); but   *)
(* for save_as, which does not clamp, and the load of an empty list.        *)
RunningIsDriven == (wpc = "idle" /\ seq_running /\ ~strayed) => Alive

(* Every command on the worker thread returns: no lock held across join()   *)
(* is one the sequence loop needs (the comment on seq_ctl_mu_).             *)
CommandsReturn == wpc # "idle" ~> wpc \in {"idle", "exited"}

(* An unplugged session comes down.                                         *)
UnplugEnds == hpc = "ctl" ~> hpc = "down"

(* Nobody waits for a sequence thread in vain.                              *)
JoinsReturn == CommandsReturn /\ UnplugEnds

=============================================================================
