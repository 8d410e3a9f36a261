# Formal models of Open OBSBOT Remote

Open OBSBOT Remote drives OBSBOT cameras from phones and browsers.  A native
bridge process (`src/apps/bridge_cpp`) talks to the cameras through the vendor
SDK and to clients through a WebSocket; a Mac app (`src/apps/bridge`)
supervises it; Dart clients (`src/apps/rc`, `src/packages`) are remote
controls.  This directory holds TLA+ models of the bridge's concurrent core,
of a client's way through it and of its supervisor, the TLC runs that check them on small instances, and TLAPS proofs.

Bridge sources named below without a directory are in
`src/apps/bridge_cpp/src`.


## 1. Inventory

| Component | State it keeps | Operations | Talks to |
|---|---|---|---|
| Motion planner, one thread per camera (`device_session.cpp`) | one pending target, cancel / quit / active flags, a mutex and two condition variables | `motion_start`, `motion_cancel`, `motion_wait_idle`, `motion_loop`, end of `stop` | called by worker and sequencer; drives the SDK |
| Command worker, one thread per camera (`device_session.cpp`) | the queue `q_`, the velocity and AI latches, the snapshot and its pending values | every `cmd_*`, `worker_loop`, watchdog, status poll | called by WebSocket threads; calls planner and SDK |
| Sequencer, one thread while it runs (`device_session.cpp`) | step list, index, direction, running / quit flags, two mutexes, a `std::thread` | `sequence.set/save_as/load/delete/start/stop`, `sequence_loop` | worker, planner, hotplug thread (through `stop`) |
| Roster and program (`device_manager.cpp`) | sessions, attach order, capture objects, generic sources, active and desired camera, `active.json`, `sources.json` | `attach`, `detach`, `add_source`, `remove_source`, `set_active`, AV events, `start` | libdev callback, AVFoundation observer, clients, boot thread |
| Mix engine (`device_manager.cpp`) | cue list, solved plan, cursor, flags, a `std::thread` | `mix_set/start/stop/load/save_as/delete`, `mix_replan`, `mix_loop` | roster, sessions, solver |
| Mix solver (`mix_solver.cpp`) | none | `solve` | mix engine |
| WebSocket server, authentication (`ws_server.cpp`, `auth.cpp`) | connections and their reply gates, PIN, tokens | hello, pair, dispatch, broadcast | protocol, persistence |
| Protocol (`protocol.cpp`) | none | parse and route an action | all of the above |
| Persistence (`persist.cpp`) | JSON files under one mutex | load and store per file, migration | all of the above |
| Video capture, MJPEG (`video_capture.mm`, `mjpeg_server.cpp`) | latest frame, running flag | start, stop, serve | roster |
| Supervisor (`bridge_supervisor.dart`) | child process, status, `_userStopped`, restart count | `start`, `stop`, the exit handler, the resets, kill of leftovers | buttons, tray, launch; bridge process |
| Dart clients (`src/packages`, `src/apps/rc`) | pending requests, optimistic state, reconnect timer | send, receive, reconnect | bridge |

What is hard in it:

* a camera has up to three threads of its own, and the hotplug and client
  threads reach into all of them; flags are atomics read and written in and out
  of locks; three condition variables are notified without their mutex;
* some commands act at call time, ahead of the queue, and the rest when their
  turn comes;
* SDK calls fail, packets with the stop command are lost, cables move while a
  thread is being joined, cameras enumerate late and in any order, and the
  bridge is killed and relaunched;
* the program that OBS shows must survive all that;
* the supervisor gives up its event loop at every `await`, so a button, an exit
  and the timer of an older crash meet a start or a stop half-way; the app dies
  and comes back while its bridge is still there.

What makes each component correct, in a sentence: the planner drives one move
at a time, the last one asked for, and forgets no request and no waiter; the
worker never leaves a turning gimbal without its watchdog and never lets an old
move outlive a stop; the sequencer has one thread exactly while a sequence
runs, and can always be stopped; the roster lists what is plugged and the
program follows the operator's preference; a mix plan belongs to the roster it
runs on and moves no camera that is on air unless it reports so; the snapshot is
what the camera was told, and a client in the end shows it; a client that is not
paired learns and moves nothing, and a request gets one reply; what was saved is
on disk; the supervisor runs one bridge exactly while it should.


## 2. Modules

| Module | Models | Proofs |
|---|---|---|
| `MoveSlot` | the planner's promise: one requested move, one driven, a preempted move may finish its waypoint, at most two SDK commands | |
| `MotionPlanner` | the planner thread, its callers, a waiter and the teardown; implements `MoveSlot` | `SessionProofs` |
| `CommandWorker` | extends `MotionPlanner` with the command queue, the worker, the watchdog, the AI latch, the sequence thread as a caller of the planner | `SessionProofs` |
| `Sequencer` (`MCSequencer`) | the sequence thread, the sequence commands on the worker, unplugging, over a coarse planner | `SequencerProofs` |
| `StateFeed` | a setting on its way: client overlay, command, SDK call, snapshot, ack, state events, status poll of a camera that lags | `StateFeedProofs` |
| `ClientLink` | connections and their addresses, the pairing gate, routing, session queues, replies, sessions that come and go | `ClientLinkProofs` |
| `DeviceManager` (`MCDeviceManager`) | roster, captures, program, preference, the two files, restarts | `DeviceManagerProofs` |
| `Library` | saved sequences and mixes: files, lists, import, migration, a process that dies while it writes | `LibraryProofs` |
| `MixSolver` | `solve` and `meanwhile_at` as pure functions | `MixProofs` |
| `SolverPromise` (`MCMixSolver`) | one list solved for some cameras, and what the plan promises | `MixProofs` |
| `MixEngine` (`MCMixEngine`) | extends `MixSolver` with the cues, the plan, the mix thread, its clients, the hotplug thread and the teardown | `MixProofs` |
| `Supervisor` (`MCSupervisor`) | the Mac app's `BridgeSupervisor`, its user, its timers, and the bridge processes of this and of earlier launches | `SupervisorProofs` |

Modules hold, next to some definitions, *fault* operators (each commented "A
fault: ..."): what that definition would be with a plausible bug in it.  No
specification uses them; each replaces its definition once, to see that a
property notices.

### Correspondence

`MotionPlanner`.  `have_pending`, `cancel`, `active`, `quit` are
`motion_have_pending_`, `motion_cancel_`, `motion_active_`, `motion_quit_`; `mu`
holds `motion_mu_` where a thread keeps it from its wait predicate to its sleep;
`ppc`, `wpc`, `stop_pc` are where the planner, the waiter and `stop()` are.  A
critical section is one step, every atomic touched outside the lock is another,
and a waypoint is three: the check, the gimbal call and the zoom call, with no
look at `motion_cancel_` between the calls.  Either call may be left out, as a
move may have no gimbal or no zoom part.  A notify moves only a
thread that is asleep: this is what makes lost wake-ups visible.  The history
variables (`issued`, `preempted`, `late`, `waited`, `aim`) are read by
properties only.

`CommandWorker`.  `q` and `item` are the queue and the command being handled,
each with the age of its call, `vage` is the age of `last_velocity_apply_`.  A
call that cancels first takes two steps (`CallCancels`, `CallQueues`), so
another thread can queue in between.  A handler that works with the planner
takes two steps as well.  `turning` and `ai_on` are the camera; SDK calls in
`Failable` may refuse, and `missed` remembers that the one refused was the zero
speed of the watchdog, whose result nobody reads.  What a position move does to
a velocity is left open.  The sequence thread is here for what it does to the
planner and the camera: each step switches AI off, cancels, and either gives the
planner a target or sends a preset (`StepCancels`, `StepMoves`); what it waits
for and which step is next is in `Sequencer`, so that here the next step, or the
end, may come at any time.

`Sequencer`.  `seq_ctl` and `seq_mu` are held over steps as in the code;
`spc`, `wpc`, `hpc` are the places of the sequence thread, the worker and the
hotplug thread.  A step of a list is slow or instant; its stay time ends at any
time.  The planner is reduced to pending / active, its interleavings being the
matter of `MotionPlanner`.

`StateFeed`.  One camera setting; `field` says which of six behaviours it has,
by how the handlers stamp it and the poll reads it: `zoom` and `ai` have a
pending target, `polled` stands for HDR, field of view, the face switches and
flip, and `enabled`, `exposure` and `color` are never read back.  `product` is
`tiny2` for the two cameras of which the poll reads more than the zoom, `other`
for the rest: their AI mode keeps its pending target and nothing ever releases
it (`IsPolled`).  A poll whose zoom read fails changes nothing (`PollFails`).
`ai.set_mode` stamps `enabled` as well, with a value derived from the mode and
never told to the camera (`AiModeStampsEnabled`).  `cam` is what
the camera was told, `echo` what it reports, which lags; `snap` and `pending`
are the session's.  A command is taken from the queue, calls the SDK, stamps
the snapshot, acks and broadcasts in separate steps; `writer` is the planner or
sequence thread that does the like, `other` a thread that builds a state event
under `mu_` and sends it later.  `wire` is one TCP connection, in order.  On the
client `real`, `ov` and `waiting` are `_lastReal`, the `_Overlay` and the open
sends of `obsbot_api_client` and `device_repository`.  `wrong` names what the
code does not protect against and properties exempt.

`ClientLink`.  Crow hands out connection objects by address and reuses them: an
address has at most one connection at a time, and `authed` (`authed_conns`) and
replies know addresses only.  `handler` is where the handler of an address is
between its critical sections (`conn_mu`, `mu_` of the manager, `q_mu_` of a
session), with the session object it has got - or `stuck`: `dispatch_message`
reads `action` before its `try`, so an action that is not a string throws past
it, and Crow reads nothing more from that connection; `queue`, `worker` and `running`
are of session objects, which live on after `detach` took them from the roster.
What a command does is left to the other modules.

`Library`.  A file is a set of names per camera (or of mixes).  `persist::load_*`
and `persist::store_*` are a step each, under `g_mu`; what a command loaded
stays in `work` until it stores.  `kept` is what commands and imports have made
of the library, `lost` why the file may have less.  `Restart` is a process that
dies, possibly while it rewrites a file (`persist.cpp` truncates in place), and
boots again with the cameras that are plugged in one by one.

`DeviceManager`.  What a function does under `mu_` is one step; starting or
stopping a capture and writing a file after that are steps of their own, on the
capture object resolved before (`work`).  `live` are the capture objects that
run, `failed` those whose last start AVFoundation failed although the device was
there (no input, no session, or twenty retries that did not find it).  A camera
that libdev attaches without a video path is listed and gets no capture
(`pathless`).  `Restart` ends the process between any two steps and boots it again from
the files, with the cameras enumerated in any order.

`MixSolver`.  Lists count from 1, a colour is an index into the list of cameras,
0 is the code's -1.  Three loops are recursive functions: `InOrder` collects the
enabled cues, `Filled` the gaps between pins, whose value at a cue depends on
those before it, `RunFrom` is the order of a run.  The nested loops of the
meanwhile are the first step at which each camera comes up.  `SolverPromise`
calls `solve` once, for any of `Lists` and the first of the cameras.

`MixEngine`.  `work` says for each thread which call it is in, where, and the
roster it has copied; `mix_replan` is the two steps `Snapshot` and `Replan`, as
it takes two mutexes one after the other.  `ctl` is `mix_ctl_mu_`, held over
steps; `loop` is where the mix thread is.  `index` 0 is the idle cursor.  The
reset of `mix_stop` is a step after `ctl` is released, as in the code, so it can
fall into a newer run.  `pose` is where the cameras were sent.


`Supervisor`.  `status`, `proc`, `userStopped` and `autoRestarts` are the fields
of `BridgeSupervisor`.  `task` says for each async call, and for the exit
handler of each bridge, at which `await` it is; what runs from one `await` to
the next is one step.  `stop(t, then)` is the call with what its caller goes on
with: nothing, the pause of a reset before it starts again, or the tray's
`exit(0)`.  A process (`bridge`) is up before it listens, and may be signalled,
find the port taken, crash, or see the end of stdin once its app is gone
(`orphans`, `main.cpp`).  The port is one, looked up once.  A process that is
over, its exit handled, is free to be another later.  `overtaken` remembers that
a stop met a start under way, `refused` that a process could not be made,
`lingered` that a process which one start had killed was still there when the
next start looked: more than a back-off of seconds after a SIGKILL.


## 3. Runs

| Run | Bounds | Shows |
|---|---|---|
| `planner` | 3 moves, 2 cancels, 2 waits, 2 waypoints | no request or waiter is lost, a superseded move sends at most the two commands of its waypoint, `motion_wait_idle` covers the move it chained on, the planner implements `MoveSlot` |
| `planner_teardown` | 1 move, 1 wait | **fails**: `stop()` can wait forever for the planner thread |
| `commands` | all 21 kinds, 2 commands, 2 sequence steps | a turning gimbal is watched and ends turning unless the watchdog's own stop is refused, the AI latch lies only after a refusal, a preempting call into a quiet session holds until the next command or sequence step |
| `sequencer` | two lists (1 step once, 3 steps ping-pong), set, loaded or saved in any order, 1 command in the backlog at unplug | one thread while a sequence runs, no start after teardown, a truthful snapshot, index in range, every command and every unplug ends |
| `sequence_hang` | an empty and a non-empty list | **fails**: `sequence.start` joins under `seq_mu_` |
| `state_feed` | all 6 behaviours, the polled two on both kinds of camera, 2 values (and a zoom beyond), 2 taps, 1 write of others or failed read, 1 timeout, 1 frame under way | the snapshot stays what the camera was told through polls of a lagging camera, a tap is not undone while a write is open, the client ends up showing the camera, all but for what `wrong` names |
| `client_link` | 2 addresses, 2 cameras, 2 connections, 3 messages, 2 sessions | nobody unpaired hears or moves anything, no message is answered twice, every message is answered unless its connection or its camera went or its action was no string |
| `devices` | 2 cameras, 1 webcam, 3 capture objects, 2 cable moves, 1 restart | roster, captures, program and preference agree at all times, and with the cables once settled, a failed start or a missing video path apart |
| `library` | 2 cameras, 2 clients, 2 names, 3 commands, 1 restart | what was saved is kept and what is listed is stored, but for a torn file, a command an import overtook, two mix commands that crossed |
| `mix_solver` | all lists of up to 5 cues without and 4 with pins, 0 to 3 cameras, ring and path | as few moves on air as possible, announced; pins kept; the meanwhile shown is the one walked |
| `mix_engine` | 2 cameras, 2 clients, 2 commands, 1 camera that comes or goes, three lists (an odd ping-pong, a ring with a disabled cue, a pinned single cue) | one thread while a mix runs, no start lost, no join for good, no cue after a stop or a teardown, the cue on air is in the plan, cameras arrive where they were walked |
| `supervisor` | 1 call beside the exit handlers, 4 processes, the code's 5 restarts, 2 clicks, 2 crashes, 2 launches | a bridge that lives is the one the app knows, none is there when it says stopped or error, none comes back after the user stopped it; one that crashed is replaced by one that serves, orphans end, the status becomes true |

Why the bounds are enough to be interesting.  Three moves are needed for one
driven, one queued and one that replaces the queued one; two waypoints for a
cancel between two of them; two waits for a second chain after a timeout.
Two commands are the shortest history in which one overtakes, coalesces with or
follows the other (safety was also explored with three).  Two steps of a sequence are one
before and one after a preempting call.  A three-step ping-pong
turns at both ends; a shorter list under it clamps, or, saved, does not.  Two taps are an older write
whose late ack or timeout meets a newer one; a write of another client between
them crosses either; with one frame under way a broadcast waits for the socket
while the snapshot moves on.  Two connections share one address in turn or have
one each, three messages pair both and leave one to be answered late; two
session objects are a camera that was unplugged and came back, or two cameras.
Two cable moves are a camera leaving and returning, or two devices moving at
once; three capture objects let a source be removed and added again.  Three
library commands are two that cross and one that shows what they left, or a
save on each side of a crash.  Five cues are the shortest odd ring whose cut has
a choice beyond a triangle, four pinned ones have two free cues between pins.
Two mix commands are a start with an edit, a save or a stop in any of its steps,
or two starts.  Two launches are an app that finds a bridge of an earlier one,
two crashes that of a bridge and of the one that replaced it.  A crash costs one
of the five restarts, an orphan that escapes a look at the ports one more, so that two
crashes and an orphan leave one in reserve, and `CrashIsRepaired` needs no exemption
for the last: with three restarts it fails.  Four processes are the orphan, the one that runs, one that
failed for want of the port and the next.  In `MCSupervisor`, `Followed` cuts off
what follows a stop that met a start unless the app is quitting: nothing is
claimed of it but that it goes wrong (below).  Two calls of the user or the
launch at a time, a stop in the midst of a reset, are checked for safety by
`SupervisorCalls.cfg`, which passes; the proofs have neither bound.

Deadlock checking is off in all runs: the bounds exhaust, and the system may
rest with nothing to do.

Fairness.  Weak fairness of each thread's steps (the scheduler runs threads that
can run), of a call that has begun, of time in `CommandWorker` and of the timed
wait of `motion_wait_idle`, which has a deadline.  No client is obliged to send
anything, no cable to move; a sequence's deadline may pass but need not.  In
`CommandWorker` the sequence thread gets on with a step it has begun and leaves
once it was told to.  In
`Sequencer` the planner is assumed to finish a move it has taken, which is what
a loop of finitely many ticks does.  In `StateFeed` the worker runs on, takes
its queue between two polls and gets its frames out although others send on the
same socket (strong fairness: the queue and the socket are there again and
again, between the polls and between the frames of others), TCP delivers, a thread
that has called the SDK stamps, and the camera reports in the end what it was
told.  In `ClientLink` the handler of each address and the worker of each
session go on.  In `Supervisor` the
event loop goes on, timers expire, and a process that lives listens, dies of
its signal and sees the end of stdin.  `DeviceManager`, `Library` and the mix
have safety properties only; that a join of the mix thread ends is proved as the safety
property behind it (`JoinedIsLeaving`): a thread being joined has been told to
leave, and nobody takes that back.

What the failing runs mean.

1. `planner_teardown` - `stop()` stores `motion_quit_` and notifies without
   `motion_mu_`.  If the planner has just evaluated its predicate, the notify is
   lost and the untimed wait never ends; the join runs on the hotplug thread.
2. `sequence_hang` - `sequence.set []` clears `seq_running_` while the thread
   lives; `sequence.set`, `sequence.start` then join it holding `seq_mu_`.

### Further configurations

Nine configurations that are not among the runs reproduce other disagreements
between a sentence of the documentation and the code; TLC finds each violated
(`tlc -config <cfg> <module>`).

| Configuration | Module | The sentence | What happens |
|---|---|---|---|
| `CommandWorkerStop.cfg` | `CommandWorker` | `docs/SLOW_MOTION_DESIGN.md:308`, `ptz.stop`: "Cancel; gimbal stays put" | the cancel acts at call time; a slow `ptz.angle` or `preset.recall` still queued starts afterwards (`PreemptingCallHolds` states what does hold) |
| `CommandWorkerWatchdog.cfg` | `CommandWorker` | `device_session.cpp:506`, "any velocity that has not been refreshed for 400ms is stopped here" | the SDK refuses the watchdog's zero speed; `velocity_active_` is cleared all the same and the gimbal turns on |
| `DeviceManager_SourceStaysOnAir.cfg` | `MCDeviceManager` | `device_manager.cpp:322`, the current active is kept if it is still attached | `recompute_active_locked` keeps the program only if it has a session, which sources do not have |
| `MixSolver_BoxedOnlyIfForced.cfg` | `MCMixSolver` | `PROTOCOL.md:922`, a cue is boxed in only if it must be | two free cues before a pin: the fill gives the first the first camera and leaves none for the second, although the other way round is clean |
| `StateFeed_SettlesOnReflecting.cfg` | `StateFeed` | `device_repository.dart:76`, the first state event after the last ack reflects the write | another thread built its event before the stamp and sends it after the ack; the old value shows for a moment (`ClientConverges` states that it does not stay) |
| `ClientLink_RepliesComeHome.cfg` | `ClientLink` | `ws_server.cpp:154`, an address still in `authed_conns` is the connection that asked | the address may have been freed, reused and paired again; a late reply then reaches the new, paired client |
| `MixEngine_PlanFitsRoster.cfg` | `MCMixEngine` | `device_manager.cpp:308`, "A camera left, so the colouring changes [...] Re-solve." | `mix_replan` of a client copies the roster, the camera leaves and the hotplug thread solves, and the client then stores the plan that names the camera |
| `Supervisor_StatusShown.cfg` | `Supervisor` | `tray_controller.dart:110`, the error icon means "bridge stopped or in error state" | the reset button stays while a crashed bridge is being restarted; the reset's `stop()` finds no `_proc` and sets `stopped`, its own `start()` runs beside the other; one bridge is killed or finds the port taken, and its exit handler clears `_proc` although the other lives |
| `Supervisor_RunsSupervised.cfg` | `Supervisor` | `bridge_supervisor.dart:252`, "_userStopped flag is set by stop(); cleared by start()" | the same, but the other start has finished before the pause of the reset is over: `start()` returns early, before it clears `_userStopped`, and the bridge that runs will not be restarted |

More observations.  `ptz.stop` does not stop a running sequence: its next step
moves the camera again (`NextStep` ends what `PreemptingCallHolds` promises).  A
paired client that sends an `action` which is no string gets no answer, and its
connection is not read any more (`protocol.cpp:200` is before the `try`; `Thrown` in
`AnsweredOrGone`).  `ai.set_mode` says `ai_enabled` in the snapshot without a call
that enables anything (`device_session.cpp:924`).  `sequence.save_as` does not clamp the index as `sequence.set` does, nor does
`sequence.set` when it clears the list: the thread of a running sequence then
ends by itself and leaves `seq_running_` set (`strayed` remembers such an edit,
and `RunningIsDriven` exempts what follows it).  A pending zoom whose target is never reported, because two
writers crossed, holds the poll off for good.  On a camera other than the two
Tiny 2 models the AI mode, field of view and the other image switches are never
read at all.  `image.set_color` applies its
parts one by one and stamps nothing when a later one fails, and no poll reads
colors back.  Commands in the queue of a session that is torn down get no ack.
`set_active` accepts a camera that has left, since its capture object remains.
A bridge that is restarted five
times and runs well in between is not restarted a sixth time.
Two clients' `mix.save_as` can cross and lose one.  A ping-pong mix arrives at
the cues of its way back with marks made for the way out.


## 4. Proofs

`SessionProofs` is about the planner first.  It proves, for all values of `MaxMoves`, `MaxCancels`,
`MaxWaits` and `Ticks` allowed by `PlannerAssumption`: `Spec => []TypeOK`,
`Spec => []WaitCoversMove`, `Spec => []CancelBites`, and that `Spec` implements
`MoveSlot` under the mapping at the end of `MotionPlanner`.

The three invariants are not inductive.  `IInv` adds what ties the flags to the
place of the planner thread: `active` is set exactly while a move is driven
(this is why a waiter that reads `~active /\ ~have_pending` has seen the whole
life of its move); a queued move is the last one issued; a preempted move has
`cancel` set, and has sent a late command only if it is past the check that
would have stopped it, and at most one of the two at the zoom call (this is why
the two of a waypoint are the most).  `InitIInv`
and `NextIInv` prove it inductive, one step per action; the step lemma of the
refinement uses it to map every action to a step of `MoveSlot` or a stutter.

The second half of `SessionProofs` builds on that: a step of the session is
one of the planner, for which `IInv` is known to be inductive, or one of the
queue, the worker or the camera, for which it is shown again.  `WInv` adds the
queued items (`ItemInv`), the call under way (`CallInv`), the gimbal and the AI
latch (`GimbalInv`, `AiInv`), and what a quiet call relies on (`QuietInv`):
from before it cancels until another command is called or a sequence takes its
next step, nothing queued or handled can start a move, and the sequence thread
is past its own.  `TurningIsWatched` needs no assumption on what is refused:
a turning gimbal is watched, or the refused call was the watchdog's.  Proved: `SessionTypeOK` (no run checks it: with the other
properties it would find nothing), `FlagMeansAiOff`, `PreemptingCallHolds`, `TurningIsWatched`, for any length of a
session and any mix of commands.

`DeviceManagerProofs` proves, for any sets of cameras, webcams and callers and
any bounds that `DeviceAssumption` allows: `Spec => []DeviceTypeOK`,
`[]RosterMatches`, `[]PreferenceOnAir`, `[]ProgramFed`, and the action
property `ProgramMovesForCause`.  The program and the
roster are decided under `mu_`, but captures are started and stopped after it is
released; the strengthening says what a thread may rely on meanwhile.  Every
session that came with a video path and exactly the webcams that are sources have a capture (`HoldersInv`);
no capture object belongs to two ids and one that is not made yet to none
(`CapturesInv`, without which a new capture could be a listed one); a thread
that is to start a capture holds one and a thread that is to write a file holds
an id that belongs there (`WorkInv`); libdev reports cameras only
(`EventsInv`); the order lists sessions and sources, once each (`OrderInv`).
One lemma states what `recompute_active_locked` may return (`RecomputeChoice`),
three state what appending to and removing from a list without repetition do;
each action has a lemma, and `NextIInv` puts them together.  `SettledTruth`
needs a second invariant beside it, `SInv`, because what is true once all is
over depends on every event still to be delivered: the last event on the way for
a device tells where its cable is (`CableInv`); a thread that holds the capture
object of a device acts for that device, and nobody is about to stop one that was
not removed (`ObjectsInv`); and a device with no event on its way either
streams exactly if it is connected - or came without a video path, or its last
start failed - or has a thread that is about to see to it
(`CamerasInv`, `SourcesInv`).

`MixProofs` is in three parts, of which the first two hold for every list of
cues and every set of cameras.

*Recursion.*  `Live`, `Filled`, `RunFrom` and the sum of the pans are recursive
functions, and that such a function is what its definition says has to be proved.
`Induction` and `Recursion` are stated for a set and for a function of steps, so
that they can be cited, and follow from the naturals being well-founded; each
loop of the code gets one lemma for its existence and one for its value
(`InOrderPicks`, `FilledIs`, `RunFromIs`, `SumIs`).

*The solver.*  `PlansAreHonest` and `PlansAreLeastVisible` state `PlanHonest`
and `LeastVisible` of every run of `SolverPromise`.  `SolverAssumption` says that
cameras differ, `None` is none of them and a pan has a natural cost.  A colour is a camera that is
there (`ColoursInRange`), so the cameras of two cues are equal exactly if their
colours are, and a transition is on air exactly if its colours are (`VisibleAre`).
Then by cases: one camera; no pins, where an even ring, a path and a ring of
three cameras are clean (`CleanMoves`) and an odd ring of two shows its cut and
no more (`CutMoves`: remainders, going round from the cut); pins, where a cue
filled without being boxed in differs from both neighbours (`FilledMoves`).
No choice does better since an odd ring has no two-colouring
(`OddRingClashes`), and any choice that shows one transition shows one of the
edges among which `BestCut` has taken the cheapest (`CutIsLeast`).  That the
meanwhile shown is the one run compares the two ways the code computes it: both
are the shots of the transitions before the cue comes round again
(`WalkedAnew`, `ShownIs`), since a round repeats no cue (`LaterIs`).

*The engine.*  For any clients, cameras, edits and bounds that `EngineAssumption`
allows: `Spec => []EngineTypeOK`, `[]StartTakes`, `[]JoinedIsLeaving`,
`[]StopHolds`, `[]PlanOfAuthored` and the action property `ArrivesWalked`.
`EngineAssumption` says that an edit is a list with a mode, that helper threads
are not clients and that a pan has a natural cost.  What makes the threads
hold together is mutual exclusion: the threads that are past the entry of
`mix_start` or join in `mix_stop` or `stop` are exactly the one that has
`mix_ctl_mu_` (`CtlInv`); while a start is on its way nothing runs, and while a
stop joins the flags are as it has set them, since only the owner of the mutex
sets the one or clears the other (`FlagsInv`); after the join of the teardown
`started_` is clear and no start is under way, so that none can come
(`DownInv`).  The mix thread only ever clears the running flag (`LoopStep`).
`PlanInv` adds that every cue of the plan is on a known camera and that the mix
thread has not read past the plan; `SolveFits` gives both halves of what is
needed of `solve`.  `PlanOfAuthored`
needs that a call on its way to its solve stays on it (`ProceedsToSolve`), so
that a plan which a step leaves current was current, or was solved in that step
from the cues of that moment.  `ArrivesWalked` needs `WalkInv`: while nothing
interferes, the cue that was read last is still the plan's and its meanwhile is
that of the direction it is left in (`CueRead`), and once it is aired every
camera of that meanwhile has been sent where it says (`Walked`); the next cue of the run is the first
that the walk comes to, so its camera is among them, with its shot
(`NextIsWalked`).

`SequencerProofs` proves `SeqTypeOK`, `TeardownOwnsThread`, `SnapshotTruth` and
`RunningIsDriven` for any lists of at most `MaxSteps` steps.  `CtlInv` ties the two mutexes to the
places of the worker and the hotplug thread, so that both are never at the
thread object; `DownInv` says that `running_` was cleared before the teardown
took the mutex, so that a start still queued sees it; `ThreadInv` says that a living
thread can be joined, one just started waits for `seq_mu_` and a stopped one is
gone before its stop resets the snapshot; `SnapInv` that the snapshot follows
the thread but for the last step of a start or a stop.  `DrivenInv` is about the
index: as long as no edit has left it unclamped it is one of the list's, so that
the thread does not find its step gone and end with the running flag set; a
thread that leaves for another reason clears it or was told to by somebody who does.

`StateFeedProofs` proves `FeedTypeOK`, `SnapshotTrue` and `DragPinned` for any
number of values, taps, writers, timeouts and frames.  `FInv` is the type
invariant with what the frames and commands under way carry; in it the overlay
counts exactly the open sends and is armed by the last, from which `DragPinned`
follows.  `SInv` is why the poll does no harm to the settings it does not simply overwrite
(`Covered`): what somebody is about to stamp
is what the camera was told (`Faithful`); with a pending target, that target is
what it was told, and without one the camera already reports it, so that a poll
has read either that or something the gate discards (`Gate`).

`ClientLinkProofs` proves `LinkTypeOK`, `NothingUnpaired` and `OneAck` for any
numbers of addresses, connections, messages and sessions.  `LInv` says that an
address in `authed_conns` belongs to a connection that has paired, and that what
handlers, queues and workers hold was asked by such a one, although addresses
are reused in between.  `PInv` follows a message: it is in one place at a time
(a handler, also one that is stuck, one position of one queue, one worker) and
unanswered as long as it is anywhere.

`LibraryProofs` proves `SavedIsKept` and `ListsAreStored` for any cameras,
clients, names and numbers of commands and crashes.  `WorkOK` gives the form of
a command under way; `SequencesListed` and `MixesListed` say what the lists lack
while one is: a camera's map belongs to its worker from the load to the list, so
that only an import can come between, which `lost` and `stale` remember.

`SupervisorProofs` proves `SupervisorTypeOK`, `NoneLost` and
`StoppedStaysStopped` for any numbers of calls, processes, clicks, crashes,
launches and restarts.  While the app is gone nothing is left but its orphans
(`AwayInv`).  As long as no stop met a start, `status` tells where the app is
(`PhaseInv`): in `starting` exactly one task is in a start and the app has no
bridge but the one just spawned; in `running` none is, and its bridge is `proc`;
otherwise there is neither.  A process just spawned belongs to one task
(`SpawnedInv`), and an orphan is alive (`OrphansInv`).  For the action property,
one lemma says which steps spawn and one which steps begin a start: after a stop
of the user only those of a call.

Each proof module starts with its invariant, proves it inductive with one lemma
or step per action, and ends with the temporal theorems.  No proof assumes more
of the constants than the named assumption of the module, except where this
section says so.

Only model-checked: liveness (`NoLostWakeup`, `TurningEnds`, `JoinsReturn`,
`ClientConverges`, `AnsweredOrGone`, `CrashIsRepaired`, `SettlesDown`), which is
out of the prover's reach.  Every safety property of a run that passes is proved.


## 5. Plan

Written in this order: `MotionPlanner`, because every move passes through it,
the two threads that use it (`CommandWorker`, `Sequencer`), the roster and the
mix that runs on it, then the way of a client's message (`ClientLink`), of a
setting (`StateFeed`) and of what is saved (`Library`), then the processes
(`Supervisor`), and the proofs of each.
What would come next:

1. Two client threads in `DeviceManager`, for the order of its file writes.
2. The frame hand-over between capture and the MJPEG clients.


## 6. Not modelled

* Values: poses, easing, durations, names, JSON.  Settings are a small set of
  values; which setting it is matters only by its behaviour.
* `system.run_status`, `preset.save` and `preset.delete` (SDK calls without
  state here); fades; the wake-up of a sleeping camera on `set_active`; retry of
  captures after a late permission; renames.
* Two client threads inside `DeviceManager` at once (see the hazards on the
  order of file writes).
* Of the mix: durations, the phase and its timer, and the program that
  `set_active` makes of a cue (`DeviceManager`).
* HTTP routes (pairing over HTTP, health, static files, MJPEG), the token file,
  `device_names.json` and the scratch files of the last sequence and mix.
* The exit of the stdin watcher on `EINTR` (`main.cpp:72`): it takes a handler
  that returns, and the process installs none that does (`on_signal` ends in
  `_Exit`, `SIGPIPE` is ignored).
* Data races on plain members (`dev_`, `seq_step_index_` while it is only read).
* The SDK, AVFoundation, sockets and files, except as external actions: an SDK
  call succeeds or refuses, a device is plugged or not; a write is atomic except in
  `Library`, where a crash can tear it.
* Video capture and the MJPEG server (platform and socket I/O; `DeviceManager`
  keeps whether a capture runs), logging, the
  wiring of the processes, what the supervisor reads in log lines, the
  user interfaces and the reconnect loop of the remote control app.
