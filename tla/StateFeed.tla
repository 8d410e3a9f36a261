----------------------------- MODULE StateFeed ------------------------------
(***************************************************************************)
(* One setting of one camera on its way around: a client taps, the worker   *)
(* of the session applies it to the camera and stamps the snapshot, acks    *)
(* and broadcasts; the status poll reads the camera back; other threads     *)
(* broadcast snapshots of their own; the client lays the tapped value over  *)
(* what the bridge reports until a report settles it (device_repository).   *)
(*                                                                          *)
(* Settings differ in what the poll does to them.  "zoom" and "ai" have a   *)
(* pending target that holds the poll back; "polled" stands for HDR, field  *)
(* of view, the face switches and flip, which a poll overwrites; "enabled"  *)
(* (of AI), "exposure" and "color" are not polled.  Of a camera that is     *)
(* neither a Tiny 2 nor a Tiny 2 Lite nothing but the zoom is.              *)
(* Abstracted: all other settings, values (a small set), the wording of     *)
(* frames.  The connection stays up.  Crow's send queue has no limit; here  *)
(* a thread that sends waits while WireRoom frames are under way.           *)
(***************************************************************************)
EXTENDS Integers, Sequences

CONSTANTS
  Fields,        \* the settings considered, one per behaviour
  Top,           \* settings are 0..Top; a zoom beyond Top is clamped
  MaxTaps,       \* bound on the taps of the client
  MaxOthers,     \* bound on the writes of other threads and other clients, and
                 \* on the zoom reads that fail
  MaxTimeouts,   \* bound on the acks the client gives up waiting for
  WireRoom       \* bound on the frames under way to the client

Gated    == {"zoom", "ai"}
Unechoed == {"enabled", "exposure", "color"}
Settings == Gated \cup {"polled"} \cup Unechoed

ASSUME FeedAssumption ==
  /\ Fields \subseteq Settings
  /\ Top \in Nat
  /\ MaxTaps \in Nat /\ MaxOthers \in Nat /\ MaxTimeouts \in Nat
  /\ WireRoom \in Nat \ {0}

VARIABLES
  field,         \* the setting of this behaviour
  product,       \* "tiny2" for a Tiny 2 or a Tiny 2 Lite, or "other"
  cam,           \* camera: the value it was last told and took
  echo,          \* camera: the value it reports; it lags behind cam
  snap,          \* the field of snap_
  pending,       \* pending_zoom_ / pending_ai_mode_, or None
  q,             \* commands on their way to the worker and in its queue
  worker,        \* where the worker is and what it carries
  writer,        \* the planner or sequence thread between an SDK call and its stamp
  other,         \* another thread between building a state event and sending it
  wire,          \* frames on their way to the client, oldest first
  real,          \* client: _lastReal
  ov,            \* client: the _Overlay of the field, or NoOverlay
  waiting,       \* client: ids of sends without an answer
  taps,          \* history: the number of taps, the id of the last
  others, timeouts,   \* history: bounded occurrences
  wrong          \* history: why the snapshot may differ from the camera, or "no":
                 \*   "unread" at start, "partial" SDK calls, "misled" by an SDK
                 \*   error nobody looked at, two writers that "crossed",
                 \*   the planner "ramping" between two waypoints, a value
                 \*   "derived" from another setting

setup      == <<field, product>>
camVars    == <<cam, echo>>
sessVars   == <<snap, pending, q, worker, writer, wrong>>
clientVars == <<real, ov, waiting, taps, timeouts>>
feedVars   == <<setup, camVars, sessVars, other, wire, clientVars, others>>

None == -1

(* What the camera can be set to, and what a client asks for: a zoom beyond *)
(* Top, which is taken as Top, stands for Top as well.                      *)
Settable == 0..Top
Requests == IF field = "zoom" THEN 0..(Top + 1) \ {Top} ELSE Settable

Idle == [pc |-> "idle", id |-> 0, val |-> None]

NoOverlay == [val |-> None, open |-> 0, armed |-> FALSE]

(* The value the client shows: DeviceRepository._merge.                     *)
Shown == IF ov = NoOverlay THEN real ELSE ov.val

(* Whether the status poll reports the setting.                             *)
IsPolled == field = "zoom" \/ (product = "tiny2" /\ field \in {"ai", "polled"})

(* The snapshot starts with defaults, whatever the camera is set to.        *)
FeedInit ==
  /\ field \in Fields
  /\ product \in IF field \in {"ai", "polled"} THEN {"tiny2", "other"} ELSE {"tiny2"}
  /\ cam \in Settable /\ echo = cam /\ snap = 0 /\ pending = None
  /\ wrong = IF snap = cam THEN "no" ELSE "unread"
  /\ q = <<>> /\ worker = Idle /\ writer = Idle /\ other = Idle /\ wire = <<>>
  /\ real = snap /\ ov = NoOverlay /\ waiting = {} /\ taps = 0
  /\ others = 0 /\ timeouts = 0

-----------------------------------------------------------------------------
(* The worker runs a command: the SDK call, then the stamp.                 *)

(* A fault: what the client asks for goes to the camera as it is.           *)
Unclamped(v) == v

Clamp(v) == IF v > Top THEN Top ELSE v

(* The call of one writer falls between the call and the stamp of the other,*)
(* or between the read and the comparison of a poll.                        *)
Overlap(t) == IF t.pc \in {"stamp", "poll"} THEN "crossed" ELSE "no"

(* The camera takes v, and the worker goes on to stamp it.                  *)
Applied(v) ==
  /\ cam' = v /\ wrong' = Overlap(writer)
  /\ worker' = [worker EXCEPT !.pc = "stamp", !.val = v]
  /\ UNCHANGED <<echo, snap, pending>>

(* The handler returns without a stamp.                                     *)
Unstamped ==
  /\ worker' = [worker EXCEPT !.pc = "ack"]
  /\ UNCHANGED <<echo, snap, pending>>

Refused == Unstamped /\ UNCHANGED <<cam, wrong>>

(* A small step within 80 ms of another is acked without being sent.        *)
(* One with a duration is acked and left to the planner.                    *)
cmd_zoom_set(v) == field = "zoom" /\ (Applied(Clamp(v)) \/ Refused)

(* Beyond Top it is refused.                                                *)
cmd_zoom_set_smooth(v) == field = "zoom" /\ ((v \in Settable /\ Applied(v)) \/ Refused)

cmd_ai_set_mode(v) == field = "ai" /\ (Applied(v) \/ Refused)

cmd_ai_set_enabled(v) == field = "enabled" /\ (Applied(v) \/ Refused)

(* Refused also within three seconds of the last change.                    *)
cmd_image_set_hdr(v) == field = "polled" /\ (Applied(v) \/ Refused)

cmd_image_set_fov(v) == field = "polled" /\ (Applied(v) \/ Refused)

(* Face exposure, face focus and horizontal flip.                           *)
cmd_image_set_face(v) == field = "polled" /\ (Applied(v) \/ Refused)

(* Exposure mode, bias, anti-flicker and white balance.                     *)
cmd_image_set_exposure(v) == field = "exposure" /\ (Applied(v) \/ Refused)

(* Up to four SDK calls in a row: when one fails, those before it have been *)
(* applied and nothing is stamped.                                          *)
cmd_image_set_color(v) ==
  /\ field = "color"
  /\ \/ Applied(v)
     \/ Refused
     \/ Unstamped /\ cam' = v /\ wrong' = "partial"

(* The client's command at the head of the queue.                           *)
RunCommand ==
  /\ worker.pc = "run" /\ worker.id > 0
  /\ LET v == worker.val IN
       \/ cmd_zoom_set(v) \/ cmd_zoom_set_smooth(v) \/ cmd_ai_set_mode(v)
       \/ cmd_ai_set_enabled(v) \/ cmd_image_set_hdr(v)
       \/ cmd_image_set_fov(v) \/ cmd_image_set_face(v)
       \/ cmd_image_set_exposure(v) \/ cmd_image_set_color(v)
  /\ UNCHANGED <<setup, q, writer, other, wire, clientVars, others>>

(* Another client's gimbal command switches AI off and stamps that it has,  *)
(* whatever the SDK says.                                                   *)
AiOffForManual ==
  /\ field \in {"ai", "enabled"} /\ worker.pc = "run" /\ worker.id = 0
  /\ \/ cam' = 0 /\ wrong' = Overlap(writer)
     \/ cam # 0 /\ cam' = cam /\ wrong' = "misled"
  /\ worker' = [worker EXCEPT !.pc = "stamp", !.val = 0]
  /\ UNCHANGED <<setup, echo, snap, pending, q, writer, other, wire, clientVars, others>>

(* Another client pins the lens at what the snapshot shows, whatever the    *)
(* SDK says.                                                                *)
cmd_zoom_stop ==
  /\ field = "zoom" /\ worker.pc = "run" /\ worker.id = 0
  /\ \/ cam' = snap /\ wrong' = Overlap(writer)
     \/ cam # snap /\ cam' = cam /\ wrong' = "misled"
  /\ worker' = [worker EXCEPT !.pc = "stamp", !.val = snap]
  /\ UNCHANGED <<setup, echo, snap, pending, q, writer, other, wire, clientVars, others>>

(* Another client has exposure and white balance read back.                 *)
cmd_image_refresh ==
  /\ field = "exposure" /\ worker.pc = "run" /\ worker.id = 0
  /\ snap' = cam /\ wrong' = "no"
  /\ worker' = [worker EXCEPT !.pc = "ack"]
  /\ UNCHANGED <<setup, camVars, pending, q, writer, other, wire, clientVars, others>>

(* Another client sets an AI mode: the snapshot has AI enabled, or not,     *)
(* to go with it, and the camera has been told the mode only.               *)
AiModeStampsEnabled(v) ==
  /\ field = "enabled" /\ worker.pc = "run" /\ worker.id = 0
  /\ wrong' = IF v = cam THEN Overlap(writer) ELSE "derived"
  /\ worker' = [worker EXCEPT !.pc = "stamp", !.val = v]
  /\ UNCHANGED <<setup, camVars, snap, pending, q, writer, other, wire, clientVars, others>>

TakeCommand ==
  /\ worker.pc = "idle" /\ q # <<>>
  /\ worker' = [Idle EXCEPT !.pc = "run", !.id = Head(q).id, !.val = Head(q).val]
  /\ q' = Tail(q)
  /\ UNCHANGED <<setup, camVars, snap, pending, writer, wrong, other, wire,
                 clientVars, others>>

Target(v) == IF field \in Gated THEN v ELSE pending

Stamp ==
  /\ worker.pc = "stamp"
  /\ snap' = (IF field = "zoom" /\ worker.id = 0 THEN snap ELSE worker.val)
  /\ pending' = Target(worker.val)
  /\ worker' = [worker EXCEPT !.pc = "ack"]
  /\ UNCHANGED <<setup, camVars, q, writer, wrong, other, wire, clientVars, others>>

-----------------------------------------------------------------------------
(* The status poll of the worker.                                           *)

PollReads ==
  /\ worker.pc = "idle"
  /\ worker' = [Idle EXCEPT !.pc = "poll", !.val = echo]
  /\ UNCHANGED <<setup, camVars, snap, pending, q, writer, wrong, other, wire,
                 clientVars, others>>

(* The zoom is not read: the poll leaves it, and goes on to broadcast.      *)
PollFails ==
  /\ field = "zoom" /\ worker.pc = "idle"
  /\ others < MaxOthers /\ others' = others + 1
  /\ worker' = [Idle EXCEPT !.pc = "build"]
  /\ UNCHANGED <<setup, camVars, snap, pending, q, writer, wrong, other, wire, clientVars>>

(* A fault: the poll overwrites a value the camera has yet to reach.        *)
PolledAnyway(z) ==
  IF IsPolled THEN [snap |-> z, pending |-> None]
              ELSE [snap |-> snap, pending |-> pending]

(* What the poll makes of the reported value z.                             *)
Polled(z) ==
  IF ~IsPolled \/ (field \in Gated /\ pending \notin {None, z})
  THEN [snap |-> snap, pending |-> pending]
  ELSE [snap |-> z, pending |-> None]

poll_status_locked ==
  /\ worker.pc = "poll"
  /\ snap' = Polled(worker.val).snap /\ pending' = Polled(worker.val).pending
  /\ worker' = [worker EXCEPT !.pc = "build"]
  /\ UNCHANGED <<setup, camVars, q, writer, wrong, other, wire, clientVars, others>>

-----------------------------------------------------------------------------
(* Frames: the ack of a command, then a state event built under one lock    *)
(* and sent under another.                                                  *)

HasRoom == Len(wire) < WireRoom

SendAck ==
  /\ worker.pc = "ack" /\ HasRoom
  /\ wire' = IF worker.id = 0 THEN wire
             ELSE Append(wire, [type |-> "ack", id |-> worker.id, val |-> None])
  /\ worker' = [worker EXCEPT !.pc = "build"]
  /\ UNCHANGED <<setup, camVars, snap, pending, q, writer, wrong, other,
                 clientVars, others>>

build_state_event(t) == [t EXCEPT !.pc = "send", !.id = 0, !.val = snap]

StateEvent(t) == [type |-> "state", id |-> 0, val |-> t.val]

WorkerBuilds ==
  /\ worker.pc = "build" /\ worker' = build_state_event(worker)
  /\ UNCHANGED <<setup, camVars, snap, pending, q, writer, wrong, other, wire,
                 clientVars, others>>

WorkerSends ==
  /\ worker.pc = "send" /\ HasRoom
  /\ wire' = Append(wire, StateEvent(worker)) /\ worker' = Idle
  /\ UNCHANGED <<setup, camVars, snap, pending, q, writer, wrong, other,
                 clientVars, others>>

(* Another camera's worker, the hotplug thread, a client's thread.          *)
OtherBuilds ==
  /\ other.pc = "idle" /\ other' = build_state_event(other)
  /\ UNCHANGED <<setup, camVars, sessVars, wire, clientVars, others>>

OtherSends ==
  /\ other.pc = "send" /\ HasRoom
  /\ wire' = Append(wire, StateEvent(other)) /\ other' = Idle
  /\ UNCHANGED <<setup, camVars, sessVars, clientVars, others>>

-----------------------------------------------------------------------------
(* The planner or the sequence thread sets zoom, the latter switches AI off.*)
(* Neither looks at the result.                                             *)

WriterCalls(v) ==
  /\ writer.pc = "idle" /\ others < MaxOthers /\ others' = others + 1
  /\ field = "zoom" \/ (field \in {"ai", "enabled"} /\ v = 0)
  /\ \/ cam' = v /\ wrong' = Overlap(worker)
     \/ cam # v /\ cam' = cam /\ wrong' = "misled"
  /\ writer' = [Idle EXCEPT !.pc = "stamp", !.val = v]
  /\ UNCHANGED <<setup, echo, snap, pending, q, worker, other, wire, clientVars>>

(* The landing of a motion, a step of the sequence.                         *)
WriterStamps ==
  /\ writer.pc = "stamp"
  /\ snap' = writer.val /\ pending' = Target(writer.val) /\ writer' = Idle
  /\ UNCHANGED <<setup, camVars, q, worker, wrong, other, wire, clientVars, others>>

(* A waypoint of the planner sets the target; its ticks show the ramp.      *)
WaypointStamps ==
  /\ writer.pc = "stamp" /\ field = "zoom"
  /\ pending' = writer.val /\ writer' = [writer EXCEPT !.pc = "ramp"]
  /\ wrong' = (IF wrong = "no" THEN "ramping" ELSE wrong)
  /\ UNCHANGED <<setup, camVars, snap, q, worker, other, wire, clientVars, others>>

PlannerTicks(v) ==
  /\ writer.pc = "ramp" /\ writer' = Idle
  /\ snap' = v /\ wrong' = (IF wrong = "no" THEN "ramping" ELSE wrong)
  /\ UNCHANGED <<setup, camVars, pending, q, worker, other, wire, clientVars, others>>

(* The firmware reports what it was told, some time later.                  *)
CameraCatchesUp ==
  /\ echo # cam /\ echo' = cam
  /\ UNCHANGED <<setup, cam, sessVars, other, wire, clientVars, others>>

-----------------------------------------------------------------------------
(* The client: device_repository over obsbot_api_client.                    *)

Bridge == <<setup, camVars, snap, pending, worker, writer, wrong, other>>

(* _writeOverlay and send.                                                  *)
Tap(v) ==
  /\ taps < MaxTaps /\ v # Shown
  /\ taps' = taps + 1
  /\ ov' = [val |-> v, open |-> ov.open + 1, armed |-> FALSE]
  /\ waiting' = waiting \cup {taps'}
  /\ q' = Append(q, [id |-> taps', val |-> v])
  /\ UNCHANGED <<Bridge, wire, real, timeouts, others>>

(* A command of another client, which this one knows nothing of.            *)
OtherClient ==
  /\ others < MaxOthers /\ others' = others + 1
  /\ field \in {"zoom", "ai", "enabled", "exposure"}
  /\ q' = Append(q, [id |-> 0, val |-> None])
  /\ UNCHANGED <<Bridge, wire, clientVars>>

(* A fault: the first answer arms, whatever else is under way.              *)
ArmedByFirst == [ov EXCEPT !.open = @ - 1, !.armed = TRUE]

(* _settleAfterAck: the last answer arms the overlay.                       *)
Settled == [ov EXCEPT !.open = @ - 1, !.armed = (ov.open = 1)]

(* A fault: a send that fails leaves the overlay to wait.                   *)
SettledIfAcked == ov

(* _mutate settles when its send fails as well.                             *)
SettledOnFailure == Settled

ReceiveAck ==
  /\ wire # <<>> /\ Head(wire).type = "ack" /\ wire' = Tail(wire)
  /\ IF Head(wire).id \in waiting
     THEN waiting' = waiting \ {Head(wire).id} /\ ov' = Settled
     ELSE UNCHANGED <<waiting, ov>>
  /\ UNCHANGED <<Bridge, q, real, taps, timeouts, others>>

(* _onReal: a state event supersedes an armed overlay.                      *)
ReceiveState ==
  /\ wire # <<>> /\ Head(wire).type = "state" /\ wire' = Tail(wire)
  /\ real' = Head(wire).val
  /\ ov' = IF ov.armed THEN NoOverlay ELSE ov
  /\ UNCHANGED <<Bridge, q, waiting, taps, timeouts, others>>

(* No ack within three seconds.                                             *)
Timeout(n) ==
  /\ n \in waiting /\ timeouts < MaxTimeouts /\ timeouts' = timeouts + 1
  /\ waiting' = waiting \ {n} /\ ov' = SettledOnFailure
  /\ UNCHANGED <<Bridge, q, wire, real, taps, others>>

(* An armed overlay nothing settled in five seconds is dropped.             *)
GraceEnds ==
  /\ ov.armed /\ ov' = NoOverlay
  /\ UNCHANGED <<Bridge, q, wire, real, waiting, taps, timeouts, others>>

-----------------------------------------------------------------------------
Worker ==
  \/ TakeCommand \/ RunCommand \/ AiOffForManual \/ cmd_zoom_stop
  \/ cmd_image_refresh \/ Stamp \/ \E v \in Settable : AiModeStampsEnabled(v)
  \/ PollReads \/ PollFails \/ poll_status_locked \/ SendAck \/ WorkerBuilds \/ WorkerSends

Client ==
  \/ \E v \in Requests : Tap(v)
  \/ ReceiveAck \/ ReceiveState \/ GraceEnds
  \/ \E n \in waiting : Timeout(n)

FeedNext ==
  \/ Worker \/ Client \/ OtherClient
  \/ OtherBuilds \/ OtherSends
  \/ \E v \in Settable : WriterCalls(v) \/ PlannerTicks(v)
  \/ WriterStamps \/ WaypointStamps \/ CameraCatchesUp

(* The worker runs on, takes its queue between two polls, and gets its      *)
(* frames out; TCP delivers; a thread that has called the SDK stamps; the   *)
(* firmware reports in the end.  Nobody has to tap.                         *)
FeedSpec ==
  /\ FeedInit /\ [][FeedNext]_feedVars
  /\ WF_feedVars(Worker) /\ SF_feedVars(TakeCommand)
  /\ SF_feedVars(SendAck \/ WorkerSends) /\ WF_feedVars(ReceiveAck \/ ReceiveState)
  /\ WF_feedVars(WriterStamps \/ WaypointStamps) /\ WF_feedVars(CameraCatchesUp)

-----------------------------------------------------------------------------
(* Types.  The camera is never told a zoom it does not have.                *)
Options == 0..(Top + 1) \cup {None}

Frames == [type : {"ack", "state"}, id : 0..MaxTaps, val : Options]

Threads == [pc : {"idle", "run", "stamp", "ack", "poll", "build", "send", "ramp"},
            id : 0..MaxTaps, val : Options]

FeedTypeOK ==
  /\ field \in Fields /\ product \in {"tiny2", "other"}
  /\ {cam, echo, snap} \subseteq Settable /\ pending \in Settable \cup {None}
  /\ q \in Seq([id : 0..MaxTaps, val : Options])
  /\ worker \in Threads /\ writer \in Threads /\ other \in Threads
  /\ wire \in Seq(Frames) /\ Len(wire) <= WireRoom
  /\ real \in Settable /\ taps \in 0..MaxTaps
  /\ ov \in [val : Options, open : 0..MaxTaps, armed : BOOLEAN]
  /\ waiting \subseteq 1..MaxTaps
  /\ others \in 0..MaxOthers /\ timeouts \in 0..MaxTimeouts
  /\ wrong \in {"no", "unread", "partial", "misled", "crossed", "ramping", "derived"}

(* Nobody is between an SDK call and its stamp.                             *)
NobodyStamps == worker.pc # "stamp" /\ writer.pc # "stamp"

(* A setting with a pending target, or one that is not polled, is in the    *)
(* snapshot what the camera was last told, through every poll of a camera   *)
(* that lags - unless two writers crossed, an SDK error was ignored, a      *)
(* multi-part change failed half way or the value was derived from another  *)
(* setting.  This is what pending_zoom_ and pending_ai_mode_ are for        *)
(* (device_session.h:333-347).                                              *)
SnapshotTrue ==
  (wrong = "no" /\ NobodyStamps /\ (field \in Gated \/ ~IsPolled)) => snap = cam

(* While a write of the client is unanswered, only a tap changes what it    *)
(* shows, whatever events and answers to older writes come in               *)
(* (device_repository.dart:84-87).                                          *)
DragPinned == [][waiting' # {} /\ taps' = taps => Shown' = Shown]_feedVars

(* In the end the client shows what the camera is set to, with timeouts,    *)
(* refusals, clamped values, late reports and reordered events: polls heal  *)
(* every polled setting, and the others if nothing of the kind named by     *)
(* "wrong" happened to them.                                                *)
Excused ==
  \/ ~IsPolled /\ wrong # "no"
  \/ IsPolled /\ field \in Gated /\ wrong \in {"misled", "crossed"}

ClientConverges == <>[](Shown = cam \/ Excused)

(* What device_repository.dart:76-81 relies on: the first state event after *)
(* the ack of the last write reflects that write.  It is about a setting    *)
(* nobody else writes and no poll overwrites.                               *)
SettlesOnReflecting ==
  [][(wire # <<>> /\ wire' = Tail(wire) /\ ov.armed /\ timeouts = 0
        /\ field \in Unechoed) => real' = snap]_feedVars
=============================================================================
