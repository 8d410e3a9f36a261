-------------------------- MODULE StateFeedProofs ---------------------------
(***************************************************************************)
(* What holds of StateFeed for any settings, and any number of taps,        *)
(* timeouts and other writers.  Three invariants, one on top of the other:  *)
(* what the threads carry has its type; the overlay of the client counts    *)
(* the unanswered sends; and the snapshot is what the camera was told.      *)
(***************************************************************************)
EXTENDS StateFeed, FiniteSets, FiniteSetTheorems, SequenceTheorems, TLAPS

(* A value is carried to the snapshot only if the camera can be set to it.  *)
StoredOK ==
  /\ field \in Fields /\ product \in {"tiny2", "other"}
  /\ {cam, echo, snap} \subseteq Settable /\ pending \in Settable \cup {None}
  /\ wrong \in {"no", "unread", "partial", "misled", "crossed", "ramping", "derived"}
  /\ others \in 0..MaxOthers

WorkerOK ==
  /\ worker \in Threads
  /\ worker.pc \in {"stamp", "poll", "send"} => worker.val \in Settable
  /\ worker.pc = "run" /\ worker.id > 0 => worker.val \in Requests

WriterOK ==
  /\ writer \in Threads /\ (writer.pc = "stamp" => writer.val \in Settable)
  /\ writer.pc # "idle" => field \in {"zoom", "ai", "enabled"}

OtherOK == other \in Threads /\ (other.pc = "send" => other.val \in Settable)

Commands == {c \in [id : 0..MaxTaps, val : Options] : c.id > 0 => c.val \in Requests}

QueueOK == q \in Seq(Commands)

SentFrames == {f \in Frames : f.type = "state" => f.val \in Settable}

WireOK == wire \in Seq(SentFrames) /\ Len(wire) <= WireRoom

(* The overlay counts the sends without an answer, and is armed by the last.*)
ClientOK ==
  /\ real \in Settable /\ taps \in 0..MaxTaps /\ timeouts \in 0..MaxTimeouts
  /\ ov \in [val : Options, open : Nat, armed : BOOLEAN]
  /\ waiting \subseteq 1..taps /\ ov.open = Cardinality(waiting)
  /\ ov.armed => ov.open = 0

FInv ==
  StoredOK /\ WorkerOK /\ WriterOK /\ OtherOK /\ QueueOK /\ WireOK /\ ClientOK

(* Why the poll does no harm: as long as nothing went wrong, what somebody  *)
(* is about to stamp is what the camera was told; without a pending target  *)
(* the camera reports what it was told; with one, the target is just that;  *)
(* and what a poll has read is either that or older than the target.        *)
Gate ==
  field \in Gated =>
    /\ NobodyStamps => IF pending = None THEN echo = cam ELSE pending = cam
    /\ worker.pc = "poll" => /\ worker.val = cam => echo = cam
                             /\ NobodyStamps /\ pending = None => worker.val = cam

Faithful ==
  /\ worker.pc = "stamp" => /\ writer.pc # "stamp" /\ worker.val = cam
                            /\ field = "zoom" /\ worker.id = 0 => snap = cam
  /\ writer.pc = "stamp" => writer.val = cam
  /\ NobodyStamps => snap = cam

Covered == field \in Gated \/ ~IsPolled

SInv == wrong = "no" /\ Covered => Faithful /\ Gate
-----------------------------------------------------------------------------
(* Sequences.                                                               *)
LEMMA TailOf ==
  ASSUME NEW S, NEW s \in Seq(S), s # <<>>
  PROVE  Head(s) \in S /\ Tail(s) \in Seq(S) /\ Len(Tail(s)) = Len(s) - 1 /\ Len(s) \in Nat
  OBVIOUS

LEMMA AppendOf ==
  ASSUME NEW S, NEW s \in Seq(S), NEW e \in S
  PROVE  Append(s, e) \in Seq(S) /\ Len(Append(s, e)) = Len(s) + 1 /\ Len(s) \in Nat
  OBVIOUS

LEMMA Values ==
  /\ Settable \subseteq Options /\ None \in Options /\ None \notin Settable /\ 0 \in Settable
  /\ Requests \subseteq Options /\ (field # "zoom" => Requests = Settable)
  /\ \A v \in Requests : Clamp(v) \in Settable
  /\ \A v \in Settable : v \in Int
BY FeedAssumption DEF Settable, Options, None, Requests, Clamp

(* What a command leaves behind: a value to stamp, or none.                 *)
LEMMA CommandOutcome ==
  ASSUME FInv, RunCommand
  PROVE  /\ worker.pc = "run" /\ worker.id > 0
         /\ UNCHANGED <<setup, echo, snap, pending, q, writer, other, wire, clientVars, others>>
         /\ \/ /\ cam' \in Settable /\ wrong' = Overlap(writer)
               /\ worker' = [worker EXCEPT !.pc = "stamp", !.val = cam']
            \/ /\ worker' = [worker EXCEPT !.pc = "ack"]
               /\ \/ UNCHANGED <<cam, wrong>>
                  \/ cam' \in Settable /\ wrong' = "partial"
<1>1. worker.val \in Requests /\ worker.pc = "run" /\ worker.id > 0
  BY DEF FInv, WorkerOK, RunCommand
<1> QED
  BY <1>1, Values DEF RunCommand, cmd_zoom_set, cmd_zoom_set_smooth, cmd_ai_set_mode,
     cmd_ai_set_enabled, cmd_image_set_hdr, cmd_image_set_fov, cmd_image_set_face,
     cmd_image_set_exposure, cmd_image_set_color, Applied, Refused, Unstamped

(* A part of the invariant whose variables stay as they are stays true.     *)
LEMMA Kept ==
  ASSUME FInv, UNCHANGED setup
  PROVE  /\ UNCHANGED <<cam, echo, snap, pending, wrong, others>> => StoredOK'
         /\ UNCHANGED worker => WorkerOK'
         /\ UNCHANGED writer => WriterOK'
         /\ UNCHANGED other => OtherOK'
         /\ UNCHANGED q => QueueOK'
         /\ UNCHANGED wire => WireOK'
         /\ UNCHANGED clientVars => ClientOK'
         /\ Requests' = Requests /\ Commands' = Commands
<1>1. FInv /\ UNCHANGED <<field, product>>
  BY DEF setup
<1>2. UNCHANGED <<cam, echo, snap, pending, wrong, others>> => StoredOK'
  BY <1>1 DEF FInv, StoredOK
<1>3. Requests' = Requests /\ Commands' = Commands
  BY <1>1 DEF Commands, Requests
<1>4. UNCHANGED worker => WorkerOK'
  BY <1>1, <1>3 DEF FInv, WorkerOK
<1>5. UNCHANGED writer => WriterOK'
  BY <1>1 DEF FInv, WriterOK
<1>6. UNCHANGED other => OtherOK'
  BY <1>1 DEF FInv, OtherOK
<1>7. /\ UNCHANGED q => QueueOK'
      /\ UNCHANGED wire => WireOK'
      /\ UNCHANGED clientVars => ClientOK'
  BY <1>1, <1>3 DEF FInv, QueueOK, WireOK, ClientOK, clientVars
<1> QED
  BY <1>2, <1>3, <1>4, <1>5, <1>6, <1>7

-----------------------------------------------------------------------------
(* The types, and the overlay.                                              *)
LEMMA FInvInit == FeedInit => FInv
<1> SUFFICES ASSUME FeedInit PROVE FInv
  OBVIOUS
<1>1. StoredOK
  BY Values, FeedAssumption DEF FeedInit, StoredOK
<1>2. WorkerOK /\ WriterOK /\ OtherOK
  BY Values, FeedAssumption DEF FeedInit, WorkerOK, WriterOK, OtherOK, Idle, Threads
<1>3. QueueOK /\ WireOK
  BY FeedAssumption DEF FeedInit, QueueOK, WireOK
<1>4. ClientOK
  BY Values, FeedAssumption, FS_EmptySet DEF FeedInit, ClientOK, NoOverlay
<1> QED
  BY <1>1, <1>2, <1>3, <1>4 DEF FInv

(* The worker's own steps.                                                  *)
LEMMA FInvWorker ==
  ASSUME FInv, Worker
  PROVE  FInv' /\ UNCHANGED <<setup, clientVars>>
<1>0. StoredOK /\ WorkerOK /\ QueueOK /\ WireOK
  BY DEF FInv
<1>1. CASE TakeCommand
  <2>1. Head(q) \in Commands /\ q' \in Seq(Commands)
    BY <1>0, <1>1, TailOf DEF TakeCommand, QueueOK
  <2>2. WorkerOK'
    BY <1>1, <2>1 DEF setup, TakeCommand, WorkerOK, Commands, Threads, Idle, Requests
  <2> QED
    BY <1>1, <2>1, <2>2, Kept DEF TakeCommand, QueueOK, FInv, camVars
<1>2. CASE RunCommand
  <2>1. StoredOK'
    BY <1>0, <1>2, CommandOutcome DEF setup, StoredOK, Overlap
  <2>2. WorkerOK'
    BY <1>0, <1>2, CommandOutcome, Values DEF WorkerOK, Threads
  <2> QED
    BY <1>2, <2>1, <2>2, Kept, CommandOutcome DEF FInv
<1>3. CASE AiOffForManual \/ cmd_zoom_stop \/ cmd_image_refresh
  <2>1. StoredOK'
    BY <1>0, <1>3, Values DEF setup, StoredOK, AiOffForManual, cmd_zoom_stop, cmd_image_refresh,
       Overlap, camVars
  <2>2. WorkerOK'
    BY <1>0, <1>3, Values DEF StoredOK, AiOffForManual, cmd_zoom_stop, cmd_image_refresh,
       WorkerOK, Threads
  <2> QED
    BY <1>3, <2>1, <2>2, Kept DEF FInv, AiOffForManual, cmd_zoom_stop, cmd_image_refresh
<1>4. CASE Stamp
  <2>1. StoredOK'
    BY <1>0, <1>4 DEF setup, StoredOK, WorkerOK, Stamp, Target, camVars
  <2>2. WorkerOK'
    BY <1>0, <1>4 DEF WorkerOK, Stamp, Threads
  <2> QED
    BY <1>4, <2>1, <2>2, Kept DEF FInv, Stamp
<1>5. CASE PollReads \/ PollFails \/ poll_status_locked
  <2>1. StoredOK'
    BY <1>0, <1>5, FeedAssumption DEF StoredOK, WorkerOK, PollReads, PollFails,
       poll_status_locked, Polled, camVars, setup
  <2>2. /\ PollReads => worker' = [pc |-> "poll", id |-> 0, val |-> echo]
        /\ PollFails => worker' = [pc |-> "build", id |-> 0, val |-> None]
    BY DEF PollReads, PollFails, Idle
  <2>3. WorkerOK'
    BY <1>0, <1>5, <2>2, Values, FeedAssumption DEF StoredOK, WorkerOK, poll_status_locked,
       Threads
  <2> QED
    BY <1>5, <2>1, <2>3, Kept DEF FInv, PollReads, PollFails, poll_status_locked
<1>6. CASE SendAck
  <2>1. [type |-> "ack", id |-> worker.id, val |-> None] \in SentFrames
    BY <1>0, Values DEF SentFrames, Frames, Threads, WorkerOK
  <2>2. WireOK'
    BY <1>0, <1>6, <2>1, AppendOf, FeedAssumption DEF SendAck, HasRoom, WireOK
  <2>3. WorkerOK'
    BY <1>0, <1>6 DEF WorkerOK, SendAck, Threads
  <2> QED
    BY <1>6, <2>2, <2>3, Kept DEF FInv, SendAck, camVars
<1>7. CASE WorkerBuilds
  <2>0. worker' = [pc |-> "send", id |-> 0, val |-> snap]
    BY <1>0, <1>7 DEF WorkerBuilds, build_state_event, WorkerOK, Threads
  <2>1. WorkerOK'
    BY <1>0, <2>0, Values, FeedAssumption DEF WorkerOK, StoredOK, Threads
  <2> QED
    BY <1>7, <2>1, Kept DEF FInv, WorkerBuilds, camVars
<1>8. CASE WorkerSends
  <2>1. StateEvent(worker) \in SentFrames
    BY <1>0, <1>8, Values, FeedAssumption DEF WorkerSends, WorkerOK, StateEvent, SentFrames, Frames
  <2>2. WireOK'
    BY <1>0, <1>8, <2>1, AppendOf, FeedAssumption DEF WorkerSends, HasRoom, WireOK
  <2>3. WorkerOK'
    BY <1>8, Values, FeedAssumption DEF WorkerOK, WorkerSends, Threads, Idle
  <2> QED
    BY <1>8, <2>2, <2>3, Kept DEF FInv, WorkerSends, camVars
<1>9. ASSUME NEW v \in Settable, AiModeStampsEnabled(v)
      PROVE  FInv' /\ UNCHANGED <<setup, clientVars>>
  <2>1. StoredOK'
    BY <1>0, <1>9 DEF StoredOK, AiModeStampsEnabled, Overlap, camVars, setup
  <2>2. WorkerOK'
    BY <1>0, <1>9, Values DEF AiModeStampsEnabled, WorkerOK, Threads
  <2> QED
    BY <1>9, <2>1, <2>2, Kept DEF FInv, AiModeStampsEnabled
<1> QED
  BY <1>1, <1>2, <1>3, <1>4, <1>5, <1>6, <1>7, <1>8, <1>9 DEF Worker

(* The other threads of the bridge, the camera, and other clients.          *)
Beside ==
  \/ OtherBuilds \/ OtherSends \/ WriterStamps \/ WaypointStamps \/ CameraCatchesUp
  \/ OtherClient \/ \E v \in Settable : WriterCalls(v) \/ PlannerTicks(v)

LEMMA FInvBeside ==
  ASSUME FInv, Beside
  PROVE  FInv' /\ UNCHANGED <<setup, clientVars>>
<1>0. StoredOK /\ WriterOK /\ OtherOK /\ QueueOK /\ WireOK
  BY DEF FInv
<1>1. CASE OtherBuilds
  <2>0. other' = [pc |-> "send", id |-> 0, val |-> snap]
    BY <1>0, <1>1 DEF OtherBuilds, build_state_event, OtherOK, Threads
  <2>1. OtherOK'
    BY <1>0, <2>0, Values, FeedAssumption DEF OtherOK, StoredOK, Threads
  <2> QED
    BY <1>1, <2>1, Kept DEF FInv, OtherBuilds, camVars, sessVars
<1>2. CASE OtherSends
  <2>1. StateEvent(other) \in SentFrames
    BY <1>0, <1>2, Values, FeedAssumption DEF OtherSends, OtherOK, StateEvent, SentFrames, Frames
  <2>2. WireOK'
    BY <1>0, <1>2, <2>1, AppendOf, FeedAssumption DEF OtherSends, HasRoom, WireOK
  <2>3. OtherOK'
    BY <1>2, Values, FeedAssumption DEF OtherOK, OtherSends, Threads, Idle
  <2> QED
    BY <1>2, <2>2, <2>3, Kept DEF FInv, OtherSends, camVars, sessVars
<1>3. CASE WriterStamps \/ WaypointStamps
  <2>1. StoredOK'
    BY <1>0, <1>3 DEF setup, StoredOK, WriterOK, WriterStamps, WaypointStamps, Target, camVars
  <2>2. WriterOK'
    BY <1>0, <1>3, Values, FeedAssumption DEF setup, WriterOK, WriterStamps, WaypointStamps, Threads,
       Idle
  <2> QED
    BY <1>3, <2>1, <2>2, Kept DEF FInv, WriterStamps, WaypointStamps
<1>4. ASSUME NEW v \in Settable, WriterCalls(v) \/ PlannerTicks(v)
      PROVE  FInv' /\ UNCHANGED <<setup, clientVars>>
  <2>1. StoredOK'
    BY <1>0, <1>4, FeedAssumption DEF setup, StoredOK, WriterCalls, PlannerTicks, Overlap, camVars
  <2>2. \/ writer' = [pc |-> "stamp", id |-> 0, val |-> v]
           /\ field' \in {"zoom", "ai", "enabled"}
        \/ writer' = Idle
    BY <1>4 DEF setup, WriterCalls, PlannerTicks, Idle
  <2>3. WriterOK'
    BY <2>2, Values, FeedAssumption DEF WriterOK, Threads, Idle
  <2> QED
    BY <1>4, <2>1, <2>3, Kept DEF FInv, WriterCalls, PlannerTicks
<1>5. CASE CameraCatchesUp
  <2>1. StoredOK'
    BY <1>0, <1>5 DEF setup, StoredOK, CameraCatchesUp, sessVars
  <2> QED
    BY <1>5, <2>1, Kept DEF FInv, CameraCatchesUp, sessVars
<1>6. CASE OtherClient
  <2>1. [id |-> 0, val |-> None] \in Commands
    BY Values, FeedAssumption DEF Commands
  <2>2. QueueOK'
    BY <1>0, <1>6, <2>1, AppendOf, Kept DEF OtherClient, QueueOK, Bridge
  <2>3. StoredOK'
    BY <1>0, <1>6, FeedAssumption DEF setup, StoredOK, OtherClient, Bridge, camVars
  <2> QED
    BY <1>6, <2>2, <2>3, Kept DEF FInv, OtherClient, Bridge, camVars
<1> QED
  BY <1>1, <1>2, <1>3, <1>4, <1>5, <1>6 DEF Beside

LEMMA FiniteWaiting ==
  ASSUME ClientOK
  PROVE  IsFiniteSet(waiting)
<1>1. IsFiniteSet(1..taps) /\ waiting \subseteq 1..taps
  BY FS_Interval, FeedAssumption DEF ClientOK
<1> QED
  BY <1>1, FS_Subset

(* An answer, or a time-out, takes one send off the count.                  *)
LEMMA SettledCount ==
  ASSUME ClientOK, NEW n \in waiting, waiting' = waiting \ {n}, ov' = Settled, taps' = taps,
         real' = real, timeouts' \in 0..MaxTimeouts
  PROVE  ClientOK' /\ ov.open > 0 /\ ov'.val = ov.val /\ (waiting' # {} => ov'.open > 0)
<1>1. IsFiniteSet(waiting)
  BY FiniteWaiting
<1>2. /\ IsFiniteSet(waiting \ {n})
      /\ Cardinality(waiting \ {n}) = Cardinality(waiting) - 1
      /\ Cardinality(waiting) \in Nat /\ Cardinality(waiting \ {n}) \in Nat
  BY <1>1, FS_RemoveElement, FS_CardinalityType
<1>3. waiting \ {n} # {} => Cardinality(waiting \ {n}) # 0
  BY <1>2, FS_EmptySet
<1>4. ov' \in [val : Options, open : Nat, armed : BOOLEAN] /\ ov'.open = ov.open - 1
      /\ ov'.armed = (ov.open = 1) /\ ov'.val = ov.val
  BY <1>2 DEF Settled, ClientOK
<1> QED
  BY <1>2, <1>3, <1>4 DEF ClientOK

(* While a send is unanswered the overlay is open, and shown.               *)
LEMMA OpenWhileWaiting ==
  ASSUME ClientOK, waiting # {}
  PROVE  ov.open > 0 /\ ov # NoOverlay /\ ~ov.armed
<1>1. IsFiniteSet(waiting)
  BY FiniteWaiting
<1>2. Cardinality(waiting) \in Nat \ {0}
  BY <1>1, FS_EmptySet, FS_CardinalityType
<1> QED
  BY <1>2 DEF ClientOK, NoOverlay

LEMMA FInvTap ==
  ASSUME FInv, NEW v \in Requests, Tap(v)
  PROVE  FInv'
<1>0. ClientOK /\ QueueOK
  BY DEF FInv
<1>1. IsFiniteSet(waiting) /\ taps + 1 \notin waiting /\ taps' = taps + 1 /\ taps' \in 0..MaxTaps
  BY <1>0, FiniteWaiting, FeedAssumption DEF Tap, ClientOK
<1>2. Cardinality(waiting') = Cardinality(waiting) + 1 /\ Cardinality(waiting) \in Nat
  BY <1>1, FS_AddElement, FS_CardinalityType DEF Tap
<1>3. waiting' \subseteq 1..taps'
  BY <1>0, <1>1 DEF Tap, ClientOK
<1>4. ov' \in [val : Options, open : Nat, armed : BOOLEAN] /\ ov'.open = ov.open + 1 /\ ~ov'.armed
  BY <1>0, Values DEF Tap, ClientOK
<1>5. ClientOK'
  BY <1>0, <1>1, <1>2, <1>3, <1>4 DEF Tap, ClientOK
<1>6. [id |-> taps', val |-> v] \in Commands
  BY <1>1, Values DEF Commands
<1>7. QueueOK'
  BY <1>0, <1>6, AppendOf, Kept DEF Tap, QueueOK, Bridge
<1> QED
  BY <1>5, <1>7, Kept DEF FInv, Tap, Bridge, camVars

LEMMA FInvClient ==
  ASSUME FInv, Client
  PROVE  FInv'
<1>0. ClientOK /\ WireOK
  BY DEF FInv
<1>1. ASSUME wire # <<>>, wire' = Tail(wire)
      PROVE  Head(wire) \in SentFrames /\ WireOK'
  BY <1>0, <1>1, TailOf, FeedAssumption DEF WireOK
<1>2. CASE ReceiveAck
  <2>1. ClientOK'
    <3>1. CASE Head(wire).id \in waiting
      BY <1>0, <1>2, <3>1, SettledCount DEF ReceiveAck, ClientOK
    <3>2. CASE Head(wire).id \notin waiting
      BY <1>0, <1>2, <3>2 DEF ReceiveAck, ClientOK
    <3> QED
      BY <3>1, <3>2
  <2> QED
    BY <1>1, <1>2, <2>1, Kept DEF FInv, ReceiveAck, Bridge, camVars
<1>3. CASE ReceiveState
  <2>1. ClientOK'
    BY <1>0, <1>1, <1>3, Values DEF ReceiveState, ClientOK, SentFrames, NoOverlay
  <2> QED
    BY <1>1, <1>3, <2>1, Kept DEF FInv, ReceiveState, Bridge, camVars
<1>4. CASE GraceEnds
  <2>1. ClientOK'
    BY <1>0, <1>4, Values DEF GraceEnds, ClientOK, NoOverlay
  <2> QED
    BY <1>4, <2>1, Kept DEF FInv, GraceEnds, Bridge, camVars
<1>5. ASSUME NEW n \in waiting, Timeout(n) PROVE FInv'
  <2>0. timeouts' \in 0..MaxTimeouts
    BY <1>0, <1>5, FeedAssumption DEF Timeout, ClientOK
  <2>1. ClientOK'
    BY <1>0, <1>5, <2>0, SettledCount DEF Timeout, SettledOnFailure
  <2> QED
    BY <1>5, <2>1, Kept DEF FInv, Timeout, Bridge, camVars
<1>6. ASSUME NEW v \in Requests, Tap(v) PROVE FInv'
  BY <1>6, FInvTap
<1> QED
  BY <1>2, <1>3, <1>4, <1>5, <1>6 DEF Client

LEMMA Steps == FeedNext => Worker \/ Beside \/ Client
  BY DEF FeedNext, Beside

THEOREM FInvariance == FeedSpec => []FInv
<1>1. FInv /\ [FeedNext]_feedVars => FInv'
  <2> SUFFICES ASSUME FInv, [FeedNext]_feedVars PROVE FInv'
    OBVIOUS
  <2>1. CASE UNCHANGED feedVars
    BY <2>1, Kept DEF feedVars, camVars, sessVars, FInv
  <2> QED
    BY <2>1, Steps, FInvWorker, FInvBeside, FInvClient
<1> QED
  BY <1>1, FInvInit, PTL DEF FeedSpec

(* Every variable keeps its type; the camera is never told, and the client  *)
(* never shown, a value the setting does not have.                          *)
THEOREM FeedTypeCorrect == FeedSpec => []FeedTypeOK
<1>1. FInv => FeedTypeOK
  <2> SUFFICES ASSUME FInv PROVE FeedTypeOK
    OBVIOUS
  <2>1. q \in Seq([id : 0..MaxTaps, val : Options]) /\ wire \in Seq(Frames)
    <3>1. Commands \subseteq [id : 0..MaxTaps, val : Options] /\ SentFrames \subseteq Frames
      BY DEF Commands, SentFrames
    <3>2. q \in Seq(Commands) /\ wire \in Seq(SentFrames)
      BY DEF FInv, QueueOK, WireOK
    <3> QED
      BY <3>1, <3>2, SeqMonotonic
  <2>2. waiting \subseteq 1..MaxTaps /\ ov.open \in 0..MaxTaps
    <3>1. taps \in Nat /\ taps <= MaxTaps /\ waiting \subseteq 1..taps /\ MaxTaps \in Nat
      BY FeedAssumption DEF FInv, ClientOK
    <3>2. IsFiniteSet(1..taps) /\ Cardinality(1..taps) = taps
      BY <3>1, FS_Interval
    <3>3. Cardinality(waiting) <= taps /\ Cardinality(waiting) \in Nat
      BY <3>1, <3>2, FS_Subset, FS_CardinalityType
    <3> QED
      BY <3>1, <3>3 DEF FInv, ClientOK
  <2> QED
    BY <2>1, <2>2 DEF FInv, FeedTypeOK, StoredOK, WorkerOK, WriterOK, OtherOK, WireOK, ClientOK
<1> QED
  BY <1>1, FInvariance, PTL

(* While a write of the client is unanswered, only a tap changes what it    *)
(* shows.                                                                   *)
THEOREM DragIsPinned == FeedSpec => DragPinned
<1>1. FInv /\ [FeedNext]_feedVars => (waiting' # {} /\ taps' = taps => Shown' = Shown)
  <2> SUFFICES ASSUME FInv, [FeedNext]_feedVars, waiting' # {}, taps' = taps
               PROVE  Shown' = Shown
    OBVIOUS
  <2>0. ClientOK
    BY DEF FInv
  <2>1. CASE UNCHANGED clientVars
    BY <2>1 DEF clientVars, Shown
  <2>2. ASSUME NEW n \in waiting, waiting' = waiting \ {n}, ov' = Settled, real' = real,
               timeouts' \in 0..MaxTimeouts
        PROVE  Shown' = Shown
    BY <2>0, <2>2, SettledCount DEF Shown, NoOverlay
  <2>3. CASE ReceiveAck
    BY <2>0, <2>2, <2>3 DEF ReceiveAck, Shown, ClientOK
  <2>4. CASE ReceiveState \/ GraceEnds
    BY <2>0, <2>4, OpenWhileWaiting DEF ReceiveState, GraceEnds, Shown
  <2>5. ASSUME NEW n \in waiting, Timeout(n) PROVE Shown' = Shown
    BY <2>0, <2>2, <2>5, FeedAssumption DEF Timeout, SettledOnFailure, ClientOK
  <2>6. ASSUME NEW v \in Requests, Tap(v) PROVE Shown' = Shown
    BY <2>0, <2>6 DEF Tap, ClientOK
  <2> QED
    BY <2>1, <2>3, <2>4, <2>5, <2>6, Steps, FInvWorker, FInvBeside DEF Client, feedVars
<1> QED
  BY <1>1, FInvariance, PTL DEF FeedSpec, DragPinned
-----------------------------------------------------------------------------
(* The snapshot.                                                            *)
SInvVars == <<setup, cam, echo, snap, pending, worker, writer, wrong>>

LEMMA SInvWorker ==
  ASSUME FInv, SInv, Worker, wrong' = "no", Covered
  PROVE  Faithful' /\ Gate'
<1> USE DEF SInv, Faithful, Gate, NobodyStamps, setup
<1>0. StoredOK /\ WorkerOK /\ worker \in Threads
  BY DEF FInv, WorkerOK
<1>1. CASE TakeCommand
  BY <1>0, <1>1 DEF TakeCommand, Idle, camVars
<1>2. CASE RunCommand
  <2>1. CASE worker' = [worker EXCEPT !.pc = "stamp", !.val = cam'] /\ wrong' = Overlap(writer)
    BY <1>0, <1>2, <2>1, CommandOutcome DEF Overlap, Threads
  <2>2. CASE worker' = [worker EXCEPT !.pc = "ack"] /\ UNCHANGED <<cam, wrong>>
    BY <1>0, <1>2, <2>2, CommandOutcome DEF Threads
  <2> QED
    BY <1>2, <2>1, <2>2, CommandOutcome
<1>3. CASE AiOffForManual \/ cmd_zoom_stop
  <2>1. worker'.pc = "stamp" /\ worker'.val = cam' /\ cam' = (IF field = "zoom" THEN snap ELSE 0)
        /\ wrong' = Overlap(writer) /\ UNCHANGED <<snap, writer, setup>>
    BY <1>0, <1>3 DEF AiOffForManual, cmd_zoom_stop, Threads
  <2>2. writer.pc # "stamp"
    BY <2>1 DEF Overlap
  <2> QED
    BY <2>1, <2>2
<1>4. CASE cmd_image_refresh
  <2>1. worker'.pc = "ack" /\ snap' = cam /\ UNCHANGED <<cam, writer, field>>
        /\ field = "exposure"
    BY <1>0, <1>4 DEF cmd_image_refresh, Threads, camVars
  <2>2. writer.pc # "stamp"
    BY <2>1 DEF FInv, WriterOK
  <2> QED
    BY <2>1, <2>2 DEF Gated
<1>5. CASE Stamp
  BY <1>0, <1>5, Values DEF Stamp, Target, Threads, camVars, WorkerOK
<1>6. CASE PollReads \/ PollFails
  <2>1. \/ worker' = [pc |-> "poll", id |-> 0, val |-> echo]
        \/ worker' = [pc |-> "build", id |-> 0, val |-> None]
    BY <1>6 DEF PollReads, PollFails, Idle
  <2>2. worker.pc = "idle" /\ UNCHANGED <<setup, cam, echo, snap, pending, writer, wrong>>
    BY <1>6 DEF PollReads, PollFails, camVars
  <2> QED
    BY <1>0, <2>1, <2>2
<1>7. CASE poll_status_locked
  <2>1. worker' = [worker EXCEPT !.pc = "build"] /\ worker'.pc = "build"
    BY <1>0, <1>7 DEF poll_status_locked, Threads
  <2>2. \/ UNCHANGED <<snap, pending>>
        \/ snap' = worker.val /\ pending' = None /\ field \in Gated
           /\ pending \in {None, worker.val}
    BY <1>7 DEF poll_status_locked, Polled, Covered
  <2>3. UNCHANGED <<field, cam, echo, writer, wrong>> /\ worker.pc = "poll"
    BY <1>7 DEF poll_status_locked, camVars
  <2>4. CASE UNCHANGED <<snap, pending>>
    BY <2>1, <2>3, <2>4
  <2>5. CASE snap' = worker.val /\ pending' = None /\ field \in Gated
             /\ pending \in {None, worker.val}
    BY <1>0, <2>1, <2>3, <2>5, Values DEF WorkerOK
  <2> QED
    BY <2>2, <2>4, <2>5
<1>8. CASE SendAck \/ WorkerBuilds \/ WorkerSends
  <2>1. worker.pc \notin {"stamp", "poll"} /\ worker'.pc \notin {"stamp", "poll"}
        /\ UNCHANGED <<field, cam, echo, snap, pending, writer, wrong>>
    <3>1. SendAck => worker.pc = "ack" /\ worker'.pc = "build"
      BY <1>0 DEF SendAck, Threads
    <3>2. WorkerBuilds => worker.pc = "build" /\ worker'.pc = "send"
      BY <1>0 DEF WorkerBuilds, build_state_event, Threads
    <3>3. WorkerSends => worker.pc = "send" /\ worker'.pc = "idle"
      BY DEF WorkerSends, Idle
    <3>4. worker.pc \in {"ack", "build", "send"} /\ worker'.pc \in {"build", "send", "idle"}
      BY <1>8, <3>1, <3>2, <3>3
    <3>5. UNCHANGED <<field, cam, echo, snap, pending, writer, wrong>>
      BY <1>8 DEF SendAck, WorkerBuilds, WorkerSends, camVars
    <3> QED
      BY <3>4, <3>5
  <2> QED
    BY <2>1
<1>9. ASSUME NEW v \in Settable, AiModeStampsEnabled(v) PROVE Faithful' /\ Gate'
  <2>1. worker'.pc = "stamp" /\ worker'.val = v /\ v = cam /\ writer.pc # "stamp"
        /\ UNCHANGED <<cam, snap, writer, setup>> /\ field = "enabled"
    BY <1>0, <1>9 DEF AiModeStampsEnabled, Overlap, Threads, camVars
  <2> QED
    BY <2>1 DEF Gated
<1> QED
  BY <1>1, <1>2, <1>3, <1>4, <1>5, <1>6, <1>7, <1>8, <1>9 DEF Worker

LEMMA SInvBeside ==
  ASSUME FInv, SInv, Beside, wrong' = "no", Covered
  PROVE  Faithful' /\ Gate'
<1> USE DEF SInv, Faithful, Gate, NobodyStamps, setup
<1>0. StoredOK /\ WriterOK /\ writer \in Threads
  BY DEF FInv, WriterOK
<1>1. CASE UNCHANGED SInvVars
  BY <1>1 DEF SInvVars
<1>2. CASE WriterStamps
  BY <1>0, <1>2, Values DEF WriterStamps, Target, Idle, camVars, WriterOK
<1>3. CASE WaypointStamps
  BY <1>0, <1>3 DEF WaypointStamps
<1>4. ASSUME NEW v \in Settable, WriterCalls(v) \/ PlannerTicks(v) PROVE Faithful' /\ Gate'
  BY <1>0, <1>4 DEF WriterCalls, PlannerTicks, Overlap, Idle
<1>5. CASE CameraCatchesUp
  BY <1>0, <1>5 DEF CameraCatchesUp, sessVars
<1>6. CASE OtherBuilds \/ OtherSends \/ OtherClient
  BY <1>1, <1>6 DEF OtherBuilds, OtherSends, OtherClient, Bridge, SInvVars, camVars, sessVars
<1> QED
  BY <1>2, <1>3, <1>4, <1>5, <1>6 DEF Beside

THEOREM SInvariance == FeedSpec => []SInv
<1>1. FeedInit => SInv
  BY DEF FeedInit, SInv, Faithful, Gate, NobodyStamps, Idle
<1>2. FInv /\ SInv /\ [FeedNext]_feedVars => SInv'
  <2> SUFFICES ASSUME FInv, SInv, [FeedNext]_feedVars, wrong' = "no",
                      Covered'
               PROVE  Faithful' /\ Gate'
    BY DEF SInv
  <2>1. CASE UNCHANGED SInvVars
    BY <2>1 DEF SInvVars, SInv, Faithful, Gate, NobodyStamps, Covered, IsPolled, setup
  <2>2. CASE Worker \/ Beside
    BY <2>2, FInvWorker, FInvBeside, SInvWorker, SInvBeside DEF Covered, IsPolled, setup
  <2>3. CASE Client
    BY <2>1, <2>3 DEF Client, Tap, ReceiveAck, ReceiveState, GraceEnds, Timeout, Bridge,
       SInvVars, camVars
  <2>4. CASE UNCHANGED feedVars
    BY <2>1, <2>4 DEF feedVars, SInvVars, camVars, sessVars
  <2> QED
    BY <2>2, <2>3, <2>4, Steps
<1> QED
  BY <1>1, <1>2, FInvariance, PTL DEF FeedSpec

(* The snapshot of a setting with a pending target, or of one no poll       *)
(* reads, is what the camera was told, through every poll - as long as      *)
(* nothing "wrong" names happened since the last write.                     *)
THEOREM SnapshotIsTrue == FeedSpec => []SnapshotTrue
<1>1. SInv => SnapshotTrue
  BY DEF SInv, Covered, Faithful, SnapshotTrue
<1> QED
  BY <1>1, SInvariance, PTL

=============================================================================
