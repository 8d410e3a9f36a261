---------------------------- MODULE DeviceManager ----------------------------
(***************************************************************************)
(* The bridge's roster and its program (on-air) selection: DeviceManager's  *)
(* sessions_, order_, captures_, sources_, active_sn_ and desired_active_,  *)
(* and the files active.json and sources.json.  Four kinds of thread work   *)
(* on them: the libdev hotplug thread (attach, detach), the AVFoundation    *)
(* observer (on_av_device_changed), the threads that run client commands    *)
(* (set_active, add_source, remove_source) and the boot thread that adds    *)
(* the stored sources again.                                                *)
(*                                                                          *)
(* Grain: what a function does under mu_ is one step; every file write and  *)
(* every capture start or stop it does after releasing mu_ is another, on   *)
(* the capture object it resolved before.                                   *)
(*                                                                          *)
(* Abstracted: the id of a generic source is its uniqueID, and no client    *)
(* adds an OBSBOT camera's uniqueID as a generic source; fades, wake-up of  *)
(* a sleeping camera, renames and broadcasts; camera permission is granted; *)
(* a session is only there or not (its threads: MotionPlanner,              *)
(* CommandWorker, Sequencer).  Whether libdev knows a camera's video path   *)
(* when it attaches, and whether AVFoundation finds and starts a device     *)
(* that is connected, is nondeterministic, each time anew.                  *)
(***************************************************************************)
EXTENDS Integers, Sequences, FiniteSets

CONSTANTS
  Cams,         \* OBSBOT cameras
  Webcams,      \* devices that can be generic sources
  Callers,      \* threads that run client commands
  None,
  MaxObjects,   \* bound on the capture objects of one process
  MaxPlugs,     \* bound on the times a cable is moved
  MaxRestarts   \* bound on the times the process dies and is started again

Ids     == Cams \cup Webcams
Threads == Callers \cup {"hotplug", "av", "boot"}
Objects == 1..MaxObjects
NoObject == 0

ASSUME DeviceAssumption ==
  /\ Cams \cap Webcams = {} /\ None \notin Ids /\ IsFiniteSet(Ids)
  /\ Callers \cap {"hotplug", "av", "boot"} = {}
  /\ MaxObjects \in Nat /\ MaxPlugs \in Nat /\ MaxRestarts \in Nat

VARIABLES
  sessions,        \* keys of sessions_
  order,           \* order_
  captures,        \* captures_: the capture object of each id, NoObject if it has none
  sources,         \* keys of sources_
  active,          \* active_sn_
  desired,         \* desired_active_
  work,            \* each thread: its place, the id and the capture object it holds
  restoring,       \* the stored sources the boot thread has not added yet
  hotEvents,       \* libdev events not delivered yet
  avEvents,        \* AVFoundation events not delivered yet
  live,            \* capture objects that are running
  made,            \* capture objects made so far
  failed,          \* history: those that did not start though their device was connected
  pathless,        \* history: the attached cameras that came without a video path
  stored_active,   \* active.json
  stored_sources,  \* sources.json
  plugged,         \* the devices that are connected
  plugs, restarts  \* history, for the bounds

roster   == <<sessions, order, captures, sources, active, desired>>
files    == <<stored_active, stored_sources>>
env      == <<hotEvents, avEvents, plugged, plugs, restarts>>
starts   == <<failed, pathless>>
capVars  == <<live, made, starts>>
vars     == <<roster, work, restoring, capVars, files, env>>

Idle == [at |-> "idle", id |-> None, obj |-> NoObject]

Elements(s) == {s[i] : i \in 1..Len(s)}
Distinct(s) == \A i, j \in 1..Len(s) : s[i] = s[j] => i = j
Listed      == Elements(order)

(* A fault: what leaves the roster stays in order_.                         *)
StillListed(s, id) == s

(* s, where id occurs at most once, without id.                             *)
Without(s, id) ==
  IF id \notin Elements(s) THEN s
  ELSE LET p == CHOOSE i \in 1..Len(s) : s[i] = id
       IN  [i \in 1..(Len(s) - 1) |-> IF i < p THEN s[i] ELSE s[i + 1]]

(* What start() finds: the files, and libdev and its events for the cameras *)
(* that are connected.                                                      *)
PlugEvents(ids) ==
  {s \in [1..Cardinality(ids) -> [id : ids, on : {TRUE}]] :
     \A i, j \in DOMAIN s : i # j => s[i].id # s[j].id}

Booted ==
  /\ sessions' = {} /\ order' = <<>> /\ sources' = {}
  /\ captures' = [i \in Ids |-> NoObject]
  /\ active' = None /\ desired' = stored_active
  /\ work' = [t \in Threads |-> Idle]
  /\ restoring' = stored_sources
  /\ hotEvents' \in PlugEvents(plugged \cap Cams) /\ avEvents' = <<>>
  /\ live' = {} /\ made' = 0 /\ failed' = {} /\ pathless' = {}

Init ==
  /\ stored_active \in {None} \cup Cams /\ stored_sources = {}
  /\ plugged \in SUBSET Ids
  /\ sessions = {} /\ order = <<>> /\ sources = {}
  /\ captures = [i \in Ids |-> NoObject]
  /\ active = None /\ desired = stored_active
  /\ work = [t \in Threads |-> Idle]
  /\ restoring = stored_sources
  /\ hotEvents \in PlugEvents(plugged \cap Cams) /\ avEvents = <<>>
  /\ live = {} /\ made = 0 /\ failed = {} /\ pathless = {} /\ plugs = 0 /\ restarts = 0

-----------------------------------------------------------------------------
(* Faults: the camera that came last is taken, or the current program is     *)
(* kept before the preference is looked at.                                  *)
RecomputeTakesLast(ses, ord) ==
  IF desired \in ses THEN desired
  ELSE IF ord = <<>> THEN None ELSE ord[Len(ord)]

RecomputeKeepsFirst(ses, ord) ==
  IF active \in ses THEN active
  ELSE IF desired \in ses THEN desired
  ELSE IF ord = <<>> THEN None ELSE Head(ord)

(* The program when the roster has become sessions ses, attach order ord.   *)
recompute_active_locked(ses, ord) ==
  IF desired \in ses THEN desired
  ELSE IF active \in ses THEN active
  ELSE IF ord = <<>> THEN None ELSE Head(ord)

At(t, place)        == work[t].at = place
Goes(t, place)      == work' = [work EXCEPT ![t].at = place]
Holds(t, p, id, o)  == work' = [work EXCEPT ![t] = [at |-> p, id |-> id, obj |-> o]]
Ends(t)             == work' = [work EXCEPT ![t] = Idle]

(* VideoCapture's stop().                                                   *)
StopCapture(o) == live' = live \ {o} /\ failed' = failed \ {o}

-----------------------------------------------------------------------------
(* The libdev callback: one event at a time.                                *)

Event == Head(hotEvents)

(* An event for a camera that libdev no longer lists is ignored.            *)
AttachIgnored ==
  /\ At("hotplug", "idle") /\ hotEvents # <<>>
  /\ Event.on /\ Event.id \notin plugged
  /\ hotEvents' = Tail(hotEvents)
  /\ UNCHANGED <<roster, work, restoring, capVars, files, avEvents, plugged, plugs, restarts>>

(* The camera's capture is made, or the one it has is stopped; once mu_ is  *)
(* released it is started.                                                  *)
BindCapture(sn) ==
  /\ IF captures[sn] = NoObject
     THEN /\ made < MaxObjects
          /\ made' = made + 1
          /\ captures' = [captures EXCEPT ![sn] = made']
          /\ UNCHANGED <<live, failed>>
     ELSE /\ StopCapture(captures[sn])
          /\ UNCHANGED <<captures, made>>
  /\ pathless' = pathless \ {sn}
  /\ Holds("hotplug", "start", sn, captures'[sn])

(* Preview disabled: the camera is listed, and what capture it has is left  *)
(* as it is.                                                                *)
NoVideoPath(sn) ==
  /\ pathless' = pathless \cup {sn}
  /\ UNCHANGED <<captures, made, live, failed, work>>

(* A new camera, or one attached already.                                   *)
attach ==
  /\ At("hotplug", "idle") /\ hotEvents # <<>>
  /\ Event.on /\ Event.id \in plugged
  /\ LET sn == Event.id IN
       /\ sessions' = sessions \cup {sn}
       /\ order' = IF sn \in sessions THEN order ELSE Append(order, sn)
       /\ active' = recompute_active_locked(sessions', order')
       /\ BindCapture(sn) \/ NoVideoPath(sn)
  /\ hotEvents' = Tail(hotEvents)
  /\ UNCHANGED <<sources, desired, restoring, files, avEvents, plugged, plugs, restarts>>

DetachIgnored ==
  /\ At("hotplug", "idle") /\ hotEvents # <<>>
  /\ ~Event.on /\ Event.id \notin sessions
  /\ hotEvents' = Tail(hotEvents)
  /\ UNCHANGED <<roster, work, restoring, capVars, files, avEvents, plugged, plugs, restarts>>

(* The capture object is stopped and kept; then the session's threads are   *)
(* joined, mu_ released.                                                    *)
detach ==
  /\ At("hotplug", "idle") /\ hotEvents # <<>>
  /\ ~Event.on /\ Event.id \in sessions
  /\ LET sn == Event.id IN
       /\ sessions' = sessions \ {sn}
       /\ order' = Without(order, sn)
       /\ StopCapture(captures[sn])
       /\ pathless' = pathless \ {sn}
       /\ active' = recompute_active_locked(sessions', order')
       /\ Holds("hotplug", "join", sn, NoObject)
  /\ hotEvents' = Tail(hotEvents)
  /\ UNCHANGED <<captures, sources, desired, restoring, made, files,
                 avEvents, plugged, plugs, restarts>>

SessionJoined ==
  /\ At("hotplug", "join")
  /\ Ends("hotplug")
  /\ UNCHANGED <<roster, restoring, capVars, files, env>>

(* start_unique_id, mu_ released.                                          *)
StartCapture(t) ==
  /\ At(t, "start")
  /\ Ends(t)
  /\ UNCHANGED <<roster, restoring, made, pathless, files, env>>
  /\ LET o         == work[t].obj
         connected == work[t].id \in plugged
     IN  \/ o \in live /\ UNCHANGED <<live, failed>>
         \/ o \notin live /\ connected /\ live' = live \cup {o} /\ failed' = failed \ {o}
         \/ o \notin live /\ live' = live
            /\ failed' = IF connected THEN failed \cup {o} ELSE failed \ {o}

-----------------------------------------------------------------------------
(* Client commands, and the boot thread.                                    *)

(* The source exists already, or is a new one with a new capture; the first *)
(* of all goes on air.                                                      *)
add_source(t, uid) ==
  /\ At(t, "idle")
  /\ captures[uid] = NoObject /\ made < MaxObjects
  /\ made' = made + 1
  /\ captures' = [captures EXCEPT ![uid] = made']
  /\ sources' = sources \cup {uid}
  /\ order' = Append(order, uid)
  /\ active' = IF active = None THEN uid ELSE active
  /\ Holds(t, "store source", uid, made')
  /\ UNCHANGED <<sessions, desired, live, starts, files, env>>

StoreSource(t) ==
  /\ At(t, "store source")
  /\ stored_sources' = stored_sources \cup {work[t].id}
  /\ Goes(t, "start")
  /\ UNCHANGED <<roster, restoring, capVars, stored_active, env>>

Restore ==
  \E uid \in restoring :
    /\ \/ add_source("boot", uid)
       \/ /\ At("boot", "idle") /\ captures[uid] # NoObject
          /\ UNCHANGED <<roster, work, capVars, files, env>>
    /\ restoring' = restoring \ {uid}

(* The capture object is retired, never destroyed.                          *)
remove_source(t, id) ==
  /\ At(t, "idle")
  /\ id \in sources
  /\ captures' = [captures EXCEPT ![id] = NoObject]
  /\ sources' = sources \ {id}
  /\ order' = Without(order, id)
  /\ active' = IF active = id THEN recompute_active_locked(sessions, order') ELSE active
  /\ Holds(t, "stop", id, captures[id])
  /\ UNCHANGED <<sessions, desired, restoring, capVars, files, env>>

StopRemoved(t) ==
  /\ At(t, "stop")
  /\ StopCapture(work[t].obj)
  /\ Goes(t, "forget source")
  /\ UNCHANGED <<roster, restoring, made, pathless, files, env>>

ForgetSource(t) ==
  /\ At(t, "forget source")
  /\ stored_sources' = stored_sources \ {work[t].id}
  /\ Ends(t)
  /\ UNCHANGED <<roster, restoring, capVars, stored_active, env>>

(* A camera with a session, or anything that has a capture.                 *)
set_active(t, sn) ==
  /\ At(t, "idle")
  /\ sn \in sessions \/ captures[sn] # NoObject
  /\ active' = sn /\ desired' = sn
  /\ Holds(t, "store active", sn, NoObject)
  /\ UNCHANGED <<sessions, order, captures, sources, restoring, capVars, files, env>>

StoreActive(t) ==
  /\ At(t, "store active")
  /\ stored_active' = work[t].id
  /\ Ends(t)
  /\ UNCHANGED <<roster, restoring, capVars, stored_sources, env>>

Command(t) ==
  \/ \E uid \in Webcams : add_source(t, uid) /\ UNCHANGED restoring
  \/ \E uid \in Webcams : remove_source(t, uid)
  \/ \E sn \in Ids : set_active(t, sn)

-----------------------------------------------------------------------------
(* on_av_device_changed: resolve the source and its capture under mu_, act  *)
(* on the capture afterwards.                                               *)
(* A fault: a device that is no generic source is looked up all the same.   *)
AnyDevice(id) == TRUE

IsSource(id) == id \in sources

AvResolves ==
  /\ At("av", "idle") /\ avEvents # <<>>
  /\ LET e == Head(avEvents) IN
       IF IsSource(e.id)
       THEN Holds("av", IF e.on THEN "start" ELSE "av stop", e.id, captures[e.id])
       ELSE UNCHANGED work
  /\ avEvents' = Tail(avEvents)
  /\ UNCHANGED <<roster, restoring, capVars, files, hotEvents, plugged, plugs, restarts>>

(* A fault: the capture of a source that left goes on.                      *)
AvForgets ==
  /\ At("av", "av stop")
  /\ Ends("av")
  /\ UNCHANGED <<roster, restoring, capVars, files, env>>

AvStops ==
  /\ At("av", "av stop")
  /\ StopCapture(work["av"].obj)
  /\ Ends("av")
  /\ UNCHANGED <<roster, restoring, made, pathless, files, env>>

-----------------------------------------------------------------------------
(* Cables, and the process.                                                 *)
Replug(id) ==
  /\ plugs < MaxPlugs
  /\ plugs' = plugs + 1
  /\ plugged' = IF id \in plugged THEN plugged \ {id} ELSE plugged \cup {id}
  /\ LET e == [id |-> id, on |-> id \notin plugged] IN
       IF id \in Cams THEN hotEvents' = Append(hotEvents, e) /\ avEvents' = avEvents
                      ELSE avEvents' = Append(avEvents, e) /\ hotEvents' = hotEvents
  /\ UNCHANGED <<roster, work, restoring, capVars, files, restarts>>

(* The process dies, anywhere, and is started again.                        *)
Restart ==
  /\ restarts < MaxRestarts
  /\ restarts' = restarts + 1
  /\ Booted
  /\ UNCHANGED <<files, plugged, plugs>>

Next ==
  \/ AttachIgnored \/ attach \/ DetachIgnored \/ detach \/ SessionJoined
  \/ Restore
  \/ AvResolves \/ AvStops
  \/ \E t \in Threads : StartCapture(t)
  \/ \E t \in Callers \cup {"boot"} : StoreSource(t)
  \/ \E t \in Callers : Command(t) \/ StopRemoved(t) \/ ForgetSource(t) \/ StoreActive(t)
  \/ \E id \in Ids : Replug(id)
  \/ Restart

Spec == Init /\ [][Next]_vars

-----------------------------------------------------------------------------
(* Values of the variables.                                                 *)
DeviceTypeOK ==
  /\ sessions \subseteq Cams /\ sources \subseteq Webcams
  /\ order \in Seq(Ids)
  /\ captures \in [Ids -> 0..MaxObjects] /\ live \subseteq Objects
  /\ failed \subseteq Objects /\ pathless \subseteq Cams
  /\ active \in Ids \cup {None} /\ desired \in Ids \cup {None}
  /\ restoring \subseteq Webcams /\ plugged \subseteq Ids
  /\ stored_active \in Ids \cup {None} /\ stored_sources \subseteq Webcams

(* The order clients see lists every attached camera and every source once, *)
(* no two of them share a capture, and only a camera that came without a    *)
(* video path has none.                                                     *)
RosterMatches ==
  /\ Listed = sessions \cup sources
  /\ Distinct(order)
  /\ \A i \in Listed : captures[i] = NoObject => i \in pathless
  /\ \A i, j \in Listed : captures[i] # NoObject /\ captures[i] = captures[j] => i = j

(* The operator's camera is on air whenever it is attached, whichever       *)
(* camera enumerates first and whatever left and came back in between.      *)
PreferenceOnAir == desired \in sessions => active = desired

(* OBS is never left without a program while anything is listed.            *)
ProgramFed == order # <<>> => active # None

(* A camera that is attached and on air stays there until the operator, or  *)
(* the return of the preferred camera, takes another.                       *)
CameraStaysOnAir ==
  (active \in sessions /\ active' # active /\ restarts' = restarts)
    => (active' = desired' \/ ~(active \in sessions'))

(* Whatever was on air before, a camera that comes or goes leaves the       *)
(* program on something that is listed.                                     *)
RosterChangeHeals ==
  (sessions' # sessions /\ order' # <<>>) => active' \in Elements(order')

(* The program changes for a cause: no event takes an attached camera off    *)
(* air, and every roster change leaves something listed there.              *)
ProgramMovesForCause == [][CameraStaysOnAir /\ RosterChangeHeals]_vars

Settled ==
  /\ hotEvents = <<>> /\ avEvents = <<>> /\ restoring = {}
  /\ \A t \in Threads : work[t] = Idle

(* Once every event and command is over, the bridge sees what is plugged,   *)
(* however cables, commands and a restart were interleaved: the attached    *)
(* cameras are the connected ones, nothing that is listed streams without   *)
(* its device, and what is listed and connected streams, unless libdev gave *)
(* no video path for it or AVFoundation failed its last start.              *)
SettledTruth ==
  Settled =>
    /\ sessions = plugged \cap Cams
    /\ \A i \in Listed : captures[i] \in live => i \in plugged
    /\ \A i \in Listed \cap plugged :
         captures[i] \in live \/ captures[i] \in failed \/ i \in pathless

(* recompute_active_locked: "Keep the current active if it is still         *)
(* attached."  A generic source that is listed and on air stays there until *)
(* the operator, or the return of the preferred camera, takes another.      *)
SourceStaysOnAir ==
  [][(active \in sources /\ active' # active /\ restarts' = restarts)
       => (active' = desired' \/ ~(active \in sources'))]_vars

=============================================================================
