------------------------- MODULE DeviceManagerProofs -------------------------
(***************************************************************************)
(* The roster and the program of DeviceManager, for every set of cameras,   *)
(* webcams and callers and every bound.                                     *)
(***************************************************************************)
EXTENDS DeviceManager, SequenceTheorems, FiniteSetTheorems, TLAPS

-----------------------------------------------------------------------------
(* Lists without repetition.                                                *)

LEMMA ElementsOfAppend ==
  ASSUME NEW S, NEW s \in Seq(S), NEW e \in S
  PROVE  /\ Elements(Append(s, e)) = Elements(s) \cup {e}
         /\ Distinct(s) /\ e \notin Elements(s) => Distinct(Append(s, e))
  <1> DEFINE t == Append(s, e)
  <1>1. /\ Len(s) \in Nat /\ Len(t) = Len(s) + 1
        /\ \A i \in 1..Len(s) : t[i] = s[i]
        /\ t[Len(s) + 1] = e
    BY AppendProperties, LenProperties
  <1> HIDE DEF t
  <1>2. 1..Len(t) = 1..Len(s) \cup {Len(s) + 1} /\ Len(s) + 1 \notin 1..Len(s)
    BY <1>1
  <1>3. Elements(t) = Elements(s) \cup {e}
    BY <1>1, <1>2 DEF Elements
  <1>4. ASSUME Distinct(s), e \notin Elements(s), NEW i \in 1..Len(t), NEW j \in 1..Len(t),
               t[i] = t[j]
        PROVE  i = j
    BY <1>1, <1>2, <1>4 DEF Distinct, Elements
  <1>5. QED
    BY <1>3, <1>4 DEF Distinct, t

LEMMA ElementsOfWithout ==
  ASSUME NEW S, NEW s \in Seq(S), Distinct(s), NEW id
  PROVE  /\ Without(s, id) \in Seq(S)
         /\ Elements(Without(s, id)) = Elements(s) \ {id}
         /\ Distinct(Without(s, id))
  <1>1. Len(s) \in Nat /\ \A i \in 1..Len(s) : s[i] \in S
    BY LenProperties, ElementOfSeq
  <1>2. CASE id \notin Elements(s)
    BY <1>2 DEF Without
  <1>3. CASE id \in Elements(s)
    <2> DEFINE p == CHOOSE i \in 1..Len(s) : s[i] = id
               n == Len(s) - 1
               t == [i \in 1..n |-> IF i < p THEN s[i] ELSE s[i + 1]]
    <2>1. p \in 1..Len(s) /\ s[p] = id
      BY <1>3 DEF Elements
    <2>2. Without(s, id) = t
      BY <1>3 DEF Without
    <2> HIDE DEF p
    <2>3. n \in Nat /\ t \in [1..n -> S]
      <3>1. ASSUME NEW i \in 1..n
            PROVE  (IF i < p THEN s[i] ELSE s[i + 1]) \in S
        BY <1>1, <2>1
      <3>2. QED
        BY <3>1, <1>1, <2>1
    <2>4. t \in Seq(S) /\ Len(t) = n
      BY <2>3
    <2>5. ASSUME NEW i \in 1..n
          PROVE  t[i] \in Elements(s) \ {id}
      BY <1>1, <2>1 DEF Elements, Distinct
    <2>6. ASSUME NEW e \in Elements(s), e # id
          PROVE  \E i \in 1..n : t[i] = e
      <3>1. PICK k \in 1..Len(s) : s[k] = e
        BY <2>6 DEF Elements
      <3>2. CASE k < p
        <4>1. k \in 1..n /\ t[k] = e
          BY <1>1, <2>1, <3>1, <3>2
        <4>2. QED
          BY <4>1
      <3>3. CASE k > p
        <4>1. k - 1 \in 1..n /\ t[k - 1] = e
          BY <1>1, <2>1, <3>1, <3>3
        <4>2. QED
          BY <4>1
      <3>4. QED
        BY <1>1, <2>1, <2>6, <3>1, <3>2, <3>3
    <2>7. Elements(t) = Elements(s) \ {id}
      <3>1. Elements(t) = {t[i] : i \in 1..n}
        BY <2>4 DEF Elements
      <3> HIDE DEF t, n
      <3>2. QED
        BY <3>1, <2>5, <2>6
    <2>8. ASSUME NEW i \in 1..n, NEW j \in 1..n, t[i] = t[j]
          PROVE  i = j
      BY <1>1, <2>1, <2>8 DEF Distinct
    <2>9. QED
      <3> HIDE DEF t, n
      <3>1. QED
        BY <2>2, <2>4, <2>7, <2>8 DEF Distinct
  <1>4. QED
    BY <1>2, <1>3

LEMMA NonEmpty ==
  ASSUME NEW S, NEW s \in Seq(S)
  PROVE  /\ s # <<>> => Head(s) \in Elements(s)
         /\ s = <<>> <=> Elements(s) = {}
         /\ Elements(s) \subseteq S
  <1>1. Len(s) \in Nat /\ (s # <<>> => Len(s) \in Nat \ {0}) /\ (s = <<>> => Len(s) = 0)
    BY LenProperties, EmptySeq
  <1>2. s # <<>> => Head(s) = s[1] /\ 1 \in 1..Len(s)
    BY <1>1
  <1>3. \A i \in 1..Len(s) : s[i] \in S
    BY ElementOfSeq
  <1>4. QED
    BY <1>1, <1>2, <1>3 DEF Elements

-----------------------------------------------------------------------------
(* The inductive invariant.                                                 *)

(* Libdev reports cameras only.                                             *)
EventsInv == hotEvents \in Seq([id : Cams, on : BOOLEAN])

(* A thread that is to act on a capture has one, a thread that is to write  *)
(* a file has an id that belongs there.                                     *)
WorkInv ==
  /\ work \in [Threads -> [at : {"idle", "start", "join", "store source", "stop",
                                "forget source", "store active", "av stop"},
                          id : Ids \cup {None}, obj : 0..MaxObjects]]
  /\ \A t \in Threads :
       /\ work[t].at \in {"start", "store source"} => work[t].obj \in Objects
       /\ work[t].at \in {"store source", "stop", "forget source"} => work[t].id \in Webcams
       /\ work[t].at = "store active" => work[t].id \in Ids

(* No capture object belongs to two ids, and one not made yet to none.      *)
CapturesInv ==
  /\ made \in 0..MaxObjects
  /\ \A i \in Ids : captures[i] <= made
  /\ \A i, j \in Ids : captures[i] # NoObject /\ captures[i] = captures[j] => i = j

(* A session has a capture unless it came without a video path, a webcam    *)
(* has one exactly if it is a source.                                       *)
HoldersInv ==
  /\ \A c \in sessions : captures[c] = NoObject => c \in pathless
  /\ \A w \in Webcams : w \in sources <=> captures[w] # NoObject

OrderInv == Listed = sessions \cup sources /\ Distinct(order)

IInv ==
  /\ DeviceTypeOK /\ EventsInv /\ WorkInv /\ CapturesInv /\ HoldersInv /\ OrderInv
  /\ PreferenceOnAir /\ ProgramFed

(* What recompute_active_locked returns.                                    *)
LEMMA RecomputeChoice ==
  ASSUME NEW ses \in SUBSET Cams, NEW ord \in Seq(Ids), DeviceTypeOK
  PROVE  LET a == recompute_active_locked(ses, ord) IN
           /\ a \in Ids \cup {None}
           /\ desired \in ses => a = desired
           /\ active \in ses => a \in {active, desired}
           /\ ord # <<>> /\ ses \subseteq Elements(ord) => a \in Elements(ord)
           /\ ord # <<>> => a # None
  <1> USE DeviceAssumption DEF Ids, DeviceTypeOK
  <1>1. ord # <<>> => Head(ord) \in Elements(ord) /\ Head(ord) \in Ids
    BY NonEmpty
  <1>2. CASE desired \in ses
    BY <1>2 DEF recompute_active_locked
  <1>3. CASE desired \notin ses /\ active \in ses
    BY <1>3 DEF recompute_active_locked
  <1>4. CASE desired \notin ses /\ active \notin ses
    <2>1. CASE ord # <<>>
      BY <1>1, <1>4, <2>1 DEF recompute_active_locked
    <2>2. CASE ord = <<>>
      BY <1>4, <2>2 DEF recompute_active_locked
    <2>3. QED
      BY <2>1, <2>2
  <1>5. QED
    BY <1>2, <1>3, <1>4

LEMMA FunctionIsSeq ==
  ASSUME NEW S, NEW n \in Nat, NEW f \in [1..n -> S]
  PROVE  f \in Seq(S) /\ Len(f) = n
  OBVIOUS

LEMMA PlugEventsType ==
  ASSUME NEW ids \in SUBSET Cams, NEW s \in PlugEvents(ids)
  PROVE  s \in Seq([id : Cams, on : BOOLEAN])
  <1>1. IsFiniteSet(ids)
    BY DeviceAssumption, FS_Subset DEF Ids
  <1>2. Cardinality(ids) \in Nat
    BY <1>1, FS_CardinalityType
  <1>3. s \in [1..Cardinality(ids) -> [id : ids, on : {TRUE}]]
    BY DEF PlugEvents
  <1>4. \A i \in 1..Cardinality(ids) : s[i] \in [id : Cams, on : BOOLEAN]
    BY <1>3
  <1>5. s \in [1..Cardinality(ids) -> [id : Cams, on : BOOLEAN]]
    BY <1>3, <1>4
  <1>6. QED
    BY <1>2, <1>5, FunctionIsSeq

LEMMA InitIInv == Init => IInv
  <1> SUFFICES ASSUME Init PROVE IInv
    OBVIOUS
  <1> USE DeviceAssumption DEF Init, Ids, NoObject
  <1>1. order = <<>> /\ Len(order) = 0 /\ Elements(order) = {} /\ Distinct(order)
    BY DEF Elements, Distinct
  <1>2. DeviceTypeOK
    BY DEF DeviceTypeOK, Objects
  <1>3. EventsInv
    BY PlugEventsType DEF EventsInv
  <1>4. WorkInv
    <2>1. \A t \in Threads : work[t] = Idle
      OBVIOUS
    <2>2. Idle.at = "idle"
      BY DEF Idle
    <2>3. Idle \in [at : {"idle", "start", "join", "store source", "stop",
                         "forget source", "store active", "av stop"},
                   id : Ids \cup {None}, obj : 0..MaxObjects]
      BY DEF Idle
    <2> HIDE DEF Ids, NoObject
    <2>4. QED
      BY <2>1, <2>2, <2>3 DEF WorkInv
  <1>5. CapturesInv /\ HoldersInv
    BY DEF CapturesInv, HoldersInv
  <1>6. OrderInv
    BY <1>1 DEF OrderInv, Listed
  <1>7. PreferenceOnAir /\ ProgramFed
    BY DEF PreferenceOnAir, ProgramFed
  <1>8. QED
    BY <1>2, <1>3, <1>4, <1>5, <1>6, <1>7 DEF IInv

(* A thread's next place, if its new work is sound.                         *)
LEMMA WorkStep ==
  ASSUME WorkInv, NEW t \in Threads, NEW w,
         w \in [at : {"idle", "start", "join", "store source", "stop",
                     "forget source", "store active", "av stop"},
               id : Ids \cup {None}, obj : 0..MaxObjects],
         w.at \in {"start", "store source"} => w.obj \in Objects,
         w.at \in {"store source", "stop", "forget source"} => w.id \in Webcams,
         w.at = "store active" => w.id \in Ids,
         work' = [work EXCEPT ![t] = w]
  PROVE  WorkInv'
  BY DEF WorkInv

LEMMA HoldsStep ==
  ASSUME WorkInv, NEW t \in Threads, NEW o \in 0..MaxObjects, NEW i \in Ids,
         NEW p \in {"start", "join", "store source", "stop", "store active"},
         p \in {"start", "store source"} => o \in Objects,
         p \in {"store source", "stop"} => i \in Webcams,
         work' = [work EXCEPT ![t] = [at |-> p, id |-> i, obj |-> o]]
  PROVE  WorkInv'
  <1> DEFINE w == [at |-> p, id |-> i, obj |-> o]
  <1>1. /\ w \in [at : {"idle", "start", "join", "store source", "stop",
                        "forget source", "store active", "av stop"},
                  id : Ids \cup {None}, obj : 0..MaxObjects]
        /\ w.at = p /\ w.id = i /\ w.obj = o
    OBVIOUS
  <1>2. work' = [work EXCEPT ![t] = w]
    OBVIOUS
  <1> HIDE DEF w
  <1>3. QED
    BY <1>1, <1>2, WorkStep

(* A step that leaves the roster alone.                                     *)
LEMMA RosterKept ==
  ASSUME IInv, UNCHANGED roster, UNCHANGED made, UNCHANGED pathless
  PROVE  (CapturesInv /\ HoldersInv /\ OrderInv /\ PreferenceOnAir /\ ProgramFed)'
  BY DEF IInv, roster, CapturesInv, HoldersInv, OrderInv, PreferenceOnAir, ProgramFed, Listed

(* A capture made for one more id.                                          *)
LEMMA CaptureMade ==
  ASSUME DeviceTypeOK, CapturesInv, NEW i \in Ids, made < MaxObjects, made' = made + 1,
         captures' = [captures EXCEPT ![i] = made + 1]
  PROVE  /\ captures' \in [Ids -> 0..MaxObjects] /\ captures'[i] \in Objects
         /\ CapturesInv'
         /\ \A j \in Ids : j # i => captures'[j] = captures[j]
  <1> USE DeviceAssumption DEF NoObject
  <1>1. captures \in [Ids -> 0..MaxObjects] /\ made \in 0..MaxObjects
    BY DEF DeviceTypeOK, CapturesInv
  <1>2. made' \in 1..MaxObjects /\ made' > made
    BY <1>1
  <1>3. captures'[i] = made' /\ \A j \in Ids : j # i => captures'[j] = captures[j]
    BY <1>1
  <1>4. captures' \in [Ids -> 0..MaxObjects]
    BY <1>1, <1>2
  <1>5. \A j \in Ids : captures[j] <= made /\ captures[j] \in Nat
    BY <1>1 DEF CapturesInv
  <1>6. \A j \in Ids : captures'[j] <= made'
    BY <1>1, <1>2, <1>3, <1>5
  <1>7. \A j, k \in Ids : captures'[j] # 0 /\ captures'[j] = captures'[k] => j = k
    BY <1>1, <1>2, <1>3, <1>5 DEF CapturesInv
  <1>8. CapturesInv'
    BY <1>2, <1>6, <1>7 DEF CapturesInv
  <1>9. QED
    BY <1>2, <1>3, <1>4, <1>8 DEF Objects

LEMMA attachKeeps == IInv /\ attach => IInv'
  <1> SUFFICES ASSUME IInv, attach PROVE IInv'
    OBVIOUS
  <1> DEFINE sn == Event.id
  <1> USE DeviceAssumption DEF NoObject
  <1>1. sn \in Cams /\ hotEvents' \in Seq([id : Cams, on : BOOLEAN])
    <2> DEFINE R == [id : Cams, on : BOOLEAN]
    <2>1. hotEvents \in Seq(R) /\ hotEvents # <<>> /\ hotEvents' = Tail(hotEvents)
      BY DEF IInv, EventsInv, attach
    <2> HIDE DEF R
    <2>2. Head(hotEvents) \in R /\ Tail(hotEvents) \in Seq(R)
      BY <2>1, HeadTailProperties
    <2>3. QED
      BY <2>1, <2>2 DEF R, Event
  <1>2. /\ sessions' = sessions \cup {sn}
        /\ order' = IF sn \in sessions THEN order ELSE Append(order, sn)
        /\ active' = recompute_active_locked(sessions', order')
        /\ \/ /\ work' = [work EXCEPT !["hotplug"] = [at |-> "start", id |-> sn,
                                                      obj |-> captures'[sn]]]
              /\ captures[sn] = 0 =>
                   /\ made < MaxObjects /\ made' = made + 1
                   /\ captures' = [captures EXCEPT ![sn] = made + 1]
              /\ captures[sn] # 0 => captures' = captures /\ made' = made
              /\ pathless' = pathless \ {sn}
           \/ /\ UNCHANGED <<work, captures, made>>
              /\ pathless' = pathless \cup {sn}
        /\ live' \subseteq live /\ failed' \subseteq failed
        /\ UNCHANGED <<sources, desired, restoring, files, plugged>>
    BY DEF attach, Holds, BindCapture, NoVideoPath, StopCapture
  <1> HIDE DEF sn
  <1>3. /\ sn \in Ids /\ sn \notin Webcams
        /\ captures \in [Ids -> 0..MaxObjects] /\ order \in Seq(Ids)
        /\ sessions \subseteq Cams /\ made \in 0..MaxObjects
    BY <1>1 DEF IInv, DeviceTypeOK, Ids, CapturesInv
  <1>0. ASSUME UNCHANGED <<work, captures, made>>, pathless' = pathless \cup {sn}
        PROVE  /\ WorkInv' /\ CapturesInv' /\ HoldersInv'
               /\ captures' \in [Ids -> 0..MaxObjects] /\ pathless' \subseteq Cams
    <2>1. WorkInv' /\ CapturesInv'
      BY <1>0 DEF IInv, WorkInv, CapturesInv
    <2>2. captures' \in [Ids -> 0..MaxObjects] /\ pathless' \subseteq Cams
      BY <1>0, <1>1 DEF IInv, DeviceTypeOK
    <2>3. HoldersInv'
      BY <1>0, <1>2 DEF IInv, HoldersInv
    <2>4. QED
      BY <2>1, <2>2, <2>3
  <1>4. ASSUME work' = [work EXCEPT !["hotplug"] = [at |-> "start", id |-> sn,
                                                   obj |-> captures'[sn]]],
               captures[sn] = 0 => /\ made < MaxObjects /\ made' = made + 1
                                   /\ captures' = [captures EXCEPT ![sn] = made + 1],
               captures[sn] # 0 => captures' = captures /\ made' = made,
               pathless' = pathless \ {sn}
        PROVE  /\ WorkInv' /\ CapturesInv' /\ HoldersInv'
               /\ captures' \in [Ids -> 0..MaxObjects] /\ pathless' \subseteq Cams
    <2>1. /\ captures' \in [Ids -> 0..MaxObjects] /\ captures'[sn] \in Objects
          /\ CapturesInv' /\ \A i \in Ids : i # sn => captures'[i] = captures[i]
      <3>1. CASE captures[sn] = 0
        BY <1>3, <1>4, <3>1, CaptureMade DEF IInv
      <3>2. CASE captures[sn] # 0
        <4>1. captures' = captures /\ made' = made /\ captures[sn] \in Objects
          BY <1>3, <1>4, <3>2 DEF Objects
        <4>2. CapturesInv'
          BY <4>1 DEF IInv, CapturesInv
        <4>3. QED
          BY <1>3, <4>1, <4>2
      <3>3. QED
        BY <3>1, <3>2
    <2>2. captures'[sn] # 0 /\ captures'[sn] \in 0..MaxObjects
      BY <2>1 DEF Objects
    <2>3. \A c \in sessions' : captures'[c] = 0 => c \in pathless'
      BY <1>2, <1>3, <1>4, <2>1, <2>2 DEF IInv, HoldersInv, Ids
    <2>4. \A v \in Webcams : v \in sources' <=> captures'[v] # 0
      BY <1>2, <1>3, <2>1 DEF IInv, HoldersInv, Ids
    <2>5. WorkInv'
      <3> DEFINE w == [at |-> "start", id |-> sn, obj |-> captures'[sn]]
      <3>1. "hotplug" \in Threads
        BY DEF Threads
      <3>2. QED
        BY <1>3, <1>4, <2>1, <2>2, <3>1, WorkStep DEF IInv
    <2>6. pathless' \subseteq Cams
      BY <1>4 DEF IInv, DeviceTypeOK
    <2>7. QED
      BY <2>1, <2>3, <2>4, <2>5, <2>6 DEF HoldersInv
  <1>5. /\ WorkInv' /\ CapturesInv' /\ HoldersInv'
        /\ captures' \in [Ids -> 0..MaxObjects] /\ pathless' \subseteq Cams
    BY <1>0, <1>2, <1>4
  <1>8. live' \subseteq Objects /\ failed' \subseteq Objects
    BY <1>2 DEF IInv, DeviceTypeOK
  <1>6. order' \in Seq(Ids) /\ Elements(order') = sessions' \cup sources' /\ Distinct(order')
    <2>1. CASE sn \in sessions
      BY <1>2, <1>3, <2>1 DEF IInv, OrderInv, Listed
    <2>2. CASE sn \notin sessions
      <3>1. sn \notin Elements(order)
        BY <1>3, <2>2 DEF IInv, OrderInv, Listed, DeviceTypeOK
      <3>2. QED
        BY <1>2, <1>3, <2>2, <3>1, ElementsOfAppend, AppendProperties DEF IInv, OrderInv, Listed
    <2>3. QED
      BY <2>1, <2>2
  <1>7. /\ active' \in Ids \cup {None}
        /\ desired \in sessions' => active' = desired
        /\ order' # <<>> => active' # None
    <2>1. sessions' \in SUBSET Cams
      BY <1>1, <1>2, <1>3
    <2>2. QED
      BY <1>2, <1>6, <2>1, RecomputeChoice DEF IInv
  <1>9. DeviceTypeOK'
    BY <1>1, <1>2, <1>3, <1>5, <1>6, <1>7, <1>8 DEF IInv, DeviceTypeOK, files
  <1>10. OrderInv' /\ PreferenceOnAir' /\ ProgramFed'
    BY <1>2, <1>6, <1>7 DEF OrderInv, Listed, PreferenceOnAir, ProgramFed
  <1>11. QED
    BY <1>1, <1>5, <1>9, <1>10 DEF IInv, EventsInv

(* The steps that act on captures and files with mu_ released.              *)
LEMMA UnlockedKeeps ==
  ASSUME IInv, NEW t \in Threads,
         \/ SessionJoined \/ StartCapture(t) \/ StoreSource(t) \/ AvStops
         \/ StopRemoved(t) \/ ForgetSource(t) \/ StoreActive(t)
  PROVE  IInv'
  <1> USE DeviceAssumption DEF NoObject
  <1> DEFINE W == [at : {"idle", "start", "join", "store source", "stop",
                         "forget source", "store active", "av stop"},
                   id : Ids \cup {None}, obj : 0..MaxObjects]
  <1>1. UNCHANGED <<roster, made, pathless, restoring, hotEvents, plugged>>
    BY DEF SessionJoined, StartCapture, StoreSource, AvStops, StopRemoved, ForgetSource,
           StoreActive, capVars, starts, env
  <1>2. work[t] \in W /\ {"hotplug", "av"} \subseteq Threads
    BY DEF IInv, WorkInv, Threads
  <1>3. WorkInv'
    <2>1. CASE \E u \in Threads : Ends(u)
      <3>1. Idle \in W /\ Idle.at = "idle"
        BY DEF Idle
      <3>2. QED
        BY <2>1, <3>1, WorkStep DEF IInv, Ends
    <2>2. CASE \/ At(t, "store source") /\ Goes(t, "start")
               \/ At(t, "stop") /\ Goes(t, "forget source")
      <3> DEFINE place == IF At(t, "stop") THEN "forget source" ELSE "start"
                 w     == [work[t] EXCEPT !.at = place]
      <3>1. work' = [work EXCEPT ![t] = w]
        BY <1>2, <2>2 DEF Goes, At, IInv, WorkInv
      <3>2. w \in W /\ w.at = place /\ w.id = work[t].id /\ w.obj = work[t].obj
        BY <1>2
      <3>3. /\ w.at = "start" => w.obj \in Objects
            /\ w.at = "forget source" => w.id \in Webcams
        BY <2>2, <3>2 DEF At, IInv, WorkInv
      <3> HIDE DEF w
      <3>4. w.at \in {"start", "forget source"}
        BY <3>2
      <3> HIDE DEF place
      <3>5. QED
        BY <3>1, <3>2, <3>3, <3>4, WorkStep DEF IInv
    <2>3. QED
      BY <1>2, <2>1, <2>2
      DEF SessionJoined, StartCapture, StoreSource, AvStops, StopRemoved, ForgetSource, StoreActive
  <1>4. live' \subseteq Objects /\ failed' \subseteq Objects
    <2>1. live \subseteq Objects /\ failed \subseteq Objects
      BY DEF IInv, DeviceTypeOK
    <2>2. CASE StartCapture(t)
      <3>1. work[t].obj \in Objects
        BY <2>2 DEF StartCapture, At, IInv, WorkInv
      <3>2. /\ live' = live \/ live' = live \cup {work[t].obj}
            /\ \/ failed' = failed \/ failed' = failed \cup {work[t].obj}
               \/ failed' = failed \ {work[t].obj}
        BY <2>2 DEF StartCapture
      <3>3. QED
        BY <2>1, <3>1, <3>2
    <2>3. CASE AvStops \/ StopRemoved(t)
      BY <2>1, <2>3 DEF AvStops, StopRemoved, StopCapture
    <2>4. CASE SessionJoined \/ StoreSource(t) \/ ForgetSource(t) \/ StoreActive(t)
      BY <2>1, <2>4 DEF SessionJoined, StoreSource, ForgetSource, StoreActive, capVars, starts
    <2>5. QED
      BY <2>2, <2>3, <2>4
  <1>5. stored_active' \in Ids \cup {None} /\ stored_sources' \subseteq Webcams
    BY DEF SessionJoined, StartCapture, StoreSource, AvStops, StopRemoved, ForgetSource,
           StoreActive, files, IInv, DeviceTypeOK, WorkInv, At
  <1>6. DeviceTypeOK' /\ EventsInv'
    BY <1>1, <1>4, <1>5 DEF IInv, DeviceTypeOK, EventsInv, roster
  <1>7. QED
    BY <1>1, <1>3, <1>6, RosterKept DEF IInv

(* The steps that take an event, or send one, and leave the roster alone.   *)
LEMMA EventsKeep ==
  ASSUME IInv, AttachIgnored \/ DetachIgnored \/ AvResolves \/ \E id \in Ids : Replug(id)
  PROVE  IInv'
  <1> USE DeviceAssumption DEF NoObject
  <1> DEFINE R == [id : Cams, on : BOOLEAN]
  <1>1. UNCHANGED <<roster, made, live, failed, pathless, restoring, files>>
    BY DEF AttachIgnored, DetachIgnored, AvResolves, Replug, capVars, starts
  <1>2. plugged' \subseteq Ids
    BY DEF AttachIgnored, DetachIgnored, AvResolves, Replug, IInv, DeviceTypeOK
  <1>3. hotEvents \in Seq(R)
    BY DEF IInv, EventsInv
  <1>4. hotEvents' \in Seq(R)
    <2>1. CASE AttachIgnored \/ DetachIgnored
      <3>1. hotEvents # <<>> /\ hotEvents' = Tail(hotEvents)
        BY <2>1 DEF AttachIgnored, DetachIgnored
      <3> HIDE DEF R
      <3>2. QED
        BY <1>3, <3>1, HeadTailProperties
    <2>2. CASE AvResolves
      BY <1>3, <2>2 DEF AvResolves
    <2>3. ASSUME NEW id \in Ids, Replug(id)
          PROVE  hotEvents' \in Seq(R)
      <3> DEFINE e == [id |-> id, on |-> id \notin plugged]
      <3>1. CASE id \in Cams
        <4>1. hotEvents' = Append(hotEvents, e) /\ e \in R
          BY <2>3, <3>1 DEF Replug
        <4> HIDE DEF e, R
        <4>2. QED
          BY <1>3, <4>1, AppendProperties
      <3>2. CASE id \notin Cams
        BY <1>3, <2>3, <3>2 DEF Replug
      <3>3. QED
        BY <3>1, <3>2
    <2>4. QED
      BY <2>1, <2>2, <2>3
  <1>5. WorkInv'
    <2>1. CASE UNCHANGED work
      BY <2>1 DEF IInv, WorkInv
    <2>2. CASE AvResolves /\ ~(UNCHANGED work)
      <3> DEFINE e == Head(avEvents)
                 w == [at |-> IF e.on THEN "start" ELSE "av stop", id |-> e.id,
                       obj |-> captures[e.id]]
      <3>1. e.id \in sources /\ work' = [work EXCEPT !["av"] = w]
        BY <2>2 DEF AvResolves, IsSource, Holds
      <3>2. e.id \in Webcams /\ e.id \in Ids
        BY <3>1 DEF IInv, DeviceTypeOK, Ids
      <3>3. captures[e.id] \in 0..MaxObjects /\ captures[e.id] # 0
        BY <3>1, <3>2 DEF IInv, DeviceTypeOK, HoldersInv
      <3> HIDE DEF e
      <3>4. captures[e.id] \in Objects
        BY <3>3 DEF Objects
      <3>5. "av" \in Threads
        BY DEF Threads
      <3>6. w.at \in {"start", "av stop"} /\ w.id = e.id /\ w.obj = captures[e.id]
        OBVIOUS
      <3>7. w \in [at : {"idle", "start", "join", "store source", "stop",
                         "forget source", "store active", "av stop"},
                   id : Ids \cup {None}, obj : 0..MaxObjects]
        BY <3>2, <3>3
      <3> HIDE DEF w
      <3>8. QED
        BY <3>1, <3>4, <3>5, <3>6, <3>7, WorkStep DEF IInv
    <2>3. QED
      BY <2>1, <2>2 DEF AttachIgnored, DetachIgnored, Replug
  <1>6. DeviceTypeOK' /\ EventsInv'
    BY <1>1, <1>2, <1>4 DEF IInv, DeviceTypeOK, EventsInv, roster, files
  <1>7. QED
    BY <1>1, <1>5, <1>6, RosterKept DEF IInv

LEMMA detachKeeps == IInv /\ detach => IInv'
  <1> SUFFICES ASSUME IInv, detach PROVE IInv'
    OBVIOUS
  <1> DEFINE sn == Event.id
             R == [id : Cams, on : BOOLEAN]
  <1> USE DeviceAssumption DEF NoObject
  <1>1. /\ sn \in sessions /\ sessions' = sessions \ {sn}
        /\ order' = Without(order, sn)
        /\ live' \subseteq live /\ failed' \subseteq failed /\ pathless' = pathless \ {sn}
        /\ active' = recompute_active_locked(sessions', order')
        /\ work' = [work EXCEPT !["hotplug"] = [at |-> "join", id |-> sn, obj |-> 0]]
        /\ UNCHANGED <<captures, sources, desired, restoring, made, files, plugged>>
    BY DEF detach, Holds, StopCapture
  <1>2. hotEvents' \in Seq(R)
    <2>1. hotEvents \in Seq(R) /\ hotEvents # <<>> /\ hotEvents' = Tail(hotEvents)
      BY DEF IInv, EventsInv, detach
    <2> HIDE DEF R
    <2>2. QED
      BY <2>1, HeadTailProperties
  <1> HIDE DEF sn
  <1>3. sn \in Cams /\ sn \in Ids /\ sn \notin sources /\ sessions' \in SUBSET Cams
    BY <1>1 DEF IInv, DeviceTypeOK, Ids
  <1>4. order' \in Seq(Ids) /\ Elements(order') = sessions' \cup sources' /\ Distinct(order')
    <2>1. order \in Seq(Ids) /\ Distinct(order) /\ Elements(order) = sessions \cup sources
      BY DEF IInv, DeviceTypeOK, OrderInv, Listed
    <2>2. QED
      BY <1>1, <1>3, <2>1, ElementsOfWithout
  <1>5. /\ active' \in Ids \cup {None}
        /\ desired \in sessions' => active' = desired
        /\ order' # <<>> => active' # None
    BY <1>1, <1>3, <1>4, RecomputeChoice DEF IInv
  <1>6. WorkInv'
    <2>1. "hotplug" \in Threads /\ 0 \in 0..MaxObjects
      BY DEF Threads
    <2>2. QED
      BY <1>1, <1>3, <2>1, HoldsStep DEF IInv
  <1>7. DeviceTypeOK'
    BY <1>1, <1>3, <1>4, <1>5 DEF IInv, DeviceTypeOK, files
  <1>8. CapturesInv' /\ HoldersInv'
    BY <1>1 DEF IInv, CapturesInv, HoldersInv
  <1>9. OrderInv' /\ PreferenceOnAir' /\ ProgramFed'
    BY <1>1, <1>4, <1>5 DEF OrderInv, Listed, PreferenceOnAir, ProgramFed
  <1>10. QED
    BY <1>2, <1>6, <1>7, <1>8, <1>9 DEF IInv, EventsInv

(* A generic source appears, for a client or for the boot thread.           *)
LEMMA add_sourceKeeps ==
  ASSUME IInv, NEW t \in Threads, NEW uid \in Webcams, add_source(t, uid),
         restoring' \subseteq restoring
  PROVE  IInv'
  <1> USE DeviceAssumption DEF NoObject
  <1>1. /\ captures[uid] = 0 /\ made < MaxObjects /\ made' = made + 1
        /\ captures' = [captures EXCEPT ![uid] = made + 1]
        /\ sources' = sources \cup {uid} /\ order' = Append(order, uid)
        /\ active' = IF active = None THEN uid ELSE active
        /\ work' = [work EXCEPT ![t] = [at |-> "store source", id |-> uid, obj |-> made + 1]]
        /\ UNCHANGED <<sessions, desired, live, failed, pathless, files, hotEvents, plugged>>
    BY DEF add_source, Holds, env, starts
  <1>2. uid \in Ids /\ uid \notin sessions /\ uid \notin sources /\ uid # None
    BY <1>1 DEF IInv, DeviceTypeOK, HoldersInv, Ids
  <1>3. /\ captures' \in [Ids -> 0..MaxObjects] /\ captures'[uid] \in Objects
        /\ CapturesInv' /\ \A i \in Ids : i # uid => captures'[i] = captures[i]
    BY <1>1, <1>2, CaptureMade DEF IInv
  <1>4. HoldersInv'
    <2>1. captures'[uid] # 0
      BY <1>3 DEF Objects
    <2>2. \A c \in sessions' : captures'[c] = 0 => c \in pathless'
      BY <1>1, <1>2, <1>3 DEF IInv, HoldersInv, Ids, DeviceTypeOK
    <2>3. \A v \in Webcams : v \in sources' <=> captures'[v] # 0
      BY <1>1, <1>3, <2>1 DEF IInv, HoldersInv, Ids
    <2>4. QED
      BY <2>2, <2>3 DEF HoldersInv
  <1>5. order' \in Seq(Ids) /\ Elements(order') = sessions' \cup sources' /\ Distinct(order')
    <2>1. order \in Seq(Ids) /\ Distinct(order) /\ Elements(order) = sessions \cup sources
      BY DEF IInv, DeviceTypeOK, OrderInv, Listed
    <2>2. QED
      <3>1. uid \notin Elements(order)
        BY <1>2, <2>1
      <3>2. Append(order, uid) \in Seq(Ids)
        BY <1>2, <2>1, AppendProperties
      <3>3. /\ Elements(Append(order, uid)) = Elements(order) \cup {uid}
            /\ Distinct(Append(order, uid))
        BY <1>2, <2>1, <3>1, ElementsOfAppend
      <3>4. QED
        BY <1>1, <2>1, <3>2, <3>3
  <1>6. active' \in Ids \cup {None} /\ active' # None /\ (desired \in sessions => active' = desired)
    <2>1. desired \in sessions => active = desired /\ desired # None
      BY DEF IInv, PreferenceOnAir, DeviceTypeOK, Ids
    <2>2. QED
      BY <1>1, <1>2, <2>1 DEF IInv, DeviceTypeOK
  <1>7. WorkInv'
    <2>1. made \in 0..MaxObjects
      BY DEF IInv, CapturesInv
    <2>2. made < MaxObjects
      BY <1>1
    <2>3. made + 1 \in 1..MaxObjects
      BY <2>1, <2>2
    <2>4. made + 1 \in 0..MaxObjects /\ made + 1 \in Objects
      BY <2>3 DEF Objects
    <2>5. QED
      BY <1>1, <1>2, <2>4, HoldsStep DEF IInv
  <1>8. DeviceTypeOK' /\ EventsInv'
    BY <1>1, <1>3, <1>5, <1>6 DEF IInv, DeviceTypeOK, EventsInv, files
  <1>9. OrderInv' /\ PreferenceOnAir' /\ ProgramFed'
    BY <1>1, <1>5, <1>6 DEF OrderInv, Listed, PreferenceOnAir, ProgramFed
  <1>10. QED
    BY <1>3, <1>4, <1>7, <1>8, <1>9 DEF IInv

LEMMA remove_sourceKeeps ==
  ASSUME IInv, NEW t \in Threads, NEW id \in Webcams, remove_source(t, id)
  PROVE  IInv'
  <1> USE DeviceAssumption DEF NoObject
  <1>1. /\ id \in sources /\ captures' = [captures EXCEPT ![id] = 0]
        /\ sources' = sources \ {id} /\ order' = Without(order, id)
        /\ active' = IF active = id THEN recompute_active_locked(sessions, order') ELSE active
        /\ work' = [work EXCEPT ![t] = [at |-> "stop", id |-> id, obj |-> captures[id]]]
        /\ UNCHANGED <<sessions, desired, restoring, live, failed, pathless, made, files, hotEvents,
                       plugged>>
    BY DEF remove_source, Holds, capVars, starts, env
  <1>2. id \in Ids /\ id \notin sessions
    BY DEF IInv, DeviceTypeOK, Ids
  <1>3. /\ captures \in [Ids -> 0..MaxObjects] /\ captures' \in [Ids -> 0..MaxObjects]
        /\ captures'[id] = 0 /\ \A i \in Ids : i # id => captures'[i] = captures[i]
    BY <1>1, <1>2 DEF IInv, DeviceTypeOK
  <1>4. CapturesInv'
    <2>1. made \in 0..MaxObjects /\ made' = made
      BY <1>1 DEF IInv, CapturesInv
    <2>2. \A i \in Ids : captures'[i] <= made
      BY <1>2, <1>3, <2>1 DEF IInv, CapturesInv
    <2>3. \A i, j \in Ids : captures'[i] # 0 /\ captures'[i] = captures'[j] => i = j
      BY <1>2, <1>3 DEF IInv, CapturesInv
    <2>4. QED
      BY <2>1, <2>2, <2>3 DEF CapturesInv
  <1>5. HoldersInv'
    BY <1>1, <1>2, <1>3 DEF IInv, HoldersInv, Ids, DeviceTypeOK
  <1>6. order' \in Seq(Ids) /\ Elements(order') = sessions' \cup sources' /\ Distinct(order')
    <2>1. order \in Seq(Ids) /\ Distinct(order) /\ Elements(order) = sessions \cup sources
      BY DEF IInv, DeviceTypeOK, OrderInv, Listed
    <2>2. QED
      BY <1>1, <1>2, <2>1, ElementsOfWithout
  <1>7. /\ active' \in Ids \cup {None}
        /\ desired \in sessions => active' = desired
        /\ order' # <<>> => active' # None
    <2>1. sessions \in SUBSET Cams
      BY DEF IInv, DeviceTypeOK
    <2>2. CASE active = id
      BY <1>1, <1>6, <2>1, <2>2, RecomputeChoice DEF IInv
    <2>3. CASE active # id
      <3>1. active' = active
        BY <1>1, <2>3
      <3>2. order # <<>>
        <4>1. order \in Seq(Ids) /\ id \in Elements(order)
          BY <1>1 DEF IInv, DeviceTypeOK, OrderInv, Listed
        <4>2. QED
          BY <4>1, NonEmpty
      <3>3. QED
        BY <3>1, <3>2 DEF IInv, DeviceTypeOK, PreferenceOnAir, ProgramFed
    <2>4. QED
      BY <2>2, <2>3
  <1>8. WorkInv'
    <2>1. captures[id] \in 0..MaxObjects
      BY <1>2, <1>3
    <2>2. QED
      BY <1>1, <1>2, <2>1, WorkStep DEF IInv
  <1>9. DeviceTypeOK' /\ EventsInv'
    BY <1>1, <1>3, <1>6, <1>7 DEF IInv, DeviceTypeOK, EventsInv, files
  <1>10. OrderInv' /\ PreferenceOnAir' /\ ProgramFed'
    BY <1>1, <1>6, <1>7 DEF OrderInv, Listed, PreferenceOnAir, ProgramFed
  <1>11. QED
    BY <1>4, <1>5, <1>8, <1>9, <1>10 DEF IInv

LEMMA set_activeKeeps ==
  ASSUME IInv, NEW t \in Threads, NEW sn \in Ids, set_active(t, sn)
  PROVE  IInv'
  <1> USE DeviceAssumption DEF NoObject
  <1>1. /\ active' = sn /\ desired' = sn
        /\ work' = [work EXCEPT ![t] = [at |-> "store active", id |-> sn, obj |-> 0]]
        /\ UNCHANGED <<sessions, order, captures, sources, restoring, live, failed, pathless,
                       made, files, hotEvents, plugged>>
    BY DEF set_active, Holds, capVars, starts, env
  <1>2. WorkInv'
    <2>1. 0 \in 0..MaxObjects
      OBVIOUS
    <2>2. QED
      BY <1>1, <2>1, HoldsStep DEF IInv
  <1>3. DeviceTypeOK' /\ EventsInv'
    BY <1>1 DEF IInv, DeviceTypeOK, EventsInv, files
  <1>4. CapturesInv' /\ HoldersInv' /\ OrderInv'
    BY <1>1 DEF IInv, CapturesInv, HoldersInv, OrderInv, Listed
  <1>5. PreferenceOnAir' /\ ProgramFed'
    BY <1>1 DEF PreferenceOnAir, ProgramFed
  <1>6. QED
    BY <1>2, <1>3, <1>4, <1>5 DEF IInv

LEMMA RestartKeeps == IInv /\ Restart => IInv'
  <1> SUFFICES ASSUME IInv, Restart PROVE IInv'
    OBVIOUS
  <1> USE DeviceAssumption DEF NoObject, Restart, Booted
  <1>1. order' = <<>> /\ Len(order') = 0 /\ Elements(order') = {} /\ Distinct(order')
    BY DEF Elements, Distinct
  <1>2. DeviceTypeOK'
    BY DEF DeviceTypeOK, IInv, files
  <1>3. EventsInv'
    BY PlugEventsType DEF EventsInv
  <1>4. WorkInv'
    <2>1. \A t \in Threads : work'[t] = Idle
      OBVIOUS
    <2>2. Idle.at = "idle"
      BY DEF Idle
    <2>3. Idle \in [at : {"idle", "start", "join", "store source", "stop",
                         "forget source", "store active", "av stop"},
                   id : Ids \cup {None}, obj : 0..MaxObjects]
      BY DEF Idle
    <2>4. QED
      BY <2>1, <2>2, <2>3 DEF WorkInv
  <1>5. CapturesInv' /\ HoldersInv'
    BY DEF CapturesInv, HoldersInv, Ids
  <1>6. OrderInv' /\ PreferenceOnAir' /\ ProgramFed'
    BY <1>1 DEF OrderInv, Listed, PreferenceOnAir, ProgramFed
  <1>7. QED
    BY <1>2, <1>3, <1>4, <1>5, <1>6 DEF IInv

LEMMA NextIInv == IInv /\ [Next]_vars => IInv'
  <1> SUFFICES ASSUME IInv, [Next]_vars PROVE IInv'
    OBVIOUS
  <1>1. CASE attach
    BY <1>1, attachKeeps
  <1>2. CASE detach
    BY <1>2, detachKeeps
  <1>3. CASE AttachIgnored \/ DetachIgnored \/ AvResolves \/ \E id \in Ids : Replug(id)
    BY <1>3, EventsKeep
  <1>4. CASE SessionJoined \/ AvStops
    <2>1. "av" \in Threads
      BY DEF Threads
    <2>2. QED
      BY <1>4, <2>1, UnlockedKeeps
  <1>5. CASE Restore
    <2>1. PICK uid \in restoring :
            /\ \/ add_source("boot", uid)
               \/ /\ At("boot", "idle") /\ captures[uid] # NoObject
                  /\ UNCHANGED <<roster, work, capVars, files, env>>
            /\ restoring' = restoring \ {uid}
      BY <1>5 DEF Restore
    <2>2. uid \in Webcams /\ "boot" \in Threads /\ restoring \subseteq Webcams
      BY DEF IInv, DeviceTypeOK, Threads
    <2>3. CASE add_source("boot", uid)
      BY <2>1, <2>2, <2>3, add_sourceKeeps
    <2>4. CASE UNCHANGED <<roster, work, capVars, files, env>>
      <3>1. DeviceTypeOK' /\ EventsInv' /\ WorkInv'
        BY <2>1, <2>2, <2>4
        DEF IInv, DeviceTypeOK, EventsInv, WorkInv, roster, capVars, starts, files, env
      <3>2. QED
        BY <2>4, <3>1, RosterKept DEF IInv, capVars, starts
    <2>5. QED
      BY <2>1, <2>3, <2>4
  <1>6. CASE \/ \E t \in Threads : StartCapture(t)
             \/ \E t \in Callers \cup {"boot"} : StoreSource(t)
    <2>1. Callers \cup {"boot"} \subseteq Threads
      BY DEF Threads
    <2>2. QED
      BY <1>6, <2>1, UnlockedKeeps
  <1>7. ASSUME NEW t \in Callers, Command(t) \/ StopRemoved(t) \/ ForgetSource(t) \/ StoreActive(t)
        PROVE  IInv'
    <2>1. t \in Threads
      BY DEF Threads
    <2>2. CASE StopRemoved(t) \/ ForgetSource(t) \/ StoreActive(t)
      BY <2>1, <2>2, UnlockedKeeps
    <2>3. CASE \E uid \in Webcams : add_source(t, uid) /\ UNCHANGED restoring
      BY <2>1, <2>3, add_sourceKeeps
    <2>4. CASE \E uid \in Webcams : remove_source(t, uid)
      BY <2>1, <2>4, remove_sourceKeeps
    <2>5. CASE \E sn \in Ids : set_active(t, sn)
      BY <2>1, <2>5, set_activeKeeps
    <2>6. QED
      BY <1>7, <2>2, <2>3, <2>4, <2>5 DEF Command
  <1>8. CASE Restart
    BY <1>8, RestartKeeps
  <1>9. CASE UNCHANGED vars
    <2>1. DeviceTypeOK' /\ EventsInv' /\ WorkInv'
      BY <1>9 DEF IInv, DeviceTypeOK, EventsInv, WorkInv, vars, roster, capVars, starts, files, env
    <2>2. QED
      BY <1>9, <2>1, RosterKept DEF IInv, vars, capVars, starts
  <1>10. QED
    BY <1>1, <1>2, <1>3, <1>4, <1>5, <1>6, <1>7, <1>8, <1>9 DEF Next

-----------------------------------------------------------------------------
(* The invariant holds in every state the bridge reaches.                   *)
THEOREM Invariance == Spec => []IInv
  BY InitIInv, NextIInv, PTL DEF Spec

(* Every variable keeps its type.                                           *)
THEOREM TypeCorrect == Spec => []DeviceTypeOK
  <1>1. IInv => DeviceTypeOK
    BY DEF IInv
  <1>2. QED
    BY <1>1, Invariance, PTL

(* The order that clients see lists each attached camera and each source    *)
(* once, no two of them share a capture, and only a camera that came        *)
(* without a video path has none, whatever the hotplug thread, the          *)
(* observer, the boot thread and the commands interleave and wherever the   *)
(* process dies.                                                            *)
THEOREM RosterCorrect == Spec => []RosterMatches
  <1>1. IInv => RosterMatches
    <2> SUFFICES ASSUME IInv PROVE RosterMatches
      OBVIOUS
    <2>1. Listed = sessions \cup sources /\ Distinct(order) /\ Listed \subseteq Ids
      BY DEF IInv, OrderInv, DeviceTypeOK, Ids
    <2>2. \A i \in Listed : captures[i] = NoObject => i \in pathless
      BY <2>1 DEF IInv, HoldersInv, DeviceTypeOK
    <2>3. \A i, j \in Listed : captures[i] # NoObject /\ captures[i] = captures[j] => i = j
      BY <2>1 DEF IInv, CapturesInv
    <2>4. QED
      BY <2>1, <2>2, <2>3 DEF RosterMatches
  <1>2. QED
    BY <1>1, Invariance, PTL

(* The camera that the operator chose is on air whenever it is attached.    *)
THEOREM PreferenceHonoured == Spec => []PreferenceOnAir
  <1>1. IInv => PreferenceOnAir
    BY DEF IInv
  <1>2. QED
    BY <1>1, Invariance, PTL

(* While anything is listed, something is on air.                           *)
THEOREM NeverWithoutProgram == Spec => []ProgramFed
  <1>1. IInv => ProgramFed
    BY DEF IInv
  <1>2. QED
    BY <1>1, Invariance, PTL

(* What can change the roster.                                              *)
LEMMA RosterSteps ==
  ASSUME IInv, [Next]_vars
  PROVE  \/ attach \/ detach \/ Restart \/ UNCHANGED roster
         \/ \E t \in Threads, uid \in Webcams : add_source(t, uid)
         \/ \E t \in Threads, uid \in Webcams : remove_source(t, uid)
         \/ \E t \in Threads, sn \in Ids : set_active(t, sn)
  <1>1. CASE UNCHANGED vars
    BY <1>1 DEF vars
  <1>2. CASE AttachIgnored \/ DetachIgnored \/ SessionJoined \/ AvResolves \/ AvStops
    BY <1>2 DEF AttachIgnored, DetachIgnored, SessionJoined, AvResolves, AvStops
  <1>3. CASE \/ \E t \in Threads : StartCapture(t)
             \/ \E t \in Callers \cup {"boot"} : StoreSource(t)
    BY <1>3 DEF StartCapture, StoreSource
  <1>4. CASE \E id \in Ids : Replug(id)
    BY <1>4 DEF Replug
  <1>5. CASE Restore
    <2>1. restoring \subseteq Webcams /\ "boot" \in Threads
      BY DEF IInv, DeviceTypeOK, Threads
    <2>2. QED
      BY <1>5, <2>1 DEF Restore
  <1>6. ASSUME NEW t \in Callers, Command(t) \/ StopRemoved(t) \/ ForgetSource(t) \/ StoreActive(t)
        PROVE  \/ UNCHANGED roster
               \/ \E u \in Threads, uid \in Webcams : add_source(u, uid)
               \/ \E u \in Threads, uid \in Webcams : remove_source(u, uid)
               \/ \E u \in Threads, sn \in Ids : set_active(u, sn)
    <2>1. t \in Threads
      BY DEF Threads
    <2>2. CASE Command(t)
      BY <2>1, <2>2 DEF Command
    <2>3. CASE StopRemoved(t) \/ ForgetSource(t) \/ StoreActive(t)
      BY <2>3 DEF StopRemoved, ForgetSource, StoreActive
    <2>4. QED
      BY <1>6, <2>2, <2>3
  <1>7. QED
    BY <1>1, <1>2, <1>3, <1>4, <1>5, <1>6 DEF Next

(* The count of the process's restarts.                                     *)
LEMMA RestartsCounted == Spec => [](restarts \in Nat)
  <1>1. Init => restarts \in Nat
    BY DEF Init
  <1>2. restarts \in Nat /\ [Next]_vars => (restarts \in Nat)'
    <2> SUFFICES ASSUME restarts \in Nat, [Next]_vars PROVE restarts' \in Nat
      OBVIOUS
    <2>1. CASE Restart
      BY <2>1 DEF Restart
    <2>2. CASE UNCHANGED restarts
      BY <2>2
    <2>3. AttachIgnored \/ attach \/ DetachIgnored \/ detach \/ AvResolves => UNCHANGED restarts
      BY DEF AttachIgnored, attach, DetachIgnored, detach, AvResolves
    <2>4. SessionJoined \/ Restore \/ AvStops => UNCHANGED restarts
      BY DEF SessionJoined, Restore, add_source, AvStops, env
    <2>5. ASSUME NEW t, StartCapture(t) \/ StoreSource(t) \/ StopRemoved(t)
                        \/ ForgetSource(t) \/ StoreActive(t)
          PROVE  UNCHANGED restarts
      BY <2>5 DEF StartCapture, StoreSource, StopRemoved, ForgetSource, StoreActive, env
    <2>6. ASSUME NEW t, Command(t)
          PROVE  UNCHANGED restarts
      BY <2>6 DEF Command, add_source, remove_source, set_active, env
    <2>7. ASSUME NEW id \in Ids, Replug(id)
          PROVE  UNCHANGED restarts
      BY <2>7 DEF Replug
    <2>8. QED
      BY <2>1, <2>2, <2>3, <2>4, <2>5, <2>6, <2>7 DEF Next, vars, env
  <1>3. QED
    BY <1>1, <1>2, PTL DEF Spec

(* No event, command or cable takes a camera off air, but its own departure *)
(* or the operator's choice.                                                *)
THEOREM CameraKept == Spec => [][CameraStaysOnAir]_vars
  <1>1. ASSUME IInv, [Next]_vars, restarts \in Nat,
               active \in sessions, active' # active, restarts' = restarts
        PROVE  active' = desired' \/ ~(active \in sessions')
    <2>1. DeviceTypeOK /\ DeviceTypeOK' /\ active # None /\ active \notin Webcams
      BY <1>1, DeviceAssumption, NextIInv DEF IInv, DeviceTypeOK, Ids
    <2>2. CASE attach \/ detach
      <3>1. active' = recompute_active_locked(sessions', order') /\ UNCHANGED desired
        BY <2>2 DEF attach, detach
      <3>2. sessions' \in SUBSET Cams /\ order' \in Seq(Ids)
        BY <2>1 DEF DeviceTypeOK
      <3>3. QED
        BY <1>1, <2>1, <3>1, <3>2, RecomputeChoice
    <2>3. CASE \E t \in Threads, uid \in Webcams : add_source(t, uid)
      BY <1>1, <2>1, <2>3 DEF add_source
    <2>4. CASE \E t \in Threads, uid \in Webcams : remove_source(t, uid)
      BY <1>1, <2>1, <2>4 DEF remove_source
    <2>5. CASE \E t \in Threads, sn \in Ids : set_active(t, sn)
      BY <2>5 DEF set_active
    <2>6. CASE Restart
      BY <1>1, <2>6 DEF Restart
    <2>7. CASE UNCHANGED roster
      BY <1>1, <2>7 DEF roster
    <2>8. QED
      BY <1>1, <2>2, <2>3, <2>4, <2>5, <2>6, <2>7, RosterSteps
  <1>2. QED
    BY <1>1, Invariance, RestartsCounted, PTL DEF Spec, CameraStaysOnAir

(* A camera that comes or goes leaves the program on something listed.      *)
THEOREM ProgramHealed == Spec => [][RosterChangeHeals]_vars
  <1>1. ASSUME IInv, [Next]_vars, sessions' # sessions, order' # <<>>
        PROVE  active' \in Elements(order')
    <2>1. DeviceTypeOK /\ DeviceTypeOK' /\ OrderInv'
      BY <1>1, NextIInv DEF IInv
    <2>2. CASE attach \/ detach
      <3>1. active' = recompute_active_locked(sessions', order')
        BY <2>2 DEF attach, detach
      <3>2. sessions' \in SUBSET Cams /\ order' \in Seq(Ids) /\ sessions' \subseteq Elements(order')
        BY <2>1 DEF DeviceTypeOK, OrderInv, Listed
      <3>3. QED
        BY <1>1, <2>1, <3>1, <3>2, RecomputeChoice
    <2>3. CASE Restart
      BY <1>1, <2>3 DEF Restart, Booted
    <2>4. CASE UNCHANGED roster
      BY <1>1, <2>4 DEF roster
    <2>5. UNCHANGED sessions \/ attach \/ detach \/ Restart \/ UNCHANGED roster
      BY <1>1, RosterSteps DEF add_source, remove_source, set_active
    <2>6. QED
      BY <1>1, <2>2, <2>3, <2>4, <2>5
  <1>2. QED
    BY <1>1, Invariance, PTL DEF Spec, RosterChangeHeals

(* Both together: the program changes for a cause.                          *)
THEOREM ProgramMoves == Spec => ProgramMovesForCause
  BY CameraKept, ProgramHealed, PTL DEF ProgramMovesForCause

-----------------------------------------------------------------------------
-----------------------------------------------------------------------------
(* What settles: the invariant that follows every event not delivered yet.  *)

Pending(s, id) == \E i \in 1..Len(s) : s[i].id = id

(* The last event on the way for a device tells where its cable is.         *)
LastIsTrue(s, connected) ==
  \A i \in 1..Len(s) :
    (\A j \in 1..Len(s) : j > i => s[j].id # s[i].id) => (s[i].on <=> s[i].id \in connected)

CableInv ==
  /\ avEvents \in Seq([id : Webcams, on : BOOLEAN])
  /\ LastIsTrue(hotEvents, plugged) /\ LastIsTrue(avEvents, plugged)

(* A thread that holds the capture object of a device acts for that device, *)
(* and nobody is about to stop one that was not removed.                    *)
ObjectsInv ==
  /\ live \subseteq 1..made
  /\ \A t \in Threads :
       /\ work[t].obj \in 0..made
       /\ work[t].at = "av stop" => work[t].id \in Webcams
       /\ \A i \in Ids : captures[i] = work[t].obj /\ captures[i] # NoObject =>
            work[t].id = i /\ work[t].at \notin {"stop", "forget source"}

(* Why something that is listed and connected may not stream.               *)
Excused(i) == captures[i] \in failed \/ i \in pathless

(* With no event on its way a camera is attached exactly if it is           *)
(* connected, and its capture runs, is about to, or is excused.             *)
CamerasInv ==
  \A c \in Cams : ~Pending(hotEvents, c) =>
    /\ c \in sessions <=> c \in plugged
    /\ c \in sessions => \/ captures[c] \in live \/ Excused(c)
                         \/ work["hotplug"].at = "start" /\ work["hotplug"].obj = captures[c]

(* With no event on its way a source's capture runs exactly if the device   *)
(* is connected, bar the excuses, or the observer or who added it is about   *)
(* to see to it.                                                            *)
Starting(o) == \E t \in Threads : work[t].at \in {"start", "store source"} /\ work[t].obj = o

SourceSettles(w) ==
  IF work["av"].obj = captures[w]
  THEN work["av"].at \in {"start", "av stop"} /\ (work["av"].at = "start" <=> w \in plugged)
  ELSE /\ captures[w] \in live => w \in plugged
       /\ w \in plugged => captures[w] \in live \/ Excused(w) \/ Starting(captures[w])

SourcesInv == \A w \in sources : ~Pending(avEvents, w) => SourceSettles(w)

SInv == CableInv /\ ObjectsInv /\ CamerasInv /\ SourcesInv

(* An event is delivered, or comes.                                         *)
LEMMA PendingTail ==
  ASSUME NEW S, NEW s \in Seq(S), s # <<>>
  PROVE  /\ \A id : Pending(s, id) <=> Head(s).id = id \/ Pending(Tail(s), id)
         /\ \A P : LastIsTrue(s, P) =>
              /\ LastIsTrue(Tail(s), P)
              /\ ~Pending(Tail(s), Head(s).id) => (Head(s).on <=> Head(s).id \in P)
<1> DEFINE t == Tail(s)
<1>1. /\ Len(s) \in Nat \ {0} /\ Len(t) = Len(s) - 1 /\ Head(s) = s[1]
      /\ \A i \in 1..Len(t) : t[i] = s[i + 1]
  BY HeadTailProperties
<1> HIDE DEF t
<1>2. \A i \in 1..Len(t) : i + 1 \in 1..Len(s) /\ t[i] = s[i + 1]
  BY <1>1
<1>3. 1 \in 1..Len(s) /\ \A i \in 1..Len(s) : i # 1 => i - 1 \in 1..Len(t) /\ s[i] = t[i - 1]
  BY <1>1
<1>4. \A id : Pending(s, id) <=> s[1].id = id \/ Pending(t, id)
  BY <1>2, <1>3 DEF Pending
<1>5. ASSUME NEW P, LastIsTrue(s, P)
      PROVE  LastIsTrue(t, P)
  <2> SUFFICES ASSUME NEW i \in 1..Len(t), \A j \in 1..Len(t) : j > i => t[j].id # t[i].id
               PROVE  t[i].on <=> t[i].id \in P
    BY DEF LastIsTrue
  <2>1. i + 1 \in 1..Len(s) /\ t[i] = s[i + 1]
    BY <1>2
  <2>2. ASSUME NEW j \in 1..Len(s), j > i + 1
        PROVE  s[j].id # s[i + 1].id
    <3>1. j - 1 \in 1..Len(t) /\ s[j] = t[j - 1] /\ j - 1 > i
      BY <1>1, <1>3, <2>2
    <3> QED
      BY <2>1, <3>1
  <2>3. s[i + 1].on <=> s[i + 1].id \in P
    BY <1>5, <2>1, <2>2 DEF LastIsTrue
  <2> QED
    BY <2>1, <2>3
<1>6. ASSUME NEW P, LastIsTrue(s, P), ~Pending(t, s[1].id)
      PROVE  s[1].on <=> s[1].id \in P
  <2>1. \A j \in 1..Len(s) : j > 1 => s[j].id # s[1].id
    BY <1>1, <1>3, <1>6 DEF Pending
  <2> QED
    BY <1>3, <1>6, <2>1 DEF LastIsTrue
<1> QED
  BY <1>1, <1>4, <1>5, <1>6 DEF t

LEMMA PendingAppend ==
  ASSUME NEW S, NEW s \in Seq(S), NEW e \in S
  PROVE  /\ \A id : Pending(Append(s, e), id) <=> e.id = id \/ Pending(s, id)
         /\ \A P, Q : LastIsTrue(s, P) /\ (e.on <=> e.id \in Q)
                      /\ (\A id : id # e.id => (id \in P <=> id \in Q))
                        => LastIsTrue(Append(s, e), Q)
<1> DEFINE t == Append(s, e)
<1>1. /\ Len(s) \in Nat /\ Len(t) = Len(s) + 1 /\ t[Len(t)] = e
      /\ \A i \in 1..Len(s) : t[i] = s[i]
  BY AppendProperties, LenProperties
<1> HIDE DEF t
<1>2. Len(t) \in 1..Len(t) /\ \A i \in 1..Len(s) : i \in 1..Len(t) /\ i < Len(t)
  BY <1>1
<1>3. \A i \in 1..Len(t) : i # Len(t) => i \in 1..Len(s)
  BY <1>1
<1>4. \A id : Pending(t, id) <=> e.id = id \/ Pending(s, id)
  BY <1>1, <1>2, <1>3 DEF Pending
<1>5. ASSUME NEW P, NEW Q, LastIsTrue(s, P), e.on <=> e.id \in Q,
             \A id : id # e.id => (id \in P <=> id \in Q)
      PROVE  LastIsTrue(t, Q)
  <2> SUFFICES ASSUME NEW i \in 1..Len(t), \A j \in 1..Len(t) : j > i => t[j].id # t[i].id
               PROVE  t[i].on <=> t[i].id \in Q
    BY DEF LastIsTrue
  <2>1. CASE i = Len(t)
    BY <1>1, <1>5, <2>1
  <2>2. CASE i # Len(t)
    <3>1. i \in 1..Len(s) /\ t[i] = s[i] /\ t[i].id # e.id
      BY <1>1, <1>2, <1>3, <2>2
    <3>2. \A j \in 1..Len(s) : j > i => s[j].id # s[i].id
      BY <1>1, <1>2, <3>1
    <3>3. s[i].on <=> s[i].id \in P
      BY <1>5, <3>1, <3>2 DEF LastIsTrue
    <3> QED
      BY <1>5, <3>1, <3>3
  <2> QED
    BY <2>1, <2>2
<1> QED
  BY <1>4, <1>5 DEF t

(* A cable that is in no event of the list does not matter to it.           *)
LEMMA OtherCable ==
  ASSUME NEW s, NEW P, NEW Q, LastIsTrue(s, P),
         \A i \in 1..Len(s) : s[i].id \in P <=> s[i].id \in Q
  PROVE  LastIsTrue(s, Q)
BY DEF LastIsTrue

(* Where the bridge starts, every connected camera has an event.            *)
LEMMA BootEvents ==
  ASSUME NEW ids \in SUBSET Cams, NEW s \in PlugEvents(ids)
  PROVE  /\ \A c \in ids : Pending(s, c)
         /\ \A i \in 1..Len(s) : s[i].id \in ids /\ s[i].on
<1> DEFINE n == Cardinality(ids)
           f == [i \in 1..n |-> s[i].id]
<1>1. IsFiniteSet(ids) /\ n \in Nat
  BY DeviceAssumption, FS_Subset, FS_CardinalityType DEF Ids
<1>2. s \in [1..n -> [id : ids, on : {TRUE}]] /\ \A i, j \in 1..n : i # j => s[i].id # s[j].id
  BY DEF PlugEvents
<1>3. Len(s) = n
  BY <1>1, <1>2
<1>4. \A i \in 1..n : s[i].id \in ids /\ s[i].on
  BY <1>2
<1>5. f \in Injection(1..n, ids)
  BY <1>2, <1>4 DEF Injection, IsInjective
<1>6. Cardinality(1..n) = n
  BY <1>1, FS_Interval
<1>7. f \in Surjection(1..n, ids)
  BY <1>1, <1>5, <1>6, FS_Injection
<1>8. \A c \in ids : \E i \in 1..n : s[i].id = c
  BY <1>7 DEF Surjection
<1> QED
  BY <1>3, <1>4, <1>8 DEF Pending

JustBooted ==
  /\ hotEvents \in PlugEvents(plugged \cap Cams) /\ avEvents = <<>>
  /\ sessions = {} /\ sources = {} /\ live = {} /\ made = 0
  /\ work = [t \in Threads |-> Idle] /\ captures = [i \in Ids |-> NoObject]

LEMMA BootSettles == JustBooted => SInv
<1> SUFFICES ASSUME JustBooted PROVE SInv
  OBVIOUS
<1>5. /\ hotEvents \in PlugEvents(plugged \cap Cams) /\ avEvents = <<>>
      /\ sessions = {} /\ sources = {} /\ live = {} /\ made = 0
  BY DEF JustBooted
<1>1. \A t \in Threads : work[t].obj = 0 /\ work[t].at = "idle"
  BY DEF JustBooted, Idle, NoObject
<1>6. \A i \in Ids : captures[i] = NoObject
  BY DEF JustBooted
<1>2. CableInv
  <2>1. LastIsTrue(hotEvents, plugged)
    BY <1>5, BootEvents DEF LastIsTrue
  <2>2. avEvents \in Seq([id : Webcams, on : BOOLEAN]) /\ LastIsTrue(avEvents, plugged)
    BY <1>5 DEF LastIsTrue
  <2> QED
    BY <2>1, <2>2 DEF CableInv
<1>3. ObjectsInv
  <2>1. 0 \in 0..made /\ live \subseteq 1..made
    BY <1>5
  <2> QED
    BY <1>1, <1>6, <2>1, Zenon DEF ObjectsInv
<1>4. CamerasInv
  BY <1>5, BootEvents DEF CamerasInv
<1> QED
  BY <1>5, <1>2, <1>3, <1>4 DEF SInv, SourcesInv

(* What the other invariants say of threads and captures.                   *)
LEMMA Held ==
  ASSUME IInv
  PROVE  /\ captures \in [Ids -> 0..MaxObjects] /\ made \in 0..MaxObjects /\ made \in Nat
         /\ DOMAIN work = Threads /\ live \subseteq Objects
         /\ sessions \subseteq Cams /\ sources \subseteq Webcams
         /\ Cams \subseteq Ids /\ Webcams \subseteq Ids /\ Cams \cap Webcams = {}
         /\ \A i \in Ids : captures[i] \in 0..made
         /\ \A i, j \in Ids : captures[i] # NoObject /\ captures[i] = captures[j] => i = j
         /\ \A c \in sessions : captures[c] = NoObject => c \in pathless
         /\ pathless \subseteq Cams /\ NoObject \notin live /\ NoObject \notin failed
         /\ \A w \in Webcams : w \in sources <=> captures[w] # NoObject
         /\ hotEvents \in Seq([id : Cams, on : BOOLEAN])
         /\ {"hotplug", "av", "boot"} \subseteq Threads
<1>1. captures \in [Ids -> 0..MaxObjects] /\ made \in 0..MaxObjects /\ made \in Nat
  BY DeviceAssumption DEF IInv, DeviceTypeOK, CapturesInv
<1>2. \A i \in Ids : captures[i] \in 0..made
  BY <1>1 DEF IInv, CapturesInv
<1>3. NoObject \notin Objects
  BY DEF NoObject, Objects
<1> QED
  BY <1>1, <1>2, <1>3, DeviceAssumption
  DEF IInv, DeviceTypeOK, WorkInv, CapturesInv, HoldersInv, EventsInv, Ids, Threads

(* A thread goes on: its new work is sound, a capture it was to start it is *)
(* still to start, and no capture of a device is stopped.                   *)
Sound(t, w) ==
  /\ w.obj \in 0..made
  /\ w.at = "av stop" => w.id \in Webcams
  /\ \A i \in Ids : captures[i] = w.obj /\ captures[i] # NoObject =>
       w.id = i /\ w.at \notin {"stop", "forget source"}

LEMMA ObjectsStep ==
  ASSUME IInv, ObjectsInv, NEW t \in Threads, NEW w, Sound(t, w),
         work' = [work EXCEPT ![t] = w], UNCHANGED <<captures, made>>, live' \subseteq 1..made
  PROVE  ObjectsInv'
<1>1. work'[t] = w /\ \A u \in Threads : u # t => work'[u] = work[u]
  BY Held
<1>2. ASSUME NEW u \in Threads
      PROVE  /\ work'[u].obj \in 0..made
             /\ work'[u].at = "av stop" => work'[u].id \in Webcams
             /\ \A i \in Ids : captures[i] = work'[u].obj /\ captures[i] # NoObject =>
                  work'[u].id = i /\ work'[u].at \notin {"stop", "forget source"}
  <2>1. CASE u = t
    BY <1>1, <2>1 DEF Sound
  <2>2. CASE u # t
    <3>1. work'[u] = work[u]
      BY <1>1, <2>2
    <3> QED
      BY <3>1, Zenon DEF ObjectsInv
  <2> QED
    BY <2>1, <2>2
<1>3. captures' = captures /\ made' = made /\ live' \subseteq 1..made
  OBVIOUS
<1> HIDE DEF Sound
<1> SUFFICES /\ live' \subseteq 1..made'
             /\ \A u \in Threads :
                  /\ work'[u].obj \in 0..made'
                  /\ work'[u].at = "av stop" => work'[u].id \in Webcams
                  /\ \A i \in Ids : captures'[i] = work'[u].obj /\ captures'[i] # NoObject =>
                       work'[u].id = i /\ work'[u].at \notin {"stop", "forget source"}
  BY Zenon DEF ObjectsInv
<1> QED
  BY <1>2, <1>3, ZenonT(30)

KeepsCaptures ==
  \A i \in Ids : captures[i] # NoObject =>
    /\ captures[i] \in live => captures[i] \in live'
    /\ captures[i] \in failed => captures[i] \in failed'

LEMMA ThreadGoesOn ==
  ASSUME IInv, SInv, NEW t \in Threads, t # "av", NEW w, Sound(t, w),
         work' = [work EXCEPT ![t] = w],
         work[t].at = "start" => w.at = "start" /\ w.obj = work[t].obj,
         work[t].at = "store source" => w.at = "start" /\ w.obj = work[t].obj,
         live' \subseteq live,
         KeepsCaptures, pathless' = pathless,
         UNCHANGED <<sessions, captures, sources, made, hotEvents, avEvents, plugged>>
  PROVE  SInv'
<1>1. work'[t] = w /\ \A u \in Threads : u # t => work'[u] = work[u]
  BY Held
<1>2. CableInv'
  BY DEF SInv, CableInv
<1>3. ObjectsInv'
  BY ObjectsStep DEF SInv, ObjectsInv
<1>4. CamerasInv'
  <2> SUFFICES ASSUME NEW c \in Cams, ~Pending(hotEvents, c)
               PROVE  /\ c \in sessions <=> c \in plugged
                      /\ c \in sessions => \/ captures[c] \in live' \/ Excused(c)'
                                           \/ /\ work'["hotplug"].at = "start"
                                              /\ work'["hotplug"].obj = captures[c]
    BY DEF CamerasInv
  <2>1. /\ c \in sessions <=> c \in plugged
        /\ c \in sessions => \/ captures[c] \in live \/ Excused(c)
                             \/ work["hotplug"].at = "start" /\ work["hotplug"].obj = captures[c]
    BY DEF SInv, CamerasInv
  <2>2. work["hotplug"].at = "start" =>
          work'["hotplug"].at = "start" /\ work'["hotplug"].obj = work["hotplug"].obj
    BY <1>1, Held
  <2>3. captures[c] # NoObject /\ Excused(c) => Excused(c)'
    BY Held DEF Excused, KeepsCaptures
  <2>4. CASE c \in sessions /\ captures[c] = NoObject
    BY <2>1, <2>4, Held DEF Excused
  <2> QED
    BY <2>1, <2>2, <2>3, <2>4, Held DEF KeepsCaptures
<1>5. SourcesInv'
  <2> SUFFICES ASSUME NEW s \in sources, ~Pending(avEvents, s)
               PROVE  SourceSettles(s)'
    BY DEF SourcesInv
  <2>1. SourceSettles(s)
    BY DEF SInv, SourcesInv
  <2>2. Starting(captures[s]) => Starting(captures[s])'
    BY <1>1 DEF Starting
  <2>3. work'["av"] = work["av"]
    BY <1>1, Held
  <2>4. captures[s] \in live <=> captures[s] \in live'
    BY Held DEF KeepsCaptures
  <2>5. Excused(s) => Excused(s)'
    BY Held DEF Excused, KeepsCaptures
  <2> QED
    BY <2>1, <2>2, <2>3, <2>4, <2>5 DEF SourceSettles
<1> QED
  BY <1>2, <1>3, <1>4, <1>5 DEF SInv

(* The capture that somebody was to start: it runs if the device is there.  *)
LEMMA StartSettles ==
  ASSUME IInv, SInv, NEW t \in Threads, StartCapture(t)
  PROVE  SInv'
<1> DEFINE o == work[t].obj
<1>1. /\ work[t].at = "start"
      /\ live \subseteq live' /\ live' \subseteq live \cup {o}
      /\ work[t].id \in plugged => o \in live' \/ o \in failed'
      /\ work[t].id \notin plugged => live' = live
      /\ \A x : x # o /\ x \in failed => x \in failed'
      /\ work' = [work EXCEPT ![t] = Idle]
      /\ UNCHANGED <<sessions, captures, sources, made, pathless, hotEvents, avEvents, plugged>>
  BY DEF StartCapture, At, Ends, roster, env
<1>9. /\ \A x : x # o => (x \in live <=> x \in live')
      /\ \A i : captures[i] # o /\ Excused(i) => Excused(i)'
  BY <1>1 DEF Excused
<1>2. work'[t] = Idle /\ \A u \in Threads : u # t => work'[u] = work[u]
  BY <1>1, Held
<1>3. o \in Objects /\ o \in 1..made
  <2>1. o \in Objects /\ o \in 0..made
    BY <1>1 DEF IInv, WorkInv, SInv, ObjectsInv
  <2> QED
    BY <2>1, Held DEF Objects
<1>4. \A i \in Ids : captures[i] = o => work[t].id = i
  <2>1. o # NoObject
    BY <1>3 DEF Objects, NoObject
  <2> QED
    BY <2>1 DEF SInv, ObjectsInv
<1>5. CableInv'
  BY <1>1 DEF SInv, CableInv
<1>6. ObjectsInv'
  <2>1. live' \subseteq 1..made
    BY <1>1, <1>3 DEF SInv, ObjectsInv
  <2>2. Sound(t, Idle)
    BY Held DEF Sound, Idle, NoObject
  <2> QED
    BY <1>1, <2>1, <2>2, ObjectsStep DEF SInv
<1>7. CamerasInv'
  <2> SUFFICES ASSUME NEW c \in Cams, ~Pending(hotEvents, c)
               PROVE  /\ c \in sessions <=> c \in plugged
                      /\ c \in sessions => \/ captures[c] \in live' \/ Excused(c)'
                                           \/ /\ work'["hotplug"].at = "start"
                                              /\ work'["hotplug"].obj = captures[c]
    BY <1>1 DEF CamerasInv
  <2>1. /\ c \in sessions <=> c \in plugged
        /\ c \in sessions => \/ captures[c] \in live \/ Excused(c)
                             \/ work["hotplug"].at = "start" /\ work["hotplug"].obj = captures[c]
    BY DEF SInv, CamerasInv
  <2>2. CASE captures[c] \in live
    BY <1>1, <2>1, <2>2
  <2>3. CASE work["hotplug"].obj = captures[c] /\ t = "hotplug"
    <3>1. c \in sessions => c \in plugged /\ work[t].id = c
      BY <1>4, <2>1, <2>3, Held
    <3>2. c \in sessions => captures[c] \in live' \/ Excused(c)'
      BY <1>1, <2>3, <3>1 DEF Excused
    <3> QED
      BY <1>1, <2>1, <3>2
  <2>4. CASE t # "hotplug" /\ work["hotplug"].at = "start" /\ work["hotplug"].obj = captures[c]
    BY <1>1, <1>2, <2>1, <2>4, Held
  <2>5. CASE Excused(c) /\ captures[c] # o
    BY <1>1, <1>9, <2>1, <2>5
  <2>6. CASE captures[c] = o /\ c \in sessions
    <3>1. c \in plugged /\ work[t].id = c
      BY <1>4, <2>1, <2>6, Held
    <3>2. captures[c] \in live' \/ Excused(c)'
      BY <1>1, <2>6, <3>1 DEF Excused
    <3> QED
      BY <1>1, <2>1, <3>2
  <2> QED
    BY <2>1, <2>2, <2>3, <2>4, <2>5, <2>6
<1>8. SourcesInv'
  <2> SUFFICES ASSUME NEW s \in sources, ~Pending(avEvents, s)
               PROVE  SourceSettles(s)'
    BY <1>1 DEF SourcesInv
  <2>1. SourceSettles(s) /\ s \in Ids /\ captures[s] # 0 /\ captures'[s] = captures[s]
    BY <1>1, Held DEF SInv, SourcesInv, NoObject
  <2>2. CASE captures[s] = o
    <3>1. work[t].id = s /\ (s \in plugged => captures[s] \in live' \/ Excused(s)')
      BY <1>1, <1>4, <2>1, <2>2 DEF Excused
    <3>2. CASE t = "av"
      <4>1. s \in plugged /\ (captures[s] \in live' \/ Excused(s)')
        BY <1>1, <2>1, <2>2, <3>1, <3>2 DEF SourceSettles
      <4>2. work'["av"].obj # captures[s]
        BY <1>2, <2>1, <3>2 DEF Idle, NoObject
      <4> QED
        BY <1>1, <4>1, <4>2 DEF SourceSettles
    <3>3. CASE t # "av" /\ work["av"].obj = captures[s]
      <4>1. work'["av"] = work["av"]
        BY <1>2, <3>3, Held
      <4> QED
        BY <1>1, <2>1, <3>3, <4>1 DEF SourceSettles
    <3>4. CASE t # "av" /\ work["av"].obj # captures[s]
      <4>1. work'["av"] = work["av"]
        BY <1>2, <3>4, Held
      <4>2. captures[s] \in live' => s \in plugged
        BY <1>1, <2>1, <3>1, <3>4 DEF SourceSettles
      <4> QED
        BY <1>1, <3>1, <3>4, <4>1, <4>2 DEF SourceSettles
    <3> QED
      BY <3>2, <3>3, <3>4
  <2>3. CASE captures[s] # o
    <3>1. (captures[s] \in live <=> captures[s] \in live') /\ (Excused(s) => Excused(s)')
      BY <1>9, <2>3
    <3>2. Starting(captures[s]) => Starting(captures[s])'
      BY <1>1, <1>2, <2>3 DEF Starting
    <3>3. CASE t = "av"
      <4>1. work'["av"].obj # captures[s]
        BY <1>2, <2>1, <3>3 DEF Idle, NoObject
      <4> QED
        BY <1>1, <2>1, <2>3, <3>1, <3>2, <3>3, <4>1 DEF SourceSettles
    <3>4. CASE t # "av"
      <4>1. work'["av"] = work["av"]
        BY <1>2, <3>4, Held
      <4> QED
        BY <1>1, <2>1, <3>1, <3>2, <4>1 DEF SourceSettles
    <3> QED
      BY <3>3, <3>4
  <2> QED
    BY <2>2, <2>3
<1> QED
  BY <1>5, <1>6, <1>7, <1>8 DEF SInv


(* An event for a camera that is ignored tells what the roster shows.       *)
LEMMA IgnoredSettles ==
  ASSUME IInv, SInv, AttachIgnored \/ DetachIgnored
  PROVE  SInv'
<1>1. /\ hotEvents # <<>> /\ hotEvents' = Tail(hotEvents)
      /\ Event.on => Event.id \notin plugged
      /\ ~Event.on => Event.id \notin sessions
      /\ UNCHANGED <<sessions, captures, sources, work, live, failed, pathless, made, avEvents,
                     plugged>>
  BY DEF AttachIgnored, DetachIgnored, roster, capVars, starts
<1>2. /\ \A id : Pending(hotEvents, id) <=> Event.id = id \/ Pending(hotEvents', id)
      /\ LastIsTrue(hotEvents', plugged)
      /\ ~Pending(hotEvents', Event.id) => (Event.on <=> Event.id \in plugged)
  BY <1>1, Held, PendingTail DEF Event, SInv, CableInv
<1>3. CableInv'
  BY <1>1, <1>2 DEF SInv, CableInv
<1>4. ObjectsInv' /\ SourcesInv'
  BY <1>1 DEF SInv, ObjectsInv, SourcesInv, SourceSettles, Starting, Excused
<1>5. CamerasInv'
  <2> SUFFICES ASSUME NEW c \in Cams, ~Pending(hotEvents', c)
               PROVE  /\ c \in sessions <=> c \in plugged
                      /\ c \in sessions => \/ captures[c] \in live \/ Excused(c)'
                                           \/ /\ work["hotplug"].at = "start"
                                              /\ work["hotplug"].obj = captures[c]
    BY <1>1 DEF CamerasInv
  <2>1. CASE c = Event.id
    BY <1>1, <1>2, <2>1
  <2>2. CASE c # Event.id
    BY <1>1, <1>2, <2>2 DEF SInv, CamerasInv, Excused
  <2> QED
    BY <2>1, <2>2
<1> QED
  BY <1>3, <1>4, <1>5 DEF SInv

(* The observer takes the last event of a source, which says what to do.    *)
LEMMA ObserverSettles ==
  ASSUME IInv, SInv, AvResolves
  PROVE  SInv'
<1> DEFINE e == Head(avEvents)
           w == [at |-> IF e.on THEN "start" ELSE "av stop", id |-> e.id, obj |-> captures[e.id]]
<1>1. /\ work["av"].at = "idle" /\ avEvents # <<>> /\ avEvents' = Tail(avEvents)
      /\ work' = IF e.id \in sources THEN [work EXCEPT !["av"] = w] ELSE work
      /\ UNCHANGED <<sessions, captures, sources, live, failed, pathless, made, hotEvents,
                     plugged>>
  BY DEF AvResolves, At, Holds, IsSource, roster, capVars, starts
<1>2. /\ \A id : Pending(avEvents, id) <=> e.id = id \/ Pending(avEvents', id)
      /\ LastIsTrue(avEvents', plugged)
      /\ ~Pending(avEvents', e.id) => (e.on <=> e.id \in plugged)
      /\ avEvents' \in Seq([id : Webcams, on : BOOLEAN]) /\ e.id \in Webcams
  <2> DEFINE R == [id : Webcams, on : BOOLEAN]
  <2>1. avEvents \in Seq(R) /\ LastIsTrue(avEvents, plugged)
    BY DEF SInv, CableInv
  <2> HIDE DEF R
  <2>2. Head(avEvents) \in R /\ Tail(avEvents) \in Seq(R)
    BY <1>1, <2>1, HeadTailProperties
  <2>3. /\ \A id : Pending(avEvents, id) <=> Head(avEvents).id = id \/ Pending(Tail(avEvents), id)
        /\ LastIsTrue(Tail(avEvents), plugged)
        /\ ~Pending(Tail(avEvents), Head(avEvents).id)
             => (Head(avEvents).on <=> Head(avEvents).id \in plugged)
    BY <1>1, <2>1, PendingTail
  <2> QED
    BY <1>1, <2>2, <2>3 DEF R
<1>3. CableInv'
  BY <1>1, <1>2 DEF SInv, CableInv
<1> HIDE DEF e
<1>4. \A u \in Threads : u # "av" => work'[u] = work[u]
  BY <1>1, Held
<1>5. e.id \in sources => /\ work'["av"].obj = captures[e.id]
                          /\ work'["av"].at = IF e.on THEN "start" ELSE "av stop"
  <2>1. e.id \in sources => work'["av"] = w
    BY <1>1, Held
  <2>2. w.obj = captures[e.id] /\ w.at = IF e.on THEN "start" ELSE "av stop"
    OBVIOUS
  <2> HIDE DEF w
  <2> QED
    BY <2>1, <2>2
<1>6. e.id \notin sources => work' = work
  BY <1>1
<1>7. ObjectsInv'
  <2>1. CASE e.id \in sources
    <3>1. \A i \in Ids : captures[i] = captures[e.id] /\ captures[i] # NoObject => e.id = i
      BY <1>2, Held
    <3>2. captures[e.id] \in 0..made /\ w.at \in {"start", "av stop"}
      BY <1>2, Held
    <3>3. Sound("av", w)
      BY <1>2, <3>1, <3>2 DEF Sound
    <3>4. live' \subseteq 1..made
      BY <1>1 DEF SInv, ObjectsInv
    <3>5. "av" \in Threads /\ work' = [work EXCEPT !["av"] = w] /\ UNCHANGED <<captures, made>>
      BY <1>1, <2>1, Held
    <3> HIDE DEF w
    <3> QED
      BY <3>3, <3>4, <3>5, ObjectsStep DEF SInv
  <2>2. CASE e.id \notin sources
    BY <1>1, <1>6, <2>2 DEF SInv, ObjectsInv
  <2> QED
    BY <2>1, <2>2
<1>8. CamerasInv'
  <2>1. work'["hotplug"] = work["hotplug"]
    BY <1>4, Held
  <2> QED
    BY <1>1, <2>1 DEF SInv, CamerasInv, Excused
<1>9. SourcesInv'
  <2> SUFFICES ASSUME NEW s \in sources, ~Pending(avEvents', s)
               PROVE  SourceSettles(s)'
    BY <1>1 DEF SourcesInv
  <2>1. s \in Ids /\ s \in Webcams /\ captures[s] # NoObject
    BY Held
  <2>2. CASE s = e.id
    <3>1. work'["av"].obj = captures[s] /\ work'["av"].at = IF e.on THEN "start" ELSE "av stop"
      BY <1>5, <2>2
    <3>2. e.on <=> s \in plugged
      BY <1>2, <2>2
    <3>3. work'["av"].at \in {"start", "av stop"} /\ (work'["av"].at = "start" <=> s \in plugged)
      BY <3>1, <3>2
    <3> QED
      BY <1>1, <3>1, <3>3 DEF SourceSettles
  <2>3. CASE s # e.id
    <3>1. SourceSettles(s)
      BY <1>2, <2>3 DEF SInv, SourcesInv
    <3>2. work["av"].obj # captures[s] /\ work'["av"].obj # captures[s]
      <4>1. work["av"].obj # captures[s]
        BY <1>1, <3>1 DEF SourceSettles
      <4>2. captures[e.id] # captures[s]
        BY <1>2, <2>1, <2>3, Held
      <4> QED
        BY <1>5, <1>6, <4>1, <4>2
    <3>3. Starting(captures[s]) => Starting(captures[s])'
      BY <1>1, <1>4 DEF Starting
    <3> QED
      BY <1>1, <3>1, <3>2, <3>3 DEF SourceSettles, Excused
  <2> QED
    BY <2>2, <2>3
<1> QED
  BY <1>3, <1>7, <1>8, <1>9 DEF SInv

(* It stops the capture of a device that is gone.                           *)
LEMMA StopSettles ==
  ASSUME IInv, SInv, AvStops
  PROVE  SInv'
<1> DEFINE o == work["av"].obj
<1>1. /\ work["av"].at = "av stop" /\ live' = live \ {o} /\ failed' = failed \ {o}
      /\ work' = [work EXCEPT !["av"] = Idle]
      /\ UNCHANGED <<sessions, captures, sources, made, pathless, hotEvents, avEvents, plugged>>
  BY DEF AvStops, StopCapture, At, Ends, roster, env
<1>2. work'["av"] = Idle /\ \A u \in Threads : u # "av" => work'[u] = work[u]
  BY <1>1, Held
<1>3. work["av"].id \in Webcams
      /\ \A i \in Ids : captures[i] = o /\ captures[i] # NoObject => work["av"].id = i
  BY <1>1, Held DEF SInv, ObjectsInv
<1>4. CableInv'
  BY <1>1 DEF SInv, CableInv
<1>5. ObjectsInv'
  <2>1. live' \subseteq 1..made
    BY <1>1 DEF SInv, ObjectsInv
  <2>2. Sound("av", Idle)
    BY Held DEF Sound, Idle, NoObject
  <2> QED
    BY <1>1, <2>1, <2>2, ObjectsStep, Held DEF SInv
<1>6. CamerasInv'
  <2> SUFFICES ASSUME NEW c \in Cams, ~Pending(hotEvents, c)
               PROVE  /\ c \in sessions <=> c \in plugged
                      /\ c \in sessions => \/ captures[c] \in live' \/ Excused(c)'
                                           \/ /\ work'["hotplug"].at = "start"
                                              /\ work'["hotplug"].obj = captures[c]
    BY <1>1 DEF CamerasInv
  <2>1. /\ c \in sessions <=> c \in plugged
        /\ c \in sessions => \/ captures[c] \in live \/ Excused(c)
                             \/ work["hotplug"].at = "start" /\ work["hotplug"].obj = captures[c]
    BY DEF SInv, CamerasInv
  <2>2. c \in sessions => captures[c] # o \/ c \in pathless
    BY <1>3, Held
  <2>3. work'["hotplug"] = work["hotplug"]
    BY <1>2, Held
  <2> QED
    BY <1>1, <2>1, <2>2, <2>3 DEF Excused
<1>7. SourcesInv'
  <2> SUFFICES ASSUME NEW s \in sources, ~Pending(avEvents, s)
               PROVE  SourceSettles(s)'
    BY <1>1 DEF SourcesInv
  <2>1. SourceSettles(s) /\ s \in Ids /\ captures[s] # NoObject /\ captures'[s] = captures[s]
    BY <1>1, Held DEF SInv, SourcesInv
  <2>2. work'["av"].obj # captures[s]
    BY <1>2, <2>1 DEF Idle
  <2>3. CASE captures[s] = o
    <3>1. s \notin plugged /\ captures[s] \notin live'
      BY <1>1, <2>1, <2>3 DEF SourceSettles
    <3> QED
      BY <1>1, <2>2, <3>1 DEF SourceSettles
  <2>4. CASE captures[s] # o
    <3>1. (captures[s] \in live <=> captures[s] \in live') /\ (Excused(s) => Excused(s)')
      BY <1>1, <2>4 DEF Excused
    <3>2. Starting(captures[s]) => Starting(captures[s])'
      BY <1>1, <1>2 DEF Starting
    <3> QED
      BY <1>1, <2>1, <2>2, <2>4, <3>1, <3>2 DEF SourceSettles
  <2> QED
    BY <2>3, <2>4
<1> QED
  BY <1>4, <1>5, <1>6, <1>7 DEF SInv

(* A cable that moves makes an event that says where it is.                 *)
LEMMA CableSettles ==
  ASSUME IInv, SInv, NEW id \in Ids, Replug(id)
  PROVE  SInv'
<1> DEFINE e == [id |-> id, on |-> id \notin plugged]
<1>1. /\ plugged' = IF id \in plugged THEN plugged \ {id} ELSE plugged \cup {id}
      /\ id \in Cams => hotEvents' = Append(hotEvents, e) /\ avEvents' = avEvents
      /\ id \notin Cams => avEvents' = Append(avEvents, e) /\ hotEvents' = hotEvents
      /\ UNCHANGED <<sessions, captures, sources, work, live, failed, pathless, made>>
  BY DEF Replug, roster, capVars, starts
<1>2. /\ \A i : i # id => (i \in plugged <=> i \in plugged')
      /\ e.on <=> e.id \in plugged'
      /\ e.id = id /\ e.on \in BOOLEAN
  BY <1>1
<1>3. id \notin Cams => id \in Webcams
  BY DEF Ids
<1>4. ObjectsInv'
  BY <1>1 DEF SInv, ObjectsInv
<1>5. /\ LastIsTrue(hotEvents', plugged')
      /\ \A i : i # id => (Pending(hotEvents', i) <=> Pending(hotEvents, i))
      /\ id \in Cams => Pending(hotEvents', id)
  <2> DEFINE R == [id : Cams, on : BOOLEAN]
  <2>1. hotEvents \in Seq(R) /\ LastIsTrue(hotEvents, plugged)
    BY Held DEF SInv, CableInv
  <2>2. CASE id \in Cams
    <3>1. e \in R
      BY <2>2
    <3> HIDE DEF R, e
    <3>2. \A i : Pending(hotEvents', i) <=> i = id \/ Pending(hotEvents, i)
      BY <1>1, <1>2, <2>1, <2>2, <3>1, PendingAppend
    <3>3. \A P, Q : LastIsTrue(hotEvents, P) /\ (e.on <=> e.id \in Q)
                    /\ (\A i : i # e.id => (i \in P <=> i \in Q))
                      => LastIsTrue(hotEvents', Q)
      BY <1>1, <2>1, <2>2, <3>1, PendingAppend
    <3>4. LastIsTrue(hotEvents', plugged')
      BY <1>2, <2>1, <3>3
    <3> QED
      BY <3>2, <3>4
  <2>3. CASE id \notin Cams
    <3>1. \A i \in 1..Len(hotEvents) : hotEvents[i] \in R
      BY <2>1, ElementOfSeq
    <3>2. \A i \in 1..Len(hotEvents) : hotEvents[i].id # id
      BY <2>3, <3>1
    <3>3. \A i \in 1..Len(hotEvents) : hotEvents[i].id \in plugged <=> hotEvents[i].id \in plugged'
      BY <1>2, <3>2
    <3>4. LastIsTrue(hotEvents, plugged')
      BY <2>1, <3>3, OtherCable
    <3> QED
      BY <1>1, <2>3, <3>4
  <2> QED
    BY <2>2, <2>3
<1>6. /\ LastIsTrue(avEvents', plugged') /\ avEvents' \in Seq([id : Webcams, on : BOOLEAN])
      /\ \A i : i # id => (Pending(avEvents', i) <=> Pending(avEvents, i))
      /\ id \notin Cams => Pending(avEvents', id)
  <2> DEFINE R == [id : Webcams, on : BOOLEAN]
  <2>1. avEvents \in Seq(R) /\ LastIsTrue(avEvents, plugged)
    BY DEF SInv, CableInv
  <2>2. CASE id \notin Cams
    <3>1. e \in R
      BY <1>3, <2>2
    <3> HIDE DEF R, e
    <3>2. avEvents' \in Seq(R)
      BY <1>1, <2>1, <2>2, <3>1, AppendProperties
    <3>3. \A i : Pending(avEvents', i) <=> i = id \/ Pending(avEvents, i)
      <4>1. avEvents' = Append(avEvents, e)
        BY <1>1, <2>2
      <4>2. \A i : Pending(Append(avEvents, e), i) <=> e.id = i \/ Pending(avEvents, i)
        BY <2>1, <3>1, PendingAppend
      <4> QED
        BY <1>2, <4>1, <4>2
    <3>4. \A P, Q : LastIsTrue(avEvents, P) /\ (e.on <=> e.id \in Q)
                    /\ (\A i : i # e.id => (i \in P <=> i \in Q))
                      => LastIsTrue(avEvents', Q)
      BY <1>1, <2>1, <2>2, <3>1, PendingAppend
    <3>5. LastIsTrue(avEvents', plugged')
      BY <1>2, <2>1, <3>4
    <3> QED
      BY <3>2, <3>3, <3>5 DEF R
  <2>3. CASE id \in Cams
    <3>1. \A i \in 1..Len(avEvents) : avEvents[i] \in R
      BY <2>1, ElementOfSeq
    <3>2. \A i \in 1..Len(avEvents) : avEvents[i].id # id
      BY <2>3, <3>1, Held
    <3>3. \A i \in 1..Len(avEvents) : avEvents[i].id \in plugged <=> avEvents[i].id \in plugged'
      BY <1>2, <3>2
    <3>4. LastIsTrue(avEvents, plugged')
      BY <2>1, <3>3, OtherCable
    <3> QED
      BY <1>1, <2>1, <2>3, <3>4
  <2> QED
    BY <2>2, <2>3
<1>7. CamerasInv'
  <2> SUFFICES ASSUME NEW c \in Cams, ~Pending(hotEvents', c)
               PROVE  /\ c \in sessions <=> c \in plugged'
                      /\ c \in sessions => \/ captures[c] \in live \/ Excused(c)'
                                           \/ /\ work["hotplug"].at = "start"
                                              /\ work["hotplug"].obj = captures[c]
    BY <1>1 DEF CamerasInv
  <2>1. c # id /\ ~Pending(hotEvents, c)
    BY <1>5
  <2> QED
    BY <1>1, <1>2, <2>1 DEF SInv, CamerasInv, Excused
<1>8. SourcesInv'
  <2> SUFFICES ASSUME NEW s \in sources, ~Pending(avEvents', s)
               PROVE  SourceSettles(s)'
    BY <1>1 DEF SourcesInv
  <2>1. s # id /\ ~Pending(avEvents, s)
    BY <1>6, Held
  <2>2. SourceSettles(s) /\ (s \in plugged <=> s \in plugged')
    BY <1>2, <2>1 DEF SInv, SourcesInv
  <2>3. Starting(captures[s])' <=> Starting(captures[s])
    BY <1>1 DEF Starting
  <2> QED
    BY <1>1, <2>2, <2>3 DEF SourceSettles, Excused
<1> QED
  BY <1>4, <1>5, <1>6, <1>7, <1>8 DEF SInv, CableInv


LEMMA Ranges ==
  ASSUME NEW m \in Nat, NEW n \in Nat, n >= m
  PROVE  0..m \subseteq 0..n /\ 1..m \subseteq 1..n /\ \A k \in 0..m : ~(k > m)
  OBVIOUS

(* Captures are made for new ids, or retired; a thread goes on.             *)
LEMMA ObjectsMove ==
  ASSUME IInv, ObjectsInv, NEW t \in Threads, NEW w, work' = [work EXCEPT ![t] = w],
         made' \in Nat, made' >= made, live' \subseteq 1..made,
         \A i \in Ids : captures'[i] \in {captures[i], NoObject} \/ captures'[i] > made,
         w.obj \in 0..made', w.at # "av stop",
         \A i \in Ids : captures'[i] = w.obj /\ captures'[i] # NoObject =>
           w.id = i /\ w.at \notin {"stop", "forget source"}
  PROVE  ObjectsInv'
<1>1. work'[t] = w /\ \A u \in Threads : u # t => work'[u] = work[u]
  BY Held
<1>0. 0..made \subseteq 0..made' /\ 1..made \subseteq 1..made' /\ \A k \in 0..made : ~(k > made)
  <2>1. made \in Nat
    BY Held
  <2> QED
    BY <2>1, Ranges
<1>2. ASSUME NEW u \in Threads, u # t
      PROVE  /\ work'[u].obj \in 0..made'
             /\ work'[u].at = "av stop" => work'[u].id \in Webcams
             /\ \A i \in Ids : captures'[i] = work'[u].obj /\ captures'[i] # NoObject =>
                  work'[u].id = i /\ work'[u].at \notin {"stop", "forget source"}
  <2>1. work'[u] = work[u]
    BY <1>1, <1>2
  <2>2. /\ work[u].obj \in 0..made
        /\ work[u].at = "av stop" => work[u].id \in Webcams
        /\ \A i \in Ids : captures[i] = work[u].obj /\ captures[i] # NoObject =>
             work[u].id = i /\ work[u].at \notin {"stop", "forget source"}
    BY Zenon DEF ObjectsInv
  <2>3. work[u].obj \in 0..made'
    BY <1>0, <2>2, Zenon
  <2>4. ASSUME NEW i \in Ids, captures'[i] = work[u].obj, captures'[i] # NoObject
        PROVE  captures[i] = work[u].obj /\ captures[i] # NoObject
    <3>1. captures'[i] \in {captures[i], NoObject}
      <4>1. ~(captures'[i] > made)
        BY <1>0, <2>2, <2>4, Zenon
      <4> QED
        BY <4>1, Zenon
    <3> QED
      BY <2>4, <3>1
  <2>5. \A i \in Ids : captures'[i] = work[u].obj /\ captures'[i] # NoObject =>
          work[u].id = i /\ work[u].at \notin {"stop", "forget source"}
    BY <2>2, <2>4, ZenonT(30)
  <2> QED
    BY <2>1, <2>2, <2>3, <2>5, ZenonT(30)
<1>3. live' \subseteq 1..made'
  BY <1>0
<1>4. ASSUME NEW u \in Threads
      PROVE  /\ work'[u].obj \in 0..made'
             /\ work'[u].at = "av stop" => work'[u].id \in Webcams
             /\ \A i \in Ids : captures'[i] = work'[u].obj /\ captures'[i] # NoObject =>
                  work'[u].id = i /\ work'[u].at \notin {"stop", "forget source"}
  <2>1. CASE u = t
    <3>1. work'[u] = w
      BY <1>1, <2>1
    <3> QED
      BY <3>1, Zenon
  <2> QED
    BY <1>2, <2>1
<1> QED
  BY <1>3, <1>4, Zenon DEF ObjectsInv

(* Sources that neither come nor lose anything stay settled.                *)
LEMMA SourcesStand ==
  ASSUME SourcesInv, NEW s, s \in sources, ~Pending(avEvents, s),
         captures'[s] = captures[s], captures[s] \in live' <=> captures[s] \in live,
         Excused(s) => Excused(s)',
         Starting(captures[s]) => Starting(captures[s])',
         work'["av"] = work["av"], plugged' = plugged
  PROVE  SourceSettles(s)'
<1>1. SourceSettles(s)
  BY DEF SourcesInv
<1> QED
  BY <1>1 DEF SourceSettles

(* Libdev's thread starts the capture of the camera that came.              *)
LEMMA BindSettles ==
  ASSUME IInv, SInv, attach, BindCapture(Event.id)
  PROVE  SInv'
<1> DEFINE sn == Event.id
           w  == [at |-> "start", id |-> sn, obj |-> captures'[sn]]
<1>1. /\ work["hotplug"].at = "idle" /\ hotEvents # <<>> /\ hotEvents' = Tail(hotEvents)
      /\ sn \in plugged /\ sessions' = sessions \cup {sn}
      /\ work' = [work EXCEPT !["hotplug"] = w]
      /\ IF captures[sn] = NoObject
         THEN /\ made' = made + 1 /\ captures' = [captures EXCEPT ![sn] = made + 1]
              /\ live' = live /\ failed' = failed
         ELSE /\ captures' = captures /\ made' = made
              /\ live' = live \ {captures[sn]} /\ failed' = failed \ {captures[sn]}
      /\ pathless' = pathless \ {sn}
      /\ UNCHANGED <<sources, avEvents, plugged>>
  BY DEF attach, At, Holds, BindCapture, StopCapture
<1>2. /\ \A id : Pending(hotEvents, id) <=> sn = id \/ Pending(hotEvents', id)
      /\ LastIsTrue(hotEvents', plugged)
  BY <1>1, Held, PendingTail DEF Event, SInv, CableInv
<1>3. sn \in Cams /\ sn \in Ids
  <2> DEFINE R == [id : Cams, on : BOOLEAN]
  <2>1. hotEvents \in Seq(R)
    BY Held
  <2> HIDE DEF R
  <2>2. Head(hotEvents) \in R
    BY <1>1, <2>1, HeadTailProperties
  <2> QED
    BY <2>2, Held DEF R, Event
<1> HIDE DEF sn
<1>4. /\ \A i \in Ids : i # sn => captures'[i] = captures[i]
      /\ captures[sn] = NoObject => captures'[sn] = made + 1
      /\ captures[sn] # NoObject => captures'[sn] = captures[sn]
      /\ captures'[sn] \in 1..made' /\ made' \in Nat /\ made' >= made
  <2>1. CASE captures[sn] = NoObject
    BY <1>1, <1>3, <2>1, Held
  <2>2. CASE captures[sn] # NoObject
    <3>1. captures[sn] \in 1..made
      BY <1>3, <2>2, Held DEF NoObject
    <3> QED
      BY <1>1, <2>2, <3>1, Held
  <2> QED
    BY <2>1, <2>2
<1>5. work'["hotplug"] = w /\ \A u \in Threads : u # "hotplug" => work'[u] = work[u]
  BY <1>1, Held
<1>6. w.at = "start" /\ w.id = sn /\ w.obj = captures'[sn]
  OBVIOUS
<1>7. CableInv'
  BY <1>1, <1>2 DEF SInv, CableInv
<1> HIDE DEF w
<1>8. ObjectsInv'
  <2>1. live' \subseteq 1..made
    BY <1>1 DEF SInv, ObjectsInv
  <2>2. \A i \in Ids : captures'[i] \in {captures[i], NoObject} \/ captures'[i] > made
    BY <1>3, <1>4, Held
  <2>3. \A i \in Ids : captures'[i] = captures'[sn] => i = sn
    <3>1. CASE captures[sn] = NoObject
      <4>1. \A i \in Ids : i # sn => captures'[i] \in 0..made
        BY <1>4, Held
      <4> QED
        BY <1>4, <3>1, <4>1, Held
    <3>2. CASE captures[sn] # NoObject
      BY <1>3, <1>4, <3>2, Held
    <3> QED
      BY <3>1, <3>2
  <2>4. w.obj \in 0..made' /\ w.at # "av stop" /\ w.at \notin {"stop", "forget source"}
    BY <1>4, <1>6
  <2>5. \A i \in Ids : captures'[i] = w.obj /\ captures'[i] # NoObject =>
          w.id = i /\ w.at \notin {"stop", "forget source"}
    BY <1>6, <2>3, <2>4
  <2>6. made' \in Nat /\ made' >= made /\ work' = [work EXCEPT !["hotplug"] = w] /\ ObjectsInv
        /\ "hotplug" \in Threads
    BY <1>1, <1>4, Held DEF SInv
  <2> QED
    BY <2>1, <2>2, <2>4, <2>5, <2>6, ObjectsMove
<1>9. ASSUME NEW i \in Ids, i # sn, captures[i] # NoObject
      PROVE  /\ captures'[i] = captures[i] /\ (captures[i] \in live' <=> captures[i] \in live)
             /\ Excused(i) => Excused(i)'
  <2>1. captures'[i] = captures[i] /\ captures[i] # captures[sn]
    BY <1>3, <1>4, <1>9, Held
  <2> QED
    BY <1>1, <1>9, <2>1 DEF Excused
<1>10. CamerasInv'
  <2> SUFFICES ASSUME NEW c \in Cams, ~Pending(hotEvents', c)
               PROVE  /\ c \in sessions' <=> c \in plugged
                      /\ c \in sessions' => \/ captures'[c] \in live' \/ Excused(c)'
                                            \/ /\ work'["hotplug"].at = "start"
                                               /\ work'["hotplug"].obj = captures'[c]
    BY <1>1 DEF CamerasInv
  <2>1. CASE c = sn
    BY <1>1, <1>5, <1>6, <2>1
  <2>2. CASE c # sn
    <3>1. /\ c \in sessions <=> c \in plugged
          /\ c \in sessions => captures[c] \in live \/ Excused(c)
      BY <1>1, <1>2, <2>2 DEF SInv, CamerasInv
    <3>2. CASE captures[c] # NoObject
      BY <1>1, <1>9, <2>2, <3>1, <3>2, Held
    <3>3. CASE captures[c] = NoObject /\ c \in sessions
      <4>1. c \in pathless /\ c \in pathless'
        BY <1>1, <2>2, <3>3, Held
      <4> QED
        BY <1>1, <3>1, <4>1 DEF Excused
    <3>4. CASE c \notin sessions
      BY <1>1, <2>2, <3>1, <3>4
    <3> QED
      BY <3>2, <3>3, <3>4
  <2> QED
    BY <2>1, <2>2
<1>11. SourcesInv'
  <2> SUFFICES ASSUME NEW s \in sources, ~Pending(avEvents, s)
               PROVE  SourceSettles(s)'
    BY <1>1 DEF SourcesInv
  <2>1. s \in Ids /\ s # sn /\ captures[s] # NoObject
    BY <1>3, Held
  <2>2. Starting(captures[s]) => Starting(captures[s])'
    BY <1>1, <1>5, <1>9, <2>1 DEF Starting
  <2>3. work'["av"] = work["av"]
    BY <1>5, Held
  <2> QED
    BY <1>1, <1>9, <2>1, <2>2, <2>3, SourcesStand DEF SInv
<1> QED
  BY <1>7, <1>8, <1>10, <1>11 DEF SInv


(* A camera that comes without a video path is listed, nothing else.        *)
LEMMA PathlessSettles ==
  ASSUME IInv, SInv, attach, NoVideoPath(Event.id)
  PROVE  SInv'
<1> DEFINE sn == Event.id
<1>1. /\ hotEvents # <<>> /\ hotEvents' = Tail(hotEvents)
      /\ sn \in plugged /\ sessions' = sessions \cup {sn}
      /\ pathless' = pathless \cup {sn}
      /\ UNCHANGED <<work, captures, sources, live, failed, made, avEvents, plugged>>
  BY DEF attach, NoVideoPath
<1>2. /\ \A id : Pending(hotEvents, id) <=> sn = id \/ Pending(hotEvents', id)
      /\ LastIsTrue(hotEvents', plugged)
  BY <1>1, Held, PendingTail DEF Event, SInv, CableInv
<1> HIDE DEF sn
<1>3. CableInv'
  BY <1>1, <1>2 DEF SInv, CableInv
<1>4. ObjectsInv'
  BY <1>1 DEF SInv, ObjectsInv
<1>5. CamerasInv'
  <2> SUFFICES ASSUME NEW c \in Cams, ~Pending(hotEvents', c)
               PROVE  /\ c \in sessions' <=> c \in plugged
                      /\ c \in sessions' => \/ captures[c] \in live \/ Excused(c)'
                                            \/ /\ work["hotplug"].at = "start"
                                               /\ work["hotplug"].obj = captures[c]
    BY <1>1 DEF CamerasInv
  <2>1. CASE c = sn
    BY <1>1, <2>1 DEF Excused
  <2>2. CASE c # sn
    BY <1>1, <1>2, <2>2 DEF SInv, CamerasInv, Excused
  <2> QED
    BY <2>1, <2>2
<1>6. SourcesInv'
  BY <1>1 DEF SInv, SourcesInv, SourceSettles, Starting, Excused
<1> QED
  BY <1>3, <1>4, <1>5, <1>6 DEF SInv

LEMMA AttachSettles ==
  ASSUME IInv, SInv, attach
  PROVE  SInv'
BY BindSettles, PathlessSettles DEF attach

(* A camera that left: its capture is stopped.                              *)
LEMMA DetachSettles ==
  ASSUME IInv, SInv, detach
  PROVE  SInv'
<1> DEFINE sn == Event.id
           w  == [at |-> "join", id |-> sn, obj |-> NoObject]
<1>1. /\ work["hotplug"].at = "idle" /\ hotEvents # <<>> /\ hotEvents' = Tail(hotEvents)
      /\ ~Event.on /\ sn \in sessions /\ sessions' = sessions \ {sn}
      /\ work' = [work EXCEPT !["hotplug"] = w] /\ live' = live \ {captures[sn]}
      /\ failed' = failed \ {captures[sn]} /\ pathless' = pathless \ {sn}
      /\ UNCHANGED <<captures, made, sources, avEvents, plugged>>
  BY DEF detach, At, Holds, StopCapture
<1>2. /\ \A id : Pending(hotEvents, id) <=> sn = id \/ Pending(hotEvents', id)
      /\ LastIsTrue(hotEvents', plugged)
      /\ ~Pending(hotEvents', sn) => sn \notin plugged
  BY <1>1, Held, PendingTail DEF Event, SInv, CableInv
<1> HIDE DEF sn
<1>3. sn \in Cams /\ sn \in Ids
  BY <1>1, Held
<1>4. w.at = "join" /\ w.id = sn /\ w.obj = NoObject
  OBVIOUS
<1> HIDE DEF w
<1>5. work'["hotplug"] = w /\ \A u \in Threads : u # "hotplug" => work'[u] = work[u]
  BY <1>1, Held
<1>6. CableInv'
  BY <1>1, <1>2 DEF SInv, CableInv
<1>7. ObjectsInv'
  <2>1. live' \subseteq 1..made
    BY <1>1 DEF SInv, ObjectsInv
  <2>2. Sound("hotplug", w)
    BY <1>4, Held DEF Sound, NoObject
  <2>3. "hotplug" \in Threads /\ work' = [work EXCEPT !["hotplug"] = w]
        /\ UNCHANGED <<captures, made>> /\ ObjectsInv
    BY <1>1, Held DEF SInv
  <2> QED
    BY <2>1, <2>2, <2>3, ObjectsStep
<1>8. ASSUME NEW i \in Ids, i # sn
      PROVE  /\ captures[i] \in live' <=> captures[i] \in live
             /\ Excused(i) => Excused(i)'
  <2>1. captures[i] = captures[sn] => captures[i] \notin live /\ captures[i] \notin failed
    BY <1>3, <1>8, Held
  <2> QED
    BY <1>1, <1>8, <2>1 DEF Excused
<1>9. CamerasInv'
  <2> SUFFICES ASSUME NEW c \in Cams, ~Pending(hotEvents', c)
               PROVE  /\ c \in sessions' <=> c \in plugged
                      /\ c \in sessions' => \/ captures[c] \in live' \/ Excused(c)'
                                            \/ /\ work'["hotplug"].at = "start"
                                               /\ work'["hotplug"].obj = captures[c]
    BY <1>1 DEF CamerasInv
  <2>1. CASE c = sn
    BY <1>1, <1>2, <2>1
  <2>2. CASE c # sn
    <3>1. /\ c \in sessions <=> c \in plugged
          /\ c \in sessions => captures[c] \in live \/ Excused(c)
      BY <1>1, <1>2, <2>2 DEF SInv, CamerasInv
    <3>2. c \in Ids
      BY Held
    <3> QED
      BY <1>1, <1>8, <2>2, <3>1, <3>2
  <2> QED
    BY <2>1, <2>2
<1>10. SourcesInv'
  <2> SUFFICES ASSUME NEW s \in sources, ~Pending(avEvents, s)
               PROVE  SourceSettles(s)'
    BY <1>1 DEF SourcesInv
  <2>1. s \in Ids /\ s # sn /\ captures'[s] = captures[s]
    BY <1>1, <1>3, Held
  <2>2. Starting(captures[s]) => Starting(captures[s])'
    BY <1>1, <1>5 DEF Starting
  <2>3. work'["av"] = work["av"]
    BY <1>5, Held
  <2> QED
    BY <1>1, <1>8, <2>1, <2>2, <2>3, SourcesStand DEF SInv
<1> QED
  BY <1>6, <1>7, <1>9, <1>10 DEF SInv

(* A new source: who added it is about to start its capture.                *)
LEMMA AddSettles ==
  ASSUME IInv, SInv, NEW t \in Threads, t # "av", NEW uid \in Webcams, add_source(t, uid)
  PROVE  SInv'
<1> DEFINE w == [at |-> "store source", id |-> uid, obj |-> made + 1]
<1>1. /\ work[t].at = "idle" /\ captures[uid] = NoObject /\ made' = made + 1
      /\ captures' = [captures EXCEPT ![uid] = made + 1]
      /\ sources' = sources \cup {uid} /\ work' = [work EXCEPT ![t] = w]
      /\ UNCHANGED <<sessions, live, failed, pathless, hotEvents, avEvents, plugged>>
  BY DEF add_source, At, Holds, env, starts
<1>2. w.at = "store source" /\ w.id = uid /\ w.obj = made + 1
  OBVIOUS
<1> HIDE DEF w
<1>3. work'[t] = w /\ \A u \in Threads : u # t => work'[u] = work[u]
  BY <1>1, Held
<1>4. uid \in Ids /\ captures'[uid] = made + 1
      /\ \A i \in Ids : i # uid => captures'[i] = captures[i]
  BY <1>1, Held
<1>5. /\ made' \in Nat /\ made' >= made /\ made + 1 \in 0..made' /\ made + 1 > made
      /\ made + 1 \notin 0..made /\ made + 1 \notin 1..made
  BY <1>1, Held
<1>6. CableInv'
  BY <1>1 DEF SInv, CableInv
<1>7. ObjectsInv'
  <2>1. live' \subseteq 1..made
    BY <1>1 DEF SInv, ObjectsInv
  <2>2. \A i \in Ids : captures'[i] \in {captures[i], NoObject} \/ captures'[i] > made
    BY <1>4, <1>5
  <2>3. ASSUME NEW i \in Ids, captures'[i] = w.obj
        PROVE  w.id = i
    <3>1. captures[i] \in 0..made
      BY Held
    <3>2. captures[i] # made + 1
      BY <1>5, <3>1
    <3>3. captures'[i] = made + 1
      BY <1>2, <2>3
    <3>4. i = uid
      BY <1>4, <3>2, <3>3
    <3> QED
      BY <1>2, <3>4
  <2>4. w.obj \in 0..made' /\ w.at # "av stop" /\ w.at \notin {"stop", "forget source"}
    BY <1>2, <1>5
  <2>5. work' = [work EXCEPT ![t] = w] /\ ObjectsInv
    BY <1>1 DEF SInv
  <2> QED
    BY <1>5, <2>1, <2>2, <2>3, <2>4, <2>5, ObjectsMove
<1>8. CamerasInv'
  <2> SUFFICES ASSUME NEW c \in Cams, ~Pending(hotEvents, c)
               PROVE  /\ c \in sessions <=> c \in plugged
                      /\ c \in sessions => \/ captures'[c] \in live \/ Excused(c)'
                                           \/ /\ work'["hotplug"].at = "start"
                                              /\ work'["hotplug"].obj = captures'[c]
    BY <1>1 DEF CamerasInv
  <2>1. /\ c \in sessions <=> c \in plugged
        /\ c \in sessions => \/ captures[c] \in live \/ Excused(c)
                             \/ work["hotplug"].at = "start" /\ work["hotplug"].obj = captures[c]
    BY DEF SInv, CamerasInv
  <2>2. captures'[c] = captures[c]
    BY <1>4, Held
  <2>3. work["hotplug"].at = "start" => work'["hotplug"] = work["hotplug"]
    BY <1>1, <1>3, Held
  <2> QED
    BY <1>1, <2>1, <2>2, <2>3 DEF Excused
<1>9. SourcesInv'
  <2> SUFFICES ASSUME NEW s \in sources', ~Pending(avEvents, s)
               PROVE  SourceSettles(s)'
    BY <1>1 DEF SourcesInv
  <2>1. work'["av"] = work["av"] /\ work["av"].obj \in 0..made
    BY <1>3, Held DEF SInv, ObjectsInv
  <2>2. CASE s = uid
    <3>1. captures'[s] = made + 1 /\ work'["av"].obj # captures'[s]
      BY <1>4, <1>5, <2>1, <2>2
    <3>2. captures'[s] \notin live'
      BY <1>1, <1>5, <3>1 DEF SInv, ObjectsInv
    <3>3. Starting(captures[s])'
      BY <1>2, <1>3, <3>1 DEF Starting
    <3> QED
      BY <3>1, <3>2, <3>3 DEF SourceSettles
  <2>3. CASE s # uid
    <3>1. s \in sources /\ captures'[s] = captures[s]
      BY <1>1, <1>4, <2>3, Held
    <3>2. Starting(captures[s]) => Starting(captures[s])'
      BY <1>1, <1>3, <3>1 DEF Starting
    <3>3. Excused(s) => Excused(s)'
      BY <1>1, <3>1 DEF Excused
    <3> QED
      BY <1>1, <2>1, <3>1, <3>2, <3>3, SourcesStand DEF SInv
  <2> QED
    BY <2>2, <2>3
<1> QED
  BY <1>6, <1>7, <1>8, <1>9 DEF SInv

(* A source that is removed gives up its capture.                           *)
LEMMA RemoveSettles ==
  ASSUME IInv, SInv, NEW t \in Threads, t # "av", NEW id \in Webcams, remove_source(t, id)
  PROVE  SInv'
<1> DEFINE w == [at |-> "stop", id |-> id, obj |-> captures[id]]
<1>1. /\ work[t].at = "idle" /\ id \in sources
      /\ captures' = [captures EXCEPT ![id] = NoObject]
      /\ sources' = sources \ {id} /\ work' = [work EXCEPT ![t] = w]
      /\ UNCHANGED <<sessions, live, failed, pathless, made, hotEvents, avEvents, plugged>>
  BY DEF remove_source, At, Holds, env, capVars, starts
<1>2. w.at = "stop" /\ w.id = id /\ w.obj = captures[id]
  OBVIOUS
<1> HIDE DEF w
<1>3. work'[t] = w /\ \A u \in Threads : u # t => work'[u] = work[u]
  BY <1>1, Held
<1>4. id \in Ids /\ captures'[id] = NoObject
      /\ \A i \in Ids : i # id => captures'[i] = captures[i]
  BY <1>1, Held
<1>5. CableInv'
  BY <1>1 DEF SInv, CableInv
<1>6. ObjectsInv'
  <2>1. live' \subseteq 1..made
    BY <1>1 DEF SInv, ObjectsInv
  <2>2. \A i \in Ids : captures'[i] \in {captures[i], NoObject}
    BY <1>4
  <2>3. \A i \in Ids : captures'[i] = w.obj => captures'[i] = NoObject
    BY <1>2, <1>4, Held
  <2>4. w.obj \in 0..made' /\ w.at # "av stop"
    BY <1>1, <1>2, <1>4, Held
  <2>5. work' = [work EXCEPT ![t] = w] /\ ObjectsInv /\ made' \in Nat /\ made' >= made
    BY <1>1, Held DEF SInv
  <2>6. /\ \A i \in Ids : captures'[i] \in {captures[i], NoObject} \/ captures'[i] > made
        /\ \A i \in Ids : captures'[i] = w.obj /\ captures'[i] # NoObject =>
             w.id = i /\ w.at \notin {"stop", "forget source"}
    BY <2>2, <2>3
  <2> QED
    BY <2>1, <2>4, <2>5, <2>6, ObjectsMove
<1>7. CamerasInv'
  <2> SUFFICES ASSUME NEW c \in Cams, ~Pending(hotEvents, c)
               PROVE  /\ c \in sessions <=> c \in plugged
                      /\ c \in sessions => \/ captures'[c] \in live \/ Excused(c)'
                                           \/ /\ work'["hotplug"].at = "start"
                                              /\ work'["hotplug"].obj = captures'[c]
    BY <1>1 DEF CamerasInv
  <2>1. /\ c \in sessions <=> c \in plugged
        /\ c \in sessions => \/ captures[c] \in live \/ Excused(c)
                             \/ work["hotplug"].at = "start" /\ work["hotplug"].obj = captures[c]
    BY DEF SInv, CamerasInv
  <2>2. captures'[c] = captures[c]
    BY <1>4, Held
  <2>3. work["hotplug"].at = "start" => work'["hotplug"] = work["hotplug"]
    BY <1>1, <1>3, Held
  <2> QED
    BY <1>1, <2>1, <2>2, <2>3 DEF Excused
<1>8. SourcesInv'
  <2> SUFFICES ASSUME NEW s \in sources', ~Pending(avEvents, s)
               PROVE  SourceSettles(s)'
    BY <1>1 DEF SourcesInv
  <2>1. s \in sources /\ s # id /\ captures'[s] = captures[s]
    BY <1>1, <1>4, Held
  <2>2. Starting(captures[s]) => Starting(captures[s])'
    BY <1>1, <1>3, <2>1 DEF Starting
  <2>3. work'["av"] = work["av"]
    BY <1>3, Held
  <2>4. Excused(s) => Excused(s)'
    BY <1>1, <2>1 DEF Excused
  <2> QED
    BY <1>1, <2>1, <2>2, <2>3, <2>4, SourcesStand DEF SInv
<1> QED
  BY <1>5, <1>6, <1>7, <1>8 DEF SInv

(* Steps that touch neither the cables nor a device's capture.              *)
LEMMA OtherSettles ==
  ASSUME IInv, SInv, NEW t \in Threads, t # "av",
         \/ t = "hotplug" /\ SessionJoined
         \/ StoreSource(t) \/ StopRemoved(t) \/ ForgetSource(t) \/ StoreActive(t)
         \/ \E sn \in Ids : set_active(t, sn)
  PROVE  SInv'
<1>1. 0 \in 0..made /\ \A i \in Ids : captures[i] = NoObject => ~(captures[i] # NoObject)
  BY Held
<1>2. /\ work[t].obj \in 0..made
      /\ \A i \in Ids : captures[i] = work[t].obj /\ captures[i] # NoObject =>
           work[t].id = i /\ work[t].at \notin {"stop", "forget source"}
  BY DEF SInv, ObjectsInv
<1>9. UNCHANGED <<live, failed>> => live' \subseteq live /\ KeepsCaptures
  BY DEF KeepsCaptures
<1>3. Sound(t, Idle)
  BY <1>1 DEF Sound, Idle, NoObject
<1>4. CASE (t = "hotplug" /\ SessionJoined) \/ ForgetSource(t) \/ StoreActive(t)
  <2>1. /\ work' = [work EXCEPT ![t] = Idle] /\ UNCHANGED <<live, failed>>
        /\ work[t].at \in {"join", "forget source", "store active"}
        /\ UNCHANGED <<sessions, captures, sources, made, pathless, hotEvents, avEvents, plugged>>
    BY <1>4 DEF SessionJoined, ForgetSource, StoreActive, At, Ends, roster, env, capVars, starts
  <2> QED
    BY <1>3, <1>9, <2>1, ThreadGoesOn
<1>5. CASE StoreSource(t)
  <2> DEFINE w == [work[t] EXCEPT !.at = "start"]
  <2>1. /\ work' = [work EXCEPT ![t] = w] /\ UNCHANGED <<live, failed>> /\ work[t].at = "store source"
        /\ UNCHANGED <<sessions, captures, sources, made, pathless, hotEvents, avEvents, plugged>>
    BY <1>5 DEF StoreSource, At, Goes, roster, env, capVars, starts
  <2>2. w.at = "start" /\ w.obj = work[t].obj /\ w.id = work[t].id
    BY DEF IInv, WorkInv
  <2> HIDE DEF w
  <2>3. Sound(t, w)
    BY <1>2, <2>2 DEF Sound
  <2> QED
    BY <1>9, <2>1, <2>2, <2>3, ThreadGoesOn
<1>6. CASE StopRemoved(t)
  <2> DEFINE w == [work[t] EXCEPT !.at = "forget source"]
  <2>1. /\ work' = [work EXCEPT ![t] = w] /\ StopCapture(work[t].obj)
        /\ work[t].at = "stop"
        /\ UNCHANGED <<sessions, captures, sources, made, pathless, hotEvents, avEvents, plugged>>
    BY <1>6 DEF StopRemoved, At, Goes, roster, env
  <2>2. w.at = "forget source" /\ w.obj = work[t].obj /\ w.id = work[t].id
    BY DEF IInv, WorkInv
  <2> HIDE DEF w
  <2>3. \A i \in Ids : captures[i] # NoObject => captures[i] # work[t].obj
    BY <1>2, <2>1
  <2>4. Sound(t, w)
    BY <1>2, <2>2, <2>3 DEF Sound
  <2>5. live' \subseteq live /\ KeepsCaptures
    BY <2>1, <2>3 DEF StopCapture, KeepsCaptures
  <2>6. /\ work' = [work EXCEPT ![t] = w] /\ work[t].at = "stop" /\ pathless' = pathless
        /\ UNCHANGED <<sessions, captures, sources, made, hotEvents, avEvents, plugged>>
    BY <2>1
  <2>7. work[t].at # "start" /\ work[t].at # "store source"
    BY <2>6
  <2> QED
    BY <2>4, <2>5, <2>6, <2>7, ThreadGoesOn
<1>7. ASSUME NEW sn \in Ids, set_active(t, sn)
      PROVE  SInv'
  <2> DEFINE w == [at |-> "store active", id |-> sn, obj |-> NoObject]
  <2>1. /\ work' = [work EXCEPT ![t] = w] /\ UNCHANGED <<live, failed>> /\ work[t].at = "idle"
        /\ UNCHANGED <<sessions, captures, sources, made, pathless, hotEvents, avEvents, plugged>>
    BY <1>7 DEF set_active, At, Holds, env, capVars, starts
  <2>2. w.at = "store active" /\ w.obj = NoObject
    OBVIOUS
  <2> HIDE DEF w
  <2>3. Sound(t, w)
    BY <1>1, <2>2 DEF Sound, NoObject
  <2> QED
    BY <1>9, <2>1, <2>3, ThreadGoesOn
<1> QED
  BY <1>4, <1>5, <1>6, <1>7

LEMMA InitSInv == Init => SInv
BY BootSettles DEF Init, JustBooted

LEMMA RestartSettles == JustBooted' => SInv'
BY BootSettles, PTL

LEMMA NextSInv == IInv /\ SInv /\ [Next]_vars => SInv'
<1> SUFFICES ASSUME IInv, SInv, [Next]_vars PROVE SInv'
  OBVIOUS
<1>1. "hotplug" \in Threads /\ "hotplug" # "av" /\ "boot" \in Threads /\ "boot" # "av"
      /\ \A t \in Callers : t \in Threads /\ t # "av"
  BY DeviceAssumption DEF Threads
<1>2. UNCHANGED <<sessions, captures, sources, live, failed, pathless, made, work, hotEvents,
                avEvents, plugged>> => SInv'
  <2> SUFFICES ASSUME UNCHANGED <<sessions, captures, sources, live, failed, pathless,
                                  made, work, hotEvents, avEvents, plugged>>
               PROVE  SInv'
    OBVIOUS
  <2>1. CableInv'
    BY DEF SInv, CableInv
  <2>2. ObjectsInv'
    BY DEF SInv, ObjectsInv
  <2>3. CamerasInv'
    BY DEF SInv, CamerasInv, Excused
  <2>4. SourcesInv'
    BY DEF SInv, SourcesInv, SourceSettles, Starting, Excused
  <2> QED
    BY <2>1, <2>2, <2>3, <2>4 DEF SInv
<1>3. CASE AttachIgnored \/ DetachIgnored \/ attach \/ detach
  BY <1>3, IgnoredSettles, AttachSettles, DetachSettles
<1>4. CASE SessionJoined
  BY <1>1, <1>4, OtherSettles
<1>5. CASE Restore
  <2>1. restoring \subseteq Webcams
    BY DEF IInv, DeviceTypeOK
  <2>2. PICK uid \in restoring :
          \/ add_source("boot", uid)
          \/ UNCHANGED <<roster, work, capVars, files, env>>
    BY <1>5 DEF Restore
  <2>3. CASE add_source("boot", uid)
    BY <1>1, <2>1, <2>3, AddSettles
  <2>4. CASE UNCHANGED <<roster, work, capVars, files, env>>
    BY <1>2, <2>4 DEF roster, capVars, starts, env
  <2> QED
    BY <2>2, <2>3, <2>4
<1>6. CASE AvResolves \/ AvStops
  BY <1>6, ObserverSettles, StopSettles
<1>7. CASE \/ \E t \in Threads : StartCapture(t)
           \/ \E t \in Callers \cup {"boot"} : StoreSource(t)
  <2>1. \A t \in Callers \cup {"boot"} : t \in Threads /\ t # "av"
    BY <1>1
  <2>2. ASSUME NEW t \in Callers \cup {"boot"}, StoreSource(t)
        PROVE  SInv'
    BY <2>1, <2>2, OtherSettles
  <2> QED
    BY <1>7, <2>2, StartSettles
<1>8. ASSUME NEW t \in Callers, Command(t) \/ StopRemoved(t) \/ ForgetSource(t) \/ StoreActive(t)
      PROVE  SInv'
  <2>1. CASE StopRemoved(t) \/ ForgetSource(t) \/ StoreActive(t)
    BY <1>1, <2>1, OtherSettles
  <2>2. ASSUME NEW uid \in Webcams, add_source(t, uid)
        PROVE  SInv'
    BY <1>1, <2>2, AddSettles
  <2>3. ASSUME NEW uid \in Webcams, remove_source(t, uid)
        PROVE  SInv'
    BY <1>1, <2>3, RemoveSettles
  <2>4. ASSUME NEW sn \in Ids, set_active(t, sn)
        PROVE  SInv'
    BY <1>1, <2>4, OtherSettles
  <2> QED
    BY <1>8, <2>1, <2>2, <2>3, <2>4 DEF Command
<1>9. ASSUME NEW id \in Ids, Replug(id)
      PROVE  SInv'
  BY <1>9, CableSettles
<1>10. CASE Restart
  <2>1. JustBooted'
    BY <1>10 DEF Restart, Booted, JustBooted
  <2> QED
    BY <2>1, RestartSettles
<1>11. CASE UNCHANGED vars
  BY <1>2, <1>11 DEF vars, roster, capVars, starts, env
<1> QED
  BY <1>3, <1>4, <1>5, <1>6, <1>7, <1>8, <1>9, <1>10, <1>11 DEF Next

LEMMA SettledInv == Spec => [](IInv /\ SInv)
BY InitIInv, NextIInv, InitSInv, NextSInv, PTL DEF Spec

(* Once every event and command is over, the attached cameras are the       *)
(* connected ones, nothing listed streams without its device, and what is   *)
(* listed and connected streams unless it has no video path or AVFoundation *)
(* failed its start: no interleaving of cables, the observer, commands and  *)
(* the restored sources loses a start or a stop.                            *)
THEOREM SettledIsTrue == Spec => []SettledTruth
<1>1. ASSUME IInv, SInv
      PROVE  SettledTruth
  <2> SUFFICES ASSUME Settled
               PROVE  /\ sessions = plugged \cap Cams
                      /\ \A i \in Listed : captures[i] \in live => i \in plugged
                      /\ \A i \in Listed \cap plugged : captures[i] \in live \/ Excused(i)
    BY DEF SettledTruth, Excused
  <2>1. \A id : ~Pending(hotEvents, id) /\ ~Pending(avEvents, id)
    <3>1. Len(hotEvents) = 0 /\ Len(avEvents) = 0
      BY DEF Settled
    <3>2. 1..0 = {}
      OBVIOUS
    <3> QED
      BY <3>1, <3>2, Zenon DEF Pending
  <2>2. \A t \in Threads : work[t].at = "idle" /\ work[t].obj = NoObject
    <3>1. Idle.at = "idle" /\ Idle.obj = NoObject
      BY DEF Idle
    <3> QED
      BY <3>1, Zenon DEF Settled
  <2>3. "hotplug" \in Threads /\ "av" \in Threads
    BY DEF Threads
  <2>4. \A c \in Cams : /\ c \in sessions <=> c \in plugged
                       /\ (c \in sessions => captures[c] \in live \/ Excused(c))
    <3>1. work["hotplug"].at # "start"
      BY <2>2, <2>3
    <3> QED
      BY <1>1, <2>1, <3>1, Zenon DEF SInv, CamerasInv
  <2>5. sessions \subseteq Cams
    BY <1>1 DEF IInv, DeviceTypeOK
  <2>6. /\ Listed = sessions \cup sources /\ sources \subseteq Webcams
        /\ \A s \in sources : captures[s] # NoObject
    BY <1>1, Held DEF IInv, OrderInv
  <2>7. ASSUME NEW s \in sources
        PROVE  /\ captures[s] \in live => s \in plugged
               /\ s \in plugged => captures[s] \in live \/ Excused(s)
    <3>1. SourceSettles(s)
      BY <1>1, <2>1, <2>7, Zenon DEF SInv, SourcesInv
    <3>2. work["av"].obj # captures[s]
      BY <2>2, <2>3, <2>6, <2>7, Zenon
    <3>3. ~Starting(captures[s])
      BY <2>2, Zenon DEF Starting
    <3> QED
      BY <3>1, <3>2, <3>3 DEF SourceSettles
  <2> QED
    BY <2>4, <2>5, <2>6, <2>7
<1> QED
  BY <1>1, SettledInv, PTL
=============================================================================
