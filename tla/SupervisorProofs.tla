--------------------------- MODULE SupervisorProofs ---------------------------
(***************************************************************************)
(* The supervisor, for every number of calls, bridges, clicks, crashes and  *)
(* launches.                                                                *)
(***************************************************************************)
EXTENDS Supervisor, TLAPS

(* While the app is gone nothing of it is left but its bridges.             *)
AwayInv ==
  ~app => /\ Own = {} /\ status = "stopped" /\ proc = None /\ ~overtaken /\ ~userStopped
          /\ \A t \in Tasks : task[t].at = "idle"

Starts(t) == task[t].at \in Spawning

(* As long as no stop met a start: one start is under way exactly while the *)
(* app says so, and what it says of the bridge is so.                       *)
PhaseInv ==
  ~overtaken =>
    /\ status = "starting" <=> \E t \in Tasks : Starts(t)
    /\ \A t, u \in Tasks : Starts(t) /\ Starts(u) => t = u
    /\ status # "running" => proc = None
    /\ status \in {"stopped", "error"} => Own = {}
    /\ status = "running" => proc \in Bridges /\ Own = {proc}
    /\ status = "starting" =>
         /\ ~userStopped
         /\ (\A t \in Tasks : task[t].at # "spawned") => Own = {}

(* A bridge that was spawned is known to its start until it is registered.  *)
SpawnedInv ==
  \A t \in Tasks : task[t].at = "spawned" =>
    \E p \in Bridges : task[t].about = {p} /\ (~overtaken => Own = {p})

OrphansInv == orphans \subseteq {p \in Bridges : Alive(p)}

IInv ==
  /\ app \in BOOLEAN /\ overtaken \in BOOLEAN /\ userStopped \in BOOLEAN
  /\ SupervisorTypeOK /\ AwayInv /\ PhaseInv /\ SpawnedInv /\ OrphansInv

LEMMA Sorts ==
  /\ Calls \subseteq Tasks /\ Bridges \subseteq Tasks /\ None \notin Bridges
  /\ Idle = [at |-> "idle", about |-> {}, then |-> "idle"]
BY SupervisorAssumption DEF Tasks, Bridges, None, Idle

LEMMA InitIInv == Init => IInv
<1> SUFFICES ASSUME Init PROVE IInv
  OBVIOUS
<1>1. PICK c \in Calls :
        task = [u \in Tasks |-> IF u = c THEN [Idle EXCEPT !.at = "pause"] ELSE Idle]
  BY DEF Init
<1>2. \A u \in Tasks : task[u] \in {Idle, [Idle EXCEPT !.at = "pause"]}
  BY <1>1
<1>3. \A u \in Tasks : task[u].at \in {"idle", "pause"}
  BY <1>2 DEF Idle
<1>4. Own = {} /\ ~overtaken /\ app /\ ~userStopped
  BY DEF Init, Own
<1>5. SupervisorTypeOK
  <2>1. task \in [Tasks -> TaskStates]
    BY <1>1 DEF Idle, TaskStates
  <2> QED
    BY <2>1, SupervisorAssumption DEF Init, SupervisorTypeOK
<1>6. PhaseInv /\ SpawnedInv /\ AwayInv /\ OrphansInv
  BY <1>3, <1>4 DEF Init, PhaseInv, SpawnedInv, AwayInv, OrphansInv, Starts, Spawning
<1> QED
  BY <1>4, <1>5, <1>6 DEF IInv, Init

-----------------------------------------------------------------------------
(* A task moves.                                                            *)
LEMMA Moves ==
  ASSUME IInv, NEW t \in Tasks, NEW w \in TaskStates, task' = [task EXCEPT ![t] = w]
  PROVE  /\ task'[t] = w
         /\ \A u \in Tasks : u # t => task'[u] = task[u]
         /\ task' \in [Tasks -> TaskStates]
BY DEF IInv, SupervisorTypeOK

LEMMA States ==
  /\ Idle \in TaskStates /\ Idle.at = "idle"
  /\ \A at \in Spawning \cup {"idle", "pause", "quit", "backoff", "term", "killed"},
        about \in SUBSET Bridges, then \in {"idle", "pause", "quit"} :
        LET w == [at |-> at, about |-> about, then |-> then]
        IN  w \in TaskStates /\ w.at = at /\ w.about = about /\ w.then = then
  /\ {"lsof", "kill", "spawn", "spawned"} = Spawning
  /\ {"idle", "pause", "quit", "backoff", "term", "killed"} \cap Spawning = {}
BY DEF Idle, TaskStates, Spawning

(* What the app knows stays as it is.                                       *)
LEMMA Unmoved ==
  ASSUME IInv, UNCHANGED <<app, status, proc, userStopped, autoRestarts, task, overtaken>>,
         offered' \subseteq Buttons, Own' = Own, OrphansInv',
         bridge' \in [Bridges -> {"none", "up", "serving", "exited", "failed"}],
         signal' \in [Bridges -> {"none", "term", "kill"}]
  PROVE  IInv'
<1>1. SupervisorTypeOK' /\ app' \in BOOLEAN /\ overtaken' \in BOOLEAN /\ userStopped' \in BOOLEAN
  BY DEF IInv, SupervisorTypeOK, OrphansInv
<1>2. AwayInv'
  BY DEF IInv, AwayInv
<1>3. PhaseInv'
  BY DEF IInv, PhaseInv, Starts
<1>4. SpawnedInv'
  BY DEF IInv, SpawnedInv
<1> QED
  BY <1>1, <1>2, <1>3, <1>4 DEF IInv

(* A task that starts nothing moves on to something that starts nothing.    *)
LEMMA NoStarter ==
  ASSUME IInv, app, NEW t \in Tasks, ~Starts(t),
         NEW w \in TaskStates, w.at \notin Spawning, task' = [task EXCEPT ![t] = w],
         UNCHANGED <<app, status, proc, bridge, orphans>>,
         userStopped' \in BOOLEAN, overtaken' \in BOOLEAN, overtaken => overtaken',
         ~overtaken' /\ status = "starting" => ~userStopped',
         offered' \subseteq Buttons, autoRestarts' \in 0..MaxRestarts,
         signal' \in [Bridges -> {"none", "term", "kill"}]
  PROVE  IInv'
<1>1. /\ task'[t] = w /\ \A u \in Tasks : u # t => task'[u] = task[u]
      /\ task' \in [Tasks -> TaskStates]
  BY Moves
<1>2. Own' = Own /\ \A p \in Bridges : Alive(p)' <=> Alive(p)
  BY DEF Own, Alive
<1>3. SupervisorTypeOK' /\ OrphansInv' /\ AwayInv'
  BY <1>1, <1>2 DEF IInv, SupervisorTypeOK, OrphansInv, AwayInv
<1>4. \A u \in Tasks : /\ Starts(u)' <=> Starts(u)
                       /\ task'[u].at = "spawned" <=> task[u].at = "spawned"
                       /\ Starts(u) => task'[u] = task[u]
  BY <1>1, States DEF Starts
<1>5. PhaseInv'
  BY <1>2, <1>4 DEF IInv, PhaseInv
<1>6. SpawnedInv'
  <2> SUFFICES ASSUME NEW u \in Tasks, task'[u].at = "spawned"
               PROVE  \E p \in Bridges : task'[u].about = {p} /\ (~overtaken' => Own' = {p})
    BY DEF SpawnedInv
  <2>1. task[u].at = "spawned" /\ task'[u] = task[u]
    BY <1>4, States DEF Starts
  <2> QED
    BY <1>2, <2>1 DEF IInv, SpawnedInv
<1> QED
  BY <1>3, <1>5, <1>6 DEF IInv

(* A start goes on, or begins.                                              *)
LEMMA Starter ==
  ASSUME IInv, app, NEW t \in Tasks, task[t].at # "spawned",
         NEW w \in TaskStates, w.at \in {"lsof", "kill", "spawn"},
         task' = [task EXCEPT ![t] = w],
         UNCHANGED <<app, proc, autoRestarts, offered, overtaken, bridge, orphans>>,
         signal' \in [Bridges -> {"none", "term", "kill"}],
         \/ Starts(t) /\ UNCHANGED <<status, userStopped>>
         \/ status \in {"stopped", "error"} /\ status' = "starting" /\ userStopped' = FALSE
  PROVE  IInv'
<1>1. /\ task'[t] = w /\ \A u \in Tasks : u # t => task'[u] = task[u]
      /\ task' \in [Tasks -> TaskStates]
  BY Moves
<1>2. Own' = Own /\ \A p \in Bridges : Alive(p)' <=> Alive(p)
  BY DEF Own, Alive
<1>3. SupervisorTypeOK' /\ OrphansInv' /\ AwayInv' /\ userStopped' \in BOOLEAN
  BY <1>1, <1>2 DEF IInv, SupervisorTypeOK, OrphansInv, AwayInv
<1>4. Starts(t)' /\ \A u \in Tasks : u # t => (Starts(u)' <=> Starts(u))
  BY <1>1, States DEF Starts
<1>5. \A u \in Tasks : /\ task'[u].at = "spawned" <=> task[u].at = "spawned"
                       /\ task'[u].at = "spawned" => task'[u] = task[u]
  BY <1>1
<1>6. ASSUME ~overtaken
      PROVE  status' = "starting" /\ \A u \in Tasks : Starts(u)' => u = t
  BY <1>4, <1>6 DEF IInv, PhaseInv
<1>7. PhaseInv'
  <2> SUFFICES ASSUME ~overtaken
               PROVE  PhaseInv'
    BY DEF PhaseInv
  <2>1. proc = None /\ ~userStopped' /\ ((\A u \in Tasks : task[u].at # "spawned") => Own = {})
    BY <1>6 DEF IInv, PhaseInv
  <2> QED
    BY <1>2, <1>4, <1>5, <1>6, <2>1 DEF PhaseInv
<1>8. SpawnedInv'
  BY <1>2, <1>5 DEF IInv, SpawnedInv
<1> QED
  BY <1>3, <1>7, <1>8 DEF IInv

(* start() up to its first await.                                           *)
LEMMA Begins ==
  ASSUME IInv, app, NEW t \in Tasks, ~Starts(t), start(t),
         UNCHANGED <<app, proc, autoRestarts, offered, overtaken, bridge, orphans, signal>>
  PROVE  IInv'
<1> DEFINE w == [at |-> "lsof", about |-> {}, then |-> "idle"]
<1>1. signal \in [Bridges -> {"none", "term", "kill"}] /\ offered \subseteq Buttons
      /\ autoRestarts \in 0..MaxRestarts /\ status \in {"stopped", "starting", "running", "error"}
      /\ overtaken \in BOOLEAN /\ userStopped \in BOOLEAN
      /\ (~overtaken /\ status = "starting" => ~userStopped)
  BY DEF IInv, SupervisorTypeOK, PhaseInv
<1>2. w \in TaskStates /\ w.at = "lsof"
  BY States
<1>3. task[t].at # "spawned"
  BY States DEF Starts
<1>4. CASE MayStart
  <2>1. task' = [task EXCEPT ![t] = w] /\ status' = "starting" /\ userStopped' = FALSE
    BY <1>4 DEF start, Awaits
  <2>2. status \in {"stopped", "error"}
    BY <1>1, <1>4 DEF MayStart
  <2> HIDE DEF w
  <2> QED
    BY <1>1, <1>2, <1>3, <2>1, <2>2, Starter
<1>5. CASE ~MayStart
  <2>1. task' = [task EXCEPT ![t] = Idle] /\ UNCHANGED <<status, userStopped>>
    BY <1>5 DEF start, Ends
  <2> QED
    BY <1>1, <2>1, States, NoStarter
<1> QED
  BY <1>4, <1>5

(* stop() up to its first await, or to its end.                             *)
LEMMA Stops ==
  ASSUME IInv, app, NEW t \in Tasks, task[t].at = "idle",
         NEW then \in {"idle", "pause", "quit"}, stop(t, then), offered' \subseteq Buttons,
         UNCHANGED <<app, proc, bridge, orphans>>
  PROVE  IInv'
<1>1. ~Starts(t)
  BY States DEF Starts
<1>2. /\ overtaken' = (overtaken \/ status = "starting") /\ overtaken \in BOOLEAN
      /\ userStopped' = TRUE /\ autoRestarts' = 0 /\ 0 \in 0..MaxRestarts
      /\ signal \in [Bridges -> {"none", "term", "kill"}] /\ proc \in Bridges \cup {None}
      /\ task \in [Tasks -> TaskStates]
  BY SupervisorAssumption DEF stop, IInv, SupervisorTypeOK
<1>3. signal' \in [Bridges -> {"none", "term", "kill"}]
  BY <1>2 DEF stop
<1>4. CASE proc # None
  <2> DEFINE w == [at |-> "term", about |-> {proc}, then |-> then]
  <2>1. w \in TaskStates /\ w.at = "term" /\ w.at \notin Spawning
    <3>1. {proc} \in SUBSET Bridges
      BY <1>2, <1>4
    <3> QED
      BY <3>1 DEF TaskStates, Spawning
  <2>2. task' = [task EXCEPT ![t] = w] /\ status' = status
    BY <1>4 DEF stop
  <2> HIDE DEF w
  <2> QED
    BY <1>1, <1>2, <1>3, <2>1, <2>2, NoStarter
<1>5. CASE proc = None
  <2> DEFINE w == [at |-> then, about |-> {}, then |-> "idle"]
  <2>1. w \in TaskStates /\ w.at = then /\ w.at \notin Spawning
    BY States
  <2>2. task' = [task EXCEPT ![t] = w] /\ status' = "stopped"
    BY <1>5 DEF stop
  <2> HIDE DEF w
  <2>3. /\ task'[t] = w /\ \A u \in Tasks : u # t => task'[u] = task[u]
        /\ task' \in [Tasks -> TaskStates]
    BY <2>1, <2>2, Moves
  <2>4. Own' = Own /\ \A p \in Bridges : Alive(p)' <=> Alive(p)
    BY DEF Own, Alive
  <2>5. SupervisorTypeOK' /\ OrphansInv' /\ AwayInv'
    BY <1>2, <1>3, <2>2, <2>3, <2>4 DEF IInv, SupervisorTypeOK, OrphansInv, AwayInv
  <2>6. \A u \in Tasks : /\ Starts(u)' <=> Starts(u)
                         /\ task'[u].at = "spawned" => task'[u] = task[u]
    BY <1>1, <2>1, <2>3, States DEF Starts
  <2>7. PhaseInv'
    <3> SUFFICES ASSUME ~overtaken'
                 PROVE  PhaseInv'
      BY DEF PhaseInv
    <3>1. ~overtaken /\ status # "starting" /\ status \in {"stopped", "starting", "running", "error"}
      BY <1>2 DEF IInv, SupervisorTypeOK
    <3>2. status # "running"
      BY <1>5, <3>1, Sorts DEF IInv, PhaseInv
    <3>3. Own = {} /\ \A u \in Tasks : ~Starts(u)
      BY <3>1, <3>2 DEF IInv, PhaseInv
    <3> QED
      BY <1>5, <2>2, <2>4, <2>6, <3>3 DEF PhaseInv
  <2>8. SpawnedInv'
    BY <1>2, <2>4, <2>6 DEF IInv, SpawnedInv
  <2> QED
    BY <1>2, <2>5, <2>7, <2>8 DEF IInv
<1> QED
  BY <1>4, <1>5

-----------------------------------------------------------------------------
(* The steps of a task.                                                     *)
LEMMA LsofKeeps ==
  ASSUME IInv, NEW t \in Tasks, Lsof(t) \/ KillHolders(t)
  PROVE  IInv'
<1>1. /\ app /\ Starts(t) /\ task[t].at # "spawned"
      /\ UNCHANGED <<app, status, proc, userStopped, autoRestarts, offered, overtaken, bridge,
                     orphans>>
  BY DEF Lsof, KillHolders, At, Starts, Spawning, supervisorVars, processVars, history
<1>2. signal' \in [Bridges -> {"none", "term", "kill"}]
  BY DEF Lsof, KillHolders, processVars, IInv, SupervisorTypeOK
<1>3. CASE Lsof(t)
  <2>1. PICK found \in SUBSET Bridges : Awaits(t, "kill", found)
    BY <1>3 DEF Lsof
  <2> DEFINE w == [at |-> "kill", about |-> found, then |-> "idle"]
  <2>2. w \in TaskStates /\ w.at = "kill" /\ task' = [task EXCEPT ![t] = w]
    BY <2>1 DEF Awaits, TaskStates, Spawning
  <2> HIDE DEF w
  <2> QED
    BY <1>1, <1>2, <2>2, Starter
<1>4. CASE KillHolders(t)
  <2> DEFINE w == [at |-> "spawn", about |-> {}, then |-> "idle"]
  <2>1. w \in TaskStates /\ w.at = "spawn" /\ task' = [task EXCEPT ![t] = w]
    BY <1>4 DEF KillHolders, Awaits, TaskStates, Spawning
  <2> HIDE DEF w
  <2> QED
    BY <1>1, <1>2, <2>1, Starter
<1> QED
  BY <1>3, <1>4

LEMMA SpawnKeeps ==
  ASSUME IInv, NEW t \in Tasks, Spawn(t)
  PROVE  IInv'
<1>1. PICK p \in Free(t) : /\ bridge' = [bridge EXCEPT ![p] = "up"]
                        /\ Awaits(t, "spawned", {p})
  BY DEF Spawn
<1>2. p \in Bridges /\ bridge[p] = "none"
  BY <1>1 DEF Free
<1> DEFINE w == [at |-> "spawned", about |-> {p}, then |-> "idle"]
<1>3. w \in TaskStates /\ w.at = "spawned" /\ w.about = {p} /\ task' = [task EXCEPT ![t] = w]
  BY <1>1, <1>2 DEF Awaits, TaskStates, Spawning
<1> HIDE DEF w
<1>4. /\ app /\ task[t].at = "spawn"
      /\ UNCHANGED <<app, status, proc, userStopped, autoRestarts, offered, overtaken, signal, orphans>>
  BY DEF Spawn, At, supervisorVars, history
<1>5. /\ task'[t] = w /\ \A u \in Tasks : u # t => task'[u] = task[u]
      /\ task' \in [Tasks -> TaskStates]
  BY <1>3, Moves
<1>6. /\ bridge' \in [Bridges -> {"none", "up", "serving", "exited", "failed"}]
      /\ bridge'[p] = "up" /\ \A q \in Bridges : q # p => bridge'[q] = bridge[q]
  BY <1>1, <1>2 DEF IInv, SupervisorTypeOK
<1>7. p \notin orphans
  BY <1>2 DEF IInv, OrphansInv, Alive
<1>8. Own' = Own \cup {p} /\ OrphansInv'
  BY <1>2, <1>4, <1>6, <1>7 DEF Own, IInv, OrphansInv, Alive
<1>9. SupervisorTypeOK' /\ AwayInv'
  BY <1>4, <1>5, <1>6, <1>8 DEF IInv, SupervisorTypeOK, OrphansInv, AwayInv
<1>10. \A u \in Tasks : Starts(u)' <=> Starts(u)
  BY <1>3, <1>4, <1>5, States DEF Starts
<1>11. ASSUME ~overtaken
       PROVE  status = "starting" /\ Own = {} /\ \A u \in Tasks : Starts(u) => u = t
  <2>1. Starts(t)
    BY <1>4, States DEF Starts
  <2>2. status = "starting" /\ \A u \in Tasks : Starts(u) => u = t
    BY <1>11, <2>1 DEF IInv, PhaseInv
  <2>3. \A u \in Tasks : task[u].at # "spawned"
    BY <1>4, <2>2, States DEF Starts
  <2> QED
    BY <1>11, <2>2, <2>3 DEF IInv, PhaseInv
<1>12. PhaseInv'
  <2> SUFFICES ASSUME ~overtaken
               PROVE  PhaseInv'
    BY <1>4 DEF PhaseInv
  <2>1. proc = None /\ ~userStopped
    BY <1>11 DEF IInv, PhaseInv
  <2>2. Starts(t) /\ task'[t].at = "spawned"
    BY <1>3, <1>4, <1>5, States DEF Starts
  <2> QED
    BY <1>4, <1>10, <1>11, <2>1, <2>2 DEF PhaseInv
<1>13. SpawnedInv'
  <2> SUFFICES ASSUME NEW u \in Tasks, task'[u].at = "spawned"
               PROVE  \E q \in Bridges : task'[u].about = {q} /\ (~overtaken => Own' = {q})
    BY <1>4 DEF SpawnedInv
  <2>1. CASE u = t
    BY <1>2, <1>3, <1>5, <1>8, <1>11, <2>1
  <2>2. CASE u # t
    <3>1. task[u].at = "spawned" /\ task'[u] = task[u]
      BY <1>5, <2>2
    <3>2. Starts(u)
      BY <3>1, States DEF Starts
    <3>3. overtaken
      BY <1>11, <2>2, <3>2 DEF IInv
    <3> QED
      BY <3>1, <3>3 DEF IInv, SpawnedInv
  <2> QED
    BY <2>1, <2>2
<1> QED
  BY <1>4, <1>8, <1>9, <1>12, <1>13 DEF IInv

(* A start ends: with a bridge that is registered, or without one.          *)
LEMMA StartEnds ==
  ASSUME IInv, NEW t \in Tasks, Spawned(t) \/ SpawnFails(t)
  PROVE  IInv'
<1>1. /\ app /\ task[t].at \in {"spawned", "spawn"} /\ task' = [task EXCEPT ![t] = Idle]
      /\ UNCHANGED <<app, userStopped, autoRestarts, offered, overtaken, bridge, signal, orphans>>
  BY DEF Spawned, SpawnFails, At, Ends, processVars, history
<1>2. Starts(t)
  BY <1>1, States DEF Starts
<1>3. /\ task'[t] = Idle /\ \A u \in Tasks : u # t => task'[u] = task[u]
      /\ task' \in [Tasks -> TaskStates]
  BY <1>1, States, Moves
<1>4. Own' = Own /\ OrphansInv'
  BY <1>1 DEF Own, Alive, IInv, OrphansInv
<1>5. ~Starts(t)' /\ \A u \in Tasks : u # t => (Starts(u)' <=> Starts(u))
  BY <1>3, States DEF Starts
<1>6. /\ status' \in {"running", "error"} /\ proc' \in Bridges \cup {None}
      /\ status' = "running" => task[t].at = "spawned" /\ proc' \in task[t].about
      /\ status' = "error" => task[t].at = "spawn" /\ proc' = proc
  <2>1. task[t].about \subseteq Bridges /\ proc \in Bridges \cup {None}
    BY DEF IInv, SupervisorTypeOK, TaskStates
  <2> QED
    BY <2>1 DEF Spawned, SpawnFails, At
<1>7. SupervisorTypeOK' /\ AwayInv'
  BY <1>1, <1>3, <1>4, <1>6 DEF IInv, SupervisorTypeOK, OrphansInv, AwayInv
<1>8. ASSUME ~overtaken
      PROVE  proc = None /\ \A u \in Tasks : Starts(u) => u = t
  BY <1>2, <1>8 DEF IInv, PhaseInv
<1>9. ASSUME ~overtaken, task[t].at = "spawned", proc' \in task[t].about
      PROVE  proc' \in Bridges /\ Own = {proc'}
  BY <1>9 DEF IInv, SpawnedInv
<1>10. ASSUME ~overtaken, task[t].at = "spawn"
       PROVE  Own = {}
  <2>1. \A u \in Tasks : task[u].at # "spawned"
    BY <1>8, <1>10, States DEF Starts
  <2> QED
    BY <1>2, <1>10, <2>1 DEF IInv, PhaseInv
<1>11. PhaseInv'
  <2> SUFFICES ASSUME ~overtaken
               PROVE  PhaseInv'
    BY <1>1 DEF PhaseInv
  <2>1. \A u \in Tasks : ~Starts(u)'
    BY <1>5, <1>8
  <2> QED
    BY <1>4, <1>6, <1>8, <1>9, <1>10, <2>1 DEF PhaseInv
<1>12. SpawnedInv'
  BY <1>1, <1>3, <1>4, States DEF IInv, SpawnedInv
<1> QED
  BY <1>1, <1>4, <1>7, <1>11, <1>12 DEF IInv

(* A stop goes on.                                                          *)
LEMMA StopGoesOn ==
  ASSUME IInv, NEW t \in Tasks, StopAnswered(t) \/ TermTimeout(t) \/ KillTimeout(t)
  PROVE  IInv'
<1>1. /\ app /\ task[t].at \in {"term", "killed"}
      /\ UNCHANGED <<app, status, proc, userStopped, autoRestarts, offered, overtaken, bridge, orphans>>
  BY DEF StopAnswered, TermTimeout, KillTimeout, At, supervisorVars, processVars, history
<1>2. /\ signal \in [Bridges -> {"none", "term", "kill"}] /\ autoRestarts \in 0..MaxRestarts
      /\ offered \subseteq Buttons /\ task[t] \in TaskStates
      /\ overtaken \in BOOLEAN /\ userStopped \in BOOLEAN
      /\ (~overtaken /\ status = "starting" => ~userStopped)
  BY DEF IInv, SupervisorTypeOK, PhaseInv
<1>3. signal' \in [Bridges -> {"none", "term", "kill"}]
  BY <1>2 DEF StopAnswered, TermTimeout, KillTimeout, processVars
<1>4. ~Starts(t)
  BY <1>1, States DEF Starts
<1>5. CASE TermTimeout(t)
  <2> DEFINE w == [task[t] EXCEPT !.at = "killed"]
  <2>1. w \in TaskStates /\ w.at = "killed" /\ task' = [task EXCEPT ![t] = w]
    BY <1>2, <1>5 DEF TermTimeout, TaskStates, IInv, SupervisorTypeOK
  <2>2. w.at \notin Spawning
    BY <2>1, States
  <2> HIDE DEF w
  <2> QED
    BY <1>1, <1>2, <1>3, <1>4, <2>1, <2>2, NoStarter
<1>6. CASE Resumes(t)
  <2> DEFINE w == [at |-> task[t].then, about |-> {}, then |-> "idle"]
  <2>1. w \in TaskStates /\ w.at \in {"idle", "pause", "quit"} /\ task' = [task EXCEPT ![t] = w]
    BY <1>2, <1>6 DEF Resumes, TaskStates
  <2>2. w.at \notin Spawning
    BY <2>1, States
  <2> HIDE DEF w
  <2> QED
    BY <1>1, <1>2, <1>3, <1>4, <2>1, <2>2, NoStarter
<1> QED
  BY <1>5, <1>6 DEF StopAnswered, KillTimeout

(* A bridge exited, and its handler runs.                                   *)
LEMMA ExitedKeeps ==
  ASSUME IInv, NEW p \in Bridges, Exited(p)
  PROVE  IInv'
<1>1. /\ app /\ p \in Own /\ p \notin orphans /\ p \in Tasks
      /\ \A t \in Tasks : task[t].at = "spawned" => p \notin task[t].about
      /\ bridge' = [bridge EXCEPT ![p] = "none"] /\ signal' = [signal EXCEPT ![p] = "none"]
      /\ proc' = None /\ status' \in {"stopped", "error"}
      /\ UNCHANGED <<app, userStopped, offered, orphans, overtaken>>
  BY Sorts DEF Exited, Own, history
<1>2. ASSUME ~overtaken
      PROVE  status = "running" /\ Own = {p}
  <2>1. status \in {"stopped", "starting", "running", "error"}
    BY DEF IInv, SupervisorTypeOK
  <2>2. status \notin {"stopped", "error"}
    BY <1>1, <1>2 DEF IInv, PhaseInv
  <2>3. ASSUME status = "starting"
        PROVE  FALSE
    <3>1. PICK t \in Tasks : task[t].at = "spawned"
      BY <1>1, <1>2, <2>3 DEF IInv, PhaseInv
    <3> QED
      BY <1>1, <1>2, <3>1 DEF IInv, SpawnedInv
  <2> QED
    BY <1>1, <1>2, <2>1, <2>2, <2>3 DEF IInv, PhaseInv
<1>3. /\ task' \in [Tasks -> TaskStates] /\ autoRestarts' \in 0..MaxRestarts
      /\ \A u \in Tasks : task'[u] = task[u] \/ task'[u].at = "backoff"
  <2>1. task \in [Tasks -> TaskStates] /\ autoRestarts \in 0..MaxRestarts /\ MaxRestarts \in Nat
    BY SupervisorAssumption DEF IInv, SupervisorTypeOK
  <2>2. CASE MayRestart
    <3> DEFINE w == [at |-> "backoff", about |-> {p}, then |-> "idle"]
    <3>1. w \in TaskStates /\ w.at = "backoff" /\ task' = [task EXCEPT ![p] = w]
      BY <2>2 DEF Exited, Awaits, TaskStates
    <3> HIDE DEF w
    <3>2. autoRestarts' \in 0..MaxRestarts
      BY <2>1, <2>2 DEF Exited, MayRestart
    <3> QED
      BY <1>1, <3>1, <3>2, Moves
  <2>3. CASE ~MayRestart
    BY <2>1, <2>3 DEF Exited
  <2> QED
    BY <2>2, <2>3
<1>4. /\ bridge' \in [Bridges -> {"none", "up", "serving", "exited", "failed"}]
      /\ signal' \in [Bridges -> {"none", "term", "kill"}]
      /\ bridge'[p] = "none" /\ \A q \in Bridges : q # p => bridge'[q] = bridge[q]
  BY <1>1 DEF IInv, SupervisorTypeOK
<1>5. Own' = Own \ {p} /\ OrphansInv'
  BY <1>1, <1>4 DEF Own, IInv, OrphansInv, Alive
<1>6. SupervisorTypeOK' /\ AwayInv'
  BY <1>1, <1>3, <1>4, <1>5 DEF IInv, SupervisorTypeOK, OrphansInv, AwayInv
<1>7. \A u \in Tasks : /\ Starts(u)' => Starts(u)
                       /\ task'[u].at = "spawned" => task'[u] = task[u]
  BY <1>3, States DEF Starts
<1>8. PhaseInv'
  BY <1>1, <1>2, <1>5, <1>7 DEF IInv, PhaseInv
<1>9. SpawnedInv'
  <2>1. ASSUME ~overtaken
        PROVE  \A u \in Tasks : task'[u].at # "spawned"
    BY <1>2, <1>7, <2>1, States DEF IInv, PhaseInv, Starts
  <2> QED
    BY <1>1, <1>7, <2>1 DEF IInv, SpawnedInv
<1> QED
  BY <1>1, <1>5, <1>6, <1>8, <1>9 DEF IInv

(* The app ends.                                                            *)
LEMMA GoneKeeps ==
  ASSUME IInv, Gone
  PROVE  IInv'
<1>1. /\ ~app' /\ status' = "stopped" /\ proc' = None /\ ~userStopped' /\ ~overtaken'
      /\ userStopped' \in BOOLEAN /\ overtaken' \in BOOLEAN /\ app' \in BOOLEAN
      /\ autoRestarts' = 0 /\ offered' = {}
      /\ 0 \in 0..MaxRestarts
  <2>1. app' = FALSE /\ userStopped' = FALSE /\ overtaken' = FALSE /\ 0 \in 0..MaxRestarts
    BY SupervisorAssumption DEF Gone
  <2> QED
    BY <2>1 DEF Gone
<1>2. task' \in [Tasks -> TaskStates] /\ \A t \in Tasks : task'[t].at = "idle"
  BY States DEF Gone
<1>3. /\ bridge' \in [Bridges -> {"none", "up", "serving", "exited", "failed"}]
      /\ signal' \in [Bridges -> {"none", "term", "kill"}]
  BY DEF Gone, IInv, SupervisorTypeOK
<1>4. orphans' = orphans \cup {p \in Own : Alive(p)} /\ orphans \subseteq Bridges
      /\ \A p \in Bridges : bridge'[p] = IF p \in Own /\ ~Alive(p) THEN "none" ELSE bridge[p]
  BY DEF Gone, IInv, SupervisorTypeOK
<1>5. Own' = {}
  <2> SUFFICES ASSUME NEW p \in Bridges, bridge'[p] \in {"up", "serving", "exited", "failed"}
               PROVE  p \in orphans'
    BY DEF Own
  <2> QED
    BY <1>4 DEF Own, Alive
<1>6. OrphansInv' /\ orphans' \subseteq Bridges
  BY <1>4 DEF Own, Alive, IInv, OrphansInv
<1>7. SupervisorTypeOK'
  BY <1>1, <1>2, <1>3, <1>6 DEF SupervisorTypeOK
<1>8. AwayInv' /\ PhaseInv' /\ SpawnedInv'
  BY <1>1, <1>2, <1>5, States DEF AwayInv, PhaseInv, SpawnedInv, Starts
<1> QED
  BY <1>1, <1>6, <1>7, <1>8 DEF IInv

LEMMA LaunchKeeps ==
  ASSUME IInv, NEW t \in Calls, Launch(t)
  PROVE  IInv'
<1> DEFINE w == [at |-> "pause", about |-> {}, then |-> "idle"]
<1>1. /\ ~app /\ app' = TRUE /\ t \in Tasks /\ task' = [task EXCEPT ![t] = w]
      /\ UNCHANGED <<status, proc, userStopped, autoRestarts, offered, overtaken, bridge, signal, orphans>>
  BY Sorts DEF Launch, Awaits, processVars
<1>2. w \in TaskStates /\ w.at = "pause"
  BY States
<1> HIDE DEF w
<1>3. /\ task'[t] = w /\ \A u \in Tasks : u # t => task'[u] = task[u]
      /\ task' \in [Tasks -> TaskStates]
  BY <1>1, <1>2, Moves
<1>4. Own' = {} /\ OrphansInv' /\ status = "stopped" /\ proc = None
      /\ \A u \in Tasks : task'[u].at \in {"idle", "pause"}
  BY <1>1, <1>2, <1>3 DEF Own, Alive, IInv, OrphansInv, AwayInv
<1>5. SupervisorTypeOK'
  BY <1>1, <1>3 DEF IInv, SupervisorTypeOK
<1>6. AwayInv' /\ PhaseInv' /\ SpawnedInv'
  BY <1>1, <1>4, States DEF AwayInv, PhaseInv, SpawnedInv, Starts
<1> QED
  BY <1>1, <1>4, <1>5, <1>6 DEF IInv

(* A process lives or dies, or logs: the app does not know yet.             *)
LEMMA ProcessKeeps ==
  ASSUME IInv, NEW p \in Bridges, ProcessStep(p) \/ Crash(p) \/ _onLogLine(p)
  PROVE  IInv'
<1>1. /\ bridge \in [Bridges -> {"none", "up", "serving", "exited", "failed"}]
      /\ signal \in [Bridges -> {"none", "term", "kill"}]
      /\ offered \subseteq Buttons /\ orphans \subseteq {q \in Bridges : Alive(q)}
  BY DEF IInv, SupervisorTypeOK, OrphansInv
<1>2. ASSUME NEW codes \in SUBSET {"exited", "failed"}, Alive(p), Dies(p, codes)
      PROVE  IInv'
  <2>1. /\ UNCHANGED <<app, status, proc, userStopped, autoRestarts, offered, task, overtaken>>
        /\ orphans' = orphans \ {p}
    BY <1>2 DEF Dies, supervisorVars
  <2>2. CASE p \in orphans
    <3>1. bridge' = [bridge EXCEPT ![p] = "none"] /\ signal' = [signal EXCEPT ![p] = "none"]
      BY <1>2, <2>2 DEF Dies
    <3>2. Own' = Own /\ OrphansInv'
      BY <1>1, <2>1, <2>2, <3>1 DEF Own, Alive, OrphansInv
    <3> QED
      BY <1>1, <2>1, <3>1, <3>2, Unmoved
  <2>3. CASE p \notin orphans
    <3>1. PICK c \in codes : bridge' = [bridge EXCEPT ![p] = c] /\ signal' = signal
      BY <1>2, <2>3 DEF Dies
    <3>2. Own' = Own /\ OrphansInv'
      BY <1>1, <1>2, <2>1, <2>3, <3>1 DEF Own, Alive, OrphansInv
    <3> QED
      BY <1>1, <2>1, <3>1, <3>2, Unmoved
  <2> QED
    BY <2>2, <2>3
<1>3. CASE bridge[p] = "up" /\ bridge' = [bridge EXCEPT ![p] = "serving"]
           /\ UNCHANGED <<supervisorVars, task, signal, orphans, history>>
  <2>1. Own' = Own /\ OrphansInv'
    BY <1>1, <1>3 DEF Own, Alive, OrphansInv
  <2> QED
    BY <1>1, <1>3, <2>1, Unmoved DEF supervisorVars, history
<1>4. CASE Serve(p)
  <2>1. bridge[p] = "up" => Alive(p)
    BY DEF Alive
  <2> QED
    BY <1>2, <1>3, <1>4, <2>1 DEF Serve
<1>5. CASE Signalled(p) \/ ParentGone(p) \/ Crash(p)
  BY <1>2, <1>5 DEF Signalled, ParentGone, SeesEof, Crash
<1>6. CASE _onLogLine(p)
  <2>1. /\ UNCHANGED <<app, status, proc, userStopped, autoRestarts, task, overtaken>>
        /\ UNCHANGED <<bridge, signal, orphans>> /\ offered' \subseteq Buttons
    BY <1>1, <1>6 DEF _onLogLine, processVars, history
  <2>2. Own' = Own /\ OrphansInv'
    BY <1>1, <2>1 DEF Own, Alive, OrphansInv
  <2> QED
    BY <1>1, <2>1, <2>2, Unmoved
<1> QED
  BY <1>4, <1>5, <1>6 DEF ProcessStep

(* A call by the user.                                                      *)
LEMMA UserKeeps ==
  ASSUME IInv, NEW t \in Calls, User(t)
  PROVE  IInv'
<1>1. /\ app /\ t \in Tasks /\ task[t].at = "idle"
      /\ UNCHANGED <<app, proc, bridge, orphans>>
  BY Sorts DEF User, ClickStart, ClickStop, reset, Quit, Clicks, At
<1>2. ~Starts(t) /\ offered \subseteq Buttons
  BY <1>1, States DEF Starts, IInv, SupervisorTypeOK
<1>3. CASE ClickStart(t)
  BY <1>1, <1>2, <1>3, Begins DEF ClickStart
<1>4. CASE ClickStop(t)
  BY <1>1, <1>2, <1>4, Stops DEF ClickStop
<1>5. CASE Quit(t)
  BY <1>1, <1>2, <1>5, Stops DEF Quit
<1>6. ASSUME NEW b \in Buttons, reset(t, b)
      PROVE  IInv'
  <2>1. stop(t, "pause") /\ offered' \subseteq Buttons
    BY <1>2, <1>6 DEF reset
  <2> QED
    BY <1>1, <2>1, Stops
<1> QED
  BY <1>3, <1>4, <1>5, <1>6 DEF User

LEMMA CallKeeps ==
  ASSUME IInv, NEW t \in Calls, CallStep(t)
  PROVE  IInv'
<1> t \in Tasks
  BY Sorts
<1>1. CASE PauseOver(t)
  <2>1. app /\ task[t].at = "pause" /\ start(t)
        /\ UNCHANGED <<app, proc, autoRestarts, offered, overtaken, bridge, orphans, signal>>
    BY <1>1 DEF PauseOver, At, processVars, history
  <2>2. ~Starts(t)
    BY <2>1, States DEF Starts
  <2> QED
    BY <2>1, <2>2, Begins
<1>2. CASE Exits(t)
  BY <1>2, GoneKeeps DEF Exits
<1> QED
  BY <1>1, <1>2, StopGoesOn DEF CallStep

LEMMA HandlerKeeps ==
  ASSUME IInv, NEW p \in Bridges, HandlerStep(p)
  PROVE  IInv'
<1>1. CASE BackoffOver(p)
  <2>1. /\ app /\ p \in Tasks /\ task[p].at = "backoff"
        /\ UNCHANGED <<app, proc, autoRestarts, offered, overtaken, bridge, orphans, signal>>
    BY <1>1, Sorts DEF BackoffOver, At, processVars, history
  <2>2. ~Starts(p)
    BY <2>1, States DEF Starts
  <2>3. CASE start(p)
    BY <2>1, <2>2, <2>3, Begins
  <2>4. CASE Ends(p) /\ UNCHANGED <<status, userStopped>>
    <3>1. task' = [task EXCEPT ![p] = Idle] /\ Idle \in TaskStates /\ Idle.at \notin Spawning
      BY <2>4, States DEF Ends
    <3>2. /\ signal \in [Bridges -> {"none", "term", "kill"}] /\ autoRestarts \in 0..MaxRestarts
          /\ offered \subseteq Buttons /\ overtaken \in BOOLEAN /\ userStopped \in BOOLEAN
          /\ (~overtaken /\ status = "starting" => ~userStopped)
      BY DEF IInv, SupervisorTypeOK, PhaseInv
    <3> QED
      BY <2>1, <2>2, <2>4, <3>1, <3>2, NoStarter
  <2> QED
    BY <1>1, <2>3, <2>4 DEF BackoffOver
<1> QED
  BY <1>1, ExitedKeeps DEF HandlerStep

LEMMA NextIInv == IInv /\ [Next]_vars => IInv'
<1> SUFFICES ASSUME IInv, [Next]_vars PROVE IInv'
  OBVIOUS
<1>1. CASE AppDies
  BY <1>1, GoneKeeps DEF AppDies
<1>2. CASE UNCHANGED vars
  <2>1. /\ UNCHANGED <<app, status, proc, userStopped, autoRestarts, task, overtaken>>
        /\ UNCHANGED <<offered, bridge, signal, orphans>>
    BY <1>2 DEF vars, supervisorVars, processVars, history
  <2>2. /\ bridge \in [Bridges -> {"none", "up", "serving", "exited", "failed"}]
        /\ signal \in [Bridges -> {"none", "term", "kill"}]
        /\ offered \subseteq Buttons /\ OrphansInv
    BY DEF IInv, SupervisorTypeOK
  <2>3. Own' = Own /\ OrphansInv'
    BY <2>1, <2>2 DEF Own, Alive, OrphansInv
  <2> QED
    BY <2>1, <2>2, <2>3, Unmoved
<1> QED
  BY <1>1, <1>2, LsofKeeps, SpawnKeeps, StartEnds, CallKeeps, ProcessKeeps, HandlerKeeps,
     UserKeeps, LaunchKeeps
  DEF Next, StartStep

-----------------------------------------------------------------------------
LEMMA Invariance == Spec => []IInv
BY InitIInv, NextIInv, PTL DEF Spec

(* Every variable keeps its type; automatic restarts stay within the limit. *)
THEOREM TypeCorrect == Spec => []SupervisorTypeOK
BY Invariance, PTL DEF IInv

(* What the app shows is true, whatever exits, times out or is clicked at   *)
(* whichever await, unless stop() met a start under way.                    *)
THEOREM NothingLost == Spec => []NoneLost
<1>1. ASSUME IInv
      PROVE  NoneLost
  <2> SUFFICES ASSUME ~overtaken
               PROVE  /\ status \in {"stopped", "error"} => Own = {}
                      /\ \A p \in Own : \/ p = proc
                                        \/ \E t \in Tasks : task[t].at = "spawned" /\ p \in task[t].about
                      /\ \A p, q \in Own : p = q
    BY DEF NoneLost
  <2>1. status \in {"stopped", "starting", "running", "error"}
    BY <1>1 DEF IInv, SupervisorTypeOK
  <2>2. CASE status \in {"stopped", "error"}
    BY <1>1, <2>2 DEF IInv, PhaseInv
  <2>3. CASE status = "running"
    BY <1>1, <2>3 DEF IInv, PhaseInv
  <2>4. CASE status = "starting"
    <3>1. CASE \A t \in Tasks : task[t].at # "spawned"
      BY <1>1, <2>4, <3>1 DEF IInv, PhaseInv
    <3>2. ASSUME NEW t \in Tasks, task[t].at = "spawned"
          PROVE  \E p \in Bridges : task[t].about = {p} /\ Own = {p}
      BY <1>1, <3>2 DEF IInv, SpawnedInv
    <3> QED
      BY <2>4, <3>1, <3>2
  <2> QED
    BY <2>1, <2>2, <2>3, <2>4
<1> QED
  BY <1>1, Invariance, PTL

(* After the user stopped the bridge only the user starts one again: no     *)
(* backoff that is still running, and no exit that comes late.              *)
LEMMA SpawnsNone ==
  ASSUME IInv, ~overtaken, userStopped, [Next]_vars
  PROVE  NothingSpawned
<1> SUFFICES ASSUME NEW p \in Bridges, bridge'[p] = "up", bridge[p] # "up"
             PROVE  FALSE
  BY DEF NothingSpawned
<1>1. bridge \in [Bridges -> {"none", "up", "serving", "exited", "failed"}]
  BY DEF IInv, SupervisorTypeOK
<1>2. \A t \in Tasks : ~Spawn(t)
  <2>1. \A t \in Tasks : ~Starts(t)
    BY DEF IInv, PhaseInv
  <2> QED
    BY <2>1, States DEF Spawn, At, Starts
<1>3. ASSUME NEW q \in Bridges, NEW codes \in SUBSET {"exited", "failed"}, Dies(q, codes)
      PROVE  FALSE
  BY <1>1, <1>3 DEF Dies
<1>4. ~Gone
  BY <1>1 DEF Gone
<1>5. ASSUME bridge' = bridge
      PROVE  FALSE
  BY <1>5
<1>6. ASSUME NEW t \in Tasks, StartStep(t)
      PROVE  FALSE
  BY <1>2, <1>5, <1>6 DEF StartStep, Lsof, KillHolders, SpawnFails, Spawned, processVars
<1>7. ASSUME NEW t \in Calls, CallStep(t) \/ User(t) \/ Launch(t)
      PROVE  FALSE
  BY <1>4, <1>5, <1>7 DEF CallStep, User, Launch, StopAnswered, TermTimeout, KillTimeout, PauseOver,
     Exits, ClickStart, ClickStop, Quit, reset, Clicks, processVars
<1>8. ASSUME NEW q \in Bridges, ProcessStep(q) \/ Crash(q)
      PROVE  FALSE
  <2>1. CASE bridge' = [bridge EXCEPT ![q] = "serving"]
    BY <1>1, <2>1
  <2> QED
    BY <1>3, <1>8, <2>1 DEF ProcessStep, Serve, Signalled, ParentGone, Crash
<1>9. ASSUME NEW q \in Bridges, HandlerStep(q) \/ _onLogLine(q)
      PROVE  FALSE
  <2>1. CASE bridge' = [bridge EXCEPT ![q] = "none"]
    BY <1>1, <2>1
  <2> QED
    BY <1>5, <1>9, <2>1 DEF HandlerStep, Exited, BackoffOver, _onLogLine, processVars
<1> QED
  BY <1>4, <1>5, <1>6, <1>7, <1>8, <1>9 DEF Next, AppDies, vars, processVars

LEMMA OnlyUserStarts ==
  ASSUME IInv, ~overtaken, userStopped, app, app', status' = "starting", [Next]_vars
  PROVE  \E t \in Calls : task'[t] # task[t]
<1>1. status # "starting" /\ \A t \in Tasks : ~Starts(t)
  BY DEF IInv, PhaseInv
<1>2. ASSUME NEW t \in Calls, task[t].at # "lsof", start(t)
      PROVE  task'[t] # task[t]
  <2>1. task' = [task EXCEPT ![t] = [at |-> "lsof", about |-> {}, then |-> "idle"]]
    BY <1>1, <1>2 DEF start, Awaits
  <2>2. task'[t].at = "lsof"
    BY <2>1, Sorts DEF IInv, SupervisorTypeOK
  <2> QED
    BY <1>2, <2>2
<1>3. ASSUME NEW t \in Calls, PauseOver(t) \/ ClickStart(t)
      PROVE  task'[t] # task[t]
  BY <1>2, <1>3 DEF PauseOver, ClickStart, Clicks, At
<1>4. ASSUME status' = status
      PROVE  FALSE
  BY <1>1, <1>4
<1>5. ~Gone
  BY DEF Gone
<1>6. ASSUME NEW t \in Tasks, StartStep(t)
      PROVE  FALSE
  BY <1>4, <1>6 DEF StartStep, Lsof, KillHolders, Spawn, SpawnFails, Spawned, supervisorVars
<1>7. ASSUME NEW t \in Calls, NEW then, stop(t, then)
      PROVE  FALSE
  BY <1>4, <1>7 DEF stop
<1>8. ASSUME NEW t \in Calls, CallStep(t) \/ User(t) \/ Launch(t)
      PROVE  PauseOver(t) \/ ClickStart(t)
  BY <1>4, <1>5, <1>7, <1>8 DEF CallStep, User, Launch, StopAnswered, TermTimeout, KillTimeout, Exits,
     ClickStop, Quit, reset, supervisorVars
<1>9. ASSUME NEW p \in Bridges, ProcessStep(p) \/ Crash(p) \/ HandlerStep(p) \/ _onLogLine(p)
      PROVE  FALSE
  BY <1>4, <1>9 DEF ProcessStep, Serve, Signalled, ParentGone, Crash, Dies, HandlerStep, Exited,
     BackoffOver, StillWanted, _onLogLine, supervisorVars
<1> QED
  BY <1>3, <1>4, <1>5, <1>6, <1>8, <1>9 DEF Next, AppDies, vars, supervisorVars

THEOREM UserHasTheLastWord == Spec => StoppedStaysStopped
<1>1. IInv /\ [Next]_vars =>
        [app /\ app' /\ userStopped /\ ~overtaken =>
           /\ NothingSpawned
           /\ status' = "starting" => \E t \in Calls : task'[t] # task[t]]_vars
  BY SpawnsNone, OnlyUserStarts
<1> QED
  BY <1>1, Invariance, PTL DEF Spec, StoppedStaysStopped
=============================================================================
