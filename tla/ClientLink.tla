----------------------------- MODULE ClientLink ------------------------------
(***************************************************************************)
(* The way of a client's message through the bridge: the WebSocket server   *)
(* (run_ws_server) admits it, dispatch_message routes a camera's command to *)
(* the session of the camera, the session's worker runs it and replies      *)
(* later - to a connection it knows by its address only, which may have     *)
(* closed, or belong to the next client by then - while the hotplug thread  *)
(* takes sessions away and makes new ones.                                  *)
(*                                                                          *)
(* Grain: the handlers of one connection run one after the other on its     *)
(* thread; a step is what a thread does under conn_mu, mu_ or q_mu_.  A     *)
(* frame that is sent is received, if the connection stays open.            *)
(* Abstracted: what commands do (CommandWorker, Sequencer, DeviceManager,   *)
(* MixEngine); what a token or PIN is made of.                              *)
(***************************************************************************)
EXTENDS Integers, Sequences, FiniteSets

CONSTANTS
  Addrs,        \* addresses of connection objects; Crow frees and reuses them
  Cams,         \* cameras
  MaxConns,     \* bound on the connections ever opened
  MaxMsgs,      \* bound on the messages ever sent
  MaxSessions   \* bound on the sessions ever made

Conns    == 1..MaxConns
Msgs     == 1..MaxMsgs
Sessions == 1..MaxSessions
None     == 0

ASSUME LinkAssumption ==
  /\ None \notin Cams /\ IsFiniteSet(Cams)
  /\ MaxConns \in Nat /\ MaxMsgs \in Nat /\ MaxSessions \in Nat

(* What a client can send.  "bridge" stands for the actions the handler     *)
(* answers itself, "camera" for those of a session; a camera may be named.  *)
(* "garbled" is an action that is not a string.                             *)
Requests ==
  [action : {"hello", "pair"}, good : BOOLEAN, cam : {None}]
    \cup [action : {"ping", "bridge", "garbled"}, good : {TRUE}, cam : {None}]
    \cup [action : {"camera"}, good : {TRUE}, cam : Cams \cup {None}]

VARIABLES
  conn,       \* the connection at each address, or None
  authed,     \* authed_conns
  handler,    \* each address: where its handler is, its message, the session it holds
  sessions,   \* sessions_: the session object of each camera, or None
  running,    \* session objects whose running_ is set
  queue,      \* q_ of each session object: messages and where to reply
  worker,     \* the worker thread of each session object: its place and item
  hotplug,    \* the session the hotplug thread is tearing down, or None
  opened, sent, made,   \* history: the last connection, message and session object
  proved,     \* history: connections that presented a valid token or PIN
  asked,      \* history: the connection of each message
  acks,       \* history: the connections that got the answer to each message
  informed,   \* history: connections that got a state event
  unpaired    \* history: pings of connections that were not paired yet

clientVars  == <<conn, authed, opened, proved>>
sessionVars == <<sessions, running, made, hotplug>>
linkVars    == <<clientVars, handler, sessionVars, queue, worker, sent, asked, acks,
                 informed, unpaired>>

NoItem == [msg |-> None, addr |-> None]
Ready  == [at |-> "idle", msg |-> None, cam |-> None, ses |-> None]

LinkInit ==
  /\ conn = [a \in Addrs |-> None] /\ authed = {}
  /\ handler = [a \in Addrs |-> Ready]
  /\ sessions = [c \in Cams |-> None] /\ running = {}
  /\ queue = [s \in Sessions |-> <<>>]
  /\ worker = [s \in Sessions |-> [at |-> "wait", item |-> NoItem]]
  /\ hotplug = None /\ opened = 0 /\ sent = 0 /\ made = 0
  /\ proved = {} /\ asked = [m \in Msgs |-> None] /\ acks = [m \in Msgs |-> <<>>]
  /\ informed = {} /\ unpaired = {}

Live == {conn[a] : a \in Addrs} \ {None}

-----------------------------------------------------------------------------
(* Connections.                                                             *)

onopen(a) ==
  /\ conn[a] = None /\ handler[a].at = "idle" /\ opened < MaxConns
  /\ opened' = opened + 1 /\ conn' = [conn EXCEPT ![a] = opened']
  /\ UNCHANGED <<authed, proved, handler, sessionVars, queue, worker, sent, asked, acks,
                 informed, unpaired>>

(* A fault: the address stays admitted.                                     *)
StillAuthed(a) == authed

Forgotten(a) == authed \ {a}

(* Crow does not free a connection whose handler threw.                     *)
onclose(a) ==
  /\ conn[a] # None /\ handler[a].at \in {"idle", "stuck"}
  /\ conn' = [conn EXCEPT ![a] = None] /\ authed' = Forgotten(a)
  /\ UNCHANGED <<opened, proved, handler, sessionVars, queue, worker, sent, asked, acks,
                 informed, unpaired>>

(* Answers: straight to a connection that is being handled, or through the  *)
(* lambda given to dispatch_message, which looks the address up.            *)
Answered(m, c) == [acks EXCEPT ![m] = Append(@, c)]

reply_send(m, a) == IF a \in authed THEN Answered(m, conn[a]) ELSE acks

(* Sessions, hotplug and clients broadcast all the time.                    *)
broadcast ==
  /\ informed' = informed \cup {conn[a] : a \in authed}
  /\ UNCHANGED <<clientVars, handler, sessionVars, queue, worker, sent, asked, acks,
                 unpaired>>

-----------------------------------------------------------------------------
(* onmessage: the gate, and what the handler answers itself.                *)

ValidHello(r) == r.action = "hello" /\ r.good

Admits(r) == ValidHello(r) \/ (r.action = "pair" /\ r.good)

Arrives(a, r) ==
  /\ conn[a] # None /\ handler[a].at = "idle" /\ sent < MaxMsgs
  /\ sent' = sent + 1 /\ asked' = [asked EXCEPT ![sent'] = conn[a]]
  /\ proved' = IF r.good /\ r.action \in {"hello", "pair"} THEN proved \cup {conn[a]}
               ELSE proved
  /\ UNCHANGED <<conn, opened, sessionVars, queue, worker, informed>>

(* A message that is refused, the first pair, and a ping before pairing,    *)
(* which dispatch_message answers in vain.                                  *)
MessageAtGate(a, r) ==
  /\ Arrives(a, r) /\ a \notin authed /\ ~ValidHello(r)
  /\ authed' = IF Admits(r) THEN authed \cup {a} ELSE authed
  /\ IF r.action = "ping"
     THEN acks' = reply_send(sent', a) /\ unpaired' = unpaired \cup {sent'}
     ELSE acks' = Answered(sent', conn[a]) /\ unpaired' = unpaired
  /\ UNCHANGED handler

(* Where dispatch_message takes a message.  Reading an action that is not a *)
(* string throws, past its handlers of exceptions: Crow logs it, and reads  *)
(* nothing more from that connection.                                       *)
Dispatched(r) ==
  CASE r.action = "camera"  -> "count"
    [] r.action = "garbled" -> "stuck"
    [] OTHER -> "answer"

(* A message let through to dispatch_message, the first hello included;     *)
(* once admitted, hello and pair are actions like others.                   *)
MessagePasses(a, r) ==
  /\ Arrives(a, r)
  /\ a \in authed \/ ValidHello(r)
  /\ authed' = authed \cup {a}
  /\ handler' = [handler EXCEPT ![a] =
       [at |-> Dispatched(r), msg |-> sent', cam |-> r.cam, ses |-> None]]
  /\ UNCHANGED <<acks, unpaired>>

onmessage(a, r) == MessageAtGate(a, r) \/ MessagePasses(a, r)

HandlerOnly == <<clientVars, sessionVars, worker, sent, asked, informed, unpaired>>

(* The handler answers: a bridge action, or a message it cannot route.      *)
HandlerAnswers(a) ==
  /\ handler[a].at = "answer"
  /\ acks' = reply_send(handler[a].msg, a)
  /\ handler' = [handler EXCEPT ![a] = Ready]
  /\ UNCHANGED <<HandlerOnly, queue>>

-----------------------------------------------------------------------------
(* route_target: device_count, then the lookup of the session, under mu_    *)
(* each.                                                                    *)
Attached == {c \in Cams : sessions[c] # None}

CountDevices(a) ==
  /\ handler[a].at = "count"
  /\ LET routable == /\ Attached # {}
                     /\ handler[a].cam # None \/ Cardinality(Attached) = 1
     IN handler' = [handler EXCEPT ![a].at = IF routable THEN "resolve" ELSE "answer"]
  /\ UNCHANGED <<HandlerOnly, queue, acks>>

(* session_by_sn or sole_session.                                           *)
Target(cam) ==
  IF cam # None THEN sessions[cam]
  ELSE IF Cardinality(Attached) = 1 THEN sessions[CHOOSE c \in Attached : TRUE]
  ELSE None

(* A fault: no answer when the only camera has left meanwhile.              *)
SilentIfGone(cam) == IF cam = None THEN "idle" ELSE "answer"

(* A fault: the null pointer is used.                                       *)
SubmitsAnyway(cam) == "submit"

WhenGone(cam) == "answer"

ResolveSession(a) ==
  /\ handler[a].at = "resolve"
  /\ LET s == Target(handler[a].cam) IN
       handler' = [handler EXCEPT
         ![a].at = IF s # None THEN "submit" ELSE WhenGone(handler[a].cam), ![a].ses = s]
  /\ UNCHANGED <<HandlerOnly, queue, acks>>

(* An action no session has, or a parameter of the wrong type.              *)
Rejects(a) ==
  /\ handler[a].at = "submit"
  /\ handler' = [handler EXCEPT ![a].at = "answer"]
  /\ UNCHANGED <<HandlerOnly, queue, acks>>

(* The handler holds the session, which may have been torn down.            *)
submit(a) ==
  /\ handler[a].at = "submit"
  /\ LET h == handler[a] IN
       queue' = [queue EXCEPT ![h.ses] = Append(@, [msg |-> h.msg, addr |-> a])]
  /\ handler' = [handler EXCEPT ![a] = Ready]
  /\ UNCHANGED <<HandlerOnly, acks>>

-----------------------------------------------------------------------------
(* worker_loop.  It looks at running_ only between rounds, and a round ends *)
(* when the queue is empty.                                                 *)

WorkerOnly == <<clientVars, handler, sessionVars, sent, asked, informed, unpaired>>

(* A fault: the front is copied and never popped.                           *)
Copied(s) == queue[s]

Popped(s) == Tail(queue[s])

TakeItem(s) ==
  /\ worker[s].at \in {"drain", "wait"} /\ queue[s] # <<>>
  /\ worker[s].at = "wait" => s \in running
  /\ worker' = [worker EXCEPT ![s] = [at |-> "run", item |-> Head(queue[s])]]
  /\ queue' = [queue EXCEPT ![s] = Popped(s)]
  /\ UNCHANGED <<WorkerOnly, acks>>

(* The command is done; the answer goes to whoever has the address.         *)
WorkerReplies(s) ==
  /\ worker[s].at = "run"
  /\ acks' = reply_send(worker[s].item.msg, worker[s].item.addr)
  /\ worker' = [worker EXCEPT ![s] = [at |-> "drain", item |-> NoItem]]
  /\ UNCHANGED <<WorkerOnly, queue>>

(* The queue is empty: watchdog and status poll.                            *)
RoundEnds(s) ==
  /\ worker[s].at = "drain" /\ queue[s] = <<>>
  /\ worker' = [worker EXCEPT ![s].at = "poll"]
  /\ UNCHANGED <<WorkerOnly, queue, acks>>

PollEnds(s) ==
  /\ worker[s].at = "poll"
  /\ worker' = [worker EXCEPT ![s].at = "wait"]
  /\ UNCHANGED <<WorkerOnly, queue, acks>>

WorkerLeaves(s) ==
  /\ worker[s].at = "wait" /\ s \in 1..made /\ s \notin running
  /\ worker' = [worker EXCEPT ![s].at = "gone"]
  /\ UNCHANGED <<WorkerOnly, queue, acks>>

-----------------------------------------------------------------------------
(* The hotplug thread.                                                      *)
HotplugOnly == <<clientVars, handler, queue, worker, sent, asked, acks, informed, unpaired>>

attach(c) ==
  /\ hotplug = None /\ sessions[c] = None /\ made < MaxSessions
  /\ made' = made + 1 /\ sessions' = [sessions EXCEPT ![c] = made']
  /\ running' = running \cup {made'}
  /\ UNCHANGED <<hotplug, HotplugOnly>>

(* detach takes the session out of the roster, mu_ held ...                 *)
detach(c) ==
  /\ hotplug = None /\ sessions[c] # None
  /\ hotplug' = sessions[c] /\ sessions' = [sessions EXCEPT ![c] = None]
  /\ UNCHANGED <<running, made, HotplugOnly>>

(* ... then stops its worker ...                                            *)
stop ==
  /\ hotplug \in running /\ running' = running \ {hotplug}
  /\ UNCHANGED <<sessions, made, hotplug, HotplugOnly>>

(* ... and joins it.                                                        *)
Joined ==
  /\ hotplug # None /\ hotplug \notin running /\ worker[hotplug].at = "gone"
  /\ hotplug' = None
  /\ UNCHANGED <<sessions, running, made, HotplugOnly>>

-----------------------------------------------------------------------------
HandlerGoesOn(a) ==
  HandlerAnswers(a) \/ CountDevices(a) \/ ResolveSession(a) \/ Rejects(a) \/ submit(a)

WorkerGoesOn(s) ==
  TakeItem(s) \/ WorkerReplies(s) \/ RoundEnds(s) \/ PollEnds(s) \/ WorkerLeaves(s)

LinkNext ==
  \/ \E a \in Addrs : onopen(a) \/ onclose(a) \/ HandlerGoesOn(a)
  \/ \E a \in Addrs, r \in Requests : onmessage(a, r)
  \/ \E s \in Sessions : WorkerGoesOn(s)
  \/ \E c \in Cams : attach(c) \/ detach(c)
  \/ stop \/ Joined \/ broadcast

(* Threads that can go on do.  Nobody has to open, close, send or unplug.   *)
LinkSpec ==
  /\ LinkInit /\ [][LinkNext]_linkVars
  /\ \A a \in Addrs : WF_linkVars(HandlerGoesOn(a))
  /\ \A s \in Sessions : WF_linkVars(WorkerGoesOn(s))

-----------------------------------------------------------------------------
Items == [msg : Msgs, addr : Addrs]

(* Types.  A handler about to submit holds a session.                       *)
LinkTypeOK ==
  /\ opened \in 0..MaxConns /\ sent \in 0..MaxMsgs /\ made \in 0..MaxSessions
  /\ conn \in [Addrs -> 0..opened] /\ authed \subseteq Addrs
  /\ handler \in [Addrs -> [at : {"idle", "answer", "count", "resolve", "submit", "stuck"},
                            msg : 0..sent, cam : Cams \cup {None}, ses : 0..made]]
  /\ \A a \in Addrs : /\ handler[a].at # "idle" => handler[a].msg # None
                      /\ handler[a].at = "submit" => handler[a].ses # None
  /\ sessions \in [Cams -> 0..made] /\ running \subseteq 1..made /\ hotplug \in 0..made
  /\ queue \in [Sessions -> Seq(Items)]
  /\ worker \in [Sessions -> [at : {"wait", "run", "drain", "poll", "gone"},
                              item : Items \cup {NoItem}]]
  /\ \A s \in Sessions : worker[s].at = "run" => worker[s].item # NoItem
  /\ proved \subseteq Conns /\ informed \subseteq 0..MaxConns /\ unpaired \subseteq 1..sent
  /\ asked \in [Msgs -> 0..opened] /\ acks \in [Msgs -> Seq(Conns)]

(* The messages that are queued, or run by a worker.                        *)
Queued(s)   == {queue[s][i].msg : i \in 1..Len(queue[s])}
Underway(s) == Queued(s) \cup (IF worker[s].at = "run" THEN {worker[s].item.msg} ELSE {})

(* Without a valid token or PIN on the same connection there is no state    *)
(* event for it and no command of it reaches a camera, although connections *)
(* are known by addresses that are reused (ws_server.cpp:68-165).           *)
NothingUnpaired ==
  /\ informed \subseteq proved
  /\ \A s \in Sessions : \A m \in Underway(s) : asked[m] \in proved

(* No message is answered twice, whatever path it takes and whoever gets    *)
(* the answer: clients match answers by id.                                 *)
OneAck == \A m \in Msgs : Len(acks[m]) <= 1

(* Every message that is read is answered in the end, unless its connection *)
(* closes, it is a ping before pairing, its action is not a string (its     *)
(* connection is "stuck" with it, but answers to earlier messages come), or *)
(* the camera was unplugged with the message in the queue of its session.   *)
Lost(m) == \E s \in Sessions : worker[s].at = "gone" /\ m \in Queued(s)

Thrown(m) == \E a \in Addrs : handler[a].at = "stuck" /\ handler[a].msg = m

AnsweredOrGone ==
  \A m \in Msgs :
    asked[m] # None ~> \/ acks[m] # <<>> \/ asked[m] \notin Live
                       \/ m \in unpaired \/ Thrown(m) \/ Lost(m)

(* What ws_server.cpp:154-160 says: an address in authed_conns is the       *)
(* connection the message came from, still alive.                           *)
RepliesComeHome == \A m \in Msgs : acks[m] # <<>> => acks[m] = <<asked[m]>>
=============================================================================
