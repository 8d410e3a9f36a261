-------------------------- MODULE ClientLinkProofs --------------------------
(***************************************************************************)
(* What holds of ClientLink for any addresses and cameras and any number of *)
(* connections, messages and sessions: types, that nobody unpaired learns   *)
(* or does anything, and that no message is answered twice.                 *)
(***************************************************************************)
EXTENDS ClientLink, FiniteSetTheorems, SequenceTheorems, TLAPS

(* A connection that is admitted has proved itself; it is open, too, since  *)
(* None proves nothing.                                                     *)
ConnOK ==
  /\ opened \in 0..MaxConns /\ conn \in [Addrs -> 0..opened] /\ authed \subseteq Addrs
  /\ proved \subseteq Conns /\ informed \subseteq proved
  /\ \A a \in authed : conn[a] \in proved

HistoryOK ==
  /\ sent \in 0..MaxMsgs /\ unpaired \subseteq 1..sent
  /\ asked \in [Msgs -> 0..opened] /\ acks \in [Msgs -> Seq(Conns)]

(* Messages behind the gate, and where to answer them.                      *)
Proven == {m \in 1..sent : asked[m] \in proved}
Taken  == [msg : Proven, addr : Addrs]

HandlerOK ==
  /\ handler \in [Addrs -> [at : {"idle", "answer", "count", "resolve", "submit", "stuck"},
                            msg : 0..sent, cam : Cams \cup {None}, ses : 0..made]]
  /\ \A a \in Addrs : /\ handler[a].at # "idle" => handler[a].msg \in Proven
                      /\ handler[a].at \notin {"idle", "stuck"} => a \in authed
                      /\ handler[a].at = "submit" => handler[a].ses # None

RosterOK ==
  /\ made \in 0..MaxSessions
  /\ sessions \in [Cams -> 0..made] /\ running \subseteq 1..made /\ hotplug \in 0..made

QueueOK == queue \in [Sessions -> Seq(Taken)]

WorkerOK ==
  /\ worker \in [Sessions -> [at : {"wait", "run", "drain", "poll", "gone"},
                              item : Taken \cup {NoItem}]]
  /\ \A s \in Sessions : worker[s].at = "run" => worker[s].item \in Taken

LInv == ConnOK /\ HistoryOK /\ HandlerOK /\ RosterOK /\ QueueOK /\ WorkerOK

(* A message behind the gate is in one place at a time: with the handler of *)
(* one connection, at one place of one queue, or with one worker; and as    *)
(* long as it is anywhere it has not been answered.                         *)
Held(a)    == handler[a].at # "idle"
Running(s) == worker[s].at = "run"

InOnePlace ==
  /\ \A a, b \in Addrs : Held(a) /\ Held(b) /\ handler[a].msg = handler[b].msg => a = b
  /\ \A s, t \in Sessions :
       Running(s) /\ Running(t) /\ worker[s].item.msg = worker[t].item.msg => s = t
  /\ \A s, t \in Sessions : \A i \in 1..Len(queue[s]), j \in 1..Len(queue[t]) :
       queue[s][i].msg = queue[t][j].msg => s = t /\ i = j
  /\ \A a \in Addrs, s \in Sessions :
       Held(a) => /\ Running(s) => handler[a].msg # worker[s].item.msg
                  /\ \A i \in 1..Len(queue[s]) : handler[a].msg # queue[s][i].msg
  /\ \A s, t \in Sessions : \A i \in 1..Len(queue[t]) :
       Running(s) => worker[s].item.msg # queue[t][i].msg

Unanswered ==
  /\ \A a \in Addrs : Held(a) => acks[handler[a].msg] = <<>>
  /\ \A s \in Sessions : Running(s) => acks[worker[s].item.msg] = <<>>
  /\ \A s \in Sessions : \A i \in 1..Len(queue[s]) : acks[queue[s][i].msg] = <<>>
  /\ \A m \in Msgs : m > sent => acks[m] = <<>>

PInv == InOnePlace /\ Unanswered /\ OneAck
-----------------------------------------------------------------------------
(* Types.                                                                   *)
LEMMA LInvInit == LinkInit => LInv
<1> SUFFICES ASSUME LinkInit PROVE LInv
  OBVIOUS
<1>1. ConnOK /\ HistoryOK
  BY LinkAssumption DEF LinkInit, ConnOK, HistoryOK, Conns, Msgs, None
<1>2. HandlerOK /\ RosterOK
  BY LinkAssumption DEF LinkInit, HandlerOK, RosterOK, Ready, None
<1>3. QueueOK /\ WorkerOK
  BY DEF LinkInit, QueueOK, WorkerOK
<1> QED
  BY <1>1, <1>2, <1>3 DEF LInv

(* What is behind the gate stays there, whoever joins it.                   *)
LEMMA ProvenGrows ==
  ASSUME LInv, sent' \in Nat, sent <= sent', proved \subseteq proved',
         \A m \in 1..sent : asked'[m] = asked[m]
  PROVE  Proven \subseteq Proven' /\ Taken \subseteq Taken'
  BY DEF LInv, HistoryOK, Proven, Taken

LEMMA QueueStays ==
  ASSUME LInv, Taken \subseteq Taken', UNCHANGED queue
  PROVE  QueueOK'
<1>1. \A s \in Sessions : queue[s] \in Seq(Taken)
  BY DEF LInv, QueueOK
<1>2. \A s \in Sessions : queue[s] \in Seq(Taken')
  BY <1>1, SeqMonotonic
<1> QED
  BY <1>2 DEF LInv, QueueOK

LEMMA WorkerStays ==
  ASSUME LInv, Taken \subseteq Taken', UNCHANGED worker
  PROVE  WorkerOK'
  BY DEF LInv, WorkerOK

(* Connections come and go.                                                 *)
LEMMA LInvConn ==
  ASSUME LInv, (\E a \in Addrs : onopen(a) \/ onclose(a)) \/ broadcast
  PROVE  LInv'
<1> USE DEF LInv
<1>0. Proven \subseteq Proven' /\ Taken \subseteq Taken'
      /\ UNCHANGED <<handler, sessionVars, queue, worker, sent, asked, acks, unpaired, proved>>
  BY ProvenGrows DEF onopen, onclose, broadcast, clientVars, HistoryOK
<1>1. QueueOK' /\ WorkerOK' /\ RosterOK'
  BY <1>0, QueueStays, WorkerStays DEF RosterOK, sessionVars
<1>2. ASSUME NEW a \in Addrs, onopen(a) PROVE LInv'
  <2>1. opened' = opened + 1 /\ opened' \in 0..MaxConns /\ 0..opened \subseteq 0..opened'
    BY <1>2, LinkAssumption DEF onopen, ConnOK
  <2>2. \A b \in Addrs : conn'[b] = IF b = a THEN opened' ELSE conn[b]
    BY <1>2 DEF onopen, ConnOK
  <2>3. conn[a] \notin proved
    BY <1>2 DEF onopen, ConnOK, Conns, None
  <2>4. ConnOK'
    BY <1>2, <2>1, <2>2, <2>3 DEF onopen, ConnOK
  <2>5. HistoryOK'
    BY <1>2, <2>1 DEF onopen, HistoryOK
  <2>6. HandlerOK'
    BY <1>0, <1>2 DEF onopen, HandlerOK, sessionVars
  <2> QED
    BY <1>1, <2>4, <2>5, <2>6
<1>3. ASSUME NEW a \in Addrs, onclose(a) PROVE LInv'
  <2>1. \A b \in Addrs : conn'[b] = IF b = a THEN None ELSE conn[b]
    BY <1>3 DEF onclose, ConnOK
  <2>2. ConnOK'
    BY <1>3, <2>1, LinkAssumption DEF onclose, ConnOK, Forgotten, None
  <2>3. HandlerOK'
    BY <1>0, <1>3 DEF onclose, HandlerOK, Forgotten, sessionVars
  <2> QED
    BY <1>1, <1>3, <2>2, <2>3 DEF onclose, HistoryOK
<1>4. CASE broadcast
  <2>1. ConnOK'
    BY <1>4 DEF broadcast, clientVars, ConnOK
  <2> QED
    BY <1>0, <1>1, <1>4, <2>1 DEF broadcast, clientVars, HistoryOK, HandlerOK, sessionVars
<1> QED
  BY <1>2, <1>3, <1>4

LEMMA Answering ==
  ASSUME acks \in [Msgs -> Seq(Conns)], NEW m \in Msgs, NEW c \in Conns
  PROVE  /\ Answered(m, c) \in [Msgs -> Seq(Conns)]
         /\ \A n \in Msgs \ {m} : Answered(m, c)[n] = acks[n]
         /\ Len(Answered(m, c)[m]) = Len(acks[m]) + 1
  BY DEF Answered

(* A message arrives at the gate.                                           *)
LEMMA Arrival ==
  ASSUME LInv, NEW a \in Addrs, NEW r \in Requests, Arrives(a, r)
  PROVE  /\ sent' = sent + 1 /\ sent' \in Msgs /\ sent' \in 0..MaxMsgs
         /\ asked' \in [Msgs -> 0..opened] /\ asked'[sent'] = conn[a]
         /\ conn[a] \in Conns /\ proved' \subseteq Conns
         /\ Proven \subseteq Proven' /\ Taken \subseteq Taken'
         /\ (r.action \in {"hello", "pair"} /\ r.good) => conn[a] \in proved'
<1> USE DEF LInv
<1>1. sent' = sent + 1 /\ sent' \in Msgs /\ sent' \in 0..MaxMsgs /\ conn[a] \in Conns
  BY LinkAssumption DEF Arrives, HistoryOK, Msgs, ConnOK, Conns, None
<1>2. asked' \in [Msgs -> 0..opened] /\ asked'[sent'] = conn[a]
      /\ \A m \in 1..sent : asked'[m] = asked[m]
  BY <1>1 DEF Arrives, HistoryOK, ConnOK
<1>3. proved' \subseteq Conns /\ proved \subseteq proved'
      /\ ((r.action \in {"hello", "pair"} /\ r.good) => conn[a] \in proved')
  BY <1>1 DEF Arrives, ConnOK
<1> QED
  BY <1>1, <1>2, <1>3, ProvenGrows DEF HistoryOK

LEMMA LInvMessage ==
  ASSUME LInv, NEW a \in Addrs, NEW r \in Requests, onmessage(a, r)
  PROVE  LInv'
<1> USE DEF LInv
<1>1. Arrives(a, r)
  BY DEF onmessage, MessageAtGate, MessagePasses
<1>2. sent' = sent + 1 /\ sent' \in Msgs /\ sent' \in 0..MaxMsgs
      /\ asked' \in [Msgs -> 0..opened] /\ asked'[sent'] = conn[a]
      /\ conn[a] \in Conns /\ proved' \subseteq Conns /\ proved \subseteq proved'
      /\ Proven \subseteq Proven' /\ Taken \subseteq Taken'
  BY <1>1, Arrival DEF Arrives
<1>3. authed' = authed \/ (authed' = authed \cup {a} /\ (a \in authed \/ conn[a] \in proved'))
  BY <1>1, Arrival DEF onmessage, MessageAtGate, MessagePasses, Admits, ValidHello
<1>4. ConnOK'
  BY <1>1, <1>2, <1>3 DEF Arrives, ConnOK
<1>5. QueueOK' /\ WorkerOK' /\ RosterOK'
  BY <1>1, <1>2, QueueStays, WorkerStays DEF Arrives, RosterOK, sessionVars
<1>6. CASE MessageAtGate(a, r)
  <2>1. acks' \in [Msgs -> Seq(Conns)]
    <3>1. acks' = acks \/ acks' = Answered(sent', conn[a])
      BY <1>6 DEF MessageAtGate, reply_send
    <3> QED
      BY <1>2, <3>1, Answering DEF HistoryOK
  <2>2. unpaired' \subseteq 1..sent'
    <3>1. unpaired' = unpaired \/ unpaired' = unpaired \cup {sent'}
      BY <1>6 DEF MessageAtGate
    <3>2. sent \in Nat /\ sent' = sent + 1 /\ unpaired \subseteq 1..sent
      BY <1>2, LinkAssumption DEF HistoryOK
    <3>3. 1..sent \subseteq 1..sent' /\ sent' \in 1..sent'
      BY <3>2
    <3> QED
      BY <3>1, <3>2, <3>3
  <2>3. HistoryOK'
    BY <1>1, <1>2, <2>1, <2>2 DEF Arrives, HistoryOK
  <2>4. HandlerOK'
    BY <1>1, <1>2, <1>3, <1>6 DEF MessageAtGate, Arrives, HandlerOK, HistoryOK, sessionVars
  <2> QED
    BY <1>4, <1>5, <2>3, <2>4
<1>7. CASE MessagePasses(a, r)
  <2>1. HistoryOK'
    BY <1>1, <1>2, <1>7 DEF Arrives, MessagePasses, HistoryOK
  <2>2. sent' \in Proven' /\ r.cam \in Cams \cup {None} /\ a \in authed'
    <3>1. a \in authed' /\ conn'[a] = conn[a]
      BY <1>1, <1>7 DEF MessagePasses, Arrives
    <3>2. asked'[sent'] \in proved'
      BY <1>2, <1>4, <3>1 DEF ConnOK
    <3>3. sent' \in 1..sent'
      BY <1>2 DEF HistoryOK
    <3> QED
      BY <3>1, <3>2, <3>3 DEF Proven, Requests
  <2>3. \A b \in Addrs :
          handler'[b] = IF b = a
                        THEN [at |-> Dispatched(r), msg |-> sent', cam |-> r.cam, ses |-> None]
                        ELSE handler[b]
    BY <1>7 DEF MessagePasses, HandlerOK
  <2>5. Dispatched(r) \in {"count", "stuck", "answer"}
    BY DEF Dispatched
  <2>4. HandlerOK'
    BY <1>1, <1>2, <1>3, <1>7, <2>2, <2>3, <2>5 DEF MessagePasses, Arrives, HandlerOK, HistoryOK,
       RosterOK, sessionVars, None
  <2> QED
    BY <1>4, <1>5, <2>1, <2>4
<1> QED
  BY <1>6, <1>7 DEF onmessage
(* The handler of a connection goes on with its message.                    *)
LEMMA LInvHandler ==
  ASSUME LInv, NEW a \in Addrs, HandlerGoesOn(a)
  PROVE  LInv'
<1> USE DEF LInv
<1>0. /\ UNCHANGED <<clientVars, sessionVars, worker, sent, asked, informed, unpaired>>
      /\ handler[a].at # "idle" /\ handler[a].msg \in Proven /\ a \in authed
  BY DEF HandlerGoesOn, HandlerAnswers, CountDevices, ResolveSession, Rejects, submit,
     HandlerOnly,
     HandlerOK
<1>1. Proven' = Proven /\ Taken' = Taken /\ ConnOK' /\ RosterOK' /\ WorkerOK'
  BY <1>0 DEF Proven, Taken, ConnOK, RosterOK, WorkerOK, clientVars, sessionVars
<1>2. handler[a].msg \in Msgs /\ conn[a] \in Conns
  BY <1>0, LinkAssumption DEF Proven, HistoryOK, Msgs, ConnOK
<1>3. ASSUME NEW h, handler' = [handler EXCEPT ![a] = h],
             h \in [at : {"idle", "answer", "count", "resolve", "submit", "stuck"},
                    msg : 0..sent, cam : Cams \cup {None}, ses : 0..made],
             h.at # "idle" => h.msg \in Proven, h.at = "submit" => h.ses # None
      PROVE  HandlerOK'
  BY <1>0, <1>1, <1>3 DEF HandlerOK, clientVars, sessionVars
<1>4. Ready \in [at : {"idle", "answer", "count", "resolve", "submit", "stuck"},
                 msg : 0..sent, cam : Cams \cup {None}, ses : 0..made] /\ Ready.at = "idle"
  BY DEF HistoryOK, RosterOK, Ready, None
<1>5. CASE HandlerAnswers(a)
  <2>1. acks' = acks \/ acks' = Answered(handler[a].msg, conn[a])
    BY <1>5 DEF HandlerAnswers, reply_send
  <2>2. HistoryOK'
    BY <1>0, <1>2, <2>1, Answering DEF HistoryOK, clientVars
  <2>3. HandlerOK'
    BY <1>3, <1>4, <1>5 DEF HandlerAnswers
  <2> QED
    BY <1>1, <1>5, <2>2, <2>3 DEF HandlerAnswers, QueueOK
<1>6. CASE CountDevices(a) \/ Rejects(a)
  <2>1. PICK at \in {"resolve", "answer"} : handler' = [handler EXCEPT ![a].at = at]
    BY <1>6 DEF CountDevices, Rejects
  <2>2. HandlerOK'
    BY <1>0, <1>1, <2>1 DEF HandlerOK, clientVars, sessionVars
  <2> QED
    BY <1>0, <1>1, <1>6, <2>2 DEF CountDevices, Rejects, HistoryOK, QueueOK, clientVars
<1>7. CASE ResolveSession(a)
  <2>1. Target(handler[a].cam) \in 0..made
    <3>1. Attached # {} => (CHOOSE c \in Attached : TRUE) \in Cams
      BY DEF Attached
    <3>2. Cardinality(Attached) = 1 => Attached # {}
      BY FS_EmptySet
    <3>3. handler[a].cam \in Cams \cup {None}
      BY DEF HandlerOK
    <3> QED
      BY <3>1, <3>2, <3>3 DEF Target, RosterOK, None
  <2>2. PICK at \in {"submit", "answer"} :
          /\ handler' = [handler EXCEPT ![a].at = at, ![a].ses = Target(handler[a].cam)]
          /\ at = "submit" => Target(handler[a].cam) # None
    BY <1>7 DEF ResolveSession, WhenGone
  <2>3. HandlerOK'
    BY <1>0, <1>1, <2>1, <2>2 DEF HandlerOK, clientVars, sessionVars
  <2> QED
    BY <1>0, <1>1, <1>7, <2>3 DEF ResolveSession, HistoryOK, QueueOK, clientVars
<1>8. CASE submit(a)
  <2>1. handler[a].ses \in Sessions
    BY <1>8, LinkAssumption DEF submit, HandlerOK, RosterOK, Sessions, None
  <2>2. [msg |-> handler[a].msg, addr |-> a] \in Taken
    BY <1>0 DEF Taken
  <2>3. Append(queue[handler[a].ses], [msg |-> handler[a].msg, addr |-> a]) \in Seq(Taken)
    BY <2>1, <2>2, AppendProperties DEF QueueOK
  <2>4. QueueOK'
    BY <1>1, <1>8, <2>1, <2>3 DEF submit, QueueOK
  <2>5. HandlerOK'
    BY <1>3, <1>4, <1>8 DEF submit
  <2> QED
    BY <1>0, <1>1, <1>8, <2>4, <2>5 DEF submit, HistoryOK, clientVars
<1> QED
  BY <1>5, <1>6, <1>7, <1>8 DEF HandlerGoesOn

(* The worker of a session.                                                 *)
LEMMA LInvWorker ==
  ASSUME LInv, NEW s \in Sessions, WorkerGoesOn(s)
  PROVE  LInv'
<1> USE DEF LInv
<1>0. UNCHANGED <<clientVars, handler, sessionVars, sent, asked, informed, unpaired>>
  BY DEF WorkerGoesOn, TakeItem, WorkerReplies, RoundEnds, PollEnds, WorkerLeaves, WorkerOnly
<1>1. Proven' = Proven /\ Taken' = Taken /\ ConnOK' /\ RosterOK' /\ HandlerOK'
  BY <1>0 DEF Proven, Taken, ConnOK, RosterOK, HandlerOK, clientVars, sessionVars
<1>2. CASE TakeItem(s)
  <2>1. queue[s] \in Seq(Taken) /\ queue[s] # <<>>
    BY <1>2 DEF TakeItem, QueueOK
  <2>2. Head(queue[s]) \in Taken /\ Tail(queue[s]) \in Seq(Taken)
    BY <2>1, HeadTailProperties
  <2>3. QueueOK'
    BY <1>1, <1>2, <2>2 DEF TakeItem, Popped, QueueOK
  <2>4. WorkerOK'
    BY <1>1, <1>2, <2>2 DEF TakeItem, WorkerOK
  <2> QED
    BY <1>0, <1>1, <1>2, <2>3, <2>4 DEF TakeItem, HistoryOK, clientVars
<1>3. CASE WorkerReplies(s)
  <2>1. worker[s].item \in Taken
    BY <1>3 DEF WorkerReplies, WorkerOK
  <2>2. worker[s].item.msg \in Msgs /\ worker[s].item.addr \in Addrs
    BY <2>1, LinkAssumption DEF Taken, Proven, HistoryOK, Msgs
  <2>3. acks' = acks
        \/ \E a \in authed : acks' = Answered(worker[s].item.msg, conn[a])
    BY <1>3 DEF WorkerReplies, reply_send
  <2>4. acks' \in [Msgs -> Seq(Conns)]
    <3>1. ASSUME NEW a \in authed, acks' = Answered(worker[s].item.msg, conn[a])
          PROVE  acks' \in [Msgs -> Seq(Conns)]
      <4>1. conn[a] \in Conns
        BY DEF ConnOK
      <4> QED
        BY <2>2, <3>1, <4>1, Answering DEF HistoryOK
    <3> QED
      BY <2>3, <3>1 DEF HistoryOK
  <2>5. WorkerOK'
    BY <1>1, <1>3 DEF WorkerReplies, WorkerOK
  <2> QED
    BY <1>0, <1>1, <1>3, <2>4, <2>5 DEF WorkerReplies, QueueOK, HistoryOK, clientVars
<1>4. CASE RoundEnds(s) \/ PollEnds(s) \/ WorkerLeaves(s)
  <2>1. PICK at \in {"poll", "wait", "gone"} : worker' = [worker EXCEPT ![s].at = at]
    BY <1>4 DEF RoundEnds, PollEnds, WorkerLeaves
  <2>2. WorkerOK'
    BY <1>1, <2>1 DEF WorkerOK
  <2> QED
    BY <1>0, <1>1, <1>4, <2>2 DEF RoundEnds, PollEnds, WorkerLeaves, HistoryOK, QueueOK,
       clientVars
<1> QED
  BY <1>2, <1>3, <1>4 DEF WorkerGoesOn

LEMMA LInvHotplug ==
  ASSUME LInv, (\E c \in Cams : attach(c) \/ detach(c)) \/ stop \/ Joined
  PROVE  LInv'
<1> USE DEF LInv
<1>0. UNCHANGED <<clientVars, handler, queue, worker, sent, asked, acks, informed, unpaired>>
      /\ made' \in {made, made + 1}
  BY DEF attach, detach, stop, Joined, HotplugOnly
<1>1. RosterOK'
  <2>1. ASSUME NEW c \in Cams, attach(c) PROVE RosterOK'
    <3>1. made' \in 0..MaxSessions /\ 0..made \subseteq 0..made' /\ 1..made \subseteq 1..made'
          /\ made' \in 1..made' /\ made' \in 0..made'
      BY <2>1, LinkAssumption DEF attach, RosterOK
    <3> QED
      BY <2>1, <3>1 DEF attach, RosterOK
  <2>2. ASSUME NEW c \in Cams, detach(c) PROVE RosterOK'
    BY <2>2, LinkAssumption DEF detach, RosterOK, None
  <2>3. CASE stop \/ Joined
    <3>1. hotplug' \in {None, hotplug} /\ running' \subseteq running /\ UNCHANGED <<sessions, made>>
      BY <2>3 DEF stop, Joined
    <3>2. None \in 0..made
      BY LinkAssumption DEF RosterOK, None
    <3> QED
      BY <3>1, <3>2 DEF RosterOK
  <2> QED
    BY <2>1, <2>2, <2>3
<1>2. HandlerOK'
  BY <1>0 DEF HandlerOK, Proven, clientVars, RosterOK
<1>3. Taken' = Taken
  BY <1>0 DEF Taken, Proven, clientVars
<1> QED
  BY <1>0, <1>1, <1>2, <1>3 DEF ConnOK, HistoryOK, QueueOK, WorkerOK, clientVars

THEOREM LInvariance == LinkSpec => []LInv
<1>1. LInv /\ [LinkNext]_linkVars => LInv'
  <2> SUFFICES ASSUME LInv, [LinkNext]_linkVars PROVE LInv'
    OBVIOUS
  <2>1. CASE UNCHANGED linkVars
    BY <2>1 DEF linkVars, clientVars, sessionVars, LInv, ConnOK, HistoryOK, HandlerOK, RosterOK,
       QueueOK, WorkerOK, Taken, Proven
  <2> QED
    BY <2>1, LInvConn, LInvMessage, LInvHandler, LInvWorker, LInvHotplug DEF LinkNext
<1> QED
  BY <1>1, LInvInit, PTL DEF LinkSpec
(* Every variable keeps its type.                                           *)
THEOREM LinkTypeCorrect == LinkSpec => []LinkTypeOK
<1>1. LInv => LinkTypeOK
  <2> SUFFICES ASSUME LInv PROVE LinkTypeOK
    OBVIOUS
  <2>1. Taken \subseteq Items /\ NoItem \notin Items
    BY LinkAssumption DEF LInv, HistoryOK, Taken, Proven, Items, Msgs, NoItem, None
  <2>2. queue \in [Sessions -> Seq(Items)]
    BY <2>1, SeqMonotonic DEF LInv, QueueOK
  <2>3. /\ worker \in [Sessions -> [at : {"wait", "run", "drain", "poll", "gone"},
                                    item : Items \cup {NoItem}]]
        /\ \A s \in Sessions : worker[s].at = "run" => worker[s].item # NoItem
    BY <2>1 DEF LInv, WorkerOK
  <2>4. \A a \in Addrs : handler[a].at # "idle" => handler[a].msg # None
    BY DEF LInv, HandlerOK, Proven, None
  <2>5. informed \subseteq 0..MaxConns
    BY LinkAssumption DEF LInv, ConnOK, Conns
  <2> QED
    BY <2>2, <2>3, <2>4, <2>5 DEF LInv, LinkTypeOK, ConnOK, HistoryOK, HandlerOK, RosterOK
<1> QED
  BY <1>1, LInvariance, PTL

(* Nobody who has not proved himself is told anything, or reaches a camera. *)
THEOREM NobodyUnpaired == LinkSpec => []NothingUnpaired
<1>1. LInv => NothingUnpaired
  <2> SUFFICES ASSUME LInv PROVE NothingUnpaired
    OBVIOUS
  <2>1. ASSUME NEW s \in Sessions, NEW m \in Underway(s) PROVE asked[m] \in proved
    <3>1. CASE m \in Queued(s)
      <4>1. PICK i \in 1..Len(queue[s]) : m = queue[s][i].msg
        BY <3>1 DEF Queued
      <4>2. queue[s][i] \in Taken
        BY ElementOfSeq DEF LInv, QueueOK
      <4> QED
        BY <4>1, <4>2 DEF Taken, Proven
    <3>2. CASE worker[s].at = "run" /\ m = worker[s].item.msg
      BY <3>2 DEF LInv, WorkerOK, Taken, Proven
    <3> QED
      BY <2>1, <3>1, <3>2 DEF Underway
  <2> QED
    BY <2>1 DEF LInv, ConnOK, NothingUnpaired
<1> QED
  BY <1>1, LInvariance, PTL
-----------------------------------------------------------------------------
(* One place, one answer.                                                   *)
LEMMA PInvInit == LinkInit => PInv
  BY DEF LinkInit, PInv, InOnePlace, Unanswered, OneAck, Held, Running, Ready

(* What is anywhere was sent.                                               *)
LEMMA Sent ==
  ASSUME LInv
  PROVE  /\ sent \in 0..MaxMsgs
         /\ \A a \in Addrs : Held(a) => handler[a].msg \in 1..sent
         /\ \A s \in Sessions : Running(s) => worker[s].item.msg \in 1..sent
         /\ \A s \in Sessions : Len(queue[s]) \in Nat
         /\ \A s \in Sessions : \A i \in 1..Len(queue[s]) : queue[s][i].msg \in 1..sent
<1>1. \A s \in Sessions : queue[s] \in Seq(Taken)
  BY DEF LInv, QueueOK
<1>2. \A s \in Sessions : Len(queue[s]) \in Nat /\ \A i \in 1..Len(queue[s]) : queue[s][i] \in Taken
  BY <1>1, ElementOfSeq, LenProperties
<1> QED
  BY <1>2 DEF LInv, HistoryOK, HandlerOK, WorkerOK, Held, Running, Taken, Proven

(* No message moves.                                                        *)
LEMMA PInvStill ==
  ASSUME PInv, UNCHANGED <<queue, acks, sent>>,
         \A a \in Addrs : Held(a)' => Held(a) /\ handler'[a].msg = handler[a].msg,
         \A s \in Sessions : Running(s)' => Running(s) /\ worker'[s].item = worker[s].item
  PROVE  PInv'
  BY DEF PInv, InOnePlace, Unanswered, OneAck

(* An answer to a message that had none.                                    *)
LEMMA FirstAnswer ==
  ASSUME LInv, PInv, NEW m \in Msgs, acks[m] = <<>>,
         acks' = acks \/ \E c \in Conns : acks' = Answered(m, c)
  PROVE  /\ \A n \in Msgs \ {m} : acks'[n] = acks[n]
         /\ OneAck'
<1>1. acks \in [Msgs -> Seq(Conns)] /\ \A n \in Msgs : Len(acks[n]) <= 1
  BY DEF LInv, HistoryOK, PInv, OneAck
<1>2. CASE acks' = acks
  BY <1>1, <1>2 DEF OneAck
<1>3. CASE \E c \in Conns : acks' = Answered(m, c)
  <2>1. PICK c \in Conns : acks' = Answered(m, c)
    BY <1>3
  <2>2. (\A n \in Msgs \ {m} : acks'[n] = acks[n]) /\ Len(acks'[m]) = Len(acks[m]) + 1
    BY <1>1, <2>1, Answering
  <2>3. Len(acks'[m]) = 1
    BY <2>2
  <2>4. ASSUME NEW n \in Msgs PROVE Len(acks'[n]) <= 1
    <3>1. CASE n = m
      <4>1. Len(acks'[n]) = 1
        BY <2>3, <3>1
      <4> QED
        BY <4>1, 1 <= 1
    <3>2. CASE n # m
      BY <1>1, <2>2, <3>2
    <3> QED
      BY <3>1, <3>2
  <2> QED
    BY <2>2, <2>4 DEF OneAck
<1> QED
  BY <1>2, <1>3

(* A new message: it is nowhere yet.                                        *)
LEMMA PInvMessage ==
  ASSUME LInv, PInv, NEW a \in Addrs, NEW r \in Requests, onmessage(a, r)
  PROVE  PInv'
<1>1. Arrives(a, r) /\ UNCHANGED <<queue, worker>>
  BY DEF onmessage, MessageAtGate, MessagePasses, Arrives
<1>2. /\ sent' = sent + 1 /\ sent' \in Msgs /\ conn[a] \in Conns /\ acks[sent'] = <<>>
      /\ sent \in Nat /\ sent' \notin 1..sent /\ \A n \in 1..sent : n \in Msgs
  <2>1. sent' = sent + 1 /\ sent' \in Msgs /\ conn[a] \in Conns
    BY <1>1, Arrival
  <2>2. sent \in Nat /\ sent <= MaxMsgs
    BY Sent, LinkAssumption
  <2> QED
    BY <2>1, <2>2, LinkAssumption DEF PInv, Unanswered, Msgs
<1>3. acks' = acks \/ \E c \in Conns : acks' = Answered(sent', c)
  BY <1>2 DEF onmessage, MessageAtGate, MessagePasses, reply_send
<1>4. (\A n \in Msgs \ {sent'} : acks'[n] = acks[n]) /\ OneAck'
  BY <1>2, <1>3, FirstAnswer
<1>5. \A n \in 1..sent : n # sent' /\ acks'[n] = acks[n]
  BY <1>2, <1>4
<1>6. /\ \A n \in Msgs : n > sent' => acks'[n] = <<>>
      /\ \A s \in Sessions : \A i \in 1..Len(queue[s]) : acks'[queue[s][i].msg] = <<>>
      /\ \A s \in Sessions : Running(s) => acks'[worker[s].item.msg] = <<>>
  <2>1. \A n \in Msgs : n > sent' => n > sent /\ n # sent'
    BY <1>2 DEF Msgs
  <2> QED
    BY <1>4, <1>5, <2>1, Sent DEF PInv, Unanswered
<1>7. CASE MessageAtGate(a, r)
  <2>1. UNCHANGED handler
    BY <1>7 DEF MessageAtGate
  <2>2. \A b \in Addrs : Held(b) => acks'[handler[b].msg] = <<>>
    BY <1>5, Sent DEF PInv, Unanswered
  <2> QED
    BY <1>1, <1>4, <1>6, <2>1, <2>2 DEF PInv, Unanswered, InOnePlace, Held, Running
<1>8. CASE MessagePasses(a, r)
  <2>1. /\ handler'[a].msg = sent' /\ UNCHANGED acks
        /\ \A b \in Addrs \ {a} : handler'[b] = handler[b]
    BY <1>8 DEF MessagePasses, LInv, HandlerOK
  <2>2. \A b \in Addrs \ {a} : Held(b)' => Held(b) /\ handler'[b].msg \in 1..sent
    BY <2>1, Sent DEF Held
  <2>3. \A b \in Addrs : Held(b)' => acks'[handler'[b].msg] = <<>>
    BY <1>2, <2>1, <2>2 DEF PInv, Unanswered
  <2>4. Unanswered'
    BY <1>1, <1>6, <2>3 DEF Unanswered, Running
  <2>5. \A b, d \in Addrs : Held(b)' /\ Held(d)' /\ handler'[b].msg = handler'[d].msg => b = d
    BY <1>2, <2>1, <2>2 DEF PInv, InOnePlace
  <2>6. \A b \in Addrs, s \in Sessions :
          Held(b)' => /\ Running(s) => handler'[b].msg # worker[s].item.msg
                      /\ \A i \in 1..Len(queue[s]) : handler'[b].msg # queue[s][i].msg
    BY <1>5, <2>1, <2>2, Sent DEF PInv, InOnePlace
  <2>7. InOnePlace'
    BY <1>1, <2>5, <2>6 DEF PInv, InOnePlace, Running
  <2> QED
    BY <1>4, <2>4, <2>7 DEF PInv
<1> QED
  BY <1>7, <1>8 DEF onmessage

(* A message that is answered leaves its place.                             *)
LEMMA PInvAnswer ==
  ASSUME LInv, PInv, NEW m \in Msgs, acks[m] = <<>>,
         acks' = acks \/ \E c \in Conns : acks' = Answered(m, c),
         UNCHANGED <<queue, sent>>, m <= sent,
         \A a \in Addrs : Held(a)' => /\ Held(a) /\ handler'[a].msg = handler[a].msg
                                      /\ handler[a].msg # m,
         \A s \in Sessions : Running(s)' => /\ Running(s) /\ worker'[s].item = worker[s].item
                                            /\ worker[s].item.msg # m,
         \A s \in Sessions : \A i \in 1..Len(queue[s]) : queue[s][i].msg # m
  PROVE  PInv'
<1>1. (\A n \in Msgs \ {m} : acks'[n] = acks[n]) /\ OneAck'
  BY FirstAnswer
<1>2. InOnePlace'
  BY DEF PInv, InOnePlace
<1>3. (\A n \in 1..sent : n \in Msgs) /\ sent \in Nat
  BY LinkAssumption, Sent DEF Msgs
<1>4. \A n \in Msgs : n > sent => n # m
  BY <1>3 DEF Msgs
<1>5. Unanswered'
  BY <1>1, <1>3, <1>4, Sent DEF PInv, Unanswered
<1> QED
  BY <1>1, <1>2, <1>5 DEF PInv

LEMMA PInvHandler ==
  ASSUME LInv, PInv, NEW a \in Addrs, HandlerGoesOn(a)
  PROVE  PInv'
<1>0. /\ Held(a) /\ handler[a].at # "stuck" /\ UNCHANGED <<worker, sent>>
      /\ \A b \in Addrs \ {a} : handler'[b] = handler[b]
      /\ \A s \in Sessions : Running(s)' = Running(s)
  BY DEF Held, Running, HandlerGoesOn, HandlerAnswers, CountDevices, ResolveSession, Rejects, submit,
     HandlerOnly, LInv, HandlerOK
<1>1. handler[a].msg \in 1..sent /\ handler[a].msg \in Msgs /\ conn[a] \in Conns
  BY <1>0, Sent, LinkAssumption DEF LInv, HandlerOK, ConnOK, Held, Msgs
<1>2. CASE HandlerAnswers(a)
  <2>1. acks' = acks \/ acks' = Answered(handler[a].msg, conn[a])
    BY <1>2 DEF HandlerAnswers, reply_send
  <2>2. handler'[a].at = "idle" /\ UNCHANGED queue
    BY <1>2 DEF HandlerAnswers, Ready, LInv, HandlerOK
  <2> QED
    BY <1>0, <1>1, <2>1, <2>2, PInvAnswer DEF Held, PInv, InOnePlace, Unanswered
<1>3. CASE CountDevices(a) \/ ResolveSession(a) \/ Rejects(a)
  <2>1. handler'[a].msg = handler[a].msg /\ UNCHANGED <<queue, acks>>
    BY <1>3 DEF CountDevices, ResolveSession, Rejects, LInv, HandlerOK
  <2> QED
    BY <1>0, <2>1, PInvStill DEF Held
<1>4. CASE submit(a)
  <2> DEFINE t == handler[a].ses
             e == [msg |-> handler[a].msg, addr |-> a]
  <2>1. handler'[a].at = "idle" /\ acks' = acks /\ t \in Sessions
        /\ queue' = [queue EXCEPT ![t] = Append(queue[t], e)]
    BY <1>4, LinkAssumption DEF submit, Ready, LInv, HandlerOK, RosterOK, Sessions, None
  <2>2. queue[t] \in Seq(Taken) /\ e \in Taken
    BY <1>0, <2>1 DEF LInv, QueueOK, HandlerOK, Held, Taken
  <2>3. /\ \A s \in Sessions \ {t} : queue'[s] = queue[s]
        /\ Len(queue'[t]) = Len(queue[t]) + 1 /\ Len(queue[t]) \in Nat
        /\ \A i \in 1..Len(queue[t]) : queue'[t][i] = queue[t][i]
        /\ queue'[t][Len(queue[t]) + 1].msg = handler[a].msg
    BY <2>1, <2>2, AppendProperties DEF LInv, QueueOK
  <2> HIDE DEF t, e
  <2>4. ASSUME NEW s \in Sessions, NEW i \in 1..Len(queue'[s])
        PROVE  \/ i \in 1..Len(queue[s]) /\ queue'[s][i] = queue[s][i]
               \/ s = t /\ i = Len(queue[t]) + 1 /\ queue'[s][i].msg = handler[a].msg
    BY <2>1, <2>3, <2>4
  <2>5. InOnePlace'
    <3>1. /\ InOnePlace
          /\ \A b \in Addrs : Held(b)' => b # a /\ Held(b) /\ handler'[b] = handler[b]
      BY <1>0, <2>1 DEF PInv, Held
    <3>2. \A b, c \in Addrs :
             Held(b)' /\ Held(c)' /\ handler'[b].msg = handler'[c].msg => b = c
      BY <3>1 DEF InOnePlace
    <3>3. \A s1, s2 \in Sessions :
             Running(s1)' /\ Running(s2)' /\ worker'[s1].item.msg = worker'[s2].item.msg => s1 = s2
      BY <1>0, <3>1 DEF InOnePlace
    <3>4. ASSUME NEW s1 \in Sessions, NEW s2 \in Sessions,
                 NEW i \in 1..Len(queue'[s1]), NEW j \in 1..Len(queue'[s2]),
                 queue'[s1][i].msg = queue'[s2][j].msg
          PROVE  s1 = s2 /\ i = j
      <4>1. \/ i \in 1..Len(queue[s1]) /\ queue'[s1][i] = queue[s1][i]
            \/ s1 = t /\ i = Len(queue[t]) + 1 /\ queue'[s1][i].msg = handler[a].msg
        BY <2>4
      <4>2. \/ j \in 1..Len(queue[s2]) /\ queue'[s2][j] = queue[s2][j]
            \/ s2 = t /\ j = Len(queue[t]) + 1 /\ queue'[s2][j].msg = handler[a].msg
        BY <2>4
      <4>3. \A s3 \in Sessions : \A k \in 1..Len(queue[s3]) : queue[s3][k].msg # handler[a].msg
        BY <1>0, <3>1 DEF InOnePlace
      <4>4. CASE i \in 1..Len(queue[s1]) /\ j \in 1..Len(queue[s2])
        <5>1. queue'[s1][i] = queue[s1][i] /\ queue'[s2][j] = queue[s2][j]
          BY <4>1, <4>2, <4>4, <2>1, <2>2
        <5> QED
          BY <3>1, <3>4, <4>4, <5>1 DEF InOnePlace
      <4> QED
        BY <3>4, <4>1, <4>2, <4>3, <4>4
    <3>5. \A b \in Addrs, s1 \in Sessions :
             Held(b)' => /\ Running(s1)' => handler'[b].msg # worker'[s1].item.msg
                         /\ \A i \in 1..Len(queue'[s1]) : handler'[b].msg # queue'[s1][i].msg
      BY <1>0, <2>4, <3>1 DEF InOnePlace
    <3>6. \A s1, s2 \in Sessions : \A i \in 1..Len(queue'[s2]) :
             Running(s1)' => worker'[s1].item.msg # queue'[s2][i].msg
      BY <1>0, <2>4, <3>1 DEF InOnePlace
    <3> QED
      BY <3>2, <3>3, <3>4, <3>5, <3>6 DEF InOnePlace
  <2>6. Unanswered'
    BY <1>0, <2>1, <2>4 DEF PInv, Unanswered, Held
  <2> QED
    BY <2>1, <2>5, <2>6 DEF PInv, OneAck
<1> QED
  BY <1>2, <1>3, <1>4 DEF HandlerGoesOn

LEMMA PInvWorker ==
  ASSUME LInv, PInv, NEW s \in Sessions, WorkerGoesOn(s)
  PROVE  PInv'
<1>0. /\ UNCHANGED <<handler, sent, conn, authed>>
      /\ \A t \in Sessions \ {s} : worker'[t] = worker[t]
      /\ \A a \in Addrs : Held(a)' = Held(a)
  BY DEF Held, WorkerGoesOn, TakeItem, WorkerReplies, RoundEnds, PollEnds, WorkerLeaves,
     WorkerOnly, clientVars, LInv, WorkerOK
<1>1. CASE TakeItem(s)
  <2>1. queue[s] \in Seq(Taken) /\ queue[s] # <<>> /\ ~Running(s) /\ acks' = acks
    BY <1>1 DEF TakeItem, LInv, QueueOK, Running
  <2>2. worker'[s].item = queue[s][1] /\ queue' = [queue EXCEPT ![s] = Tail(queue[s])]
    BY <1>1, <2>1, HeadTailProperties DEF TakeItem, Popped, LInv, WorkerOK
  <2>3. /\ \A t \in Sessions \ {s} : queue'[t] = queue[t]
        /\ Len(queue'[s]) = Len(queue[s]) - 1 /\ Len(queue[s]) \in Nat /\ 1 \in 1..Len(queue[s])
        /\ \A i \in 1..Len(queue'[s]) : queue'[s][i] = queue[s][i + 1] /\ i + 1 \in 1..Len(queue[s])
    <3>1. Len(queue[s]) \in Nat \ {0} /\ Len(Tail(queue[s])) = Len(queue[s]) - 1
      BY <2>1, HeadTailProperties, EmptySeq, LenProperties
    <3> QED
      BY <2>1, <2>2, <3>1 DEF LInv, QueueOK
  <2> DEFINE was(t, i) == IF t = s THEN i + 1 ELSE i
  <2>4. ASSUME NEW t \in Sessions, NEW i \in 1..Len(queue'[t])
        PROVE  /\ was(t, i) \in 1..Len(queue[t]) /\ queue'[t][i] = queue[t][was(t, i)]
               /\ t = s => was(t, i) # 1
               /\ \A j \in 1..Len(queue'[t]) : was(t, i) = was(t, j) => i = j
    BY <2>3, <2>4
  <2> HIDE DEF was
  <2>5. \A t \in Sessions : Running(t)' =>
           IF t = s THEN worker'[t].item = queue[s][1] /\ 1 \in 1..Len(queue[s])
           ELSE Running(t) /\ worker'[t].item = worker[t].item
    BY <1>0, <2>2, <2>3 DEF Running
  <2>7. \A a \in Addrs : Held(a)' => Held(a) /\ handler'[a].msg = handler[a].msg
    BY <1>0
  <2>8. \A t, u \in Sessions : \A i \in 1..Len(queue'[t]), j \in 1..Len(queue'[u]) :
          queue'[t][i].msg = queue'[u][j].msg => t = u /\ i = j
    <3> SUFFICES ASSUME NEW t \in Sessions, NEW u \in Sessions,
                        NEW i \in 1..Len(queue'[t]), NEW j \in 1..Len(queue'[u]),
                        queue'[t][i].msg = queue'[u][j].msg
                 PROVE  t = u /\ i = j
      OBVIOUS
    <3>1. /\ was(t, i) \in 1..Len(queue[t]) /\ was(u, j) \in 1..Len(queue[u])
          /\ queue[t][was(t, i)].msg = queue[u][was(u, j)].msg
      BY <2>4
    <3>2. t = u /\ was(t, i) = was(u, j)
      BY <3>1 DEF PInv, InOnePlace
    <3> QED
      BY <2>4, <3>2
  <2>9. \A a \in Addrs, t \in Sessions : Held(a)' =>
            /\ Running(t)' => handler'[a].msg # worker'[t].item.msg
            /\ \A i \in 1..Len(queue'[t]) : handler'[a].msg # queue'[t][i].msg
    BY <2>4, <2>5, <2>7 DEF PInv, InOnePlace
  <2>10. \A t, u \in Sessions : \A i \in 1..Len(queue'[u]) :
           Running(t)' => worker'[t].item.msg # queue'[u][i].msg
    <3> SUFFICES ASSUME NEW t \in Sessions, NEW u \in Sessions, NEW i \in 1..Len(queue'[u]),
                        Running(t)'
                 PROVE  worker'[t].item.msg # queue'[u][i].msg
      OBVIOUS
    <3>1. /\ was(u, i) \in 1..Len(queue[u]) /\ queue'[u][i] = queue[u][was(u, i)]
          /\ u = s => was(u, i) # 1
      BY <2>4
    <3>2. CASE t = s
      BY <2>5, <3>1, <3>2 DEF PInv, InOnePlace
    <3>3. CASE t # s
      BY <2>5, <3>1, <3>3 DEF PInv, InOnePlace
    <3> QED
      BY <3>2, <3>3
  <2>11. /\ \A t, u \in Sessions :
              Running(t)' /\ Running(u)' /\ worker'[t].item.msg = worker'[u].item.msg => t = u
         /\ \A a, b \in Addrs :
              Held(a)' /\ Held(b)' /\ handler'[a].msg = handler'[b].msg => a = b
    BY <2>5, <2>7 DEF PInv, InOnePlace
  <2>12. InOnePlace'
    BY <2>8, <2>9, <2>10, <2>11 DEF InOnePlace
  <2>6. Unanswered'
    BY <1>0, <2>1, <2>2, <2>3, <2>4 DEF PInv, Unanswered, Running
  <2> QED
    BY <2>1, <2>12, <2>6 DEF PInv, OneAck
<1>2. CASE WorkerReplies(s)
  <2>1. Running(s) /\ ~Running(s)' /\ UNCHANGED queue
    BY <1>2 DEF WorkerReplies, Running, LInv, WorkerOK
  <2>2. acks' = acks \/ \E c \in Conns : acks' = Answered(worker[s].item.msg, c)
    BY <1>2 DEF WorkerReplies, reply_send, LInv, ConnOK
  <2>3. worker[s].item.msg \in 1..sent /\ worker[s].item.msg \in Msgs
    BY <2>1, Sent, LinkAssumption DEF Msgs
  <2>4. acks[worker[s].item.msg] = <<>>
    BY <2>1 DEF PInv, Unanswered
  <2>5. \A a \in Addrs : Held(a)' => /\ Held(a) /\ handler'[a].msg = handler[a].msg
                                    /\ handler[a].msg # worker[s].item.msg
    BY <1>0, <2>1 DEF PInv, InOnePlace
  <2>6. \A t \in Sessions : Running(t)' => t # s /\ Running(t) /\ worker'[t].item = worker[t].item
    BY <1>0, <2>1 DEF Running
  <2>7. \A t \in Sessions : Running(t)' => worker[t].item.msg # worker[s].item.msg
    BY <2>1, <2>6 DEF PInv, InOnePlace
  <2>8. \A t \in Sessions : \A i \in 1..Len(queue[t]) : queue[t][i].msg # worker[s].item.msg
    BY <2>1 DEF PInv, InOnePlace
  <2>9. worker[s].item.msg <= sent
    BY <2>3, LinkAssumption, Sent
  <2> HIDE DEF PInv
  <2> QED
    BY <1>0, <2>1, <2>2, <2>3, <2>4, <2>5, <2>6, <2>7, <2>8, <2>9, PInvAnswer
<1>3. CASE RoundEnds(s) \/ PollEnds(s) \/ WorkerLeaves(s)
  <2>1. ~Running(s)' /\ UNCHANGED <<queue, acks>>
    BY <1>3 DEF RoundEnds, PollEnds, WorkerLeaves, Running, LInv, WorkerOK
  <2> QED
    BY <1>0, <2>1, PInvStill DEF Running
<1> QED
  BY <1>1, <1>2, <1>3 DEF WorkerGoesOn

THEOREM PInvariance == LinkSpec => []PInv
<1>1. LInv /\ PInv /\ [LinkNext]_linkVars => PInv'
  <2> SUFFICES ASSUME LInv, PInv, [LinkNext]_linkVars PROVE PInv'
    OBVIOUS
  <2>1. CASE UNCHANGED <<handler, queue, worker, sent, acks>>
    BY <2>1, PInvStill DEF Held, Running
  <2>2. CASE (\E a \in Addrs : onopen(a) \/ onclose(a)) \/ broadcast
    BY <2>1, <2>2 DEF onopen, onclose, broadcast
  <2>3. CASE (\E c \in Cams : attach(c) \/ detach(c)) \/ stop \/ Joined
    BY <2>1, <2>3 DEF attach, detach, stop, Joined, HotplugOnly
  <2>4. CASE UNCHANGED linkVars
    BY <2>1, <2>4 DEF linkVars
  <2> QED
    BY <2>2, <2>3, <2>4, PInvMessage, PInvHandler, PInvWorker DEF LinkNext
<1> QED
  BY <1>1, PInvInit, LInvariance, PTL DEF LinkSpec

(* No message is answered twice.                                            *)
THEOREM AnsweredOnce == LinkSpec => []OneAck
<1>1. PInv => OneAck
  BY DEF PInv
<1> QED
  BY <1>1, PInvariance, PTL

=============================================================================
