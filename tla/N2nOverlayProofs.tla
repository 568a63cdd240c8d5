-------------------------- MODULE N2nOverlayProofs ---------------------------
(***************************************************************************)
(* The supernode keeps its promises in the overlay: every step of the      *)
(* overlay is a step of module Supernode or leaves the supernode alone, so *)
(* the theorems of SupernodeProofs carry over.  The last part proves that  *)
(* edges keep their leases.                                                *)
(***************************************************************************)
EXTENDS N2nOverlay, SupernodeProofs

\* A datagram is well formed, where a handler reads a virtual address out of it
\* there is one, and heartbeats go to the supernode.
PacketOK(p) ==
  /\ p \in Packet
  /\ p.type \in {"RegisterAck", "Heartbeat", "Bye"} => p.vip \in Vip
  /\ p.type = "Heartbeat" => p.to = Super

NetOK == \A p \in net : PacketOK(p)

EdgesOK ==
  /\ status \in [Edge -> {"down", "registering", "up"}]
  /\ virtualIP \in [Edge -> Vip \cup {None}]
  /\ known \in [Edge -> Routes]
  /\ due \subseteq {e \in Edge : status[e] = "up"}
  /\ \A e \in Edge : status[e] = "up" <=> virtualIP[e] # None

CountOK == faults \in 0..MaxFaults /\ disturbed \in BOOLEAN

\* A heartbeat is answered to the address it came from.
TasksOK == \A g \in Gor : task[g].op = "heartbeat" => task[g].addr \in Addr

\* The inductive invariant: what the theorems on the supernode rest on, with
\* well-formed datagrams and edges.
OverlayInv == LeaseInv /\ TasksOK /\ NetOK /\ EdgesOK /\ CountOK

------------------------------------------------------------------------------
(* Datagrams. *)

\* What the constants promise.
LEMMA NoVip == None \notin Vip /\ Super \notin Addr /\ MaxFaults \in Nat
BY SupernodeAssumption, OverlayAssumption

\* The empty peer list is a peer list.
LEMMA NoRoutesType == NoRoutes \in Routes
BY DEF NoRoutes, Routes

\* marshalPeerList's view of the peer table is a peer list.
LEMMA TableType == SuperTypeOK => Table \in Routes
BY DEF SuperTypeOK, Table, Routes, Known, Entry

\* Every datagram the two programs build is well formed.
LEMMA DatagramType ==
  ASSUME NEW t \in {"Register", "RegisterAck", "Heartbeat", "HeartbeatAck",
                    "PeerList", "Bye", "Data"},
         NEW from \in Addr \cup {Super}, NEW to \in Addr \cup {Super},
         NEW v \in Vip \cup {None}, NEW list \in Routes,
         t \in {"RegisterAck", "Heartbeat", "Bye"} => v \in Vip,
         t = "Heartbeat" => to = Super
  PROVE  PacketOK(Datagram(t, from, to, v, list))
BY DEF Datagram, PacketOK, Packet

\* Reading a datagram, once or twice, keeps the network well formed.
LEMMA ReceiveOK ==
  ASSUME NetOK, CountOK, NEW p, NEW out, \A q \in out : PacketOK(q), Receive(p, out)
  PROVE  NetOK' /\ CountOK'
<1>1. net' \subseteq net \cup out
  BY SMT DEF Receive, Fault
<1>2. faults' = faults \/ (faults < MaxFaults /\ faults' = faults + 1)
  BY SMT DEF Receive, Fault
<1>3. disturbed' \in BOOLEAN
  <2>1. CASE disturbed' = (disturbed \/ p.type \in {"Bye", "RegisterAck"})
    BY <2>1, Zenon
  <2>2. CASE UNCHANGED <<faults, disturbed>>
    BY <2>2, Zenon DEF CountOK
  <2> QED
    BY <2>1, <2>2 DEF Receive
<1>4. NetOK'
  <2>1. \A q \in net' : PacketOK(q)
    BY <1>1 DEF NetOK
  <2> QED BY <2>1 DEF NetOK, PacketOK
<1>5. faults' \in 0..MaxFaults
  BY <1>2, NoVip DEF CountOK
<1> QED
  BY <1>3, <1>4, <1>5 DEF CountOK

\* So does sending one.
LEMMA SendOK ==
  ASSUME NetOK, CountOK, NEW out, \A q \in out : PacketOK(q), Send(out)
  PROVE  NetOK' /\ CountOK'
<1>1. \A q \in net' : PacketOK(q)
  BY DEF Send, NetOK
<1> QED
  BY <1>1 DEF Send, NetOK, PacketOK, CountOK

\* And so does losing one.
LEMMA DropOK ==
  ASSUME NetOK, CountOK, net' \subseteq net,
         UNCHANGED faults \/ Fault, UNCHANGED disturbed \/ disturbed' \in BOOLEAN
  PROVE  NetOK' /\ CountOK'
<1>1. \A q \in net' : PacketOK(q)
  BY DEF NetOK
<1>2. faults' \in 0..MaxFaults
  BY NoVip DEF CountOK, Fault
<1> QED
  BY <1>1, <1>2 DEF NetOK, PacketOK, CountOK

------------------------------------------------------------------------------
(* The supernode's side: every step is one of module Supernode. *)

\* A step of a handler goroutine is one of module Supernode.
LEMMA SupernodeSide ==
  ASSUME NetOK, NEW g \in Gor, NEW e \in Edge,
         \/ RecvRegister(g, e) \/ AnswerRegister(g) \/ AnnouncePeer(g)
         \/ RecvHeartbeat(g, e) \/ AnswerHeartbeat(g)
         \/ RecvBye(g, e) \/ FinishBye(g) \/ RecvData(e)
  PROVE  [SuperNext]_superVars
<1> USE DEF Edge
<1>1. CASE RecvRegister(g, e)
  BY <1>1 DEF RecvRegister, SuperNext
<1>2. CASE AnswerRegister(g)
  BY <1>2 DEF AnswerRegister, SuperNext
<1>3. CASE AnnouncePeer(g)
  BY <1>3 DEF AnnouncePeer, SuperNext
<1>4. CASE RecvHeartbeat(g, e)
  <2>1. PICK p \in net : /\ p.type = "Heartbeat" /\ p.from = e
                         /\ HeartbeatRefresh(g, p.vip, p.from)
    BY <1>4 DEF RecvHeartbeat
  <2>2. p.vip \in Vip
    BY <2>1 DEF NetOK, PacketOK
  <2> QED
    BY <2>1, <2>2 DEF SuperNext
<1>5. CASE AnswerHeartbeat(g)
  BY <1>5 DEF AnswerHeartbeat, SuperNext
<1>6. CASE RecvBye(g, e)
  <2>1. PICK p \in net : /\ p.type = "Bye"
                         /\ ByeRelease(g, p.vip) \/ UNCHANGED superVars
    BY <1>6 DEF RecvBye
  <2>2. p.vip \in Vip
    BY <2>1 DEF NetOK, PacketOK
  <2> QED
    BY <2>1, <2>2 DEF SuperNext
<1>7. CASE FinishBye(g)
  BY <1>7 DEF FinishBye, SuperNext
<1>8. CASE RecvData(e)
  BY <1>8 DEF RecvData
<1> QED
  BY <1>1, <1>2, <1>3, <1>4, <1>5, <1>6, <1>7, <1>8

\* A step of the overlay is one of the supernode's or leaves it alone.
LEMMA ImplementsStep ==
  ASSUME NetOK, [OverlayNext]_vars
  PROVE  [SuperNext]_superVars
<1>1. CASE \E g \in Gor, e \in Edge :
             \/ RecvRegister(g, e) \/ RecvHeartbeat(g, e) \/ RecvBye(g, e)
  BY <1>1, SupernodeSide
<1>2. CASE \E g \in Gor : \/ AnswerRegister(g) \/ AnnouncePeer(g)
                          \/ AnswerHeartbeat(g) \/ FinishBye(g)
  BY <1>2 DEF AnswerRegister, AnnouncePeer, AnswerHeartbeat, FinishBye, SuperNext
<1>3. CASE \E e \in Edge : RecvData(e)
  BY <1>3 DEF RecvData
<1>4. CASE Cleanup
  BY <1>4 DEF Cleanup, SuperNext
<1>5. CASE \E e \in Edge : \/ EdgeStart(e) \/ EdgeRegistered(e) \/ EdgeTimeout(e)
                           \/ EdgeHeartbeat(e) \/ Discard(e) \/ EdgeStop(e)
                           \/ EdgeCrash(e)
  BY <1>5 DEF EdgeStart, EdgeRegistered, EdgeTimeout, EdgeHeartbeat, Discard,
              EdgeStop, EdgeCrash
<1>6. CASE \/ \E e \in Edge, t \in ToEdge : EdgeReceive(e, t)
           \/ \E e \in Edge, v \in Dest : EdgeSend(e, v)
  BY <1>6 DEF EdgeReceive, EdgeSend
<1>7. CASE Lose
  BY <1>7 DEF Lose
<1>8. CASE SuperRestart \/ Minute
  BY <1>8 DEF SuperRestart, Minute, SuperNext
<1>9. CASE UNCHANGED vars
  BY <1>9 DEF vars
<1> QED
  BY <1>1, <1>2, <1>3, <1>4, <1>5, <1>6, <1>7, <1>8, <1>9 DEF OverlayNext

------------------------------------------------------------------------------
(* Each group of actions keeps datagrams and edges well formed. *)

\* handlePacket's readers touch nothing of the edges.
LEMMA ReadersOK ==
  ASSUME OverlayInv, NEW g \in Gor, NEW e \in Edge,
         RecvRegister(g, e) \/ RecvHeartbeat(g, e) \/ RecvBye(g, e) \/ RecvData(e)
  PROVE  NetOK' /\ CountOK' /\ EdgesOK'
<1>1. UNCHANGED edgeVars
  BY DEF RecvRegister, RecvHeartbeat, RecvBye, RecvData
<1>2. EdgesOK'
  BY <1>1 DEF EdgesOK, edgeVars, OverlayInv
<1>3. PICK p : Receive(p, {})
  BY DEF RecvRegister, RecvHeartbeat, RecvBye, RecvData
<1> QED
  BY <1>2, <1>3, ReceiveOK DEF OverlayInv

\* The answers of the supernode carry addresses and peer lists.
LEMMA AnswersOK ==
  ASSUME OverlayInv, LeaseInv', NEW g \in Gor,
         AnswerRegister(g) \/ AnnouncePeer(g) \/ AnswerHeartbeat(g) \/ FinishBye(g)
  PROVE  NetOK' /\ CountOK' /\ EdgesOK'
<1> USE DEF OverlayInv
<1>1. UNCHANGED edgeVars
  BY DEF AnswerRegister, AnnouncePeer, AnswerHeartbeat, FinishBye
<1>2. EdgesOK'
  BY <1>1 DEF EdgesOK, edgeVars
<1>3. task[g].vip \in Vip \cup {None} /\ task[g].addr \in Addr \cup {None}
  BY DEF LeaseInv, SuperTypeOK, Task
<1>4. CASE AnswerRegister(g)
  <2>1. task[g].vip \in Vip /\ task[g].addr \in Addr
    BY <1>4 DEF AnswerRegister, RegisterInsert, LeaseInv, LockInv
  <2>2. Table' \in Routes
    <3>1. SuperTypeOK => Table \in Routes  BY TableType
    <3>2. SuperTypeOK'  BY DEF LeaseInv
    <3> QED BY <3>2 DEF SuperTypeOK, Table, Routes, Known, Entry
  <2>3. PacketOK(Datagram("RegisterAck", Super, task[g].addr, task[g].vip, Table'))
    BY <2>1, <2>2, DatagramType
  <2> QED
    BY <1>2, <1>4, <2>3, SendOK DEF AnswerRegister
<1>5. CASE AnnouncePeer(g)
  <2> DEFINE new == [NoRoutes EXCEPT ![task[g].vip] = task[g].addr]
             told == {peers[v].addr : v \in {w \in Vip : Known(w)}} \ {task[g].addr}
             out == {Datagram("PeerList", Super, a, task[g].vip, new) : a \in told}
  <2>1. new \in Routes
    BY <1>3 DEF NoRoutes, Routes
  <2>2. told \subseteq Addr
    BY DEF LeaseInv, SuperTypeOK, Known, Entry
  <2>3. \A q \in out : PacketOK(q)
    <3> HIDE DEF new, told
    <3> QED BY <1>3, <2>1, <2>2, DatagramType
  <2>4. Send(out)
    BY <1>5 DEF AnnouncePeer
  <2> HIDE DEF out
  <2> QED
    BY <1>2, <2>3, <2>4, SendOK
<1>6. CASE AnswerHeartbeat(g)
  <2> DEFINE ack == Datagram("HeartbeatAck", Super, task[g].addr, task[g].vip, Table)
  <2>1. task[g].addr \in Addr
    BY <1>6 DEF AnswerHeartbeat, HeartbeatReply, TasksOK
  <2>2. PacketOK(ack)
    BY <1>3, <2>1, TableType, DatagramType DEF LeaseInv
  <2>3. Send({ack})
    BY <1>6 DEF AnswerHeartbeat
  <2> HIDE DEF ack
  <2> QED
    BY <1>2, <2>2, <2>3, SendOK
<1>7. CASE FinishBye(g)
  BY <1>2, <1>7, DropOK DEF FinishBye
<1> QED
  BY <1>4, <1>5, <1>6, <1>7

\* A handler's task stays what the supernode's invariant says it is.
LEMMA TasksStep ==
  ASSUME SuperTypeOK, TasksOK, [SuperNext]_superVars
  PROVE  TasksOK'
<1> USE DEF TasksOK, SuperTypeOK, Task
<1>1. ASSUME NEW g \in Gor, NEW a \in Addr, RegisterAllocate(g, a) PROVE TasksOK'
  BY <1>1 DEF RegisterAllocate
<1>2. ASSUME NEW g \in Gor, RegisterInsert(g) \/ Broadcast(g) PROVE TasksOK'
  BY <1>2 DEF RegisterInsert, Broadcast, Idle
<1>3. ASSUME NEW g \in Gor, NEW v \in Vip, NEW a \in Addr, HeartbeatRefresh(g, v, a)
      PROVE  TasksOK'
  BY <1>3 DEF HeartbeatRefresh
<1>4. ASSUME NEW g \in Gor, NEW v \in Vip, ByeRelease(g, v) PROVE TasksOK'
  BY <1>4 DEF ByeRelease
<1>5. ASSUME NEW g \in Gor, HeartbeatReply(g) \/ ByeDelete(g) PROVE TasksOK'
  BY <1>5 DEF HeartbeatReply, ByeDelete, Idle
<1>6. CASE Restart
  BY <1>6 DEF Restart, Idle
<1>7. CASE \/ CleanupBegin \/ CleanupRelease \/ CleanupDelete \/ Tick
           \/ UNCHANGED superVars
  BY <1>7 DEF CleanupBegin, CleanupRelease, CleanupDelete, Tick, superVars
<1> QED
  BY <1>1, <1>2, <1>3, <1>4, <1>5, <1>6, <1>7 DEF SuperNext

\* The edge's own steps keep its address, table and heartbeat in line.
LEMMA EdgeSideOK ==
  ASSUME OverlayInv, NEW e \in Edge,
         \/ EdgeStart(e) \/ EdgeRegistered(e) \/ EdgeTimeout(e) \/ EdgeHeartbeat(e)
         \/ Discard(e) \/ EdgeStop(e) \/ EdgeCrash(e)
         \/ \E t \in ToEdge : EdgeReceive(e, t)
         \/ \E v \in Dest : EdgeSend(e, v)
  PROVE  NetOK' /\ CountOK' /\ EdgesOK'
<1> USE DEF OverlayInv
<1>0. /\ e \in Addr
      /\ None \notin Vip
      /\ Dest \subseteq Vip
      /\ status[e] = "up" => virtualIP[e] \in Vip
  BY NoVip, OverlayAssumption DEF Edge, EdgesOK
<1>1. CASE EdgeStart(e)
  <2>1. PacketOK(ToSuper("Register", e, None))
    BY <1>0, NoRoutesType, DatagramType DEF ToSuper
  <2>2. EdgesOK'
    BY <1>1 DEF EdgeStart, EdgesOK
  <2> QED
    BY <1>1, <2>1, <2>2, SendOK DEF EdgeStart
<1>2. CASE EdgeRegistered(e)
  <2>1. PICK p \in net : /\ status[e] = "registering"
                         /\ \/ /\ p.type = "RegisterAck"
                               /\ status' = [status EXCEPT ![e] = "up"]
                               /\ virtualIP' = [virtualIP EXCEPT ![e] = p.vip]
                               /\ due' = due \cup {e}
                            \/ /\ status' = [status EXCEPT ![e] = "down"]
                               /\ UNCHANGED <<virtualIP, due>>
                         /\ Receive(p, {})
                         /\ UNCHANGED known
    BY <1>2 DEF EdgeRegistered
  <2>2. p.type = "RegisterAck" => p.vip \in Vip
    BY <2>1 DEF NetOK, PacketOK
  <2>3. EdgesOK'
    BY <1>0, <2>1, <2>2 DEF EdgesOK
  <2> QED
    BY <2>1, <2>3, ReceiveOK
<1>3. CASE EdgeTimeout(e)
  <2>1. EdgesOK'
    BY <1>3 DEF EdgeTimeout, EdgesOK
  <2> QED
    BY <1>3, <2>1, DropOK DEF EdgeTimeout
<1>4. CASE EdgeHeartbeat(e)
  <2>1. PacketOK(ToSuper("Heartbeat", e, virtualIP[e]))
    BY <1>0, <1>4, NoRoutesType, DatagramType DEF ToSuper, EdgeHeartbeat, EdgesOK
  <2>2. EdgesOK'
    BY <1>4 DEF EdgeHeartbeat, EdgesOK
  <2> QED
    BY <1>4, <2>1, <2>2, SendOK DEF EdgeHeartbeat
<1>5. CASE Discard(e)
  <2>1. net' \subseteq net /\ UNCHANGED <<edgeVars, faults, disturbed>>
    BY <1>5 DEF Discard
  <2>2. EdgesOK'
    BY <2>1 DEF EdgesOK, edgeVars
  <2> QED
    BY <2>1, <2>2, DropOK
<1>6. CASE EdgeStop(e) \/ EdgeCrash(e)
  <2> DEFINE bye == ToSuper("Bye", e, virtualIP[e])
  <2>1. GoDown(e) /\ status[e] = "up" /\ Fault /\ UNCHANGED disturbed
        /\ net' \subseteq net \cup {bye}
    BY <1>6 DEF EdgeStop, EdgeCrash
  <2>2. EdgesOK'
    BY <2>1, NoRoutesType DEF GoDown, EdgesOK
  <2>3. PacketOK(bye)
    BY <1>0, <2>1, NoRoutesType, DatagramType DEF ToSuper
  <2>4. NetOK'
    <3> HIDE DEF bye
    <3>1. \A q \in net' : PacketOK(q)
      BY <2>1, <2>3 DEF NetOK
    <3> QED BY <3>1 DEF NetOK, PacketOK
  <2>5. CountOK'
    BY <2>1, NoVip DEF CountOK, Fault
  <2> QED
    BY <2>2, <2>4, <2>5
<1>7. ASSUME NEW t \in ToEdge, EdgeReceive(e, t) PROVE NetOK' /\ CountOK' /\ EdgesOK'
  <2>1. PICK p \in net : /\ known' = known \/ known' = [known EXCEPT ![e] = Merge(e, p.list)]
                         /\ Receive(p, {})
                         /\ UNCHANGED <<status, virtualIP, due>>
    BY <1>7 DEF EdgeReceive
  <2>2. p.list \in Routes
    BY <2>1 DEF NetOK, PacketOK, Packet
  <2>3. Merge(e, p.list) \in Routes
    BY <2>2 DEF Merge, Routes, EdgesOK
  <2>4. EdgesOK'
    BY <2>1, <2>3 DEF EdgesOK
  <2> QED
    BY <2>1, <2>4, ReceiveOK
<1>8. ASSUME NEW v \in Dest, EdgeSend(e, v) PROVE NetOK' /\ CountOK' /\ EdgesOK'
  <2> DEFINE to == IF known[e][v] # None THEN known[e][v] ELSE Super
  <2>1. to \in Addr \cup {Super}
    <3>1. known[e] \in Routes /\ v \in Vip
      BY <1>0 DEF EdgesOK, Edge
    <3>2. known[e][v] \in Addr \cup {None}
      BY <3>1 DEF Routes
    <3> QED BY <3>2
  <2>4. Send({Datagram("Data", e, to, v, NoRoutes)})
    BY <1>8 DEF EdgeSend
  <2> HIDE DEF to
  <2>2. PacketOK(Datagram("Data", e, to, v, NoRoutes))
    BY <1>0, <2>1, NoRoutesType, DatagramType
  <2>3. EdgesOK'
    BY <1>8 DEF EdgeSend, EdgesOK, edgeVars
  <2> QED
    BY <2>2, <2>3, <2>4, SendOK
<1> QED
  BY <1>1, <1>2, <1>3, <1>4, <1>5, <1>6, <1>7, <1>8

\* Loss, restart and the passing of a minute keep everything well formed.
LEMMA WorldOK ==
  ASSUME OverlayInv, Cleanup \/ Lose \/ SuperRestart \/ Minute \/ UNCHANGED vars
  PROVE  NetOK' /\ CountOK' /\ EdgesOK'
<1> USE DEF OverlayInv
<1>1. CASE Cleanup \/ Lose \/ SuperRestart \/ UNCHANGED vars
  <2>1. UNCHANGED edgeVars
    BY <1>1 DEF Cleanup, Lose, SuperRestart, vars
  <2>2. EdgesOK'
    BY <2>1 DEF EdgesOK, edgeVars
  <2>3. /\ net' \subseteq net
        /\ UNCHANGED faults \/ Fault
        /\ UNCHANGED disturbed \/ disturbed' \in BOOLEAN
    <3>1. CASE Cleanup \/ UNCHANGED vars
      BY <3>1 DEF Cleanup, vars
    <3>2. CASE SuperRestart
      BY <3>2 DEF SuperRestart
    <3>3. CASE Lose
      <4>1. PICK p \in net : net' = net \ {p} /\ Fault
                             /\ disturbed' = (disturbed \/ p.type = "Heartbeat")
        BY <3>3 DEF Lose
      <4>2. disturbed' \in BOOLEAN
        BY <4>1, Zenon
      <4> QED BY <4>1, <4>2
    <3> QED BY <1>1, <3>1, <3>2, <3>3
  <2> QED
    BY <2>2, <2>3, DropOK
<1>2. CASE Minute
  <2>1. EdgesOK'
    BY <1>2 DEF Minute, EdgesOK
  <2> QED
    BY <1>2, <2>1, DropOK DEF Minute
<1> QED
  BY <1>1, <1>2

\* Start finds no datagram, no edge and no fault.
LEMMA OverlayStart == OverlayInit => OverlayInv
<1> SUFFICES ASSUME OverlayInit PROVE OverlayInv
  OBVIOUS
<1>1. LeaseInv
  BY LeaseInit DEF OverlayInit
<1>2. TasksOK
  BY DEF OverlayInit, SuperInit, TasksOK, Idle
<1>3. NetOK
  BY DEF OverlayInit, NetOK
<1>4. EdgesOK
  BY NoRoutesType DEF OverlayInit, EdgesOK
<1>5. faults \in 0..MaxFaults
  BY NoVip DEF OverlayInit
<1>6. disturbed \in BOOLEAN
  BY Zenon DEF OverlayInit
<1> QED
  BY <1>1, <1>2, <1>3, <1>4, <1>5, <1>6 DEF OverlayInv, CountOK

\* Every step of the overlay preserves the type invariant.
LEMMA OverlayStep == OverlayInv /\ [OverlayNext]_vars => OverlayInv'
<1> SUFFICES ASSUME OverlayInv, [OverlayNext]_vars PROVE OverlayInv'
  OBVIOUS
<1>1. [SuperNext]_superVars
  BY ImplementsStep DEF OverlayInv
<1>2. LeaseInv'
  BY <1>1, LeaseStep DEF OverlayInv
<1>3. TasksOK'
  BY <1>1, TasksStep DEF OverlayInv, LeaseInv
<1>4. NetOK' /\ CountOK' /\ EdgesOK'
  <2>1. CASE \E g \in Gor, e \in Edge : RecvRegister(g, e)
    BY <2>1, ReadersOK
  <2>2. CASE \E g \in Gor, e \in Edge : RecvHeartbeat(g, e)
    BY <2>2, ReadersOK
  <2>3. CASE \E g \in Gor, e \in Edge : RecvBye(g, e)
    BY <2>3, ReadersOK
  <2>4. CASE \E e \in Edge : RecvData(e)
    <3>1. PICK e \in Edge : RecvData(e)
      BY <2>4
    <3>2. EdgesOK'
      BY <3>1 DEF RecvData, EdgesOK, edgeVars, OverlayInv
    <3>3. PICK p : Receive(p, {})
      BY <3>1 DEF RecvData
    <3> QED
      BY <3>2, <3>3, ReceiveOK DEF OverlayInv
  <2>5. CASE \E g \in Gor : AnswerRegister(g)
    BY <1>2, <2>5, AnswersOK
  <2>6. CASE \E g \in Gor : AnnouncePeer(g)
    BY <1>2, <2>6, AnswersOK
  <2>7. CASE \E g \in Gor : AnswerHeartbeat(g)
    BY <1>2, <2>7, AnswersOK
  <2>8. CASE \E g \in Gor : FinishBye(g)
    BY <1>2, <2>8, AnswersOK
  <2>9. CASE \E e \in Edge :
               \/ EdgeStart(e) \/ EdgeRegistered(e) \/ EdgeTimeout(e)
               \/ EdgeHeartbeat(e) \/ Discard(e) \/ EdgeStop(e) \/ EdgeCrash(e)
               \/ \E t \in ToEdge : EdgeReceive(e, t)
               \/ \E v \in Dest : EdgeSend(e, v)
    BY <2>9, EdgeSideOK
  <2>10. CASE Cleanup \/ Lose \/ SuperRestart \/ Minute \/ UNCHANGED vars
    BY <2>10, WorldOK
  <2> QED
    BY <2>1, <2>2, <2>3, <2>4, <2>5, <2>6, <2>7, <2>8, <2>9, <2>10 DEF OverlayNext
<1> QED
  BY <1>2, <1>3, <1>4 DEF OverlayInv

\* Every datagram, edge and entry of the overlay is well formed.
THEOREM OverlayTypeCorrect == OverlaySpec => []OverlayTypeOK
<1>1. OverlayInv => OverlayTypeOK
  <2> SUFFICES ASSUME OverlayInv PROVE OverlayTypeOK
    OBVIOUS
  <2>1. SuperTypeOK
    BY DEF OverlayInv, LeaseInv
  <2>2. net \subseteq Packet
    BY DEF OverlayInv, NetOK, PacketOK
  <2>3. EdgesOK /\ CountOK
    BY DEF OverlayInv
  <2> QED
    BY <2>1, <2>2, <2>3, Zenon DEF EdgesOK, CountOK, OverlayTypeOK
<1> QED
  BY <1>1, OverlayStart, OverlayStep, PTL DEF OverlaySpec

\* Between edges that come and go and a network that loses, duplicates and
\* reorders, the supernode still does nothing but its handlers: the overlay
\* implements module Supernode.
THEOREM OverlayImplementsSupernode == OverlaySpec => RefinesSupernode
<1>1. OverlayInit => SuperInit
  BY DEF OverlayInit
<1>2. OverlayInv /\ [OverlayNext]_vars => [SuperNext]_superVars
  BY ImplementsStep DEF OverlayInv
<1> QED
  BY <1>1, <1>2, OverlayStart, OverlayStep, PTL
  DEF OverlaySpec, RefinesSupernode, SuperSpec

\* So no two edges ever share an address of the pool and none is ever lost.
THEOREM OverlayLeasesSound == OverlaySpec => [](NoDoubleLease /\ NoLeak)
<1>1. SuperSpec => [](NoDoubleLease /\ NoLeak)
  BY LeasesAreExclusive, PoolNeverLeaks, PTL
<1> QED
  BY <1>1, OverlayImplementsSupernode DEF RefinesSupernode
------------------------------------------------------------------------------
(* No edge loses its lease but by the faults named. *)

\* The entry of v is e's, it is not stale and nobody is about to remove it.
LeasedTo(v, e) ==
  /\ Known(v) /\ peers[v].addr = e /\ peers[v].age <= Timeout
  /\ v \notin sweep.todo
  /\ \A g \in Gor : task[g].op = "bye" => task[g].vip # v

\* A datagram that gives an address to an edge or gives one back for it.
Claims(p) == p.type \in {"RegisterAck", "Bye"}

Claimant(p) == IF p.type = "Bye" THEN p.from ELSE p.to

\* What a register acknowledgement or a bye in flight says is true, and no
\* other datagram or edge lays claim to the same address.
ClaimsHeld ==
  \A p \in net : Claims(p) =>
    /\ LeasedTo(p.vip, Claimant(p))
    /\ p.type = "RegisterAck" => peers[p.vip].age = 0
    /\ \A e \in Edge : virtualIP[e] # p.vip
    /\ \A q \in net : Claims(q) /\ q.vip = p.vip => q = p

Beating(e) == e \in due \/ \E p \in net : p.type = "Heartbeat" /\ p.vip = virtualIP[e]

\* An edge that is up has its entry, as old as the heartbeat it still owes.
EdgesHeld ==
  \A e \in Edge : status[e] = "up" =>
    /\ LeasedTo(virtualIP[e], e)
    /\ peers[virtualIP[e]].age = 0 \/ (peers[virtualIP[e]].age = 1 /\ Beating(e))

HeldInv == ClaimsHeld /\ EdgesHeld

HeldUnlessDisturbed == disturbed \/ HeldInv

\* v is spoken for after the step.
Claimed(v) == \/ \E p \in net : Claims(p) /\ p.vip = v
              \/ \E e \in Edge : virtualIP[e] = v

\* A claim is laid by an edge, to an address of the pool that is leased to it.
LEMMA ClaimTrue ==
  ASSUME SuperTypeOK, NetOK, HeldInv, NEW p \in net, Claims(p)
  PROVE  /\ p.vip \in Vip /\ p.vip # None
         /\ Claimant(p) \in Edge /\ LeasedTo(p.vip, Claimant(p))
<1>1. p.vip \in Vip /\ p.vip # None /\ LeasedTo(p.vip, Claimant(p))
  BY NoVip DEF HeldInv, ClaimsHeld, NetOK, PacketOK, Claims
<1>2. peers[p.vip].addr \in Addr /\ peers[p.vip].addr = Claimant(p)
  BY <1>1 DEF LeasedTo, Known, SuperTypeOK, Entry
<1> QED BY <1>1, <1>2 DEF Edge

\* A step that adds no claim, keeps the entries still claimed as young as they
\* were, and silences no heartbeat that is owed.
LEMMA NoNewClaim ==
  ASSUME SuperTypeOK, NetOK, EdgesOK, EdgesOK', HeldInv,
         \A q \in net' : Claims(q) => q \in net,
         \A e \in Edge : /\ status'[e] = "up" => status[e] = "up" /\ virtualIP'[e] = virtualIP[e]
                         /\ virtualIP'[e] \in {virtualIP[e], None},
         \A v \in Vip, e \in Edge : LeasedTo(v, e) /\ Claimed(v)' =>
            LeasedTo(v, e)' /\ (peers'[v].age = peers[v].age \/ peers'[v].age = 0),
         \A e \in Edge : status'[e] = "up" /\ Beating(e) =>
            Beating(e)' \/ peers'[virtualIP[e]].age = 0
  PROVE  HeldInv'
<1>1. ClaimsHeld'
  <2> SUFFICES ASSUME NEW p \in net', Claims(p)
               PROVE  /\ LeasedTo(p.vip, Claimant(p))'
                      /\ p.type = "RegisterAck" => peers'[p.vip].age = 0
                      /\ \A e \in Edge : virtualIP'[e] # p.vip
                      /\ \A q \in net' : Claims(q) /\ q.vip = p.vip => q = p
    BY DEF ClaimsHeld, Claims, Claimant
  <2>1. /\ p \in net /\ p.vip \in Vip /\ LeasedTo(p.vip, Claimant(p))
        /\ p.vip # None /\ Claimant(p) \in Edge
    BY ClaimTrue
  <2>2. p.type = "RegisterAck" => peers[p.vip].age = 0
    BY <2>1 DEF HeldInv, ClaimsHeld
  <2>3. Claimed(p.vip)'
    BY DEF Claimed, Claims
  <2>4. LeasedTo(p.vip, Claimant(p))' /\ (p.type = "RegisterAck" => peers'[p.vip].age = 0)
    BY <2>1, <2>2, <2>3
  <2>5. \A e \in Edge : virtualIP'[e] # p.vip
    BY <2>1 DEF HeldInv, ClaimsHeld
  <2>6. \A q \in net' : Claims(q) /\ q.vip = p.vip => q = p
    BY <2>1 DEF HeldInv, ClaimsHeld
  <2> QED BY <2>4, <2>5, <2>6
<1>2. EdgesHeld'
  <2> SUFFICES ASSUME NEW e \in Edge, status'[e] = "up"
               PROVE  /\ LeasedTo(virtualIP[e], e)' /\ virtualIP'[e] = virtualIP[e]
                      /\ \/ peers'[virtualIP[e]].age = 0
                         \/ peers'[virtualIP[e]].age = 1 /\ Beating(e)'
    BY DEF EdgesHeld, Edge, LeasedTo, Known
  <2>1. status[e] = "up" /\ virtualIP'[e] = virtualIP[e] /\ virtualIP[e] \in Vip
    BY DEF EdgesOK
  <2>2. /\ LeasedTo(virtualIP[e], e)
        /\ peers[virtualIP[e]].age = 0 \/ (peers[virtualIP[e]].age = 1 /\ Beating(e))
    BY <2>1 DEF HeldInv, EdgesHeld
  <2>3. Claimed(virtualIP[e])'
    BY <2>1 DEF Claimed, Edge
  <2> QED BY <2>1, <2>2, <2>3
<1> QED
  BY <1>1, <1>2 DEF HeldInv

\* A step that leaves the supernode and the addresses of edges alone.
LEMMA Bystander ==
  ASSUME SuperTypeOK, NetOK, EdgesOK, EdgesOK', HeldInv, UNCHANGED superVars, UNCHANGED virtualIP,
         \A q \in net' : Claims(q) => q \in net,
         \A e \in Edge : status'[e] = "up" => status[e] = "up",
         \A e \in Edge : status'[e] = "up" /\ Beating(e) => Beating(e)'
  PROVE  HeldInv'
<1>1. \A v \in Vip, e \in Edge : LeasedTo(v, e) =>
         LeasedTo(v, e)' /\ peers'[v].age = peers[v].age
  BY DEF superVars, LeasedTo, Known
<1>2. \A e \in Edge : /\ status'[e] = "up" => status[e] = "up" /\ virtualIP'[e] = virtualIP[e]
                      /\ virtualIP'[e] \in {virtualIP[e], None}
  OBVIOUS
<1> QED
  BY <1>1, <1>2, NoNewClaim

\* What the supernode does to a lease that nobody asks it to end.
LEMMA HandlersKeep ==
  ASSUME OverlayInv, NEW v \in Vip, NEW e \in Edge, LeasedTo(v, e),
         NEW g, NEW w \in Vip, NEW a \in Addr,
         \/ /\ g \in Gor
            /\ \/ RegisterAllocate(g, a) \/ HeartbeatRefresh(g, w, a)
               \/ w # v /\ ByeRelease(g, w)
               \/ Broadcast(g) \/ HeartbeatReply(g) \/ RegisterInsert(g) \/ ByeDelete(g)
         \/ CleanupBegin \/ CleanupRelease \/ CleanupDelete
  PROVE  LeasedTo(v, e)' /\ (peers'[v].age = peers[v].age \/ peers'[v].age = 0)
<1> USE SupernodeAssumption DEF Edge, LeasedTo, Known, OverlayInv, LeaseInv, SuperTypeOK, Task, Entry, Age
<1>1. CASE g \in Gor /\ RegisterAllocate(g, a)
  BY <1>1 DEF RegisterAllocate
<1>2. CASE g \in Gor /\ HeartbeatRefresh(g, w, a)
  <2>1. peers[v] \in Entry
    OBVIOUS
  <2>2. peers'[v] = peers[v] \/ peers'[v] = [peers[v] EXCEPT !.age = 0]
    BY <1>2 DEF HeartbeatRefresh
  <2>5. [peers[v] EXCEPT !.age = 0] = [addr |-> e, age |-> 0]
    BY <2>1
  <2>6. [addr |-> e, age |-> 0] \in Entry
    BY <2>1
  <2>3. peers'[v] # None /\ peers'[v].addr = e /\ (peers'[v].age = peers[v].age \/ peers'[v].age = 0)
    BY <2>2, <2>5, <2>6
  <2>4. \A h \in Gor : task'[h].op = "bye" => task[h].op = "bye" /\ task'[h].vip = task[h].vip
    BY <1>2 DEF HeartbeatRefresh
  <2> QED BY <1>2, <2>3, <2>4 DEF HeartbeatRefresh
<1>3. CASE g \in Gor /\ w # v /\ ByeRelease(g, w)
  BY <1>3 DEF ByeRelease
<1>4. CASE g \in Gor /\ (Broadcast(g) \/ HeartbeatReply(g))
  BY <1>4 DEF Broadcast, HeartbeatReply, Idle
<1>5. CASE g \in Gor /\ RegisterInsert(g)
  <2>1. task[g].vip \in Vip /\ ~Known(task[g].vip)
    BY <1>5 DEF RegisterInsert, LockInv, NoDoubleLease, Pending, Released
  <2>2. peers'[v] = peers[v]
    BY <1>5, <2>1 DEF RegisterInsert
  <2>3. \A h \in Gor : task'[h].op = "bye" => task[h].op = "bye" /\ task'[h].vip = task[h].vip
    BY <1>5 DEF RegisterInsert
  <2> QED BY <1>5, <2>2, <2>3 DEF RegisterInsert
<1>6. CASE g \in Gor /\ ByeDelete(g)
  <2>1. task[g].vip # v /\ task[g].vip \in Vip
    BY <1>6 DEF ByeDelete, LockInv
  <2>2. peers'[v] = peers[v]
    BY <1>6, <2>1 DEF ByeDelete
  <2>3. \A h \in Gor : task'[h].op = "bye" => task[h].op = "bye" /\ task'[h].vip = task[h].vip
    BY <1>6 DEF ByeDelete, Idle
  <2> QED BY <1>6, <2>2, <2>3 DEF ByeDelete
<1>7. CASE CleanupBegin
  BY <1>7 DEF CleanupBegin, Stale
<1>8. CASE CleanupRelease
  BY <1>8 DEF CleanupRelease
<1>9. CASE CleanupDelete
  <2>1. sweep.cur \in sweep.todo
    BY <1>9 DEF CleanupDelete, LockInv
  <2> QED BY <1>9, <2>1 DEF CleanupDelete
<1> HIDE DEF Edge, LeasedTo, Known, OverlayInv, LeaseInv, SuperTypeOK, Task, Entry, Age
<1> QED
  BY <1>1, <1>2, <1>3, <1>4, <1>5, <1>6, <1>7, <1>8, <1>9

\* The supernode's side.
LEMMA SupernodeKeepsLeases ==
  ASSUME OverlayInv, OverlayInv', HeldInv, ~disturbed', NEW g, NEW e,
         \/ /\ g \in Gor /\ e \in Edge
            /\ RecvRegister(g, e) \/ RecvHeartbeat(g, e) \/ RecvBye(g, e)
         \/ g \in Gor /\ (AnnouncePeer(g) \/ AnswerHeartbeat(g) \/ FinishBye(g))
         \/ RecvData(e) \/ Cleanup
  PROVE  HeldInv'
<1>1. UNCHANGED <<status, virtualIP, due>>
  BY DEF RecvRegister, AnnouncePeer, RecvHeartbeat, AnswerHeartbeat, RecvBye, FinishBye,
         RecvData, Cleanup, edgeVars
<1>2. \A f \in Edge : /\ status'[f] = "up" => status[f] = "up" /\ virtualIP'[f] = virtualIP[f]
                      /\ virtualIP'[f] \in {virtualIP[f], None}
  BY <1>1
<1>3. SuperTypeOK /\ NetOK /\ EdgesOK /\ EdgesOK'
  BY DEF OverlayInv, LeaseInv
<1>4. ASSUME NEW p \in net, p.type # "Heartbeat", net' = net \/ net' = net \ {p}
      PROVE  /\ \A q \in net' : Claims(q) => q \in net
             /\ \A f \in Edge : Beating(f) => Beating(f)'
  BY <1>1, <1>4 DEF Beating
<1>5. ASSUME NEW v \in Vip, NEW f \in Edge, LeasedTo(v, f),
             \/ /\ g \in Gor
                /\ \/ \E a \in Addr : RegisterAllocate(g, a)
                   \/ \E w \in Vip, a \in Addr : HeartbeatRefresh(g, w, a)
                   \/ \E w \in Vip : w # v /\ ByeRelease(g, w)
                   \/ Broadcast(g) \/ HeartbeatReply(g) \/ ByeDelete(g)
             \/ CleanupBegin \/ CleanupRelease \/ CleanupDelete
      PROVE  LeasedTo(v, f)' /\ (peers'[v].age = peers[v].age \/ peers'[v].age = 0)
  BY <1>5, HandlersKeep DEF Edge
<1> DEFINE Kept(v, f) == LeasedTo(v, f)' /\ (peers'[v].age = peers[v].age \/ peers'[v].age = 0)
<1>6. ASSUME NEW p \in net, p.type # "Heartbeat", net' = net \/ net' = net \ {p},
             \A v \in Vip, f \in Edge : LeasedTo(v, f) => Kept(v, f)
      PROVE  HeldInv'
  BY <1>2, <1>3, <1>4, <1>6, NoNewClaim
<1>7. CASE g \in Gor /\ e \in Edge /\ RecvRegister(g, e)
  <2>1. PICK p \in net : /\ p.type = "Register"
                         /\ net' = net \/ net' = net \ {p}
                         /\ RegisterAllocate(g, p.from) \/ UNCHANGED superVars
                         /\ p.from = e
    BY <1>7 DEF RecvRegister, Receive
  <2>2. ASSUME NEW v \in Vip, NEW f \in Edge, LeasedTo(v, f) PROVE Kept(v, f)
    BY <1>5, <1>7, <2>1, <2>2 DEF superVars, LeasedTo, Known, Edge
  <2> QED BY <1>6, <2>1, <2>2
<1>8. CASE g \in Gor /\ AnnouncePeer(g)
  <2> DEFINE new == [NoRoutes EXCEPT ![task[g].vip] = task[g].addr]
             told == {peers[v].addr : v \in {w \in Vip : Known(w)}} \ {task[g].addr}
             out == {Datagram("PeerList", Super, a, task[g].vip, new) : a \in told}
  <2>1. Broadcast(g) /\ Send(out)
    BY <1>8 DEF AnnouncePeer
  <2>2. \A q \in out : ~Claims(q)
    BY DEF Datagram, Claims
  <2> HIDE DEF out
  <2>3. /\ \A q \in net' : Claims(q) => q \in net
        /\ \A f \in Edge : Beating(f) => Beating(f)'
    BY <1>1, <2>1, <2>2 DEF Send, Beating
  <2>4. ASSUME NEW v \in Vip, NEW f \in Edge, LeasedTo(v, f) PROVE Kept(v, f)
    BY <1>5, <1>8, <2>1, <2>4
  <2> QED BY <1>2, <1>3, <2>3, <2>4, NoNewClaim
<1>9. CASE g \in Gor /\ e \in Edge /\ RecvHeartbeat(g, e)
  <2>1. PICK p \in net : /\ p.type = "Heartbeat"
                         /\ net' = net \/ net' = net \ {p}
                         /\ p.from = e /\ HeartbeatRefresh(g, p.vip, p.from)
    BY <1>9 DEF RecvHeartbeat, Receive
  <2>2. p.vip \in Vip
    BY <1>3, <2>1 DEF NetOK, PacketOK
  <2>3. ASSUME NEW v \in Vip, NEW f \in Edge, LeasedTo(v, f) PROVE Kept(v, f)
    BY <1>5, <1>9, <2>1, <2>2, <2>3 DEF Edge
  <2>4. ASSUME NEW f \in Edge, status'[f] = "up", Beating(f)
        PROVE  Beating(f)' \/ peers'[virtualIP[f]].age = 0
    <3>1. CASE p.vip # virtualIP[f]
      BY <1>1, <2>1, <2>4, <3>1 DEF Beating
    <3>2. CASE p.vip = virtualIP[f]
      <4>1. Known(p.vip)
        BY <1>1, <2>4, <3>2 DEF HeldInv, EdgesHeld, LeasedTo
      <4>2. peers[p.vip] \in Entry
        BY <1>3, <2>2, <4>1 DEF SuperTypeOK, Known
      <4>3. peers'[p.vip] = [peers[p.vip] EXCEPT !.age = 0]
        BY <1>3, <2>1, <2>2, <4>1 DEF HeartbeatRefresh, SuperTypeOK
      <4> QED BY <3>2, <4>2, <4>3 DEF Entry
    <3> QED BY <3>1, <3>2
  <2> QED BY <1>2, <1>3, <2>1, <2>3, <2>4, NoNewClaim
<1>10. CASE g \in Gor /\ AnswerHeartbeat(g)
  <2> DEFINE ack == Datagram("HeartbeatAck", Super, task[g].addr, task[g].vip, Table)
  <2>1. HeartbeatReply(g) /\ Send({ack}) /\ ~Claims(ack)
    BY <1>10 DEF AnswerHeartbeat, Datagram, Claims
  <2> HIDE DEF ack
  <2>3. /\ \A q \in net' : Claims(q) => q \in net
        /\ \A f \in Edge : Beating(f) => Beating(f)'
    BY <1>1, <2>1 DEF Send, Beating
  <2>4. ASSUME NEW v \in Vip, NEW f \in Edge, LeasedTo(v, f) PROVE Kept(v, f)
    BY <1>5, <1>10, <2>1, <2>4
  <2> QED BY <1>2, <1>3, <2>3, <2>4, NoNewClaim
<1>11. CASE g \in Gor /\ e \in Edge /\ RecvBye(g, e)
  <2>1. PICK p \in net : /\ p.type = "Bye" /\ net' = net \ {p}
                         /\ ByeRelease(g, p.vip) \/ UNCHANGED superVars
    BY <1>11 DEF RecvBye, Receive
  <2>2. p.vip \in Vip /\ Claims(p)
    BY <1>3, <2>1 DEF NetOK, PacketOK, Claims
  <2>3. ~Claimed(p.vip)'
    BY <1>1, <2>1, <2>2 DEF Claimed, Claims, HeldInv, ClaimsHeld
  <2>4. ASSUME NEW v \in Vip, NEW f \in Edge, LeasedTo(v, f), v # p.vip PROVE Kept(v, f)
    BY <1>5, <1>11, <2>1, <2>2, <2>4 DEF superVars, LeasedTo, Known
  <2>5. /\ \A q \in net' : Claims(q) => q \in net
        /\ \A f \in Edge : Beating(f) => Beating(f)'
    BY <1>4, <2>1
  <2> QED BY <1>2, <1>3, <2>3, <2>4, <2>5, NoNewClaim
<1>12. CASE (g \in Gor /\ FinishBye(g)) \/ Cleanup
  <2>1. UNCHANGED net
    BY <1>12 DEF FinishBye, Cleanup
  <2>2. ASSUME NEW v \in Vip, NEW f \in Edge, LeasedTo(v, f) PROVE Kept(v, f)
    BY <1>5, <1>12, <2>2 DEF FinishBye, Cleanup
  <2>3. \A f \in Edge : Beating(f) => Beating(f)'
    BY <1>1, <2>1 DEF Beating
  <2> QED BY <1>2, <1>3, <2>1, <2>2, <2>3, NoNewClaim
<1>13. CASE RecvData(e)
  <2>1. PICK p \in net : p.type = "Data" /\ net' \in {net, net \ {p}}
    BY <1>13 DEF RecvData, Receive
  <2>2. UNCHANGED superVars
    BY <1>13 DEF RecvData
  <2>3. ASSUME NEW v \in Vip, NEW f \in Edge, LeasedTo(v, f) PROVE Kept(v, f)
    BY <2>2, <2>3 DEF superVars, LeasedTo, Known
  <2> QED BY <1>6, <2>1, <2>3
<1> QED
  BY <1>7, <1>8, <1>9, <1>10, <1>11, <1>12, <1>13

\* An edge that goes down gives up its claim; the rest stays.
LEMMA Leaving ==
  ASSUME SuperTypeOK, NetOK, EdgesOK, EdgesOK', HeldInv, UNCHANGED superVars, UNCHANGED net,
         NEW e \in Edge, GoDown(e)
  PROVE  HeldInv'
<1>1. \A f \in Edge : /\ status'[f] = "up" => /\ status[f] = "up" /\ f # e
                                             /\ virtualIP'[f] = virtualIP[f]
                      /\ virtualIP'[f] \in {virtualIP[f], None}
  BY DEF GoDown, EdgesOK
<1>2. \A v \in Vip, f \in Edge : LeasedTo(v, f) =>
         LeasedTo(v, f)' /\ peers'[v].age = peers[v].age
  BY DEF superVars, LeasedTo, Known
<1>3. \A f \in Edge : status'[f] = "up" /\ Beating(f) => Beating(f)'
  BY <1>1 DEF GoDown, Beating
<1> QED
  BY <1>1, <1>2, <1>3, NoNewClaim

\* Where nothing of the edges' leases is involved.
LEMMA EdgeKeepsLeases ==
  ASSUME OverlayInv, OverlayInv', HeldInv, ~disturbed', NEW e,
         \/ /\ e \in Edge
            /\ \/ EdgeStart(e) \/ EdgeTimeout(e) \/ EdgeHeartbeat(e)
               \/ Discard(e) \/ EdgeCrash(e)
               \/ \E t \in ToEdge : EdgeReceive(e, t)
               \/ \E v \in Dest : EdgeSend(e, v)
         \/ Lose \/ UNCHANGED vars
  PROVE  HeldInv'
<1>1. SuperTypeOK /\ NetOK /\ EdgesOK /\ EdgesOK'
  BY DEF OverlayInv, LeaseInv
<1>2. UNCHANGED superVars
  BY DEF EdgeStart, EdgeTimeout, EdgeHeartbeat, Discard, EdgeCrash, EdgeReceive, EdgeSend,
         Lose, vars
<1>3. ASSUME UNCHANGED virtualIP, \A q \in net' : Claims(q) => q \in net,
             \A f \in Edge : status'[f] = "up" => status[f] = "up",
             \A f \in Edge : Beating(f) => Beating(f)'
      PROVE  HeldInv'
  BY <1>1, <1>2, <1>3, Bystander
<1>4. CASE e \in Edge /\ EdgeStart(e)
  <2>1. ~Claims(ToSuper("Register", e, None))
    BY DEF Claims, ToSuper, Datagram
  <2>2. /\ \A q \in net' : Claims(q) => q \in net
        /\ \A f \in Edge : Beating(f) => Beating(f)'
    BY <1>4, <2>1 DEF EdgeStart, Send, Beating
  <2>3. \A f \in Edge : status'[f] = "up" => status[f] = "up"
    BY <1>1, <1>4 DEF EdgeStart, EdgesOK
  <2> QED BY <1>3, <1>4, <2>2, <2>3 DEF EdgeStart
<1>5. CASE e \in Edge /\ EdgeTimeout(e)
  <2>1. \A f \in Edge : status'[f] = "up" => status[f] = "up"
    BY <1>1, <1>5 DEF EdgeTimeout, EdgesOK
  <2>2. \A f \in Edge : Beating(f) => Beating(f)'
    BY <1>5 DEF EdgeTimeout, Beating
  <2> QED BY <1>3, <1>5, <2>1, <2>2 DEF EdgeTimeout
<1>6. CASE e \in Edge /\ EdgeHeartbeat(e)
  <2> DEFINE p == ToSuper("Heartbeat", e, virtualIP[e])
  <2>1. p.type = "Heartbeat" /\ p.vip = virtualIP[e] /\ ~Claims(p)
    BY DEF Claims, ToSuper, Datagram
  <2>2. net' = net \cup {p} /\ due' = due \ {e} /\ UNCHANGED <<status, virtualIP>>
    BY <1>6 DEF EdgeHeartbeat, Send
  <2> HIDE DEF p
  <2>3. \A f \in Edge : Beating(f) => Beating(f)'
    BY <2>1, <2>2 DEF Beating
  <2> QED BY <1>3, <2>1, <2>2, <2>3
<1>7. CASE e \in Edge /\ Discard(e)
  <2>1. PICK p \in net : p.to = e /\ net' = net \ {p} /\ UNCHANGED edgeVars
    BY <1>7 DEF Discard
  <2>2. p.type # "Heartbeat"
    BY <1>1, <1>7, <2>1, NoVip DEF NetOK, PacketOK, Edge
  <2>3. \A f \in Edge : Beating(f) => Beating(f)'
    BY <2>1, <2>2 DEF Beating, edgeVars
  <2> QED BY <1>3, <2>1, <2>3 DEF edgeVars
<1>8. CASE e \in Edge /\ EdgeCrash(e)
  <2>1. GoDown(e) /\ UNCHANGED net
    BY <1>8 DEF EdgeCrash
  <2> QED BY <1>1, <1>2, <1>8, <2>1, Leaving
<1>9. ASSUME e \in Edge, NEW t \in ToEdge, EdgeReceive(e, t) PROVE HeldInv'
  <2>1. PICK p \in net : /\ p.type = t /\ p.type # "Heartbeat"
                         /\ net' = net \/ net' = net \ {p}
                         /\ UNCHANGED <<status, virtualIP, due>>
    BY <1>9 DEF EdgeReceive, Receive, ToEdge
  <2>2. \A f \in Edge : Beating(f) => Beating(f)'
    BY <2>1 DEF Beating
  <2> QED BY <1>3, <2>1, <2>2
<1>10. ASSUME e \in Edge, NEW v \in Dest, EdgeSend(e, v) PROVE HeldInv'
  <2> DEFINE to == IF known[e][v] # None THEN known[e][v] ELSE Super
             p == Datagram("Data", e, to, v, NoRoutes)
  <2>1. net' = net \cup {p} /\ UNCHANGED edgeVars
    BY <1>10 DEF EdgeSend, Send
  <2>2. ~Claims(p)
    BY DEF Claims, Datagram
  <2> HIDE DEF p
  <2>3. \A f \in Edge : Beating(f) => Beating(f)'
    BY <2>1 DEF Beating, edgeVars
  <2> QED BY <1>3, <2>1, <2>2, <2>3 DEF edgeVars
<1>11. CASE Lose
  <2>1. PICK p \in net : /\ p.type # "Heartbeat" /\ net' = net \ {p}
                         /\ UNCHANGED edgeVars
    BY <1>11 DEF Lose
  <2>2. \A f \in Edge : Beating(f) => Beating(f)'
    BY <2>1 DEF Beating, edgeVars
  <2> QED BY <1>3, <2>1, <2>2 DEF edgeVars
<1>12. CASE UNCHANGED vars
  <2>1. UNCHANGED <<net, status, virtualIP, due>>
    BY <1>12 DEF vars, edgeVars
  <2>2. \A f \in Edge : Beating(f) => Beating(f)'
    BY <2>1 DEF Beating
  <2> QED BY <1>3, <2>1, <2>2
<1> QED
  BY <1>4, <1>5, <1>6, <1>7, <1>8, <1>9, <1>10, <1>11, <1>12

\* The acknowledgement of a registration is the first claim on its address: with
\* s.mu free, what waits for insertion has no entry, and a claim has one.
LEMMA AnswerClaims ==
  ASSUME OverlayInv, OverlayInv', HeldInv, NEW g \in Gor, AnswerRegister(g)
  PROVE  HeldInv'
<1>1. PICK v \in Vip, a \in Addr :
        /\ RegisterInsert(g) /\ task[g].op = "insert" /\ mu = None
        /\ task[g].vip = v /\ task[g].addr = a
        /\ UNCHANGED <<status, virtualIP, due>>
  BY DEF AnswerRegister, RegisterInsert, edgeVars, OverlayInv, LeaseInv, LockInv
<1> DEFINE ack == Datagram("RegisterAck", Super, a, v, Table')
<1>2. net' = net \cup {ack}
  BY <1>1 DEF AnswerRegister, Send
<1>3. ack.type = "RegisterAck" /\ ack.to = a /\ ack.vip = v
  BY DEF Datagram
<1> HIDE DEF ack
<1>4. ~Known(v)
  BY <1>1, SupernodeAssumption DEF OverlayInv, LeaseInv, NoDoubleLease, Pending, Released
<1>5. ASSUME NEW w \in Vip, NEW f \in Edge, LeasedTo(w, f)
      PROVE  /\ w # v /\ LeasedTo(w, f)'
             /\ peers'[w].age = peers[w].age \/ peers'[w].age = 0
  BY <1>1, <1>4, <1>5, HandlersKeep DEF LeasedTo
<1>6. LeasedTo(v, a)' /\ peers'[v].age = 0
  <2>1. sweep.todo = {} /\ \A h \in Gor : task[h].op # "bye"
    BY <1>1, SupernodeAssumption DEF OverlayInv, LeaseInv, LockInv
  <2>2. sweep' = sweep /\ \A h \in Gor : task'[h].op # "bye"
    BY <1>1, <2>1 DEF RegisterInsert, OverlayInv, LeaseInv, SuperTypeOK, Task
  <2>3. peers'[v] = [addr |-> a, age |-> 0]
    BY <1>1 DEF RegisterInsert, OverlayInv, LeaseInv, SuperTypeOK
  <2>4. peers'[v] # None
    BY <1>1, <2>3, SupernodeAssumption DEF Entry, Age
  <2> QED
    BY <2>1, <2>2, <2>3, <2>4, SupernodeAssumption DEF LeasedTo, Known
<1>7. /\ \A q \in net : Claims(q) => /\ q.vip \in Vip /\ Claimant(q) \in Edge
                                     /\ LeasedTo(q.vip, Claimant(q)) /\ q.vip # v
      /\ \A e \in Edge : status[e] = "up" => virtualIP[e] \in Vip /\ LeasedTo(virtualIP[e], e)
      /\ \A e \in Edge : virtualIP[e] # v
  <2>1. ASSUME NEW q \in net, Claims(q)
        PROVE  q.vip \in Vip /\ Claimant(q) \in Edge /\ LeasedTo(q.vip, Claimant(q))
    BY <2>1, ClaimTrue DEF OverlayInv, LeaseInv
  <2>2. ASSUME NEW e \in Edge, status[e] = "up"
        PROVE  virtualIP[e] \in Vip /\ LeasedTo(virtualIP[e], e)
    BY <2>2 DEF HeldInv, EdgesHeld, OverlayInv, EdgesOK
  <2>3. ASSUME NEW e \in Edge PROVE virtualIP[e] # v
    BY <1>1, <1>4, <2>2, NoVip DEF LeasedTo, OverlayInv, EdgesOK
  <2> QED BY <1>5, <2>1, <2>2, <2>3
<1>8. ClaimsHeld'
  <2> SUFFICES ASSUME NEW p \in net', Claims(p)
               PROVE  /\ LeasedTo(p.vip, Claimant(p))'
                      /\ p.type = "RegisterAck" => peers'[p.vip].age = 0
                      /\ \A e \in Edge : virtualIP'[e] # p.vip
                      /\ \A q \in net' : Claims(q) /\ q.vip = p.vip => q = p
    BY DEF ClaimsHeld, Claims, Claimant
  <2>1. CASE p = ack
    BY <1>1, <1>2, <1>3, <1>6, <1>7, <2>1 DEF Claimant
  <2>2. CASE p \in net
    <3>1. /\ LeasedTo(p.vip, Claimant(p))'
          /\ peers[p.vip].age = 0 => peers'[p.vip].age = 0
      BY <1>5, <1>7, <2>2
    <3>2. /\ p.type = "RegisterAck" => peers[p.vip].age = 0
          /\ \A e \in Edge : virtualIP[e] # p.vip
          /\ \A q \in net : Claims(q) /\ q.vip = p.vip => q = p
      BY <2>2 DEF HeldInv, ClaimsHeld
    <3> QED BY <1>1, <1>2, <1>3, <1>7, <2>2, <3>1, <3>2
  <2> QED BY <1>2, <2>1, <2>2
<1>9. EdgesHeld'
  <2>1. \A f \in Edge : Beating(f) => Beating(f)'
    BY <1>1, <1>2 DEF Beating
  <2> SUFFICES ASSUME NEW e \in Edge, status[e] = "up"
               PROVE  /\ LeasedTo(virtualIP[e], e)'
                      /\ \/ peers'[virtualIP[e]].age = 0
                         \/ peers'[virtualIP[e]].age = 1 /\ Beating(e)'
    BY <1>1 DEF EdgesHeld, Edge, LeasedTo, Known
  <2>2. peers[virtualIP[e]].age = 0 \/ (peers[virtualIP[e]].age = 1 /\ Beating(e))
    BY DEF HeldInv, EdgesHeld
  <2> QED BY <1>1, <1>5, <1>7, <2>1, <2>2
<1> QED
  BY <1>8, <1>9 DEF HeldInv

\* The claim passes from the acknowledgement to the edge that reads it.
LEMMA RegisteredClaims ==
  ASSUME OverlayInv, OverlayInv', HeldInv, ~disturbed', NEW e \in Edge, EdgeRegistered(e)
  PROVE  HeldInv'
<1>1. PICK p \in net :
        /\ p.to = e /\ status[e] = "registering"
        /\ IF p.type = "RegisterAck"
           THEN /\ status' = [status EXCEPT ![e] = "up"]
                /\ virtualIP' = [virtualIP EXCEPT ![e] = p.vip]
                /\ due' = due \cup {e}
           ELSE /\ status' = [status EXCEPT ![e] = "down"]
                /\ UNCHANGED <<virtualIP, due>>
        /\ Receive(p, {})
        /\ UNCHANGED superVars
  BY DEF EdgeRegistered
<1>2. SuperTypeOK /\ NetOK /\ EdgesOK /\ EdgesOK'
  BY DEF OverlayInv, LeaseInv
<1>3. p.type # "Heartbeat"
  BY <1>1, <1>2, NoVip DEF NetOK, PacketOK, Edge
<1>4. net' \subseteq net /\ net \ {p} \subseteq net' /\ (Claims(p) /\ p.type # "Bye" => p \notin net')
  BY <1>1 DEF Receive, Claims
<1>5. \A f \in Edge : Beating(f) /\ (status[f] = "up") => Beating(f)'
  BY <1>1, <1>2, <1>3, <1>4 DEF Beating, EdgesOK
<1>6. CASE p.type # "RegisterAck"
  <2>1. \A f \in Edge : status'[f] = "up" => status[f] = "up"
    BY <1>1, <1>2, <1>6 DEF EdgesOK
  <2> QED
    BY <1>1, <1>2, <1>4, <1>5, <1>6, <2>1, Bystander
<1>7. CASE p.type = "RegisterAck"
  <2>1. Claims(p) /\ Claimant(p) = e /\ p \notin net' /\ p.vip \in Vip
    BY <1>1, <1>2, <1>4, <1>7 DEF Claims, Claimant, NetOK, PacketOK
  <2>2. /\ LeasedTo(p.vip, e) /\ peers[p.vip].age = 0
        /\ \A f \in Edge : virtualIP[f] # p.vip
        /\ \A q \in net : Claims(q) /\ q.vip = p.vip => q = p
    BY <1>7, <2>1 DEF HeldInv, ClaimsHeld
  <2>3. /\ status'[e] = "up" /\ virtualIP'[e] = p.vip
        /\ \A f \in Edge : f # e => status'[f] = status[f] /\ virtualIP'[f] = virtualIP[f]
    BY <1>1, <1>2, <1>7 DEF EdgesOK
  <2>4. \A w, f : LeasedTo(w, f) => LeasedTo(w, f)' /\ peers' = peers
    BY <1>1 DEF superVars, LeasedTo, Known
  <2>5. peers' = peers
    BY <1>1 DEF superVars
  <2>6. ClaimsHeld'
    <3> SUFFICES ASSUME NEW q \in net', Claims(q)
                 PROVE  /\ LeasedTo(q.vip, Claimant(q))'
                        /\ q.type = "RegisterAck" => peers'[q.vip].age = 0
                        /\ \A f \in Edge : virtualIP'[f] # q.vip
                        /\ \A r \in net' : Claims(r) /\ r.vip = q.vip => r = q
      BY DEF ClaimsHeld, Claims, Claimant
    <3>1. q \in net /\ q # p
      BY <1>4, <2>1
    <3>2. /\ LeasedTo(q.vip, Claimant(q))
          /\ q.type = "RegisterAck" => peers[q.vip].age = 0
          /\ \A f \in Edge : virtualIP[f] # q.vip
          /\ \A r \in net : Claims(r) /\ r.vip = q.vip => r = q
      BY <3>1 DEF HeldInv, ClaimsHeld
    <3> QED BY <1>4, <2>2, <2>3, <2>4, <2>5, <3>1, <3>2
  <2>7. EdgesHeld'
    <3> SUFFICES ASSUME NEW f \in Edge, status'[f] = "up"
                 PROVE  /\ LeasedTo(virtualIP[f], f)'
                        /\ \/ peers'[virtualIP'[f]].age = 0
                           \/ peers'[virtualIP'[f]].age = 1 /\ Beating(f)'
      BY DEF EdgesHeld, Edge, LeasedTo, Known
    <3>1. CASE f = e
      BY <2>2, <2>3, <2>4, <2>5, <3>1
    <3>2. CASE f # e
      <4>1. /\ status[f] = "up" /\ LeasedTo(virtualIP[f], f)
            /\ peers[virtualIP[f]].age = 0 \/ (peers[virtualIP[f]].age = 1 /\ Beating(f))
        BY <2>3, <3>2 DEF HeldInv, EdgesHeld
      <4> QED BY <1>5, <2>3, <2>4, <2>5, <3>2, <4>1
    <3> QED BY <3>1, <3>2
  <2> QED BY <2>6, <2>7 DEF HeldInv
<1> QED
  BY <1>6, <1>7

\* An edge that stops hands its claim to its bye.
LEMMA StopClaims ==
  ASSUME OverlayInv, OverlayInv', HeldInv, NEW e \in Edge, EdgeStop(e)
  PROVE  HeldInv'
<1> DEFINE bye == ToSuper("Bye", e, virtualIP[e])
<1>1. /\ status[e] = "up" /\ GoDown(e) /\ net' = net \cup {bye} /\ UNCHANGED superVars
  BY DEF EdgeStop
<1>2. bye.type = "Bye" /\ bye.from = e /\ bye.vip = virtualIP[e]
  BY DEF ToSuper, Datagram
<1> HIDE DEF bye
<1>3. SuperTypeOK /\ NetOK /\ EdgesOK /\ EdgesOK'
  BY DEF OverlayInv, LeaseInv
<1>4. virtualIP[e] \in Vip /\ LeasedTo(virtualIP[e], e)
  BY <1>1, <1>3 DEF EdgesOK, HeldInv, EdgesHeld
<1>5. \A w, f : LeasedTo(w, f) => LeasedTo(w, f)'
  BY <1>1 DEF superVars, LeasedTo, Known
<1>6. peers' = peers
  BY <1>1 DEF superVars
<1>7. /\ status'[e] = "down" /\ virtualIP'[e] = None
      /\ \A f \in Edge : f # e => status'[f] = status[f] /\ virtualIP'[f] = virtualIP[f]
  BY <1>1, <1>3 DEF GoDown, EdgesOK
<1>8. ASSUME NEW f \in Edge, f # e PROVE virtualIP[f] # virtualIP[e]
  <2>1. peers[virtualIP[e]].addr = e
    BY <1>4 DEF LeasedTo
  <2>2. virtualIP[f] # None => peers[virtualIP[f]].addr = f
    BY <1>3 DEF EdgesOK, HeldInv, EdgesHeld, LeasedTo
  <2> QED BY <1>4, <1>8, <2>1, <2>2, NoVip
<1>9. ClaimsHeld'
  <2> SUFFICES ASSUME NEW q \in net', Claims(q)
               PROVE  /\ LeasedTo(q.vip, Claimant(q))'
                      /\ q.type = "RegisterAck" => peers'[q.vip].age = 0
                      /\ \A f \in Edge : virtualIP'[f] # q.vip
                      /\ \A r \in net' : Claims(r) /\ r.vip = q.vip => r = q
    BY DEF ClaimsHeld, Claims, Claimant
  <2>1. \A r \in net : Claims(r) => r.vip # virtualIP[e]
    BY DEF HeldInv, ClaimsHeld
  <2>2. CASE q = bye
    BY <1>1, <1>2, <1>4, <1>5, <1>7, <1>8, <2>1, <2>2, NoVip DEF Claimant
  <2>3. CASE q \in net
    <3>1. /\ LeasedTo(q.vip, Claimant(q)) /\ q.vip \in Vip
          /\ q.type = "RegisterAck" => peers[q.vip].age = 0
          /\ \A f \in Edge : virtualIP[f] # q.vip
          /\ \A r \in net : Claims(r) /\ r.vip = q.vip => r = q
      BY <1>3, <2>3 DEF HeldInv, ClaimsHeld, NetOK, PacketOK, Claims
    <3> QED BY <1>1, <1>2, <1>5, <1>6, <1>7, <2>1, <2>3, <3>1, NoVip
  <2> QED BY <1>1, <2>2, <2>3
<1>10. EdgesHeld'
  <2> SUFFICES ASSUME NEW f \in Edge, status'[f] = "up"
               PROVE  /\ LeasedTo(virtualIP[f], f)'
                      /\ \/ peers'[virtualIP'[f]].age = 0
                         \/ peers'[virtualIP'[f]].age = 1 /\ Beating(f)'
    BY DEF EdgesHeld, Edge, LeasedTo, Known
  <2>1. f # e /\ status[f] = "up" /\ virtualIP'[f] = virtualIP[f]
    BY <1>7
  <2>2. /\ LeasedTo(virtualIP[f], f)
        /\ peers[virtualIP[f]].age = 0 \/ (peers[virtualIP[f]].age = 1 /\ Beating(f))
    BY <2>1 DEF HeldInv, EdgesHeld
  <2>3. Beating(f) => Beating(f)'
    BY <1>1, <2>1 DEF Beating, GoDown
  <2> QED BY <1>5, <1>6, <2>1, <2>2, <2>3
<1> QED
  BY <1>9, <1>10 DEF HeldInv

\* At the end of a minute nothing is in flight and every edge that is up has
\* been heard of in it; now it owes the next heartbeat.
LEMMA MinuteClaims ==
  ASSUME OverlayInv, OverlayInv', HeldInv, Minute
  PROVE  HeldInv'
<1>1. /\ net = {} /\ net' = {} /\ due = {} /\ Tick
      /\ due' = {e \in Edge : status[e] = "up"} /\ UNCHANGED <<status, virtualIP>>
  BY DEF Minute, Quiet
<1>2. ClaimsHeld'
  BY <1>1 DEF ClaimsHeld
<1>3. EdgesHeld'
  <2> SUFFICES ASSUME NEW e \in Edge, status[e] = "up"
               PROVE  /\ LeasedTo(virtualIP[e], e)'
                      /\ peers'[virtualIP[e]].age = 1 /\ Beating(e)'
    BY <1>1 DEF EdgesHeld, Edge, LeasedTo, Known
  <2> DEFINE v == virtualIP[e]
  <2>1. v \in Vip /\ LeasedTo(v, e) /\ peers[v].age = 0
    BY <1>1 DEF HeldInv, EdgesHeld, Beating, OverlayInv, EdgesOK
  <2>2. peers'[v] = [peers[v] EXCEPT !.age = @ + 1]
    BY <1>1, <2>1 DEF Tick, LeasedTo
  <2>3. peers[v] \in Entry
    BY <2>1 DEF LeasedTo, Known, OverlayInv, LeaseInv, SuperTypeOK
  <2>4. 1 \in Age /\ 1 <= Timeout
    BY SupernodeAssumption, OverlayAssumption DEF Age
  <2>5. peers'[v] = [addr |-> e, age |-> 1]
    BY <2>1, <2>2, <2>3 DEF Entry, LeasedTo
  <2>6. peers'[v] # None
    BY <2>4, <2>5, SupernodeAssumption DEF Entry, Edge
  <2>7. UNCHANGED <<task, sweep>>
    BY <1>1 DEF Tick
  <2>8. LeasedTo(v, e)'
    BY <2>1, <2>4, <2>5, <2>6, <2>7, <1>1 DEF LeasedTo, Known
  <2> QED BY <1>1, <2>5, <2>8 DEF Beating
<1> QED
  BY <1>2, <1>3 DEF HeldInv

\* No fault undoes another.
LEMMA DisturbedStays ==
  ASSUME [OverlayNext]_vars, disturbed
  PROVE  disturbed'
<1>1. ASSUME NEW p, Receive(p, {}) PROVE disturbed'
  BY <1>1, Zenon DEF Receive
<1>2. ASSUME NEW out, Send(out) PROVE disturbed'
  BY <1>2 DEF Send
<1>3. CASE UNCHANGED disturbed
  BY <1>3
<1>4. CASE \E p : Receive(p, {})
  BY <1>1, <1>4
<1>5. CASE \E out : Send(out)
  BY <1>2, <1>5
<1>6. CASE Lose
  BY <1>6, Zenon DEF Lose
<1>7. CASE SuperRestart
  BY <1>7 DEF SuperRestart
<1>8. CASE \E g \in Gor, e \in Edge :
             \/ RecvRegister(g, e) \/ RecvHeartbeat(g, e) \/ RecvBye(g, e)
  BY <1>4, <1>8 DEF RecvRegister, RecvHeartbeat, RecvBye
<1>9. CASE \E e \in Edge : \/ RecvData(e) \/ EdgeRegistered(e)
                           \/ \E t \in ToEdge : EdgeReceive(e, t)
  BY <1>4, <1>9 DEF RecvData, EdgeRegistered, EdgeReceive
<1>10. CASE \E g \in Gor : AnswerRegister(g) \/ AnnouncePeer(g) \/ AnswerHeartbeat(g)
  BY <1>5, <1>10 DEF AnswerRegister, AnnouncePeer, AnswerHeartbeat
<1>11. CASE \E e \in Edge : \/ EdgeStart(e) \/ EdgeHeartbeat(e)
                            \/ \E v \in Dest : EdgeSend(e, v)
  BY <1>5, <1>11 DEF EdgeStart, EdgeHeartbeat, EdgeSend
<1>12. CASE \/ \E g \in Gor : FinishBye(g)
            \/ \E e \in Edge : EdgeTimeout(e) \/ Discard(e) \/ EdgeStop(e) \/ EdgeCrash(e)
            \/ Cleanup \/ Minute \/ UNCHANGED vars
  BY <1>3, <1>12 DEF FinishBye, EdgeTimeout, Discard, EdgeStop, EdgeCrash, Cleanup, Minute, vars
<1> QED
  BY <1>6, <1>7, <1>8, <1>9, <1>10, <1>11, <1>12 DEF OverlayNext

\* Every step of an undisturbed overlay keeps the leases and the claims on them.
LEMMA HeldStep ==
  OverlayInv /\ HeldUnlessDisturbed /\ [OverlayNext]_vars => HeldUnlessDisturbed'
<1> SUFFICES ASSUME OverlayInv, HeldUnlessDisturbed, [OverlayNext]_vars, ~disturbed'
             PROVE  HeldInv'
  BY Zenon DEF HeldUnlessDisturbed
<1>1. OverlayInv'
  BY OverlayStep
<1>2. HeldInv
  BY DisturbedStays DEF HeldUnlessDisturbed
<1>3. CASE \E g \in Gor, e \in Edge :
             \/ RecvRegister(g, e) \/ RecvHeartbeat(g, e) \/ RecvBye(g, e)
  BY <1>1, <1>2, <1>3, SupernodeKeepsLeases
<1>4. CASE \E g \in Gor : AnswerRegister(g)
  BY <1>1, <1>2, <1>4, AnswerClaims
<1>5. CASE \E e \in Edge : EdgeRegistered(e)
  BY <1>1, <1>2, <1>5, RegisteredClaims
<1>6. CASE \E e \in Edge : EdgeStop(e)
  BY <1>1, <1>2, <1>6, StopClaims
<1>7. CASE Minute
  BY <1>1, <1>2, <1>7, MinuteClaims
<1>8. CASE SuperRestart
  BY <1>8 DEF SuperRestart
<1>9. CASE \E e \in Edge : \/ EdgeStart(e) \/ EdgeTimeout(e) \/ EdgeHeartbeat(e)
                           \/ Discard(e) \/ EdgeCrash(e)
                           \/ \E t \in ToEdge : EdgeReceive(e, t)
                           \/ \E v \in Dest : EdgeSend(e, v)
  BY <1>1, <1>2, <1>9, EdgeKeepsLeases
<1>10. CASE \/ \E g \in Gor : AnnouncePeer(g) \/ AnswerHeartbeat(g) \/ FinishBye(g)
            \/ \E e \in Edge : RecvData(e)
            \/ Cleanup
  BY <1>1, <1>2, <1>10, SupernodeKeepsLeases
<1>11. CASE Lose \/ UNCHANGED vars
  BY <1>1, <1>2, <1>11, EdgeKeepsLeases
<1> QED
  BY <1>3, <1>4, <1>5, <1>6, <1>7, <1>8, <1>9, <1>10, <1>11 DEF OverlayNext

\* An edge that is up is registered under its own real address, and its entry is
\* as young as the heartbeat it owes, unless one of the faults named happened.
THEOREM LeaseAlwaysHeld == OverlaySpec => []LeaseHeldUnlessDisturbed
<1>1. OverlayInit => HeldUnlessDisturbed
  BY DEF OverlayInit, HeldUnlessDisturbed, HeldInv, ClaimsHeld, EdgesHeld
<1>2. ASSUME OverlayInv, HeldUnlessDisturbed PROVE LeaseHeldUnlessDisturbed
  <2>1. HeldInv => \A e \in Edge : status[e] = "up" => HoldsLease(e)
    BY <1>2 DEF HeldInv, EdgesHeld, LeasedTo, HoldsLease, OverlayInv, EdgesOK
  <2> QED BY <1>2, <2>1, Zenon DEF HeldUnlessDisturbed, LeaseHeldUnlessDisturbed
<1> QED
  BY <1>1, <1>2, OverlayStart, OverlayStep, HeldStep, PTL DEF OverlaySpec
==============================================================================
