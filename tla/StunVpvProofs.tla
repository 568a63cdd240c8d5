---------------------------- MODULE StunVpvProofs ----------------------------
(***************************************************************************)
(* StunVpv, for every pool, every number of clients and of goroutines: the *)
(* variables keep their types, no address of the pool is ever lost, and,   *)
(* unless one of the faults named happened, every client that is up holds  *)
(* its address and what is relayed goes where it is addressed to.          *)
(***************************************************************************)
EXTENDS StunVpv, TLAPS

\* A datagram is well formed, where its reader takes a virtual address out of
\* it there is one, and registers go to the server.
PacketOK(p) ==
  /\ p \in Packet
  /\ p.type \in {"RegisterAck", "Data"} => p.vip \in Vip
  /\ p.type = "Register" => p.to = Server

NetOK == \A p \in net : PacketOK(p)

\* A handler knows what it works on.
TaskOK ==
  /\ task \in [Gor -> Task]
  /\ \A g \in Gor : task[g].op # "idle" => task[g].vip \in Vip /\ task[g].addr \in Addr
  /\ \A g \in Gor : task[g].op = "relay" => task[g].to \in Addr

TableOK ==
  /\ used \subseteq Vip
  /\ peers \in [Vip -> Entry \cup {None}]
  /\ vipIndex \in [Addr -> Vip \cup {None}]
  /\ sweep \subseteq Registered

ClientsOK ==
  /\ status \in [Addr -> {"new", "binding", "registering", "up", "gone"}]
  /\ virtualIP \in [Addr -> Vip \cup {None}]
  /\ known \in [Addr -> SUBSET Vip]
  /\ due \subseteq {a \in Addr : status[a] = "up"}
  /\ \A a \in Addr : status[a] = "up" <=> virtualIP[a] # None

CountOK == faults \in 0..MaxFaults /\ disturbed \in BOOLEAN

\* The inductive invariant.
VpnInv == NetOK /\ TaskOK /\ TableOK /\ NoLeak /\ ClientsOK /\ CountOK

Pending(g, v) == task[g].op = "insert" /\ task[g].vip = v

------------------------------------------------------------------------------
(* Datagrams and counters. *)

\* What the constants promise.
LEMMA Constants ==
  /\ None \notin Vip /\ None \notin Addr /\ None \notin Entry
  /\ Server \notin Addr /\ Dest \subseteq Vip
  /\ MaxFaults \in Nat /\ Timeout \in Nat
BY StunAssumption

\* What a client sends is well formed.
LEMMA ToServerOK ==
  ASSUME NEW t \in {"Stun", "Register", "Data"}, NEW a \in Addr, NEW v \in Vip \cup {None},
         t = "Data" => v \in Vip
  PROVE  PacketOK(ToServer(t, a, v))
BY DEF ToServer, Blank, PacketOK, Packet

\* What the server answers is well formed.
LEMMA ToClientOK ==
  ASSUME NEW t \in {"StunAck", "RegisterAck", "PeerList"}, NEW a \in Addr,
         NEW v \in Vip \cup {None}, NEW list \in SUBSET Vip,
         t = "RegisterAck" => v \in Vip
  PROVE  PacketOK(ToClient(t, a, v, list))
BY DEF ToClient, Blank, PacketOK, Packet

\* Sending keeps the network well formed.
LEMMA SendOK ==
  ASSUME NetOK, CountOK, NEW out, \A q \in out : PacketOK(q), Send(out)
  PROVE  NetOK' /\ CountOK'
<1>1. net' = net \cup out /\ UNCHANGED faultVars
  BY DEF Send
<1>2. \A q \in net' : PacketOK(q)
  BY <1>1 DEF NetOK
<1>3. CountOK'
  BY <1>1, Zenon DEF CountOK, faultVars
<1> QED
  BY <1>2, <1>3 DEF NetOK, PacketOK

\* The fault counter stays within its bound.
LEMMA FaultOK ==
  ASSUME CountOK, UNCHANGED faults \/ Fault
  PROVE  faults' \in 0..MaxFaults
BY Constants DEF CountOK, Fault

\* Reading a datagram, once or twice, keeps the network well formed.
LEMMA ReceiveOK ==
  ASSUME NetOK, CountOK, NEW p, NEW out, \A q \in out : PacketOK(q), Receive(p, out)
  PROVE  NetOK' /\ CountOK'
<1>1. net' \subseteq net \cup out
  BY SMT DEF Receive
<1>2. \A q \in net' : PacketOK(q)
  BY <1>1 DEF NetOK
<1>3. faults' \in 0..MaxFaults
  <2>1. UNCHANGED faults \/ Fault
    BY SMT DEF Receive, faultVars
  <2> QED BY <2>1, FaultOK
<1>4. disturbed' \in BOOLEAN
  <2>1. CASE disturbed' = (disturbed \/ (p.type = "Register" /\ p.vip = None))
    BY <2>1, Zenon
  <2>2. CASE UNCHANGED faultVars
    BY <2>2, Zenon DEF CountOK, faultVars
  <2> QED BY <2>1, <2>2 DEF Receive
<1> QED
  BY <1>2, <1>3, <1>4 DEF NetOK, PacketOK, CountOK

\* A step that leaves the pool and the table alone and drops no register in
\* flight loses no address.
LEMMA SameLeases ==
  ASSUME NoLeak, used \subseteq Vip, used' = used, peers' = peers,
         \A v \in Vip, h \in Gor : Pending(h, v) => Pending(h, v)'
  PROVE  NoLeak'
BY DEF NoLeak, Known, Pending

------------------------------------------------------------------------------
(* The server. *)

\* handlePacket's first step for each type of datagram.
LEMMA RecvStep ==
  ASSUME VpnInv, NEW g \in Gor, NEW a \in Addr, RecvFrom(g, a)
  PROVE  VpnInv'
<1> USE DEF VpnInv
<1>1. UNCHANGED clientVars
  BY DEF RecvFrom, RecvStun, RecvRegister, RelayLookup
<1>2. ClientsOK'
  BY <1>1 DEF ClientsOK, clientVars
<1>3. CASE RecvStun(g, a)
  <2>1. PacketOK(ToClient("StunAck", a, None, {}))
    BY ToClientOK
  <2>2. PICK p \in net : Receive(p, {ToClient("StunAck", a, None, {})})
    BY <1>3 DEF RecvStun
  <2>3. NetOK' /\ CountOK'
    BY <2>1, <2>2, ReceiveOK
  <2>4. UNCHANGED serverVars
    BY <1>3 DEF RecvStun
  <2>5. TaskOK' /\ TableOK' /\ NoLeak'
    BY <2>4 DEF serverVars, TaskOK, TableOK, NoLeak, Known, Registered
  <2> QED BY <1>2, <2>3, <2>5
<1>4. CASE RecvRegister(g, a)
  <2>1. PICK p : Receive(p, {})
    BY <1>4 DEF RecvRegister
  <2>2. NetOK' /\ CountOK'
    BY <2>1, ReceiveOK
  <2>3. UNCHANGED <<peers, vipIndex, sweep>> /\ task[g] = Idle
    BY <1>4 DEF RecvRegister
  <2>4. CASE UNCHANGED <<used, task>>
    BY <1>2, <2>2, <2>3, <2>4 DEF TaskOK, TableOK, NoLeak, Known, Registered
  <2>5. ASSUME NEW v \in Vip, used' = used \cup {v} \/ used' = used,
               task' = [task EXCEPT ![g] = [Idle EXCEPT !.op = "insert", !.vip = v, !.addr = a]]
        PROVE  VpnInv'
    <3>1. TaskOK'
      BY <2>5 DEF TaskOK, Task, Idle
    <3>2. TableOK'
      BY <2>3, <2>5 DEF TableOK, Registered, Known
    <3>3. task'[g].op = "insert" /\ task'[g].vip = v
      BY <2>5 DEF TaskOK, Idle
    <3>4. \A h \in Gor : task[h].op = "insert" => task'[h] = task[h]
      BY <2>3, <2>5 DEF TaskOK, Idle
    <3>5. NoLeak'
      BY <2>3, <2>5, <3>3, <3>4 DEF NoLeak, Known
    <3> QED BY <1>2, <2>2, <3>1, <3>2, <3>5
  <2> QED BY <1>4, <2>4, <2>5 DEF RecvRegister
<1>5. CASE RelayLookup(g, a)
  <2>1. PICK p \in net :
          /\ p.type = "Data" /\ task[g] = Idle
          /\ task' = IF Known(p.vip)
                     THEN [task EXCEPT ![g] = [Idle EXCEPT !.op = "relay", !.vip = p.vip,
                                                 !.addr = a, !.to = peers[p.vip].addr]]
                     ELSE task
          /\ Receive(p, {})
          /\ UNCHANGED <<used, peers, vipIndex, sweep>>
    BY <1>5 DEF RelayLookup
  <2>2. NetOK' /\ CountOK'
    BY <2>1, ReceiveOK
  <2>3. p.vip \in Vip
    BY <2>1 DEF NetOK, PacketOK
  <2>4. Known(p.vip) => peers[p.vip].addr \in Addr
    BY <2>3 DEF Known, TableOK, Entry
  <2>5. TaskOK'
    BY <2>1, <2>3, <2>4 DEF TaskOK, Task, Idle
  <2>6. \A h \in Gor : task[h].op = "insert" => task'[h] = task[h]
    BY <2>1 DEF TaskOK, Idle
  <2>7. TableOK'
    BY <2>1 DEF TableOK, Registered, Known
  <2>8. \A v \in Vip, h \in Gor : Pending(h, v) => Pending(h, v)'
    BY <2>6 DEF Pending
  <2>9. NoLeak'
    BY <2>1, <2>8, SameLeases DEF TableOK
  <2> QED BY <1>2, <2>2, <2>5, <2>7, <2>9
<1> QED
  BY <1>3, <1>4, <1>5 DEF RecvFrom

\* What a handler goroutine still has to do.
LEMMA ProceedStep ==
  ASSUME VpnInv, NEW g \in Gor, Proceed(g)
  PROVE  VpnInv'
<1> USE DEF VpnInv
<1>1. UNCHANGED clientVars
  BY DEF Proceed, RegisterInsert, BroadcastSnapshot, BroadcastSend, RelaySend
<1>2. ClientsOK'
  BY <1>1 DEF ClientsOK, clientVars
<1>3. CASE RegisterInsert(g)
  <2> DEFINE v == task[g].vip
             a == task[g].addr
  <2>1. v \in Vip /\ a \in Addr
    BY <1>3 DEF RegisterInsert, TaskOK
  <2>2. /\ peers' = [peers EXCEPT ![v] = [addr |-> a, age |-> 0]]
        /\ vipIndex' = [vipIndex EXCEPT ![a] = v]
        /\ Send({ToClient("RegisterAck", a, v, Registered')})
        /\ task' = [task EXCEPT ![g].op = "snapshot"]
        /\ UNCHANGED <<used, sweep>>
    BY <1>3 DEF RegisterInsert
  <2>3. PacketOK(ToClient("RegisterAck", a, v, Registered'))
    BY <2>1, ToClientOK DEF Registered
  <2>4. NetOK' /\ CountOK'
    BY <2>2, <2>3, SendOK
  <2>5. TaskOK'
    BY <2>1, <2>2 DEF TaskOK, Task
  <2>6. [addr |-> a, age |-> 0] \in Entry
    BY <2>1, Constants DEF Entry
  <2>7. \A w \in Vip : Known(w)' <=> Known(w) \/ w = v
    BY <2>1, <2>2, <2>6, Constants DEF Known, TableOK
  <2>8. TableOK'
    BY <2>1, <2>2, <2>6, <2>7 DEF TableOK, Registered
  <2>9. \A h \in Gor : h # g => task'[h] = task[h]
    BY <2>2 DEF TaskOK
  <2>10. NoLeak'
    BY <2>2, <2>7, <2>9 DEF NoLeak, TableOK
  <2> QED BY <1>2, <2>4, <2>5, <2>8, <2>10
<1>4. CASE BroadcastSnapshot(g)
  <2>1. NetOK' /\ CountOK' /\ TableOK'
    <3>1. UNCHANGED <<used, peers, vipIndex, sweep, net, faults, disturbed>>
      BY <1>4 DEF BroadcastSnapshot, faultVars
    <3>2. NetOK' /\ TableOK'
      BY <3>1 DEF NetOK, PacketOK, TableOK, Registered, Known
    <3>3. CountOK'
      BY <3>1, Zenon DEF CountOK
    <3> QED BY <3>2, <3>3
  <2>2. TaskOK'
    BY <1>4 DEF BroadcastSnapshot, TaskOK, Task, Registered
  <2>3. \A h \in Gor : task[h].op = "insert" => task'[h] = task[h]
    BY <1>4 DEF BroadcastSnapshot, TaskOK
  <2>5. \A v \in Vip, h \in Gor : Pending(h, v) => Pending(h, v)'
    BY <2>3 DEF Pending
  <2>4. NoLeak'
    BY <1>4, <2>5, SameLeases DEF BroadcastSnapshot, TableOK
  <2> QED BY <1>2, <2>1, <2>2, <2>4
<1>5. CASE BroadcastSend(g)
  <2> DEFINE out == {ToClient("PeerList", peers[v].addr, v, task[g].list)
                       : v \in Registered \ {task[g].vip}}
  <2>1. \A q \in out : PacketOK(q)
    <3>1. \A v \in Registered : peers[v].addr \in Addr /\ v \in Vip
      BY DEF Registered, Known, TableOK, Entry
    <3>2. task[g].list \in SUBSET Vip
      BY DEF TaskOK, Task
    <3> QED BY <3>1, <3>2, ToClientOK
  <2>2. Send(out)
    BY <1>5 DEF BroadcastSend
  <2> HIDE DEF out
  <2>3. NetOK' /\ CountOK'
    BY <2>1, <2>2, SendOK
  <2>4. task[g].op = "broadcast" /\ task' = [task EXCEPT ![g] = Idle]
        /\ UNCHANGED <<used, peers, vipIndex, sweep>>
    BY <1>5 DEF BroadcastSend
  <2>5. TaskOK'
    BY <2>4 DEF TaskOK, Task, Idle
  <2>6. \A h \in Gor : task[h].op = "insert" => task'[h] = task[h]
    BY <2>4 DEF TaskOK
  <2>7. TableOK' /\ NoLeak'
    BY <2>4, <2>6 DEF TableOK, NoLeak, Known, Registered
  <2> QED BY <1>2, <2>3, <2>5, <2>7
<1>6. CASE RelaySend(g)
  <2> DEFINE src == vipIndex[task[g].addr]
             p == [ToClient("Data", task[g].to, src, {})
                     EXCEPT !.data = [by |-> task[g].addr, for |-> task[g].vip]]
  <2>1. task[g].op = "relay" /\ task' = [task EXCEPT ![g] = Idle]
        /\ UNCHANGED <<used, peers, vipIndex, sweep>>
        /\ Send(IF src = None THEN {} ELSE {p})
    BY <1>6 DEF RelaySend
  <2>2. task[g].vip \in Vip /\ task[g].addr \in Addr /\ task[g].to \in Addr
    BY <2>1 DEF TaskOK
  <2>3. src \in Vip \cup {None}
    BY <2>2 DEF TableOK
  <2>4. src # None => PacketOK(p)
    BY <2>2, <2>3 DEF PacketOK, ToClient, Blank, Packet, Payload
  <2>5. NetOK' /\ CountOK'
    <3> HIDE DEF p, src
    <3> QED BY <2>1, <2>4, SendOK
  <2>6. TaskOK'
    BY <2>1 DEF TaskOK, Task, Idle
  <2>7. \A h \in Gor : task[h].op = "insert" => task'[h] = task[h]
    BY <2>1 DEF TaskOK
  <2>8. TableOK' /\ NoLeak'
    BY <2>1, <2>7 DEF TableOK, NoLeak, Known, Registered
  <2> QED BY <1>2, <2>5, <2>6, <2>8
<1> QED
  BY <1>3, <1>4, <1>5, <1>6 DEF Proceed

\* The two halves of a cleanup round.
LEMMA CleanupStep ==
  ASSUME VpnInv, CleanupBegin \/ CleanupRemove
  PROVE  VpnInv'
<1> USE DEF VpnInv
<1>1. UNCHANGED <<task, net, status, virtualIP, known, due, faults, disturbed>>
  BY DEF CleanupBegin, CleanupRemove, clientVars, faultVars
<1>2. NetOK' /\ TaskOK' /\ ClientsOK'
  BY <1>1 DEF NetOK, PacketOK, TaskOK, ClientsOK
<1>3. CountOK'
  BY <1>1, Zenon DEF CountOK
<1>4. CASE CleanupBegin
  <2>1. TableOK'
    BY <1>4 DEF CleanupBegin, TableOK, Registered, Known, Stale
  <2>2. NoLeak'
    BY <1>1, <1>4, SameLeases DEF CleanupBegin, TableOK, Pending
  <2> QED BY <1>2, <1>3, <2>1, <2>2
<1>5. CASE CleanupRemove
  <2>1. PICK v \in sweep : /\ used' = used \ {v}
                           /\ vipIndex' = [vipIndex EXCEPT ![peers[v].addr] = None]
                           /\ peers' = [peers EXCEPT ![v] = None]
                           /\ sweep' = sweep \ {v}
    BY <1>5 DEF CleanupRemove
  <2>2. v \in Vip
    BY DEF TableOK, Registered
  <2>3. \A w \in Vip : Known(w)' <=> Known(w) /\ w # v
    BY <2>1, <2>2 DEF Known, TableOK
  <2>4. TableOK'
    BY <2>1, <2>2, <2>3 DEF TableOK, Registered
  <2>5. NoLeak'
    BY <1>1, <2>1, <2>3 DEF NoLeak, TableOK
  <2> QED BY <1>2, <1>3, <2>4, <2>5
<1> QED
  BY <1>4, <1>5

------------------------------------------------------------------------------
(* The clients: the server's state stays as it is. *)

\* What depends on the server alone survives a step of somebody else.
LEMMA ServerSame ==
  ASSUME VpnInv, UNCHANGED serverVars
  PROVE  TaskOK' /\ TableOK' /\ NoLeak'
BY DEF VpnInv, serverVars, TaskOK, TableOK, NoLeak, Known, Registered

\* Every step of a client keeps the invariant.
LEMMA ClientStep ==
  ASSUME VpnInv, NEW a \in Addr,
         \/ ClientStart(a) \/ Attend(a) \/ Heartbeat(a) \/ ClientStop(a)
         \/ \E v \in Dest : ClientSend(a, v)
  PROVE  VpnInv'
<1> USE DEF VpnInv
<1>0. /\ None \notin Vip
      /\ status[a] = "up" => virtualIP[a] \in Vip
  BY Constants DEF ClientsOK
<1>1. TaskOK' /\ TableOK' /\ NoLeak'
  <2>1. UNCHANGED serverVars
    BY DEF ClientStart, Attend, Heartbeat, ClientStop, ClientSend, ClientBound,
           ClientBindTimeout, ClientRegistered, ClientTimeout, ClientReceive, Discard
  <2> QED BY <2>1, ServerSame
<1>2. CASE ClientStart(a)
  <2>1. PacketOK(ToServer("Stun", a, None))
    BY ToServerOK
  <2>2. ClientsOK'
    BY <1>2 DEF ClientStart, ClientsOK
  <2> QED BY <1>1, <1>2, <2>1, <2>2, SendOK DEF ClientStart
<1>3. PacketOK(ToServer("Register", a, None))
  BY ToServerOK
<1>4. CASE ClientBound(a)
  <2>1. PICK p : Receive(p, {ToServer("Register", a, None)})
    BY <1>4 DEF ClientBound
  <2>2. ClientsOK'
    BY <1>4 DEF ClientBound, Register, ClientsOK
  <2> QED BY <1>1, <1>3, <2>1, <2>2, ReceiveOK
<1>5. ASSUME TooLate(a) PROVE CountOK'
  <2>1. faults' \in 0..MaxFaults
    BY <1>5, FaultOK DEF TooLate
  <2> QED BY <1>5, <2>1, Zenon DEF TooLate, CountOK
<1>6. CASE ClientBindTimeout(a)
  <2>1. \A q \in net' : PacketOK(q)
    BY <1>3, <1>6 DEF ClientBindTimeout, NetOK
  <2>2. ClientsOK'
    BY <1>6 DEF ClientBindTimeout, Register, ClientsOK
  <2>3. CountOK'
    BY <1>5, <1>6 DEF ClientBindTimeout
  <2> QED BY <1>1, <2>1, <2>2, <2>3 DEF NetOK, PacketOK
<1>7. CASE ClientRegistered(a)
  <2>1. PICK p \in net : /\ status[a] = "registering"
                         /\ \/ /\ p.type = "RegisterAck"
                               /\ status' = [status EXCEPT ![a] = "up"]
                               /\ virtualIP' = [virtualIP EXCEPT ![a] = p.vip]
                               /\ known' = [known EXCEPT ![a] = p.list \ {p.vip}]
                            \/ /\ status' = [status EXCEPT ![a] = "gone"]
                               /\ UNCHANGED <<virtualIP, known>>
                         /\ Receive(p, {})
                         /\ UNCHANGED due
    BY <1>7 DEF ClientRegistered
  <2>2. p.list \in SUBSET Vip /\ (p.type = "RegisterAck" => p.vip \in Vip)
    BY DEF NetOK, PacketOK, Packet
  <2>3. ClientsOK'
    BY <1>0, <2>1, <2>2 DEF ClientsOK
  <2> QED BY <1>1, <2>1, <2>3, ReceiveOK
<1>8. CASE ClientTimeout(a)
  <2>1. UNCHANGED net /\ CountOK'
    BY <1>5, <1>8 DEF ClientTimeout
  <2>2. ClientsOK'
    BY <1>8 DEF ClientTimeout, ClientsOK
  <2> QED BY <1>1, <2>1, <2>2 DEF NetOK, PacketOK
<1>9. CASE ClientReceive(a)
  <2>1. PICK p \in net :
          /\ known' = known \/ known' = [known EXCEPT ![a] = @ \cup (p.list \ {virtualIP[a]})]
          /\ Receive(p, {})
          /\ UNCHANGED <<status, virtualIP, due>>
    BY <1>9 DEF ClientReceive
  <2>2. p.list \in SUBSET Vip
    BY DEF NetOK, PacketOK, Packet
  <2>3. ClientsOK'
    BY <2>1, <2>2 DEF ClientsOK
  <2> QED BY <1>1, <2>1, <2>3, ReceiveOK
<1>10. CASE Discard(a)
  <2>1. net' \subseteq net /\ UNCHANGED <<clientVars, faultVars>>
    BY <1>10 DEF Discard
  <2>2. \A q \in net' : PacketOK(q)
    BY <2>1 DEF NetOK
  <2>3. ClientsOK'
    BY <2>1 DEF ClientsOK, clientVars
  <2>4. CountOK'
    BY <2>1, Zenon DEF CountOK, faultVars
  <2> QED BY <1>1, <2>2, <2>3, <2>4 DEF NetOK, PacketOK
<1>11. CASE Heartbeat(a)
  <2>1. status[a] = "up"
    BY <1>11 DEF Heartbeat, ClientsOK
  <2>2. PacketOK(ToServer("Register", a, virtualIP[a]))
    BY <1>0, <2>1, ToServerOK
  <2>3. ClientsOK'
    BY <1>11 DEF Heartbeat, ClientsOK
  <2> QED BY <1>1, <1>11, <2>2, <2>3, SendOK DEF Heartbeat
<1>12. CASE ClientStop(a)
  <2>1. ClientsOK'
    BY <1>12 DEF ClientStop, ClientsOK
  <2>2. faults' \in 0..MaxFaults
    BY <1>12, FaultOK DEF ClientStop
  <2>3. CountOK'
    BY <1>12, <2>2, Zenon DEF ClientStop, CountOK
  <2> QED BY <1>1, <1>12, <2>1, <2>3 DEF ClientStop, NetOK, PacketOK
<1>13. ASSUME NEW v \in Dest, ClientSend(a, v) PROVE VpnInv'
  <2>1. PacketOK(ToServer("Data", a, v))
    BY Constants, ToServerOK
  <2>2. ClientsOK'
    BY <1>13 DEF ClientSend, ClientsOK, clientVars
  <2> QED BY <1>1, <1>13, <2>1, <2>2, SendOK DEF ClientSend
<1> QED
  BY <1>2, <1>4, <1>6, <1>7, <1>8, <1>9, <1>10, <1>11, <1>12, <1>13 DEF Attend

------------------------------------------------------------------------------
(* The environment. *)

\* Loss, restart and the passing of a minute keep it too.
LEMMA WorldStep ==
  ASSUME VpnInv, Lose \/ ServerRestart \/ Minute \/ UNCHANGED vars
  PROVE  VpnInv'
<1> USE DEF VpnInv
<1>1. CASE Lose
  <2>1. PICK p \in net : /\ net' = net \ {p}
                         /\ Fault
                         /\ disturbed' = (disturbed \/ (p.type = "Register" /\ p.vip # None))
                         /\ UNCHANGED <<serverVars, clientVars>>
    BY <1>1 DEF Lose
  <2>2. \A q \in net' : PacketOK(q)
    BY <2>1 DEF NetOK
  <2>3. disturbed' \in BOOLEAN
    BY <2>1, Zenon
  <2>4. faults' \in 0..MaxFaults
    BY <2>1, FaultOK
  <2>5. ClientsOK'
    BY <2>1 DEF ClientsOK, clientVars
  <2>6. TaskOK' /\ TableOK' /\ NoLeak'
    BY <2>1, ServerSame
  <2> QED BY <2>2, <2>3, <2>4, <2>5, <2>6 DEF NetOK, PacketOK, CountOK
<1>2. CASE ServerRestart
  <2>1. TaskOK'
    BY <1>2 DEF ServerRestart, TaskOK, Task, Idle
  <2>2. TableOK' /\ NoLeak'
    BY <1>2 DEF ServerRestart, TableOK, NoLeak, Registered
  <2>3. ClientsOK' /\ NetOK'
    BY <1>2 DEF ServerRestart, ClientsOK, clientVars, NetOK, PacketOK
  <2>4. faults' \in 0..MaxFaults
    BY <1>2, FaultOK DEF ServerRestart
  <2>5. disturbed' \in BOOLEAN
    BY <1>2, Zenon DEF ServerRestart
  <2> QED BY <2>1, <2>2, <2>3, <2>4, <2>5 DEF CountOK
<1>3. CASE Minute
  <2>1. peers' = [v \in Vip |-> IF Known(v) /\ peers[v].age <= Timeout
                                THEN [peers[v] EXCEPT !.age = @ + 1]
                                ELSE peers[v]]
    BY <1>3 DEF Minute
  <2>2. \A v \in Vip : peers'[v] \in Entry \cup {None} /\ (Known(v) => peers'[v] # None)
    BY <2>1, Constants DEF TableOK, Known, Entry
  <2>3. UNCHANGED <<used, vipIndex, sweep, task, net, status, virtualIP, known, faults, disturbed>>
        /\ due' = {a \in Addr : status[a] = "up"}
    BY <1>3 DEF Minute, faultVars
  <2>4. peers' \in [Vip -> Entry \cup {None}]
    BY <2>1, <2>2
  <2>5. TableOK'
    BY <2>2, <2>3, <2>4 DEF TableOK, Registered, Known
  <2>6. NoLeak'
    BY <2>2, <2>3 DEF NoLeak, Known, TableOK
  <2>7. TaskOK' /\ NetOK' /\ ClientsOK'
    BY <2>3 DEF TaskOK, NetOK, PacketOK, ClientsOK
  <2>8. CountOK'
    BY <2>3, Zenon DEF CountOK
  <2> QED BY <2>5, <2>6, <2>7, <2>8
<1>4. CASE UNCHANGED vars
  <2>1. UNCHANGED <<serverVars, net, status, virtualIP, known, due, faults, disturbed>>
    BY <1>4 DEF vars, clientVars, faultVars
  <2>2. TaskOK' /\ TableOK' /\ NoLeak'
    BY <2>1, ServerSame
  <2>3. NetOK' /\ ClientsOK'
    BY <2>1 DEF NetOK, PacketOK, ClientsOK
  <2>4. CountOK'
    BY <2>1, Zenon DEF CountOK
  <2> QED BY <2>2, <2>3, <2>4
<1> QED
  BY <1>1, <1>2, <1>3, <1>4

------------------------------------------------------------------------------
(* The theorems. *)

\* NewServer starts with empty maps, where the invariant holds.
LEMMA VpnStart == Init => VpnInv
<1> SUFFICES ASSUME Init PROVE VpnInv
  OBVIOUS
<1>1. NetOK /\ TaskOK
  BY DEF Init, NetOK, TaskOK, Task, Idle
<1>2. TableOK /\ NoLeak
  BY DEF Init, TableOK, NoLeak, Registered
<1>3. ClientsOK
  BY DEF Init, ClientsOK
<1>4. faults \in 0..MaxFaults
  BY Constants DEF Init
<1>5. disturbed \in BOOLEAN
  BY Zenon DEF Init
<1> QED
  BY <1>1, <1>2, <1>3, <1>4, <1>5 DEF VpnInv, CountOK

\* Every step of the overlay preserves the invariant.
LEMMA VpnStep == VpnInv /\ [Next]_vars => VpnInv'
<1> SUFFICES ASSUME VpnInv, [Next]_vars PROVE VpnInv'
  OBVIOUS
<1>1. CASE \E g \in Gor, a \in Addr :
             RecvStun(g, a) \/ RecvRegister(g, a) \/ RelayLookup(g, a)
  BY <1>1, RecvStep DEF RecvFrom
<1>2. CASE \E g \in Gor : \/ RegisterInsert(g) \/ BroadcastSnapshot(g)
                          \/ BroadcastSend(g) \/ RelaySend(g)
  BY <1>2, ProceedStep DEF Proceed
<1>3. CASE CleanupBegin \/ CleanupRemove
  BY <1>3, CleanupStep
<1>4. CASE \E a \in Addr :
             \/ ClientStart(a) \/ Heartbeat(a) \/ ClientStop(a)
             \/ ClientBound(a) \/ ClientBindTimeout(a) \/ ClientRegistered(a)
             \/ ClientTimeout(a) \/ ClientReceive(a) \/ Discard(a)
             \/ \E v \in Dest : ClientSend(a, v)
  BY <1>4, ClientStep DEF Attend
<1>5. CASE Lose \/ ServerRestart \/ Minute \/ UNCHANGED vars
  BY <1>5, WorldStep
<1> QED
  BY <1>1, <1>2, <1>3, <1>4, <1>5 DEF Next

\* The pool, the table, the tasks and the clients of stunvpv stay consistent
\* in every reachable state.
THEOREM VpnInvariant == Spec => []VpnInv
BY VpnStart, VpnStep, PTL DEF Spec

\* Every variable of the overlay has its type, whatever the network does.
THEOREM VpnTypeCorrect == Spec => []TypeOK
<1>1. VpnInv => TypeOK
  <2> SUFFICES ASSUME VpnInv PROVE TypeOK
    OBVIOUS
  <2>1. net \subseteq Packet
    BY DEF VpnInv, NetOK, PacketOK
  <2>2. TaskOK /\ TableOK /\ ClientsOK /\ CountOK
    BY DEF VpnInv
  <2> QED
    BY <2>1, <2>2, Zenon DEF TaskOK, TableOK, ClientsOK, CountOK, TypeOK
<1> QED
  BY <1>1, VpnInvariant, PTL

\* The pool loses no address, although heartbeats enter addresses the pool
\* never gave out and cleanups give back addresses it holds free.
THEOREM VpnPoolNeverLeaks == Spec => []NoLeak
<1>1. VpnInv => NoLeak
  BY DEF VpnInv
<1> QED
  BY <1>1, VpnInvariant, PTL
------------------------------------------------------------------------------
(* No client loses its address but by the faults named. *)

\* The table and the index name v and a to each other, the entry is not stale
\* and no cleanup is about to remove it.
LeasedTo(v, a) == /\ Known(v) /\ peers[v].addr = a /\ peers[v].age <= Timeout
                  /\ vipIndex[a] = v /\ v \notin sweep

\* A heartbeat, an acknowledgement or a client that is up says v is a's.
Claimed(v, a) ==
  \/ \E p \in net : /\ p.vip = v
                    /\ \/ p.type = "Register" /\ p.from = a
                       \/ p.type = "RegisterAck" /\ p.to = a
  \/ virtualIP[a] = v

FirstRegister(a) == ToServer("Register", a, None)

Early(a) == status[a] \in {"new", "binding"}

Inserting(g) == task[g].op = "insert"

Beating(a) == \/ a \in due
              \/ \E p \in net : p.type = "Register" /\ p.from = a /\ p.vip # None
              \/ \E g \in Gor : Inserting(g) /\ task[g].addr = a

\* What is claimed is true; an acknowledged entry is new, and that of a client
\* that is up as old as the heartbeat it still owes.
ClaimsHeld ==
  /\ \A v \in Vip, a \in Addr : Claimed(v, a) => LeasedTo(v, a)
  /\ \A p \in net : p.type = "RegisterAck" => peers[p.vip].age = 0
  /\ \A a \in Up : peers[virtualIP[a]].age = 0 \/ (peers[virtualIP[a]].age = 1 /\ Beating(a))

\* Every entry is indexed and its address is out of the pool; its client has
\* registered, and if it is not up a minute later it never will be.
TableHeld ==
  /\ \A v \in Vip : Known(v) =>
       /\ v \in used /\ vipIndex[peers[v].addr] = v
       /\ ~Early(peers[v].addr)
       /\ peers[v].age > 0 => status[peers[v].addr] \in {"up", "gone"}
  /\ \A v \in sweep : Stale(v)

\* v was allocated for a, and neither is known to the server yet.
Fresh(v, a) == v \in used /\ ~Known(v) /\ vipIndex[a] = None

\* A register on its way into the table repeats what is there or is the only
\* one of its client and of its address.
InsertsHeld ==
  \A g \in Gor : Inserting(g) =>
    LET v == task[g].vip
        a == task[g].addr
    IN  /\ ~Early(a)
        /\ \/ LeasedTo(v, a)
           \/ /\ Fresh(v, a)
              /\ \A h \in Gor : Inserting(h) /\ (task[h].vip = v \/ task[h].addr = a) => h = g

\* Before its first register is read, the server knows nothing of a client.
FirstHeld ==
  /\ \A p \in net : p.type = "Register" /\ p.vip = None =>
       p.from \in Addr /\ p = FirstRegister(p.from) /\ ~Early(p.from)
  /\ \A a \in Addr : Early(a) \/ FirstRegister(a) \in net =>
       vipIndex[a] = None /\ \A g \in Gor : Inserting(g) => task[g].addr # a

\* If a ever is up (again), v is its address.
Bound(a, v) == vipIndex[a] = v \/ status[a] = "gone"

\* Both ends of what is relayed are who they are said to be.
RelaysHeld ==
  /\ \A g \in Gor : task[g].op = "relay" => Bound(task[g].to, task[g].vip)
  /\ \A p \in net : p.type = "Data" /\ p.to # Server =>
       p.to \in Addr /\ p.data \in Payload /\ Bound(p.to, p.data.for) /\ Bound(p.data.by, p.vip)

HeldInv == ClaimsHeld /\ TableHeld /\ InsertsHeld /\ FirstHeld /\ RelaysHeld

HeldUnlessDisturbed == disturbed \/ HeldInv

\* A heartbeat, as opposed to a first register.
Beats(p) == p.type = "Register" /\ p.vip # None

\* What the server sends to a client on behalf of another.
Relayed(p) == p.type = "Data" /\ p.to # Server

RelayOK(p) == /\ p.to \in Addr /\ p.data \in Payload
              /\ Bound(p.to, p.data.for) /\ Bound(p.data.by, p.vip)

\* Clients only go forward, from new to gone.
Forward ==
  \A a \in Addr : /\ Early(a)' => Early(a)
                  /\ status[a] \in {"up", "gone"} => status'[a] \in {"up", "gone"}
                  /\ status[a] = "gone" => status'[a] = "gone"

\* A client keeps its state or moves on.
LEMMA MovesForward == ASSUME ClientsOK, ClientsOK', [Next]_vars PROVE Forward
<1> USE DEF Forward, Early, ClientsOK
<1>1. CASE UNCHANGED status
  BY <1>1
<1>2. ASSUME NEW a \in Addr, NEW s, status' = [status EXCEPT ![a] = s],
             \/ status[a] = "new" /\ s = "binding"
             \/ status[a] = "binding" /\ s = "registering"
             \/ status[a] = "registering" /\ s \in {"up", "gone"}
             \/ status[a] = "up" /\ s = "gone"
      PROVE  Forward
  BY <1>2
<1>3. CASE \E a \in Addr : ClientStart(a)
  BY <1>2, <1>3 DEF ClientStart
<1>4. CASE \E a \in Addr : ClientBound(a) \/ ClientBindTimeout(a)
  BY <1>2, <1>4 DEF ClientBound, ClientBindTimeout, Register
<1>5. CASE \E a \in Addr : ClientRegistered(a)
  BY <1>2, <1>5 DEF ClientRegistered
<1>6. CASE \E a \in Addr : ClientTimeout(a) \/ ClientStop(a)
  BY <1>2, <1>6 DEF ClientTimeout, ClientStop
<1>7. CASE \/ \E g \in Gor, a \in Addr :
                RecvStun(g, a) \/ RecvRegister(g, a) \/ RelayLookup(g, a)
           \/ \E g \in Gor : RegisterInsert(g) \/ BroadcastSnapshot(g)
           \/ \E g \in Gor : BroadcastSend(g) \/ RelaySend(g)
  <2>1. UNCHANGED clientVars
    BY <1>7 DEF RecvStun, RecvRegister, RelayLookup, RegisterInsert, BroadcastSnapshot,
                BroadcastSend, RelaySend
  <2> QED BY <1>1, <2>1 DEF clientVars
<1>8. CASE \/ CleanupBegin \/ CleanupRemove
           \/ \E a \in Addr : \/ Heartbeat(a) \/ ClientReceive(a) \/ Discard(a)
                              \/ \E v \in Dest : ClientSend(a, v)
           \/ Lose \/ ServerRestart \/ Minute \/ UNCHANGED vars
  BY <1>1, <1>8 DEF CleanupBegin, CleanupRemove, Heartbeat, ClientReceive, Discard,
                    ClientSend, Lose, ServerRestart, Minute, clientVars, vars
<1> HIDE DEF Forward, Early, ClientsOK
<1> QED
  BY <1>3, <1>4, <1>5, <1>6, <1>7, <1>8 DEF Next

\* Steps that leave the pool and the table alone, send or take in no register
\* but a heartbeat of the holder or a first one, acknowledge nothing, let
\* nobody up without a new lease and silence no heartbeat that is owed.
LEMMA Quietly ==
  ASSUME VpnInv, VpnInv', HeldInv, Forward, UNCHANGED <<used, peers, vipIndex, sweep>>,
         \A g \in Gor : task'[g].op = "insert" =>
            task'[g] = task[g] \/ LeasedTo(task'[g].vip, task'[g].addr),
         \A p \in net' : p.type = "RegisterAck" => p \in net,
         \A p \in net' : Beats(p) => p \in net \/ (p.from \in Addr /\ LeasedTo(p.vip, p.from)),
         \A p \in net' : p.type = "Register" /\ p.vip = None =>
            p \in net \/ (/\ p.from \in Addr /\ p = FirstRegister(p.from)
                          /\ Early(p.from) /\ ~Early(p.from)'),
         \A a \in Addr : status'[a] = "up" =>
            \/ /\ status[a] = "up" /\ virtualIP'[a] = virtualIP[a]
               /\ Beating(a) => Beating(a)'
            \/ LeasedTo(virtualIP'[a], a) /\ peers[virtualIP'[a]].age = 0,
         \A g \in Gor : task'[g].op = "relay" =>
            task'[g] = task[g] \/ Bound(task'[g].to, task'[g].vip),
         \A p \in net' : Relayed(p) => p \in net \/ RelayOK(p)
  PROVE  HeldInv'
<1>1. /\ NetOK /\ TaskOK /\ TableOK /\ ClientsOK /\ ClientsOK' /\ TaskOK'
      /\ None \notin Vip /\ None \notin Addr
  BY Constants DEF VpnInv
<1>2. \A v, a : LeasedTo(v, a)' <=> LeasedTo(v, a)
  BY DEF LeasedTo, Known
<1>3. ClaimsHeld'
  <2>1. ASSUME NEW v \in Vip, NEW a \in Addr, Claimed(v, a)' PROVE LeasedTo(v, a)
    <3>1. CASE virtualIP'[a] = v
      BY <1>1, <3>1 DEF ClientsOK, HeldInv, ClaimsHeld, Claimed
    <3>2. ASSUME NEW p \in net', p.vip = v, p.type = "Register", p.from = a
          PROVE  LeasedTo(v, a)
      BY <1>1, <3>2 DEF Beats, HeldInv, ClaimsHeld, Claimed
    <3>3. ASSUME NEW p \in net', p.vip = v, p.type = "RegisterAck", p.to = a
          PROVE  LeasedTo(v, a)
      BY <3>3 DEF HeldInv, ClaimsHeld, Claimed
    <3> QED BY <2>1, <3>1, <3>2, <3>3 DEF Claimed
  <2>2. \A p \in net' : p.type = "RegisterAck" => peers'[p.vip].age = 0
    BY DEF HeldInv, ClaimsHeld
  <2>3. \A a \in Addr : status'[a] = "up" =>
           \/ peers'[virtualIP'[a]].age = 0
           \/ peers'[virtualIP'[a]].age = 1 /\ Beating(a)'
    BY DEF HeldInv, ClaimsHeld, Up
  <2> QED BY <1>2, <2>1, <2>2, <2>3 DEF ClaimsHeld, Up
<1>4. TableHeld'
  <2>1. \A v \in Vip : Known(v) => peers[v].addr \in Addr
    BY <1>1 DEF TableOK, Known, Entry
  <2> QED BY <2>1 DEF HeldInv, TableHeld, Known, Stale, Forward
<1>5. InsertsHeld'
  <2> SUFFICES ASSUME NEW g \in Gor, task'[g].op = "insert",
                      NEW v, NEW a, v = task'[g].vip, a = task'[g].addr
               PROVE  /\ ~Early(a)'
                      /\ \/ LeasedTo(v, a)'
                         \/ /\ Fresh(v, a)'
                            /\ \A h \in Gor : task'[h].op = "insert"
                                   /\ (task'[h].vip = v \/ task'[h].addr = a) => h = g
    BY DEF InsertsHeld, Inserting
  <2>1. a \in Addr /\ v \in Vip
    BY <1>1 DEF TaskOK
  <2>2. CASE task'[g] # task[g]
    <3>1. LeasedTo(v, a)
      BY <2>2
    <3> QED BY <1>2, <2>1, <3>1 DEF HeldInv, TableHeld, LeasedTo, Forward
  <2>3. CASE task'[g] = task[g]
    <3>1. /\ ~Early(a)
          /\ \/ LeasedTo(v, a)
             \/ /\ Fresh(v, a)
                /\ \A h \in Gor : task[h].op = "insert"
                       /\ (task[h].vip = v \/ task[h].addr = a) => h = g
      BY <2>3 DEF HeldInv, InsertsHeld, Inserting
    <3>2. ~Early(a)' /\ (Fresh(v, a) => Fresh(v, a)')
      BY <2>1, <3>1 DEF Forward, Fresh, Known
    <3>3. ASSUME Fresh(v, a), NEW h \in Gor, task'[h].op = "insert",
                 task'[h].vip = v \/ task'[h].addr = a
          PROVE  task'[h] = task[h]
      BY <1>1, <3>3 DEF Fresh, LeasedTo, TaskOK
    <3> QED BY <1>2, <3>1, <3>2, <3>3
  <2> QED BY <2>2, <2>3
<1>6. FirstHeld'
  <2>1. \A p \in net' : p.type = "Register" /\ p.vip = None =>
           p.from \in Addr /\ p = FirstRegister(p.from) /\ ~Early(p.from)'
    BY DEF HeldInv, FirstHeld, Forward
  <2>2. ASSUME NEW a \in Addr, Early(a)' \/ FirstRegister(a) \in net'
        PROVE  vipIndex[a] = None /\ \A g \in Gor : Inserting(g)' => task'[g].addr # a
    <3>1. FirstRegister(a).type = "Register" /\ FirstRegister(a).vip = None
          /\ FirstRegister(a).from = a
      BY DEF FirstRegister, ToServer, Blank
    <3>2. Early(a) \/ FirstRegister(a) \in net
      BY <2>2, <3>1 DEF Forward
    <3>3. vipIndex[a] = None /\ \A g \in Gor : task[g].op = "insert" => task[g].addr # a
      BY <3>2 DEF HeldInv, FirstHeld, Inserting
    <3> QED BY <1>1, <3>3 DEF Inserting, LeasedTo, TaskOK
  <2> QED BY <2>1, <2>2 DEF FirstHeld, FirstRegister
<1>7. RelaysHeld'
  <2>1. \A a \in Addr : \A v : Bound(a, v) => Bound(a, v)'
    BY DEF Bound, Forward
  <2>2. \A g \in Gor : task'[g].op = "relay" => task'[g].to \in Addr
    BY <1>1 DEF TaskOK
  <2>3. \A g \in Gor : task'[g].op = "relay" => Bound(task'[g].to, task'[g].vip)
    BY DEF HeldInv, RelaysHeld
  <2>4. \A p \in net' : Relayed(p) => RelayOK(p)
    BY DEF HeldInv, RelaysHeld, Relayed, RelayOK
  <2>5. \A g \in Gor : task'[g].op = "relay" => Bound(task[g].to, task[g].vip)'
    BY <2>1, <2>2, <2>3
  <2>6. \A p \in net' : p.type = "Data" /\ p.to # Server =>
           /\ p.to \in Addr /\ p.data \in Payload
           /\ Bound(p.to, p.data.for)' /\ Bound(p.data.by, p.vip)'
    BY <2>1, <2>4 DEF Relayed, RelayOK, Payload
  <2> QED BY <2>5, <2>6 DEF RelaysHeld
<1> QED
  BY <1>3, <1>4, <1>5, <1>6, <1>7 DEF HeldInv

\* What the server does without touching its table or its pool.
LEMMA ServerQuiet ==
  ASSUME VpnInv, VpnInv', HeldInv, Forward, NEW g \in Gor, NEW a,
         \/ RecvStun(g, a) \/ BroadcastSnapshot(g) \/ BroadcastSend(g)
         \/ RelayLookup(g, a) \/ RelaySend(g)
  PROVE  HeldInv'
<1>1. /\ UNCHANGED <<used, peers, vipIndex, sweep, status, virtualIP, due>>
      /\ NetOK /\ TaskOK /\ TableOK
  BY DEF RecvStun, BroadcastSnapshot, BroadcastSend, RelayLookup, RelaySend,
         serverVars, clientVars, VpnInv
<1>2. ASSUME \A q \in net' :
                \/ q \in net
                \/ q.type \notin {"Register", "RegisterAck"} /\ (Relayed(q) => RelayOK(q)),
             \A q \in net : q.type = "Register" => q \in net',
             \A h \in Gor : task[h].op = "insert" \/ task'[h].op = "insert" => task'[h] = task[h],
             \A h \in Gor : task'[h].op = "relay" =>
                task'[h] = task[h] \/ Bound(task'[h].to, task'[h].vip)
      PROVE  HeldInv'
  <2>1. \A b \in Addr : Beating(b) => Beating(b)'
    BY <1>1, <1>2 DEF Beating, Inserting
  <2> QED BY <1>1, <1>2, <2>1, Quietly DEF Beats
<1>3. CASE RecvStun(g, a)
  <2> DEFINE ack == ToClient("StunAck", a, None, {})
  <2>1. PICK p \in net : p.type = "Stun" /\ Receive(p, {ack}) /\ UNCHANGED task
    BY <1>3 DEF RecvStun, serverVars
  <2>2. ack.type = "StunAck" /\ ~Relayed(ack)
    BY DEF ToClient, Blank, Relayed
  <2> HIDE DEF ack
  <2>3. net' = net \cup {ack} \/ net' = (net \ {p}) \cup {ack}
    BY <2>1 DEF Receive
  <2> QED BY <1>2, <2>1, <2>2, <2>3
<1>4. CASE BroadcastSnapshot(g)
  <2>1. /\ net' = net
        /\ \A h \in Gor : h # g => task'[h] = task[h]
        /\ task[g].op = "snapshot" /\ task'[g].op = "broadcast"
    BY <1>1, <1>4 DEF BroadcastSnapshot, TaskOK, Task
  <2> QED BY <1>2, <2>1
<1>5. ASSUME task' = [task EXCEPT ![g] = Idle], task[g].op # "insert"
      PROVE  /\ \A h \in Gor : task[h].op = "insert" \/ task'[h].op = "insert" => task'[h] = task[h]
             /\ \A h \in Gor : task'[h].op = "relay" => task'[h] = task[h]
  BY <1>1, <1>5 DEF TaskOK, Idle
<1>6. CASE BroadcastSend(g)
  <2> DEFINE out == {ToClient("PeerList", peers[v].addr, v, task[g].list)
                       : v \in Registered \ {task[g].vip}}
  <2>1. net' = net \cup out /\ task[g].op = "broadcast" /\ task' = [task EXCEPT ![g] = Idle]
    BY <1>6 DEF BroadcastSend, Send
  <2>2. \A q \in out : q.type = "PeerList"
    BY DEF ToClient, Blank
  <2> HIDE DEF out
  <2> QED BY <1>2, <1>5, <2>1, <2>2 DEF Relayed
<1>7. CASE RelayLookup(g, a)
  <2>1. PICK p \in net :
          /\ p.type = "Data" /\ task[g] = Idle
          /\ task' = IF Known(p.vip)
                     THEN [task EXCEPT ![g] = [Idle EXCEPT !.op = "relay", !.vip = p.vip,
                                                 !.addr = a, !.to = peers[p.vip].addr]]
                     ELSE task
          /\ Receive(p, {})
    BY <1>7 DEF RelayLookup
  <2>2. p.vip \in Vip
    BY <1>1, <2>1 DEF NetOK, PacketOK
  <2>3. Known(p.vip) => Bound(peers[p.vip].addr, p.vip)
    BY <2>2 DEF HeldInv, TableHeld, Bound
  <2>4. \/ task' = task
        \/ /\ \A h \in Gor : h # g => task'[h] = task[h]
           /\ task'[g].op = "relay" /\ Bound(task'[g].to, task'[g].vip)
    BY <1>1, <2>1, <2>3 DEF TaskOK, Idle
  <2>5. task[g].op = "idle"
    BY <2>1 DEF Idle
  <2>6. net' = net \/ net' = net \ {p}
    BY <2>1 DEF Receive
  <2> QED BY <1>2, <2>1, <2>4, <2>5, <2>6
<1>8. CASE RelaySend(g)
  <2> DEFINE src == vipIndex[task[g].addr]
             p == [ToClient("Data", task[g].to, src, {})
                     EXCEPT !.data = [by |-> task[g].addr, for |-> task[g].vip]]
  <2>1. /\ task[g].op = "relay" /\ task' = [task EXCEPT ![g] = Idle]
        /\ net' = net \cup (IF src = None THEN {} ELSE {p})
    BY <1>8 DEF RelaySend, Send
  <2>2. task[g].addr \in Addr /\ task[g].to \in Addr /\ task[g].vip \in Vip
    BY <1>1, <2>1 DEF TaskOK
  <2>3. /\ p.type = "Data" /\ p.to = task[g].to /\ p.vip = src
        /\ p.data = [by |-> task[g].addr, for |-> task[g].vip]
    BY DEF ToClient, Blank
  <2>4. Bound(task[g].to, task[g].vip) /\ Bound(task[g].addr, src)
    BY <2>1 DEF HeldInv, RelaysHeld, Bound
  <2> HIDE DEF p, src
  <2>5. RelayOK(p)
    BY <2>2, <2>3, <2>4 DEF RelayOK, Payload
  <2> QED BY <1>2, <1>5, <2>1, <2>3, <2>5
<1> QED
  BY <1>3, <1>4, <1>6, <1>7, <1>8

\* What clients do without gaining an address, and what the network does.
LEMMA ClientQuiet ==
  ASSUME VpnInv, VpnInv', HeldInv, Forward, ~disturbed', NEW a,
         \/ /\ a \in Addr
            /\ \/ ClientStart(a) \/ ClientBound(a) \/ ClientBindTimeout(a) \/ ClientTimeout(a)
               \/ Heartbeat(a) \/ ClientReceive(a) \/ ClientStop(a) \/ Discard(a)
               \/ \E v \in Dest : ClientSend(a, v)
         \/ Lose \/ UNCHANGED vars
  PROVE  HeldInv'
<1>1. /\ UNCHANGED <<used, peers, vipIndex, sweep, task>>
      /\ NetOK /\ TaskOK /\ ClientsOK /\ ClientsOK' /\ Server \notin Addr /\ None \notin Vip
  BY Constants
  DEF ClientStart, ClientBound, ClientBindTimeout, ClientTimeout, Heartbeat, ClientReceive,
      ClientStop, Discard, ClientSend, Lose, vars, serverVars, VpnInv
<1> DEFINE Plain(q) == q.type \notin {"Register", "RegisterAck"} /\ ~Relayed(q)
<1>2. ASSUME \A p \in net' : p \in net \/ Plain(p),
             \A p \in net : Beats(p) => p \in net',
             \A b \in Addr : status'[b] = "up" =>
                status[b] = "up" /\ virtualIP'[b] = virtualIP[b] /\ (b \in due => b \in due')
      PROVE  HeldInv'
  <2>1. \A b \in Addr : status'[b] = "up" /\ Beating(b) => Beating(b)'
    BY <1>1, <1>2 DEF Beating, Inserting, Beats
  <2> QED BY <1>1, <1>2, <2>1, Quietly DEF Beats
<1>3. ASSUME NEW p \in net, p.to \in Addr PROVE ~Beats(p)
  BY <1>1, <1>3 DEF NetOK, PacketOK, Beats
<1>4. ASSUME a \in Addr, NEW s, status' = [status EXCEPT ![a] = s], s # "up"
      PROVE  \A b \in Addr : status'[b] = "up" => status[b] = "up" /\ b # a
  BY <1>1, <1>4 DEF ClientsOK
<1>5. CASE a \in Addr /\ ClientStart(a)
  <2>1. Plain(ToServer("Stun", a, None))
    BY DEF ToServer, Blank, Relayed
  <2> HIDE DEF Plain
  <2> QED BY <1>2, <1>4, <1>5, <2>1 DEF ClientStart, Send
<1>6. CASE a \in Addr /\ (ClientBound(a) \/ ClientBindTimeout(a))
  <2>1. /\ FirstRegister(a).type = "Register" /\ FirstRegister(a).vip = None
        /\ FirstRegister(a).from = a
    BY DEF FirstRegister, ToServer, Blank
  <2>2. /\ status[a] = "binding" /\ status' = [status EXCEPT ![a] = "registering"]
        /\ UNCHANGED <<virtualIP, due>>
    BY <1>6 DEF ClientBound, ClientBindTimeout, Register
  <2>3. /\ \A q \in net' : q \in net \/ q = FirstRegister(a)
        /\ \A q \in net : Beats(q) => q \in net'
    BY <1>3, <1>6 DEF ClientBound, ClientBindTimeout, Receive, FirstRegister
  <2>4. Early(a) /\ ~Early(a)'
    BY <1>1, <1>6, <2>2 DEF Early, ClientsOK
  <2>5. \A b \in Addr : status'[b] = "up" => status[b] = "up"
    BY <1>4, <1>6, <2>2
  <2>6. \A b \in Addr : status'[b] = "up" /\ Beating(b) => Beating(b)'
    BY <1>1, <2>2, <2>3 DEF Beating, Beats, Inserting
  <2> HIDE DEF Plain
  <2> QED BY <1>1, <1>6, <2>1, <2>2, <2>3, <2>4, <2>5, <2>6, Quietly DEF Beats, Relayed
<1>7. CASE a \in Addr /\ ClientTimeout(a)
  BY <1>2, <1>4, <1>7 DEF ClientTimeout
<1>8. CASE a \in Addr /\ Heartbeat(a)
  <2> DEFINE beat == ToServer("Register", a, virtualIP[a])
  <2>1. a \in due /\ due' = due \ {a} /\ net' = net \cup {beat} /\ UNCHANGED <<status, virtualIP>>
    BY <1>8 DEF Heartbeat, Send
  <2>2. beat.type = "Register" /\ beat.from = a /\ beat.vip = virtualIP[a]
    BY DEF ToServer, Blank
  <2>3. virtualIP[a] \in Vip /\ LeasedTo(virtualIP[a], a)
    BY <1>1, <1>8, <2>1 DEF ClientsOK, HeldInv, ClaimsHeld, Claimed
  <2> HIDE DEF beat
  <2>4. \A b \in Addr : Beating(b) => Beating(b)'
    BY <1>1, <2>1, <2>2, <2>3 DEF Beating, Inserting
  <2> HIDE DEF Plain
  <2> QED BY <1>1, <1>8, <2>1, <2>2, <2>3, <2>4, Quietly DEF Beats, Relayed
<1>9. CASE a \in Addr /\ (ClientReceive(a) \/ Discard(a))
  <2>1. UNCHANGED <<status, virtualIP, due>>
    BY <1>9 DEF ClientReceive, Discard, clientVars
  <2>2. PICK p \in net : p.to = a /\ (net' = net \/ net' = net \ {p})
    BY <1>9 DEF ClientReceive, Discard, Receive
  <2> HIDE DEF Plain
  <2> QED BY <1>2, <1>3, <1>9, <2>1, <2>2
<1>10. CASE a \in Addr /\ ClientStop(a)
  BY <1>1, <1>2, <1>4, <1>10 DEF ClientStop, ClientsOK
<1>11. ASSUME a \in Addr, NEW v \in Dest, ClientSend(a, v) PROVE HeldInv'
  <2>1. Plain(ToServer("Data", a, v))
    BY DEF ToServer, Blank, Relayed
  <2> HIDE DEF Plain
  <2> QED BY <1>2, <1>11, <2>1 DEF ClientSend, Send, clientVars
<1>12. CASE Lose
  <2>1. PICK p \in net : ~Beats(p) /\ net' = net \ {p} /\ UNCHANGED clientVars
    BY <1>12 DEF Lose, Beats
  <2> QED BY <1>2, <2>1 DEF clientVars
<1>13. CASE UNCHANGED vars
  BY <1>2, <1>13 DEF vars, clientVars
<1> QED
  BY <1>5, <1>6, <1>7, <1>8, <1>9, <1>10, <1>11, <1>12, <1>13

\* A first register takes an address nobody has, and is read once; a heartbeat
\* is let in with the address it names.
LEMMA RegisterReads ==
  ASSUME VpnInv, VpnInv', HeldInv, Forward, ~disturbed',
         NEW g \in Gor, NEW a \in Addr, RecvRegister(g, a)
  PROVE  HeldInv'
<1>1. PICK p \in net :
        /\ p.type = "Register" /\ p.from = a /\ task[g] = Idle
        /\ \/ \E v \in Vip :
                /\ IF p.vip = None THEN FirstFree(v) ELSE v = p.vip
                /\ used' = IF p.vip = None THEN used \cup {v} ELSE used
                /\ task' = [task EXCEPT ![g] = [Idle EXCEPT !.op = "insert", !.vip = v,
                                                            !.addr = a]]
           \/ p.vip = None /\ Vip \subseteq used /\ UNCHANGED <<used, task>>
        /\ Receive(p, {})
        /\ UNCHANGED <<peers, vipIndex, sweep, status, virtualIP, due>>
  BY DEF RecvRegister, clientVars
<1>2. NetOK /\ TaskOK /\ TaskOK' /\ TableOK /\ ClientsOK /\ None \notin Vip /\ None \notin Addr
  BY Constants DEF VpnInv
<1>3. net' = net \ {p} \/ (net' = net /\ p.vip # None)
  BY <1>1 DEF Receive
<1>4. \A q \in net' : q \in net
  BY <1>3
<1>5. CASE p.vip = None /\ UNCHANGED <<used, task>>
  <2>1. \A b \in Addr : Beating(b) => Beating(b)'
    BY <1>1, <1>3, <1>5 DEF Beating, Inserting
  <2> QED BY <1>1, <1>4, <1>5, <2>1, Quietly
<1>6. ASSUME NEW v \in Vip,
             task' = [task EXCEPT ![g] = [Idle EXCEPT !.op = "insert", !.vip = v, !.addr = a]]
      PROVE  /\ task'[g].op = "insert" /\ task'[g].vip = v /\ task'[g].addr = a
             /\ \A h \in Gor : h # g => task'[h] = task[h]
             /\ task[g].op = "idle"
  <2>1. task[g] = Idle
    BY <1>1
  <2>2. /\ task'[g] = [Idle EXCEPT !.op = "insert", !.vip = v, !.addr = a]
        /\ \A h \in Gor : h # g => task'[h] = task[h]
    BY <1>2, <1>6 DEF TaskOK
  <2> QED BY <2>1, <2>2 DEF Idle
<1>7. ASSUME task[g].op = "idle", task'[g].op = "insert", task'[g].addr = a,
             \A h \in Gor : h # g => task'[h] = task[h]
      PROVE  \A b \in Addr : Beating(b) => Beating(b)'
  <2> SUFFICES ASSUME NEW b \in Addr, Beating(b) PROVE Beating(b)'
    OBVIOUS
  <2>1. CASE b = a
    BY <1>7, <2>1 DEF Beating, Inserting
  <2>2. CASE b # a
    <3>1. CASE b \in due
      BY <1>1, <3>1 DEF Beating
    <3>2. ASSUME NEW q \in net, q.type = "Register", q.from = b, q.vip # None
          PROVE  Beating(b)'
      <4>1. q \in net'
        BY <1>1, <1>3, <2>2, <3>2
      <4> QED BY <3>2, <4>1 DEF Beating
    <3>3. ASSUME NEW h \in Gor, task[h].op = "insert", task[h].addr = b
          PROVE  Beating(b)'
      BY <1>7, <3>3 DEF Beating, Inserting
    <3> QED BY <3>1, <3>2, <3>3 DEF Beating, Inserting
  <2> QED BY <2>1, <2>2
<1>8. ASSUME p.vip \in Vip, UNCHANGED used,
             task' = [task EXCEPT ![g] = [Idle EXCEPT !.op = "insert", !.vip = p.vip, !.addr = a]]
      PROVE  HeldInv'
  <2>1. LeasedTo(p.vip, a)
    BY <1>1, <1>8 DEF HeldInv, ClaimsHeld, Claimed
  <2>2. \A h \in Gor : task'[h].op = "insert" =>
           task'[h] = task[h] \/ LeasedTo(task'[h].vip, task'[h].addr)
    BY <1>6, <1>8, <2>1
  <2>3. \A h \in Gor : task'[h].op = "relay" => task'[h] = task[h]
    BY <1>6, <1>8
  <2>4. \A b \in Addr : Beating(b) => Beating(b)'
    BY <1>6, <1>8, <1>7
  <2> QED BY <1>1, <1>4, <1>8, <2>2, <2>3, <2>4, Quietly
<1>9. ASSUME p.vip = None, NEW v \in Vip, FirstFree(v), used' = used \cup {v},
             task' = [task EXCEPT ![g] = [Idle EXCEPT !.op = "insert", !.vip = v, !.addr = a]]
      PROVE  HeldInv'
  <2>1. /\ p = FirstRegister(a) /\ net' = net \ {p} /\ ~Early(a)
        /\ vipIndex[a] = None /\ \A h \in Gor : task[h].op = "insert" => task[h].addr # a
    BY <1>1, <1>3, <1>9 DEF HeldInv, FirstHeld, Inserting
  <2>2. v \notin used /\ ~Known(v)
    BY <1>9 DEF FirstFree, HeldInv, TableHeld
  <2>3. \A h \in Gor : task[h].op = "insert" => task[h].vip # v
    BY <1>2, <2>2 DEF HeldInv, InsertsHeld, Inserting, Fresh, LeasedTo
  <2>4. \A w, b : LeasedTo(w, b)' <=> LeasedTo(w, b)
    BY <1>1 DEF LeasedTo, Known
  <2>5. ClaimsHeld'
    <3>1. \A w \in Vip, b \in Addr : Claimed(w, b)' => Claimed(w, b)
      BY <1>1, <1>4 DEF Claimed
    <3>2. \A b \in Addr : Beating(b) => Beating(b)'
      BY <1>6, <1>9, <1>7
    <3> QED BY <1>1, <1>4, <2>4, <3>1, <3>2 DEF HeldInv, ClaimsHeld, Up
  <2>6. TableHeld'
    BY <1>1, <1>9 DEF HeldInv, TableHeld, Known, Stale, Early
  <2>7. InsertsHeld'
    <3> SUFFICES ASSUME NEW h \in Gor, task'[h].op = "insert",
                        NEW w, NEW b, w = task'[h].vip, b = task'[h].addr
                 PROVE  /\ ~Early(b)'
                        /\ \/ LeasedTo(w, b)'
                           \/ /\ Fresh(w, b)'
                              /\ \A i \in Gor : task'[i].op = "insert"
                                     /\ (task'[i].vip = w \/ task'[i].addr = b) => i = h
      BY DEF InsertsHeld, Inserting
    <3>1. CASE h = g
      <4>1. w = v /\ b = a
        BY <1>6, <1>9, <3>1
      <4>2. ~Early(b)' /\ Fresh(w, b)'
        BY <1>1, <1>9, <2>1, <2>2, <4>1 DEF Fresh, Known, Early
      <4>3. \A i \in Gor : task'[i].op = "insert"
               /\ (task'[i].vip = w \/ task'[i].addr = b) => i = h
        <5>1. \A i \in Gor : i # g /\ task'[i].op = "insert" =>
                 task'[i].vip # v /\ task'[i].addr # a
          BY <1>6, <1>9, <2>1, <2>3
        <5> QED BY <3>1, <4>1, <5>1
      <4> QED BY <4>2, <4>3
    <3>2. CASE h # g
      <4>1. task'[h] = task[h] /\ w # v /\ b # a
        BY <1>6, <1>9, <2>1, <2>3, <3>2
      <4>2. /\ ~Early(b)
            /\ \/ LeasedTo(w, b)
               \/ /\ Fresh(w, b)
                  /\ \A i \in Gor : task[i].op = "insert"
                         /\ (task[i].vip = w \/ task[i].addr = b) => i = h
        BY <4>1 DEF HeldInv, InsertsHeld, Inserting
      <4>3. ~Early(b)' /\ (Fresh(w, b) => Fresh(w, b)')
        BY <1>1, <1>9, <4>2 DEF Early, Fresh, Known
      <4> QED BY <1>6, <1>9, <2>4, <4>1, <4>2, <4>3
    <3> QED BY <3>1, <3>2
  <2>8. FirstHeld'
    <3>1. \A q \in net' : q.type = "Register" /\ q.vip = None =>
             q.from \in Addr /\ q = FirstRegister(q.from) /\ ~Early(q.from)'
      BY <1>1, <1>4 DEF HeldInv, FirstHeld, Early
    <3>2. ASSUME NEW b \in Addr, Early(b)' \/ FirstRegister(b) \in net'
          PROVE  vipIndex'[b] = None /\ \A h \in Gor : Inserting(h)' => task'[h].addr # b
      <4>1. b # a
        BY <1>1, <2>1, <3>2 DEF Early
      <4>2. Early(b) \/ FirstRegister(b) \in net
        BY <1>1, <1>4, <3>2 DEF Early
      <4>3. vipIndex[b] = None /\ \A h \in Gor : task[h].op = "insert" => task[h].addr # b
        BY <4>2 DEF HeldInv, FirstHeld, Inserting
      <4>4. \A h \in Gor : task'[h].op = "insert" => task'[h].addr # b
        BY <1>6, <1>9, <4>1, <4>3
      <4> QED BY <1>1, <4>3, <4>4 DEF Inserting
    <3> QED BY <3>1, <3>2 DEF FirstHeld, FirstRegister
  <2>9. RelaysHeld'
    <3>1. \A h \in Gor : task'[h].op = "relay" => task'[h] = task[h]
      BY <1>6, <1>9
    <3>2. \A b, w : Bound(b, w)' <=> Bound(b, w)
      BY <1>1 DEF Bound
    <3>3. \A h \in Gor : task'[h].op = "relay" => Bound(task[h].to, task[h].vip)'
      BY <3>1, <3>2 DEF HeldInv, RelaysHeld
    <3> QED BY <1>4, <3>2, <3>3 DEF HeldInv, RelaysHeld
  <2> QED BY <2>5, <2>6, <2>7, <2>8, <2>9 DEF HeldInv
<1>10. CASE p.vip # None
  BY <1>1, <1>8, <1>10
<1> QED
  BY <1>1, <1>5, <1>9, <1>10

\* The client that reads its acknowledgement finds its entry new in the table.
LEMMA RegisteredHeld ==
  ASSUME VpnInv, VpnInv', HeldInv, Forward, NEW a \in Addr, ClientRegistered(a)
  PROVE  HeldInv'
<1>1. PICK p \in net :
        /\ p.to = a /\ status[a] = "registering"
        /\ \/ /\ p.type = "RegisterAck"
              /\ status' = [status EXCEPT ![a] = "up"]
              /\ virtualIP' = [virtualIP EXCEPT ![a] = p.vip]
           \/ /\ status' = [status EXCEPT ![a] = "gone"]
              /\ UNCHANGED virtualIP
        /\ net' = net \/ net' = net \ {p}
        /\ UNCHANGED <<used, peers, vipIndex, sweep, task, due>>
  BY DEF ClientRegistered, Receive, serverVars
<1>2. NetOK /\ ClientsOK /\ Server \notin Addr
  BY Constants DEF VpnInv
<1>3. p.type # "Register"
  BY <1>1, <1>2 DEF NetOK, PacketOK
<1>4. \A b \in Addr : Beating(b) => Beating(b)'
  BY <1>1, <1>3 DEF Beating, Inserting
<1>5. ASSUME NEW b \in Addr, status'[b] = "up"
      PROVE  \/ status[b] = "up" /\ virtualIP'[b] = virtualIP[b]
             \/ LeasedTo(virtualIP'[b], b) /\ peers[virtualIP'[b]].age = 0
  <2>1. CASE b # a
    BY <1>1, <1>2, <1>5, <2>1 DEF ClientsOK
  <2>2. CASE b = a
    <3>1. p.type = "RegisterAck" /\ virtualIP'[b] = p.vip
      BY <1>1, <1>2, <1>5, <2>2 DEF ClientsOK
    <3>2. p.vip \in Vip
      BY <1>2, <3>1 DEF NetOK, PacketOK
    <3> QED BY <1>1, <2>2, <3>1, <3>2 DEF HeldInv, ClaimsHeld, Claimed
  <2> QED BY <2>1, <2>2
<1> QED
  BY <1>1, <1>3, <1>4, <1>5, Quietly

\* The insertion makes a new lease or renews the one there is, and leaves every
\* other as it was.
LEMMA InsertsHold ==
  ASSUME VpnInv, VpnInv', HeldInv, NEW g \in Gor, RegisterInsert(g)
  PROVE  HeldInv'
<1>1. PICK v \in Vip, a \in Addr :
        /\ task[g].op = "insert" /\ task[g].vip = v /\ task[g].addr = a /\ sweep = {}
        /\ peers' = [peers EXCEPT ![v] = [addr |-> a, age |-> 0]]
        /\ vipIndex' = [vipIndex EXCEPT ![a] = v]
        /\ net' = net \cup {ToClient("RegisterAck", a, v, Registered')}
        /\ task' = [task EXCEPT ![g].op = "snapshot"]
        /\ UNCHANGED <<used, sweep, status, virtualIP, due>>
  BY DEF RegisterInsert, Unlocked, Send, clientVars, VpnInv, TaskOK
<1>2. TaskOK /\ TableOK /\ ClientsOK /\ NetOK /\ NetOK' /\ None \notin Vip /\ None \notin Addr
  BY Constants DEF VpnInv
<1> DEFINE ack == ToClient("RegisterAck", a, v, Registered')
<1>3. net' = net \cup {ack}
  BY <1>1
<1>4. ack.type = "RegisterAck" /\ ack.to = a /\ ack.vip = v
  BY DEF ToClient, Blank
<1> HIDE DEF ack
<1>5. /\ peers'[v] = [addr |-> a, age |-> 0] /\ Known(v)'
      /\ \A w \in Vip : w # v => peers'[w] = peers[w]
      /\ vipIndex'[a] = v /\ \A b \in Addr : b # a => vipIndex'[b] = vipIndex[b]
  <2>1. [addr |-> a, age |-> 0] \in Entry
    BY Constants DEF Entry
  <2>2. /\ peers'[v] = [addr |-> a, age |-> 0]
        /\ \A w \in Vip : w # v => peers'[w] = peers[w]
    BY <1>1, <1>2 DEF TableOK
  <2>3. vipIndex'[a] = v /\ \A b \in Addr : b # a => vipIndex'[b] = vipIndex[b]
    BY <1>1, <1>2 DEF TableOK
  <2> QED BY <2>1, <2>2, <2>3, Constants DEF Known
<1>6. /\ task'[g].op = "snapshot" /\ \A h \in Gor : h # g => task'[h] = task[h]
  BY <1>1, <1>2 DEF TaskOK, Task
<1>7. /\ ~Early(a)
      /\ \/ LeasedTo(v, a)
         \/ /\ Fresh(v, a)
            /\ \A h \in Gor : Inserting(h) /\ (task[h].vip = v \/ task[h].addr = a) => h = g
  BY <1>1 DEF HeldInv, InsertsHeld, Inserting
<1>8. ASSUME NEW w \in Vip, NEW b \in Addr, LeasedTo(w, b)
      PROVE  LeasedTo(w, b)' /\ (w = v <=> b = a) /\ (w # v => peers'[w].age = peers[w].age)
  <2>1. w = v => b = a
    BY <1>7, <1>8 DEF LeasedTo, Fresh
  <2>2. b = a => w = v
    BY <1>2, <1>7, <1>8 DEF LeasedTo, Fresh
  <2> QED BY <1>1, <1>5, <1>8, <2>1, <2>2, Constants DEF LeasedTo, Known
<1>9. v \in used /\ LeasedTo(v, a)'
  <2>1. v \in used
    BY <1>7 DEF HeldInv, TableHeld, LeasedTo, Fresh
  <2> QED BY <1>1, <1>5, <2>1, Constants DEF LeasedTo
<1>10. ClaimsHeld'
  <2>1. ASSUME NEW w \in Vip, NEW b \in Addr, Claimed(w, b)' PROVE LeasedTo(w, b)'
    <3>1. Claimed(w, b) \/ (w = v /\ b = a)
      BY <1>1, <1>3, <1>4, <2>1 DEF Claimed
    <3> QED BY <1>8, <1>9, <3>1 DEF HeldInv, ClaimsHeld
  <2>2. ASSUME NEW p \in net', p.type = "RegisterAck" PROVE peers'[p.vip].age = 0
    <3>1. p.vip \in Vip
      BY <1>2, <2>2 DEF NetOK, PacketOK
    <3>2. p.vip # v => p \in net
      BY <1>3, <1>4
    <3> QED BY <1>5, <2>2, <3>1, <3>2 DEF HeldInv, ClaimsHeld
  <2>3. ASSUME NEW b \in Addr, status[b] = "up"
        PROVE  \/ peers'[virtualIP[b]].age = 0
               \/ peers'[virtualIP[b]].age = 1 /\ Beating(b)'
    <3>1. virtualIP[b] \in Vip /\ LeasedTo(virtualIP[b], b)
      BY <1>2, <2>3 DEF ClientsOK, HeldInv, ClaimsHeld, Claimed
    <3>2. CASE b = a
      BY <1>5, <1>8, <3>1, <3>2
    <3>3. CASE b # a
      <4>1. Beating(b) => Beating(b)'
        BY <1>1, <1>3, <1>6, <3>3 DEF Beating, Inserting
      <4>2. peers[virtualIP[b]].age = 0 \/ (peers[virtualIP[b]].age = 1 /\ Beating(b))
        BY <2>3 DEF HeldInv, ClaimsHeld, Up
      <4> QED BY <1>8, <3>1, <3>3, <4>1, <4>2
    <3> QED BY <3>2, <3>3
  <2> QED BY <1>1, <2>1, <2>2, <2>3 DEF ClaimsHeld, Up
<1>11. TableHeld'
  <2>1. ASSUME NEW w \in Vip, w # v, Known(w)
        PROVE  /\ w \in used /\ vipIndex'[peers[w].addr] = w /\ ~Early(peers[w].addr)
               /\ peers[w].age > 0 => status[peers[w].addr] \in {"up", "gone"}
    <3>1. peers[w].addr \in Addr
      BY <1>2, <2>1 DEF TableOK, Known, Entry
    <3>2. vipIndex[peers[w].addr] = w
      BY <2>1 DEF HeldInv, TableHeld
    <3>3. peers[w].addr # a
      BY <1>2, <1>7, <2>1, <3>2 DEF LeasedTo, Fresh
    <3> QED BY <1>5, <2>1, <3>1, <3>2, <3>3 DEF HeldInv, TableHeld
  <2>2. ASSUME NEW w \in Vip, Known(w)'
        PROVE  /\ w \in used /\ vipIndex'[peers'[w].addr] = w /\ ~Early(peers'[w].addr)
               /\ peers'[w].age > 0 => status[peers'[w].addr] \in {"up", "gone"}
    <3>1. CASE w = v
      BY <1>5, <1>7, <1>9, <3>1
    <3>2. CASE w # v
      BY <1>5, <2>1, <2>2, <3>2 DEF Known
    <3> QED BY <3>1, <3>2
  <2> QED BY <1>1, <2>2 DEF TableHeld, Early
<1>12. InsertsHeld'
  <2> SUFFICES ASSUME NEW h \in Gor, task'[h].op = "insert",
                      NEW w, NEW b, w = task'[h].vip, b = task'[h].addr
               PROVE  /\ ~Early(b)'
                      /\ \/ LeasedTo(w, b)'
                         \/ /\ Fresh(w, b)'
                            /\ \A i \in Gor : task'[i].op = "insert"
                                   /\ (task'[i].vip = w \/ task'[i].addr = b) => i = h
    BY DEF InsertsHeld, Inserting
  <2>1. h # g /\ task'[h] = task[h] /\ w \in Vip /\ b \in Addr
    BY <1>2, <1>6 DEF TaskOK
  <2>2. /\ ~Early(b)
        /\ \/ LeasedTo(w, b)
           \/ /\ Fresh(w, b)
              /\ \A i \in Gor : task[i].op = "insert"
                     /\ (task[i].vip = w \/ task[i].addr = b) => i = h
    BY <2>1 DEF HeldInv, InsertsHeld, Inserting
  <2>3. ~Early(b)'
    BY <1>1, <2>2 DEF Early
  <2>4. CASE LeasedTo(w, b)
    BY <1>8, <2>1, <2>3, <2>4
  <2>5. CASE ~LeasedTo(w, b)
    <3>1. w # v /\ b # a
      BY <1>1, <2>1, <2>2, <2>5
    <3>2. Fresh(w, b)'
      BY <1>1, <1>5, <2>1, <2>2, <2>5, <3>1 DEF Fresh, Known
    <3>3. \A i \in Gor : task'[i].op = "insert"
             /\ (task'[i].vip = w \/ task'[i].addr = b) => i = h
      BY <1>6, <2>2, <2>5
    <3> QED BY <2>3, <3>2, <3>3
  <2> QED BY <2>4, <2>5
<1>13. FirstHeld'
  <2>1. \A q \in net' : q.type = "Register" => q \in net
    BY <1>3, <1>4
  <2>2. ASSUME NEW b \in Addr, Early(b)' \/ FirstRegister(b) \in net'
        PROVE  vipIndex'[b] = None /\ \A h \in Gor : Inserting(h)' => task'[h].addr # b
    <3>1. FirstRegister(b).type = "Register"
      BY DEF FirstRegister, ToServer, Blank
    <3>2. Early(b) \/ FirstRegister(b) \in net
      BY <1>1, <2>1, <2>2, <3>1 DEF Early
    <3>3. vipIndex[b] = None /\ \A h \in Gor : task[h].op = "insert" => task[h].addr # b
      BY <3>2 DEF HeldInv, FirstHeld, Inserting
    <3>4. b # a
      BY <1>1, <3>3
    <3> QED BY <1>5, <1>6, <3>3, <3>4 DEF Inserting
  <2>3. \A q \in net' : q.type = "Register" /\ q.vip = None =>
           q.from \in Addr /\ q = FirstRegister(q.from) /\ ~Early(q.from)'
    BY <1>1, <2>1 DEF HeldInv, FirstHeld, Early
  <2> QED BY <2>2, <2>3 DEF FirstHeld, FirstRegister
<1>14. RelaysHeld'
  <2>1. ASSUME NEW b \in Addr, NEW w \in Vip, Bound(b, w) PROVE Bound(b, w)'
    BY <1>1, <1>2, <1>5, <1>7, <2>1 DEF Bound, LeasedTo, Fresh
  <2>2. ASSUME NEW h \in Gor, task'[h].op = "relay" PROVE Bound(task[h].to, task[h].vip)'
    <3>1. h # g /\ task'[h] = task[h] /\ task[h].to \in Addr /\ task[h].vip \in Vip
      BY <1>2, <1>6, <2>2 DEF TaskOK
    <3> QED BY <2>1, <2>2, <3>1 DEF HeldInv, RelaysHeld
  <2>3. ASSUME NEW p \in net', Relayed(p)
        PROVE  /\ p.to \in Addr /\ p.data \in Payload
               /\ Bound(p.to, p.data.for)' /\ Bound(p.data.by, p.vip)'
    <3>1. p \in net /\ p.vip \in Vip
      BY <1>2, <1>3, <1>4, <2>3 DEF Relayed, NetOK, PacketOK
    <3>2. RelayOK(p)
      BY <2>3, <3>1 DEF HeldInv, RelaysHeld, Relayed, RelayOK
    <3> QED BY <2>1, <3>1, <3>2 DEF RelayOK, Payload
  <2> QED BY <2>2, <2>3 DEF RelaysHeld, Relayed
<1> QED
  BY <1>10, <1>11, <1>12, <1>13, <1>14 DEF HeldInv

\* A cleanup removes the stale, whose clients are gone for good.
LEMMA CleanupHolds ==
  ASSUME VpnInv, VpnInv', HeldInv, CleanupBegin \/ CleanupRemove
  PROVE  HeldInv'
<1>1. /\ UNCHANGED <<task, net, status, virtualIP, due>>
      /\ TaskOK /\ TableOK /\ ClientsOK /\ NetOK
  BY DEF CleanupBegin, CleanupRemove, clientVars, VpnInv
<1>2. \A b \in Addr : Beating(b)' <=> Beating(b)
  BY <1>1 DEF Beating, Inserting
<1>3. \A w \in Vip, b \in Addr : Claimed(w, b)' <=> Claimed(w, b)
  BY <1>1 DEF Claimed
<1>4. CASE CleanupBegin
  <2>1. /\ UNCHANGED <<used, peers, vipIndex>> /\ sweep' = {v \in Vip : Stale(v)}
    BY <1>4 DEF CleanupBegin
  <2>2. \A w \in Vip : \A b : LeasedTo(w, b) => LeasedTo(w, b)'
    BY <1>1, <2>1, Constants DEF LeasedTo, Known, Stale, TableOK, Entry
  <2>3. ClaimsHeld'
    BY <1>1, <1>2, <1>3, <2>1, <2>2 DEF HeldInv, ClaimsHeld, Up
  <2>4. TableHeld'
    BY <1>1, <2>1 DEF HeldInv, TableHeld, Known, Stale, Early
  <2>5. InsertsHeld'
    BY <1>1, <2>1, <2>2 DEF HeldInv, InsertsHeld, Inserting, Early, Fresh, Known, TaskOK
  <2>6. FirstHeld' /\ RelaysHeld'
    BY <1>1, <2>1 DEF HeldInv, FirstHeld, RelaysHeld, Bound, Early, Inserting, FirstRegister
  <2> QED BY <2>3, <2>4, <2>5, <2>6 DEF HeldInv
<1>5. CASE CleanupRemove
  <2>1. PICK v \in sweep : /\ used' = used \ {v}
                           /\ vipIndex' = [vipIndex EXCEPT ![peers[v].addr] = None]
                           /\ peers' = [peers EXCEPT ![v] = None]
                           /\ sweep' = sweep \ {v}
    BY <1>5 DEF CleanupRemove
  <2>2. PICK b \in Addr : /\ v \in Vip /\ Known(v) /\ peers[v].addr = b
                          /\ vipIndex[b] = v /\ peers[v].age > Timeout /\ peers[v].age > 0
    BY <1>1, <2>1, Constants DEF TableOK, Registered, Known, Entry, HeldInv, TableHeld, Stale
  <2>3. /\ peers'[v] = None /\ \A w \in Vip : w # v => peers'[w] = peers[w]
        /\ vipIndex'[b] = None /\ \A c \in Addr : c # b => vipIndex'[c] = vipIndex[c]
    BY <1>1, <2>1, <2>2 DEF TableOK
  <2>4. ASSUME NEW w \in Vip, NEW c \in Addr, LeasedTo(w, c)
        PROVE  w # v /\ c # b /\ LeasedTo(w, c)'
    BY <2>1, <2>2, <2>3, <2>4, Constants DEF LeasedTo, Known
  <2>5. status[b] = "gone"
    <3>1. status[b] \in {"up", "gone"}
      BY <2>2 DEF HeldInv, TableHeld
    <3>2. status[b] = "up" => virtualIP[b] \in Vip /\ LeasedTo(virtualIP[b], b)
      BY <1>1 DEF ClientsOK, HeldInv, ClaimsHeld, Claimed
    <3> QED BY <2>4, <3>1, <3>2
  <2>6. ClaimsHeld'
    <3>1. \A w \in Vip, c \in Addr : Claimed(w, c)' => LeasedTo(w, c)'
      BY <1>3, <2>4 DEF HeldInv, ClaimsHeld
    <3>2. ASSUME NEW p \in net, p.type = "RegisterAck" PROVE peers'[p.vip].age = 0
      <4>1. p.vip \in Vip
        BY <1>1, <3>2 DEF NetOK, PacketOK
      <4>2. peers[p.vip].age = 0
        BY <3>2 DEF HeldInv, ClaimsHeld
      <4> QED BY <2>2, <2>3, <4>1, <4>2
    <3>3. ASSUME NEW c \in Addr, status[c] = "up"
          PROVE  \/ peers'[virtualIP[c]].age = 0
                 \/ peers'[virtualIP[c]].age = 1 /\ Beating(c)'
      <4>1. virtualIP[c] \in Vip /\ virtualIP[c] # v
        BY <1>1, <2>4, <3>3 DEF ClientsOK, HeldInv, ClaimsHeld, Claimed
      <4> QED BY <1>2, <2>3, <3>3, <4>1 DEF HeldInv, ClaimsHeld, Up
    <3> QED BY <1>1, <3>1, <3>2, <3>3 DEF ClaimsHeld, Up
  <2>7. TableHeld'
    <3>1. ASSUME NEW w \in Vip, Known(w)'
          PROVE  /\ w \in used' /\ vipIndex'[peers'[w].addr] = w /\ ~Early(peers'[w].addr)
                 /\ peers'[w].age > 0 => status[peers'[w].addr] \in {"up", "gone"}
      <4>1. w # v /\ peers'[w] = peers[w] /\ Known(w)
        BY <2>3, <3>1 DEF Known
      <4>2. peers[w].addr \in Addr
        BY <1>1, <4>1 DEF TableOK, Known, Entry
      <4>3. /\ w \in used /\ vipIndex[peers[w].addr] = w /\ ~Early(peers[w].addr)
            /\ peers[w].age > 0 => status[peers[w].addr] \in {"up", "gone"}
        BY <4>1 DEF HeldInv, TableHeld
      <4> QED BY <2>1, <2>2, <2>3, <4>1, <4>2, <4>3
    <3>2. \A w \in sweep' : Stale(w)'
      BY <1>1, <2>1, <2>3 DEF HeldInv, TableHeld, Stale, Known, TableOK, Registered
    <3> QED BY <1>1, <3>1, <3>2 DEF TableHeld, Early
  <2>8. InsertsHeld'
    <3> SUFFICES ASSUME NEW h \in Gor, task[h].op = "insert",
                        NEW w, NEW c, w = task[h].vip, c = task[h].addr
                 PROVE  /\ ~Early(c)'
                        /\ \/ LeasedTo(w, c)'
                           \/ /\ Fresh(w, c)'
                              /\ \A i \in Gor : task[i].op = "insert"
                                     /\ (task[i].vip = w \/ task[i].addr = c) => i = h
      BY <1>1 DEF InsertsHeld, Inserting
    <3>1. w \in Vip /\ c \in Addr
      BY <1>1 DEF TaskOK
    <3>2. /\ ~Early(c)
          /\ \/ LeasedTo(w, c)
             \/ /\ Fresh(w, c)
                /\ \A i \in Gor : task[i].op = "insert"
                       /\ (task[i].vip = w \/ task[i].addr = c) => i = h
      BY DEF HeldInv, InsertsHeld, Inserting
    <3>3. Fresh(w, c) => Fresh(w, c)'
      BY <2>1, <2>2, <2>3, <3>1 DEF Fresh, Known
    <3>4. ~Early(c)'
      BY <1>1, <3>2 DEF Early
    <3> QED BY <2>4, <3>1, <3>2, <3>3, <3>4
  <2>9. FirstHeld'
    BY <1>1, <2>3 DEF HeldInv, FirstHeld, Early, Inserting, FirstRegister
  <2>10. RelaysHeld'
    <3>1. ASSUME NEW c \in Addr, NEW w, Bound(c, w) PROVE Bound(c, w)'
      BY <1>1, <2>3, <2>5, <3>1 DEF Bound
    <3>2. \A h \in Gor : task[h].op = "relay" => task[h].to \in Addr
      BY <1>1 DEF TaskOK
    <3>3. \A h \in Gor : task[h].op = "relay" => Bound(task[h].to, task[h].vip)'
      BY <1>1, <3>1, <3>2 DEF HeldInv, RelaysHeld
    <3>4. \A p \in net : p.type = "Data" /\ p.to # Server =>
             /\ p.to \in Addr /\ p.data \in Payload
             /\ Bound(p.to, p.data.for)' /\ Bound(p.data.by, p.vip)'
      BY <3>1 DEF HeldInv, RelaysHeld, Payload
    <3> QED BY <1>1, <3>3, <3>4 DEF RelaysHeld
  <2> QED BY <2>6, <2>7, <2>8, <2>9, <2>10 DEF HeldInv
<1> QED
  BY <1>4, <1>5

\* A minute passes: every client that is up has been heard of in it, and owes
\* its next heartbeat now.
LEMMA MinuteHolds ==
  ASSUME VpnInv, VpnInv', HeldInv, Minute
  PROVE  HeldInv'
<1>1. /\ net = {} /\ net' = {} /\ due = {} /\ \A g \in Gor : task[g].op = "idle"
      /\ \A a \in Addr : status[a] \notin {"binding", "registering"}
      /\ due' = {a \in Addr : status[a] = "up"}
      /\ UNCHANGED <<used, vipIndex, sweep, task, status, virtualIP>>
      /\ TaskOK /\ TableOK /\ ClientsOK
  BY DEF Minute, Quiet, Idle, VpnInv
<1>2. peers' = [v \in Vip |-> IF Known(v) /\ peers[v].age <= Timeout
                              THEN [peers[v] EXCEPT !.age = @ + 1]
                              ELSE peers[v]]
  BY DEF Minute
<1>3. ASSUME NEW v \in Vip
      PROVE  /\ Known(v)' <=> Known(v)
             /\ Known(v) => /\ peers'[v].addr = peers[v].addr /\ peers[v].addr \in Addr
                            /\ peers[v].age \in Nat
                            /\ peers[v].age <= Timeout => peers'[v].age = peers[v].age + 1
                            /\ peers[v].age > Timeout => peers'[v].age = peers[v].age
  <2>1. CASE peers[v] = None
    BY <1>2, <2>1 DEF Known
  <2>2. CASE peers[v] # None
    <3>1. peers[v] \in Entry /\ peers[v].age \in Nat
      BY <1>1, <2>2, Constants DEF TableOK, Entry
    <3>2. peers'[v] = IF peers[v].age <= Timeout THEN [peers[v] EXCEPT !.age = @ + 1]
                                                 ELSE peers[v]
      BY <1>2, <2>2 DEF Known
    <3>3. [peers[v] EXCEPT !.age = @ + 1] = [addr |-> peers[v].addr, age |-> peers[v].age + 1]
      BY <3>1 DEF Entry
    <3>4. peers'[v] # None
      <4>1. peers[v].age <= Timeout =>
               [addr |-> peers[v].addr, age |-> peers[v].age + 1] \in Entry
        BY <3>1, Constants DEF Entry
      <4> QED BY <2>2, <3>2, <3>3, <4>1, Constants
    <3> QED BY <2>2, <3>1, <3>2, <3>3, <3>4, Constants DEF Known, Entry
  <2> QED BY <2>1, <2>2
<1>4. ASSUME NEW a \in Addr, status[a] = "up"
      PROVE  /\ virtualIP[a] \in Vip /\ LeasedTo(virtualIP[a], a)'
             /\ peers'[virtualIP[a]].age = 1 /\ Beating(a)'
  <2>1. virtualIP[a] \in Vip /\ LeasedTo(virtualIP[a], a)
    BY <1>1, <1>4 DEF ClientsOK, HeldInv, ClaimsHeld, Claimed
  <2>2. ~Beating(a) /\ Beating(a)'
    BY <1>1, <1>4 DEF Beating, Inserting
  <2>3. peers[virtualIP[a]].age = 0
    BY <1>4, <2>2 DEF HeldInv, ClaimsHeld, Up
  <2>4. 1 <= Timeout
    BY StunAssumption
  <2>5. /\ Known(virtualIP[a])' /\ peers'[virtualIP[a]].addr = a
        /\ peers'[virtualIP[a]].age = 1
    BY <1>1, <1>3, <2>1, <2>3, Constants DEF LeasedTo
  <2> QED BY <1>1, <2>1, <2>2, <2>4, <2>5 DEF LeasedTo
<1>5. ClaimsHeld'
  <2>1. ASSUME NEW v \in Vip, NEW a \in Addr, Claimed(v, a)' PROVE LeasedTo(v, a)'
    <3>1. virtualIP[a] = v /\ status[a] = "up"
      BY <1>1, <2>1, Constants DEF Claimed, ClientsOK
    <3> QED BY <1>1, <1>4, <3>1
  <2> QED BY <1>1, <1>4, <2>1 DEF ClaimsHeld, Up
<1>6. TableHeld'
  <2>1. ASSUME NEW v \in Vip, Known(v)
        PROVE  v \in used /\ vipIndex[peers[v].addr] = v /\ status[peers[v].addr] \in {"up", "gone"}
    BY <1>1, <1>3, <2>1 DEF HeldInv, TableHeld, Early, ClientsOK
  <2>2. \A v \in sweep : Stale(v)'
    BY <1>1, <1>3, Constants DEF HeldInv, TableHeld, Stale, TableOK, Registered
  <2> QED BY <1>1, <1>3, <2>1, <2>2 DEF TableHeld, Early
<1>7. InsertsHeld' /\ FirstHeld' /\ RelaysHeld'
  BY <1>1 DEF HeldInv, InsertsHeld, FirstHeld, RelaysHeld, Inserting, Early
<1> QED
  BY <1>5, <1>6, <1>7 DEF HeldInv

\* No fault undoes another.
LEMMA DisturbedStays ==
  ASSUME [Next]_vars, disturbed
  PROVE  disturbed'
<1>1. ASSUME NEW p, NEW out, Receive(p, out) PROVE disturbed'
  BY <1>1, Zenon DEF Receive, faultVars
<1>2. CASE UNCHANGED disturbed
  BY <1>2
<1>3. CASE \E p, out : Receive(p, out)
  BY <1>1, <1>3
<1>4. CASE Lose
  BY <1>4, Zenon DEF Lose
<1>5. CASE ServerRestart
  BY <1>5 DEF ServerRestart
<1>6. CASE \E g \in Gor, a \in Addr : RecvStun(g, a) \/ RecvRegister(g, a) \/ RelayLookup(g, a)
  BY <1>3, <1>6 DEF RecvStun, RecvRegister, RelayLookup
<1>7. CASE \E a \in Addr : ClientBound(a) \/ ClientRegistered(a) \/ ClientReceive(a)
  BY <1>3, <1>7 DEF ClientBound, ClientRegistered, ClientReceive
<1>8. CASE \E g \in Gor : \/ RegisterInsert(g) \/ BroadcastSnapshot(g)
                          \/ BroadcastSend(g) \/ RelaySend(g)
  BY <1>2, <1>8 DEF RegisterInsert, BroadcastSnapshot, BroadcastSend, RelaySend, Send, faultVars
<1>9. CASE \E a \in Addr : \/ ClientStart(a) \/ ClientBindTimeout(a) \/ ClientTimeout(a)
                           \/ Heartbeat(a) \/ ClientStop(a) \/ Discard(a)
                           \/ \E v \in Dest : ClientSend(a, v)
  BY <1>2, <1>9 DEF ClientStart, ClientBindTimeout, ClientTimeout, TooLate, Heartbeat,
                    ClientStop, Discard, ClientSend, Send, faultVars
<1>10. CASE CleanupBegin \/ CleanupRemove \/ Minute \/ UNCHANGED vars
  BY <1>2, <1>10 DEF CleanupBegin, CleanupRemove, Minute, vars, faultVars
<1> QED
  BY <1>4, <1>5, <1>6, <1>7, <1>8, <1>9, <1>10 DEF Next

\* Every step of an undisturbed overlay keeps the addresses where they are.
LEMMA HeldStep == VpnInv /\ HeldUnlessDisturbed /\ [Next]_vars => HeldUnlessDisturbed'
<1> SUFFICES ASSUME VpnInv, HeldUnlessDisturbed, [Next]_vars, ~disturbed'
             PROVE  HeldInv'
  BY Zenon DEF HeldUnlessDisturbed
<1>1. VpnInv' /\ HeldInv
  BY VpnStep, DisturbedStays DEF HeldUnlessDisturbed
<1>2. Forward
  BY <1>1, MovesForward DEF VpnInv
<1>3. CASE \/ \E g \in Gor, a \in Addr : RecvStun(g, a) \/ RelayLookup(g, a)
           \/ \E g \in Gor : BroadcastSnapshot(g) \/ BroadcastSend(g) \/ RelaySend(g)
  BY <1>1, <1>2, <1>3, ServerQuiet
<1>4. CASE \/ \E a \in Addr :
                \/ ClientStart(a) \/ ClientBound(a) \/ ClientBindTimeout(a) \/ ClientTimeout(a)
                \/ Heartbeat(a) \/ ClientReceive(a) \/ ClientStop(a) \/ Discard(a)
                \/ \E v \in Dest : ClientSend(a, v)
           \/ Lose \/ UNCHANGED vars
  BY <1>1, <1>2, <1>4, ClientQuiet
<1>5. CASE \E g \in Gor, a \in Addr : RecvRegister(g, a)
  BY <1>1, <1>2, <1>5, RegisterReads
<1>6. CASE \E a \in Addr : ClientRegistered(a)
  BY <1>1, <1>2, <1>6, RegisteredHeld
<1>7. CASE \E g \in Gor : RegisterInsert(g)
  BY <1>1, <1>7, InsertsHold
<1>8. CASE CleanupBegin \/ CleanupRemove
  BY <1>1, <1>8, CleanupHolds
<1>9. CASE Minute
  BY <1>1, <1>9, MinuteHolds
<1>10. CASE ServerRestart
  BY <1>10 DEF ServerRestart
<1> QED
  BY <1>3, <1>4, <1>5, <1>6, <1>7, <1>8, <1>9, <1>10 DEF Next

\* NewServer and new clients claim nothing.
LEMMA HeldStart == Init => HeldUnlessDisturbed
<1> SUFFICES ASSUME Init PROVE HeldInv
  BY DEF HeldUnlessDisturbed
<1>1. ClaimsHeld /\ TableHeld
  BY Constants DEF Init, ClaimsHeld, TableHeld, Claimed, Up, Known
<1>2. InsertsHeld /\ FirstHeld /\ RelaysHeld
  BY DEF Init, InsertsHeld, FirstHeld, RelaysHeld, Inserting, Idle
<1> QED
  BY <1>1, <1>2 DEF HeldInv

\* Who claims an address, in the table, in a datagram or in a client that is up,
\* is the only one to do so, unless one of the faults named happened.
THEOREM VpnClaimsHold == Spec => []HeldUnlessDisturbed
BY VpnInvariant, HeldStart, HeldStep, PTL DEF Spec

\* Every client that is up has its address in the table and in the index.
THEOREM VpnAddressesHeld == Spec => []HoldsUnlessDisturbed
<1>1. ASSUME VpnInv, HeldUnlessDisturbed PROVE HoldsUnlessDisturbed
  <2>1. HeldInv => \A a \in Up : Holds(a)
    BY <1>1, Constants
    DEF HeldInv, ClaimsHeld, Claimed, LeasedTo, Holds, Up, VpnInv, ClientsOK
  <2> QED BY <1>1, <2>1, Zenon DEF HeldUnlessDisturbed, HoldsUnlessDisturbed
<1> QED
  BY <1>1, VpnInvariant, VpnClaimsHold, PTL

\* What the server relays reaches the client it was for, under the name of the
\* client that sent it.
THEOREM VpnRelaysTruly == Spec => []RelayedTruly
<1>1. ASSUME VpnInv, HeldUnlessDisturbed PROVE RelayedTruly
  <2> SUFFICES ASSUME NEW p \in net, p.type = "Data", p.to # Server, HeldInv
               PROVE  /\ p.to \in Up => virtualIP[p.to] = p.data.for
                      /\ p.data.by \in Up => virtualIP[p.data.by] = p.vip
    BY <1>1, Zenon DEF RelayedTruly, HeldUnlessDisturbed
  <2>1. \A a \in Up : vipIndex[a] = virtualIP[a] /\ status[a] = "up"
    BY <1>1, Constants DEF HeldInv, ClaimsHeld, Claimed, LeasedTo, Up, VpnInv, ClientsOK
  <2>2. Bound(p.to, p.data.for) /\ Bound(p.data.by, p.vip)
    BY DEF HeldInv, RelaysHeld
  <2> QED BY <2>1, <2>2 DEF Bound
<1> QED
  BY <1>1, VpnInvariant, VpnClaimsHold, PTL
=============================================================================
