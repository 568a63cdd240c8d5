----------------------------- MODULE N2nOverlay ------------------------------
(***************************************************************************)
(* The n2n overlay: edges (n2n/edge.go) and the supernode (module          *)
(* Supernode) over UDP, which loses, duplicates and reorders datagrams.    *)
(* An edge listens on a fixed port (Config.Listen), so the element of Addr *)
(* that names an edge is also its UDP address, across its restarts.        *)
(*                                                                         *)
(* Faults (a lost, duplicated or late datagram, a stop, a crash) are       *)
(* counted and bounded by MaxFaults.  A tick of Supernode is a minute      *)
(* here: no datagram is in flight for that long, a registration takes ten  *)
(* seconds at most, and an edge sends a heartbeat in each of them.         *)
(***************************************************************************)
EXTENDS Supernode

CONSTANTS Super,     \* the supernode's UDP address
          Dest,      \* the virtual addresses applications send data to
          MaxFaults  \* bound on the faults of a behaviour

\* Entries survive a minute at least (five in the code).
ASSUME OverlayAssumption == /\ Super \notin Addr /\ Super # None
                            /\ Dest \subseteq Vip
                            /\ MaxFaults \in Nat /\ Timeout > 0

VARIABLES net,        \* the datagrams in flight
          status,     \* status[e]: is the edge process down, registering or up
          virtualIP,  \* e.virtualIP
          known,      \* e.peers: virtual address -> real address
          due,        \* the edges whose heartbeat of this minute is to be sent
          faults,     \* faults so far
          disturbed   \* has a fault happened that may cost an edge its lease

edgeVars == <<status, virtualIP, known, due>>
vars == <<superVars, net, edgeVars, faults, disturbed>>

------------------------------------------------------------------------------
Edge == Addr

NoRoutes == [v \in Vip |-> None]

\* A peer list, as bindings of virtual to real addresses.
Routes == [Vip -> Addr \cup {None}]

Table == [v \in Vip |-> IF Known(v) THEN peers[v].addr ELSE None]

Packet == [type : {"Register", "RegisterAck", "Heartbeat", "HeartbeatAck",
                   "PeerList", "Bye", "Data"},
           from : Addr \cup {Super},
           to   : Addr \cup {Super},
           vip  : Vip \cup {None},  \* SrcIP; for Data the destination DstIP
           list : Routes]

Datagram(type, from, to, vip, list) ==
  [type |-> type, from |-> from, to |-> to, vip |-> vip, list |-> list]

ToSuper(type, e, vip) == Datagram(type, e, Super, vip, NoRoutes)

\* unmarshalPeerList, then "store every peer but myself": bindings are only
\* ever added or overwritten.
Merge(e, list) ==
  [v \in Vip |-> IF list[v] # None /\ v # virtualIP[e] THEN list[v] ELSE known[e][v]]

\* The lease of an edge that is up is in the supernode's table.
HoldsLease(e) == virtualIP[e] # None /\ Known(virtualIP[e]) /\ peers[virtualIP[e]].addr = e

Fault == faults < MaxFaults /\ faults' = faults + 1

\* p is received and answered by out: once, or again later.
Receive(p, out) ==
  /\ p \in net
  /\ \/ net' = (net \ {p}) \cup out /\ UNCHANGED <<faults, disturbed>>
     \/ /\ Fault
        /\ net' = net \cup out
        /\ disturbed' = (disturbed \/ p.type \in {"Bye", "RegisterAck"})

Send(out) == net' = net \cup out /\ UNCHANGED <<faults, disturbed>>

OverlayInit == /\ SuperInit
               /\ net = {}
               /\ status = [e \in Edge |-> "down"]
               /\ virtualIP = [e \in Edge |-> None]
               /\ known = [e \in Edge |-> NoRoutes]
               /\ due = {}
               /\ faults = 0
               /\ disturbed = FALSE

------------------------------------------------------------------------------
(* The supernode's side. *)

RecvRegister(g, e) == \E p \in net :
  /\ p.type = "Register" /\ p.from = e
  /\ \/ RegisterAllocate(g, p.from)
     \/ task[g] = Idle /\ Vip \subseteq used /\ UNCHANGED superVars
  /\ Receive(p, {})
  /\ UNCHANGED edgeVars

AnswerRegister(g) ==
  /\ RegisterInsert(g)
  /\ LET a == task[g].addr
     IN  Send({Datagram("RegisterAck", Super, a, task[g].vip, Table')})
  /\ UNCHANGED edgeVars

\* broadcastPeerUpdate skips the entries of the newcomer's own real address.
AnnouncePeer(g) ==
  /\ Broadcast(g)
  /\ LET new == [NoRoutes EXCEPT ![task[g].vip] = task[g].addr]
         told == {peers[v].addr : v \in {w \in Vip : Known(w)}} \ {task[g].addr}
     IN  Send({Datagram("PeerList", Super, a, task[g].vip, new) : a \in told})
  /\ UNCHANGED edgeVars

RecvHeartbeat(g, e) == \E p \in net :
  /\ p.type = "Heartbeat" /\ p.from = e
  /\ HeartbeatRefresh(g, p.vip, p.from)
  /\ Receive(p, {})
  /\ UNCHANGED edgeVars

AnswerHeartbeat(g) ==
  /\ HeartbeatReply(g)
  /\ Send({Datagram("HeartbeatAck", Super, task[g].addr, task[g].vip, Table)})
  /\ UNCHANGED edgeVars

ByeForgetsIndex(g, e) == \E p \in net :  \* mutant: addrIndex is not kept in step
  /\ p.type = "Bye" /\ p.from = e
  /\ task[g] = Idle /\ mu = None /\ Known(p.vip)
  /\ peers' = [peers EXCEPT ![p.vip] = None]
  /\ used' = used \ {p.vip}
  /\ Receive(p, {})
  /\ UNCHANGED <<addrIndex, mu, task, sweep, edgeVars>>

RecvBye(g, e) == \E p \in net :
  /\ p.type = "Bye" /\ p.from = e
  /\ \/ ByeRelease(g, p.vip)
     \/ task[g] = Idle /\ mu = None /\ ~Known(p.vip) /\ UNCHANGED superVars
  /\ Receive(p, {})
  /\ UNCHANGED edgeVars

FinishBye(g) == ByeDelete(g) /\ UNCHANGED <<net, edgeVars, faults, disturbed>>

\* handlePacket has no case for TypeData: what an edge sends through the
\* supernode goes no further.
RecvData(e) == \E p \in net :
  /\ p.type = "Data" /\ p.from = e /\ p.to = Super
  /\ Receive(p, {})
  /\ UNCHANGED <<superVars, edgeVars>>

Cleanup == /\ CleanupBegin \/ CleanupRelease \/ CleanupDelete
           /\ UNCHANGED <<net, edgeVars, faults, disturbed>>

------------------------------------------------------------------------------
(* The edges' side. *)

EdgeStart(e) ==
  /\ status[e] = "down"
  /\ status' = [status EXCEPT ![e] = "registering"]
  /\ Send({ToSuper("Register", e, None)})
  /\ UNCHANGED <<superVars, virtualIP, known, due>>

\* register reads exactly one datagram.  An acknowledgement gives the address;
\* its peer list is skipped: register takes one byte of the two-byte length
\* (the high one) and starts reading the list a byte early.  Anything
\* else (a peer update, late data) is an "unexpected response type" and Start
\* fails.
EdgeRegistered(e) == \E p \in net :
  /\ p.to = e /\ status[e] = "registering"
  /\ IF p.type = "RegisterAck"
     THEN /\ status' = [status EXCEPT ![e] = "up"]
          /\ virtualIP' = [virtualIP EXCEPT ![e] = p.vip]
          /\ due' = due \cup {e}
     ELSE /\ status' = [status EXCEPT ![e] = "down"]
          /\ UNCHANGED <<virtualIP, due>>
  /\ Receive(p, {})
  /\ UNCHANGED <<superVars, known>>

\* A register of e, or its answer, is still under way.
Expected(e) == \/ \E p \in net : p.type = "Register" /\ p.from = e
               \/ \E p \in net : p.to = e
               \/ \E g \in Gor : task[g].op = "insert" /\ task[g].addr = e

\* register's ten seconds are over before anything arrived: the answer is
\* late, or the pool is full and there is none.
EdgeTimeout(e) ==
  /\ status[e] = "registering"
  /\ IF Expected(e) THEN Fault ELSE UNCHANGED faults
  /\ status' = [status EXCEPT ![e] = "down"]
  /\ UNCHANGED <<superVars, net, virtualIP, known, due, disturbed>>

\* heartbeatLoop: one at once, then one per tick of its own.
EdgeHeartbeat(e) ==
  /\ e \in due
  /\ due' = due \ {e}
  /\ Send({ToSuper("Heartbeat", e, virtualIP[e])})
  /\ UNCHANGED <<superVars, status, virtualIP, known>>

\* handlePacket of an edge: acknowledgements of heartbeats and peer updates
\* are merged into the table, data goes to the callback, and a register
\* acknowledgement that comes late has no case.
ReceiveNoAcks(e, type) == \E p \in net :  \* mutant: only broadcasts are merged
  /\ p.to = e /\ p.type = type /\ status[e] = "up"
  /\ known' = IF p.type = "PeerList" THEN [known EXCEPT ![e] = Merge(e, p.list)]
                                     ELSE known
  /\ Receive(p, {})
  /\ UNCHANGED <<superVars, status, virtualIP, due>>

EdgeReceive(e, type) == \E p \in net :
  /\ p.to = e /\ p.type = type /\ status[e] = "up"
  /\ known' = IF p.type \in {"HeartbeatAck", "PeerList"}
              THEN [known EXCEPT ![e] = Merge(e, p.list)]
              ELSE known
  /\ Receive(p, {})
  /\ UNCHANGED <<superVars, status, virtualIP, due>>

\* Nobody listens on the port.
Discard(e) == \E p \in net :
  /\ p.to = e /\ status[e] = "down"
  /\ net' = net \ {p}
  /\ UNCHANGED <<superVars, edgeVars, faults, disturbed>>

\* SendTo: straight to the peer if it is known, else by way of the supernode.
EdgeSend(e, v) ==
  /\ status[e] = "up"
  /\ v # virtualIP[e]
  /\ ~\E p \in net : p.type = "Data" /\ p.from = e
  /\ LET to == IF known[e][v] # None THEN known[e][v] ELSE Super
     IN  Send({Datagram("Data", e, to, v, NoRoutes)})
  /\ UNCHANGED <<superVars, edgeVars>>

GoDownBeating(e) ==  \* mutant: the heartbeat loop outlives the edge
  /\ status' = [status EXCEPT ![e] = "down"]
  /\ virtualIP' = [virtualIP EXCEPT ![e] = None]
  /\ known' = [known EXCEPT ![e] = NoRoutes]
  /\ UNCHANGED due

GoDown(e) == /\ status' = [status EXCEPT ![e] = "down"]
             /\ virtualIP' = [virtualIP EXCEPT ![e] = None]
             /\ known' = [known EXCEPT ![e] = NoRoutes]
             /\ due' = due \ {e}

\* Stop says goodbye; a crash, a cancelled context or an error does not.
EdgeStop(e) ==
  /\ status[e] = "up"
  /\ GoDown(e)
  /\ Fault
  /\ net' = net \cup {ToSuper("Bye", e, virtualIP[e])}
  /\ UNCHANGED <<superVars, disturbed>>

EdgeCrash(e) ==
  /\ status[e] = "up"
  /\ GoDown(e)
  /\ Fault
  /\ UNCHANGED <<superVars, net, disturbed>>

------------------------------------------------------------------------------
(* The environment. *)

\* A lost heartbeat may cost a lease: with Timeout = 1 a single one does.
Lose == \E p \in net :
  /\ net' = net \ {p}
  /\ Fault
  /\ disturbed' = (disturbed \/ p.type = "Heartbeat")
  /\ UNCHANGED <<superVars, edgeVars>>

SuperRestart == /\ Restart
                /\ Fault
                /\ disturbed' = TRUE
                /\ UNCHANGED <<net, edgeVars>>

\* A minute ends: its datagrams are handled or lost, its heartbeats sent.
Quiet == /\ net = {} /\ due = {}
         /\ \A g \in Gor : task[g] = Idle
         /\ \A e \in Edge : status[e] # "registering"

Minute == /\ Quiet
          /\ Tick
          /\ due' = {e \in Edge : status[e] = "up"}
          /\ UNCHANGED <<net, status, virtualIP, known, faults, disturbed>>

ToEdge == {"RegisterAck", "HeartbeatAck", "PeerList", "Data"}

OverlayNext ==
  \/ \E g \in Gor, e \in Edge : RecvRegister(g, e)
  \/ \E g \in Gor : AnswerRegister(g)
  \/ \E g \in Gor : AnnouncePeer(g)
  \/ \E g \in Gor, e \in Edge : RecvHeartbeat(g, e)
  \/ \E g \in Gor : AnswerHeartbeat(g)
  \/ \E g \in Gor, e \in Edge : RecvBye(g, e)
  \/ \E g \in Gor : FinishBye(g)
  \/ \E e \in Edge : RecvData(e)
  \/ Cleanup
  \/ \E e \in Edge : EdgeStart(e)
  \/ \E e \in Edge : EdgeRegistered(e)
  \/ \E e \in Edge : EdgeTimeout(e)
  \/ \E e \in Edge : EdgeHeartbeat(e)
  \/ \E e \in Edge, t \in ToEdge : EdgeReceive(e, t)
  \/ \E e \in Edge : Discard(e)
  \/ \E e \in Edge, v \in Dest : EdgeSend(e, v)
  \/ \E e \in Edge : EdgeStop(e)
  \/ \E e \in Edge : EdgeCrash(e)
  \/ Lose
  \/ SuperRestart
  \/ Minute

OverlaySpec == OverlayInit /\ [][OverlayNext]_vars

\* A handler goroutine of the supernode goes on with what it has left to do.
Proceed(g) == AnswerRegister(g) \/ AnnouncePeer(g) \/ AnswerHeartbeat(g) \/ FinishBye(g)

\* The supernode's read loop hands a datagram of e to a goroutine.
RecvFrom(g, e) == RecvRegister(g, e) \/ RecvHeartbeat(g, e) \/ RecvBye(g, e) \/ RecvData(e)

\* An edge reads what is there for it, or waits no longer.
Attend(e) == \/ EdgeRegistered(e) \/ EdgeTimeout(e) \/ Discard(e)
             \/ \E t \in ToEdge : EdgeReceive(e, t)

\* Goroutines that can run do, mutexes let every waiter in, a datagram that is
\* not lost is read, tickers tick and deadlines pass.  Nothing is assumed of
\* when edges start or stop.
OverlayFairness ==
  /\ \A g \in Gor : SF_vars(Proceed(g))
  /\ \A e \in Edge : /\ SF_vars(\E g \in Gor : RecvFrom(g, e))
                     /\ WF_vars(EdgeHeartbeat(e))
                     /\ WF_vars(Attend(e))
  /\ SF_vars(Cleanup)
  /\ SF_vars(Minute)

FairOverlaySpec == OverlaySpec /\ OverlayFairness

------------------------------------------------------------------------------
(***************************************************************************)
(* Properties                                                              *)
(***************************************************************************)

\* Every variable of the overlay has its type; an edge has an address and
\* routes exactly while it is up.
OverlayTypeOK ==
  /\ SuperTypeOK
  /\ net \subseteq Packet
  /\ status \in [Edge -> {"down", "registering", "up"}]
  /\ virtualIP \in [Edge -> Vip \cup {None}]
  /\ known \in [Edge -> Routes]
  /\ due \subseteq {e \in Edge : status[e] = "up"}
  /\ \A e \in Edge : status[e] = "up" <=> virtualIP[e] # None
  /\ faults \in 0..MaxFaults
  /\ disturbed \in BOOLEAN

\* The supernode in its overlay is the supernode of module Supernode: nothing
\* an edge or the network does changes its state but through its handlers, so
\* what is proved of SuperSpec holds here.
RefinesSupernode == SuperSpec

\* Whatever is lost, delayed, duplicated or restarted, an edge that is up is
\* registered under its own real address; only a heartbeat that is lost, a bye
\* or a register acknowledgement that is delivered twice (to the next
\* registration, which cannot tell it from its own) or a restart of the
\* supernode can leave it without.
LeaseHeldUnlessDisturbed ==
  disturbed \/ \A e \in Edge : status[e] = "up" => HoldsLease(e)

\* Every edge is down for good, or up for good and registered.
Settled ==
  \A e \in Edge : \/ <>[](status[e] = "down")
                  \/ <>[](status[e] = "up" /\ HoldsLease(e))

Up == {e \in Edge : status[e] = "up"}

\* Then those that are up come to know the current real address of each other,
\* whatever stale routes they had and in whatever order peer updates and
\* heartbeat acknowledgements arrive.
RoutesConverge ==
  Settled => <>[](\A e, f \in Up : e # f => known[e][virtualIP[f]] = f)

\* And the addresses leaked by registrations that were repeated, timed out or
\* never said goodbye return to the pool, while the live ones stay.
LeasesConverge == Settled => <>[](used = {virtualIP[e] : e \in Up})

\* MANUAL.md:318, "an edge sends heartbeats periodically to keep the
\* connection": an edge whose lease is gone gets one again or stops.
HeartbeatKeepsConnection ==
  \A e \in Edge : (status[e] = "up" /\ ~HoldsLease(e))
                    ~> (status[e] # "up" \/ HoldsLease(e))

\* cmd/runtime.go:176, "supernodes are pure relays: they forward between
\* peers": data that reaches the supernode for a registered peer is sent on.
SupernodeRelays ==
  [][\A p \in net : p.type = "Data" /\ p.to = Super /\ Known(p.vip) /\ p \notin net'
       => \E q \in net' : q.type = "Data" /\ q.to = peers[p.vip].addr /\ q.vip = p.vip]_vars
==============================================================================
