------------------------------- MODULE StunVpv -------------------------------
(***************************************************************************)
(* The STUN/TURN overlay (stunvpv/server.go, stunvpv/client.go): a server  *)
(* leases virtual addresses and relays every packet between its clients,   *)
(* over UDP, which loses, duplicates and reorders datagrams.  Unlike n2n,  *)
(* a heartbeat is a register that carries the client's own address, and    *)
(* the server enters it in its table without asking the pool.              *)
(*                                                                         *)
(* A client binds an ephemeral port, so each start of one has a real       *)
(* address of its own: an element of Addr is one incarnation of a client.  *)
(* Faults (a lost, duplicated or late datagram, a stop, a restart of the   *)
(* server) are bounded by MaxFaults.  A tick is a minute: no datagram is   *)
(* in flight for that long, and a client sends a heartbeat in each.        *)
(***************************************************************************)
EXTENDS Naturals

CONSTANTS FirstHost,  \* last octet of the first address of the pool (10)
          LastHost,   \* last octet of the last one (254)
          Addr,       \* real addresses: the incarnations of clients
          Gor,        \* handler goroutines of the server alive at once
          Timeout,    \* minutes of silence an entry survives (5)
          Server,     \* the server's UDP address
          Dest,       \* the virtual addresses applications send data to
          MaxFaults,  \* bound on the faults of a behaviour
          None

Vip == FirstHost..LastHost

Entry == [addr : Addr, age : 0..(Timeout + 1)]

\* Entries survive a minute at least (five in the code).
ASSUME StunAssumption ==
         /\ FirstHost \in Nat /\ LastHost \in Nat
         /\ Timeout \in Nat \ {0} /\ MaxFaults \in Nat
         /\ Dest \subseteq Vip
         /\ Server \notin Addr /\ None # Server
         /\ None \notin Addr /\ None \notin Vip /\ None \notin Entry

VARIABLES used,       \* ipPool.used
          peers,      \* s.peers: virtual address -> entry, None when absent
          vipIndex,   \* s.vipIndex: real address -> virtual address
          sweep,      \* stale entries a cleanup still has to remove under s.mu
          task,       \* what each handler goroutine has left to do
          net,        \* the datagrams in flight
          status,     \* what each client is doing
          virtualIP,  \* c.virtualIP
          known,      \* c.peers: the virtual addresses a client has heard of
          due,        \* clients whose heartbeat of this minute is to be sent
          faults,     \* faults so far
          disturbed   \* has a fault happened that may cost a client its address

serverVars == <<used, peers, vipIndex, sweep, task>>
clientVars == <<status, virtualIP, known, due>>
faultVars  == <<faults, disturbed>>
vars == <<serverVars, net, clientVars, faultVars>>

------------------------------------------------------------------------------
\* A payload is an IP packet: who wrote it and whom it is for.
Payload == [by : Addr, for : Vip]

Packet == [type : {"Stun", "StunAck", "Register", "RegisterAck", "PeerList", "Data"},
           from : Addr \cup {Server},
           to   : Addr \cup {Server},
           vip  : Vip \cup {None},
           list : SUBSET Vip,
           data : Payload \cup {None}]

Blank == [type |-> "Stun", from |-> Server, to |-> Server,
          vip |-> None, list |-> {}, data |-> None]

ToServer(type, a, vip) == [Blank EXCEPT !.type = type, !.from = a, !.vip = vip]

ToClient(type, a, vip, list) ==
  [Blank EXCEPT !.type = type, !.to = a, !.vip = vip, !.list = list]

Task == [op   : {"idle", "insert", "snapshot", "broadcast", "relay"},
         vip  : Vip \cup {None},
         addr : Addr \cup {None},
         to   : Addr \cup {None},
         list : SUBSET Vip]

Idle == [op |-> "idle", vip |-> None, addr |-> None, to |-> None, list |-> {}]

Known(v) == peers[v] # None
Stale(v) == Known(v) /\ peers[v].age > Timeout
Registered == {v \in Vip : Known(v)}

\* allocate: the first address of 10..254 that is not used.
FirstFree(v) == /\ v \in Vip \ used
                /\ \A w \in Vip : w < v => w \in used

\* s.mu is free: a cleanup holds it until its round is over.
Unlocked == sweep = {}

Fault == faults < MaxFaults /\ faults' = faults + 1

\* p is received and answered by out: once, or again later.  A second copy of
\* a first register leases a second address to the same client.
Receive(p, out) ==
  \/ net' = (net \ {p}) \cup out /\ UNCHANGED faultVars
  \/ /\ Fault
     /\ net' = net \cup out
     /\ disturbed' = (disturbed \/ (p.type = "Register" /\ p.vip = None))

Send(out) == net' = net \cup out /\ UNCHANGED faultVars

Init == /\ used = {}
        /\ peers = [v \in Vip |-> None]
        /\ vipIndex = [a \in Addr |-> None]
        /\ sweep = {}
        /\ task = [g \in Gor |-> Idle]
        /\ net = {}
        /\ status = [a \in Addr |-> "new"]
        /\ virtualIP = [a \in Addr |-> None]
        /\ known = [a \in Addr |-> {}]
        /\ due = {}
        /\ faults = 0
        /\ disturbed = FALSE

------------------------------------------------------------------------------
(* The server. *)

RecvStun(g, a) == \E p \in net :
  /\ p.type = "Stun" /\ p.from = a
  /\ task[g] = Idle
  /\ Receive(p, {ToClient("StunAck", a, None, {})})
  /\ UNCHANGED <<serverVars, clientVars>>

\* mutant: the pool is never told
RegisterWithoutMark(g, a) == \E p \in net :
  /\ p.type = "Register" /\ p.from = a
  /\ task[g] = Idle
  /\ \E v \in Vip :
       /\ IF p.vip = None THEN FirstFree(v) ELSE v = p.vip
       /\ task' = [task EXCEPT ![g] = [Idle EXCEPT !.op = "insert", !.vip = v, !.addr = a]]
  /\ Receive(p, {})
  /\ UNCHANGED <<used, peers, vipIndex, sweep, clientVars>>

\* mutant: the loop of allocate runs one address too far
RegisterPastEnd(g, a) == \E p \in net :
  /\ p.type = "Register" /\ p.from = a
  /\ task[g] = Idle
  /\ \E v \in FirstHost..(LastHost + 1) :
       /\ IF p.vip = None THEN v \notin used /\ \A w \in Vip : w < v => w \in used
                          ELSE v = p.vip
       /\ used' = IF p.vip = None THEN used \cup {v} ELSE used
       /\ task' = [task EXCEPT ![g] = [Idle EXCEPT !.op = "insert", !.vip = v, !.addr = a]]
  /\ Receive(p, {})
  /\ UNCHANGED <<peers, vipIndex, sweep, clientVars>>

\* handleRegister up to s.mu.Lock: an address that is given is taken as it is.
RecvRegister(g, a) == \E p \in net :
  /\ p.type = "Register" /\ p.from = a
  /\ task[g] = Idle
  /\ \/ \E v \in Vip :
          /\ IF p.vip = None THEN FirstFree(v) ELSE v = p.vip
          /\ used' = IF p.vip = None THEN used \cup {v} ELSE used
          /\ task' = [task EXCEPT ![g] = [Idle EXCEPT !.op = "insert", !.vip = v, !.addr = a]]
     \/ p.vip = None /\ Vip \subseteq used /\ UNCHANGED <<used, task>>
  /\ Receive(p, {})
  /\ UNCHANGED <<peers, vipIndex, sweep, clientVars>>

\* mutant: a heartbeat is acknowledged but refreshes an existing entry only
InsertNewOnly(g) ==
  /\ task[g].op = "insert" /\ Unlocked
  /\ LET v == task[g].vip
         a == task[g].addr
     IN  /\ peers' = IF v \in used THEN [peers EXCEPT ![v] = [addr |-> a, age |-> 0]]
                                   ELSE peers
         /\ vipIndex' = IF v \in used THEN [vipIndex EXCEPT ![a] = v] ELSE vipIndex
         /\ Send({ToClient("RegisterAck", a, v, Registered')})
  /\ task' = [task EXCEPT ![g].op = "snapshot"]
  /\ UNCHANGED <<used, sweep, clientVars>>

RegisterInsert(g) ==
  /\ task[g].op = "insert" /\ Unlocked
  /\ LET v == task[g].vip
         a == task[g].addr
     IN  /\ peers' = [peers EXCEPT ![v] = [addr |-> a, age |-> 0]]
         /\ vipIndex' = [vipIndex EXCEPT ![a] = v]
         /\ Send({ToClient("RegisterAck", a, v, Registered')})
  /\ task' = [task EXCEPT ![g].op = "snapshot"]
  /\ UNCHANGED <<used, sweep, clientVars>>

\* mutant: the newcomer is left out of the list
SnapshotOthers(g) ==
  /\ task[g].op = "snapshot" /\ Unlocked
  /\ task' = [task EXCEPT ![g].op = "broadcast", ![g].list = Registered \ {task[g].vip}]
  /\ UNCHANGED <<used, peers, vipIndex, sweep, net, clientVars, faultVars>>

\* broadcastPeerList reads the table twice, and unlocks in between: the list
\* goes to whoever is registered by then.
BroadcastSnapshot(g) ==
  /\ task[g].op = "snapshot" /\ Unlocked
  /\ task' = [task EXCEPT ![g].op = "broadcast", ![g].list = Registered]
  /\ UNCHANGED <<used, peers, vipIndex, sweep, net, clientVars, faultVars>>

BroadcastSend(g) ==
  /\ task[g].op = "broadcast" /\ Unlocked
  /\ Send({ToClient("PeerList", peers[v].addr, v, task[g].list)
             : v \in Registered \ {task[g].vip}})
  /\ task' = [task EXCEPT ![g] = Idle]
  /\ UNCHANGED <<used, peers, vipIndex, sweep, clientVars>>

\* handleRelayData: the destination is looked up under one hold of s.mu ...
RelayLookup(g, a) == \E p \in net :
  /\ p.type = "Data" /\ p.from = a
  /\ task[g] = Idle /\ Unlocked
  /\ task' = IF Known(p.vip)
             THEN [task EXCEPT ![g] = [Idle EXCEPT !.op = "relay", !.vip = p.vip, !.addr = a,
                                                   !.to = peers[p.vip].addr]]
             ELSE task
  /\ Receive(p, {})
  /\ UNCHANGED <<used, peers, vipIndex, sweep, clientVars>>

\* ... and the sender, to name it to the receiver, under another.
RelaySend(g) ==
  /\ task[g].op = "relay" /\ Unlocked
  /\ LET src == vipIndex[task[g].addr]
         p == [ToClient("Data", task[g].to, src, {})
                 EXCEPT !.data = [by |-> task[g].addr, for |-> task[g].vip]]
     IN  Send(IF src = None THEN {} ELSE {p})
  /\ task' = [task EXCEPT ![g] = Idle]
  /\ UNCHANGED <<used, peers, vipIndex, sweep, clientVars>>

CleanupBegin ==
  /\ Unlocked
  /\ sweep' = {v \in Vip : Stale(v)}
  /\ sweep' # {}
  /\ UNCHANGED <<used, peers, vipIndex, task, net, clientVars, faultVars>>

\* mutant: the address of a removed entry is not released
CleanupNoRelease ==
  /\ \E v \in sweep : /\ vipIndex' = [vipIndex EXCEPT ![peers[v].addr] = None]
                      /\ peers' = [peers EXCEPT ![v] = None]
                      /\ sweep' = sweep \ {v}
  /\ UNCHANGED <<used, task, net, clientVars, faultVars>>

\* The release and the deletion are one step: who allocates the address in
\* between can insert it only after the round.
CleanupRemove ==
  /\ \E v \in sweep : /\ used' = used \ {v}
                      /\ vipIndex' = [vipIndex EXCEPT ![peers[v].addr] = None]
                      /\ peers' = [peers EXCEPT ![v] = None]
                      /\ sweep' = sweep \ {v}
  /\ UNCHANGED <<task, net, clientVars, faultVars>>

------------------------------------------------------------------------------
(* The clients. *)

\* Start: the STUN request that finds out the public address.
ClientStart(a) ==
  /\ status[a] = "new"
  /\ status' = [status EXCEPT ![a] = "binding"]
  /\ Send({ToServer("Stun", a, None)})
  /\ UNCHANGED <<serverVars, virtualIP, known, due>>

Register(a) == status' = [status EXCEPT ![a] = "registering"]

\* stunBind reads one datagram, or waits five seconds; either way the client
\* goes on to register.
ClientBound(a) == \E p \in net :
  /\ p.to = a /\ status[a] = "binding"
  /\ Register(a)
  /\ Receive(p, {ToServer("Register", a, None)})
  /\ UNCHANGED <<serverVars, virtualIP, known, due>>

InFlight(a) == \/ \E p \in net : p.from = a \/ p.to = a
               \/ \E g \in Gor : task[g].op = "insert" /\ task[g].addr = a

\* A timeout while the answer is under way is a fault.
TooLate(a) == /\ IF InFlight(a) THEN Fault ELSE UNCHANGED faults
              /\ UNCHANGED disturbed

ClientBindTimeout(a) ==
  /\ status[a] = "binding"
  /\ Register(a)
  /\ TooLate(a)
  /\ net' = net \cup {ToServer("Register", a, None)}
  /\ UNCHANGED <<serverVars, virtualIP, known, due>>

\* register reads one datagram too: if it is not the acknowledgement (a STUN
\* answer that was late, say) Start fails.
ClientRegistered(a) == \E p \in net :
  /\ p.to = a /\ status[a] = "registering"
  /\ IF p.type = "RegisterAck"
     THEN /\ status' = [status EXCEPT ![a] = "up"]
          /\ virtualIP' = [virtualIP EXCEPT ![a] = p.vip]
          /\ known' = [known EXCEPT ![a] = p.list \ {p.vip}]
     ELSE /\ status' = [status EXCEPT ![a] = "gone"]
          /\ UNCHANGED <<virtualIP, known>>
  /\ Receive(p, {})
  /\ UNCHANGED <<serverVars, due>>

ClientTimeout(a) ==
  /\ status[a] = "registering"
  /\ status' = [status EXCEPT ![a] = "gone"]
  /\ TooLate(a)
  /\ UNCHANGED <<serverVars, net, virtualIP, known, due>>

\* mutant: a heartbeat carries no address, like the first register
HeartbeatAnonymous(a) ==
  /\ a \in due
  /\ due' = due \ {a}
  /\ Send({ToServer("Register", a, None)})
  /\ UNCHANGED <<serverVars, status, virtualIP, known>>

Heartbeat(a) ==
  /\ a \in due
  /\ due' = due \ {a}
  /\ Send({ToServer("Register", a, virtualIP[a])})
  /\ UNCHANGED <<serverVars, status, virtualIP, known>>

\* The acknowledgement of a heartbeat is ignored, peers are only ever added.
ClientReceive(a) == \E p \in net :
  /\ p.to = a /\ status[a] = "up"
  /\ known' = IF p.type = "PeerList"
              THEN [known EXCEPT ![a] = @ \cup (p.list \ {virtualIP[a]})]
              ELSE known
  /\ Receive(p, {})
  /\ UNCHANGED <<serverVars, status, virtualIP, due>>

\* SendTo: everything goes by way of the server.
ClientSend(a, v) ==
  /\ status[a] = "up"
  /\ ~\E p \in net : p.type = "Data" /\ p.from = a
  /\ Send({ToServer("Data", a, v)})
  /\ UNCHANGED <<serverVars, clientVars>>

\* Nobody says goodbye: Stop only cancels.
ClientStop(a) ==
  /\ status[a] = "up"
  /\ status' = [status EXCEPT ![a] = "gone"]
  /\ virtualIP' = [virtualIP EXCEPT ![a] = None]
  /\ known' = [known EXCEPT ![a] = {}]
  /\ due' = due \ {a}
  /\ Fault
  /\ UNCHANGED <<serverVars, net, disturbed>>

Discard(a) == \E p \in net :
  /\ p.to = a /\ status[a] = "gone"
  /\ net' = net \ {p}
  /\ UNCHANGED <<serverVars, clientVars, faultVars>>

------------------------------------------------------------------------------
(* The environment. *)

\* A lost heartbeat may cost an address: with Timeout = 1 a single one does.
Lose == \E p \in net :
  /\ net' = net \ {p}
  /\ Fault
  /\ disturbed' = (disturbed \/ (p.type = "Register" /\ p.vip # None))
  /\ UNCHANGED <<serverVars, clientVars>>

ServerRestart ==
  /\ used' = {}
  /\ peers' = [v \in Vip |-> None]
  /\ vipIndex' = [a \in Addr |-> None]
  /\ sweep' = {}
  /\ task' = [g \in Gor |-> Idle]
  /\ Fault
  /\ disturbed' = TRUE
  /\ UNCHANGED <<net, clientVars>>

Quiet == /\ net = {} /\ due = {}
         /\ \A g \in Gor : task[g] = Idle
         /\ \A a \in Addr : status[a] \notin {"binding", "registering"}

Minute ==
  /\ Quiet
  /\ peers' = [v \in Vip |-> IF Known(v) /\ peers[v].age <= Timeout
                             THEN [peers[v] EXCEPT !.age = @ + 1]
                             ELSE peers[v]]
  /\ due' = {a \in Addr : status[a] = "up"}
  /\ UNCHANGED <<used, vipIndex, sweep, task, net, status, virtualIP, known, faultVars>>

Next ==
  \/ \E g \in Gor, a \in Addr : RecvStun(g, a)
  \/ \E g \in Gor, a \in Addr : RecvRegister(g, a)
  \/ \E g \in Gor : RegisterInsert(g)
  \/ \E g \in Gor : BroadcastSnapshot(g)
  \/ \E g \in Gor : BroadcastSend(g)
  \/ \E g \in Gor, a \in Addr : RelayLookup(g, a)
  \/ \E g \in Gor : RelaySend(g)
  \/ CleanupBegin
  \/ CleanupRemove
  \/ \E a \in Addr : ClientStart(a)
  \/ \E a \in Addr : ClientBound(a)
  \/ \E a \in Addr : ClientBindTimeout(a)
  \/ \E a \in Addr : ClientRegistered(a)
  \/ \E a \in Addr : ClientTimeout(a)
  \/ \E a \in Addr : Heartbeat(a)
  \/ \E a \in Addr : ClientReceive(a)
  \/ \E a \in Addr, v \in Dest : ClientSend(a, v)
  \/ \E a \in Addr : ClientStop(a)
  \/ \E a \in Addr : Discard(a)
  \/ Lose
  \/ ServerRestart
  \/ Minute

Spec == Init /\ [][Next]_vars

\* What a handler goroutine of the server does next, what it does for a
\* client's datagram, and what a client does with what it is sent.
Proceed(g) == RegisterInsert(g) \/ BroadcastSnapshot(g) \/ BroadcastSend(g) \/ RelaySend(g)
RecvFrom(g, a) == RecvStun(g, a) \/ RecvRegister(g, a) \/ RelayLookup(g, a)
Attend(a) == \/ ClientBound(a) \/ ClientBindTimeout(a) \/ ClientRegistered(a)
             \/ ClientTimeout(a) \/ ClientReceive(a) \/ Discard(a)

\* Goroutines that can run do, mutexes let every waiter in, a datagram that is
\* not lost is read, tickers tick and deadlines pass.
Fairness ==
  /\ \A g \in Gor : SF_vars(Proceed(g))
  /\ \A a \in Addr : /\ SF_vars(\E g \in Gor : RecvFrom(g, a))
                     /\ WF_vars(Heartbeat(a))
                     /\ WF_vars(Attend(a))
  /\ SF_vars(CleanupBegin)
  /\ WF_vars(CleanupRemove)
  /\ SF_vars(Minute)

FairSpec == Spec /\ Fairness

------------------------------------------------------------------------------
(***************************************************************************)
(* Properties                                                              *)
(***************************************************************************)

\* Every variable of the overlay has its type; a client has an address exactly
\* while it is up, and a cleanup works on entries of the table only.
TypeOK ==
  /\ used \subseteq Vip
  /\ peers \in [Vip -> Entry \cup {None}]
  /\ vipIndex \in [Addr -> Vip \cup {None}]
  /\ sweep \subseteq Registered
  /\ task \in [Gor -> Task]
  /\ net \subseteq Packet
  /\ status \in [Addr -> {"new", "binding", "registering", "up", "gone"}]
  /\ virtualIP \in [Addr -> Vip \cup {None}]
  /\ known \in [Addr -> SUBSET Vip]
  /\ due \subseteq {a \in Addr : status[a] = "up"}
  /\ \A a \in Addr : status[a] = "up" <=> virtualIP[a] # None
  /\ faults \in 0..MaxFaults
  /\ disturbed \in BOOLEAN

\* No address of the pool is lost: one that is marked used belongs to an entry
\* of the table, or to a register that is about to make one, however the two
\* locks interleave and although heartbeats enter addresses nobody allocated.
NoLeak ==
  \A v \in used : \/ Known(v)
                  \/ \E g \in Gor : task[g].op = "insert" /\ task[g].vip = v

\* The table and the index name client a and its address to each other.
Holds(a) == /\ virtualIP[a] # None
            /\ Known(virtualIP[a]) /\ peers[virtualIP[a]].addr = a
            /\ vipIndex[a] = virtualIP[a]

Up == {a \in Addr : status[a] = "up"}

\* Although a heartbeat takes whatever address it names, every client that is
\* up has one of its own and can be reached there; only a first register that
\* is delivered twice, a lost heartbeat or a restart of the server can break
\* this.
HoldsUnlessDisturbed == disturbed \/ \A a \in Up : Holds(a)

\* What reaches a client is addressed to it and names who sent it, although
\* the table may change between the two look-ups of handleRelayData and
\* before the datagram arrives.
RelayedTruly ==
  \A p \in net : p.type = "Data" /\ p.to # Server /\ ~disturbed =>
    /\ p.to \in Up => virtualIP[p.to] = p.data.for
    /\ p.data.by \in Up => virtualIP[p.data.by] = p.vip

\* Every client is down for good, or up for good with an address no other
\* client that is up uses.
Settled ==
  \A a \in Addr : \/ <>[](status[a] # "up")
                  \/ <>[](a \in Up /\ \A b \in Up \ {a} : virtualIP[b] # virtualIP[a])

\* Then heartbeats win back what was lost, be it to a restart of the server:
\* every client that is up is registered and indexed under its address.
HeartbeatRestores == Settled => <>[](\A a \in Up : Holds(a))

\* And each knows the others that are up.
PeersLearned == Settled => <>[](\A a, b \in Up : a # b => virtualIP[b] \in known[a])
==============================================================================
