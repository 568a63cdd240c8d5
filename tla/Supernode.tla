------------------------------ MODULE Supernode ------------------------------
(***************************************************************************)
(* The n2n supernode (n2n/supernode.go): it leases virtual addresses to    *)
(* edges, keeps the table of registered peers and removes the ones that    *)
(* fell silent.  The read loop starts one goroutine per datagram, so the   *)
(* handlers below interleave; only what the code does under one hold of    *)
(* s.mu, or inside one call of the pool (which has a mutex of its own), is *)
(* one step.  Datagrams come from an arbitrary environment here: any       *)
(* register, heartbeat or bye may arrive at any time, any number of times. *)
(* N2nOverlay replaces that environment by real edges and a UDP network.   *)
(***************************************************************************)
EXTENDS Naturals

CONSTANTS FirstHost,  \* last octet of the first address of the pool (10)
          LastHost,   \* last octet of the last one (254)
          Addr,       \* the UDP source addresses datagrams come from
          Gor,        \* handler goroutines alive at once
          Timeout,    \* ticks of silence an entry survives (5 minutes)
          Cleaner,    \* the cleanup goroutine, as a holder of s.mu
          None        \* an absent map entry, a free lock

VARIABLES used,       \* ipPool.used
          peers,      \* s.peers: virtual address -> entry, None when absent
          addrIndex,  \* s.addrIndex: real address -> virtual address
          mu,         \* who holds s.mu for writing across steps, or None
          task,       \* what each handler goroutine has left to do
          sweep       \* cleanup: entries still to remove, and the one being removed

superVars == <<used, peers, addrIndex, mu, task, sweep>>

------------------------------------------------------------------------------
Vip == FirstHost..LastHost

\* Only the comparison of an entry's age with the timeout matters, so an age
\* stops growing one tick after it is reached.
Age == 0..(Timeout + 1)

Entry == [addr : Addr, age : Age]

ASSUME SupernodeAssumption ==
         /\ FirstHost \in Nat /\ LastHost \in Nat
         /\ Timeout \in Nat
         /\ Cleaner \notin Gor
         /\ None \notin Gor /\ None # Cleaner
         /\ None \notin Addr /\ None \notin Vip /\ None \notin Entry

Task == [op   : {"idle", "insert", "broadcast", "heartbeat", "bye"},
         vip  : Vip \cup {None},
         addr : Addr \cup {None}]

Idle == [op |-> "idle", vip |-> None, addr |-> None]

Known(v) == peers[v] # None
Stale(v) == Known(v) /\ peers[v].age > Timeout

\* A register that has taken v from the pool and waits for s.mu to insert it.
Pending(g, v) == task[g].op = "insert" /\ task[g].vip = v

\* The entry whose address is back in the pool but which is still in the table.
Released(v) == \/ mu = Cleaner /\ sweep.cur = v
               \/ mu \in Gor /\ task[mu].vip = v

\* allocate: the first address of 10..254 that is not used.
FirstFree(v) == /\ v \in Vip \ used
                /\ \A w \in Vip : w < v => w \in used

SuperInit == /\ used = {}
             /\ peers = [v \in Vip |-> None]
             /\ addrIndex = [a \in Addr |-> None]
             /\ mu = None
             /\ task = [g \in Gor |-> Idle]
             /\ sweep = [todo |-> {}, cur |-> None]

------------------------------------------------------------------------------
(***************************************************************************)
(* Register: allocate outside s.mu, insert under it, then acknowledge and  *)
(* broadcast.  A full pool drops the datagram, which changes nothing.      *)
(***************************************************************************)

\* mutant: the loop of allocate runs one address too far
AllocatePastEnd(g, a) ==
  /\ task[g] = Idle
  /\ \E v \in FirstHost..(LastHost + 1) :
       /\ v \notin used /\ \A w \in Vip : w < v => w \in used
       /\ used' = used \cup {v}
       /\ task' = [task EXCEPT ![g] = [op |-> "insert", vip |-> v, addr |-> a]]
  /\ UNCHANGED <<peers, addrIndex, mu, sweep>>

\* mutant: the pool's map is consulted but never written
AllocateWithoutMark(g, a) ==
  /\ task[g] = Idle
  /\ \E v \in Vip :
       /\ FirstFree(v)
       /\ task' = [task EXCEPT ![g] = [op |-> "insert", vip |-> v, addr |-> a]]
  /\ UNCHANGED <<used, peers, addrIndex, mu, sweep>>

RegisterAllocate(g, a) ==
  /\ task[g] = Idle
  /\ \E v \in Vip :
       /\ FirstFree(v)
       /\ used' = used \cup {v}
       /\ task' = [task EXCEPT ![g] = [op |-> "insert", vip |-> v, addr |-> a]]
  /\ UNCHANGED <<peers, addrIndex, mu, sweep>>

\* mutant: the insertion does not wait for s.mu
InsertWithoutLock(g) ==
  /\ task[g].op = "insert"
  /\ LET v == task[g].vip
         a == task[g].addr
     IN  /\ peers' = [peers EXCEPT ![v] = [addr |-> a, age |-> 0]]
         /\ addrIndex' = [addrIndex EXCEPT ![a] = v]
         /\ task' = [task EXCEPT ![g].op = "broadcast"]
  /\ UNCHANGED <<used, mu, sweep>>

RegisterInsert(g) ==
  /\ task[g].op = "insert"
  /\ mu = None
  /\ LET v == task[g].vip
         a == task[g].addr
     IN  /\ peers' = [peers EXCEPT ![v] = [addr |-> a, age |-> 0]]
         /\ addrIndex' = [addrIndex EXCEPT ![a] = v]
         /\ task' = [task EXCEPT ![g].op = "broadcast"]
  /\ UNCHANGED <<used, mu, sweep>>

Broadcast(g) ==
  /\ task[g].op = "broadcast"
  /\ mu = None
  /\ task' = [task EXCEPT ![g] = Idle]
  /\ UNCHANGED <<used, peers, addrIndex, mu, sweep>>

(***************************************************************************)
(* Heartbeat: refresh the entry if there is one, unlock, then read the     *)
(* table again for the answer, which is sent whether or not the sender is  *)
(* registered.                                                             *)
(***************************************************************************)
\* mutant: lastSeen is not written
HeartbeatNoRefresh(g, v, a) ==
  /\ task[g] = Idle
  /\ mu = None
  /\ task' = [task EXCEPT ![g] = [op |-> "heartbeat", vip |-> v, addr |-> a]]
  /\ UNCHANGED <<used, peers, addrIndex, mu, sweep>>

HeartbeatRefresh(g, v, a) ==
  /\ task[g] = Idle
  /\ mu = None
  /\ peers' = IF Known(v) THEN [peers EXCEPT ![v].age = 0] ELSE peers
  /\ task' = [task EXCEPT ![g] = [op |-> "heartbeat", vip |-> v, addr |-> a]]
  /\ UNCHANGED <<used, addrIndex, mu, sweep>>

HeartbeatReply(g) ==
  /\ task[g].op = "heartbeat"
  /\ mu = None
  /\ task' = [task EXCEPT ![g] = Idle]
  /\ UNCHANGED <<used, peers, addrIndex, mu, sweep>>

(***************************************************************************)
(* Bye: under one hold of s.mu, but the pool's own mutex is free again     *)
(* between the release and the deletion, so an allocation fits in between. *)
(***************************************************************************)
ByeRelease(g, v) ==
  /\ task[g] = Idle
  /\ mu = None
  /\ Known(v)
  /\ used' = used \ {v}
  /\ mu' = g
  /\ task' = [task EXCEPT ![g] = [op |-> "bye", vip |-> v, addr |-> None]]
  /\ UNCHANGED <<peers, addrIndex, sweep>>

\* mutant: the index entry is left behind
ByeKeepsIndex(g) ==
  /\ task[g].op = "bye"
  /\ peers' = [peers EXCEPT ![task[g].vip] = None]
  /\ mu' = None
  /\ task' = [task EXCEPT ![g] = Idle]
  /\ UNCHANGED <<used, addrIndex, sweep>>

ByeDelete(g) ==
  /\ task[g].op = "bye"
  /\ LET v == task[g].vip
     IN  /\ addrIndex' = [addrIndex EXCEPT ![peers[v].addr] = None]
         /\ peers' = [peers EXCEPT ![v] = None]
  /\ mu' = None
  /\ task' = [task EXCEPT ![g] = Idle]
  /\ UNCHANGED <<used, sweep>>

(***************************************************************************)
(* The cleanup goroutine: every tick of its own it removes the stale       *)
(* entries, one after the other, under one hold of s.mu.  A round that     *)
(* finds none changes nothing.                                             *)
(***************************************************************************)
\* mutant: cleanup does not take s.mu before it looks at the table
CleanupUnlocked ==
  /\ mu # Cleaner
  /\ \E v \in Vip : Stale(v)
  /\ sweep' = [sweep EXCEPT !.todo = {v \in Vip : Stale(v)}]
  /\ mu' = Cleaner
  /\ UNCHANGED <<used, peers, addrIndex, task>>

CleanupBegin ==
  /\ mu = None
  /\ \E v \in Vip : Stale(v)
  /\ sweep' = [sweep EXCEPT !.todo = {v \in Vip : Stale(v)}]
  /\ mu' = Cleaner
  /\ UNCHANGED <<used, peers, addrIndex, task>>

\* mutant: the address of a removed entry never returns to the pool
CleanupNoRelease ==
  /\ mu = Cleaner /\ sweep.cur = None
  /\ \E v \in sweep.todo : sweep' = [sweep EXCEPT !.cur = v]
  /\ UNCHANGED <<used, peers, addrIndex, mu, task>>

CleanupRelease ==
  /\ mu = Cleaner /\ sweep.cur = None
  /\ \E v \in sweep.todo : /\ used' = used \ {v}
                           /\ sweep' = [sweep EXCEPT !.cur = v]
  /\ UNCHANGED <<peers, addrIndex, mu, task>>

\* mutant: delete(s.peers, k) forgotten
CleanupKeepsEntry ==
  /\ mu = Cleaner /\ sweep.cur # None
  /\ addrIndex' = [addrIndex EXCEPT ![peers[sweep.cur].addr] = None]
  /\ sweep' = [todo |-> sweep.todo \ {sweep.cur}, cur |-> None]
  /\ mu' = IF sweep.todo = {sweep.cur} THEN None ELSE Cleaner
  /\ UNCHANGED <<used, peers, task>>

\* mutant: the round ends without an unlock
CleanupKeepsLock ==
  /\ mu = Cleaner /\ sweep.cur # None
  /\ addrIndex' = [addrIndex EXCEPT ![peers[sweep.cur].addr] = None]
  /\ peers' = [peers EXCEPT ![sweep.cur] = None]
  /\ sweep' = [todo |-> sweep.todo \ {sweep.cur}, cur |-> None]
  /\ UNCHANGED <<used, mu, task>>

CleanupDelete ==
  /\ mu = Cleaner /\ sweep.cur # None
  /\ addrIndex' = [addrIndex EXCEPT ![peers[sweep.cur].addr] = None]
  /\ peers' = [peers EXCEPT ![sweep.cur] = None]
  /\ sweep' = [todo |-> sweep.todo \ {sweep.cur}, cur |-> None]
  /\ mu' = IF sweep.todo = {sweep.cur} THEN None ELSE Cleaner
  /\ UNCHANGED <<used, task>>

\* Time passes for every entry alike.
Tick ==
  /\ peers' = [v \in Vip |-> IF Known(v) /\ peers[v].age <= Timeout
                             THEN [peers[v] EXCEPT !.age = @ + 1]
                             ELSE peers[v]]
  /\ UNCHANGED <<used, addrIndex, mu, task, sweep>>

\* The process dies and is started again: nothing is persisted, and the
\* handlers that were running are gone.
Restart == /\ used' = {}
           /\ peers' = [v \in Vip |-> None]
           /\ addrIndex' = [a \in Addr |-> None]
           /\ mu' = None
           /\ task' = [g \in Gor |-> Idle]
           /\ sweep' = [todo |-> {}, cur |-> None]

------------------------------------------------------------------------------
SuperNext ==
  \/ \E g \in Gor, a \in Addr : RegisterAllocate(g, a)
  \/ \E g \in Gor : RegisterInsert(g)
  \/ \E g \in Gor : Broadcast(g)
  \/ \E g \in Gor, v \in Vip, a \in Addr : HeartbeatRefresh(g, v, a)
  \/ \E g \in Gor : HeartbeatReply(g)
  \/ \E g \in Gor, v \in Vip : ByeRelease(g, v)
  \/ \E g \in Gor : ByeDelete(g)
  \/ CleanupBegin
  \/ CleanupRelease
  \/ CleanupDelete
  \/ Tick
  \/ Restart

SuperSpec == SuperInit /\ [][SuperNext]_superVars

\* Goroutines that can run do run; s.mu is a Go mutex, whose starvation mode
\* lets every waiter in eventually; the clock and the 60 s ticker advance.
SuperFairness ==
  /\ \A g \in Gor : /\ SF_superVars(RegisterInsert(g))
                    /\ SF_superVars(Broadcast(g))
                    /\ SF_superVars(HeartbeatReply(g))
                    /\ WF_superVars(ByeDelete(g))
  /\ SF_superVars(CleanupBegin)
  /\ WF_superVars(CleanupRelease)
  /\ WF_superVars(CleanupDelete)
  /\ WF_superVars(Tick)

FairSuperSpec == SuperSpec /\ SuperFairness

------------------------------------------------------------------------------
(***************************************************************************)
(* Properties                                                              *)
(***************************************************************************)

\* Every variable has its type: in particular allocate never leaves the pool.
SuperTypeOK ==
  /\ used \in SUBSET Vip
  /\ peers \in [Vip -> Entry \cup {None}]
  /\ addrIndex \in [Addr -> Vip \cup {None}]
  /\ mu \in Gor \cup {Cleaner, None}
  /\ task \in [Gor -> Task]
  /\ sweep \in [todo : SUBSET Vip, cur : Vip \cup {None}]

\* Who may be inside s.mu, and what it is then working on: a bye holds the
\* lock until it has deleted its entry, a cleanup until its round is over, and
\* the entries they work on are still in the table.
LockInv ==
  /\ \A g \in Gor : task[g].op = "bye" <=> mu = g
  /\ \A g \in Gor : task[g].op = "insert" => task[g].vip \in Vip /\ task[g].addr \in Addr
  /\ \A g \in Gor : task[g].op = "bye" => task[g].vip \in Vip /\ Known(task[g].vip)
  /\ mu = Cleaner <=> sweep.todo # {}
  /\ sweep.cur \in sweep.todo \cup {None}
  /\ \A v \in sweep.todo : Known(v)

\* handleRegister takes the address before it takes s.mu, and handleBye and
\* cleanup give it back before they delete the entry: still no two registers
\* in flight carry one address, and none carries the address of a live entry.
NoDoubleLease ==
  /\ \A g, h \in Gor : \A v \in Vip : Pending(g, v) /\ Pending(h, v) => g = h
  /\ \A g \in Gor, v \in Vip : Pending(g, v) /\ Known(v) => Released(v)

\* The pool's map and the table, which have different locks, agree: an address
\* is marked used exactly while a register in flight or an entry that is not
\* being removed carries it, so no sequence of registers, byes, time-outs and
\* crashes loses an address of the 245 for good.
NoLeak ==
  \A v \in Vip : v \in used <=> \/ Known(v) /\ ~Released(v)
                                \/ \E g \in Gor : Pending(g, v)

\* An index entry names a peer that is registered under that very address,
\* although one address may hold several leases (an edge that registers
\* again) and removing any of them drops the index entry.
IndexSound ==
  \A a \in Addr : addrIndex[a] # None =>
    /\ Known(addrIndex[a])
    /\ peers[addrIndex[a]].addr = a

\* The inductive invariant the proofs use.
LeaseInv == SuperTypeOK /\ LockInv /\ NoDoubleLease /\ NoLeak

\* An entry is never handed to another real address in place: an edge that
\* still owns an address cannot be overwritten by a register that raced it.
NoTakeover ==
  [][\A v \in Vip : Known(v) /\ Known(v)' => peers'[v].addr = peers[v].addr]_superVars

\* The leases, as the abstract pool sees them: an address belongs to the
\* register in flight that took it, else to its entry while it is marked used.
Holder(v) ==
  IF \E g \in Gor : Pending(g, v)
  THEN task[CHOOSE g \in Gor : Pending(g, v)].addr
  ELSE IF v \in used THEN peers[v].addr ELSE None

Lease == INSTANCE LeasePool WITH holder <- [v \in Vip |-> Holder(v)]

\* The concurrent supernode implements the atomic lease pool.
RefinesLeasePool == Lease!Spec

\* An entry that timed out is removed, unless a late heartbeat revives it.
StaleRemoved == \A v \in Vip : Stale(v) ~> ~Stale(v)

\* A register that got an address gets its entry (or dies with the process):
\* waiting for s.mu it is not starved by heartbeats and cleanups.
RegisterCompletes ==
  \A g \in Gor : task[g].op = "insert" ~> task[g].op # "insert"
==============================================================================
