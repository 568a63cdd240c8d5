--------------------------- MODULE SupernodeProofs ---------------------------
(***************************************************************************)
(* Proofs about Supernode, for every pool, every number of goroutines and  *)
(* edges: the inductive invariant LeaseInv, and what follows from it.      *)
(***************************************************************************)
EXTENDS Supernode, TLAPS

USE SupernodeAssumption

\* NewSupernode starts with empty maps, where the invariant holds.
LEMMA LeaseInit == SuperInit => LeaseInv
BY DEF SuperInit, LeaseInv, SuperTypeOK, LockInv, NoDoubleLease, NoLeak, Vip,
       Entry, Task, Idle, Known, Pending, Released

\* allocate hands out an address that no register in flight and no live entry
\* carries; only the entry that a bye or a cleanup has just released may.
LEMMA AllocateLease ==
  ASSUME LeaseInv, NEW g \in Gor, NEW a \in Addr, RegisterAllocate(g, a)
  PROVE  LeaseInv'
<1>1. PICK v \in Vip :
        /\ v \notin used
        /\ used' = used \cup {v}
        /\ task' = [task EXCEPT ![g] = [op |-> "insert", vip |-> v, addr |-> a]]
  BY DEF RegisterAllocate, FirstFree
<1>2. /\ task[g] = Idle
      /\ UNCHANGED <<peers, addrIndex, mu, sweep>>
  BY DEF RegisterAllocate
<1>3. SuperTypeOK'
  BY <1>1, <1>2 DEF LeaseInv, SuperTypeOK, Task, Idle
<1>4. /\ task'[g] = [op |-> "insert", vip |-> v, addr |-> a]
      /\ \A h \in Gor : h # g => task'[h] = task[h]
  BY <1>1 DEF LeaseInv, SuperTypeOK
<1>5. LockInv'
  BY <1>2, <1>4 DEF LeaseInv, LockInv, Idle, Known
<1>6. \A w \in Vip : Released(w)' <=> Released(w)
  BY <1>2, <1>4 DEF Released, LeaseInv, LockInv, Idle
<1>7. \A h \in Gor, w \in Vip : Pending(h, w)' <=> (Pending(h, w) \/ (h = g /\ w = v))
  BY <1>2, <1>4 DEF Pending, Idle
<1>8. \A w \in Vip : Known(w)' <=> Known(w)
  BY <1>2 DEF Known
<1>9. NoDoubleLease' /\ NoLeak'
  BY <1>1, <1>6, <1>7, <1>8 DEF LeaseInv, NoDoubleLease, NoLeak
<1> QED BY <1>3, <1>5, <1>9 DEF LeaseInv

\* The insertion turns the register into an entry: with s.mu free nothing is
\* released, so the address had no entry before.
LEMMA InsertLease ==
  ASSUME LeaseInv, NEW g \in Gor, RegisterInsert(g)
  PROVE  LeaseInv'
<1> DEFINE v == task[g].vip
           a == task[g].addr
<1>1. /\ task[g].op = "insert" /\ mu = None
      /\ peers' = [peers EXCEPT ![v] = [addr |-> a, age |-> 0]]
      /\ addrIndex' = [addrIndex EXCEPT ![a] = v]
      /\ task' = [task EXCEPT ![g].op = "broadcast"]
      /\ UNCHANGED <<used, mu, sweep>>
  BY DEF RegisterInsert
<1>2. v \in Vip /\ a \in Addr
  BY <1>1 DEF LeaseInv, LockInv
<1>3. SuperTypeOK'
  BY <1>1, <1>2 DEF LeaseInv, SuperTypeOK, Task, Entry, Age
<1>4. /\ task'[g] = [task[g] EXCEPT !.op = "broadcast"] /\ task'[g].op = "broadcast"
      /\ \A h \in Gor : h # g => task'[h] = task[h]
  BY <1>1 DEF LeaseInv, SuperTypeOK, Task
<1>5. \A w \in Vip : Known(w)' <=> (Known(w) \/ w = v)
  BY <1>1, <1>2 DEF Known, LeaseInv, SuperTypeOK, Entry, Age
<1>6. \A w \in Vip : ~Released(w) /\ ~Released(w)'
  BY <1>1 DEF Released
<1>7. LockInv'
  BY <1>1, <1>4, <1>5 DEF LeaseInv, LockInv, SuperTypeOK
<1>8. \A h \in Gor, w \in Vip : Pending(h, w)' <=> (Pending(h, w) /\ h # g)
  BY <1>4 DEF Pending
<1>9. Pending(g, v)
  BY <1>1 DEF Pending
<1>10. NoDoubleLease' /\ NoLeak'
  <2>1. \A h \in Gor, w \in Vip : Pending(h, w) => ~Known(w)
    BY <1>6 DEF LeaseInv, NoDoubleLease
  <2>2. \A h \in Gor : Pending(h, v) => h = g
    BY <1>2, <1>9 DEF LeaseInv, NoDoubleLease
  <2>3. NoDoubleLease'
    BY <1>2, <1>5, <1>8, <2>1, <2>2 DEF LeaseInv, NoDoubleLease
  <2>4. \A w \in Vip : w \in used <=> (Known(w) \/ \E h \in Gor : Pending(h, w))
    BY <1>6 DEF LeaseInv, NoLeak
  <2>5. \A h \in Gor, w \in Vip : h = g /\ Pending(h, w) => w = v
    BY DEF Pending
  <2>6. NoLeak'
    BY <1>1, <1>2, <1>5, <1>6, <1>8, <1>9, <2>2, <2>4, <2>5 DEF NoLeak
  <2> QED BY <2>3, <2>6
<1> QED BY <1>3, <1>7, <1>10 DEF LeaseInv

\* A broadcast or the answer to a heartbeat only ends its goroutine.
LEMMA FinishLease ==
  ASSUME LeaseInv, NEW g \in Gor, Broadcast(g) \/ HeartbeatReply(g)
  PROVE  LeaseInv'
<1>1. /\ task[g].op \in {"broadcast", "heartbeat"} /\ mu = None
      /\ task' = [task EXCEPT ![g] = Idle]
      /\ UNCHANGED <<used, peers, addrIndex, mu, sweep>>
  BY DEF Broadcast, HeartbeatReply
<1>2. SuperTypeOK'
  BY <1>1 DEF LeaseInv, SuperTypeOK, Task, Idle
<1>3. task'[g] = Idle /\ \A h \in Gor : h # g => task'[h] = task[h]
  BY <1>1 DEF LeaseInv, SuperTypeOK
<1>4. \A w \in Vip : (Known(w)' <=> Known(w)) /\ ~Released(w) /\ ~Released(w)'
  BY <1>1 DEF Known, Released
<1>5. \A h \in Gor, w \in Vip : Pending(h, w)' <=> Pending(h, w)
  BY <1>1, <1>3 DEF Pending, Idle
<1>6. LockInv'
  BY <1>1, <1>3, <1>4 DEF LeaseInv, LockInv, Idle
<1>7. NoDoubleLease' /\ NoLeak'
  BY <1>1, <1>4, <1>5 DEF LeaseInv, NoDoubleLease, NoLeak
<1> QED BY <1>2, <1>6, <1>7 DEF LeaseInv

\* A heartbeat only makes an entry younger.
LEMMA HeartbeatLease ==
  ASSUME LeaseInv, NEW g \in Gor, NEW v \in Vip, NEW a \in Addr,
         HeartbeatRefresh(g, v, a)
  PROVE  LeaseInv'
<1>1. /\ task[g] = Idle /\ mu = None
      /\ peers' = IF Known(v) THEN [peers EXCEPT ![v].age = 0] ELSE peers
      /\ task' = [task EXCEPT ![g] = [op |-> "heartbeat", vip |-> v, addr |-> a]]
      /\ UNCHANGED <<used, addrIndex, mu, sweep>>
  BY DEF HeartbeatRefresh
<1>2. peers' \in [Vip -> Entry \cup {None}]
  BY <1>1 DEF LeaseInv, SuperTypeOK, Entry, Age, Known
<1>3. SuperTypeOK'
  BY <1>1, <1>2 DEF LeaseInv, SuperTypeOK, Task
<1>4. /\ task'[g] = [op |-> "heartbeat", vip |-> v, addr |-> a]
      /\ \A h \in Gor : h # g => task'[h] = task[h]
  BY <1>1 DEF LeaseInv, SuperTypeOK
<1>5. \A w \in Vip : Known(w)' <=> Known(w)
  BY <1>1, <1>2 DEF Known, LeaseInv, SuperTypeOK, Entry, Age
<1>6. \A w \in Vip : ~Released(w) /\ ~Released(w)'
  BY <1>1 DEF Released
<1>7. \A h \in Gor, w \in Vip : Pending(h, w)' <=> Pending(h, w)
  BY <1>1, <1>4 DEF Pending, Idle
<1>8. LockInv'
  BY <1>1, <1>4, <1>5 DEF LeaseInv, LockInv, Idle, SuperTypeOK
<1>9. NoDoubleLease' /\ NoLeak'
  BY <1>1, <1>5, <1>6, <1>7 DEF LeaseInv, NoDoubleLease, NoLeak
<1> QED BY <1>3, <1>8, <1>9 DEF LeaseInv

\* A bye that takes s.mu finds nothing released and, by NoDoubleLease, no
\* register in flight on its entry's address: the address is really free.
LEMMA ByeReleaseLease ==
  ASSUME LeaseInv, NEW g \in Gor, NEW v \in Vip, ByeRelease(g, v)
  PROVE  LeaseInv'
<1>1. /\ task[g] = Idle /\ mu = None /\ Known(v)
      /\ used' = used \ {v}
      /\ mu' = g
      /\ task' = [task EXCEPT ![g] = [op |-> "bye", vip |-> v, addr |-> None]]
      /\ UNCHANGED <<peers, addrIndex, sweep>>
  BY DEF ByeRelease
<1>2. SuperTypeOK'
  BY <1>1 DEF LeaseInv, SuperTypeOK, Task
<1>3. /\ task'[g] = [op |-> "bye", vip |-> v, addr |-> None]
      /\ \A h \in Gor : h # g => task'[h] = task[h]
  BY <1>1 DEF LeaseInv, SuperTypeOK
<1>4. \A w \in Vip : Known(w)' <=> Known(w)
  BY <1>1 DEF Known
<1>5. \A w \in Vip : ~Released(w) /\ (Released(w)' <=> w = v)
  BY <1>1, <1>3 DEF Released
<1>6. \A h \in Gor, w \in Vip : Pending(h, w)' <=> Pending(h, w)
  BY <1>1, <1>3 DEF Pending, Idle
<1>7. LockInv'
  BY <1>1, <1>3, <1>4 DEF LeaseInv, LockInv, Idle
<1>8. \A h \in Gor : ~Pending(h, v)
  BY <1>1, <1>5 DEF LeaseInv, NoDoubleLease
<1>9. NoDoubleLease' /\ NoLeak'
  BY <1>1, <1>4, <1>5, <1>6, <1>8 DEF LeaseInv, NoDoubleLease, NoLeak
<1> QED BY <1>2, <1>7, <1>9 DEF LeaseInv

\* handleBye deletes the entry whose address it has released, then unlocks.
LEMMA ByeDeleteLease ==
  ASSUME LeaseInv, NEW g \in Gor, ByeDelete(g)
  PROVE  LeaseInv'
<1> DEFINE v == task[g].vip
<1>1. /\ task[g].op = "bye"
      /\ addrIndex' = [addrIndex EXCEPT ![peers[v].addr] = None]
      /\ peers' = [peers EXCEPT ![v] = None]
      /\ mu' = None
      /\ task' = [task EXCEPT ![g] = Idle]
      /\ UNCHANGED <<used, sweep>>
  BY DEF ByeDelete
<1>2. mu = g /\ v \in Vip /\ Known(v)
  BY <1>1 DEF LeaseInv, LockInv
<1>3. SuperTypeOK'
  BY <1>1, <1>2 DEF LeaseInv, SuperTypeOK, Task, Idle
<1>4. task'[g] = Idle /\ \A h \in Gor : h # g => task'[h] = task[h]
  BY <1>1 DEF LeaseInv, SuperTypeOK
<1>5. \A w \in Vip : Known(w)' <=> (Known(w) /\ w # v)
  BY <1>1, <1>2 DEF Known, LeaseInv, SuperTypeOK
<1>6. \A w \in Vip : (Released(w) <=> w = v) /\ ~Released(w)'
  BY <1>1, <1>2 DEF Released
<1>7. \A h \in Gor, w \in Vip : Pending(h, w)' <=> Pending(h, w)
  BY <1>1, <1>4 DEF Pending, Idle
<1>8. mu # Cleaner /\ sweep.todo = {}
  BY <1>2 DEF LeaseInv, LockInv
<1>9. LockInv'
  BY <1>1, <1>2, <1>4, <1>5, <1>8 DEF LeaseInv, LockInv, Idle
<1>10. NoDoubleLease' /\ NoLeak'
  BY <1>1, <1>2, <1>5, <1>6, <1>7 DEF LeaseInv, NoDoubleLease, NoLeak
<1> QED BY <1>3, <1>9, <1>10 DEF LeaseInv

\* A cleanup round: the lock, each release, each deletion.
LEMMA CleanupLease ==
  ASSUME LeaseInv, CleanupBegin \/ CleanupRelease \/ CleanupDelete
  PROVE  LeaseInv'
<1>1. CASE CleanupBegin
  <2>1. /\ mu = None /\ mu' = Cleaner
        /\ \E v \in Vip : Stale(v)
        /\ sweep' = [sweep EXCEPT !.todo = {v \in Vip : Stale(v)}]
        /\ UNCHANGED <<used, peers, addrIndex, task>>
    BY <1>1 DEF CleanupBegin
  <2>2. sweep.todo = {} /\ sweep.cur = None
    BY <2>1 DEF LeaseInv, LockInv
  <2>3. sweep'.todo = {v \in Vip : Stale(v)} /\ sweep'.cur = None
    BY <2>1, <2>2 DEF LeaseInv, SuperTypeOK
  <2>4. SuperTypeOK'
    BY <2>1 DEF LeaseInv, SuperTypeOK
  <2>5. LockInv'
    BY <2>1, <2>3 DEF LeaseInv, LockInv, Stale, Known
  <2>6. \A w \in Vip : /\ Known(w)' <=> Known(w)
                       /\ ~Released(w) /\ ~Released(w)'
                       /\ \A h \in Gor : Pending(h, w)' <=> Pending(h, w)
    BY <2>1, <2>3 DEF Known, Released, Pending
  <2>7. NoDoubleLease' /\ NoLeak'
    BY <2>1, <2>6 DEF LeaseInv, NoDoubleLease, NoLeak
  <2> QED BY <2>4, <2>5, <2>7 DEF LeaseInv
<1>2. CASE CleanupRelease
  <2>1. PICK v \in sweep.todo : /\ used' = used \ {v}
                                /\ sweep' = [sweep EXCEPT !.cur = v]
    BY <1>2 DEF CleanupRelease
  <2>2. /\ mu = Cleaner /\ sweep.cur = None
        /\ UNCHANGED <<peers, addrIndex, mu, task>>
    BY <1>2 DEF CleanupRelease
  <2>3. v \in Vip /\ Known(v) /\ sweep'.todo = sweep.todo /\ sweep'.cur = v
    BY <2>1 DEF LeaseInv, LockInv, SuperTypeOK
  <2>4. SuperTypeOK'
    BY <2>1, <2>2, <2>3 DEF LeaseInv, SuperTypeOK
  <2>5. LockInv'
    BY <2>1, <2>2, <2>3 DEF LeaseInv, LockInv, Known
  <2>6. \A w \in Vip : /\ Known(w)' <=> Known(w)
                       /\ ~Released(w) /\ (Released(w)' <=> w = v)
                       /\ \A h \in Gor : Pending(h, w)' <=> Pending(h, w)
    BY <2>2, <2>3 DEF Known, Released, Pending
  <2>7. NoDoubleLease' /\ NoLeak'
    BY <2>1, <2>2, <2>3, <2>6 DEF LeaseInv, NoDoubleLease, NoLeak
  <2> QED BY <2>4, <2>5, <2>7 DEF LeaseInv
<1>3. CASE CleanupDelete
  <2> DEFINE v == sweep.cur
  <2>1. /\ mu = Cleaner /\ v # None
        /\ addrIndex' = [addrIndex EXCEPT ![peers[v].addr] = None]
        /\ peers' = [peers EXCEPT ![v] = None]
        /\ sweep' = [todo |-> sweep.todo \ {v}, cur |-> None]
        /\ mu' = IF sweep.todo = {v} THEN None ELSE Cleaner
        /\ UNCHANGED <<used, task>>
    BY <1>3 DEF CleanupDelete
  <2>2. v \in sweep.todo /\ v \in Vip /\ Known(v)
    BY <2>1 DEF LeaseInv, LockInv, SuperTypeOK
  <2>3. SuperTypeOK'
    BY <2>1, <2>2 DEF LeaseInv, SuperTypeOK
  <2>4. \A w \in Vip : Known(w)' <=> (Known(w) /\ w # v)
    BY <2>1, <2>2 DEF Known, LeaseInv, SuperTypeOK
  <2>5. \A g \in Gor : task[g].op # "bye" /\ mu' # g
    BY <2>1 DEF LeaseInv, LockInv
  <2>6. LockInv'
    BY <2>1, <2>2, <2>4, <2>5 DEF LeaseInv, LockInv, SuperTypeOK
  <2>7. \A w \in Vip : /\ (Released(w) <=> w = v) /\ ~Released(w)'
                       /\ \A h \in Gor : Pending(h, w)' <=> Pending(h, w)
    BY <2>1, <2>2 DEF Released, Pending
  <2>8. NoDoubleLease' /\ NoLeak'
    BY <2>1, <2>2, <2>4, <2>7 DEF LeaseInv, NoDoubleLease, NoLeak
  <2> QED BY <2>3, <2>6, <2>8 DEF LeaseInv
<1> QED BY <1>1, <1>2, <1>3

\* Time makes entries older and changes nothing else.
LEMMA TickLease == ASSUME LeaseInv, Tick PROVE LeaseInv'
<1>1. \A v \in Vip : peers'[v] = IF Known(v) /\ peers[v].age <= Timeout
                                 THEN [peers[v] EXCEPT !.age = @ + 1]
                                 ELSE peers[v]
  BY DEF Tick
<1>2. UNCHANGED <<used, addrIndex, mu, task, sweep>>
  BY DEF Tick
<1>3. ASSUME NEW v \in Vip
      PROVE  peers'[v] \in Entry \cup {None} /\ (Known(v)' <=> Known(v))
  <2>1. CASE ~(Known(v) /\ peers[v].age <= Timeout)
    BY <1>1, <2>1 DEF LeaseInv, SuperTypeOK, Known
  <2>2. CASE Known(v) /\ peers[v].age <= Timeout
    <3>1. peers[v] \in Entry
      BY <2>2 DEF LeaseInv, SuperTypeOK, Known
    <3>2. peers'[v] = [peers[v] EXCEPT !.age = @ + 1]
      BY <1>1, <2>2
    <3>3. peers'[v] \in Entry
      BY <2>2, <3>1, <3>2 DEF Entry, Age
    <3> QED BY <2>2, <3>3 DEF Known
  <2> QED BY <2>1, <2>2
<1>4. SuperTypeOK'
  BY <1>2, <1>3 DEF LeaseInv, SuperTypeOK, Tick
<1>5. LockInv'
  BY <1>2, <1>3 DEF LeaseInv, LockInv, SuperTypeOK
<1>6. \A w \in Vip : /\ Released(w)' <=> Released(w)
                     /\ \A h \in Gor : Pending(h, w)' <=> Pending(h, w)
  BY <1>2 DEF Released, Pending
<1>7. NoDoubleLease' /\ NoLeak'
  BY <1>2, <1>3, <1>6 DEF LeaseInv, NoDoubleLease, NoLeak
<1> QED BY <1>4, <1>5, <1>7 DEF LeaseInv

\* A restarted process is a fresh one.
LEMMA RestartLease == ASSUME Restart PROVE LeaseInv'
BY DEF Restart, LeaseInv, SuperTypeOK, LockInv, NoDoubleLease, NoLeak, Vip,
       Entry, Task, Idle, Known, Pending, Released

\* The invariant depends on the supernode's variables only.
LEMMA StutterLease == ASSUME LeaseInv, UNCHANGED superVars PROVE LeaseInv'
BY DEF superVars, LeaseInv, SuperTypeOK, LockInv, NoDoubleLease, NoLeak,
       Known, Pending, Released

\* Every handler of handlePacket and the cleanup preserve the invariant.
LEMMA LeaseStep == LeaseInv /\ [SuperNext]_superVars => LeaseInv'
<1> SUFFICES ASSUME LeaseInv, [SuperNext]_superVars PROVE LeaseInv'
  OBVIOUS
<1>1. CASE \E g \in Gor, a \in Addr : RegisterAllocate(g, a)
  BY <1>1, AllocateLease
<1>2. CASE \E g \in Gor : RegisterInsert(g)
  BY <1>2, InsertLease
<1>3. CASE \E g \in Gor : Broadcast(g) \/ HeartbeatReply(g)
  BY <1>3, FinishLease
<1>4. CASE \E g \in Gor, v \in Vip, a \in Addr : HeartbeatRefresh(g, v, a)
  BY <1>4, HeartbeatLease
<1>5. CASE \E g \in Gor, v \in Vip : ByeRelease(g, v)
  BY <1>5, ByeReleaseLease
<1>6. CASE \E g \in Gor : ByeDelete(g)
  BY <1>6, ByeDeleteLease
<1>7. CASE CleanupBegin \/ CleanupRelease \/ CleanupDelete
  BY <1>7, CleanupLease
<1>8. CASE Tick
  BY <1>8, TickLease
<1>9. CASE Restart
  BY <1>9, RestartLease
<1>10. CASE UNCHANGED superVars
  BY <1>10, StutterLease
<1> QED
  BY <1>1, <1>2, <1>3, <1>4, <1>5, <1>6, <1>7, <1>8, <1>9, <1>10 DEF SuperNext

\* LeaseInv holds in every reachable state of n2n/supernode.go's tables.
THEOREM LeaseInvariant == SuperSpec => []LeaseInv
BY LeaseInit, LeaseStep, PTL DEF SuperSpec

\* The variables keep their types; allocate stays inside the pool.
THEOREM SuperTypeCorrect == SuperSpec => []SuperTypeOK
<1>1. LeaseInv => SuperTypeOK  BY DEF LeaseInv
<1> QED BY <1>1, LeaseInvariant, PTL

\* s.mu is held by whoever works on an entry, and the entry stays in the table.
THEOREM LockDiscipline == SuperSpec => []LockInv
<1>1. LeaseInv => LockInv  BY DEF LeaseInv
<1> QED BY <1>1, LeaseInvariant, PTL

\* No address is carried by two registers in flight, or by one and a live entry,
\* although handleRegister allocates outside s.mu.
THEOREM LeasesAreExclusive == SuperSpec => []NoDoubleLease
<1>1. LeaseInv => NoDoubleLease  BY DEF LeaseInv
<1> QED BY <1>1, LeaseInvariant, PTL

\* The pool's map and the peer table agree, so no address is ever lost.
THEOREM PoolNeverLeaks == SuperSpec => []NoLeak
<1>1. LeaseInv => NoLeak  BY DEF LeaseInv
<1> QED BY <1>1, LeaseInvariant, PTL

------------------------------------------------------------------------------
(* The index, and the action property. *)

\* addrIndex is written with the entry it names and cleared before it goes.
LEMMA IndexStep == LeaseInv /\ IndexSound /\ [SuperNext]_superVars => IndexSound'
<1> SUFFICES ASSUME LeaseInv, IndexSound, [SuperNext]_superVars PROVE IndexSound'
  OBVIOUS
<1>1. CASE UNCHANGED <<peers, addrIndex>>
  BY <1>1 DEF IndexSound, Known
<1>2. ASSUME NEW g \in Gor, RegisterInsert(g) PROVE IndexSound'
  <2> DEFINE v == task[g].vip
             a == task[g].addr
  <2>1. /\ v \in Vip /\ a \in Addr /\ mu = None /\ Pending(g, v)
        /\ peers' = [peers EXCEPT ![v] = [addr |-> a, age |-> 0]]
        /\ addrIndex' = [addrIndex EXCEPT ![a] = v]
    BY <1>2 DEF RegisterInsert, LeaseInv, LockInv, Pending
  <2>2. ~Known(v)
    BY <2>1 DEF LeaseInv, NoDoubleLease, Released
  <2>3. [addr |-> a, age |-> 0] \in Entry
    BY <2>1 DEF Entry, Age
  <2> QED BY <2>1, <2>2, <2>3 DEF IndexSound, Known, LeaseInv, SuperTypeOK
<1>3. ASSUME NEW g \in Gor, NEW v \in Vip, NEW a \in Addr, HeartbeatRefresh(g, v, a)
      PROVE  IndexSound'
  <2>1. /\ addrIndex' = addrIndex
        /\ peers' = IF Known(v) THEN [peers EXCEPT ![v].age = 0] ELSE peers
    BY <1>3 DEF HeartbeatRefresh
  <2>2. Known(v) => [peers[v] EXCEPT !.age = 0] \in Entry
    BY DEF Known, LeaseInv, SuperTypeOK, Entry, Age
  <2>3. ASSUME NEW w \in Vip, Known(w) PROVE Known(w)' /\ peers'[w].addr = peers[w].addr
    BY <2>1, <2>2, <2>3 DEF Known, LeaseInv, SuperTypeOK, Entry
  <2> QED BY <2>1, <2>3 DEF IndexSound, LeaseInv, SuperTypeOK
<1>4. ASSUME NEW v \in Vip, Known(v),
             addrIndex' = [addrIndex EXCEPT ![peers[v].addr] = None],
             peers' = [peers EXCEPT ![v] = None]
      PROVE  IndexSound'
  BY <1>4 DEF IndexSound, Known, LeaseInv, SuperTypeOK
<1>5. CASE Tick
  <2>1. ASSUME NEW w \in Vip, Known(w) PROVE Known(w)' /\ peers'[w].addr = peers[w].addr
    <3>1. peers'[w] = IF peers[w].age <= Timeout
                      THEN [peers[w] EXCEPT !.age = @ + 1] ELSE peers[w]
      BY <1>5, <2>1 DEF Tick
    <3>2. peers[w] \in Entry
      BY <2>1 DEF Known, LeaseInv, SuperTypeOK
    <3>3. peers'[w].addr = peers[w].addr
      BY <3>1, <3>2 DEF Entry
    <3>4. Known(w)'
      BY <1>5, TickLease, <2>1, <3>1, <3>2 DEF Entry, Age, Known
    <3> QED BY <3>3, <3>4
  <2>2. addrIndex' = addrIndex
    BY <1>5 DEF Tick
  <2> QED BY <2>1, <2>2 DEF IndexSound, LeaseInv, SuperTypeOK
<1>6. CASE Restart
  BY <1>6 DEF Restart, IndexSound
<1>7. ASSUME NEW g \in Gor, ByeDelete(g) PROVE IndexSound'
  <2>1. task[g].vip \in Vip /\ Known(task[g].vip)
    BY <1>7 DEF ByeDelete, LeaseInv, LockInv
  <2> QED BY <1>4, <1>7, <2>1 DEF ByeDelete
<1>8. CASE CleanupDelete
  <2>1. sweep.cur \in Vip /\ Known(sweep.cur)
    BY <1>8 DEF CleanupDelete, LeaseInv, LockInv, SuperTypeOK
  <2> QED BY <1>4, <1>8, <2>1 DEF CleanupDelete
<1> QED
  BY <1>1, <1>2, <1>3, <1>5, <1>6, <1>7, <1>8
  DEF SuperNext, superVars, RegisterAllocate, Broadcast, HeartbeatReply,
      ByeRelease, CleanupBegin, CleanupRelease

\* s.addrIndex never dangles and never names a peer registered elsewhere.
THEOREM IndexIsSound == SuperSpec => []IndexSound
<1>1. SuperInit => IndexSound
  BY DEF SuperInit, IndexSound
<1> QED BY <1>1, IndexStep, LeaseInvariant, PTL DEF SuperSpec

\* A lease is given up before its address belongs to another real address.
THEOREM AddressNeverTakenOver == SuperSpec => NoTakeover
<1> DEFINE Keep == \A v \in Vip : Known(v) /\ Known(v)' => peers'[v].addr = peers[v].addr
<1>1. ASSUME LeaseInv, [SuperNext]_superVars PROVE Keep
  <2>1. CASE UNCHANGED peers
    BY <2>1
  <2>2. ASSUME NEW g \in Gor, RegisterInsert(g) PROVE Keep
    <3>1. /\ task[g].vip \in Vip /\ mu = None /\ Pending(g, task[g].vip)
          /\ \A w \in Vip : w # task[g].vip => peers'[w] = peers[w]
      BY <1>1, <2>2 DEF RegisterInsert, LeaseInv, LockInv, SuperTypeOK, Pending
    <3>2. ~Known(task[g].vip)
      BY <1>1, <3>1 DEF LeaseInv, NoDoubleLease, Released
    <3> QED BY <3>1, <3>2
  <2>3. ASSUME NEW g \in Gor, NEW v \in Vip, NEW a \in Addr, HeartbeatRefresh(g, v, a)
        PROVE  Keep
    BY <1>1, <2>3 DEF HeartbeatRefresh, Known, LeaseInv, SuperTypeOK, Entry
  <2>4. ASSUME NEW v \in Vip, peers' = [peers EXCEPT ![v] = None] PROVE Keep
    BY <1>1, <2>4 DEF Known, LeaseInv, SuperTypeOK
  <2>5. CASE Tick
    BY <1>1, <2>5 DEF Tick, Known, LeaseInv, SuperTypeOK, Entry
  <2>6. CASE Restart
    BY <2>6 DEF Restart, Known
  <2>7. ASSUME NEW g \in Gor, ByeDelete(g) PROVE Keep
    BY <1>1, <2>4, <2>7 DEF ByeDelete, LeaseInv, LockInv
  <2>8. CASE CleanupDelete
    BY <1>1, <2>4, <2>8 DEF CleanupDelete, LeaseInv, LockInv, SuperTypeOK
  <2> QED
    BY <1>1, <2>1, <2>2, <2>3, <2>5, <2>6, <2>7, <2>8
    DEF SuperNext, superVars, RegisterAllocate, Broadcast, HeartbeatReply,
        ByeRelease, CleanupBegin, CleanupRelease
<1>2. LeaseInv /\ [SuperNext]_superVars => [Keep]_superVars
  BY <1>1
<1> QED BY <1>2, LeaseInvariant, PTL DEF SuperSpec, NoTakeover

------------------------------------------------------------------------------
(* The refinement of LeasePool. *)

\* Who holds an address, case by case.
HolderFacts ==
  \A v \in Vip :
    /\ \A g \in Gor : Pending(g, v) => Holder(v) = task[g].addr
    /\ v \in used /\ (\A g \in Gor : ~Pending(g, v)) => Holder(v) = peers[v].addr
    /\ v \notin used => Holder(v) = None
    /\ v \in used => Holder(v) \in Addr

\* Under the invariant the holder of an address is well defined: LeaseInv makes
\* the register in flight unique and gives every used address an owner.
LEMMA HolderCases == LeaseInv => HolderFacts
<1> SUFFICES ASSUME LeaseInv, NEW v \in Vip
             PROVE  /\ \A g \in Gor : Pending(g, v) => Holder(v) = task[g].addr
                    /\ v \in used /\ (\A g \in Gor : ~Pending(g, v)) => Holder(v) = peers[v].addr
                    /\ v \notin used => Holder(v) = None
                    /\ v \in used => Holder(v) \in Addr
  BY DEF HolderFacts
<1>1. ASSUME NEW g \in Gor, Pending(g, v) PROVE Holder(v) = task[g].addr /\ v \in used
  <2>1. (CHOOSE h \in Gor : Pending(h, v)) = g
    BY <1>1 DEF LeaseInv, NoDoubleLease
  <2> QED BY <1>1, <2>1 DEF Holder, LeaseInv, NoLeak
<1>2. ASSUME \A g \in Gor : ~Pending(g, v)
      PROVE  Holder(v) = IF v \in used THEN peers[v].addr ELSE None
  BY <1>2 DEF Holder
<1>3. ASSUME v \in used, \A g \in Gor : ~Pending(g, v) PROVE peers[v].addr \in Addr
  BY <1>3 DEF LeaseInv, NoLeak, Known, SuperTypeOK, Entry
<1>4. \A g \in Gor : Pending(g, v) => task[g].addr \in Addr
  BY DEF LeaseInv, LockInv, Pending
<1> QED BY <1>1, <1>2, <1>3, <1>4

\* The same in the next state.
LEMMA HolderCasesNext == LeaseInv' => HolderFacts'
BY HolderCases, PTL

\* A step that changes neither the pool, nor the registers in flight, nor the
\* address of an entry that stays is invisible at that address.
LEMMA HolderSame ==
  ASSUME LeaseInv, LeaseInv', NEW v \in Vip,
         v \in used' <=> v \in used,
         v \in used /\ (\A g \in Gor : ~Pending(g, v)) => peers'[v].addr = peers[v].addr,
         \A g \in Gor : Pending(g, v)' <=> Pending(g, v),
         \A g \in Gor : Pending(g, v) => task'[g].addr = task[g].addr
  PROVE  Holder(v)' = Holder(v)
BY HolderCases, HolderCasesNext DEF HolderFacts

\* A goroutine that neither carries nor takes an address leaves the registers
\* in flight alone.
LEMMA PendingSame ==
  ASSUME NEW g \in Gor, task[g].op # "insert", task'[g].op # "insert",
         \A h \in Gor : h # g => task'[h] = task[h]
  PROVE  \A w \in Vip, h \in Gor : /\ Pending(h, w)' <=> Pending(h, w)
                                   /\ Pending(h, w) => task'[h].addr = task[h].addr
<1> SUFFICES ASSUME NEW w \in Vip, NEW h \in Gor
             PROVE  /\ Pending(h, w)' <=> Pending(h, w)
                    /\ Pending(h, w) => task'[h].addr = task[h].addr
  OBVIOUS
<1>1. CASE h = g
  BY <1>1 DEF Pending
<1>2. CASE h # g
  BY <1>2 DEF Pending
<1> QED BY <1>1, <1>2

\* Each step is a grant, a giving up, a forgetting or invisible to LeasePool.
LEMMA RefineStep ==
  LeaseInv /\ LeaseInv' /\ [SuperNext]_superVars
    => [Lease!Next]_([v \in Vip |-> Holder(v)])
<1> SUFFICES ASSUME LeaseInv, LeaseInv', [SuperNext]_superVars
             PROVE  Lease!Next \/ [v \in Vip |-> Holder(v)]' = [v \in Vip |-> Holder(v)]
  OBVIOUS
<1> DEFINE Same(v) == Holder(v)' = Holder(v)
<1>1. ASSUME \A v \in Vip : Same(v)
      PROVE  [v \in Vip |-> Holder(v)]' = [v \in Vip |-> Holder(v)]
  BY <1>1
<1>2. ASSUME NEW g \in Gor, NEW a \in Addr, RegisterAllocate(g, a)
      PROVE  Lease!Next
  <2>1. PICK v \in Vip :
          /\ v \notin used
          /\ used' = used \cup {v}
          /\ task' = [task EXCEPT ![g] = [op |-> "insert", vip |-> v, addr |-> a]]
    BY <1>2 DEF RegisterAllocate, FirstFree
  <2>2. task[g] = Idle /\ peers' = peers
    BY <1>2 DEF RegisterAllocate
  <2>3. /\ task'[g] = [op |-> "insert", vip |-> v, addr |-> a]
        /\ \A h \in Gor : h # g => task'[h] = task[h]
    BY <2>1 DEF LeaseInv, SuperTypeOK
  <2>4. Holder(v) = None
    BY <2>1, HolderCases DEF HolderFacts
  <2>5. Pending(g, v)'
    BY <2>3 DEF Pending
  <2>6. Holder(v)' = a
    BY <2>3, <2>5, HolderCasesNext DEF HolderFacts
  <2>7. ASSUME NEW w \in Vip, w # v PROVE Same(w)
    <3>1. \A h \in Gor : (Pending(h, w)' <=> Pending(h, w))
                         /\ (Pending(h, w) => task'[h].addr = task[h].addr)
      BY <2>2, <2>3, <2>7 DEF Pending, Idle
    <3> QED BY <2>1, <2>2, <2>7, <3>1, HolderSame
  <2>8. [w \in Vip |-> Holder(w)]' = [[w \in Vip |-> Holder(w)] EXCEPT ![v] = a]
    BY <2>6, <2>7
  <2> QED BY <2>4, <2>8 DEF Lease!Next, Lease!Grant
<1>3. ASSUME NEW v \in Vip, v \in used, used' = used \ {v},
             UNCHANGED peers,
             \A w \in Vip, h \in Gor : /\ Pending(h, w)' <=> Pending(h, w)
                                       /\ Pending(h, w) => task'[h].addr = task[h].addr
      PROVE  Lease!Next
  <2>1. Holder(v) # None
    BY <1>3, HolderCases DEF HolderFacts
  <2>2. Holder(v)' = None
    BY <1>3, HolderCasesNext DEF HolderFacts
  <2>3. \A w \in Vip : w # v => Same(w)
    BY <1>3, HolderSame
  <2>4. [w \in Vip |-> Holder(w)]' = [[w \in Vip |-> Holder(w)] EXCEPT ![v] = None]
    BY <2>2, <2>3
  <2> QED BY <2>1, <2>4 DEF Lease!Next, Lease!GiveUp
<1>4. ASSUME NEW g \in Gor, NEW v \in Vip, ByeRelease(g, v)
      PROVE  Lease!Next
  <2>1. /\ Known(v) /\ mu = None /\ task[g] = Idle /\ used' = used \ {v} /\ peers' = peers
        /\ task' = [task EXCEPT ![g] = [op |-> "bye", vip |-> v, addr |-> None]]
    BY <1>4 DEF ByeRelease
  <2>2. v \in used
    BY <2>1 DEF LeaseInv, NoLeak, Released
  <2>3. \A h \in Gor : h # g => task'[h] = task[h]
    BY <2>1 DEF LeaseInv, SuperTypeOK
  <2>4. task'[g].op = "bye"
    BY <2>1 DEF LeaseInv, SuperTypeOK
  <2>5. \A w \in Vip, h \in Gor : /\ Pending(h, w)' <=> Pending(h, w)
                                  /\ Pending(h, w) => task'[h].addr = task[h].addr
    BY <2>1, <2>3, <2>4 DEF Pending, Idle
  <2> QED BY <1>3, <2>1, <2>2, <2>5
<1>5. CASE CleanupRelease
  <2>1. PICK v \in sweep.todo : used' = used \ {v}
    BY <1>5 DEF CleanupRelease
  <2>2. mu = Cleaner /\ sweep.cur = None /\ peers' = peers /\ task' = task
    BY <1>5 DEF CleanupRelease
  <2>3. v \in Vip /\ Known(v) /\ v \in used
    BY <2>2 DEF LeaseInv, LockInv, NoLeak, Released, SuperTypeOK
  <2>4. \A w \in Vip, h \in Gor : /\ Pending(h, w)' <=> Pending(h, w)
                                  /\ Pending(h, w) => task'[h].addr = task[h].addr
    BY <2>2 DEF Pending
  <2> QED BY <1>3, <2>1, <2>2, <2>3, <2>4
<1>6. ASSUME NEW g \in Gor, RegisterInsert(g) PROVE \A v \in Vip : Same(v)
  <2>0. PICK u \in Vip : u = task[g].vip
    BY <1>6 DEF RegisterInsert, LeaseInv, LockInv
  <2>1. /\ used' = used /\ Pending(g, u)
        /\ peers' = [peers EXCEPT ![u] = [addr |-> task[g].addr, age |-> 0]]
        /\ task' = [task EXCEPT ![g].op = "broadcast"]
    BY <1>6, <2>0 DEF RegisterInsert, LeaseInv, LockInv, Pending
  <2>2. /\ task'[g].op = "broadcast"
        /\ \A h \in Gor : h # g => task'[h] = task[h]
    BY <2>1 DEF LeaseInv, SuperTypeOK, Task
  <2>3. ASSUME NEW w \in Vip, w # u PROVE Same(w)
    <3>1. \A h \in Gor : Pending(h, w)' <=> Pending(h, w)
      BY <2>1, <2>2, <2>3 DEF Pending
    <3>2. \A h \in Gor : Pending(h, w) => task'[h].addr = task[h].addr
      BY <2>1, <2>2, <2>3 DEF Pending
    <3>3. peers'[w] = peers[w]
      BY <2>1, <2>3 DEF LeaseInv, SuperTypeOK
    <3> QED BY <2>1, <3>1, <3>2, <3>3, HolderSame
  <2>4. Same(u)
    <3>1. Holder(u) = task[g].addr /\ u \in used
      BY <2>1, HolderCases DEF HolderFacts, LeaseInv, NoLeak
    <3>2. \A h \in Gor : ~Pending(h, u)'
      BY <2>1, <2>2 DEF LeaseInv, NoDoubleLease, Pending
    <3>3. peers'[u].addr = task[g].addr
      BY <2>1 DEF LeaseInv, SuperTypeOK
    <3> QED BY <2>1, <3>1, <3>2, <3>3, HolderCasesNext DEF HolderFacts
  <2> QED BY <2>3, <2>4
<1>7. ASSUME NEW g \in Gor, Broadcast(g) \/ HeartbeatReply(g)
      PROVE  \A v \in Vip : Same(v)
  <2>1. /\ task[g].op \in {"broadcast", "heartbeat"} /\ task' = [task EXCEPT ![g] = Idle]
        /\ UNCHANGED <<used, peers>>
    BY <1>7 DEF Broadcast, HeartbeatReply
  <2>2. task'[g].op = "idle" /\ \A h \in Gor : h # g => task'[h] = task[h]
    BY <2>1 DEF LeaseInv, SuperTypeOK, Idle
  <2>3. \A w \in Vip, h \in Gor : /\ Pending(h, w)' <=> Pending(h, w)
                                  /\ Pending(h, w) => task'[h].addr = task[h].addr
    BY <2>1, <2>2, PendingSame
  <2> QED BY <2>1, <2>3, HolderSame
<1>8. ASSUME NEW g \in Gor, NEW u \in Vip, NEW a \in Addr, HeartbeatRefresh(g, u, a)
      PROVE  \A v \in Vip : Same(v)
  <2>1. /\ task[g] = Idle /\ used' = used
        /\ peers' = IF Known(u) THEN [peers EXCEPT ![u].age = 0] ELSE peers
        /\ task' = [task EXCEPT ![g] = [op |-> "heartbeat", vip |-> u, addr |-> a]]
    BY <1>8 DEF HeartbeatRefresh
  <2>2. /\ task'[g].op = "heartbeat"
        /\ \A h \in Gor : h # g => task'[h] = task[h]
    BY <2>1 DEF LeaseInv, SuperTypeOK
  <2>3. ASSUME NEW w \in Vip, Known(w) PROVE peers'[w].addr = peers[w].addr
    BY <2>1, <2>3 DEF Known, LeaseInv, SuperTypeOK, Entry
  <2>4. ASSUME NEW w \in Vip, ~Known(w) PROVE peers'[w] = peers[w]
    BY <2>1, <2>4 DEF Known, LeaseInv, SuperTypeOK
  <2>5. \A w \in Vip, h \in Gor : /\ Pending(h, w)' <=> Pending(h, w)
                                  /\ Pending(h, w) => task'[h].addr = task[h].addr
    BY <2>1, <2>2, PendingSame DEF Idle
  <2>6. \A w \in Vip : w \in used /\ (\A h \in Gor : ~Pending(h, w))
                       => peers'[w].addr = peers[w].addr
    BY <2>3, <2>4
  <2> QED BY <2>1, <2>5, <2>6, HolderSame
<1>9. ASSUME NEW u \in Vip, ~(u \in used /\ \A h \in Gor : ~Pending(h, u)),
             used' = used, peers' = [peers EXCEPT ![u] = None],
             \A w \in Vip, h \in Gor : /\ Pending(h, w)' <=> Pending(h, w)
                                       /\ Pending(h, w) => task'[h].addr = task[h].addr
      PROVE  \A v \in Vip : Same(v)
  <2>1. \A w \in Vip : w # u => peers'[w] = peers[w]
    BY <1>9 DEF LeaseInv, SuperTypeOK
  <2> QED BY <1>9, <2>1, HolderSame
<1>10. ASSUME NEW g \in Gor, ByeDelete(g) PROVE \A v \in Vip : Same(v)
  <2>1. /\ task[g].op = "bye" /\ used' = used
        /\ peers' = [peers EXCEPT ![task[g].vip] = None]
        /\ task' = [task EXCEPT ![g] = Idle]
    BY <1>10 DEF ByeDelete
  <2>2. task[g].vip \in Vip /\ Released(task[g].vip)
    BY <2>1 DEF LeaseInv, LockInv, Released
  <2>3. task'[g].op = "idle" /\ \A h \in Gor : h # g => task'[h] = task[h]
    BY <2>1 DEF LeaseInv, SuperTypeOK, Idle
  <2>4. \A w \in Vip, h \in Gor : /\ Pending(h, w)' <=> Pending(h, w)
                                  /\ Pending(h, w) => task'[h].addr = task[h].addr
    BY <2>1, <2>3, PendingSame
  <2>5. ~(task[g].vip \in used /\ \A h \in Gor : ~Pending(h, task[g].vip))
    BY <2>2 DEF LeaseInv, NoLeak
  <2> QED BY <1>9, <2>1, <2>2, <2>4, <2>5
<1>11. CASE CleanupDelete
  <2>1. /\ mu = Cleaner /\ sweep.cur # None /\ used' = used /\ task' = task
        /\ peers' = [peers EXCEPT ![sweep.cur] = None]
    BY <1>11 DEF CleanupDelete
  <2>2. sweep.cur \in Vip /\ Released(sweep.cur)
    BY <2>1 DEF LeaseInv, SuperTypeOK, Released
  <2>3. ~(sweep.cur \in used /\ \A h \in Gor : ~Pending(h, sweep.cur))
    BY <2>2 DEF LeaseInv, NoLeak
  <2>4. \A v \in Vip : Same(v)
    BY <1>9, <2>1, <2>2, <2>3 DEF Pending
  <2> QED BY <1>1, <2>4
<1>12. CASE Tick
  <2>1. UNCHANGED <<used, task>>
    BY <1>12 DEF Tick
  <2>2. ASSUME NEW w \in Vip, Known(w) PROVE peers'[w].addr = peers[w].addr
    BY <1>12, <2>2 DEF Tick, Known, LeaseInv, SuperTypeOK, Entry
  <2>3. ASSUME NEW w \in Vip, ~Known(w) PROVE peers'[w] = peers[w]
    BY <1>12, <2>3 DEF Tick
  <2>4. \A v \in Vip : Same(v)
    BY <2>1, <2>2, <2>3, HolderSame DEF Pending
  <2> QED BY <1>1, <2>4
<1>13. CASE Restart
  <2>1. \A v \in Vip : Holder(v)' = None
    BY <1>13, HolderCasesNext DEF Restart, HolderFacts
  <2> QED BY <2>1 DEF Lease!Next, Lease!Forget
<1>14. CASE CleanupBegin \/ UNCHANGED superVars
  <2>1. UNCHANGED <<used, peers, task>>
    BY <1>14 DEF CleanupBegin, superVars
  <2>2. \A v \in Vip : Same(v)
    BY <2>1, HolderSame DEF Pending
  <2> QED BY <1>1, <2>2
<1> QED
  BY <1>1, <1>2, <1>4, <1>5, <1>6, <1>7, <1>8, <1>10, <1>11, <1>12, <1>13, <1>14
  DEF SuperNext

\* The interleaved handlers of n2n/supernode.go implement the atomic LeasePool.
THEOREM SupernodeRefinesLeasePool == SuperSpec => RefinesLeasePool
<1>1. SuperInit => Lease!Init
  <2>1. SuperInit => \A v \in Vip : Holder(v) = None
    BY LeaseInit, HolderCases DEF HolderFacts, SuperInit
  <2> QED BY <2>1 DEF Lease!Init
<1> QED
  BY <1>1, RefineStep, LeaseInvariant, PTL DEF SuperSpec, RefinesLeasePool, Lease!Spec
==============================================================================
