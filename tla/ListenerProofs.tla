--------------------------- MODULE ListenerProofs ---------------------------
(***************************************************************************)
(* Proofs about the inbound side: that Start and Stop agree whatever they  *)
(* race with, that the statistics count the handlers that relay, and that  *)
(* handshakes come to rest.  The three share no variable: the steps of     *)
(* Start, Stop and the accept loops leave the handlers alone, those of the *)
(* handlers leave Start alone, and a handshake is one of Handshake.        *)
(***************************************************************************)
EXTENDS Listener, Handshake, FiniteSetTheorems, SequenceTheorems, TLAPS

StopRec == [pc : {"idle", "closing", "done"}, saw : SUBSET Ports, ch : BOOLEAN]

LifeTypeOK ==
    /\ start \in Ports \cup {"new", "serve", "stopping", "done"}
    /\ bound \in Ports \cup {"none"}
    /\ result \in {"none", "nil", "error"}
    /\ sock \in [Ports -> {"none", "open", "closed"}]
    /\ ln \subseteq Ports /\ late \subseteq Ports
    /\ stopCh \in {"nil", "made", "closed"}
    /\ errs \in Nat /\ faults \in Nat /\ closed \in BOOLEAN
    /\ stop \in [Stoppers -> StopRec]
    /\ loop \in [Ports -> {"off", "on", "ended"}]

\* Start goes through the ports in their order: the one it is at and those
\* behind it have no listener and no loop, and the one it has bound is open.
OrderInv ==
    /\ start = "new" => \A p \in Ports : loop[p] = "off" /\ p \notin ln
    /\ \A p, q \in Ports : start = p /\ Index(q) >= Index(p) => loop[q] = "off" /\ q \notin ln
    /\ bound # "none" => start = bound /\ sock[bound] = "open"

\* A loop whose socket is closed under it knows that Stop did that; so an
\* error in the channel, and one that Start returns, is a real one.
ErrorInv ==
    /\ result = "error" => faults > 0
    /\ errs > 0 => faults > 0
    /\ \A p \in Ports : loop[p] = "on" /\ sock[p] = "closed" => closed

\* Stop: what a call saw, and that it closes the channel it saw.
StopInv ==
    /\ stopCh = "nil" <=> start = "new"
    /\ \A x \in Stoppers :
          /\ stop[x].saw \subseteq ln
          /\ stop[x].pc # "idle" => closed
          /\ stop[x].pc = "idle" => ~stop[x].ch
          /\ stop[x].ch => stopCh # "nil"
          /\ stop[x].pc = "done" /\ stop[x].ch => stopCh = "closed"

\* A call of Stop that has not closed p yet.
Closes(p) == \E x \in Stoppers : stop[x].pc = "closing" /\ p \in stop[x].saw

\* An open socket is published or about to be; once Stop has looked it is
\* late or on the list of the call that looked.
OpenInv ==
    /\ \A p \in Ports : sock[p] = "open" => p \in ln \/ p = bound
    /\ closed => \A p \in Ports : sock[p] = "open" => p \in late \/ Closes(p)

LifeInv == LifeTypeOK /\ OrderInv /\ ErrorInv /\ StopInv /\ OpenInv

------------------------------------------------------------------------------
(* The order of the ports.                                                 *)

LEMMA PortNames ==
    /\ Ports \subseteq {"http", "socks", "tproxy"}
    /\ AllPorts[1] = "http" /\ AllPorts[2] = "socks" /\ AllPorts[3] = "tproxy"
    /\ Index("http") = 1 /\ Index("socks") = 2 /\ Index("tproxy") = 3
<1>1. AllPorts[1] = "http" /\ AllPorts[2] = "socks" /\ AllPorts[3] = "tproxy"
  BY DEF AllPorts
<1>2. Index("http") = 1 /\ Index("socks") = 2 /\ Index("tproxy") = 3
  BY <1>1 DEF Index
<1> QED  BY <1>1, <1>2, ListenerAssumption

LEMMA AfterIsLater ==
    /\ After(0) \in Ports \cup {"serve"}
    /\ \A p \in Ports : \/ After(Index(p)) = "serve"
                        \/ After(Index(p)) \in Ports /\ Index(After(Index(p))) > Index(p)
<1>1. \A p \in Ports : Index(p) \in 1..3
  BY PortNames
<1>2. After(0) \in Ports \cup {"serve"}
  BY PortNames DEF After
<1>3. ASSUME NEW p \in Ports
      PROVE  \/ After(Index(p)) = "serve"
             \/ After(Index(p)) \in Ports /\ Index(After(Index(p))) > Index(p)
  BY <1>1, PortNames DEF After
<1> QED  BY <1>2, <1>3

LEMMA LifeInitInv == ListenInit => LifeInv
<1> SUFFICES ASSUME ListenInit PROVE LifeInv
  OBVIOUS
<1>0. "none" \notin Ports /\ "new" \notin Ports
  BY PortNames
<1>1. LifeTypeOK
  BY DEF ListenInit, LifeTypeOK, StopRec, NoStop
<1>2. OrderInv /\ ErrorInv /\ OpenInv
  BY <1>0 DEF ListenInit, OrderInv, ErrorInv, OpenInv
<1>3. StopInv
  BY DEF ListenInit, StopInv, NoStop
<1> QED  BY <1>1, <1>2, <1>3 DEF LifeInv

------------------------------------------------------------------------------
(* Start.                                                                  *)

LEMMA StartStep == LifeInv /\ Start => LifeInv'
<1> SUFFICES ASSUME LifeInv, Start PROVE LifeInv'
  OBVIOUS
<1> USE DEF LifeInv
<1>0. start' \in Ports \cup {"serve", "done"} /\ start' # "new" /\ start = "new"
  BY AfterIsLater, PortNames DEF Start
<1>1. LifeTypeOK'
  BY <1>0 DEF LifeTypeOK, Start
<1>2. OrderInv'
  BY <1>0, PortNames DEF LifeTypeOK, OrderInv, Start
<1>3. ErrorInv' /\ OpenInv'
  BY DEF ErrorInv, OpenInv, Closes, Start
<1>4. StopInv'
  BY <1>0 DEF StopInv, Start
<1> QED  BY <1>1, <1>2, <1>3, <1>4

LEMMA BindStep ==
  ASSUME LifeInv, NEW p \in Ports, Bind(p)
  PROVE  LifeInv'
<1> USE DEF LifeInv
<1>0. p # "none" /\ p # "new"
  BY PortNames
<1>1. LifeTypeOK'
  BY DEF LifeTypeOK, Bind
<1>2. OrderInv'
  BY <1>0 DEF LifeTypeOK, OrderInv, Bind
<1>3. ErrorInv'
  BY DEF LifeTypeOK, ErrorInv, Bind
<1>4. StopInv'
  BY DEF StopInv, Bind
<1>5. OpenInv'
  <2>1. \A q \in Ports : Closes(q) => Closes(q)'
    BY DEF Closes, Bind
  <2> QED  BY <2>1, PortNames DEF LifeTypeOK, OpenInv, Bind
<1> QED  BY <1>1, <1>2, <1>3, <1>4, <1>5

LEMMA BindFailsStep ==
  ASSUME LifeInv, NEW p \in Ports, BindFails(p)
  PROVE  LifeInv'
<1> USE DEF LifeInv
<1>0. start' \in {"done", "stopping"} /\ start' \notin Ports /\ start # "new"
  BY PortNames DEF BindFails
<1>1. LifeTypeOK'
  BY DEF LifeTypeOK, BindFails
<1>2. OrderInv'
  BY <1>0 DEF LifeTypeOK, OrderInv, BindFails
<1>3. ErrorInv' /\ OpenInv'
  BY DEF LifeTypeOK, ErrorInv, OpenInv, Closes, BindFails
<1>4. StopInv'
  BY <1>0 DEF StopInv, BindFails
<1> QED  BY <1>1, <1>2, <1>3, <1>4

LEMMA PublishStep ==
  ASSUME LifeInv, NEW p \in Ports, Publish(p)
  PROVE  LifeInv'
<1> USE DEF LifeInv
<1>0. /\ p # "none" /\ p # "new" /\ start' # "new" /\ "new" \notin Ports /\ "serve" \notin Ports
      /\ start' = "serve" \/ (start' \in Ports /\ Index(start') > Index(p))
      /\ \A q \in Ports : Index(q) \in 1..3
  BY PortNames, AfterIsLater DEF Publish
<1>1. LifeTypeOK'
  BY <1>0 DEF LifeTypeOK, Publish
<1>2. OrderInv'
  BY <1>0 DEF LifeTypeOK, OrderInv, Publish
<1>3. ErrorInv'
  BY <1>0 DEF LifeTypeOK, ErrorInv, OrderInv, Publish
<1>4. StopInv'
  BY <1>0 DEF StopInv, Publish
<1>5. OpenInv'
  BY <1>0 DEF LifeTypeOK, OpenInv, Closes, Publish
<1> QED  BY <1>1, <1>2, <1>3, <1>4, <1>5

\* Start's ways out.
LEMMA OutStep == LifeInv /\ (Stopped \/ Broken \/ Return) => LifeInv'
<1> SUFFICES ASSUME LifeInv, Stopped \/ Broken \/ Return PROVE LifeInv'
  OBVIOUS
<1> USE DEF LifeInv
<1>0. /\ start' \in {"done", "stopping"} /\ start' \notin Ports /\ start \notin Ports \cup {"new"}
      /\ UNCHANGED <<bound, sock, ln, stopCh, closed, stop, loop, faults, late>>
      /\ errs' \in Nat /\ (errs' > 0 => errs > 0)
  BY PortNames DEF LifeTypeOK, Stopped, Broken, Return
<1>1. LifeTypeOK'
  BY <1>0 DEF LifeTypeOK, Stopped, Broken, Return
<1>2. OrderInv'
  BY <1>0 DEF OrderInv, LifeTypeOK
<1>3. ErrorInv'
  BY <1>0 DEF LifeTypeOK, ErrorInv, Stopped, Broken, Return
<1>4. StopInv' /\ OpenInv'
  BY <1>0 DEF StopInv, OpenInv, Closes
<1> QED  BY <1>1, <1>2, <1>3, <1>4

------------------------------------------------------------------------------
(* Stop and the accept loops.                                              *)

LEMMA StopStep ==
  ASSUME LifeInv, NEW x \in Stoppers, Stop(x)
  PROVE  LifeInv'
<1> USE DEF LifeInv
<1>1. CASE closed
  <2>1. /\ stop' \in [Stoppers -> StopRec]
        /\ stop'[x].pc = "done" /\ stop'[x].saw = stop[x].saw /\ stop'[x].ch = stop[x].ch
        /\ stop[x].pc = "idle" /\ \A y \in Stoppers \ {x} : stop'[y] = stop[y]
        /\ UNCHANGED <<start, bound, result, sock, ln, stopCh, errs, loop, faults, closed, late>>
    BY <1>1 DEF Stop, Look, Calls, LifeTypeOK, StopRec
  <2>2. LifeTypeOK' /\ OrderInv' /\ ErrorInv'
    BY <2>1 DEF LifeTypeOK, OrderInv, ErrorInv
  <2>3. StopInv'
    BY <1>1, <2>1 DEF StopInv
  <2>4. \A p \in Ports : Closes(p) => Closes(p)'
    BY <2>1 DEF Closes
  <2> QED  BY <2>1, <2>2, <2>3, <2>4 DEF OpenInv
<1>2. CASE ~closed
  <2>1. /\ stop' \in [Stoppers -> StopRec]
        /\ stop'[x].pc = "closing" /\ stop'[x].saw = ln /\ (stop'[x].ch => stopCh # "nil")
        /\ \A y \in Stoppers \ {x} : stop'[y] = stop[y]
        /\ UNCHANGED <<start, bound, result, sock, ln, stopCh, errs, loop, faults>>
        /\ closed' = TRUE
        /\ late' = IF bound # "none" THEN late \cup {bound} ELSE late
    <3>1. PICK b \in BOOLEAN : /\ b => stopCh # "nil"
                               /\ stop' = [stop EXCEPT ![x] = [pc |-> "closing", saw |-> ln, ch |-> b]]
      BY <1>2, Zenon DEF Stop, Look
    <3> QED  BY <1>2, <3>1 DEF Stop, Look, LifeTypeOK, StopRec
  <2>2. LifeTypeOK' /\ OrderInv' /\ ErrorInv'
    BY <2>1 DEF LifeTypeOK, OrderInv, ErrorInv
  <2>3. StopInv'
    BY <1>2, <2>1 DEF StopInv
  <2>4. OpenInv'
    BY <2>1, PortNames DEF OpenInv, Closes
  <2> QED  BY <2>2, <2>3, <2>4
<1> QED  BY <1>1, <1>2

LEMMA StopCloseStep ==
  ASSUME LifeInv, NEW x \in Stoppers, NEW p \in Ports, StopClose(x, p)
  PROVE  LifeInv'
<1> USE DEF LifeInv
<1>1. /\ stop' \in [Stoppers -> StopRec]
      /\ stop[x].pc = "closing" /\ stop'[x].pc = "closing" /\ stop'[x].saw = stop[x].saw \ {p}
      /\ stop'[x].ch = stop[x].ch /\ p \in stop[x].saw
      /\ \A y \in Stoppers \ {x} : stop'[y] = stop[y]
      /\ UNCHANGED <<start, bound, result, ln, stopCh, errs, closed, loop, faults, late>>
      /\ sock' \in [Ports -> {"none", "open", "closed"}] /\ sock'[p] = "closed"
      /\ \A q \in Ports \ {p} : sock'[q] = sock[q]
  BY DEF StopClose, LifeTypeOK, StopRec
<1>2. closed /\ p \in ln
  BY <1>1 DEF StopInv
<1>3. LifeTypeOK' /\ ErrorInv'
  BY <1>1, <1>2 DEF LifeTypeOK, ErrorInv
<1>4. OrderInv'
  <2>1. bound # p
    BY <1>2, PortNames DEF OrderInv
  <2> QED  BY <1>1, <2>1 DEF LifeTypeOK, OrderInv
<1>5. StopInv'
  BY <1>1, <1>2 DEF StopInv
<1>6. \A q \in Ports \ {p} : Closes(q) => Closes(q)'
  BY <1>1 DEF Closes
<1>7. OpenInv'
  BY <1>1, <1>6 DEF OpenInv
<1> QED  BY <1>3, <1>4, <1>5, <1>7

LEMMA StopEndStep ==
  ASSUME LifeInv, NEW x \in Stoppers, StopEnd(x)
  PROVE  LifeInv'
<1> USE DEF LifeInv
<1>1. /\ stop' \in [Stoppers -> StopRec]
      /\ stop[x].pc = "closing" /\ stop'[x].pc = "done" /\ stop[x].saw = {} /\ stop'[x].saw = {}
      /\ stop'[x].ch = stop[x].ch
      /\ \A y \in Stoppers \ {x} : stop'[y] = stop[y]
      /\ UNCHANGED <<start, bound, result, ln, errs, closed, loop, faults, late, sock>>
      /\ stopCh' = IF stop[x].ch THEN "closed" ELSE stopCh
  BY DEF StopEnd, LifeTypeOK, StopRec
<1>2. LifeTypeOK' /\ ErrorInv' /\ OrderInv'
  BY <1>1 DEF LifeTypeOK, ErrorInv, OrderInv
<1>3. StopInv'
  BY <1>1 DEF StopInv
<1>4. \A q \in Ports : Closes(q) => Closes(q)'
  BY <1>1 DEF Closes
<1> QED  BY <1>1, <1>2, <1>3, <1>4 DEF OpenInv

LEMMA AcceptFailsStep ==
  ASSUME LifeInv, NEW p \in Ports, AcceptFails(p)
  PROVE  LifeInv'
<1> USE DEF LifeInv
<1>0. bound # p
  BY PortNames DEF AcceptFails, OrderInv
<1>1. LifeTypeOK'
  BY DEF LifeTypeOK, AcceptFails, fatalAccept
<1>2. OrderInv'
  BY <1>0 DEF LifeTypeOK, OrderInv, AcceptFails
<1>3. ErrorInv'
  <2>1. errs' > 0 => faults' > 0
    BY DEF LifeTypeOK, ErrorInv, AcceptFails, fatalAccept
  <2>2. result' = "error" => faults' > 0
    BY DEF LifeTypeOK, ErrorInv, AcceptFails
  <2>3. \A q \in Ports : loop'[q] = "on" /\ sock'[q] = "closed" => closed'
    BY DEF LifeTypeOK, ErrorInv, AcceptFails
  <2> QED  BY <2>1, <2>2, <2>3 DEF ErrorInv
<1>4. StopInv'
  BY DEF StopInv, AcceptFails
<1>5. OpenInv'
  BY DEF LifeTypeOK, OpenInv, Closes, AcceptFails
<1> QED  BY <1>1, <1>2, <1>3, <1>4, <1>5

LEMMA LifeUnchanged == LifeInv /\ UNCHANGED life => LifeInv'
BY DEF life, LifeInv, LifeTypeOK, OrderInv, ErrorInv, StopInv, OpenInv, Closes

------------------------------------------------------------------------------
(* The handlers.                                                           *)

RelaySides == {"client", "remote"}
ConnRec == [pc : {"none", "parse", "dial", "udp", "find", "create", "add", "relay", "end"},
            port : Ports \cup {"none"}, proxy : Proxies \cup {"none"}, ref : Nat,
            copies : SUBSET ({"copy", "close"} \X RelaySides)]

HandlerTypeOK ==
    conn \in [Conns -> ConnRec] /\ stats \in [Proxies -> Nat] /\ count \in Seq(Int)

\* What a handler holds at each stage: an end that is still open has a copier
\* that will close it, and the counter it is about to add to is the one
\* RemoveConnection will find by name.
ConnAt(c) ==
    /\ conn[c].pc \in {"dial", "find", "create", "add", "relay"} => conn[c].proxy \in Proxies
    /\ conn[c].pc \in {"none", "parse", "dial"} => <<"remote", c>> \notin open
    /\ conn[c].pc \notin {"relay", "end"} => conn[c].copies = {}
    /\ conn[c].pc \in {"relay", "end"} =>
          \A to \in RelaySides : <<"close", to>> \notin conn[c].copies => <<to, c>> \notin open
    /\ conn[c].pc = "add" => conn[c].ref = stats[conn[c].proxy] /\ conn[c].ref # 0
    /\ conn[c].pc = "relay" => stats[conn[c].proxy] # 0

\* The handlers that relay through a proxy, and the number it is shown with.
Relaying(p) == {c \in Conns : conn[c].pc = "relay" /\ conn[c].proxy = p}
Shown(p) == IF stats[p] = 0 THEN 0 ELSE count[stats[p]]

\* A name has at most one counter, a counter at most one name.
CounterInv ==
    /\ \A p \in Proxies : stats[p] \in 0..Len(count)
    /\ \A p, q \in Proxies : stats[p] = stats[q] /\ stats[p] # 0 => p = q
    /\ \A p \in Proxies : Shown(p) = Cardinality(Relaying(p))

HandlerInv == HandlerTypeOK /\ (\A c \in Conns : ConnAt(c)) /\ CounterInv

LEMMA RelayingFinite ==
  \A p : IsFiniteSet(Relaying(p)) /\ Cardinality(Relaying(p)) \in Nat
<1> TAKE p
<1>1. IsFiniteSet(Relaying(p))
  BY ListenerAssumption, FS_Subset DEF Relaying
<1> QED  BY <1>1, FS_CardinalityType

LEMMA HandlerInitInv == ListenInit => HandlerInv
<1> SUFFICES ASSUME ListenInit PROVE HandlerInv
  OBVIOUS
<1>1. HandlerTypeOK
  BY DEF ListenInit, HandlerTypeOK, ConnRec, NoConn
<1>2. \A c \in Conns : ConnAt(c)
  BY DEF ListenInit, ConnAt, NoConn
<1>3. CounterInv
  <2>1. \A p : Relaying(p) = {}
    BY DEF ListenInit, Relaying, NoConn
  <2>2. \A p : Cardinality(Relaying(p)) = 0
    BY <2>1, FS_EmptySet
  <2> QED  BY <2>2 DEF ListenInit, CounterInv, Shown
<1> QED  BY <1>1, <1>2, <1>3 DEF HandlerInv

\* A handler's step changes its own record only.
LEMMA StepEffect ==
  ASSUME HandlerTypeOK, NEW c \in Conns, NEW r \in ConnRec, Step(c, r)
  PROVE  /\ conn' \in [Conns -> ConnRec] /\ conn'[c] = r
         /\ \A d \in Conns \ {c} : conn'[d] = conn[d]
BY DEF HandlerTypeOK, Step

\* The other handlers are where they were.
LEMMA ConnElsewhere ==
  ASSUME NEW d, ConnAt(d), conn'[d] = conn[d],
         \A to \in RelaySides : <<to, d>> \in open' => <<to, d>> \in open,
         \A x \in Proxies : stats[x] # 0 => stats'[x] = stats[x]
  PROVE  ConnAt(d)'
BY DEF ConnAt, RelaySides

\* A step that neither joins nor leaves those that relay, and does not touch
\* the statistics.
LEMMA QuietStep ==
  ASSUME HandlerInv, NEW c \in Conns, NEW r \in ConnRec, Step(c, r),
         UNCHANGED <<stats, count>>,
         conn[c].pc = "relay" <=> r.pc = "relay", conn[c].proxy = r.proxy \/ r.pc # "relay",
         \A d \in Conns \ {c} : \A to \in RelaySides : <<to, d>> \in open' => <<to, d>> \in open,
         ConnAt(c)'
  PROVE  HandlerInv'
<1> USE DEF HandlerInv
<1>1. HandlerTypeOK'
  BY StepEffect DEF HandlerTypeOK
<1>2. \A d \in Conns : ConnAt(d)'
  BY StepEffect, ConnElsewhere
<1>3. \A p : Relaying(p)' = Relaying(p)
  BY StepEffect DEF Relaying
<1>4. CounterInv'
  BY <1>3 DEF CounterInv, Shown
<1> QED  BY <1>1, <1>2, <1>4

LEMMA AtRec ==
  ASSUME HandlerTypeOK, NEW c \in Conns,
         NEW s \in {"parse", "dial", "udp", "find", "create", "add", "relay", "end"}
  PROVE  /\ At(c, s) \in ConnRec /\ At(c, s).pc = s
         /\ At(c, s).proxy = conn[c].proxy /\ At(c, s).copies = conn[c].copies
         /\ At(c, s).port = conn[c].port /\ At(c, s).ref = conn[c].ref
<1> DEFINE r == conn[c]
<1>1. r \in ConnRec
  BY DEF HandlerTypeOK
<1>2. At(c, s) = [r EXCEPT !.pc = s]
  BY DEF At
<1> HIDE DEF r
<1>3. /\ [r EXCEPT !.pc = s] \in ConnRec /\ [r EXCEPT !.pc = s].pc = s
      /\ [r EXCEPT !.pc = s].proxy = r.proxy /\ [r EXCEPT !.pc = s].copies = r.copies
      /\ [r EXCEPT !.pc = s].port = r.port /\ [r EXCEPT !.pc = s].ref = r.ref
  BY <1>1 DEF ConnRec
<1> QED  BY <1>2, <1>3 DEF r

LEMMA AcceptStep ==
  ASSUME HandlerInv, NEW c \in Conns, NEW p \in Ports, Accept(p, c)
  PROVE  HandlerInv'
<1> DEFINE r == [[NoConn EXCEPT !.pc = "parse"] EXCEPT !.port = p]
<1>1. r \in ConnRec /\ r.pc = "parse" /\ r.copies = {}
  BY DEF NoConn, ConnRec
<1>2. Step(c, r)
  BY DEF Accept, Step
<1> HIDE DEF r
<1>3. ConnAt(c)'
  BY <1>1, <1>2, StepEffect DEF HandlerInv, ConnAt, Accept
<1> QED  BY <1>1, <1>2, <1>3, QuietStep DEF Accept

LEMMA EndStep ==
  ASSUME HandlerInv, NEW c \in Conns, Refuse(c) \/ Disassociate(c)
  PROVE  HandlerInv'
<1> DEFINE r == At(c, "end")
<1>1. r \in ConnRec /\ r.pc = "end" /\ r.copies = {}
  BY AtRec DEF HandlerInv, ConnAt, Refuse, Disassociate
<1>2. Step(c, r) /\ UNCHANGED <<stats, count>>
  BY DEF Refuse, Disassociate, End
<1> HIDE DEF r
<1>3. open' \subseteq open /\ \A to \in RelaySides : <<to, c>> \notin open'
  BY DEF HandlerInv, ConnAt, Refuse, Disassociate, End, RelaySides
<1>4. ConnAt(c)'
  BY <1>1, <1>2, <1>3, StepEffect DEF HandlerInv, ConnAt
<1>5. conn[c].pc # "relay"
  BY DEF Refuse, Disassociate
<1> QED  BY <1>1, <1>2, <1>3, <1>4, <1>5, QuietStep

LEMMA PickedStep ==
  ASSUME HandlerInv, NEW c \in Conns, NEW p, NEW proxy \in Proxies, Picked(c, p, proxy)
  PROVE  HandlerInv'
<1> DEFINE q == At(c, "dial")
           r == [q EXCEPT !.proxy = proxy]
<1>1. q \in ConnRec /\ q.pc = "dial" /\ q.copies = {}
  BY AtRec DEF HandlerInv, ConnAt, Picked
<1>2. Step(c, r)
  BY DEF Picked
<1> HIDE DEF q
<1>3. r \in ConnRec /\ r.pc = "dial" /\ r.copies = {} /\ r.proxy = proxy
  BY <1>1 DEF ConnRec
<1> HIDE DEF r
<1>4. ConnAt(c)'
  BY <1>2, <1>3, StepEffect DEF HandlerInv, ConnAt, Picked
<1> QED  BY <1>2, <1>3, <1>4, QuietStep DEF Picked

\* A socket of its own: UDP ASSOCIATE, or the connection to the proxy.
LEMMA DialledStep ==
  ASSUME HandlerInv, NEW c \in Conns, Associate(c) \/ Connected(c)
  PROVE  HandlerInv'
<1>1. PICK s \in {"udp", "find"} : /\ Step(c, At(c, s))
                                   /\ s = "find" => conn[c].proxy \in Proxies
  BY DEF Associate, Connected, HandlerInv, ConnAt
<1> DEFINE r == At(c, s)
<1>2. r \in ConnRec /\ r.pc = s /\ r.copies = {} /\ r.proxy = conn[c].proxy
  <2>1. conn[c].copies = {}
    BY DEF HandlerInv, ConnAt, Associate, Connected
  <2> QED  BY <2>1, AtRec DEF HandlerInv
<1> HIDE DEF r
<1>3. ConnAt(c)'
  BY <1>1, <1>2, StepEffect DEF HandlerInv, ConnAt, r
<1>4. /\ conn[c].pc # "relay" /\ UNCHANGED <<stats, count>>
      /\ \A d \in Conns \ {c} : \A to \in RelaySides : <<to, d>> \in open' => <<to, d>> \in open
  BY DEF Associate, Connected
<1> QED  BY <1>1, <1>2, <1>3, <1>4, QuietStep DEF r

LEMMA FindStep ==
  ASSUME HandlerInv, NEW c \in Conns, Find(c)
  PROVE  HandlerInv'
<1> DEFINE n == stats[conn[c].proxy]
           s == IF n = 0 THEN "create" ELSE "add"
           q == At(c, s)
           r == [q EXCEPT !.ref = n]
<1>1. /\ q \in ConnRec /\ q.pc = s /\ q.copies = {} /\ q.proxy = conn[c].proxy
      /\ conn[c].proxy \in Proxies /\ n \in Nat
  BY AtRec DEF HandlerInv, HandlerTypeOK, ConnAt, Find
<1>2. Step(c, r) /\ UNCHANGED <<open, stats, count>> /\ conn[c].pc = "find"
  BY DEF Find
<1> HIDE DEF q
<1>3. r \in ConnRec /\ r.pc = s /\ r.copies = {} /\ r.proxy = conn[c].proxy /\ r.ref = n
  BY <1>1 DEF ConnRec
<1> HIDE DEF r
<1>4. ConnAt(c)'
  BY <1>1, <1>2, <1>3, StepEffect DEF HandlerInv, ConnAt
<1> QED  BY <1>1, <1>2, <1>3, <1>4, QuietStep

\* The one that comes first creates the counter; the second look under the
\* write lock keeps a later one from replacing it.
LEMMA CreateStep ==
  ASSUME HandlerInv, NEW c \in Conns, Create(c)
  PROVE  HandlerInv'
<1> USE DEF HandlerInv
<1>0. PICK p \in Proxies : p = conn[c].proxy
  BY DEF ConnAt, Create
<1>1. stats[p] \in Nat /\ stats[p] \in 0..Len(count) /\ count \in Seq(Int) /\ Len(count) \in Nat
  BY DEF HandlerTypeOK, CounterInv
<1>2. /\ stats' \in [Proxies -> Nat] /\ count' \in Seq(Int) /\ stats'[p] # 0
      /\ \A x \in Proxies \ {p} : stats'[x] = stats[x]
      /\ stats[p] # 0 => stats' = stats /\ count' = count
      /\ stats[p] = 0 => count' = Append(count, 0) /\ stats'[p] = Len(count) + 1
  <2>1. CASE stats[p] # 0
    BY <1>0, <1>1, <2>1 DEF Create, HandlerTypeOK
  <2>2. CASE stats[p] = 0
    <3>1. count' = Append(count, 0) /\ stats' = [stats EXCEPT ![p] = Len(count')]
      BY <1>0, <2>2 DEF Create
    <3>2. Len(count') = Len(count) + 1 /\ count' \in Seq(Int)
      BY <1>1, <3>1
    <3> QED  BY <1>1, <2>2, <3>1, <3>2 DEF HandlerTypeOK
  <2> QED  BY <2>1, <2>2
<1>3. PICK q \in ConnRec : /\ q.pc = "add" /\ q.copies = {} /\ q.proxy = p
                           /\ Step(c, [q EXCEPT !.ref = stats'[p]])
  <2>1. At(c, "add") \in ConnRec /\ At(c, "add").pc = "add" /\ At(c, "add").proxy = p
    BY <1>0, AtRec
  <2>2. At(c, "add").copies = {} /\ Step(c, [At(c, "add") EXCEPT !.ref = stats'[p]])
    BY <1>0, AtRec DEF Create, ConnAt
  <2> QED  BY <2>1, <2>2
<1>4. PICK r \in ConnRec : /\ r.pc = "add" /\ r.copies = {} /\ r.proxy = p /\ r.ref = stats'[p]
                           /\ Step(c, r)
  <2> DEFINE r == [q EXCEPT !.ref = stats'[p]]
  <2>1. r \in ConnRec /\ r.pc = "add" /\ r.copies = {} /\ r.proxy = p /\ r.ref = stats'[p]
    BY <1>2, <1>3 DEF ConnRec
  <2> HIDE DEF r
  <2> QED  BY <1>3, <2>1 DEF r
<1>5. HandlerTypeOK'
  BY <1>2, <1>4, StepEffect DEF HandlerTypeOK
<1>6. \A d \in Conns : ConnAt(d)'
  <2>0. UNCHANGED open /\ \A x \in Proxies : stats[x] # 0 => stats'[x] = stats[x]
    BY <1>2 DEF Create
  <2>1. ConnAt(c)'
    BY <1>2, <1>4, StepEffect DEF ConnAt
  <2> QED  BY <1>4, <2>0, <2>1, StepEffect, ConnElsewhere
<1>7. \A x : Relaying(x)' = Relaying(x)
  BY <1>4, StepEffect DEF Relaying, Create
<1>8. CounterInv'
  <2>1. CASE stats[p] # 0
    BY <1>2, <1>7, <2>1 DEF CounterInv, Shown
  <2>2. CASE stats[p] = 0
    <3>1. /\ Len(count') = Len(count) + 1 /\ count'[Len(count) + 1] = 0
          /\ \A i \in 1..Len(count) : count'[i] = count[i]
      BY <1>1, <1>2, <2>2
    <3>2. \A x \in Proxies : stats[x] \in 0..Len(count)
      BY DEF CounterInv
    <3>3. \A x \in Proxies : stats'[x] \in 0..Len(count')
      BY <1>1, <1>2, <2>2, <3>1, <3>2
    <3>4. \A x, y \in Proxies : stats'[x] = stats'[y] /\ stats'[x] # 0 => x = y
      BY <1>1, <1>2, <2>2, <3>2 DEF CounterInv
    <3>5. \A x \in Proxies : Shown(x)' = Shown(x)
      BY <1>1, <1>2, <2>2, <3>1, <3>2 DEF Shown
    <3> QED  BY <1>7, <3>3, <3>4, <3>5 DEF CounterInv
  <2> QED  BY <2>1, <2>2
<1> QED  BY <1>5, <1>6, <1>8

\* One more, or one less, in the counter of a proxy and among its handlers.
LEMMA CountStep ==
  ASSUME HandlerInv, NEW p \in Proxies, NEW n \in Int, stats[p] # 0, UNCHANGED stats,
         count' = [count EXCEPT ![stats[p]] = @ + n],
         Cardinality(Relaying(p)') = Cardinality(Relaying(p)) + n,
         \A x \in Proxies \ {p} : Relaying(x)' = Relaying(x)
  PROVE  count' \in Seq(Int) /\ CounterInv'
<1> USE DEF HandlerInv
<1>1. stats[p] \in 1..Len(count) /\ count \in Seq(Int)
  BY DEF HandlerTypeOK, CounterInv
<1>2. /\ count' \in Seq(Int) /\ Len(count') = Len(count)
      /\ \A i \in 1..Len(count) : count'[i] = IF i = stats[p] THEN count[i] + n ELSE count[i]
  BY <1>1
<1>3. Shown(p)' = Shown(p) + n
  BY <1>1, <1>2 DEF Shown
<1>4. ASSUME NEW x \in Proxies \ {p} PROVE Shown(x)' = Shown(x)
  BY <1>1, <1>2 DEF CounterInv, Shown
<1>5. \A x \in Proxies : Shown(x)' = Cardinality(Relaying(x)')
  BY <1>3, <1>4 DEF CounterInv
<1> QED  BY <1>2, <1>5 DEF CounterInv

LEMMA AddConnectionStep ==
  ASSUME HandlerInv, NEW c \in Conns, AddConnection(c)
  PROVE  HandlerInv'
<1> USE DEF HandlerInv
<1>0. PICK p \in Proxies : p = conn[c].proxy /\ conn[c].ref = stats[p] /\ stats[p] # 0
  BY DEF ConnAt, AddConnection
<1>1. PICK q \in ConnRec :
         /\ q.pc = "relay" /\ q.proxy = p
         /\ Step(c, [q EXCEPT !.copies = {"copy", "close"} \X {"client", "remote"}])
  <2>1. At(c, "relay") \in ConnRec /\ At(c, "relay").pc = "relay" /\ At(c, "relay").proxy = p
    BY <1>0, AtRec
  <2> QED  BY <2>1 DEF AddConnection
<1>2. PICK r \in ConnRec : /\ r.pc = "relay" /\ r.proxy = p
                           /\ r.copies = {"copy", "close"} \X RelaySides /\ Step(c, r)
  <2> DEFINE r == [q EXCEPT !.copies = {"copy", "close"} \X {"client", "remote"}]
  <2>1. /\ r \in ConnRec /\ r.pc = "relay" /\ r.proxy = p
        /\ r.copies = {"copy", "close"} \X RelaySides
    BY <1>1 DEF ConnRec, RelaySides
  <2> HIDE DEF r
  <2> QED  BY <1>1, <2>1 DEF r
<1>3. /\ UNCHANGED <<open, stats>> /\ count' = [count EXCEPT ![stats[p]] = @ + 1]
      /\ conn[c].pc = "add"
  BY <1>0 DEF AddConnection
<1>4. c \notin Relaying(p) /\ Relaying(p)' = Relaying(p) \cup {c}
  BY <1>2, <1>3, StepEffect DEF Relaying
<1>5. Cardinality(Relaying(p)') = Cardinality(Relaying(p)) + 1
  BY <1>4, RelayingFinite, FS_AddElement
<1>6. \A x \in Proxies \ {p} : Relaying(x)' = Relaying(x)
  BY <1>2, <1>3, StepEffect DEF Relaying
<1>7. count' \in Seq(Int) /\ CounterInv'
  <2> HIDE DEF HandlerInv
  <2>1. 1 \in Int
    OBVIOUS
  <2> QED  BY <1>0, <1>3, <1>5, <1>6, <2>1, CountStep, Zenon
<1>8. HandlerTypeOK'
  BY <1>2, <1>3, <1>7, StepEffect DEF HandlerTypeOK
<1>9. \A d \in Conns : ConnAt(d)'
  <2>1. ConnAt(c)'
    BY <1>0, <1>2, <1>3, StepEffect DEF ConnAt
  <2> QED  BY <1>2, <1>3, <2>1, StepEffect, ConnElsewhere
<1> QED  BY <1>7, <1>8, <1>9

LEMMA RemoveConnectionStep ==
  ASSUME HandlerInv, NEW c \in Conns, RemoveConnection(c)
  PROVE  HandlerInv'
<1> USE DEF HandlerInv
<1>0. PICK p \in Proxies : p = conn[c].proxy /\ stats[p] # 0
  BY DEF ConnAt, RemoveConnection
<1>1. PICK r \in ConnRec : r.pc = "end" /\ r.copies = conn[c].copies /\ Step(c, r)
  BY AtRec DEF RemoveConnection
<1>2. /\ UNCHANGED stats /\ count' = [count EXCEPT ![stats[p]] = @ - 1]
      /\ open' \subseteq open /\ conn[c].pc = "relay"
  BY <1>0 DEF RemoveConnection
<1>3. c \in Relaying(p) /\ Relaying(p)' = Relaying(p) \ {c}
  BY <1>0, <1>1, <1>2, StepEffect DEF Relaying
<1>4. Cardinality(Relaying(p)') = Cardinality(Relaying(p)) + (-1)
  BY <1>3, RelayingFinite, FS_RemoveElement
<1>5. \A x \in Proxies \ {p} : Relaying(x)' = Relaying(x)
  BY <1>0, <1>1, <1>2, StepEffect DEF Relaying
<1>6. count' = [count EXCEPT ![stats[p]] = @ + (-1)]
  BY <1>0, <1>2 DEF HandlerTypeOK, CounterInv
<1>7. count' \in Seq(Int) /\ CounterInv'
  <2> HIDE DEF HandlerInv
  <2>1. -1 \in Int
    OBVIOUS
  <2> QED  BY <1>0, <1>2, <1>4, <1>5, <1>6, <2>1, CountStep, Zenon
<1>8. HandlerTypeOK'
  BY <1>1, <1>2, <1>7, StepEffect DEF HandlerTypeOK
<1>9. \A d \in Conns : ConnAt(d)'
  <2>1. ConnAt(c)'
    BY <1>1, <1>2, StepEffect DEF ConnAt
  <2> QED  BY <1>1, <1>2, <2>1, StepEffect, ConnElsewhere
<1> QED  BY <1>7, <1>8, <1>9

\* The two copiers outlive the handler; each closes the end it wrote to.
LEMMA CopierStep ==
  ASSUME HandlerInv, NEW c \in Conns, NEW to \in RelaySides, CopyEnds(c, to) \/ CopyCloses(c, to)
  PROVE  HandlerInv'
<1> USE DEF HandlerInv
<1>1. PICK k \in {"copy", "close"} :
         /\ <<k, to>> \in conn[c].copies
         /\ Step(c, [conn[c] EXCEPT !.copies = @ \ {<<k, to>>}])
         /\ k = "copy" => open' = open
         /\ k = "close" => open' = open \ {<<to, c>>}
  BY DEF CopyEnds, CopyCloses
<1> DEFINE q == conn[c]
           r == [q EXCEPT !.copies = @ \ {<<k, to>>}]
<1>2. q \in ConnRec /\ q.pc \in {"relay", "end"}
  BY <1>1 DEF HandlerTypeOK, ConnAt
<1>3. Step(c, r) /\ UNCHANGED <<stats, count>>
  BY <1>1 DEF CopyEnds, CopyCloses
<1> HIDE DEF q
<1>4. r \in ConnRec /\ r.pc = q.pc /\ r.proxy = q.proxy /\ r.copies = q.copies \ {<<k, to>>}
  BY <1>2 DEF ConnRec
<1> HIDE DEF r
<1>5. ConnAt(c)'
  BY <1>1, <1>2, <1>3, <1>4, StepEffect DEF ConnAt, RelaySides, q
<1> QED  BY <1>1, <1>3, <1>4, <1>5, QuietStep DEF q

LEMMA HandlerUnchanged == HandlerInv /\ UNCHANGED handling => HandlerInv'
BY DEF handling, HandlerInv, HandlerTypeOK, ConnAt, CounterInv, Shown, Relaying

------------------------------------------------------------------------------
\* LifeInv and HandlerInv hold in every state the listener reaches, for every
\* set of ports and every finite set of connections.
THEOREM ListenerInvariant == ListenSpec => [](LifeInv /\ HandlerInv)
<1>1. LifeInv /\ HandlerInv /\ [ListenNext]_listenVars => (LifeInv /\ HandlerInv)'
  <2> SUFFICES ASSUME LifeInv, HandlerInv, [ListenNext]_listenVars
               PROVE  LifeInv' /\ HandlerInv'
    OBVIOUS
  <2>1. CASE UNCHANGED listenVars
    BY <2>1, LifeUnchanged, HandlerUnchanged DEF listenVars, life, handling
  <2>2. CASE Start \/ Stopped \/ Broken \/ Return
    BY <2>2, StartStep, OutStep, HandlerUnchanged DEF Start, Stopped, Broken, Return
  <2>3. ASSUME NEW p \in Ports, Bind(p) \/ BindFails(p) \/ Publish(p) \/ AcceptFails(p)
        PROVE  LifeInv' /\ HandlerInv'
    <3>1. LifeInv'
      BY <2>3, BindStep, BindFailsStep, PublishStep, AcceptFailsStep
    <3> QED  BY <2>3, <3>1, HandlerUnchanged DEF Bind, BindFails, Publish, AcceptFails
  <2>4. ASSUME NEW x \in Stoppers, Stop(x) \/ StopEnd(x) \/ (\E p \in Ports : StopClose(x, p))
        PROVE  LifeInv' /\ HandlerInv'
    <3>1. LifeInv'
      BY <2>4, StopStep, StopEndStep, StopCloseStep
    <3> QED  BY <2>4, <3>1, HandlerUnchanged DEF Stop, Look, StopEnd, StopClose
  <2>5. ASSUME NEW c \in Conns, serveHTTP(c) \/ serveSOCKS5(c) \/ serveTProxy(c)
        PROVE  LifeInv' /\ HandlerInv'
    <3>1. PICK p \in Ports : Accept(p, c)
      BY <2>5 DEF serveHTTP, serveSOCKS5, serveTProxy, Accept
    <3> QED  BY <3>1, AcceptStep, LifeUnchanged DEF Accept
  <2>6. ASSUME NEW c \in Conns,
               \/ Refuse(c) \/ Associate(c) \/ Disassociate(c) \/ Connected(c)
               \/ Find(c) \/ Create(c) \/ AddConnection(c) \/ RemoveConnection(c)
        PROVE  LifeInv' /\ HandlerInv'
    <3>1. HandlerInv'
      BY <2>6, EndStep, DialledStep, FindStep, CreateStep, AddConnectionStep, RemoveConnectionStep
    <3>2. UNCHANGED life
      BY <2>6 DEF Refuse, Disassociate, End, Associate, Connected, Find, Create, AddConnection,
         RemoveConnection
    <3> QED  BY <3>1, <3>2, LifeUnchanged
  <2>7. ASSUME NEW c \in Conns, NEW proxy \in Proxies,
               handleHTTP(c, proxy) \/ socksConnect(c, proxy) \/ handleTProxy(c, proxy)
        PROVE  LifeInv' /\ HandlerInv'
    <3>1. PICK p \in {"http", "socks", "tproxy"} : Picked(c, p, proxy)
      BY <2>7 DEF handleHTTP, socksConnect, handleTProxy
    <3> QED  BY <3>1, PickedStep, LifeUnchanged DEF Picked
  <2>8. ASSUME NEW c \in Conns, NEW to \in {"client", "remote"}, CopyEnds(c, to) \/ CopyCloses(c, to)
        PROVE  LifeInv' /\ HandlerInv'
    BY <2>8, CopierStep, LifeUnchanged DEF CopyEnds, CopyCloses, RelaySides
  <2> QED  BY <2>1, <2>2, <2>3, <2>4, <2>5, <2>6, <2>7, <2>8 DEF ListenNext
<1> QED  BY LifeInitInv, HandlerInitInv, <1>1, PTL DEF ListenSpec

\* For every finite set of ports and any bound on the faults, and the two callers of
\* Stop that the code has, the watcher of the context and Start itself:
\* HTTPListener.Start reports an error only if a bind or an accept failed, whatever
\* the watcher does meanwhile; what is open after the calls of Stop was published
\* late; and a watcher's Stop that saw the channel ends Start's wait.
THEOREM AlwaysStopsCleanly == ListenSpec => []CleanStop
<1>1. ASSUME LifeInv PROVE CleanStop
  <2>1. result = "error" => faults > 0
    BY <1>1 DEF LifeInv, ErrorInv
  <2>2. ASSUME stop["watcher"].pc = "done", stop["start"].pc # "closing"
        PROVE  \A p \in Ports : sock[p] = "open" => p \in late
    <3>1. closed /\ \A p \in Ports : ~Closes(p)
      BY <1>1, <2>2 DEF LifeInv, StopInv, Closes, Stoppers
    <3> QED  BY <1>1, <3>1 DEF LifeInv, OpenInv
  <2>3. stop["watcher"].pc = "done" /\ stopCh # "closed" => ~stop["watcher"].ch
    BY <1>1 DEF LifeInv, StopInv, Stoppers
  <2> QED  BY <2>1, <2>2, <2>3 DEF CleanStop
<1> QED  BY ListenerInvariant, <1>1, PTL

\* The number StatsTracker shows for a proxy is the number of handlers that
\* relay through it, and a handler that is over, with its copiers, left no end
\* of its connection open.
THEOREM AccountsAlwaysBalance == ListenSpec => []AccountsBalance
<1>1. ASSUME HandlerInv PROVE AccountsBalance
  <2>1. ASSUME NEW p \in Proxies
        PROVE  (IF stats[p] = 0 THEN 0 ELSE count[stats[p]])
                 = Cardinality({c \in Conns : conn[c].pc = "relay" /\ conn[c].proxy = p})
    BY <1>1 DEF HandlerInv, CounterInv, Shown, Relaying
  <2>2. ASSUME NEW c \in Conns, conn[c].pc = "end", conn[c].copies = {}
        PROVE  open \cap {<<"client", c>>, <<"remote", c>>} = {}
    BY <1>1, <2>2 DEF HandlerInv, ConnAt, RelaySides
  <2> QED  BY <2>1, <2>2 DEF AccountsBalance
<1> QED  BY ListenerInvariant, <1>1, PTL

------------------------------------------------------------------------------
(* Handshakes.                                                             *)

ScriptStep == {"send", "recv", "try", "some", "close", "drop"} \X Nat

\* No script has more than nine steps.
IsScript(t) == t \in Seq(ScriptStep) /\ Len(t) \in 0..9

\* A read whose error is ignored is a read.
Kind(x) == IF x[1] = "try" THEN "recv" ELSE x[1]

\* The bytes that the steps of one kind before the i-th ask for, term by term.
Part(t, op, i, j) == IF j < i /\ Kind(t[j]) = op THEN t[j][2] ELSE 0

Three(t, op, i, j) == Part(t, op, i, j) + Part(t, op, i, j + 1) + Part(t, op, i, j + 2)

Bytes(t, op, i) == Three(t, op, i, 1) + Three(t, op, i, 4) + Three(t, op, i, 7)

Total(t, op) == Bytes(t, op, Len(t) + 1)

\* A script that can be followed to its end.
Ends(t) == Len(t) > 0 => t[Len(t)][1] \notin {"close", "drop"}

LEMMA StepIs ==
  ASSUME NEW t, IsScript(t), NEW i \in DOMAIN t
  PROVE  i \in 1..9 /\ t[i] \in ScriptStep /\ t[i][2] \in Nat
<1> DEFINE n == Len(t)
<1>1. n \in 0..9
  BY DEF IsScript
<1>3. i \in 1..n /\ t[i] \in ScriptStep
  BY DEF IsScript
<1> HIDE DEF n
<1>2. i \in 1..9
  BY <1>1, <1>3
<1> QED  BY <1>2, <1>3 DEF ScriptStep

LEMMA Before ==
  ASSUME NEW t, IsScript(t), NEW i \in DOMAIN t, NEW j \in Nat \ {0}, j < i
  PROVE  j \in DOMAIN t
<1> DEFINE n == Len(t)
<1>1. n \in Nat /\ i \in 1..n /\ DOMAIN t = 1..n
  BY DEF IsScript
<1> HIDE DEF n
<1> QED  BY <1>1

\* Of the steps j to k it is the i-th that moves what it says, if any does.
Moved(t, op, i, j, k) == IF i \in j..k /\ Kind(t[i]) = op THEN t[i][2] ELSE 0

LEMMA PartStep ==
  ASSUME NEW t, IsScript(t), NEW op, NEW i \in DOMAIN t, NEW j \in 1..9
  PROVE  /\ Part(t, op, i, j) \in Nat /\ Part(t, op, i + 1, j) \in Nat
         /\ Moved(t, op, i, j, j) \in Nat
         /\ Part(t, op, i + 1, j) = Part(t, op, i, j) + Moved(t, op, i, j, j)
<1>1. i \in 1..9 /\ t[i][2] \in Nat
  BY StepIs
<1>2. j < i => t[j][2] \in Nat
  BY StepIs, Before
<1> QED
  BY <1>1, <1>2 DEF Part, Moved

LEMMA ThreeStep ==
  ASSUME NEW t, IsScript(t), NEW op, NEW i \in DOMAIN t, NEW j \in 1..7
  PROVE  /\ Three(t, op, i, j) \in Nat /\ Three(t, op, i + 1, j) \in Nat
         /\ Moved(t, op, i, j, j + 2) \in Nat
         /\ Three(t, op, i + 1, j) = Three(t, op, i, j) + Moved(t, op, i, j, j + 2)
<1> DEFINE n == i + 1
           Adds(k) ==
             /\ Part(t, op, i, k) \in Nat /\ Part(t, op, n, k) \in Nat
             /\ Moved(t, op, i, k, k) \in Nat
             /\ Part(t, op, n, k) = Part(t, op, i, k) + Moved(t, op, i, k, k)
<1>1. \A k \in 1..9 : Adds(k)
  BY PartStep
<1>2. Adds(j) /\ Adds(j + 1) /\ Adds(j + 2)
  <2> HIDE DEF Adds
  <2> QED BY <1>1
<1>3. /\ Moved(t, op, i, j, j + 2) \in Nat
      /\ Moved(t, op, i, j, j + 2)
           = Moved(t, op, i, j, j) + Moved(t, op, i, j + 1, j + 1) + Moved(t, op, i, j + 2, j + 2)
  BY StepIs DEF Moved
<1> HIDE DEF n
<1>4. /\ Three(t, op, i, j) \in Nat /\ Three(t, op, n, j) \in Nat
      /\ Three(t, op, n, j) = Three(t, op, i, j) + Moved(t, op, i, j, j + 2)
  BY <1>2, <1>3 DEF Three
<1> QED
  BY <1>3, <1>4 DEF n

\* A step adds what it moves.
LEMMA BytesStep ==
  ASSUME NEW t, IsScript(t), NEW op, NEW i \in DOMAIN t
  PROVE  /\ Bytes(t, op, i) \in Nat /\ Bytes(t, op, i + 1) \in Nat
         /\ Bytes(t, op, i + 1) = Bytes(t, op, i) + (IF Kind(t[i]) = op THEN t[i][2] ELSE 0)
<1> DEFINE n == i + 1
           Adds(k, l) ==
             /\ Three(t, op, i, k) \in Nat /\ Three(t, op, n, k) \in Nat
             /\ Moved(t, op, i, k, l) \in Nat
             /\ Three(t, op, n, k) = Three(t, op, i, k) + Moved(t, op, i, k, l)
<1>1. \A k \in 1..7 : Adds(k, k + 2)
  BY ThreeStep
<1>2. Adds(1, 3) /\ Adds(4, 6) /\ Adds(7, 9)
  <2> HIDE DEF Adds
  <2> QED BY <1>1
<1>3. (IF Kind(t[i]) = op THEN t[i][2] ELSE 0)
         = Moved(t, op, i, 1, 3) + Moved(t, op, i, 4, 6) + Moved(t, op, i, 7, 9)
  BY StepIs DEF Moved
<1> HIDE DEF n
<1>4. /\ Bytes(t, op, i) \in Nat /\ Bytes(t, op, n) \in Nat
      /\ Bytes(t, op, n) = Bytes(t, op, i)
           + (Moved(t, op, i, 1, 3) + Moved(t, op, i, 4, 6) + Moved(t, op, i, 7, 9))
  BY <1>2 DEF Bytes
<1> QED
  BY <1>3, <1>4 DEF n

LEMMA BytesStart ==
  ASSUME NEW t, NEW op
  PROVE  Bytes(t, op, 1) = 0
BY DEF Bytes, Three, Part

LEMMA ThreeTerms ==
  ASSUME NEW a \in Nat, NEW b \in Nat, NEW c \in Nat, NEW x \in Nat, NEW y \in Nat, NEW z \in Nat,
         a <= x, b <= y, c <= z
  PROVE  a + b + c \in Nat /\ x + y + z \in Nat /\ a + b + c <= x + y + z
OBVIOUS

\* The more of a script is done, the more it has moved.
LEMMA BytesGrow ==
  ASSUME NEW t, IsScript(t), NEW op, NEW k \in 1..(Len(t) + 1), NEW i \in 1..k
  PROVE  /\ Bytes(t, op, i) \in Nat /\ Bytes(t, op, k) \in Nat
         /\ Bytes(t, op, i) <= Bytes(t, op, k)
<1> DEFINE n == Len(t)
           PartGrows(j) == /\ Part(t, op, i, j) \in Nat /\ Part(t, op, k, j) \in Nat
                           /\ Part(t, op, i, j) <= Part(t, op, k, j)
           ThreeGrow(j) == /\ Three(t, op, i, j) \in Nat /\ Three(t, op, k, j) \in Nat
                           /\ Three(t, op, i, j) <= Three(t, op, k, j)
<1>0. n \in Nat /\ DOMAIN t = 1..n /\ k \in 1..(n + 1)
  BY DEF IsScript
<1> HIDE DEF n
<1>1. ASSUME NEW j \in 1..9 PROVE PartGrows(j)
  <2>1. i \in Nat /\ k \in Nat /\ i <= k
    BY <1>0
  <2>2. j < k => j \in DOMAIN t
    BY <1>0
  <2>3. j < k => t[j][2] \in Nat
    BY <2>2, StepIs
  <2> QED BY <2>1, <2>3 DEF Part
<1>2. ASSUME NEW j \in 1..7 PROVE ThreeGrow(j)
  <2>1. PartGrows(j) /\ PartGrows(j + 1) /\ PartGrows(j + 2)
    <3> HIDE DEF PartGrows
    <3> QED BY <1>1
  <2>2. /\ Three(t, op, i, j) = Part(t, op, i, j) + Part(t, op, i, j + 1) + Part(t, op, i, j + 2)
        /\ Three(t, op, k, j) = Part(t, op, k, j) + Part(t, op, k, j + 1) + Part(t, op, k, j + 2)
    BY Zenon DEF Three
  <2>3. /\ Part(t, op, i, j) + Part(t, op, i, j + 1) + Part(t, op, i, j + 2) \in Nat
        /\ Part(t, op, k, j) + Part(t, op, k, j + 1) + Part(t, op, k, j + 2) \in Nat
        /\ Part(t, op, i, j) + Part(t, op, i, j + 1) + Part(t, op, i, j + 2)
             <= Part(t, op, k, j) + Part(t, op, k, j + 1) + Part(t, op, k, j + 2)
    BY <2>1, ThreeTerms, Zenon
  <2> QED BY <2>2, <2>3, Zenon
<1>3. ThreeGrow(1) /\ ThreeGrow(4) /\ ThreeGrow(7)
  <2> HIDE DEF ThreeGrow
  <2> QED BY <1>2
<1>4. /\ Bytes(t, op, i) = Three(t, op, i, 1) + Three(t, op, i, 4) + Three(t, op, i, 7)
      /\ Bytes(t, op, k) = Three(t, op, k, 1) + Three(t, op, k, 4) + Three(t, op, k, 7)
  BY Zenon DEF Bytes
<1>5. /\ Three(t, op, i, 1) + Three(t, op, i, 4) + Three(t, op, i, 7) \in Nat
      /\ Three(t, op, k, 1) + Three(t, op, k, 4) + Three(t, op, k, 7) \in Nat
      /\ Three(t, op, i, 1) + Three(t, op, i, 4) + Three(t, op, i, 7)
           <= Three(t, op, k, 1) + Three(t, op, k, 4) + Three(t, op, k, 7)
  BY <1>3, ThreeTerms, Zenon
<1> QED
  BY <1>4, <1>5, Zenon

------------------------------------------------------------------------------
(* The scripts of the two sides.                                           *)

LEMMA StepsAre ==
  /\ \A n \in Nat : /\ Send(n) \in ScriptStep /\ Recv(n) \in ScriptStep
                     /\ Try(n) \in ScriptStep /\ Some(n) \in ScriptStep
  /\ Close \in ScriptStep /\ Drop \in ScriptStep
BY DEF ScriptStep, Send, Recv, Try, Some, Close, Drop

LEMMA LengthsAre ==
  ASSUME NEW d \in Dialogue
  PROVE  /\ d.len \in Nat /\ Octet(d.len) \in 0..255 /\ Octet(d.len) <= d.len
         /\ AddrLen(d) \in Nat /\ IpLen(d.addr) \in {4, 16} /\ IpLen(d.bound) \in {4, 16}
         /\ IpLen(BoundType(d)) \in {4, 16} /\ Granted(d) \in BOOLEAN /\ d.user \in BOOLEAN
<1>1. d.len \in Nat /\ d.user \in BOOLEAN
  BY HandshakeAssumption DEF Dialogue
<1>2. Octet(d.len) \in 0..255 /\ Octet(d.len) <= d.len
  BY <1>1 DEF Octet
<1>3. IpLen(d.addr) \in {4, 16} /\ IpLen(d.bound) \in {4, 16} /\ IpLen(BoundType(d)) \in {4, 16}
  BY DEF IpLen
<1>4. AddrLen(d) \in Nat /\ Granted(d) \in BOOLEAN
  BY <1>1, <1>3 DEF AddrLen, Granted
<1> QED BY <1>1, <1>2, <1>3, <1>4

\* The scripts of clients.
LEMMA ClientScripts ==
  ASSUME NEW d \in Dialogue
  PROVE  IsScript(Client(d))
<1>1. IsScript(handshake(d) \o request(d))
  BY StepsAre, LengthsAre DEF handshake, auth, request, readSOCKS5Bound, IsScript
<1>2. IsScript(handshake(d) \o udpAssociate(d))
  BY StepsAre, LengthsAre DEF handshake, auth, udpAssociate, readSOCKS5Bound, IsScript
<1>3. IsScript(ByTheBook(d))
  BY StepsAre, LengthsAre DEF ByTheBook, IsScript
<1>4. IsScript(HTTPConnect(d)) /\ IsScript(sendConnect(d)) /\ IsScript(HTTP3Connect(d))
  BY StepsAre
  DEF HTTPConnect, sendConnect, HTTP3Connect, ConnectLine, ConnectHead, Response, IsScript
<1>5. IsScript(TrojanConnect(d)) /\ IsScript(FRPConnect(d))
  BY StepsAre, LengthsAre DEF TrojanConnect, FRPConnect, writeFRPHeader, IsScript
<1>6. IsScript(VMessConnect(d)) /\ IsScript(VLESSConnect(d))
  BY StepsAre, LengthsAre DEF VMessConnect, VLESSConnect, writeRequestHead, IsScript
<1>7. IsScript(ShadowsocksConnect(d))
  BY StepsAre, LengthsAre DEF ShadowsocksConnect, IsScript
<1> QED
  BY <1>1, <1>2, <1>3, <1>4, <1>5, <1>6, <1>7 DEF Dialogue, Client

\* A side that answers step by step.
Mirrors(s, t) == Len(s) = Len(t) /\ \A i \in DOMAIN t : s[i] = AnswerTo(t[i])

LEMMA AnswersAre ==
  ASSUME NEW x \in ScriptStep
  PROVE  /\ AnswerTo(x) \in ScriptStep /\ AnswerTo(x)[1] \in {"send", "recv", "close"}
         /\ (AnswerTo(x)[1] = "recv") <=> (x[1] = "send")
         /\ x[1] = "send" => AnswerTo(x)[2] = x[2]
         /\ (AnswerTo(x)[1] = "send") <=> (x[1] \in {"recv", "some", "try"})
         /\ x[1] \in {"recv", "some", "try"} => AnswerTo(x)[2] = x[2]
BY DEF AnswerTo, Send, Recv, Close, ScriptStep

LEMMA ExternalMirrors ==
  ASSUME NEW d \in Dialogue, d.client \notin {"socks5", "socks5-udp"}
  PROVE  IsScript(External(d)) /\ Mirrors(External(d), Client(d))
<1> DEFINE c == Client(d)
<1>1. c \in Seq(ScriptStep) /\ Len(c) \in 0..9
  BY ClientScripts DEF IsScript
<1>2. External(d) = [i \in DOMAIN c |-> AnswerTo(c[i])]
  BY Zenon DEF External
<1> HIDE DEF c
<1>3. \A i \in DOMAIN c : AnswerTo(c[i]) \in ScriptStep
  BY <1>1, AnswersAre
<1>4. External(d) \in Seq(ScriptStep) /\ Len(External(d)) = Len(c)
  BY <1>1, <1>2, <1>3
<1> QED
  BY <1>1, <1>2, <1>4 DEF IsScript, Mirrors, c

\* SOCKS5 by the book is answered so up to the request.
Asks(d) == IF d.user THEN 5 ELSE 3

LEMMA ExternalScript ==
  ASSUME NEW d \in Dialogue, d.server = "external", d.client \in {"socks5", "socks5-udp"}
  PROVE  /\ Server(d) \in Seq(ScriptStep)
         /\ \A i \in 1..Asks(d) :
               i \in DOMAIN Client(d) /\ Server(d)[i] = AnswerTo(Client(d)[i])
         /\ Len(Server(d)) = IF Granted(d) THEN Asks(d) + 1 ELSE Asks(d) + 2
         /\ Granted(d) => Server(d)[Asks(d) + 1] = Send(4 + IpLen(d.bound) + 2)
         /\ ~Granted(d) => Server(d)[Asks(d) + 1] = Send(10) /\ Server(d)[Asks(d) + 2] = Close
<1> DEFINE c == Client(d)
           m == [i \in DOMAIN c |-> AnswerTo(c[i])]
           k == Len(handshake(d)) + 1
           e == IF Granted(d) THEN <<Send(4 + IpLen(d.bound) + 2)>> ELSE <<Send(10), Close>>
           f == SubSeq(m, 1, k)
<1>1. Server(d) = f \o e
  BY DEF Server, External
<1>2. c \in Seq(ScriptStep) /\ Len(c) \in 0..9
  BY ClientScripts DEF IsScript
<1>3. k = Asks(d) /\ k \in 1..5 /\ k <= Len(c)
  BY DEF Asks, Client, handshake, auth, request, udpAssociate, readSOCKS5Bound
<1> HIDE DEF c, k
<1>4. \A i \in DOMAIN c : AnswerTo(c[i]) \in ScriptStep
  BY <1>2, AnswersAre
<1>5. m \in Seq(ScriptStep) /\ Len(m) = Len(c) /\ DOMAIN m = DOMAIN c
  BY <1>2, <1>4
<1>6. k \in Nat /\ 1..k \subseteq 1..Len(m) /\ k + 1 - 1 = k /\ 1..k \subseteq DOMAIN c
  BY <1>2, <1>3, <1>5
<1>7. f \in Seq(ScriptStep) /\ Len(f) = k /\ \A i \in 1..k : f[i] = AnswerTo(c[i])
  <2>1. \A i \in 1..k : m[i] \in ScriptStep /\ m[i] = AnswerTo(c[i])
    BY <1>2, <1>4, <1>5, <1>6
  <2>2. f = [i \in 1..k |-> m[i]]
    BY <1>5, <1>6, SMT
  <2> HIDE DEF m, f
  <2> QED BY <1>6, <2>1, <2>2
<1>8. /\ e \in Seq(ScriptStep) /\ Len(e) = IF Granted(d) THEN 1 ELSE 2
      /\ Granted(d) => e[1] = Send(4 + IpLen(d.bound) + 2)
      /\ ~Granted(d) => e[1] = Send(10) /\ e[2] = Close
  BY StepsAre, LengthsAre
<1> HIDE DEF m, e, f
<1>9. f \in Seq(ScriptStep) /\ e \in Seq(ScriptStep) /\ Len(f) = k
  BY <1>7, <1>8
<1>10. f \o e \in Seq(ScriptStep) /\ Len(f \o e) = k + Len(e)
  BY <1>9
<1>11. \A i \in 1..k : (f \o e)[i] = f[i]
  BY <1>7, <1>8, ConcatProperties
<1>12. /\ (f \o e)[k + 1] = e[1]
       /\ ~Granted(d) => (f \o e)[k + 2] = e[2]
  <2> DEFINE l == Len(e)
  <2>1. \A i \in 1..(k + l) : (f \o e)[i] = IF i <= k THEN f[i] ELSE e[i - k]
    BY <1>9, ConcatProperties
  <2>2. l \in 1..2 /\ (~Granted(d) => l = 2)
    BY <1>8
  <2> HIDE DEF l
  <2>3. (k + 1) - k = 1 /\ (k + 2) - k = 2 /\ k + 1 \in 1..(k + l) /\ ~(k + 1 <= k)
    BY <1>3, <2>2
  <2>4. ~Granted(d) => k + 2 \in 1..(k + l) /\ ~(k + 2 <= k)
    BY <1>3, <2>2
  <2> QED BY <2>1, <2>3, <2>4, Zenon
<1>13. /\ Len(Server(d)) = IF Granted(d) THEN Asks(d) + 1 ELSE Asks(d) + 2
       /\ Server(d) \in Seq(ScriptStep)
       /\ Granted(d) => Server(d)[Asks(d) + 1] = Send(4 + IpLen(d.bound) + 2)
       /\ ~Granted(d) => Server(d)[Asks(d) + 1] = Send(10) /\ Server(d)[Asks(d) + 2] = Close
  BY <1>1, <1>3, <1>8, <1>10, <1>12
<1>14. \A i \in 1..Asks(d) : i \in DOMAIN c /\ Server(d)[i] = AnswerTo(c[i])
  BY <1>1, <1>3, <1>6, <1>7, <1>11
<1> QED BY <1>13, <1>14 DEF c

LEMMA ServerScripts ==
  ASSUME NEW d \in Dialogue, Meets(d)
  PROVE  IsScript(Server(d))
<1> USE StepsAre, LengthsAre, HandshakeAssumption
<1>1. CASE d.server = "forward"
  BY <1>1 DEF Server, handleSOCKS5Connect, readSOCKS5Addr, IsScript
<1>2. CASE d.server = "frp"
  BY <1>2 DEF Server, handleFRPClient, readFRPHeader, IsScript
<1>3. CASE d.server = "listener" /\ d.client = "socks5-udp" /\ ~d.user
  BY <1>3 DEF Server, handleSOCKS5UDP, IsScript
<1>4. CASE d.server = "listener" /\ d.client = "http"
  BY <1>4 DEF Server, handleConnect, ConnectLine, Response, IsScript
<1>5. CASE d.server = "listener" /\ d.client # "http" /\ (d.client # "socks5-udp" \/ d.user)
  <2>1. Server(d) = handleSOCKS5(d)
    BY <1>5 DEF Server
  <2>2. 5 + Octet(d.len) \in Nat
    OBVIOUS
  <2>3. IsScript(handleSOCKS5(d))
    <3> DEFINE b == 4 + IpLen(d.bound) + 2
               k == 5 + Octet(d.len)
    <3>1. /\ Recv(3) \in ScriptStep /\ Send(2) \in ScriptStep /\ Recv(5) \in ScriptStep
          /\ Try(6) \in ScriptStep /\ Try(18) \in ScriptStep /\ Try(k) \in ScriptStep
          /\ Send(b) \in ScriptStep /\ Close \in ScriptStep
      BY <2>2
    <3>2. d.addr \in {"v4", "v6", "name"}
      BY DEF Dialogue
    <3> HIDE DEF b, k
    <3> QED BY ONLY <3>1, <3>2 DEF handleSOCKS5, IsScript, b, k
  <2> QED BY <2>1, <2>3
<1>6. CASE d.server = "external" /\ d.client \notin {"socks5", "socks5-udp"}
  BY <1>6, ExternalMirrors DEF Server
<1>7. CASE d.server = "external" /\ d.client \in {"socks5", "socks5-udp"}
  BY <1>7, ExternalScript DEF Asks, IsScript
<1> QED
  BY <1>1, <1>2, <1>3, <1>4, <1>5, <1>6, <1>7 DEF Dialogue

------------------------------------------------------------------------------
(* What the scripts move.                                                  *)

InAll(t, sends, recvs) == Total(t, "send") = sends /\ Total(t, "recv") = recvs

Greeting(d) == IF d.user THEN 4 ELSE 3

\* The two clients of SOCKS5Proxy, to a server of the repository that accepts.
LEMMA SocksClient ==
  ASSUME NEW d \in Dialogue, d.client = "socks5", Granted(d), d.server # "external"
  PROVE  InAll(Client(d), Greeting(d) + (4 + AddrLen(d) + 2), 13)
<1> DEFINE c == Client(d)
<1>1. Len(c) = 5 /\ c[1] = Send(Greeting(d)) /\ c[2] = Recv(2)
  BY DEF Greeting, Client, handshake, auth, request, readSOCKS5Bound, BoundType, IpLen
<1>2. c[3] = Send(4 + AddrLen(d) + 2) /\ c[4] = Recv(5) /\ c[5] = Try(6)
  BY DEF Client, handshake, auth, request, BoundType, IpLen
<1> HIDE DEF c
<1>3. InAll(c, Greeting(d) + (4 + AddrLen(d) + 2), 13)
  BY <1>1, <1>2, LengthsAre DEF Greeting, InAll, Total, Bytes, Three, Part, Kind, Send, Recv, Try
<1> QED BY <1>3 DEF c

LEMMA UdpClient ==
  ASSUME NEW d \in Dialogue, d.client = "socks5-udp", Granted(d), d.server # "external"
  PROVE  InAll(Client(d), Greeting(d) + 10, 7 + (IpLen(BoundType(d)) + 2))
<1> DEFINE c == Client(d)
<1>1. Len(c) = 5 /\ c[1] = Send(Greeting(d)) /\ c[2] = Recv(2)
  BY DEF Greeting, Client, handshake, auth, udpAssociate, readSOCKS5Bound
<1>2. c[3] = Send(10) /\ c[4] = Recv(5) /\ c[5] = Recv(IpLen(BoundType(d)) + 2)
  BY DEF Client, handshake, auth, udpAssociate, readSOCKS5Bound
<1> HIDE DEF c
<1>3. InAll(c, Greeting(d) + 10, 7 + (IpLen(BoundType(d)) + 2))
  BY <1>1, <1>2, LengthsAre DEF Greeting, InAll, Total, Bytes, Three, Part, Kind, Send, Recv, Try
<1> QED BY <1>3 DEF c

\* The listener asks for this much after eight bytes, if the name fits at all.
Rest(d) ==
  CASE d.addr = "v4" -> 6 [] d.addr = "name" -> 5 + Octet(d.len) [] d.addr = "v6" -> 18

LEMMA ListenerServer ==
  ASSUME NEW d \in Dialogue, d.server = "listener", d.client # "http",
         d.client # "socks5-udp" \/ d.user
  PROVE  /\ Total(Server(d), "recv") = 8 + (IF d.user \/ Overflows(d) THEN 0 ELSE Rest(d))
         /\ Ends(Server(d)) => Granted(d)
         /\ Granted(d) => Total(Server(d), "send") = 2 + (4 + IpLen(d.bound) + 2)
<1> DEFINE v == Server(d)
           none == d.user \/ Overflows(d)
           n == IF none THEN 4 ELSE 5
           last == IF Granted(d) THEN Send(4 + IpLen(d.bound) + 2) ELSE Close
           b == IpLen(d.bound)
<1>0. v = handleSOCKS5(d) /\ Rest(d) \in Nat /\ none \in BOOLEAN /\ b \in Nat
  <2>1. Rest(d) \in Nat
    BY LengthsAre DEF Rest, Dialogue
  <2>2. v = handleSOCKS5(d) /\ b \in Nat
    BY LengthsAre DEF Server
  <2> QED BY <2>1, <2>2
<1>1. Len(v) = n /\ v[1] = Recv(3) /\ v[2] = Send(2) /\ v[3] = Recv(5)
  BY <1>0 DEF handleSOCKS5, Dialogue
<1>2. (~none => v[4] = Try(Rest(d))) /\ v[n] = last
  BY <1>0 DEF handleSOCKS5, Rest, Dialogue
<1> HIDE DEF v, none, b
<1>3. Ends(v) => Granted(d)
  BY <1>1, <1>2 DEF Ends, Send, Close
<1>4. Total(v, "recv") = 8 + (IF none THEN 0 ELSE Rest(d))
  BY <1>0, <1>1, <1>2 DEF Total, Bytes, Three, Part, Kind, Send, Recv, Try, Close
<1>5. Granted(d) => Total(v, "send") = 2 + (4 + b + 2)
  BY <1>0, <1>1, <1>2 DEF b, Total, Bytes, Three, Part, Kind, Send, Recv, Try
<1> QED BY <1>3, <1>4, <1>5 DEF v, none, b

LEMMA ListenerUdpServer ==
  ASSUME NEW d \in Dialogue, d.server = "listener", d.client = "socks5-udp", ~d.user
  PROVE  /\ Total(Server(d), "recv") = 14
         /\ Ends(Server(d)) => Granted(d)
         /\ Granted(d) => Total(Server(d), "send") = 2 + (4 + IpLen(d.bound) + 2)
<1> DEFINE v == Server(d)
<1>0. v = handleSOCKS5UDP(d)
  BY DEF Server
<1>1. /\ Len(v) = IF Granted(d) THEN 5 ELSE 6
      /\ v[1] = Recv(3) /\ v[2] = Send(2) /\ v[3] = Recv(5) /\ v[4] = Try(6)
  BY <1>0 DEF handleSOCKS5UDP
<1>2. /\ Granted(d) => v[5] = Send(4 + IpLen(d.bound) + 2)
      /\ ~Granted(d) => v[5] = Send(10) /\ v[6] = Close
  BY <1>0 DEF handleSOCKS5UDP
<1> HIDE DEF v
<1>3. Ends(v) => Granted(d)
  BY <1>1, <1>2 DEF Ends, Send, Close
<1>4. Total(v, "recv") = 14
  BY <1>1, <1>2, LengthsAre DEF Total, Bytes, Three, Part, Kind, Send, Recv, Try, Close
<1>5. Granted(d) => Total(v, "send") = 2 + (4 + IpLen(d.bound) + 2)
  BY <1>1, <1>2, LengthsAre DEF Total, Bytes, Three, Part, Kind, Send, Recv, Try
<1> QED BY <1>3, <1>4, <1>5 DEF v

ForwardScript(d, v) ==
  /\ v[1] = Recv(2) /\ v[2] = Recv(IF d.user THEN 2 ELSE 1) /\ v[3] = Send(2) /\ v[4] = Recv(4)
  /\ d.addr = "name" =>
        /\ v[5] = Recv(1) /\ v[6] = Recv(Octet(d.len)) /\ v[7] = Recv(2) /\ v[8] = Send(10)
        /\ Len(v) = IF Granted(d) THEN 8 ELSE 9
        /\ ~Granted(d) => v[9] = Close
  /\ d.addr # "name" =>
        /\ v[5] = Recv(IpLen(d.addr)) /\ v[6] = Recv(2) /\ v[7] = Send(10)
        /\ Len(v) = IF Granted(d) THEN 7 ELSE 8
        /\ ~Granted(d) => v[8] = Close

\* The bytes of the address as the server reads it.
Read(d) == IF d.addr = "name" THEN 1 + Octet(d.len) ELSE IpLen(d.addr)

LEMMA ForwardServer ==
  ASSUME NEW d \in Dialogue, d.server = "forward", d.client \in {"socks5", "rfc1928"}
  PROVE  /\ ForwardScript(d, Server(d))
         /\ InAll(Server(d), 12, (IF d.user THEN 2 ELSE 1) + 6 + Read(d) + 2)
         /\ Ends(Server(d)) => Granted(d)
<1> DEFINE v == Server(d)
<1>0. v = handleSOCKS5Connect(d)
  BY DEF Server
<1>1. /\ v[1] = Recv(2) /\ v[2] = Recv(IF d.user THEN 2 ELSE 1)
      /\ v[3] = Send(2) /\ v[4] = Recv(4)
  BY <1>0 DEF handleSOCKS5Connect, readSOCKS5Addr
<1>2. CASE d.addr = "name"
  <2>1. /\ v[5] = Recv(1) /\ v[6] = Recv(Octet(d.len)) /\ v[7] = Recv(2) /\ v[8] = Send(10)
        /\ Len(v) = IF Granted(d) THEN 8 ELSE 9
        /\ ~Granted(d) => v[9] = Close
    BY <1>0, <1>2 DEF handleSOCKS5Connect, readSOCKS5Addr
  <2> HIDE DEF v
  <2>2. InAll(v, 12, (IF d.user THEN 2 ELSE 1) + 6 + Read(d) + 2)
    BY <1>1, <1>2, <2>1, LengthsAre
    DEF Read, InAll, Total, Bytes, Three, Part, Kind, Send, Recv, Try, Close
  <2>3. Ends(v) => Granted(d)
    BY <2>1 DEF Ends, Close
  <2> QED BY <1>1, <1>2, <2>1, <2>2, <2>3 DEF ForwardScript, v
<1>3. CASE d.addr # "name"
  <2>1. /\ v[5] = Recv(IpLen(d.addr)) /\ v[6] = Recv(2) /\ v[7] = Send(10)
        /\ Len(v) = IF Granted(d) THEN 7 ELSE 8
        /\ ~Granted(d) => v[8] = Close
    BY <1>0, <1>3 DEF handleSOCKS5Connect, readSOCKS5Addr
  <2> HIDE DEF v
  <2>2. InAll(v, 12, (IF d.user THEN 2 ELSE 1) + 6 + Read(d) + 2)
    BY <1>1, <1>3, <2>1, LengthsAre
    DEF Read, InAll, Total, Bytes, Three, Part, Kind, Send, Recv, Try, Close
  <2>3. Ends(v) => Granted(d)
    BY <2>1 DEF Ends, Close
  <2> QED BY <1>1, <1>3, <2>1, <2>2, <2>3 DEF ForwardScript, v
<1> QED BY <1>2, <1>3

LEMMA ForwardUdpServer ==
  ASSUME NEW d \in Dialogue, d.server = "forward", d.client = "socks5-udp"
  PROVE  ~Ends(Server(d))
<1> DEFINE v == Server(d)
<1>1. Len(v) = 6 /\ v[6] = Close
  BY DEF Server, handleSOCKS5Connect
<1> HIDE DEF v
<1>2. ~Ends(v)
  BY <1>1 DEF Ends, Close
<1> QED BY <1>2 DEF v

LEMMA ExternalReads ==
  ASSUME NEW d \in Dialogue, d.server = "external", d.client \in {"socks5", "socks5-udp"},
         Ends(Server(d))
  PROVE  Total(Client(d), "recv") <= Total(Server(d), "send") + 1
<1> DEFINE c == Client(d)
           v == Server(d)
           n == Asks(d)
           b == IpLen(d.bound)
           a == IF d.client = "socks5" THEN 4 + AddrLen(d) + 2 ELSE 10
<1>0. b \in Nat /\ a \in Nat /\ d.len \in Nat
  BY LengthsAre
<1>1. /\ Len(v) = IF Granted(d) THEN n + 1 ELSE n + 2
      /\ ~Granted(d) => v[n + 2] = Close
      /\ Granted(d) => v[n + 1] = Send(4 + b + 2)
      /\ \A i \in 1..n : v[i] = AnswerTo(c[i])
  BY ExternalScript
<1>2. Granted(d)
  <2> SUFFICES ASSUME ~Granted(d) PROVE FALSE
    OBVIOUS
  <2> HIDE DEF v, c
  <2>1. n \in {3, 5} /\ v[Len(v)] = Close /\ Len(v) > 0
    BY <1>1 DEF Asks
  <2>2. ~Ends(v)
    BY <2>1 DEF Ends, Close
  <2> QED BY <2>2 DEF v
<1>3. /\ Len(c) = n + 2 /\ c[n] = Send(a) /\ c[n + 1] = Recv(5)
      /\ c[n + 2] \in {Recv(b + 2), Try(b + 2)}
  <2>1. BoundType(d) = d.bound
    BY DEF BoundType
  <2>2. CASE d.client = "socks5"
    <3>1. c = handshake(d) \o request(d)
      BY <2>2 DEF Client
    <3> QED BY <1>2, <2>1, <2>2, <3>1 DEF Asks, handshake, auth, request
  <2>3. CASE d.client = "socks5-udp"
    <3>1. c = handshake(d) \o udpAssociate(d)
      BY <2>3 DEF Client
    <3> QED BY <1>2, <2>1, <2>3, <3>1 DEF Asks, handshake, auth, udpAssociate, readSOCKS5Bound
  <2> QED BY <2>2, <2>3
<1>4. c[1] = Send(Greeting(d)) /\ c[2] = Recv(2)
  BY DEF Greeting, Client, handshake, auth, request, udpAssociate, readSOCKS5Bound
<1>5. d.user => c[3] = Send(2 + d.len + 1 + d.len) /\ c[4] = Recv(2)
  BY DEF Client, handshake, auth, request, udpAssociate, readSOCKS5Bound
<1> HIDE DEF c, v, a, b
<1>6. v[1][1] = "recv" /\ v[2] = Send(2) /\ v[n][1] = "recv"
  <2>1. v[1] = AnswerTo(c[1]) /\ v[2] = AnswerTo(c[2]) /\ v[n] = AnswerTo(c[n])
    BY <1>1 DEF Asks
  <2> QED BY <1>3, <1>4, <2>1 DEF AnswerTo, Send, Recv
<1>7. d.user => v[3][1] = "recv" /\ v[4] = Send(2)
  <2>1. d.user => v[3] = AnswerTo(c[3]) /\ v[4] = AnswerTo(c[4])
    BY <1>1 DEF Asks
  <2> QED BY <1>5, <2>1 DEF AnswerTo, Send, Recv
<1>8. Total(c, "recv") = IF d.user THEN 11 + b ELSE 9 + b
  BY <1>0, <1>3, <1>4, <1>5 DEF Asks, Total, Bytes, Three, Part, Kind, Send, Recv, Try
<1>9. Total(v, "send") = IF d.user THEN 10 + b ELSE 8 + b
  <2>1. Len(v) = n + 1 /\ v[n + 1] = Send(4 + b + 2)
    BY <1>1, <1>2
  <2> QED BY <1>0, <2>1, <1>6, <1>7 DEF Asks, Total, Bytes, Three, Part, Kind, Send, Recv, Try
<1>10. Total(c, "recv") <= Total(v, "send") + 1
  BY <1>0, <1>8, <1>9
<1> QED BY <1>10 DEF c, v

\* The SOCKS5 client takes one byte too many at most.
LEMMA SocksReads ==
  ASSUME NEW d \in Dialogue, Meets(d), d.client \in {"socks5", "socks5-udp"}, Ends(Server(d))
  PROVE  Total(Client(d), "recv") <= Total(Server(d), "send") + 1
<1>1. CASE d.server = "external"
  BY <1>1, ExternalReads
<1>2. CASE d.server = "listener" /\ d.client = "socks5"
  <2>1. Granted(d) /\ Total(Client(d), "recv") = 13
             /\ Total(Server(d), "send") = 2 + (4 + IpLen(d.bound) + 2)
    BY <1>2, SocksClient, ListenerServer DEF InAll
  <2> QED BY <2>1 DEF IpLen
<1>3. CASE d.server = "listener" /\ d.client = "socks5-udp"
  <2>1. Granted(d) /\ Total(Server(d), "send") = 2 + (4 + IpLen(d.bound) + 2)
    BY <1>3, ListenerServer, ListenerUdpServer
  <2>2. Total(Client(d), "recv") = 7 + (IpLen(BoundType(d)) + 2)
    BY <1>3, <2>1, UdpClient DEF InAll
  <2>3. IpLen(BoundType(d)) <= IpLen(d.bound)
    BY DEF BoundType, IpLen
  <2> QED BY <2>1, <2>2, <2>3, LengthsAre
<1>4. CASE d.server = "forward" /\ d.client = "socks5"
  <2>1. Granted(d) /\ Total(Client(d), "recv") = 13 /\ Total(Server(d), "send") = 12
    BY <1>4, SocksClient, ForwardServer DEF InAll
  <2> QED BY <2>1
<1>5. CASE d.server = "forward" /\ d.client = "socks5-udp"
  BY <1>5, ForwardUdpServer
<1> QED
  BY <1>1, <1>2, <1>3, <1>4, <1>5 DEF Dialogue, Meets

\* A client by the book, to the servers of the repository.
BookScript(d, c) ==
  /\ c[1] = Send(Greeting(d)) /\ c[2] = Recv(2) /\ c[3] = Send(4 + AddrLen(d) + 2)
  /\ c[4] = Recv(10) /\ Len(c) = IF Granted(d) THEN 4 ELSE 5
  /\ ~Granted(d) => c[5] = Close

LEMMA BookClient ==
  ASSUME NEW d \in Dialogue, d.client = "rfc1928"
  PROVE  /\ BookScript(d, Client(d))
         /\ InAll(Client(d), Greeting(d) + (4 + AddrLen(d) + 2), 12)
<1> DEFINE c == Client(d)
<1>0. c = ByTheBook(d)
  BY DEF Client
<1>1. BookScript(d, c)
  BY <1>0 DEF BookScript, ByTheBook, Greeting
<1> HIDE DEF c
<1>2. InAll(c, Greeting(d) + (4 + AddrLen(d) + 2), 12)
  BY <1>1, LengthsAre
  DEF BookScript, Greeting, InAll, Total, Bytes, Three, Part, Kind, Send, Recv, Try, Close
<1> QED BY <1>1, <1>2 DEF c

\* The listener takes at most three bytes more than a client that gets to its
\* end has sent.
LEMMA ListenerReads ==
  ASSUME NEW d \in Dialogue, Meets(d), d.server = "listener", d.client # "http",
         Ends(Client(d))
  PROVE  Total(Server(d), "recv") <= Total(Client(d), "send") + 3
<1>0. d.client \in {"socks5", "rfc1928", "socks5-udp"}
  BY DEF Meets
<1>1. Granted(d)
  <2> SUFFICES ASSUME ~Granted(d) PROVE FALSE
    OBVIOUS
  <2> DEFINE c == Client(d)
  <2>1. d.client = "socks5" => Len(c) = 5 /\ c[5] = Close
    BY DEF Client, handshake, auth, request
  <2>2. d.client = "socks5-udp" => Len(c) = 5 /\ c[5] = Close
    BY DEF Client, handshake, auth, udpAssociate
  <2>3. d.client = "rfc1928" => Len(c) = 5 /\ c[5] = Close
    BY DEF Client, ByTheBook
  <2>4. Len(c) = 5 /\ c[5] = Close
    BY <1>0, <2>1, <2>2, <2>3
  <2> HIDE DEF c
  <2>5. ~Ends(c)
    BY <2>4 DEF Ends, Close
  <2> QED BY <2>5 DEF c
<1>2. Rest(d) \in Nat /\ 8 + Rest(d) <= 3 + (4 + AddrLen(d) + 2) + 3
  BY LengthsAre DEF Rest, AddrLen, IpLen, Dialogue
<1>3. CASE d.client \in {"socks5", "rfc1928"}
  <2>1. Total(Client(d), "send") = Greeting(d) + (4 + AddrLen(d) + 2)
    BY <1>1, <1>3, SocksClient, BookClient DEF InAll
  <2>2. Total(Server(d), "recv") = 8 + (IF d.user \/ Overflows(d) THEN 0 ELSE Rest(d))
    BY <1>3, ListenerServer
  <2> QED BY <1>2, <2>1, <2>2, LengthsAre DEF Greeting
<1>4. CASE d.client = "socks5-udp"
  <2>1. Total(Client(d), "send") = Greeting(d) + 10
    BY <1>1, <1>4, UdpClient DEF InAll
  <2>2. Total(Server(d), "recv") = IF d.user THEN 8 ELSE 14
    BY <1>4, ListenerServer, ListenerUdpServer
  <2> QED BY <2>1, <2>2, LengthsAre DEF Greeting
<1> QED BY <1>0, <1>3, <1>4

\* A plain script takes what it says at most, and it loses no socket; an exact one
\* takes just that.
Plain(t) == \A i \in DOMAIN t : t[i][1] \in {"send", "recv", "try", "close"}

Exact(t) == \A i \in DOMAIN t : t[i][1] \in {"send", "recv", "close"}

LEMMA ExactClient ==
  ASSUME NEW d \in Dialogue, d.client \notin {"socks5", "http", "https"}
  PROVE  Exact(Client(d))
<1> USE DEF Exact, Send, Recv, Close
<1>1. Exact(handshake(d) \o udpAssociate(d))
  BY LengthsAre DEF handshake, auth, udpAssociate, readSOCKS5Bound
<1>2. Exact(ByTheBook(d))
  BY DEF ByTheBook
<1>3. Exact(HTTP3Connect(d)) /\ Exact(TrojanConnect(d))
  BY DEF HTTP3Connect, TrojanConnect
<1>4. Exact(VMessConnect(d)) /\ Exact(VLESSConnect(d)) /\ Exact(ShadowsocksConnect(d))
  BY DEF VMessConnect, VLESSConnect, writeRequestHead, ShadowsocksConnect
<1>5. Exact(FRPConnect(d))
  BY DEF FRPConnect, writeFRPHeader
<1> QED
  <2> HIDE DEF Exact
  <2> QED BY <1>1, <1>2, <1>3, <1>4, <1>5 DEF Client, Dialogue

LEMMA PlainClient ==
  ASSUME NEW d \in Dialogue, d.client \notin {"http", "https"}
  PROVE  Plain(Client(d))
<1>1. CASE d.client = "socks5"
  <2>1. Plain(handshake(d) \o request(d))
    BY DEF handshake, auth, request, Plain, Send, Recv, Try, Close
  <2> QED BY <1>1, <2>1 DEF Client
<1>2. CASE d.client # "socks5"
  BY <1>2, ExactClient DEF Exact, Plain
<1> QED BY <1>1, <1>2

LEMMA ExactServer ==
  ASSUME NEW d \in Dialogue, Meets(d), d.server # "listener"
  PROVE  Exact(Server(d))
<1> USE DEF Exact, Send, Recv, Close
<1>1. CASE d.server = "external" /\ d.client \notin {"socks5", "socks5-udp"}
  <2> DEFINE c == Client(d)
  <2>1. Server(d) = External(d) /\ Len(Server(d)) = Len(c) /\ IsScript(Server(d)) /\ IsScript(c)
    BY <1>1, ExternalMirrors, ClientScripts DEF Server, Mirrors
  <2>2. \A i \in DOMAIN c : c[i] \in ScriptStep /\ Server(d)[i] = AnswerTo(c[i])
    BY <1>1, <2>1, ExternalMirrors, StepIs DEF Mirrors
  <2> HIDE DEF c
  <2>3. DOMAIN Server(d) = DOMAIN c
    BY <2>1 DEF IsScript
  <2> QED BY <2>2, <2>3, AnswersAre
<1>2. CASE d.server = "external" /\ d.client \in {"socks5", "socks5-udp"}
  <2>1. /\ Server(d) \in Seq(ScriptStep)
        /\ Len(Server(d)) = IF Granted(d) THEN Asks(d) + 1 ELSE Asks(d) + 2
        /\ Granted(d) => Server(d)[Asks(d) + 1] = Send(4 + IpLen(d.bound) + 2)
        /\ ~Granted(d) => Server(d)[Asks(d) + 1] = Send(10) /\ Server(d)[Asks(d) + 2] = Close
    BY <1>2, ExternalScript
  <2>2. \A i \in 1..Asks(d) : Server(d)[i][1] \in {"send", "recv", "close"}
    <3> SUFFICES ASSUME NEW i \in 1..Asks(d)
                 PROVE  Server(d)[i][1] \in {"send", "recv", "close"}
      OBVIOUS
    <3>1. Client(d)[i] \in ScriptStep /\ Server(d)[i] = AnswerTo(Client(d)[i])
      BY <1>2, ExternalScript, ClientScripts, StepIs
    <3> QED BY <3>1, AnswersAre
  <2> QED BY <2>1, <2>2 DEF Asks
<1>3. CASE d.server = "forward"
  BY <1>3 DEF Server, handleSOCKS5Connect, readSOCKS5Addr
<1>4. CASE d.server = "frp"
  BY <1>4 DEF Server, handleFRPClient, readFRPHeader
<1> QED
  BY <1>1, <1>2, <1>3, <1>4 DEF Dialogue

LEMMA PlainServer ==
  ASSUME NEW d \in Dialogue, Meets(d), d.server # "listener" \/ d.client # "http"
  PROVE  Plain(Server(d))
<1>1. CASE d.server # "listener"
  BY <1>1, ExactServer DEF Exact, Plain
<1>2. CASE d.server = "listener"
  <2>1. Plain(handleSOCKS5UDP(d))
    BY DEF handleSOCKS5UDP, Plain, Send, Recv, Try, Close
  <2>2. Plain(handleSOCKS5(d))
    BY DEF handleSOCKS5, Dialogue, Plain, Send, Recv, Try, Close
  <2> QED BY <1>2, <2>1, <2>2 DEF Server
<1> QED
  BY <1>1, <1>2

\* No server loses a socket, and of the clients HTTPProxy alone does.
LEMMA Drops ==
  ASSUME NEW d \in Dialogue, Meets(d)
  PROVE  /\ \A i \in DOMAIN Server(d) : Server(d)[i][1] # "drop"
         /\ \A i \in DOMAIN Client(d) : Client(d)[i][1] = "drop" => d.client = "http"
<1> DEFINE c == Client(d)
           v == Server(d)
<1>1. d.client = "http" /\ d.server = "listener" => \A i \in DOMAIN v : v[i][1] # "drop"
  BY DEF Server, handleConnect, Send, Recv, Some, Close
<1>2. d.client # "http" \/ d.server # "listener" => \A i \in DOMAIN v : v[i][1] # "drop"
  BY PlainServer DEF Plain
<1>3. d.client \notin {"http", "https"} => \A i \in DOMAIN c : c[i][1] # "drop"
  BY PlainClient DEF Plain
<1>4. d.client = "https" => \A i \in DOMAIN c : c[i][1] # "drop"
  BY DEF Client, sendConnect, Send, Some, Close
<1> HIDE DEF c, v
<1>5. /\ \A i \in DOMAIN v : v[i][1] # "drop"
      /\ \A i \in DOMAIN c : c[i][1] = "drop" => d.client = "http"
  BY <1>1, <1>2, <1>3, <1>4
<1> QED BY <1>5 DEF c, v

\* No side asks for more than the other sends, none for less if both get to their
\* ends, and of two sides that wait for a byte of the handshake one has not looked.
Suits(c, v) ==
  /\ Total(c, "recv") <= Total(v, "send") /\ Total(v, "recv") <= Total(c, "send")
  /\ Ends(c) /\ Ends(v) =>
        Total(c, "recv") = Total(v, "send") /\ Total(v, "recv") = Total(c, "send")
  /\ \A i \in DOMAIN c, j \in DOMAIN v :
        c[i][1] = "recv" /\ v[j][1] = "recv" =>
           \/ Bytes(v, "recv", j + 1) <= Bytes(c, "send", i)
           \/ Bytes(c, "recv", i + 1) <= Bytes(v, "send", j)

LEMMA MirrorBytes ==
  ASSUME NEW c, NEW v, IsScript(c), IsScript(v), Exact(c), Mirrors(v, c),
         NEW i \in 1..(Len(c) + 1)
  PROVE  Bytes(v, "recv", i) = Bytes(c, "send", i) /\ Bytes(v, "send", i) = Bytes(c, "recv", i)
<1> DEFINE n == Len(c)
           Same(j) == /\ Part(v, "recv", i, j) = Part(c, "send", i, j)
                      /\ Part(v, "send", i, j) = Part(c, "recv", i, j)
           Same3(j) == /\ Three(v, "recv", i, j) = Three(c, "send", i, j)
                       /\ Three(v, "send", i, j) = Three(c, "recv", i, j)
<1>1. n \in Nat /\ DOMAIN c = 1..n /\ i \in 1..(n + 1)
  BY DEF IsScript
<1> HIDE DEF n
<1>2. ASSUME NEW j \in 1..9 PROVE Same(j)
  <2>1. j < i => j \in DOMAIN c
    BY <1>1
  <2>2. j < i => c[j] \in ScriptStep /\ v[j] = AnswerTo(c[j]) /\ c[j][1] \in {"send", "recv", "close"}
    BY <2>1, StepIs DEF Mirrors, Exact
  <2> QED BY <2>2, AnswersAre DEF Part, Kind
<1> HIDE DEF Same
<1>3. Same(1) /\ Same(2) /\ Same(3) /\ Same(4) /\ Same(5) /\ Same(6) /\ Same(7) /\ Same(8) /\ Same(9)
  BY <1>2
<1> QED BY <1>3 DEF Same, Bytes, Three

LEMMA MirrorSuits ==
  ASSUME NEW c, NEW v, IsScript(c), IsScript(v), Exact(c), Mirrors(v, c)
  PROVE  Suits(c, v)
<1> DEFINE n == Len(c)
<1>1. n \in Nat /\ DOMAIN c = 1..n /\ DOMAIN v = 1..n /\ Len(v) = n
  BY DEF IsScript, Mirrors
<1>2. n + 1 \in 1..(n + 1)
  BY <1>1
<1>3. /\ Total(c, "recv") = Total(v, "send") /\ Total(v, "recv") = Total(c, "send")
      /\ Total(c, "recv") \in Nat /\ Total(c, "send") \in Nat
  BY <1>1, <1>2, MirrorBytes, BytesGrow DEF Total
<1>4. ASSUME NEW i \in DOMAIN c, NEW j \in DOMAIN v, c[i][1] = "recv", v[j][1] = "recv"
      PROVE  \/ Bytes(v, "recv", j + 1) <= Bytes(c, "send", i)
             \/ Bytes(c, "recv", i + 1) <= Bytes(v, "send", j)
  <2>1. i # j
    BY <1>1, <1>4, AnswersAre, StepIs DEF Mirrors
  <2>2. /\ i \in 1..(n + 1) /\ j \in 1..(n + 1) /\ i + 1 \in 1..(n + 1) /\ j + 1 \in 1..(n + 1)
        /\ j < i => j + 1 \in 1..i
        /\ i < j => i + 1 \in 1..j
        /\ i < j \/ j < i
    BY <1>1, <2>1
  <2>3. CASE j < i
    <3>1. Bytes(v, "recv", j + 1) = Bytes(c, "send", j + 1)
      BY <2>2, MirrorBytes
    <3>2. Bytes(c, "send", j + 1) <= Bytes(c, "send", i)
      BY <2>2, <2>3, BytesGrow
    <3> QED BY <3>1, <3>2
  <2>4. CASE i < j
    <3>1. Bytes(v, "send", j) = Bytes(c, "recv", j)
      BY <2>2, MirrorBytes
    <3>2. Bytes(c, "recv", i + 1) <= Bytes(c, "recv", j)
      BY <2>2, <2>4, BytesGrow
    <3> QED BY <3>1, <3>2
  <2> QED BY <2>2, <2>3, <2>4
<1> QED BY <1>3, <1>4 DEF Suits

LEMMA FRPSuits ==
  ASSUME NEW d \in Dialogue, d.client = "frp", d.server = "frp"
  PROVE  Suits(Client(d), Server(d))
<1> DEFINE c == Client(d)
           v == Server(d)
           k == Octet(d.len)
<1>0. /\ IsScript(v) /\ IsScript(c) /\ d.len \in Nat /\ k \in Nat /\ k <= d.len
      /\ Granted(d) => k = d.len
  <2>1. IsScript(v) /\ IsScript(c)
    BY ClientScripts, ServerScripts DEF Meets
  <2>2. Granted(d) => k = d.len
    BY DEF Granted, Fits
  <2> HIDE DEF v, c
  <2> QED BY <2>1, <2>2, LengthsAre
<1>1. /\ c[1] = Send(4 + d.len + 3) /\ c[2] = Recv(1)
      /\ Len(c) = IF Granted(d) THEN 2 ELSE 3
      /\ ~Granted(d) => c[3] = Close
  BY DEF Client, FRPConnect, writeFRPHeader
<1>2. /\ v[1] = Recv(4) /\ v[2] = Recv(k) /\ v[3] = Recv(3) /\ v[4] = Send(1)
      /\ Len(v) = IF Granted(d) THEN 4 ELSE 5
      /\ ~Granted(d) => v[5] = Close
  BY DEF Server, handleFRPClient, readFRPHeader
<1> HIDE DEF c, v, k
<1>3. /\ Total(c, "recv") = 1 /\ Total(c, "send") = d.len + 7 /\ Bytes(c, "send", 2) = d.len + 7
  BY <1>0, <1>1 DEF Total, Bytes, Three, Part, Kind, Send, Recv, Try, Close
<1>4. /\ Total(v, "send") = 1 /\ Total(v, "recv") = k + 7
  BY <1>0, <1>2 DEF Total, Bytes, Three, Part, Kind, Send, Recv, Try, Close
<1>5. Ends(c) => Granted(d)
  BY <1>1 DEF Ends, Close
<1>6. ASSUME NEW i \in DOMAIN c, NEW j \in DOMAIN v, c[i][1] = "recv"
      PROVE  Bytes(v, "recv", j + 1) <= Bytes(c, "send", i)
  <2>1. i = 2
    <3>1. DOMAIN c = IF Granted(d) THEN 1..2 ELSE 1..3
      BY <1>0, <1>1 DEF IsScript
    <3>2. i \in 1..3 /\ (i = 3 => ~Granted(d))
      BY <1>6, <3>1
    <3>3. (i = 3 => c[i][1] = "close") /\ (i = 1 => c[i][1] = "send")
      BY <1>1, <3>2 DEF Send, Close
    <3> QED BY <1>6, <3>2, <3>3
  <2> DEFINE n == Len(v)
  <2>4. n \in Nat /\ j \in 1..n
    BY <1>0 DEF IsScript
  <2> HIDE DEF n
  <2>2. j + 1 \in 1..(n + 1) /\ n + 1 \in 1..(n + 1)
    BY <2>4
  <2>3. Bytes(v, "recv", j + 1) <= Total(v, "recv")
    BY <1>0, <2>2, BytesGrow DEF Total, n
  <2>5. Bytes(v, "recv", j + 1) \in Nat
    BY <1>0, <2>2, BytesGrow DEF n
  <2> QED BY <1>0, <1>3, <1>4, <2>1, <2>3, <2>5
<1>7. Suits(c, v)
  BY <1>0, <1>3, <1>4, <1>6, <1>5 DEF Suits
<1> QED BY <1>7 DEF c, v

LEMMA ForwardSuits ==
  ASSUME NEW d \in Dialogue, Meets(d), d.client = "rfc1928", d.server = "forward"
  PROVE  Suits(Client(d), Server(d))
<1> DEFINE c == Client(d)
           v == Server(d)
<1>0. /\ IsScript(v) /\ IsScript(c) /\ AddrLen(d) \in Nat
      /\ BookScript(d, c) /\ ForwardScript(d, v)
  BY ClientScripts, ServerScripts, LengthsAre, BookClient, ForwardServer
<1>1. /\ InAll(c, Greeting(d) + (4 + AddrLen(d) + 2), 12)
      /\ InAll(v, 12, (IF d.user THEN 2 ELSE 1) + 6 + Read(d) + 2)
      /\ Read(d) = AddrLen(d)
  BY BookClient, ForwardServer DEF Meets, Fits, Read, AddrLen
<1> HIDE DEF c, v
<1>2. /\ Total(c, "recv") = Total(v, "send") /\ Total(v, "recv") = Total(c, "send")
      /\ Total(c, "recv") \in Nat /\ Total(c, "send") \in Nat
  BY <1>0, <1>1 DEF InAll, Greeting
<1>3. /\ Bytes(c, "send", 2) = Greeting(d) /\ Bytes(c, "recv", 3) = 2
      /\ Bytes(c, "send", 4) = Greeting(d) + (4 + AddrLen(d) + 2)
  BY <1>0 DEF BookScript, Greeting, Bytes, Three, Part, Kind, Send, Recv, Try
<1>4. Bytes(v, "recv", 3) = Greeting(d) /\ Bytes(v, "send", 4) = 2
  BY <1>0 DEF ForwardScript, Greeting, Bytes, Three, Part, Kind, Send, Recv, Try
<1>5. ASSUME NEW i \in DOMAIN c, NEW j \in DOMAIN v, c[i][1] = "recv", v[j][1] = "recv"
      PROVE  \/ Bytes(v, "recv", j + 1) <= Bytes(c, "send", i)
             \/ Bytes(c, "recv", i + 1) <= Bytes(v, "send", j)
  <2> DEFINE n == Len(v)
  <2>1. i \in {2, 4}
    <3> DEFINE l == Len(c)
    <3>1. i \in 1..l /\ l = (IF Granted(d) THEN 4 ELSE 5)
      <4>1. DOMAIN c = 1..Len(c)
        BY <1>0 DEF IsScript
      <4>2. Len(c) = (IF Granted(d) THEN 4 ELSE 5)
        BY <1>0 DEF BookScript
      <4> HIDE DEF c
      <4> QED BY <1>5, <4>1, <4>2
    <3>2. c[1][1] = "send" /\ c[3][1] = "send" /\ (~Granted(d) => c[5][1] = "close")
      BY <1>0 DEF BookScript, Send, Close
    <3>3. i \in {1, 2, 3, 4} \/ (i = 5 /\ ~Granted(d))
      <4> HIDE DEF l
      <4> QED BY <3>1
    <3> QED BY <1>5, <3>2, <3>3, Zenon
  <2>2. n \in Nat /\ j \in 1..n
    BY <1>0 DEF IsScript
  <2>3. j # 3
    BY <1>0, <1>5 DEF ForwardScript, Send
  <2>4. n \in 7..9
    BY <1>0 DEF ForwardScript
  <2> HIDE DEF n
  <2>5. /\ j + 1 \in 1..(n + 1) /\ n + 1 \in 1..(n + 1) /\ 3 \in 1..(n + 1) /\ j \in 1..(n + 1)
        /\ j < 3 => j + 1 \in 1..3
        /\ ~(j < 3) => 4 \in 1..j
    BY <2>2, <2>3, <2>4
  <2>6. CASE i = 4
    <3>1. Bytes(v, "recv", j + 1) <= Total(v, "recv")
      BY <1>0, <2>5, BytesGrow DEF Total, n
    <3> QED BY <1>1, <1>2, <1>3, <2>6, <3>1 DEF InAll
  <2>7. CASE i = 2 /\ j < 3
    <3>1. Bytes(v, "recv", j + 1) <= Bytes(v, "recv", 3)
      BY <1>0, <2>5, <2>7, BytesGrow DEF n
    <3> QED BY <1>3, <1>4, <2>7, <3>1
  <2>8. CASE i = 2 /\ ~(j < 3)
    <3>1. Bytes(v, "send", 4) <= Bytes(v, "send", j)
      BY <1>0, <2>5, <2>8, BytesGrow DEF n
    <3> QED BY <1>3, <1>4, <2>8, <3>1
  <2> QED BY <2>1, <2>6, <2>7, <2>8
<1>6. Suits(c, v)
  BY <1>2, <1>5 DEF Suits
<1> QED BY <1>6 DEF c, v

\* No side of these protocols reads what the other does not send.
LEMMA CleanSuits ==
  ASSUME NEW d \in Dialogue, Meets(d), d.server # "listener",
         d.client \notin {"socks5", "socks5-udp", "http", "https"}
  PROVE  Suits(Client(d), Server(d))
<1>1. CASE d.server = "external"
  <2>1. Server(d) = External(d)
    BY <1>1 DEF Server
  <2> QED BY <2>1, ExternalMirrors, ClientScripts, ExactClient, MirrorSuits
<1> QED
  BY <1>1, FRPSuits, ForwardSuits DEF Dialogue, Meets

------------------------------------------------------------------------------
(* The two sides at work.                                                  *)

ShakeTypeOK ==
  /\ dialogue \in Dialogues
  /\ at \in [Sides -> Nat] /\ sent \in [Sides -> Nat]
  /\ payload \in [Sides -> Nat] /\ taken \in [Sides -> Nat]
  /\ end \in [Sides -> {"open", "closed", "lost"}]

\* A side has moved what the steps behind it say, or less where it ignores what
\* becomes of a read, speaks on its own behalf only
\* after its script, and gets to the end of none that ends with an error.
SideAt(s) ==
  /\ at[s] <= Len(Script(s)) + 1 /\ at[s] > 0
  /\ sent[s] = Bytes(Script(s), "send", at[s])
  /\ Plain(Script(s)) => taken[s] <= Bytes(Script(s), "recv", at[s])
  /\ Exact(Script(s)) => taken[s] = Bytes(Script(s), "recv", at[s])
  /\ payload[s] > 0 => Finished(s)
  /\ Finished(s) => Ends(Script(s))

\* What a side took was there, and a socket is forgotten only by HTTPProxy and,
\* when the server is gone, by Trojan.
StreamAt(s) ==
  /\ taken[s] <= sent[Peer(s)] + payload[Peer(s)]
  /\ end[s] = "lost" =>
        /\ s = "client"
        /\ \/ dialogue.client = "http"
           \/ dialogue.client = "trojan" /\ end["server"] = "closed"

ShakeInv == ShakeTypeOK /\ \A s \in Sides : SideAt(s) /\ StreamAt(s)

LEMMA ScriptIs ==
  ASSUME dialogue \in Dialogues, NEW s \in Sides
  PROVE  dialogue \in Dialogue /\ Meets(dialogue) /\ IsScript(Script(s))
BY HandshakeAssumption, ClientScripts, ServerScripts DEF Script, Sides

LEMMA PeerIs ==
  ASSUME NEW s \in Sides
  PROVE  Peer(s) \in Sides /\ Peer(s) # s /\ \A r \in Sides : r = s \/ r = Peer(s)
BY DEF Peer, Sides

\* What it means to take a step.
LEMMA AtStep ==
  ASSUME ShakeInv, NEW s \in Sides, Steps(s)
  PROVE  /\ at[s] \in DOMAIN Script(s) /\ Size(s) \in Nat
         /\ at[s] + 1 <= Len(Script(s)) + 1
         /\ Bytes(Script(s), "send", at[s] + 1) =
              Bytes(Script(s), "send", at[s]) + (IF Op(s) = "send" THEN Size(s) ELSE 0)
         /\ Bytes(Script(s), "recv", at[s] + 1) =
              Bytes(Script(s), "recv", at[s])
                + (IF Op(s) \in {"recv", "try"} THEN Size(s) ELSE 0)
         /\ Op(s) \in {"send", "recv", "try", "some"} /\ at[s] + 1 > Len(Script(s)) => Ends(Script(s))
<1> DEFINE t == Script(s)
           n == Len(t)
           i == at[s]
<1>1. IsScript(t)
  BY ScriptIs DEF ShakeInv, ShakeTypeOK
<1>2. n \in Nat /\ DOMAIN t = 1..n
  BY <1>1 DEF IsScript
<1>3. i \in Nat /\ i > 0 /\ i <= n
  BY <1>2 DEF ShakeInv, ShakeTypeOK, SideAt, Steps, Finished
<1> HIDE DEF n
<1>4. i \in DOMAIN t /\ i + 1 <= n + 1 /\ (i + 1 > n => i = n) /\ n > 0
  BY <1>2, <1>3
<1> HIDE DEF t, i
<1>5. t[i][2] \in Nat
  BY <1>1, <1>4, StepIs
<1>6. /\ Bytes(t, "send", i + 1) = Bytes(t, "send", i) + (IF t[i][1] = "send" THEN t[i][2] ELSE 0)
      /\ Bytes(t, "recv", i + 1) = Bytes(t, "recv", i) + (IF t[i][1] \in {"recv", "try"} THEN t[i][2] ELSE 0)
  BY <1>1, <1>4, BytesStep DEF Kind
<1>7. t[i][1] \in {"send", "recv", "try", "some"} /\ i + 1 > n => Ends(t)
  BY <1>4 DEF Ends, n
<1> QED
  BY <1>4, <1>5, <1>6, <1>7 DEF Op, Size, t, i, n

LEMMA ShakeStarts ==
  ASSUME ShakeInit
  PROVE  ShakeInv
<1>1. ShakeTypeOK
  BY DEF ShakeInit, ShakeTypeOK
<1>2. ASSUME NEW s \in Sides PROVE SideAt(s) /\ StreamAt(s)
  <2> DEFINE n == Len(Script(s))
  <2>1. n \in Nat /\ at[s] = 1 /\ sent[s] = 0 /\ taken[s] = 0 /\ payload[s] = 0
    BY <1>1, ScriptIs DEF ShakeInit, IsScript
  <2>2. /\ sent[Peer(s)] = 0 /\ payload[Peer(s)] = 0 /\ end[s] = "open"
    BY PeerIs DEF ShakeInit
  <2>3. Finished(s) => Ends(Script(s))
    BY <2>1 DEF Finished, Ends
  <2> QED
    BY <2>1, <2>2, <2>3, BytesStart DEF SideAt, StreamAt
<1> QED BY <1>1, <1>2 DEF ShakeInv

\* A read or a write that succeeds, or a read that is given up, moves one side on by what it says.
LEMMA Advances ==
  ASSUME ShakeInv, NEW s \in Sides, Steps(s), Op(s) \in {"send", "recv", "try", "some"},
         dialogue' = dialogue, end' = end, payload' = payload,
         at' = [at EXCEPT ![s] = @ + 1],
         NEW m \in Nat, NEW n \in Nat,
         sent' = [sent EXCEPT ![s] = @ + m], taken' = [taken EXCEPT ![s] = @ + n],
         m = (IF Op(s) = "send" THEN Size(s) ELSE 0),
         Op(s) \in {"send", "recv"} => n = (IF Op(s) = "recv" THEN Size(s) ELSE 0),
         Op(s) = "try" => n <= Size(s),
         taken[s] + n <= sent[Peer(s)] + payload[Peer(s)]
  PROVE  ShakeInv'
<1>1. ShakeTypeOK /\ ShakeTypeOK'
  BY DEF ShakeInv, ShakeTypeOK
<1>2. \A r \in Sides : Script(r)' = Script(r) /\ SideAt(r) /\ StreamAt(r)
  BY DEF Script, ShakeInv
<1>3. SideAt(s)'
  <2> DEFINE t == Script(s)
             i == at[s]
             l == Len(t)
  <2>1. /\ at'[s] = i + 1 /\ sent'[s] = sent[s] + m /\ taken'[s] = taken[s] + n
        /\ payload'[s] = payload[s] /\ Script(s)' = t /\ i \in Nat /\ l \in Nat
    BY <1>1, <1>2, ScriptIs DEF ShakeTypeOK, IsScript
  <2>2. /\ sent[s] = Bytes(t, "send", i) /\ (Plain(t) => taken[s] <= Bytes(t, "recv", i))
        /\ Exact(t) => taken[s] = Bytes(t, "recv", i)
        /\ payload[s] > 0 => i > l
        /\ i <= l
    BY <1>1, <1>2, <2>1 DEF SideAt, Steps, Finished, ShakeTypeOK
  <2>3. /\ i + 1 <= l + 1 /\ Bytes(t, "send", i + 1) = Bytes(t, "send", i) + m
        /\ Bytes(t, "recv", i + 1) =
             Bytes(t, "recv", i) + (IF Op(s) \in {"recv", "try"} THEN Size(s) ELSE 0)
        /\ i + 1 > l => Ends(t)
    BY AtStep
  <2>4. /\ Plain(t) => Op(s) \in {"send", "recv", "try"}
        /\ Exact(t) => Op(s) \in {"send", "recv"}
    BY AtStep DEF Plain, Exact, Op
  <2>5. /\ payload[s] \in Nat /\ taken[s] \in Nat /\ Size(s) \in Nat
        /\ Bytes(t, "recv", i) \in Nat
    BY <1>1, <1>2, AtStep, ScriptIs, BytesStep DEF ShakeTypeOK
  <2> HIDE DEF t, i, l
  <2>6. /\ i + 1 <= l + 1 /\ i + 1 > 0
        /\ sent'[s] = Bytes(t, "send", i + 1)
        /\ Plain(t) => taken'[s] <= Bytes(t, "recv", i + 1)
        /\ Exact(t) => taken'[s] = Bytes(t, "recv", i + 1)
        /\ ~(payload'[s] > 0)
        /\ i + 1 > l => Ends(t)
    BY <2>1, <2>2, <2>3, <2>4, <2>5
  <2> QED BY <2>1, <2>6 DEF SideAt, Finished, l
<1>4. ASSUME NEW r \in Sides, r # s PROVE SideAt(r)'
  <2>1. /\ at'[r] = at[r] /\ sent'[r] = sent[r] /\ taken'[r] = taken[r]
        /\ payload'[r] = payload[r]
    BY <1>1, <1>4 DEF ShakeTypeOK
  <2> QED BY <1>2, <2>1 DEF SideAt, Finished
<1>5. ASSUME NEW r \in Sides PROVE StreamAt(r)'
  <2>1. /\ taken'[r] = (IF r = s THEN taken[r] + n ELSE taken[r])
        /\ sent'[Peer(r)] = (IF Peer(r) = s THEN sent[Peer(r)] + m ELSE sent[Peer(r)])
        /\ sent[Peer(r)] \in Nat /\ payload[Peer(r)] \in Nat /\ taken[r] \in Nat
    BY <1>1, PeerIs DEF ShakeTypeOK
  <2>2. taken'[r] <= sent'[Peer(r)] + payload'[Peer(r)]
    BY <1>2, <2>1, PeerIs DEF StreamAt
  <2> QED BY <1>2, <2>2 DEF StreamAt
<1> QED BY <1>1, <1>3, <1>4, <1>5 DEF ShakeInv

LEMMA WriteSteps ==
  ASSUME ShakeInv, NEW s \in Sides, Write(s)
  PROVE  ShakeInv'
<1> DEFINE m == Size(s)
<1>1. /\ Steps(s) /\ Op(s) = "send" /\ dialogue' = dialogue /\ end' = end
      /\ at' = [at EXCEPT ![s] = @ + 1] /\ sent' = [sent EXCEPT ![s] = @ + m]
      /\ payload' = payload /\ taken' = taken /\ m \in Nat
  BY AtStep DEF Write, Advance
<1>2. /\ taken' = [taken EXCEPT ![s] = @ + 0]
      /\ taken[s] + 0 <= sent[Peer(s)] + payload[Peer(s)]
  BY <1>1 DEF ShakeInv, ShakeTypeOK, StreamAt
<1>3. m = (IF Op(s) = "send" THEN Size(s) ELSE 0)
  BY <1>1
<1>4. /\ Op(s) \in {"send", "recv"} => 0 = (IF Op(s) = "recv" THEN Size(s) ELSE 0)
      /\ Op(s) # "try"
  BY <1>1
<1> HIDE DEF m
<1> QED BY <1>1, <1>2, <1>3, <1>4, Advances

LEMMA ReadSteps ==
  ASSUME ShakeInv, NEW s \in Sides, ReadFull(s) \/ ReadBuffered(s) \/ ReadIgnored(s)
  PROVE  ShakeInv'
<1>0. ShakeTypeOK
  BY DEF ShakeInv
<1>1. PICK n \in Nat :
        /\ Steps(s) /\ Op(s) \in {"recv", "try", "some"} /\ dialogue' = dialogue /\ end' = end
        /\ at' = [at EXCEPT ![s] = @ + 1] /\ taken' = [taken EXCEPT ![s] = @ + n]
        /\ payload' = payload /\ sent' = sent
        /\ n <= Available(s) /\ (Op(s) = "recv" => n = Size(s))
        /\ Op(s) = "try" => n <= Size(s)
  <2>1. CASE ReadFull(s)
    <3>1. /\ Steps(s) /\ Op(s) \in {"recv", "try"} /\ dialogue' = dialogue /\ end' = end
          /\ at' = [at EXCEPT ![s] = @ + 1] /\ payload' = payload /\ sent' = sent
          /\ taken' = [taken EXCEPT ![s] = @ + Size(s)]
          /\ Size(s) \in Nat /\ Size(s) <= Available(s)
      BY <2>1, AtStep DEF ReadFull, Advance
    <3> HIDE DEF Available
    <3>2. Size(s) <= Size(s)
      BY <3>1
    <3> QED BY <3>1, <3>2, Zenon
  <2>2. CASE ReadBuffered(s)
    <3>1. /\ Steps(s) /\ Op(s) = "some" /\ dialogue' = dialogue /\ end' = end
          /\ at' = [at EXCEPT ![s] = @ + 1] /\ payload' = payload /\ sent' = sent
          /\ Size(s) \in Nat
      BY <2>2, AtStep DEF ReadBuffered, Advance
    <3>2. PICK n \in Size(s)..Available(s) : taken' = [taken EXCEPT ![s] = @ + n]
      BY <2>2 DEF ReadBuffered
    <3>3. Available(s) \in Int
      BY <1>0, PeerIs DEF Available, ShakeTypeOK
    <3>4. n \in Nat /\ n <= Available(s)
      BY <3>1, <3>3
    <3> QED BY <3>1, <3>2, <3>4
  <2>3. CASE ReadIgnored(s)
    <3>1. taken[s] <= sent[Peer(s)] + payload[Peer(s)]
      BY DEF ShakeInv, StreamAt
    <3>2. Available(s) \in Nat
      BY <1>0, <3>1, PeerIs DEF Available, ShakeTypeOK
    <3>3. /\ Steps(s) /\ Op(s) = "try" /\ dialogue' = dialogue /\ end' = end
          /\ at' = [at EXCEPT ![s] = @ + 1] /\ payload' = payload /\ sent' = sent
          /\ taken' = [taken EXCEPT ![s] = @ + Available(s)]
          /\ Size(s) \in Nat /\ Available(s) < Size(s)
      BY <2>3, AtStep DEF ReadIgnored, Advance
    <3> HIDE DEF Available
    <3>4. Available(s) <= Size(s) /\ Available(s) <= Available(s)
      BY <3>2, <3>3
    <3>5. Op(s) # "recv"
      BY <3>3
    <3> QED BY <3>2, <3>3, <3>4, <3>5, Zenon
  <2> QED BY <2>1, <2>2, <2>3
<1>2. taken[s] + n <= sent[Peer(s)] + payload[Peer(s)]
  BY <1>0, <1>1, PeerIs DEF ShakeTypeOK, Available
<1>3. sent' = [sent EXCEPT ![s] = @ + 0]
  BY <1>0, <1>1 DEF ShakeTypeOK
<1>4. /\ 0 = (IF Op(s) = "send" THEN Size(s) ELSE 0)
      /\ Op(s) \in {"send", "recv"} => n = (IF Op(s) = "recv" THEN Size(s) ELSE 0)
      /\ Op(s) = "try" => n <= Size(s)
  BY <1>1
<1> QED BY <1>1, <1>2, <1>3, <1>4, Advances

\* A side that gives up.
LEMMA EndSteps ==
  ASSUME ShakeInv, NEW s \in Sides, ReadFails(s) \/ Leave(s) \/ Vanish(s)
  PROVE  ShakeInv'
<1>1. /\ Steps(s) /\ dialogue' = dialogue /\ at' = at /\ sent' = sent
      /\ payload' = payload /\ taken' = taken
  BY DEF ReadFails, Leave, Vanish
<1>2. PICK e \in {"closed", "lost"} : end' = [end EXCEPT ![s] = e]
  BY DEF ReadFails, Leave, Vanish
<1>3. ShakeTypeOK /\ ShakeTypeOK'
  BY <1>1, <1>2 DEF ShakeInv, ShakeTypeOK
<1>4. \A r \in Sides : Script(r)' = Script(r) /\ SideAt(r) /\ StreamAt(r)
  BY <1>1 DEF Script, ShakeInv
<1>5. ASSUME NEW r \in Sides PROVE SideAt(r)'
  BY <1>1, <1>4 DEF SideAt, Finished
<1>6. end'[s] = "lost" =>
        /\ s = "client"
        /\ \/ dialogue.client = "http"
           \/ dialogue.client = "trojan" /\ end["server"] = "closed"
  <2>1. CASE ReadFails(s)
    BY <1>3, <2>1 DEF ReadFails, ShakeTypeOK, Peer
  <2>2. CASE Leave(s)
    <3>1. end'[s] = "lost" => Op(s) = "drop"
      BY <1>3, <2>2 DEF Leave, ShakeTypeOK
    <3>2. Op(s) = "drop" => s = "client" /\ dialogue.client = "http"
      BY <1>1, <1>3, AtStep, ScriptIs, Drops DEF Op, Script, Sides, ShakeTypeOK
    <3> QED BY <3>1, <3>2
  <2>3. CASE Vanish(s)
    BY <1>3, <2>3 DEF Vanish, ShakeTypeOK
  <2> QED BY <2>1, <2>2, <2>3
<1>7. end["server"] = "closed" => end'["server"] = "closed"
  BY <1>1, <1>2, <1>3 DEF Steps, ShakeTypeOK, Sides
<1>8. ASSUME NEW r \in Sides PROVE StreamAt(r)'
  <2>1. r # s => end'[r] = end[r]
    BY <1>2, <1>3 DEF ShakeTypeOK
  <2> QED BY <1>1, <1>4, <1>6, <1>7, <2>1 DEF StreamAt
<1> QED BY <1>3, <1>5, <1>8 DEF ShakeInv

LEMMA SpeakSteps ==
  ASSUME ShakeInv, NEW s \in Sides, Speak(s)
  PROVE  ShakeInv'
<1>1. /\ Finished(s) /\ dialogue' = dialogue /\ at' = at /\ sent' = sent /\ end' = end
      /\ payload' = [payload EXCEPT ![s] = @ + 1] /\ taken' = taken
  BY DEF Speak
<1>2. ShakeTypeOK /\ ShakeTypeOK'
  BY <1>1 DEF ShakeInv, ShakeTypeOK
<1>3. \A r \in Sides : Script(r)' = Script(r) /\ SideAt(r) /\ StreamAt(r)
  BY <1>1 DEF Script, ShakeInv
<1>4. ASSUME NEW r \in Sides
      PROVE  payload'[r] = (IF r = s THEN payload[r] + 1 ELSE payload[r]) /\ payload[r] \in Nat
  BY <1>1, <1>2 DEF ShakeTypeOK
<1>5. ASSUME NEW r \in Sides PROVE SideAt(r)'
  BY <1>1, <1>3, <1>4 DEF SideAt, Finished
<1>6. ASSUME NEW r \in Sides PROVE StreamAt(r)'
  <2>1. /\ taken[r] \in Nat /\ sent[Peer(r)] \in Nat /\ payload[Peer(r)] \in Nat
        /\ payload'[Peer(r)] >= payload[Peer(r)] /\ payload'[Peer(r)] \in Nat
    BY <1>2, <1>4, PeerIs DEF ShakeTypeOK
  <2>2. taken'[r] <= sent'[Peer(r)] + payload'[Peer(r)]
    BY <1>1, <1>3, <2>1 DEF StreamAt
  <2> QED BY <1>1, <1>3, <2>2 DEF StreamAt
<1> QED BY <1>2, <1>5, <1>6 DEF ShakeInv

\* A handshake keeps to its scripts: each side has sent what the steps behind it
\* say, and taken that much or, in a read whose error it ignores, less.
THEOREM HandshakeKeepsToScripts ==
  ShakeSpec => []ShakeInv
<1>1. ASSUME ShakeInv, ShakeNext PROVE ShakeInv'
  BY <1>1, WriteSteps, ReadSteps, EndSteps, SpeakSteps DEF ShakeNext
<1>2. ASSUME ShakeInv, UNCHANGED shakeVars PROVE ShakeInv'
  BY <1>2 DEF ShakeInv, ShakeTypeOK, SideAt, StreamAt, Script, Finished, shakeVars
<1> QED
  BY ShakeStarts, <1>1, <1>2, PTL DEF ShakeSpec

\* Of a dialogue in which nobody is known to read too much.
CleanPair(d) ==
  /\ d.server # "listener"
  /\ d.client \notin {"socks5", "socks5-udp", "http", "https"}

LEMMA SuitsBoth ==
  ASSUME ShakeInv, CleanPair(dialogue), NEW s \in Sides
  PROVE  /\ Exact(Script(s))
         /\ Total(Script(s), "recv") <= Total(Script(Peer(s)), "send")
         /\ Ends(Script(s)) /\ Ends(Script(Peer(s))) =>
              Total(Script(s), "recv") = Total(Script(Peer(s)), "send")
         /\ \A i \in DOMAIN Script(s), j \in DOMAIN Script(Peer(s)) :
              Script(s)[i][1] = "recv" /\ Script(Peer(s))[j][1] = "recv" =>
                 \/ Bytes(Script(Peer(s)), "recv", j + 1) <= Bytes(Script(s), "send", i)
                 \/ Bytes(Script(s), "recv", i + 1) <= Bytes(Script(Peer(s)), "send", j)
<1>1. dialogue \in Dialogue /\ Meets(dialogue)
  BY ScriptIs DEF ShakeInv, ShakeTypeOK
<1>2. /\ Exact(Client(dialogue)) /\ Exact(Server(dialogue))
      /\ Suits(Client(dialogue), Server(dialogue))
  BY <1>1, ExactClient, ExactServer, CleanSuits DEF CleanPair
<1> QED BY <1>2 DEF Suits, Script, Peer, Sides

\* What a side has moved is less than what its whole script moves.
LEMMA WithinTotal ==
  ASSUME ShakeInv, NEW s \in Sides, NEW op
  PROVE  /\ Bytes(Script(s), op, at[s]) \in Nat /\ Total(Script(s), op) \in Nat
         /\ Bytes(Script(s), op, at[s]) <= Total(Script(s), op)
         /\ Finished(s) => Bytes(Script(s), op, at[s]) = Total(Script(s), op)
         /\ Steps(s) => /\ Bytes(Script(s), op, at[s] + 1) \in Nat
                        /\ Bytes(Script(s), op, at[s] + 1) <= Total(Script(s), op)
<1> DEFINE t == Script(s)
           n == Len(t)
           i == at[s]
<1>1. IsScript(t) /\ n \in Nat /\ i \in Nat /\ i > 0 /\ i <= n + 1
  BY ScriptIs DEF ShakeInv, ShakeTypeOK, SideAt, IsScript
<1>2. /\ Finished(s) <=> i > n
      /\ Steps(s) => i <= n
  BY <1>1 DEF Finished, Steps
<1> HIDE DEF t, i
<1>3. n + 1 \in 1..(n + 1) /\ i \in 1..(n + 1) /\ (i <= n => i + 1 \in 1..(n + 1)) /\ (i > n => i = n + 1)
  <2> HIDE DEF n
  <2> QED BY <1>1
<1>4. Bytes(t, op, i) \in Nat /\ Total(t, op) \in Nat /\ Bytes(t, op, i) <= Total(t, op)
  BY <1>1, <1>3, BytesGrow DEF Total
<1>5. i <= n => Bytes(t, op, i + 1) \in Nat /\ Bytes(t, op, i + 1) <= Total(t, op)
  BY <1>1, <1>3, BytesGrow DEF Total
<1>6. i > n => Bytes(t, op, i) = Total(t, op)
  BY <1>3 DEF Total
<1> QED BY <1>2, <1>4, <1>5, <1>6 DEF t, i

\* A side that reads and cannot: what it still misses was not sent.
LEMMA Blocked ==
  ASSUME ShakeInv, CleanPair(dialogue), NEW s \in Sides, Steps(s), ~Moves(s)
  PROVE  /\ Op(s) = "recv" /\ at[s] \in DOMAIN Script(s)
         /\ Script(s)[at[s]][1] = "recv"
         /\ ~(Bytes(Script(s), "recv", at[s] + 1)
                <= Bytes(Script(Peer(s)), "send", at[Peer(s)]) + payload[Peer(s)])
         /\ end[Peer(s)] # "closed"
<1>1. /\ at[s] \in DOMAIN Script(s) /\ Size(s) \in Nat
      /\ Bytes(Script(s), "recv", at[s] + 1) =
           Bytes(Script(s), "recv", at[s])
             + (IF Op(s) \in {"recv", "try"} THEN Size(s) ELSE 0)
  BY AtStep
<1>2. Exact(Script(s))
  BY SuitsBoth
<1>3. /\ Op(s) \in {"recv", "some", "try"} /\ ~(Available(s) >= Size(s)) /\ end[Peer(s)] # "closed"
  BY DEF Moves
<1>4. Op(s) = "recv"
  BY <1>1, <1>2, <1>3 DEF Exact, Op
<1>5. /\ taken[s] = Bytes(Script(s), "recv", at[s])
      /\ sent[Peer(s)] = Bytes(Script(Peer(s)), "send", at[Peer(s)])
      /\ taken[s] \in Nat /\ sent[Peer(s)] \in Nat /\ payload[Peer(s)] \in Nat
  BY <1>2, PeerIs DEF ShakeInv, ShakeTypeOK, SideAt
<1>6. ~(Bytes(Script(s), "recv", at[s] + 1) <= sent[Peer(s)] + payload[Peer(s)])
  BY <1>1, <1>3, <1>4, <1>5 DEF Available
<1> QED BY <1>1, <1>3, <1>4, <1>5, <1>6 DEF Op

\* Nobody waits for ever in a clean dialogue.
LEMMA CleanMoves ==
  ASSUME ShakeInv, CleanPair(dialogue), Over, NEW s \in Sides
  PROVE  ~Steps(s)
<1> SUFFICES ASSUME Steps(s) PROVE FALSE
  OBVIOUS
<1> DEFINE p == Peer(s)
<1>0. p \in Sides /\ ~Moves(s) /\ ~Moves(p) /\ Peer(p) = s
  BY DEF Over, Sides, Peer
<1>1. /\ Op(s) = "recv" /\ at[s] \in DOMAIN Script(s) /\ Script(s)[at[s]][1] = "recv"
      /\ ~(Bytes(Script(s), "recv", at[s] + 1) <= Bytes(Script(p), "send", at[p]) + payload[p])
      /\ end[p] # "closed"
  BY <1>0, Blocked
<1>2. payload[p] \in Nat /\ end[p] \in {"open", "closed", "lost"}
  BY <1>0 DEF ShakeInv, ShakeTypeOK
<1>3. end[p] = "open"
  <2>1. end[p] = "lost" => p = "client" /\ end["server"] = "closed"
    BY <1>0 DEF ShakeInv, StreamAt, CleanPair
  <2>2. p = "client" => s = "server"
    BY DEF Peer, Sides
  <2> QED BY <1>1, <1>2, <2>1, <2>2 DEF Steps
<1>4. CASE Finished(p)
  <2>1. Bytes(Script(p), "send", at[p]) = Total(Script(p), "send")
    BY <1>0, <1>4, WithinTotal
  <2>2. Bytes(Script(s), "recv", at[s] + 1) <= Total(Script(s), "recv")
    BY WithinTotal
  <2>3. Total(Script(s), "recv") <= Total(Script(p), "send")
    BY SuitsBoth
  <2>4. /\ Bytes(Script(s), "recv", at[s] + 1) \in Nat /\ Total(Script(s), "recv") \in Nat
        /\ Total(Script(p), "send") \in Nat
    BY <1>0, WithinTotal
  <2> QED BY <1>1, <1>2, <2>1, <2>2, <2>3, <2>4
<1>5. CASE ~Finished(p)
  <2>1. Steps(p)
    BY <1>3, <1>5 DEF Steps
  <2>2. /\ at[p] \in DOMAIN Script(p) /\ Script(p)[at[p]][1] = "recv"
        /\ ~(Bytes(Script(p), "recv", at[p] + 1) <= Bytes(Script(s), "send", at[s]) + payload[s])
    BY <1>0, <2>1, Blocked
  <2>3. /\ Bytes(Script(p), "recv", at[p] + 1) \in Nat /\ Bytes(Script(s), "recv", at[s] + 1) \in Nat
        /\ Bytes(Script(p), "send", at[p]) \in Nat /\ Bytes(Script(s), "send", at[s]) \in Nat
        /\ payload[s] \in Nat
    BY <1>0, <2>1, WithinTotal DEF ShakeInv, ShakeTypeOK
  <2>4. \/ Bytes(Script(p), "recv", at[p] + 1) <= Bytes(Script(s), "send", at[s])
        \/ Bytes(Script(s), "recv", at[s] + 1) <= Bytes(Script(p), "send", at[p])
    BY <1>1, <2>2, SuitsBoth
  <2> HIDE DEF p
  <2> QED BY <1>1, <1>2, <2>2, <2>3, <2>4
<1> QED BY <1>4, <1>5

\* Where two sides that count right have finished, each took what was sent.
LEMMA CleanEnds ==
  ASSUME ShakeInv, CleanPair(dialogue), NEW s \in Sides, Finished(s), Finished(Peer(s))
  PROVE  Clean(s)
<1>1. /\ taken[s] = Bytes(Script(s), "recv", at[s])
      /\ sent[Peer(s)] = Bytes(Script(Peer(s)), "send", at[Peer(s)])
      /\ Ends(Script(s)) /\ Ends(Script(Peer(s)))
  BY SuitsBoth, PeerIs DEF ShakeInv, SideAt
<1> QED BY <1>1, SuitsBoth, WithinTotal, PeerIs DEF Clean

\* The bytes a side takes from the one that counts differently.
LEMMA Overread ==
  ASSUME ShakeInv
  PROVE  /\ dialogue.client \in {"socks5", "socks5-udp"} =>
              taken["client"] <= sent["server"] + 1
         /\ dialogue.server = "listener" /\ dialogue.client # "http" =>
              taken["server"] <= sent["client"] + 3
<1>0. /\ "client" \in Sides /\ "server" \in Sides
      /\ Peer("client") = "server" /\ Peer("server") = "client"
      /\ Script("client") = Client(dialogue) /\ Script("server") = Server(dialogue)
  BY DEF Sides, Peer, Script
<1>1. dialogue \in Dialogue /\ Meets(dialogue)
  BY <1>0, ScriptIs DEF ShakeInv, ShakeTypeOK
<1>2. \A s \in Sides :
        /\ payload[s] \in Nat /\ taken[s] \in Nat /\ sent[s] \in Nat
        /\ sent[s] = Bytes(Script(s), "send", at[s])
        /\ Plain(Script(s)) => taken[s] <= Bytes(Script(s), "recv", at[s])
        /\ payload[s] > 0 => Finished(s)
        /\ Finished(s) => Ends(Script(s))
        /\ taken[s] <= sent[Peer(s)] + payload[Peer(s)]
  BY DEF ShakeInv, ShakeTypeOK, SideAt, StreamAt
<1>3. ASSUME NEW s \in Sides, NEW k \in Nat, Plain(Script(s)),
             Ends(Script(Peer(s))) =>
               Total(Script(s), "recv") <= Total(Script(Peer(s)), "send") + k
      PROVE  taken[s] <= sent[Peer(s)] + k
  <2> DEFINE p == Peer(s)
  <2>0. p \in Sides
    BY PeerIs
  <2>1. CASE payload[p] > 0
    <3>1. Ends(Script(p)) /\ Finished(p)
      BY <1>2, <2>0, <2>1
    <3>2. sent[p] = Total(Script(p), "send") /\ taken[s] <= Total(Script(s), "recv")
      BY <1>2, <1>3, <2>0, <3>1, WithinTotal
    <3>3. Total(Script(s), "recv") \in Nat
      BY WithinTotal
    <3> QED BY <1>2, <1>3, <2>0, <3>1, <3>2, <3>3
  <2>2. CASE ~(payload[p] > 0)
    BY <1>2, <2>0, <2>2
  <2> QED BY <2>1, <2>2
<1>4. dialogue.client \in {"socks5", "socks5-udp"} => taken["client"] <= sent["server"] + 1
  <2> SUFFICES ASSUME dialogue.client \in {"socks5", "socks5-udp"}
               PROVE  taken["client"] <= sent["server"] + 1
    OBVIOUS
  <2> QED BY <1>0, <1>1, <1>3, SocksReads, PlainClient
<1>5. dialogue.server = "listener" /\ dialogue.client # "http" =>
        taken["server"] <= sent["client"] + 3
  <2> SUFFICES ASSUME dialogue.server = "listener", dialogue.client # "http"
               PROVE  taken["server"] <= sent["client"] + 3
    OBVIOUS
  <2> QED BY <1>0, <1>1, <1>3, ListenerReads, PlainServer
<1> QED BY <1>4, <1>5

LEMMA ShakeInvClean ==
  ASSUME ShakeInv
  PROVE  HandshakeClean
<1>1. (\A s \in Sides : ~Overreads(s)) <=> CleanPair(dialogue)
  BY DEF Overreads, CleanPair, Sides
<1>2. ASSUME Over, CleanPair(dialogue)
      PROVE  \/ \A s \in Sides : Finished(s) /\ end[s] = "open" /\ Clean(s)
             \/ \E s \in Sides : end[s] # "open" /\ (Finished(Peer(s)) \/ end[Peer(s)] # "open")
  <2>1. \A s \in Sides : Finished(s) \/ end[s] # "open"
    BY <1>2, CleanMoves DEF Steps
  <2>2. CASE \E s \in Sides : end[s] # "open"
    BY <2>1, <2>2, PeerIs
  <2>3. CASE \A s \in Sides : end[s] = "open"
    BY <1>2, <2>1, <2>3, CleanEnds, PeerIs
  <2> QED BY <2>2, <2>3
<1>3. \A s \in Sides : end[s] = "lost" => s = "client" /\ dialogue.client \in {"trojan", "http"}
  BY DEF ShakeInv, StreamAt
<1>4. ASSUME Over, NEW s \in Sides, Steps(s)
      PROVE  Overreads(s) \/ Overreads(Peer(s))
  <2>1. ~CleanPair(dialogue)
    BY <1>4, CleanMoves
  <2> QED BY <1>1, <2>1, PeerIs
<1> QED
  BY <1>1, <1>2, <1>3, <1>4, Overread DEF HandshakeClean

\* Where a handshake comes to rest, for names and secrets of any length, also where
\* it does not fit into its byte, and every dialogue of clients and servers that
\* understand each other (to servers of other projects the lengths fit): between
\* sides that count right both have the connection and every byte was taken by the
\* right side, or both have given it up; elsewhere proxy/socks5.go takes one byte too
\* many and listener/http.go three.
THEOREM HandshakesComeToRest ==
  ShakeSpec => []HandshakeClean
BY HandshakeKeepsToScripts, ShakeInvClean, PTL
==============================================================================
