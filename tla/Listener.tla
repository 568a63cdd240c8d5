------------------------------ MODULE Listener ------------------------------
(***************************************************************************)
(* The inbound side: listener/http.go, tproxy_linux.go and web/stats.go.   *)
(*                                                                         *)
(* Start binds up to three ports and then waits for Stop or for an error;  *)
(* the accept loops and the handlers are goroutines of their own.  A       *)
(* handler parses the request, picks and connects (Routing models how),    *)
(* relays in both directions and keeps the statistics of its proxy.  What  *)
(* is relayed is left out.                                                 *)
(***************************************************************************)
EXTENDS Naturals, Integers, Sequences, FiniteSets

CONSTANTS Ports,        \* the ports that are configured, of AllPorts
          Conns,        \* connections that may come in
          Proxies,      \* names the statistics know
          MaxFaults     \* bind and accept errors

AllPorts == <<"http", "socks", "tproxy">>

ASSUME ListenerAssumption ==
    /\ MaxFaults \in Nat /\ IsFiniteSet(Conns)
    /\ Ports \subseteq {AllPorts[i] : i \in 1..3}

VARIABLES
    start,      \* Start: new, the port it is at, serve, stopping, done
    bound,      \* the socket it has bound and not published yet, or "none"
    result,     \* what Start returned: none, nil, error
    sock,       \* per port: none, open, closed
    ln,         \* the ports whose listener is published in l
    stopCh,     \* nil, made, closed
    errs,       \* errors in the channel (capacity 2)
    closed,     \* l.closed
    stop,       \* per caller of Stop: pc, the listeners it saw, the channel
    loop,       \* per port: the accept loop: off, on, ended
    faults,     \* ghost: errors that really happened
    late        \* ghost: ports bound after Stop looked
VARIABLES
    conn,       \* per connection: pc, port, proxy, its counter, copies left
    open,       \* the open ends: <<"client", c>> and <<"remote", c>>
    stats,      \* StatsTracker.stats: name -> counter, 0 if there is none
    count       \* the counters

Stoppers == {"watcher", "start"}
life == <<start, bound, result, sock, ln, stopCh, errs, closed, stop, loop, faults, late>>
handling == <<conn, open, stats, count>>
listenVars == <<start, bound, result, sock, ln, stopCh, errs, closed, stop, loop,
                faults, late, conn, open, stats, count>>

NoStop == [pc |-> "idle", saw |-> {}, ch |-> FALSE]
NoConn == [pc |-> "none", port |-> "none", proxy |-> "none", ref |-> 0, copies |-> {}]

ListenInit ==
    /\ start = "new" /\ bound = "none" /\ result = "none"
    /\ sock = [p \in Ports |-> "none"] /\ ln = {}
    /\ stopCh = "nil" /\ errs = 0 /\ closed = FALSE
    /\ stop = [x \in Stoppers |-> NoStop]
    /\ loop = [p \in Ports |-> "off"]
    /\ faults = 0 /\ late = {}
    /\ conn = [c \in Conns |-> NoConn] /\ open = {}
    /\ stats = [p \in Proxies |-> 0] /\ count = <<>>

------------------------------------------------------------------------------
(* Start.                                                                  *)

\* The port after the i-th one that is configured, or the wait.
After(i) ==
    LET later == {j \in 1..3 : j > i /\ AllPorts[j] \in Ports}
    IN  IF later = {} THEN "serve"
        ELSE AllPorts[CHOOSE j \in later : \A k \in later : j <= k]

Index(p) == CHOOSE i \in 1..3 : AllPorts[i] = p

\* Without a port there is nothing to wait for.
Start ==
    /\ start = "new"
    /\ stopCh' = "made"
    /\ start' = IF Ports = {} THEN "done" ELSE After(0)
    /\ result' = IF Ports = {} THEN "nil" ELSE result
    /\ UNCHANGED <<bound, sock, ln, errs, closed, stop, loop, faults, late, handling>>

Bind(p) ==
    /\ start = p /\ bound = "none"
    /\ sock' = [sock EXCEPT ![p] = "open"] /\ bound' = p
    /\ late' = IF closed THEN late \cup {p} ELSE late
    /\ UNCHANGED <<start, result, ln, stopCh, errs, closed, stop, loop, faults, handling>>

\* An error of the first port is returned at once, of the others after Stop.
BindFails(p) ==
    /\ start = p /\ bound = "none" /\ faults < MaxFaults
    /\ faults' = faults + 1
    /\ result' = "error"
    /\ start' = IF p = "http" THEN "done" ELSE "stopping"
    /\ UNCHANGED <<bound, sock, ln, stopCh, errs, closed, stop, loop, late, handling>>

\* l.httpLn = ln under the lock, and the accept loop is started.
Publish(p) ==
    /\ start = p /\ bound = p
    /\ ln' = ln \cup {p} /\ bound' = "none"
    /\ late' = IF closed THEN late \cup {p} ELSE late
    /\ loop' = [loop EXCEPT ![p] = "on"]
    /\ start' = After(Index(p))
    /\ UNCHANGED <<result, sock, stopCh, errs, closed, stop, faults, handling>>

Stopped ==
    /\ start = "serve" /\ stopCh = "closed"
    /\ start' = "done" /\ result' = "nil"
    /\ UNCHANGED <<bound, sock, ln, stopCh, errs, closed, stop, loop, faults, late, handling>>

Broken ==
    /\ start = "serve" /\ errs > 0
    /\ errs' = errs - 1 /\ result' = "error" /\ start' = "stopping"
    /\ UNCHANGED <<bound, sock, ln, stopCh, closed, stop, loop, faults, late, handling>>

Return ==
    /\ start = "stopping" /\ stop["start"].pc = "done"
    /\ start' = "done"
    /\ UNCHANGED <<bound, result, sock, ln, stopCh, errs, closed, stop, loop, faults, late, handling>>

------------------------------------------------------------------------------
(* Stop, called by the watcher of the context at any time and by Start.    *)

Calls(x) == stop[x].pc = "idle" /\ (x = "start" => start = "stopping")

Look(x, mark) ==
    /\ Calls(x)
    /\ IF closed
       THEN stop' = [stop EXCEPT ![x] = [stop[x] EXCEPT !.pc = "done"]] /\ UNCHANGED closed
       ELSE /\ stop' = [stop EXCEPT ![x] = [pc |-> "closing", saw |-> ln, ch |-> stopCh # "nil"]]
            /\ closed' = mark
    /\ UNCHANGED <<start, bound, result, sock, ln, stopCh, errs, loop, faults, handling>>
    /\ late' = IF ~closed /\ bound # "none" THEN late \cup {bound} ELSE late

StopUnmarked(x) == Look(x, FALSE)

\* closed is set and the listeners are taken over under one lock.
Stop(x) == Look(x, TRUE)

StopClose(x, p) ==
    /\ stop[x].pc = "closing" /\ p \in stop[x].saw
    /\ sock' = [sock EXCEPT ![p] = "closed"]
    /\ stop' = [stop EXCEPT ![x] = [stop[x] EXCEPT !.saw = @ \ {p}]]
    /\ UNCHANGED <<start, bound, result, ln, stopCh, errs, closed, loop, faults, late, handling>>

StopEnd(x) ==
    /\ stop[x].pc = "closing" /\ stop[x].saw = {}
    /\ stop' = [stop EXCEPT ![x] = [stop[x] EXCEPT !.pc = "done"]]
    /\ stopCh' = IF stop[x].ch THEN "closed" ELSE stopCh
    /\ UNCHANGED <<start, bound, result, sock, ln, errs, closed, loop, faults, late, handling>>

------------------------------------------------------------------------------
(* The accept loops.                                                       *)

\* fatalAccept: silent once closed, dropped when the channel is full; the
\* SOCKS5 loop only writes a log line.
fatalAccept(p) ==
    errs' = IF ~closed /\ p # "socks" /\ errs < 2 THEN errs + 1 ELSE errs

\* Accept fails because the socket was closed, or because it really fails;
\* either way the loop closes its listener and ends.
AcceptFails(p) ==
    /\ loop[p] = "on"
    /\ \/ sock[p] = "closed" /\ UNCHANGED faults
       \/ sock[p] = "open" /\ faults < MaxFaults /\ faults' = faults + 1
    /\ fatalAccept(p)
    /\ loop' = [loop EXCEPT ![p] = "ended"]
    /\ sock' = [sock EXCEPT ![p] = "closed"]
    /\ UNCHANGED <<start, bound, result, ln, stopCh, closed, stop, late, handling>>

Accept(p, c) ==
    /\ p \in Ports /\ loop[p] = "on" /\ sock[p] = "open" /\ conn[c].pc = "none"
    /\ conn' = [conn EXCEPT ![c] = [[NoConn EXCEPT !.pc = "parse"] EXCEPT !.port = p]]
    /\ open' = open \cup {<<"client", c>>}
    /\ UNCHANGED <<life, stats, count>>

serveHTTP(c) == Accept("http", c)

serveSOCKS5(c) == Accept("socks", c)

serveTProxy(c) == Accept("tproxy", c)

------------------------------------------------------------------------------
(* The handlers.                                                           *)

Step(c, r) == conn' = [conn EXCEPT ![c] = r]
At(c, pc) == [conn[c] EXCEPT !.pc = pc]

\* The deferred Close of the client's connection.
End(c, shut) ==
    /\ Step(c, At(c, "end"))
    /\ open' = open \ shut
    /\ UNCHANGED <<life, stats, count>>

\* A request that cannot be read, a target nobody is picked for and a connect
\* that fails end the handler.
Refuse(c) ==
    conn[c].pc \in {"parse", "dial"} /\ End(c, {<<"client", c>>})

\* Pick chose a proxy for the target of the request.
Picked(c, port, proxy) ==
    /\ conn[c].pc = "parse" /\ conn[c].port = port
    /\ Step(c, [At(c, "dial") EXCEPT !.proxy = proxy])
    /\ UNCHANGED <<life, open, stats, count>>

handleHTTP(c, proxy) == Picked(c, "http", proxy)

socksConnect(c, proxy) == Picked(c, "socks", proxy)

\* The target is the address the connection was meant for.
handleTProxy(c, proxy) == Picked(c, "tproxy", proxy)

\* UDP ASSOCIATE: a socket of its own until the control connection ends.
Associate(c) ==
    /\ conn[c].pc = "parse" /\ conn[c].port = "socks"
    /\ Step(c, At(c, "udp"))
    /\ open' = open \cup {<<"remote", c>>}
    /\ UNCHANGED <<life, stats, count>>

Disassociate(c) ==
    conn[c].pc = "udp" /\ End(c, {<<"client", c>>, <<"remote", c>>})

Connected(c) ==
    /\ conn[c].pc = "dial"
    /\ Step(c, At(c, "find"))
    /\ open' = open \cup {<<"remote", c>>}
    /\ UNCHANGED <<life, stats, count>>

\* getOrCreate: look under the read lock, then again under the write lock.
Find(c) ==
    /\ conn[c].pc = "find"
    /\ Step(c, [At(c, IF stats[conn[c].proxy] = 0 THEN "create" ELSE "add")
                   EXCEPT !.ref = stats[conn[c].proxy]])
    /\ UNCHANGED <<life, open, stats, count>>

CreateBlindly(c) ==
    /\ conn[c].pc = "create"
    /\ count' = Append(count, 0)
    /\ stats' = [stats EXCEPT ![conn[c].proxy] = Len(count')]
    /\ Step(c, [At(c, "add") EXCEPT !.ref = Len(count')])
    /\ UNCHANGED <<life, open>>

Create(c) ==
    /\ conn[c].pc = "create"
    /\ IF stats[conn[c].proxy] # 0
       THEN UNCHANGED <<stats, count>>
       ELSE /\ count' = Append(count, 0)
            /\ stats' = [stats EXCEPT ![conn[c].proxy] = Len(count')]
    /\ Step(c, [At(c, "add") EXCEPT !.ref = stats'[conn[c].proxy]])
    /\ UNCHANGED <<life, open>>

\* AddConnection, and the two copying goroutines.
AddConnection(c) ==
    /\ conn[c].pc = "add"
    /\ count' = [count EXCEPT ![conn[c].ref] = @ + 1]
    /\ Step(c, [At(c, "relay") EXCEPT !.copies = {"copy", "close"} \X {"client", "remote"}])
    /\ UNCHANGED <<life, open, stats>>

\* io.Copy to one end is over: its source is at its end, or either end is
\* closed; done is signalled.
CopyEnds(c, to) ==
    /\ <<"copy", to>> \in conn[c].copies
    /\ Step(c, [conn[c] EXCEPT !.copies = @ \ {<<"copy", to>>}])
    /\ UNCHANGED <<life, open, stats, count>>

\* Then the goroutine closes the end it wrote to.
CopyCloses(c, to) ==
    /\ <<"copy", to>> \notin conn[c].copies /\ <<"close", to>> \in conn[c].copies
    /\ Step(c, [conn[c] EXCEPT !.copies = @ \ {<<"close", to>>}])
    /\ open' = open \ {<<to, c>>}
    /\ UNCHANGED <<life, stats, count>>

\* Both directions are done: RemoveConnection, whose getOrCreate finds the
\* counter by name, and the handler's own Close of the ends.
RemoveConnection(c) ==
    /\ conn[c].pc = "relay" /\ \A to \in {"client", "remote"} : <<"copy", to>> \notin conn[c].copies
    /\ count' = [count EXCEPT ![stats[conn[c].proxy]] = @ - 1]
    /\ Step(c, At(c, "end"))
    /\ open' = open \ {<<"client", c>>}
    /\ UNCHANGED <<life, stats>>

ListenNext ==
    \/ Start \/ Stopped \/ Broken \/ Return
    \/ \E p \in Ports :
          Bind(p) \/ BindFails(p) \/ Publish(p) \/ AcceptFails(p)
    \/ \E x \in Stoppers :
          Stop(x) \/ StopEnd(x) \/ \E p \in Ports : StopClose(x, p)
    \/ \E c \in Conns :
          \/ serveHTTP(c) \/ serveSOCKS5(c) \/ serveTProxy(c)
          \/ Refuse(c) \/ Associate(c) \/ Disassociate(c) \/ Connected(c)
          \/ Find(c) \/ Create(c) \/ AddConnection(c) \/ RemoveConnection(c)
          \/ \E proxy \in Proxies :
                handleHTTP(c, proxy) \/ socksConnect(c, proxy) \/ handleTProxy(c, proxy)
          \/ \E to \in {"client", "remote"} : CopyEnds(c, to) \/ CopyCloses(c, to)

ListenSpec == ListenInit /\ [][ListenNext]_listenVars

------------------------------------------------------------------------------
\* Stopping is clean whatever it races with.  Start reports an error only if
\* a bind or an accept really failed, never because Stop closed a socket under
\* an accept loop; once Start is back and the calls of Stop are over, a socket
\* is open only if Stop looked before it was published; and Start waits for
\* ever only if Stop came before the channel was made.
CleanStop ==
    /\ result = "error" => faults > 0
    /\ start = "done" /\ stop["watcher"].pc = "done" /\ stop["start"].pc # "closing" =>
          \A p \in Ports : sock[p] = "open" => p \in late
    /\ start = "serve" /\ stop["watcher"].pc = "done" /\ stopCh # "closed" /\ errs = 0 =>
          ~stop["watcher"].ch

\* The number of connections a proxy is shown with is the number of handlers
\* that relay through it, although the counter is created by whichever comes
\* first; and a handler that is gone, with its copiers, left no end open.
AccountsBalance ==
    /\ \A p \in Proxies :
          (IF stats[p] = 0 THEN 0 ELSE count[stats[p]])
             = Cardinality({c \in Conns : conn[c].pc = "relay" /\ conn[c].proxy = p})
    /\ \A c \in Conns : conn[c].pc = "end" /\ conn[c].copies = {} =>
          open \cap {<<"client", c>>, <<"remote", c>>} = {}
==============================================================================
