------------------------------ MODULE Runtime -------------------------------
(***************************************************************************)
(* How the program starts, bridges and stops its subsystems: cmd/root.go,  *)
(* cmd/subcommands.go and cmd/runtime.go, with the life of the TUN device  *)
(* (tun/tun.go), of the DNS and web servers and of the WireGuard peer.     *)
(*                                                                         *)
(* start runs every subsystem that is switched on; the other commands run  *)
(* one.  All share one context.  An overlay (an n2n edge, a stunvpv client *)
(* or a WireGuard peer) is bridged to a TUN device of its own, under the   *)
(* one name the configuration has.  The packets themselves are left out.   *)
(***************************************************************************)
EXTENDS Naturals, FiniteSets

CONSTANTS Plans,        \* programs: see Plan
          QueueCap,     \* capacity of inbound
          MaxFailures   \* devices, sockets and registrations that fail

Kinds == {"proxy", "dns", "web", "mitm", "tun", "overlay", "wireguard"}
Transports == {"overlay", "wireguard"}

\* full: start, otherwise a command that runs one subsystem; tun: cfg.TUN.Enable
\* and no --no-tun, so that a transport is bridged.
Plan == [full : BOOLEAN, on : SUBSET Kinds, tun : BOOLEAN]

\* A command other than start runs one subsystem.
ASSUME RuntimeAssumption ==
    /\ QueueCap \in Nat \ {0} /\ MaxFailures \in Nat
    /\ Plans \subseteq Plan
    /\ \A p \in Plans : ~p.full => \E k \in Kinds : p.on = {k}

\* The users of the TUN device: runTUN and bridgeTUN.
Owners == {"tun", "bridge"}

VARIABLES
    plan,
    cancelled,  \* the context
    main,       \* the command: up, left (it returned), gone (the process)
    code,       \* what it returned: none, nil, error
    run,        \* per subsystem: off, running, done, failed
    serving,    \* the loops of the DNS server that run
    dev,        \* per owner: the stage of Start and shutdown, see Stages
    routed,     \* the owners whose route is set
    loops,      \* the loops that run: <<owner, "read">> and <<owner, "write">>
    queue,      \* packets in inbound of the bridge
    crashed,    \* a packet was sent on the closed channel
    failures    \* ghost: failures so far

Stages == {"off", "new", "opened", "up", "devclosed", "chanclosed", "cleaned", "done", "failed"}
runtimeVars == <<plan, cancelled, main, code, run, serving, dev, routed, loops, queue,
                 crashed, failures>>
process == <<plan, cancelled, main, code>>
device == <<dev, routed, loops, queue, crashed>>

RuntimeInit ==
    /\ plan \in Plans
    /\ cancelled = FALSE /\ main = "up" /\ code = "none"
    /\ run = [k \in Kinds |-> IF k \in plan.on THEN "running" ELSE "off"]
    /\ serving = IF "dns" \in plan.on THEN {"udp", "tcp"} ELSE {}
    /\ dev = [u \in Owners |->
                IF u = "tun" THEN IF "tun" \in plan.on THEN "new" ELSE "off"
                ELSE IF plan.tun /\ plan.on \cap Transports # {} THEN "new" ELSE "off"]
    /\ routed = {} /\ loops = {} /\ queue = 0 /\ crashed = FALSE /\ failures = 0

Alive == main # "gone" /\ ~crashed
Runs(k) == Alive /\ run[k] = "running"
Becomes(k, state) == run' = [run EXCEPT ![k] = state]

------------------------------------------------------------------------------
(* The commands.                                                           *)

CtrlC ==
    /\ Alive /\ ~cancelled
    /\ cancelled' = TRUE
    /\ UNCHANGED <<plan, main, code, run, serving, device, failures>>

Returns(result) ==
    /\ Alive /\ main = "up"
    /\ main' = "left" /\ code' = result
    /\ cancelled' = TRUE
    /\ UNCHANGED <<plan, run, serving, device, failures>>

\* fullStart: the first error, the end of the proxy, or the context.
fullStart ==
    /\ plan.full
    /\ \/ (\E k \in Kinds : run[k] = "failed") /\ Returns("error")
       \/ run["proxy"] = "done" /\ Returns("nil")
       \/ cancelled /\ Returns("nil")

\* standaloneRun returns what its subsystem returns.
standaloneRun ==
    /\ ~plan.full
    /\ \E k \in plan.on :
          \/ run[k] = "failed" /\ Returns("error")
          \/ run[k] = "done" /\ Returns("nil")

\* The process ends with main and waits for no goroutine.
ProcessEnds ==
    /\ main = "left" /\ main' = "gone"
    /\ UNCHANGED <<plan, cancelled, code, run, serving, device, failures>>

------------------------------------------------------------------------------
(* Subsystems that are not about the device.                               *)

\* A listener, a socket, a registration or a certificate fails.
StartFails(k) ==
    /\ Runs(k) /\ k # "tun" /\ ~cancelled /\ failures < MaxFailures
    /\ failures' = failures + 1
    /\ Becomes(k, "failed")
    /\ serving' = IF k = "dns" THEN {} ELSE serving
    /\ UNCHANGED <<process, device>>

\* runProxy, runMITM, Edge.Start and Client.Start return once cancelled.
Obeys(k) ==
    /\ Runs(k) /\ k \in {"proxy", "mitm", "overlay"} /\ cancelled
    /\ Becomes(k, "done")
    /\ UNCHANGED <<process, serving, device, failures>>

\* serveUDP and serveTCP look at the context between two reads of 2 seconds.
dnsServe(l) ==
    /\ Runs("dns") /\ l \in serving /\ cancelled
    /\ serving' = serving \ {l}
    /\ UNCHANGED <<process, run, device, failures>>

\* Server.Stop waits for both.
dnsStop ==
    /\ Runs("dns") /\ serving = {}
    /\ Becomes("dns", "done")
    /\ UNCHANGED <<process, serving, device, failures>>

\* WebServer.Stop gives open requests five seconds; a log stream that is
\* still open makes an error of it.
webStop(streams) ==
    /\ Runs("web") /\ cancelled
    /\ Becomes("web", IF streams THEN "failed" ELSE "done")
    /\ UNCHANGED <<process, serving, device, failures>>

\* The loop of wireguard's Start looks at done, which nobody closes, and not
\* at the context: only an error of the socket ends it.
wireguardStart ==
    /\ Runs("wireguard") /\ failures < MaxFailures
    /\ failures' = failures + 1
    /\ Becomes("wireguard", "failed")
    /\ UNCHANGED <<process, serving, device>>

------------------------------------------------------------------------------
(* The TUN device.                                                         *)

Holds(u) == dev[u] \in {"opened", "up"}

\* openTun: the name is taken, or the system refuses.  runTUN returns the
\* error, bridgeTUN writes a log line.
openTun(u) ==
    /\ Alive /\ dev[u] = "new"
    /\ \/ /\ \A v \in Owners : ~Holds(v)
          /\ dev' = [dev EXCEPT ![u] = "opened"] /\ UNCHANGED <<run, failures>>
       \/ /\ \/ (\E v \in Owners : Holds(v)) /\ UNCHANGED failures
             \/ failures < MaxFailures /\ failures' = failures + 1
          /\ dev' = [dev EXCEPT ![u] = "failed"]
          /\ IF u = "tun" THEN Becomes("tun", "failed") ELSE UNCHANGED run
    /\ UNCHANGED <<process, serving, routed, loops, queue, crashed>>

\* Start goes on if AddRoute fails; the channel is made before the loops run.
tunStart(u) ==
    /\ Alive /\ dev[u] = "opened"
    /\ dev' = [dev EXCEPT ![u] = "up"]
    /\ routed' \in {routed, routed \cup {u}}
    /\ loops' = loops \cup {<<u, "read">>, <<u, "write">>}
    /\ UNCHANGED <<process, run, serving, queue, crashed, failures>>

Stage(u, from, to) == Alive /\ dev[u] = from /\ dev' = [dev EXCEPT ![u] = to]

\* shutdown: the device, the channel, the route, and then the loops.
closeDevice(u) ==
    /\ cancelled /\ Stage(u, "up", "devclosed")
    /\ UNCHANGED <<process, run, serving, routed, loops, queue, crashed, failures>>

closeInbound(u) ==
    /\ Stage(u, "devclosed", "chanclosed")
    /\ UNCHANGED <<process, run, serving, routed, loops, queue, crashed, failures>>

SkipCleanup(u) ==
    /\ Stage(u, "chanclosed", "cleaned")
    /\ UNCHANGED <<process, run, serving, routed, loops, queue, crashed, failures>>

cleanup(u) ==
    /\ Stage(u, "chanclosed", "cleaned")
    /\ routed' = routed \ {u}
    /\ UNCHANGED <<process, run, serving, loops, queue, crashed, failures>>

tunWait(u) ==
    /\ Stage(u, "cleaned", "done") /\ \A l \in {"read", "write"} : <<u, l>> \notin loops
    /\ IF u = "tun" THEN Becomes("tun", "done") ELSE UNCHANGED run
    /\ UNCHANGED <<process, serving, routed, loops, queue, crashed, failures>>

\* readLoop ends when the device is closed under it.
readLoopEnds(u) == <<u, "read">> \in loops /\ ~Holds(u)

readLoop(u) ==
    /\ Alive /\ readLoopEnds(u)
    /\ loops' = loops \ {<<u, "read">>}
    /\ UNCHANGED <<process, run, serving, dev, routed, queue, crashed, failures>>

\* writeLoop ends with the context; select is free to take a packet instead.
writeLoopEnds(u) == <<u, "write">> \in loops /\ cancelled

writeLoop(u) ==
    /\ Alive
    /\ \/ writeLoopEnds(u) /\ loops' = loops \ {<<u, "write">>} /\ UNCHANGED queue
       \/ /\ u = "bridge" /\ <<u, "write">> \in loops /\ queue > 0
          /\ queue' = queue - 1 /\ UNCHANGED loops
    /\ UNCHANGED <<process, run, serving, dev, routed, crashed, failures>>

\* The transport's callback: no channel yet, a full one and a closed one.
WritePacket ==
    /\ Alive /\ \E k \in Transports : run[k] \in {"running", "done"}
    /\ queue' = IF dev["bridge"] \in {"up", "devclosed"} /\ queue < QueueCap THEN queue + 1 ELSE queue
    /\ crashed' = (dev["bridge"] \in {"chanclosed", "cleaned", "done"})
    /\ UNCHANGED <<process, run, serving, dev, routed, loops, failures>>

RuntimeNext ==
    \/ CtrlC \/ fullStart \/ standaloneRun \/ ProcessEnds
    \/ \E k \in Kinds : StartFails(k) \/ Obeys(k)
    \/ dnsStop \/ (\E l \in {"udp", "tcp"} : dnsServe(l))
    \/ (\E streams \in BOOLEAN : webStop(streams)) \/ wireguardStart
    \/ \E u \in Owners :
          \/ openTun(u) \/ tunStart(u) \/ closeDevice(u) \/ closeInbound(u)
          \/ cleanup(u) \/ tunWait(u) \/ readLoop(u) \/ writeLoop(u)
    \/ WritePacket

RuntimeSpec == RuntimeInit /\ [][RuntimeNext]_runtimeVars

------------------------------------------------------------------------------
\* The command says error only if something failed or a log stream was open,
\* and a packet is sent on the closed channel of the device only while the
\* program is being stopped.
EndsHonestly ==
    /\ code = "error" => \E k \in Kinds : run[k] = "failed"
    /\ crashed => cancelled

\* A device whose Start is back has no loop and no route left; and a route
\* that outlives the process was set by a device main did not wait for, which
\* is each of start and the bridge of a transport, never that of runTUN alone.
NothingLeft ==
    /\ \A u \in Owners : dev[u] = "done" =>
          u \notin routed /\ <<u, "read">> \notin loops /\ <<u, "write">> \notin loops
    /\ main = "gone" => \A u \in routed : plan.full \/ u = "bridge"

\* Once the context is cancelled, shutdown never waits for a loop that cannot
\* end, and the WireGuard peer, which does not look at the context, keeps its
\* command running until it fails.
Stoppable ==
    /\ \A l \in loops : dev[l[1]] = "cleaned" =>
          IF l[2] = "read" THEN readLoopEnds(l[1]) ELSE writeLoopEnds(l[1])
    /\ ~plan.full /\ plan.on = {"wireguard"} /\ main # "up" => failures > 0

\* The device has one owner: with the TUN and a bridged transport switched on
\* under start, a program in which nothing failed and that goes on once both
\* have tried leaves the transport without the device.
OneOwner ==
    /\ \A u, v \in Owners : Holds(u) /\ Holds(v) => u = v
    /\ main = "up" /\ ~cancelled /\ failures = 0
       /\ (\A u \in Owners : dev[u] \in {"opened", "up", "failed"}) /\ run["tun"] = "running"
          => dev["bridge"] = "failed"

\* The whole of starting and stopping, in the sense of its parts.
ShutsDown == EndsHonestly /\ NothingLeft /\ Stoppable /\ OneOwner
==============================================================================
