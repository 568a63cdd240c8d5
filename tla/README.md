# agent-netx in TLA+

A verification project for agent-netx: a Go program that bundles a routing
proxy (HTTP, SOCKS5, TProxy, MITM), two virtual private networks of its own
(n2n and stunvpv), a WireGuard-like and a tinc-like one, a DNS server, port
forwarding, a web dashboard and an LLM agent in a terminal that starts and
configures the rest. Every module is translated from the source; `PROJECT.json`
maps each definition to the lines it stands for.

## 1. Inventory

| Component | State it keeps | Operations | Talks to | What is hard | What makes it correct |
|---|---|---|---|---|---|
| n2n supernode (`n2n/supernode.go`) | `ipPool.used` (own mutex), `peers`, `addrIndex` (under `s.mu`) | register, heartbeat, bye, peer-list broadcast, clean-up | edges, by UDP; one goroutine per datagram | two locks taken one after the other; time-outs against late heartbeats; nothing survives a restart | exclusive leases, pool and table agree, the index does not dangle, no address is lost |
| n2n edge (`n2n/edge.go`) | virtual address, routes to peers | start, read loop, heartbeats, `SendTo`, stop | supernode and other edges | datagrams lost, duplicated, out of order; stale routes | an edge that is up is registered; routes converge |
| stunvpv server, client (`stunvpv/`) | `ipPool`, `peers`, `vipIndex`; the client's address and peers | STUN, register (also the heartbeat), relay, broadcast, clean-up | each other, by UDP | a heartbeat enters an address without asking the pool | no leak, a client keeps its address, relayed data names its true sender |
| sub-services (`agent/service.go`, `cmd/stop.go`) | one pid file per service, `procTable` per process | start, stop, restart, the goroutine that waits for a child | other launchers by the file, the kernel | the file is shared without a lock; late goroutines; crashed launchers | a live child is known to its launcher; stop finds what runs |
| log and dashboard (`web/`) | ring, listeners, rotating file, counters | write, subscribe, recent, rotation, REST | every subsystem writes | delivery outside the lock; indices that go stale; full channels | no gap for a reader, rotation loses nothing |
| router (`router/router.go`) | rules, proxies, mode | match, add, remove | listener, agent tools | rules and proxies replaced while connections are routed | first match wins; an unknown target only where the configuration allows one |
| proxy groups (`proxy/urltest.go`, ...) | best member, probe results, round-robin counter | connect, probe, choose | router; member proxies | probe results appended without a lock; groups that contain groups | a member that is up gets used |
| proxy protocols (`proxy/*.go`) | one connection each; a SOCKS5 UDP association has a pump and a channel | handshake, read, write | servers outside, listener, forward, frp | who reads how many bytes; a datagram against `Close` | both sides take the bytes of the handshake and no other |
| frp (`proxy/frp.go`) | one connection to the server per local one | header, relay | clients on both sides | one direction ends before the other | every end is closed |
| dns (`dns/`) | cache; a table of fake addresses that nothing fills | resolve, expire | upstream servers | a goroutine per query, no lock between `Get` and `Set` | an answer is one for this question, and not too old |
| listener (`listener/http.go`) | listeners, stop channel, connections | start, stop, relay | router, statistics | stop against start; half-closed relays; first use of a counter | stop ends start without an error of its own; counters balance |
| forward (`forward/forward.go`, `cmd/socat.go`) | UDP: the last client | accept, relay | SOCKS5 association | one variable for all clients; who closes which end | a relay never ends half; replies go to the client that asked |
| tun (`tun/tun.go`) | inbound queue, route | read, write, shutdown | overlays | send on a closed channel; two owners of one name | no loop and no route is left |
| wireguard, tinc | keys, peers | handshake, send, receive | UDP | a shared read buffer | what one side seals the other opens |
| agent (`agent/tui.go`, `llm.go`, `tools.go`, `session.go`, `memory.go`) | conversation, session files, memory, configuration | turn, tool calls, slash commands, save, load | the LLM endpoint, the user | errors in mid-turn, trimming, crashes, two owners of the memory file | every tool call has its answer; a session reloads as saved; sessions do not mix |
| config, cmd (`config/config.go`, `cmd/`) | configuration, dynamic overlay, one context for all subsystems | load, validate, merge, start everything, stop | all | several subsystems fail at once; main does not wait | what validates starts; errors are honest |
| mitm, sysproxy, netdiag, scp | certificate cache | sequential I/O | operating system | - | - |

The lines where these behaviours bite are listed under `hazards` in
`PROJECT.json`, with the properties that would catch them going wrong.

## 2. Plan

In order of weight; all of it is done.

1. `LeasePool`, `Supernode`: the lease protocol and its two locks, with proofs.
2. `N2nOverlay` composes `Supernode` with edges and a faulty network.
3. `StunVpv`: the second overlay, with a different idea of a heartbeat.
4. `AgentServices`: process table and pid file.
5. `LogRing`: ring, event streams, rotating file.
6. The data plane, a module per question: `Routing` (what does a validated
   configuration serve), `Listener` (start against stop, relays, counters),
   `Handshake` (who reads how many bytes), `Forward` (who closes which end),
   `Runtime` (who waits for whom), `Dns` (how old is an answer).
7. `SessionStore`, `AgentTui`: turns, tools, sessions, memory, crash and restart.
8. Proofs: every safety invariant and every safety action property that a run
   checks is a theorem, for every value of the constants.

## 3. Modules

| Module | Content |
|---|---|
| `LeasePool` | abstract: an address belongs to nobody or to one real address, and changes hands only by being given up |
| `Supernode` | `supernode.go`, one action per critical section: `RegisterAllocate` / `RegisterInsert` / `Broadcast`, `HeartbeatRefresh` / `HeartbeatReply`, `ByeRelease` / `ByeDelete`, `CleanupBegin` / `CleanupRelease` / `CleanupDelete`, `Tick`, `Restart` |
| `N2nOverlay` | extends `Supernode` with edges, a set of datagrams in flight, loss, duplication, reordering, crashes |
| `StunVpv` | server and clients of stunvpv with the same kind of network |
| `AgentServices` | `ServiceStart`, `Stop`, the waiting goroutine and the pid file, one action per system call or critical section |
| `LogRing` | `Write` in three steps (record, file, deliver), `Subscribe`, `Recent`, the event stream, rotation |
| `SessionStore` | the session files: `Save`, `Load`, `Delete`, `Rename`, `Import`, `Export`, `trimMessages` as operators on a directory |
| `AgentTui` | `newTUI`, the prompt with every slash command, `Complete` with its retries, tool rounds, the tools that change a file, crash |
| `Routing` | `Load`, `Validate`, `MergeDynamic`, `Register`, `buildRouter` with `Probe`, `Pick` and the `Connect` of the six groups |
| `Listener` | `Start` and `Stop` statement by statement where they share state, accept loops, handlers, the two copiers of `relay`, `StatsTracker` |
| `Handshake` | each side of each protocol as a sequence of reads and writes with their lengths, run against each other over a stream |
| `Forward` | the accept loops and relays of `forward`, frp and socat; the UDP association of the SOCKS5 client |
| `Runtime` | `fullStart`, `standaloneRun`, the subsystems as they obey the context, the TUN device with its two owners |
| `Dns` | a query through cache and resolver, time between the steps |
| `*Proofs` | theorems about the module of that name; `ListenerProofs` also about `Handshake`, `DataPlaneProofs` about `Routing`, `Dns`, `Forward` and `Runtime`, which share no variable |
| `MC*` | the module as TLC runs it; `MCDataPlane` joins the six modules of the data plane |

Conventions. An address of the pool is the last octet of the virtual address
(10 to 254 in the code). A real address is the UDP source. A table is a function
with `None` for "absent". Ages count ticks and saturate one above the time-out.
A definition whose comment says "mutant" or "with a fault" is a wrong variant of the
definition that follows it: it is no part of a specification and serves to show
that a property would notice the fault.

State and code, by module:

* `Supernode`: `used` is `ipPool.used`, `peers` and `addrIndex` are the maps of
  the same names, `mu` who holds `s.mu`, `task[g]` what handler goroutine `g`
  still has to do, `sweep` the round of `cleanup` in progress. `allocate` and
  `release` have the pool's own mutex and are separate steps wherever the code
  takes the locks one after the other.
* `N2nOverlay`: `net` the datagrams in flight, `status`, `virtualIP`, `known` (its peers) of
  each edge, `due` the edges whose heartbeat is to be sent in this minute.
  `disturbed` remembers whether one of the faults happened that can cost an edge
  its lease: a lost heartbeat, a `Bye` or a `RegisterAck` delivered twice, a
  restart of the supernode. The peer list inside a register acknowledgement is
  never decoded, because `edge.go:110` reads one byte of its two-byte length
  (`MANUAL.md:317` says the list is returned).
* `StunVpv`: `peers`, `vipIndex`, `used` as in the code; `disturbed` for a first
  register delivered twice, a lost heartbeat, a restart. A STUN answer that comes
  after its deadline is read by `register`, which then fails (`client.go:130-142`).
* `AgentServices`: `table` is `procTable[name]` of each launcher, `pidFile` the
  file (absent, empty between the truncation and the write of `os.WriteFile`, or a
  pid), `linked` the launchers whose open file has not been deleted meanwhile,
  `waiter` the goroutine left by `ServiceStart`, `proc` alive, zombie or gone.
* `LogRing`: `listeners` and `idx` are positions in the slice as the closure of
  `Subscribe` remembers them (counted from 1), `tasks` the calls of `Write` past
  their critical section, `buf` the `bufio.Writer` of the file.
* `SessionStore`: `disk` is a sequence of records in the order of `List`, which
  decides what `Load` finds by name. A record keeps its file's base name beside
  its id, because an export with a relative path lands in the same directory as
  a copy. A message is its role and the session it was written in.
* `AgentTui`: `msgs`, `cur` are `t.msgs`, `t.session`; `pending` is
  `pendingAnswer`, which makes the last answer to a tool's question the next
  line at the prompt; `todo` the tool calls of the round, `attempt` the loop of
  `Complete`; `mem` the TUI's `Memory` and `memFile` its file, to which
  `run_remote` and the command line write through a `Memory` of their own;
  `conf` whether `config.yml` is there, loads, validates (state of the tools that
  write it; no property reads it). Ghosts: `hurt` (a conversation that lost
  a tool's answer to the error path or to `trimMessages`), `hollow` (stored by
  `session_save`, which stores no message, so that `/new` and `/clear` panic on
  `t.msgs[0]`), `stale` (the file of the current session was replaced behind it),
  `told` (where each host is known that was described in full: in the TUI's own map,
  in the file alone, or lost). The tools that only read are `Look`; drawing, key editing and texts are
  left out.
* `Routing`: `cfg` the loaded configuration, `phase` how far the start has come,
  `overlay` the dynamic file, `rules`, `reg` and `group` the router, the
  registry and the group under test, `call[c]` a handler between `Pick` and the
  end of `Connect`. Hosts are sequences of labels, so that suffixes are suffixes.
  Probe results are appended without a lock: an append may be lost. A proxy of
  type direct is called DIRECT, whatever its configured name (`RegName`,
  `direct.go:15`). A call is in one group at a time: a failover or url-test group
  whose member is a group is not modelled, and a group as a hop of a chain
  (`MANUAL.md:133` allows both) is a proxy like any other.
* `Listener`: `start`, `stop[x]` the program counters of `Start` and of the two
  callers of `Stop`; `ln` the published listeners, `sock` the sockets, `stopCh`
  the channel, which is nil before `Start` makes it; `late` the sockets bound
  after `Stop` looked. A bind of TPROXY may succeed in the model; in the code it
  never does, as `Start` passes `":port"` and `tproxyListen` wants an IPv4 address
  (`tproxy_linux.go:45-48`). `stats` maps a name to a counter's place in `count`, as
  the pointer that `getOrCreate` returns.
* `Handshake`: `Client(d)` and `Server(d)` are scripts; a script's reads name how
  many bytes are taken (`Recv`; `Try` where the code ignores the error and goes on
  with what was there), or at least taken (`Some`, for a `bufio.Reader` that is then
  thrown away). `d.len` is the length of the name, user or secret and `Octet` of it
  what its one byte on the wire says; `Granted` whether success is answered. A
  server outside the repository answers what the client waits for.
* `Forward`: `ends` the open ends of a connection, `copy` the running copiers
  named by the end they write to, `eof` the peers that have finished. `Closes`,
  `Deferred` and `Waited` are where the modes differ. `lastClient` is the
  package variable; `crossed` and `early` remember what excuses a wrong delivery.
* `Runtime`: `run[k]` a subsystem, `dev[u]` how far `TunDevice.Start` or
  `shutdown` of owner `u` has come: `runTUN`, or `bridgeTUN` for a transport.
* `Dns`: an address carries the time the upstream gave it, so that the age of an
  answer is a number; the ghost `took` is how long the lookup took that stored it.
  Only DoH bounds a lookup (`Tick`); DoT and the direct resolver may take for ever.

## 4. Runs

| Run | Result | What it shows |
|---|---|---|
| `supernode` | pass, 26 thousand states | Against any datagrams: `LockInv`, `NoDoubleLease`, `NoLeak`, `IndexSound`, `NoTakeover`, the refinement of `LeasePool`; a stale entry is removed or revived (`StaleRemoved`); a register that has its address completes (`RegisterCompletes`) |
| `overlay` | pass, 1.2 million states | `LeaseHeldUnlessDisturbed`: only the named faults cost an edge its lease; the composed system does nothing to the supernode but its handlers (`RefinesSupernode`) |
| `overlay_live` | pass, 76 thousand states | Once edges have settled, routes become current (`RoutesConverge`) and leaked addresses return (`LeasesConverge`) |
| `overlay_relay` | violation | Data sent by way of the supernode is dropped: `handlePacket` has no case for it, although `cmd/runtime.go` calls supernodes relays |
| `overlay_keep` | violation | After a restart of the supernode an edge's heartbeats are acknowledged for ever and it is registered nowhere |
| `stunvpv` | pass, 1.1 million states | `NoLeak`, `HoldsUnlessDisturbed`, `RelayedTruly` |
| `stunvpv_live` | pass, 70 thousand states | Heartbeats that are registers repair what was lost (`HeartbeatRestores`), also after a restart, where n2n fails; settled clients learn of each other (`PeersLearned`) |
| `services` | pass, 36 thousand states | A TUI that starts, stops, crashes and returns, and a concurrent `stop`: `LiveChildListed`, `DeathNoticed` |
| `services_stop` | violation | A late goroutine deletes the pid file of a newer child; `Stop` then denies that it runs (`StopHonest`) |
| `weblogs` | pass, 2.2 million states | `NoGap`, `OnlySeniorsSilence`, `FileIsTail` |
| `agent` | pass, 250 thousand states | `AnsweredUnlessHurt`, `LinesAnswered`, `StoredAtPrompt`, `SystemFirst`, `NoMixing`, `HostsStayKnown`; the endpoint's failures are not retried for ever (`CompleteReturns`) |
| `dataplane` | pass, 1.6 million states | `GroupsHonest`, `ValidConfigServes` (`Routing`); `CleanStop`, `AccountsBalance` (`Listener`); `HandshakeClean`; `ForwardClean`; `ShutsDown` (`Runtime`); `AnswersFresh` (`Dns`) |

The last run has six modules that share no variable: a behaviour moves one of
them, so TLC explores the union of their state spaces.

Several of these invariants say exactly where the code falls short, as the
exceptions they allow; each exception is reached, and none but those listed:

* agent: an error of the endpoint after a tool round takes back the tool's
  answer (`tui.go:552`); `trimMessages` cuts between call and answer; in a session
  stored by `session_save`, `/clear` keeps the first user line in the place of the
  system message, and the next line follows it unanswered (it takes more lines
  than the run has: the proof of `LinesAnswered` found it); a 429 or
  5xx whose body is a JSON error is not retried (`llm.go:142-182`). A host that was
  described to `run_remote` or on the command line only is lost with the next `Set`
  of a TUI that loaded the file before, although `scp.go:237` says it "never needs
  prompting again"; and every host is lost when a crash cuts the memory file short.
* routing: a dynamic overlay, once written, makes every later start fail, because
  `MergeDynamic` decodes into a value it cannot change, although `add_proxy` and
  `add_rule` promise an effect without a restart; a proxy-group is a valid target
  of a rule and is registered nowhere; `Validate` accepts an empty type and
  patterns that do not compile. `AddRule` does not look for its target, and a
  proxy of type direct is not found under its own name. A url-test group never
  replaces its best member after the probe.
* listener: a `Stop` before `Start` has made the channel leaves `Start` waiting;
  a socket bound after `Stop` looked stays open.
* handshakes: the SOCKS5 listener reads up to three bytes more than a request has
  and waits for them while the client waits for its answer; the SOCKS5 client
  takes one byte of the payload; both ignore the error of that read, so that the
  client reports a connection whose server is gone, and the listener dials for a
  client that is; a name of 252 bytes or more makes the listener panic; a name of
  256 or more is announced with its length modulo 256, so what is left of it becomes
  payload; a secret of 256 or more is refused by the server that has the same;
  `HTTPProxy` reads through a `bufio.Reader` it
  throws away; Trojan, and `HTTPProxy` with a user name, leave the socket open
  after an error.
* forwarding: a reply goes to the client that spoke last; a datagram before any
  client ends the goroutine that returns replies; `socks5UDPConn.Close` closes the
  channel under `readLoop`; the frp server never closes its target.
* start and stop: `fullStart` does not wait, so the route may stay (its comment
  says that subsystems "get a chance to clean up"); a packet may meet the closed
  `inbound`; a bridged transport and `runTUN` open one device name, and if nothing
  ends, the transport has no device; Ctrl-C does not end `wireguard`; an open log
  stream makes an error of a normal end.
* dns: a slow lookup stores over a newer entry, which bounds the age of an answer
  by the life of an entry plus the duration of the lookup that stored it. That
  duration is bounded for DoH alone, by its client's timeout: DoT has no deadline
  after the dial (`resolver.go:140-150`) and `DirectResolver` passes a context
  without one (`resolver.go:35`), so an answer may be stored there arbitrarily late
  and with a whole life before it.

### Bounds

* Overlays: two addresses in the pool and two edges or clients, so that the pool
  fills up, an address changes hands and one edge can meet another's remains; two
  handler goroutines, so that every pair of critical sections interleaves (the
  clean-up is a third party); a time-out of one tick, as ages saturate just above
  it. `MaxFaults` bounds faults, not length: behaviours are infinite. With
  `MaxFaults = 2`, `LeaseHeldUnlessDisturbed` was checked once on 3.8 million
  states, and stunvpv's safety properties with one handler on 1.4 million.
* A tick of an overlay is a minute. No datagram stays in flight for one, and a
  process that is up sends at least one heartbeat in each (the default interval is
  30 s, and the time-outs are five minutes). Within a minute every order is
  possible. The run `supernode` has none of these assumptions: any datagram may
  arrive at any time.
* `overlay_live` and `stunvpv_live` leave out data and have one handler at a
  time: there the question is what the messages achieve, and the runs above cover
  what handlers do to each other.
* `services`: three instances are the least number where a late goroutine of one,
  the live one and the next meet; one TUI (which may end and come back) and one
  command at a time. `LiveChildListed` needs a single starter (`SingleStarter`):
  a `restart` command or a second TUI consults its own empty table only, starts a
  second copy and overwrites the pid file. A pid is never reused in the model.
* `weblogs`: three streams, as two cannot silence each other; two writers; ring,
  window, channel, buffer and file of one or two places, so that each overflows. The
  run starts after `Past` entries, with a full ring and a file about to be
  rotated. A flush that cuts a line leaves it, for the model, in the buffer.
* `agent`: two sessions (one to switch to and from), one host, two lines, two
  tool calls, one crash, two retries; with three lines and one retry all its
  properties were checked once on 1.4 million states. Five messages are the limit of a session: a
  system message, a line, a call with its answer and the reply fill it, so the
  next line trims, also between call and answer. The lines and answers a user may
  give are in `MCAgentTui`.
* `dataplane`: two callers, two connections and two queries, as every race in
  these modules is one of two; in the listener either the one fault happens or the
  second connection comes (`OneOrTheOther`; the theorems have both); one relayed
  connection, whose two copiers and handler race each other; configurations for each type of group, an empty
  group, a chain over DIRECT, a proxy of type direct under a name of its own, port
  ranges the wrong way round and out of bounds; two upstream changes (`MaxFlips`); three payload bytes, as many as a side ever takes too many; lengths
  that fit (3), that fit a byte but not the listener's buffer (253) and that fit
  neither (258); queues and channels of one place; a TTL and a DoH lookup of one tick,
  and three ticks, so that an entry expires after it was overwritten; two cache
  entries (`FewEntries`), so that the questions of one domain meet.

### Fairness

* A goroutine that can run does (WF). One that waits for a Go mutex gets it (SF):
  the mutex hands itself to a waiter that starved for a millisecond.
* Tickers tick and deadlines pass.
* A datagram that is not lost is read. Losses are bounded by `MaxFaults`; nothing
  else is assumed of the network.
* Calls in progress and waiting goroutines of `AgentServices` go on (WF).
* `Complete` of the agent goes on (WF): the http client has a timeout and the loop
  a bound. Nothing is assumed of the user or of the tools.
* `dataplane` has no fairness; where its properties speak of the end (`Stoppable`,
  `RelaysEnd`, `HandshakeClean`) they say in which states something is stuck.
* Nothing is assumed of when edges, clients or services start, stop or die, or of
  when anybody calls. `RoutesConverge`, `LeasesConverge`, `HeartbeatRestores` and
  `PeersLearned` therefore start from "in the end nobody starts or stops any more".

## 5. Theorems

For every number of goroutines, addresses, edges, clients, faults and instances, of
streams, writers, connections, queries, sessions and lines, and for names and secrets
of every length. What the code fixes is fixed: `Stop` of the listener has two
callers, the watcher of the context and `Start` itself, and there are three ports.

* `SupernodeProofs`. The inductive invariant is
  `LeaseInv == SuperTypeOK /\ LockInv /\ NoDoubleLease /\ NoLeak`. `NoDoubleLease`
  alone is not inductive: a register may be given an address whose bye is half done,
  so one has to know that whoever released it still holds `s.mu` (`LockInv`) and
  that a used address is accounted for (`NoLeak`). From it follow `IndexSound`,
  the action property `NoTakeover` and the refinement of `LeasePool`, whose
  mapping `Holder` hides an entry that is already released.
* `N2nOverlayProofs`. A step of the overlay is a step of the supernode or leaves
  it alone, so its theorems carry over (`OverlayLeasesSound`); the
  type invariant of the whole needs `LeaseInv` for the addresses that answers carry.
  `LeaseAlwaysHeld` is `LeaseHeldUnlessDisturbed`. That an edge which is up is
  registered is not inductive: until the acknowledgement arrives the lease is held
  for a datagram, and a bye gives it up before it is read. The invariant treats
  acknowledgements and byes in flight and edges that are up as claims on an
  address, says that a claim is exclusive and true as long as nothing disturbed,
  and that the entry of an edge is no older than the heartbeat it owes allows.
* `StunVpvProofs`. `VpnInv` adds to types and `NoLeak` what a register in flight
  has reserved; without it, the step between the pool's lock and the table's
  breaks `NoLeak`. `HeldInv` is the invariant of `VpnAddressesHeld`
  (`HoldsUnlessDisturbed`): what heartbeats, acknowledgements and clients that are
  up claim is in table and index (`VpnClaimsHold`); an insert still to come repeats
  a lease or is for a fresh address that nobody else has; and the server knows
  nothing of a client before it has read its first register. `VpnRelaysTruly`
  (`RelayedTruly`) follows a datagram from the client through the handler that
  looks its sender up to the receiver: while the client is up, its address is its
  own. TLC agreed with `HeldInv` on the run `stunvpv`.
* `AgentServicesProofs`. With a single starter, `LiveChildListed`. `Stop` empties
  the table after it has killed the pid on file, so the proof needs that this is
  the pid of the live child (`FileIsLatest`) and how far `ServiceStart` has come
  (`StartInv`). TLC agrees with the invariant on the instance of run `services`.

* `LogRingProofs`, three invariants that share no variable but the listeners.
  `ListenerInv` for `OnlySeniorsSilence`: what is listed at or behind the index a
  closure remembers is that stream or a younger one. `StreamInv` for `NoGap`: that
  every entry since the subscription is shown, queued or coming is not inductive
  without the order in which `handleLogs` subscribes and then asks for the recent
  entries, so it says too that a writer owes an entry only to streams older than
  it (`TaskInv`) and that what is shown of the time before is the latest of it
  (`GapAt`). `FileInv` for `FileIsTail`.
* `ListenerProofs`. `LifeInv` for `CleanStop`: a socket that is open is published
  or about to be, and once `Stop` has looked, it is late or on the list of a call
  that still works (`OpenInv`); a loop whose socket is closed under it sees
  `l.closed` (`ErrorInv`). `HandlerInv` for `AccountsBalance`: the counter a
  handler is about to add to is the one its name leads to (`ConnAt`), which is what
  the second look-up under the write lock in `getOrCreate` is for, and no two
  names share one (`CounterInv`). `ShakeInv` for `HandshakeClean`: a side has moved
  what the steps behind it say, or less in a read whose error it ignores (`Exact`
  scripts have none), takes no byte that was not sent, speaks first
  only after its script, and gets to the end of none that ends with an error. The
  rest is about scripts: each has at most nine steps, so what it moves is a sum of
  nine terms (`Bytes`) and needs no induction; of two sides that both read, one has
  bytes it has not looked at (`Suits`), for a mirrored script because a read meets
  a write at the same place (`MirrorSuits`), for frp and forward by their steps;
  and the totals differ by at most one byte (`SocksReads`) or three
  (`ListenerReads`). TLC agreed with `ShakeInv` on every dialogue of the run.
* `DataPlaneProofs`. `RouteInv` for `GroupsHonest` and `ValidConfigServes`: a call
  in a failover group that looks for the i-th member has tried all before it, and
  a call in a chain is at the hop it has reached (`CallInv`); the results of a
  probe are those of members, so the best one answered (`BestInv`); the registry
  is what `Register` makes of the configuration, less what was removed
  (`RegInv`); and the target of a call that failed outside a group is excused, as
  what excuses one only grows while a process serves (`TargetInv`). `DnsInv` for `AnswersFresh`: the time an address carries
  against the expiry of its entry, less what the lookup took that stored it, and
  against the start of the lookup; only under DoH is the latter bounded. `FwdInv` for
  `ForwardClean`: which ends and copiers a connection has at each stage (`LinkAt`),
  that a query sent is the last client's or was crossed (`CrossInv`), and that a
  reply before any client is one nobody asked for (`EarlyInv`). `RuntimeInv` for
  `ShutsDown`: loops and routes exist only between the stages of `Start` and
  `shutdown`, which only a cancelled context leads to (`DeviceInv`), and a
  subsystem that ended had a reason (`SubsystemInv`).
* `AgentTuiProofs`. `TuiInv` covers a turn from prompt to prompt: a conversation
  is at rest, waits for the endpoint, or owes exactly the answers of `todo`
  (`TalkInv`); every file holds a conversation at rest, of its own session, and no
  two files have one name (`DirInv`); the file of the current session is `msgs` as
  `trimMessages` leaves them (`StoredInv`). None is inductive alone: a switch reads
  from the directory what it must then know of `msgs`, and every save puts `msgs`
  there. `ConversationsStayAnswered`, `LinesStayAnswered`, `AlwaysStoredAtPrompt`,
  `AlwaysSystemFirst` and `SessionsNeverMix` follow. `HostsAlwaysStayKnown` needs
  types only: it is inductive, as it says of each host where it is known. TLC
  agreed with `TuiInv` on the run `agent` and, by simulation, with more lines.

The assumptions are the named `ASSUME`s of the modules and, for
`LiveChildAlwaysListed`, `SingleStarter`. Most say that bounds are naturals and
sentinels no elements of the sets. Those that say more: a command that is not the
full start runs one subsystem (`RuntimeAssumption`: `standaloneRun` is given one
function); a listener has at most the three ports of `Options` and finitely many
connections (`ListenerAssumption`); a configuration's lists are sequences, and no
failover or url-test group has a group as a member (`RoutingAssumption`, a limit of
the model and not of the code, so `GroupsAlwaysHonest` says nothing of such groups,
nor of groups as hops of a chain, whose inner calls it does not follow); client and
server speak one protocol, and a length sent to a server outside the repository or
by a client that follows RFC 1928 fits its byte (`HandshakeAssumption`); the time-outs of the overlays are at least one tick
(`OverlayAssumption`, `StunAssumption`: with none, an entry would be stale before
its client could repeat itself; the code has five minutes); session ids are distinct and no name a user
gives is one (`TuiAssumption`: `New` makes them as `session_` and a random UUID).

Only model-checked: the liveness properties, which are out of the prover's reach
(`StaleRemoved`, `RegisterCompletes`, `RoutesConverge`, `LeasesConverge`,
`HeartbeatRestores`, `PeersLearned`, `DeathNoticed`, `CompleteReturns`).

## 6. Not modelled

* `handleP2PConnect` and its acknowledgement (nothing in the source sends the
  request) and stunvpv's `handleBye` (no message reaches it).
* Encryption: a bijection on datagrams. Wire formats, beyond the decoding errors
  named above (the header offsets of `MANUAL.md` 7.5 are not those of the code).
* Data delivered to the wrong edge after an address changed hands: `handleData`
  does not look at `DstIP`, the models let it happen, and nothing says it must not.
* Reading the log file back: `ReadLogFile` takes 23 characters as the time while
  lines carry a zone after them, so the level it filters by is the zone; an empty
  level is "info" and not "all" as its comment says.
* What follows a handshake in a proxy protocol: TLS, ciphers, framing. (The AEAD
  mode of Shadowsocks writes no nonce where it reads one, its stream mode sends no
  address; the model has their lengths only.)
* WireGuard's and tinc's data path. Both WireGuard peers send with `k1` and open
  with `k2`, and a tinc peer derives its key from its own public key and ignores
  the hello it gets: neither opens the other's packets, so there is no behaviour
  to check beyond that. Both hand the shared read buffer to handler goroutines.
* `forward udp` without a proxy: replies arrive at the client's socket and are sent
  to the destination again; nothing reaches a client.
* The table of fake addresses: nothing calls `Allocate` or `AddStatic`.
* The REST handlers, which only read; `Latency` and `PickBest`; flags and printing;
  `fastStart`, which wires one proxy and starts the listener.
* mitm, sysproxy, netdiag, scp's transfer, scripts: certificate libraries,
  operating system tools and sequential I/O with no state kept between calls.
