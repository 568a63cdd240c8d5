------------------------------ MODULE Forward -------------------------------
(***************************************************************************)
(* Port forwarding: forward/forward.go with the relays of proxy/frp.go and *)
(* cmd/socat.go, and the UDP association of proxy/socks5.go.               *)
(*                                                                         *)
(* A forwarder accepts connections, and a handler for each of them reaches *)
(* the destination and copies in both directions.  The modes differ in who *)
(* closes what.  forward.UDP has one socket for its clients, one for the   *)
(* association, and one variable for the client that spoke last.           *)
(***************************************************************************)
EXTENDS Naturals, Sequences, FiniteSets

CONSTANTS Links,        \* connections that may come in
          Users,        \* clients that send datagrams
          ChanCap,      \* capacity of readCh
          MaxErrors,    \* errors of Accept, unsolicited datagrams
          MaxQueries    \* datagrams a client may send

\* No client is the nil address or the sender of a datagram nobody asked for.
ASSUME ForwardAssumption ==
    /\ ChanCap \in Nat \ {0} /\ MaxErrors \in Nat /\ MaxQueries \in Nat
    /\ "nil" \notin Users /\ "stray" \notin Users

Modes == {"local", "dynamic", "remote", "tls", "frps", "frpc", "socat", "udp"}

\* The modes of the command forward: an interrupt cancels their context.
Cancellable == {"local", "dynamic", "remote", "tls", "udp"}

VARIABLES
    mode,
    ctx,        \* live or cancelled
    lsock,      \* the listening socket: open, closed
    returned,   \* what the forwarder returned: none, nil, error
    link,       \* per connection: none, shake, relay, over
    copy,       \* the copiers that run: <<c, the end they write to>>
    ends,       \* the open ends: <<c, "client">> and <<c, "dest">>
    eof,        \* the ends whose peer has finished
    errors      \* errors and unsolicited datagrams so far
VARIABLES
    lastClient, \* the client that sent the last datagram, or "nil"
    asked,      \* queries sent and not answered yet: <<client, number>>
    sentBy,     \* how many datagrams each client has sent
    pump,       \* readLoop: Waiting, a reply it holds, Ended, Panicked
    readCh,     \* replies for ReadFrom
    assoc,      \* the association: open, chan (readCh is closed), closed
    replies,    \* the goroutine that returns replies: on, ended
    home,       \* ghost: <<asked by, delivered to>> of replies
    crossed,    \* ghost: queries another client spoke after
    early       \* ghost: a datagram came in before any client spoke

Pair(c) == {<<c, "client">>, <<c, "dest">>}
Other(e) == IF e = "client" THEN "dest" ELSE "client"

\* The states of readLoop beside a datagram it holds, <<client, number>>.
Waiting == <<"waiting", 0>>
Ended == <<"ended", 0>>
Panicked == <<"panicked", 0>>
Stray == <<"stray", 0>>

tcp == <<link, copy, ends, eof>>
udp == <<lastClient, asked, sentBy, pump, readCh, assoc, replies, home, crossed, early>>
fwdVars == <<mode, ctx, lsock, returned, link, copy, ends, eof, errors,
             lastClient, asked, sentBy, pump, readCh, assoc, replies, home, crossed, early>>

FwdInit ==
    /\ mode \in Modes
    /\ ctx = "live" /\ lsock = "open" /\ returned = "none" /\ errors = 0
    /\ link = [c \in Links |-> "none"] /\ copy = {} /\ ends = {} /\ eof = {}
    /\ lastClient = "nil" /\ asked = {} /\ sentBy = [u \in Users |-> 0]
    /\ pump = Waiting /\ readCh = <<>> /\ assoc = "open" /\ replies = "on"
    /\ home = {} /\ crossed = {} /\ early = FALSE

------------------------------------------------------------------------------
(* The accept loops.                                                       *)

\* forwardCmd: an interrupt cancels; the watcher then closes the listener.
Interrupt ==
    /\ mode \in Cancellable /\ ctx = "live"
    /\ ctx' = "cancelled"
    /\ UNCHANGED <<mode, lsock, returned, errors, tcp, udp>>

Watch ==
    /\ mode \in Cancellable /\ ctx = "cancelled" /\ lsock = "open"
    /\ lsock' = "closed"
    /\ UNCHANGED <<mode, ctx, returned, errors, tcp, udp>>

\* Local, Dynamic, Remote and TLS return after an error of Accept: nil if the
\* context is cancelled by then.  The deferred Close leaves no listener.
ForwardEnds ==
    /\ mode \in Cancellable /\ returned = "none"
    /\ \/ lsock = "closed" /\ UNCHANGED errors
       \/ lsock = "open" /\ errors < MaxErrors /\ errors' = errors + 1
    /\ returned' = IF ctx = "cancelled" THEN "nil" ELSE "error"
    /\ lsock' = "closed"
    /\ UNCHANGED <<mode, ctx, tcp, udp>>

\* RunServer, RunClient and runSocat go on after an error, and their context
\* is the background.
FrpGoesOn ==
    /\ mode \notin Cancellable /\ errors < MaxErrors
    /\ errors' = errors + 1
    /\ UNCHANGED <<mode, ctx, lsock, returned, tcp, udp>>

AcceptLink(c) ==
    /\ mode # "udp" /\ returned = "none" /\ lsock = "open" /\ link[c] = "none"
    /\ link' = [link EXCEPT ![c] = "shake"]
    /\ ends' = ends \cup {<<c, "client">>}
    /\ UNCHANGED <<mode, ctx, lsock, returned, errors, copy, eof, udp>>

\* The client's handshake (SOCKS5, TLS, the header of frp) or the dial fails.
HandlerFails(c) ==
    /\ link[c] = "shake"
    /\ link' = [link EXCEPT ![c] = "over"]
    /\ ends' = ends \ {<<c, "client">>}
    /\ UNCHANGED <<mode, ctx, lsock, returned, errors, copy, eof, udp>>

\* relay, relayBidir and socatRelay start two copiers.
Relay(c) ==
    /\ link[c] = "shake"
    /\ link' = [link EXCEPT ![c] = "relay"]
    /\ ends' = ends \cup {<<c, "dest">>}
    /\ copy' = copy \cup Pair(c)
    /\ UNCHANGED <<mode, ctx, lsock, returned, errors, eof, udp>>

\* A peer has sent all it had to.
PeerFinishes(c, e) ==
    /\ <<c, e>> \in ends /\ link[c] = "relay" /\ <<c, e>> \notin eof
    /\ eof' = eof \cup {<<c, e>>}
    /\ UNCHANGED <<mode, ctx, lsock, returned, errors, link, copy, ends, udp>>

\* io.Copy and socatPump end with their source, and once they write to a
\* closed end.
MustEnd(c, to) == <<c, Other(to)>> \in eof \/ <<c, Other(to)>> \notin ends
CanEnd(c, to) == MustEnd(c, to) \/ <<c, to>> \notin ends

LeavesOpen(c, to) == {}

\* forward.relay closes the end a copier wrote to; the others close nothing.
Closes(c, to) == IF mode \in Cancellable THEN {<<c, to>>} ELSE {}

CopierEnds(c, to) ==
    /\ <<c, to>> \in copy /\ CanEnd(c, to)
    /\ copy' = copy \ {<<c, to>>}
    /\ ends' = ends \ Closes(c, to)
    /\ UNCHANGED <<mode, ctx, lsock, returned, errors, link, eof, udp>>

\* What the deferred calls close: handleFRPClient has none for the target.
Deferred(c) == IF mode = "frps" THEN {<<c, "client">>} ELSE Pair(c)

\* relay waits for both copiers, relayBidir and socatRelay for the first.
Waited(c) ==
    IF mode \in Cancellable THEN Pair(c) \cap copy = {} ELSE ~(Pair(c) \subseteq copy)

RelayReturns(c) ==
    /\ link[c] = "relay" /\ Waited(c)
    /\ link' = [link EXCEPT ![c] = "over"]
    /\ ends' = ends \ Deferred(c)
    /\ UNCHANGED <<mode, ctx, lsock, returned, errors, copy, eof, udp>>

------------------------------------------------------------------------------
(* forward.UDP through a SOCKS5 association.                               *)

still == <<mode, ctx, lsock, returned, tcp>>

\* The loop of UDP: a datagram of a client goes to the destination.
ClientSends(u) ==
    /\ mode = "udp" /\ returned = "none" /\ lsock = "open" /\ sentBy[u] < MaxQueries
    /\ sentBy' = [sentBy EXCEPT ![u] = @ + 1]
    /\ lastClient' = u
    /\ asked' = asked \cup {<<u, sentBy'[u]>>}
    /\ crossed' = crossed \cup {q \in Users \X (1..MaxQueries) : q[1] # u /\ q[2] <= sentBy[q[1]]}
    /\ UNCHANGED <<still, errors, pump, readCh, assoc, replies, home, early>>

\* readLoop reads an answer, or a datagram nobody asked for.
PumpReads ==
    /\ mode = "udp" /\ assoc # "closed" /\ pump = Waiting
    /\ \/ \E q \in asked : pump' = q /\ asked' = asked \ {q} /\ UNCHANGED <<errors, early>>
       \/ /\ errors < MaxErrors /\ errors' = errors + 1
          /\ pump' = Stray
          /\ early' = (early \/ lastClient = "nil")
          /\ UNCHANGED asked
    /\ UNCHANGED <<still, lastClient, sentBy, readCh, assoc, replies, home, crossed>>

\* It drops the datagram if the channel is full; on a closed one it panics.
PumpQueues ==
    /\ pump \notin {Waiting, Ended, Panicked}
    /\ pump' = IF assoc # "open" THEN Panicked ELSE Waiting
    /\ readCh' = IF assoc = "open" /\ Len(readCh) < ChanCap THEN Append(readCh, pump) ELSE readCh
    /\ UNCHANGED <<still, errors, lastClient, asked, sentBy, assoc, replies, home, crossed, early>>

PumpEnds ==
    /\ pump = Waiting /\ assoc = "closed"
    /\ pump' = Ended
    /\ UNCHANGED <<still, errors, lastClient, asked, sentBy, readCh, assoc, replies, home, crossed, early>>

\* ReadFrom, and WriteTo to the last client; an error of either ends the
\* goroutine, and a nil address is one.
ReplyReturns ==
    /\ mode = "udp" /\ replies = "on"
    /\ \/ readCh # <<>> /\ readCh' = Tail(readCh)
       \/ readCh = <<>> /\ assoc # "open" /\ UNCHANGED readCh
    /\ IF readCh # <<>> /\ lastClient # "nil" /\ lsock = "open"
       THEN home' = home \cup {<<Head(readCh), lastClient>>} /\ UNCHANGED replies
       ELSE replies' = "ended" /\ UNCHANGED home
    /\ UNCHANGED <<still, errors, lastClient, asked, sentBy, pump, assoc, crossed, early>>

\* The deferred proxied.Close: the channel first, then the socket.
AssocCloses ==
    /\ mode = "udp" /\ returned # "none" /\ assoc # "closed"
    /\ assoc' = IF assoc = "open" THEN "chan" ELSE "closed"
    /\ UNCHANGED <<still, errors, lastClient, asked, sentBy, pump, readCh, replies, home, crossed, early>>

Tcp ==
    \/ FrpGoesOn
    \/ \E c \in Links :
          \/ AcceptLink(c) \/ HandlerFails(c) \/ Relay(c) \/ RelayReturns(c)
          \/ \E e \in {"client", "dest"} : PeerFinishes(c, e) \/ CopierEnds(c, e)

Udp ==
    \/ \E u \in Users : ClientSends(u)
    \/ PumpReads \/ PumpQueues \/ PumpEnds \/ ReplyReturns \/ AssocCloses

\* A panic of readLoop ends the process.
FwdNext == pump # Panicked /\ (Interrupt \/ Watch \/ ForwardEnds \/ Tcp \/ Udp)

FwdSpec == FwdInit /\ [][FwdNext]_fwdVars

------------------------------------------------------------------------------
\* A forwarder returns nil only if it was told to stop and an error only if
\* there was one, and leaves no listener.
ReturnsHonestly ==
    /\ returned = "nil" => ctx = "cancelled"
    /\ returned = "error" => errors > 0
    /\ returned # "none" => lsock = "closed"

\* A relay never ends half: once one side is finished or closed, a copier it
\* waits for is about to end; what outlives the handler ends too and leaves no
\* end open, but for the target of the frp server, which nobody closes.
RelaysEnd ==
    \A c \in Links :
        LET runs == copy \cap Pair(c)
            hurt == \E e \in Pair(c) : e \in eof \/ e \notin ends
            ending == \E e \in {"client", "dest"} : <<c, e>> \in runs /\ MustEnd(c, e)
        IN  /\ link[c] = "relay" /\ hurt /\ ~Waited(c) => ending
            /\ link[c] = "over" /\ mode # "frps" =>
                  (runs # {} => ending) /\ Pair(c) \cap ends = {}

\* A reply comes back to the client that asked, unless another one has spoken
\* since (lastClient is one variable); the goroutine that returns replies ends
\* early only if a datagram came in before any client spoke; and readLoop
\* meets a closed channel only while the forwarder is being closed.
DatagramsHome ==
    /\ \A r \in home : r[1][1] \in Users /\ r[2] # r[1][1] => r[1] \in crossed
    /\ replies = "ended" => early \/ lsock = "closed"
    /\ pump = Panicked => returned # "none"

\* Every mode of forwarding, TCP and UDP, in the sense of its three parts.
ForwardClean == ReturnsHonestly /\ RelaysEnd /\ DatagramsHome
==============================================================================
