----------------------------- MODULE Handshake ------------------------------
(***************************************************************************)
(* The handshakes of the proxy protocols: the client side of every proxy   *)
(* of package proxy and the servers of listener, forward and frp.          *)
(*                                                                         *)
(* What matters is how many bytes each side takes from the stream, for     *)
(* what follows the handshake is payload: one byte too many is missing     *)
(* there, or is waited for while the peer waits for the answer.  A side is *)
(* the sequence of its reads and writes, with their lengths; the stream is *)
(* two byte counts.  A length that the code writes into one byte is read   *)
(* from one byte, and reads whose error is ignored are steps of their own. *)
(* A server that is not in this repository answers what the client waits   *)
(* for.                                                                    *)
(***************************************************************************)
EXTENDS Naturals, Sequences, FiniteSets

CONSTANTS Dialogues,    \* who talks to whom: see Dialogue
          Lengths,      \* of a domain name, a user, a password, a secret
          MaxPayload    \* payload bytes each side may send first

Dialogue ==
    [client : {"socks5", "socks5-udp", "rfc1928", "http", "https", "http3", "trojan",
               "vmess", "vless", "ss-aead", "ss-stream", "frp"},
     server : {"listener", "forward", "frp", "external"},
     addr   : {"v4", "v6", "name"},      \* the address asked for
     bound  : {"v4", "v6"},              \* the address the server is bound to
     user   : BOOLEAN,                   \* a user name is configured
     len    : Lengths,                   \* of the name, the user, the secret
     ok     : BOOLEAN]                   \* the server can do what it is asked

\* A length travels in one byte.
Octet(n) == n % 256
Fits(d) == Octet(d.len) = d.len

\* What each server of the repository understands; the others are spoken to in
\* the protocol of the client.  What they make of a length that does not fit its
\* byte is their affair, and a client by the book sends none.
Meets(d) ==
    /\ CASE d.server = "listener" -> d.client \in {"socks5", "socks5-udp", "rfc1928", "http"}
         [] d.server = "forward" -> d.client \in {"socks5", "socks5-udp", "rfc1928"}
         [] d.server = "frp" -> d.client = "frp"
         [] d.server = "external" -> d.client \notin {"rfc1928", "frp"}
    /\ d.server = "external" \/ d.client = "rfc1928" => Fits(d)

ASSUME HandshakeAssumption ==
    /\ Lengths \subseteq Nat \ {0} /\ MaxPayload \in Nat
    /\ Dialogues \subseteq {d \in Dialogue : Meets(d)}

Send(n) == <<"send", n>>
Recv(n) == <<"recv", n>>       \* io.ReadFull
Try(n) == <<"try", n>>         \* io.ReadFull whose error is ignored
Some(n) == <<"some", n>>       \* a bufio.Reader: n bytes and whatever is there
Close == <<"close", 0>>
Drop == <<"drop", 0>>          \* an error is returned, the socket stays open

IpLen(a) == IF a = "v4" THEN 4 ELSE 16
AddrLen(d) == IF d.addr = "name" THEN 1 + d.len ELSE IpLen(d.addr)

\* The listener has 256 bytes for a request.  A name that does not fit behind the
\* first five makes the slice panic: an end without an answer.
Overflows(d) ==
    /\ d.server = "listener" /\ d.client \in {"socks5", "rfc1928"} /\ ~d.user
    /\ d.addr = "name" /\ 5 + Octet(d.len) > 256

\* Whether the answer is success: forward does CONNECT alone, and the secret that
\* RunServer's handler reads under a truncated length is another one.
Granted(d) ==
    /\ d.ok /\ ~Overflows(d)
    /\ d.server = "forward" => d.client # "socks5-udp"
    /\ d.server = "frp" => Fits(d)

------------------------------------------------------------------------------
(* Clients.                                                                *)

\* SOCKS5Proxy.auth, which only a server that asks for it meets.
auth(d) == <<Send(2 + d.len + 1 + d.len), Recv(2)>>

\* SOCKS5Proxy.handshake: the greeting offers a second method for a user.
handshake(d) ==
    <<Send(IF d.user THEN 4 ELSE 3), Recv(2)>>
    \o (IF d.user /\ d.server = "external" THEN auth(d) ELSE <<>>)

\* The type in the answer.  The answer to CONNECT has type IPv4 whatever the
\* length of its address, and the listener takes UDP ASSOCIATE after a greeting of
\* four bytes for CONNECT.
BoundType(d) ==
    IF \/ d.server = "external"
       \/ d.server = "listener" /\ d.client = "socks5-udp" /\ ~d.user
    THEN d.bound ELSE "v4"

\* Five bytes hold the first byte of the address already; what is read after
\* them is the whole address and the port.
readSOCKS5Bound(t) == <<Recv(IpLen(t) + 2)>>

\* The same read, but Connect has succeeded whatever becomes of it.
request(d) ==
    <<Send(4 + AddrLen(d) + 2), Recv(5)>>
    \o (IF Granted(d) THEN <<Try(IpLen(BoundType(d)) + 2)>> ELSE <<Close>>)

udpAssociate(d) ==
    <<Send(10), Recv(5)>>
    \o (IF Granted(d) THEN readSOCKS5Bound(BoundType(d)) ELSE <<Close>>)

\* A client by the book, for the servers of this repository.
ByTheBook(d) ==
    <<Send(IF d.user THEN 4 ELSE 3), Recv(2), Send(4 + AddrLen(d) + 2)>>
    \o (IF Granted(d) THEN <<Recv(10)>> ELSE <<Recv(10), Close>>)

\* CONNECT is a request line and the rest of the head; the answer is read
\* through a buffer that is thrown away.
ConnectLine == 2
ConnectHead == 2
Response == 3

sendConnect(d) ==
    <<Send(ConnectLine + ConnectHead), Some(Response)>>
    \o (IF Granted(d) THEN <<>> ELSE <<Close>>)

HTTPConnect(d) == IF d.user THEN <<Drop>> ELSE sendConnect(d)

\* RoundTrip frames the stream, so nothing of the payload is in the answer.
HTTP3Connect(d) ==
    <<Send(ConnectLine + ConnectHead), Recv(Response)>>
    \o (IF Granted(d) THEN <<>> ELSE <<Close>>)

TrojanConnect(d) ==
    <<Send(3 + 1 + d.len + 2 + 2 + d.len + 2), Recv(1)>>
    \o (IF Granted(d) THEN <<>> ELSE <<Close>>)

\* An IPv6 address is sent as a name; the two bytes of the answer are not
\* looked at.
VMessConnect(d) ==
    <<Send(2 + 1 + (IF d.addr = "v4" THEN 4 ELSE 1 + d.len) + 2), Recv(2)>>

writeRequestHead(d) == Send(1 + 16 + 1 + 1 + 2 + 1 + AddrLen(d))

VLESSConnect(d) ==
    <<writeRequestHead(d), Recv(1)>> \o (IF Granted(d) THEN <<>> ELSE <<Close>>)

\* AEAD: nonce, sealed address, tag; a stream cipher sends its IV and no
\* address.  No answer is waited for.
ShadowsocksConnect(d) ==
    IF d.client = "ss-aead" THEN <<Send(12 + 1 + AddrLen(d) + 2 + 16)>> ELSE <<Send(16)>>

\* The length is four bytes wide, of which one is filled.
writeFRPHeader(d) == Send(4 + d.len + 3)

FRPConnect(d) ==
    <<writeFRPHeader(d), Recv(1)>> \o (IF Granted(d) THEN <<>> ELSE <<Close>>)

Client(d) ==
    CASE d.client = "socks5" -> handshake(d) \o request(d)
      [] d.client = "socks5-udp" -> handshake(d) \o udpAssociate(d)
      [] d.client = "rfc1928" -> ByTheBook(d)
      [] d.client = "http" -> HTTPConnect(d)
      [] d.client = "https" -> sendConnect(d)
      [] d.client = "http3" -> HTTP3Connect(d)
      [] d.client = "trojan" -> TrojanConnect(d)
      [] d.client = "vmess" -> VMessConnect(d)
      [] d.client = "vless" -> VLESSConnect(d)
      [] d.client \in {"ss-aead", "ss-stream"} -> ShadowsocksConnect(d)
      [] d.client = "frp" -> FRPConnect(d)

------------------------------------------------------------------------------
(* Servers.                                                                *)

\* Listener.handleSOCKS5 takes greetings of three bytes.  After one of four it
\* reads the request one byte early: the command is 5, which is CONNECT to it, and
\* no type it knows.  The second read repeats the five bytes that were read, less
\* three or four; whatever becomes of it, the handler goes on.  ~ok is also the
\* panic of a port whose place, in one byte, wraps around.
handleSOCKS5(d) ==
    <<Recv(3), Send(2), Recv(5)>>
    \o (IF d.user \/ Overflows(d) THEN <<>>
        ELSE CASE d.addr = "v4" -> <<Try(6)>>
               [] d.addr = "name" -> <<Try(5 + Octet(d.len))>>
               [] d.addr = "v6" -> <<Try(18)>>)
    \o (IF Granted(d) THEN <<Send(4 + IpLen(d.bound) + 2)>> ELSE <<Close>>)

\* The same with command 3, whose address is 0.0.0.0:0.
handleSOCKS5UDP(d) ==
    <<Recv(3), Send(2), Recv(5), Try(6)>>
    \o (IF Granted(d) THEN <<Send(4 + IpLen(d.bound) + 2)>> ELSE <<Send(10), Close>>)

\* Listener.handleHTTP reads the request line through a buffer; what the
\* buffer did not take is relayed.
handleConnect(d) ==
    <<Some(ConnectLine)>> \o (IF Granted(d) THEN <<Send(Response)>> ELSE <<Close>>)

readSOCKS5Addr(d) ==
    (IF d.addr = "name" THEN <<Recv(1), Recv(Octet(d.len))>> ELSE <<Recv(IpLen(d.addr))>>)
    \o <<Recv(2)>>

\* forward.handleSOCKS5Connect refuses every command but CONNECT.
handleSOCKS5Connect(d) ==
    <<Recv(2), Recv(IF d.user THEN 2 ELSE 1), Send(2), Recv(4)>>
    \o (IF d.client = "socks5-udp" THEN <<Send(10), Close>>
        ELSE readSOCKS5Addr(d)
             \o (IF Granted(d) THEN <<Send(10)>> ELSE <<Send(10), Close>>))

readFRPHeaderLong(d) == <<Recv(4), Recv(Octet(d.len)), Recv(4)>>

readFRPHeader(d) == <<Recv(4), Recv(Octet(d.len)), Recv(3)>>

handleFRPClient(d) ==
    readFRPHeader(d) \o (IF Granted(d) THEN <<Send(1)>> ELSE <<Send(1), Close>>)

\* What a server elsewhere does at a step of the client.
AnswerTo(step) ==
    CASE step[1] = "send" -> Recv(step[2])
      [] step[1] \in {"recv", "some", "try"} -> Send(step[2])
      [] OTHER -> Close

\* It answers the way the client reads, SOCKS5 by the book.
External(d) ==
    LET Mirror == [i \in DOMAIN Client(d) |-> AnswerTo(Client(d)[i])]
    IN  IF d.client \in {"socks5", "socks5-udp"}
        THEN SubSeq(Mirror, 1, Len(handshake(d)) + 1)
             \o (IF Granted(d) THEN <<Send(4 + IpLen(d.bound) + 2)>> ELSE <<Send(10), Close>>)
        ELSE Mirror

Server(d) ==
    CASE d.server = "external" -> External(d)
      [] d.server = "forward" -> handleSOCKS5Connect(d)
      [] d.server = "frp" -> handleFRPClient(d)
      [] d.server = "listener" /\ d.client = "socks5-udp" /\ ~d.user -> handleSOCKS5UDP(d)
      [] d.server = "listener" /\ d.client = "http" -> handleConnect(d)
      [] OTHER -> handleSOCKS5(d)

------------------------------------------------------------------------------
VARIABLES
    dialogue,
    at,         \* per side: the next step of its script
    end,        \* per side: open, closed, or lost: open and nobody has it
    sent,       \* per side: bytes of its handshake it has sent
    payload,    \* per side: payload bytes it has sent
    taken       \* per side: bytes it has taken from the stream

shakeVars == <<dialogue, at, end, sent, payload, taken>>
Sides == {"client", "server"}
Peer(s) == IF s = "client" THEN "server" ELSE "client"

Script(s) == IF s = "client" THEN Client(dialogue) ELSE Server(dialogue)
Finished(s) == at[s] > Len(Script(s))
Available(s) == sent[Peer(s)] + payload[Peer(s)] - taken[s]

ShakeInit ==
    /\ dialogue \in Dialogues
    /\ at = [s \in Sides |-> 1]
    /\ end = [s \in Sides |-> "open"]
    /\ sent = [s \in Sides |-> 0]
    /\ payload = [s \in Sides |-> 0]
    /\ taken = [s \in Sides |-> 0]

Steps(s) == end[s] = "open" /\ ~Finished(s)
Op(s) == Script(s)[at[s]][1]
Size(s) == Script(s)[at[s]][2]
Advance(s) == at' = [at EXCEPT ![s] = @ + 1]

Write(s) ==
    /\ Steps(s) /\ Op(s) = "send"
    /\ sent' = [sent EXCEPT ![s] = @ + Size(s)]
    /\ Advance(s)
    /\ UNCHANGED <<dialogue, end, payload, taken>>

ReadFull(s) ==
    /\ Steps(s) /\ Op(s) \in {"recv", "try"} /\ Available(s) >= Size(s)
    /\ taken' = [taken EXCEPT ![s] = @ + Size(s)]
    /\ Advance(s)
    /\ UNCHANGED <<dialogue, end, sent, payload>>

ReadBuffered(s) ==
    /\ Steps(s) /\ Op(s) = "some"
    /\ \E n \in Size(s)..Available(s) : taken' = [taken EXCEPT ![s] = @ + n]
    /\ Advance(s)
    /\ UNCHANGED <<dialogue, end, sent, payload>>

\* Where the error is ignored, what was there is taken and the side goes on.
ReadIgnored(s) ==
    /\ Steps(s) /\ Op(s) = "try"
    /\ end[Peer(s)] = "closed" /\ Available(s) < Size(s)
    /\ taken' = [taken EXCEPT ![s] = @ + Available(s)]
    /\ Advance(s)
    /\ UNCHANGED <<dialogue, end, sent, payload>>

\* A peer that is gone ends any other read; Trojan.Connect alone forgets its socket.
ReadFails(s) ==
    /\ Steps(s) /\ Op(s) \in {"recv", "some"}
    /\ end[Peer(s)] = "closed" /\ Available(s) < Size(s)
    /\ end' = [end EXCEPT ![s] =
                 IF s = "client" /\ dialogue.client = "trojan" THEN "lost" ELSE "closed"]
    /\ UNCHANGED <<dialogue, at, sent, payload, taken>>

Leave(s) ==
    /\ Steps(s) /\ Op(s) \in {"close", "drop"}
    /\ end' = [end EXCEPT ![s] = IF Op(s) = "close" THEN "closed" ELSE "lost"]
    /\ UNCHANGED <<dialogue, at, sent, payload, taken>>

\* A side may vanish at any time before it has finished.
Vanish(s) ==
    /\ Steps(s)
    /\ end' = [end EXCEPT ![s] = "closed"]
    /\ UNCHANGED <<dialogue, at, sent, payload, taken>>

\* Whoever has finished the handshake may be the first to speak.
Speak(s) ==
    /\ Finished(s) /\ end[s] = "open" /\ payload[s] < MaxPayload
    /\ payload' = [payload EXCEPT ![s] = @ + 1]
    /\ UNCHANGED <<dialogue, at, end, sent, taken>>

ShakeNext ==
    \E s \in Sides :
        \/ Write(s) \/ ReadFull(s) \/ ReadBuffered(s) \/ ReadIgnored(s)
        \/ ReadFails(s) \/ Leave(s) \/ Vanish(s) \/ Speak(s)

ShakeSpec == ShakeInit /\ [][ShakeNext]_shakeVars

------------------------------------------------------------------------------
\* Whether the handshake alone leads on: a side has a step it can take.
Moves(s) ==
    /\ Steps(s)
    /\ Op(s) \in {"recv", "some", "try"} => Available(s) >= Size(s) \/ end[Peer(s)] = "closed"

Over == ~Moves("client") /\ ~Moves("server")
Clean(s) == taken[s] = sent[Peer(s)]

\* The sides whose lengths do not add up in the code.
Overreads(s) ==
    IF s = "client" THEN dialogue.client \in {"socks5", "socks5-udp", "http", "https"}
    ELSE dialogue.server = "listener"

\* Where a handshake comes to rest.  Between sides that count right, whatever is
\* refused or breaks off and however long a secret is: both have the connection and
\* every byte of the handshake was taken and no other, or both have closed it, but
\* for the sockets Trojan.Connect and HTTPProxy.Connect forget.  Elsewhere the damage
\* is bounded, for a name of any length and although the errors of their second
\* reads are ignored: the SOCKS5 client of proxy/socks5.go takes one byte of the
\* payload, never two, and Listener.handleSOCKS5 at most three; a side that waits
\* for ever is one of those, or its peer is.
HandshakeClean ==
    /\ Over /\ (\A s \in Sides : ~Overreads(s)) =>
          \/ \A s \in Sides : Finished(s) /\ end[s] = "open" /\ Clean(s)
          \/ \E s \in Sides : end[s] # "open" /\
                (Finished(Peer(s)) \/ end[Peer(s)] # "open")
    /\ \A s \in Sides : end[s] = "lost" =>
          s = "client" /\ dialogue.client \in {"trojan", "http"}
    /\ dialogue.client \in {"socks5", "socks5-udp"} => taken["client"] <= sent["server"] + 1
    /\ dialogue.server = "listener" /\ dialogue.client # "http" =>
          taken["server"] <= sent["client"] + 3
    /\ Over => \A s \in Sides :
          Steps(s) => Overreads(s) \/ Overreads(Peer(s))
==============================================================================
