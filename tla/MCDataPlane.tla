---------------------------- MODULE MCDataPlane -----------------------------
(***************************************************************************)
(* The models of the data plane on small instances.  They share no state,  *)
(* so a behaviour moves one of them and leaves the others at their initial *)
(* state: the union of their state spaces, not the product.                *)
(***************************************************************************)
EXTENDS Routing, Listener, Handshake, Forward, Runtime, Dns

P(name, type) == [name |-> name, type |-> type, members |-> <<>>, default |-> Empty]
G(name, type, ms) == [name |-> name, type |-> type, members |-> ms, default |-> Empty]
R(type, pattern, target) == [type |-> type, pattern |-> pattern, target |-> target]
File(ps, gs, rs) ==
    [mode |-> Unset, http |-> Unset, socks5 |-> Unset, cidr |-> Unset, fakecidr |-> Unset,
     proxies |-> ps, groups |-> gs, rules |-> rs]

Leaves == <<P("p1", "socks5"), P("p2", "http3")>>
AnyRule == R("MATCH", Empty, "g")

MCConfigs ==
    {File(Leaves \o <<G("g", k, <<"p1", "p2">>)>>, <<>>, <<AnyRule>>) : k \in GroupTypes}
    \cup
    {File(Leaves, <<G("g", "failover", <<"p1">>)>>,
          <<R("DOMAIN-SUFFIX", <<"lan">>, "DIRECT"), R("PORT-RANGE", <<443, 80>>, "REJECT"),
            AnyRule>>),
     File(Leaves \o <<G("g", "round-robin", <<>>)>>, <<>>, <<AnyRule>>),
     File(Leaves \o <<G("g", "chain", <<"p1", "DIRECT">>)>>, <<>>, <<AnyRule>>),
     File(Leaves, <<>>, <<R("PORT-RANGE", <<80, 70000>>, "DIRECT")>>),
     File(<<P("p1", "direct")>>, <<>>, <<>>),
     File(Leaves \o <<P("p3", Empty)>>, <<>>, <<>>)}

MCTargets == {[host |-> <<"a", "lan">>, port |-> 22, private |-> TRUE],
              [host |-> <<"b", "org">>, port |-> 443, private |-> FALSE],
              [host |-> <<"b", "org">>, port |-> 22, private |-> FALSE]}

MCNewRules == {R("DOMAIN", <<"b", "org">>, "p1")}
MCNewProxies == {P("p3", "vmess"), P("p3", "vless")}

\* A length matters where a name, or for frp a secret, is sent.
MCDialogues == {d \in Dialogue : Meets(d) /\ (d.len > 3 => d.addr = "name")}

\* start with the TUN and a transport, with servers, and with WireGuard; and
\* every command that runs one subsystem.
MCPlans ==
    {p \in Plan :
        IF p.full
        THEN /\ p.on \in {{"proxy", "tun", "overlay"}, {"proxy", "dns", "web"},
                          {"proxy", "mitm", "wireguard"}}
             /\ p.tun = ("tun" \in p.on)
        ELSE Cardinality(p.on) = 1 /\ (p.tun => p.on \subseteq Transports)}

\* Callers are alike, and so are connections and queries.
Interchangeable == Permutations(Callers) \cup Permutations(Conns) \cup Permutations(Queries)

VARIABLE part

\* The races of start, stop and errors need one connection, those of handlers
\* two and no error.
OneOrTheOther == faults' > 0 => \E c \in Conns : conn'[c].pc = "none"

\* Two entries are enough for the questions of one domain to meet in the cache.
FewEntries == Cardinality(cache') <= 2

vars == <<routeVars, listenVars, shakeVars, fwdVars, runtimeVars, dnsVars, part>>

\* The parts that do not move start from one initial state.
Init ==
    /\ part \in {"routing", "listener", "handshake", "forward", "runtime", "dns"}
    /\ RouteInit /\ (part # "routing" => cfg = Load(CHOOSE f \in Configs : TRUE))
    /\ ListenInit
    /\ ShakeInit /\ (part # "handshake" => dialogue = CHOOSE d \in Dialogues : TRUE)
    /\ FwdInit /\ (part # "forward" => mode = "local")
    /\ RuntimeInit /\ (part # "runtime" => plan = CHOOSE p \in Plans : TRUE)
    /\ DnsInit /\ (part # "dns" => resolver = "direct")

Next ==
    \/ /\ part = "routing" /\ RouteNext
       /\ UNCHANGED <<listenVars, shakeVars, fwdVars, runtimeVars, dnsVars, part>>
    \/ /\ part = "listener" /\ ListenNext /\ OneOrTheOther
       /\ UNCHANGED <<routeVars, shakeVars, fwdVars, runtimeVars, dnsVars, part>>
    \/ /\ part = "handshake" /\ ShakeNext
       /\ UNCHANGED <<routeVars, listenVars, fwdVars, runtimeVars, dnsVars, part>>
    \/ /\ part = "forward" /\ FwdNext
       /\ UNCHANGED <<routeVars, listenVars, shakeVars, runtimeVars, dnsVars, part>>
    \/ /\ part = "runtime" /\ RuntimeNext
       /\ UNCHANGED <<routeVars, listenVars, shakeVars, fwdVars, dnsVars, part>>
    \/ /\ part = "dns" /\ DnsNext /\ FewEntries
       /\ UNCHANGED <<routeVars, listenVars, shakeVars, fwdVars, runtimeVars, part>>

Spec == Init /\ [][Next]_vars
==============================================================================
