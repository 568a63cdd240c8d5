-------------------------------- MODULE Dns ---------------------------------
(***************************************************************************)
(* The local DNS server's answers: dns/server.go, resolver.go, cache.go.   *)
(*                                                                         *)
(* Every query has a goroutine of its own: it asks the cache, and on a     *)
(* miss the resolver, whose answer it stores and returns.  Time passes     *)
(* between these steps.  An address is <<family, time>>: the time says when *)
(* the upstream gave it.  Nothing ever fills the table of fake addresses,  *)
(* so a query always reaches the resolver.                                 *)
(***************************************************************************)
EXTENDS Naturals, FiniteSets

CONSTANTS Queries,      \* concurrent queries
          Domains,
          Ttl,          \* the life of a cache entry
          MaxLatency,   \* the timeout of the DoH client
          MaxTime       \* bound on the clock

ASSUME DnsAssumption == Ttl \in Nat /\ MaxLatency \in Nat /\ MaxTime \in Nat

QTypes == {"A", "AAAA", "MX"}
Families == {"A", "AAAA"}
Resolvers == {"direct", "doh", "dot"}

VARIABLES
    resolver,   \* cfg.Mode
    clock,      \* time
    cache,      \* entries: domain and type, addresses, expiry
    query       \* per query: its stage, its question, when the lookup began, addresses

\* An entry and a query also have `took`, which the code does not keep: how long
\* the lookup took that their addresses come from.

dnsVars == <<resolver, clock, cache, query>>

\* A domain of the upstream has addresses of both families.
Upstream == {<<f, clock>> : f \in Families}

NoQuery == [pc |-> "none", domain |-> "none", type |-> "none", begun |-> 0, ips |-> {},
            took |-> 0]

DnsInit ==
    /\ resolver \in Resolvers
    /\ clock = 0 /\ cache = {}
    /\ query = [q \in Queries |-> NoQuery]

------------------------------------------------------------------------------
\* handleUDPQuery, handleTCPQuery: processQuery begins with its first question.
Question(q, d, t) ==
    /\ query[q].pc = "none"
    /\ query' = [query EXCEPT ![q] =
           [pc |-> "get", domain |-> d, type |-> t, begun |-> 0, ips |-> {},
            took |-> 0]]
    /\ UNCHANGED <<resolver, clock, cache>>

Goes(q, to, begun, ips, took) ==
    query' = [query EXCEPT ![q] =
        [pc |-> to, domain |-> @.domain, type |-> @.type, begun |-> begun, ips |-> ips,
         took |-> took]]

\* The key has the type in it.
Key(d, t) == <<d, t>>

CachedStale(q) == {e \in cache : e.key = Key(query[q].domain, query[q].type)}

\* Cache.Get: an entry is good up to and including its expiry.
Cached(q) == {e \in cache : e.key = Key(query[q].domain, query[q].type) /\ clock <= e.expires}

CacheGet(q) ==
    /\ query[q].pc = "get"
    /\ \/ \E e \in Cached(q) : Goes(q, "answered", 0, e.ips, e.took)
       \/ Cached(q) = {} /\ Goes(q, "lookup", clock, {}, 0)
    /\ UNCHANGED <<resolver, clock, cache>>

\* DirectResolver keeps the family of the question, and all for any other
\* type; DoH and DoT return the addresses the upstream's message holds, once
\* the whole message has come: until then the query is at "set".
Resolve(t) ==
    IF resolver = "direct" /\ t \notin Families THEN Upstream
    ELSE {a \in Upstream : a[1] = t}

Lookup(q) ==
    /\ query[q].pc = "lookup"
    /\ Goes(q, "set", query[q].begun, Resolve(query[q].type), 0)
    /\ UNCHANGED <<resolver, clock, cache>>

\* The error is answered with SERVFAIL at once and not stored.
LookupFails(q) ==
    /\ query[q].pc = "lookup"
    /\ query' = [query EXCEPT ![q] = NoQuery]
    /\ UNCHANGED <<resolver, clock, cache>>

\* Cache.Set, even over an entry that is newer.
CacheSet(q) ==
    LET k == Key(query[q].domain, query[q].type)
        took == clock - query[q].begun
        entry == [key |-> k, ips |-> query[q].ips, expires |-> clock + Ttl, took |-> took]
    IN  /\ query[q].pc = "set"
        /\ cache' = {e \in cache : e.key # k} \cup {entry}
        /\ Goes(q, "answered", 0, query[q].ips, took)
        /\ UNCHANGED <<resolver, clock>>

\* processQuery copies the addresses of the family that was asked for.
Answer(q) == {a \in query[q].ips : a[1] = query[q].type}

\* The answer is sent and the goroutine ends.
Reply(q) ==
    /\ query[q].pc = "answered"
    /\ query' = [query EXCEPT ![q] = NoQuery]
    /\ UNCHANGED <<resolver, clock, cache>>

\* Cache.cleanup, every ten minutes.
cleanupCache ==
    /\ \E e \in cache : clock > e.expires
    /\ cache' = {e \in cache : clock <= e.expires}
    /\ UNCHANGED <<resolver, clock, query>>

\* Only DoH bounds a lookup: its client's timeout covers the body.  DoT has a
\* timeout for the dial and none for the exchange, DirectResolver passes a
\* context without a deadline.  The steps outside a lookup take no time.
Tick ==
    /\ clock < MaxTime
    /\ \A q \in Queries :
          /\ query[q].pc \in {"lookup", "set"} /\ resolver = "doh"
                => clock < query[q].begun + MaxLatency
          /\ query[q].pc # "answered"
    /\ clock' = clock + 1
    /\ UNCHANGED <<resolver, cache, query>>

DnsNext ==
    \/ \E q \in Queries :
          \/ \E d \in Domains, t \in QTypes : Question(q, d, t)
          \/ CacheGet(q) \/ Lookup(q) \/ LookupFails(q) \/ CacheSet(q) \/ Reply(q)
    \/ cleanupCache \/ Tick

DnsSpec == DnsInit /\ [][DnsNext]_dnsVars

------------------------------------------------------------------------------
\* An answer is one the upstream gave for this very question, no longer ago
\* than an entry lives and the lookup took that stored it, however lookups
\* overtake each other and overwrite newer entries (CacheResolver.Resolve
\* holds no lock between Get and Set): what another lookup took, or how often
\* an entry was read or overwritten, adds nothing.  DoH bounds this age, DoT and
\* DirectResolver do not: an answer that was long under way is stored with a
\* whole life before it.  And a query for an address is never answered with
\* nothing because a query of another type was answered before.
AnswersFresh ==
    \A q \in Queries : query[q].pc = "answered" =>
        /\ \A a \in Answer(q) : clock <= a[2] + Ttl + query[q].took
        /\ resolver = "doh" => query[q].took <= MaxLatency
        /\ query[q].type \in Families => Answer(q) # {}
==============================================================================
