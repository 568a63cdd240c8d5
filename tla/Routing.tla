------------------------------ MODULE Routing -------------------------------
(***************************************************************************)
(* From the configuration to a connection: config.Load and Validate, the   *)
(* dynamic overlay, proxy.Registry, router.Router and the proxy groups.    *)
(*                                                                         *)
(* One process builds the router (probing url-test groups on the way) and  *)
(* several callers, the listener's handlers, then pick and connect while   *)
(* rules and proxies are added and removed.  Names are taken in lower case,*)
(* as the registry stores them.  A host is the sequence of its labels; an  *)
(* address book says which hosts are literal or resolve to private IPs.    *)
(***************************************************************************)
EXTENDS Naturals, Sequences, FiniteSets, SequencesExt

CONSTANTS Callers,      \* concurrent handlers
          Configs,      \* configuration files, Unset where a key is missing
          Targets,      \* addresses asked for: [host, port, private]
          NewRules,     \* rules AddRule and add_rule may be given
          NewProxies,   \* proxies add_proxy may be given
          MaxFlips      \* how often a proxy goes up or down

Unset == "unset"
Empty == "empty"        \* the empty string
MaxPort == 65535
GroupTypes == {"selector", "url-test", "round-robin", "chain", "failover", "load-balance"}
ProxyTypes == {"direct", "http", "https", "socks5", "ss", "trojan", "vmess", "vless",
               "forward", "http3"}

------------------------------------------------------------------------------
(* Configuration.                                                          *)

Defaults == [mode |-> "rule", http |-> 7890, socks5 |-> 7891, cidr |-> "ok",
             fakecidr |-> "ok"]

\* Load gives every key that is missing its default.
Load(file) ==
    [k \in DOMAIN file |->
        IF file[k] = Unset /\ k \in DOMAIN Defaults THEN Defaults[k] ELSE file[k]]

NamesOf(ps) == {ps[i].name : i \in DOMAIN ps}

\* A proxy of type direct is called DIRECT whatever its name is.
RegName(p) == IF p.type = "direct" THEN "DIRECT" ELSE p.name

RegNames(ps) == {RegName(ps[i]) : i \in DOMAIN ps}

IsList(s) == s \in Seq(Range(s))

\* A caller is in one group at a time.  The code allows groups as members of
\* every group (a failover of chains, say); here failover and url-test groups,
\* which do more than hand on what their member returns, have none, and a group
\* that is a hop of a chain is one proxy, which answers or does not.
ASSUME RoutingAssumption ==
    /\ MaxFlips \in Nat
    /\ \A f \in Configs :
          /\ {"proxies", "groups", "rules"} \subseteq DOMAIN f
          /\ IsList(f.rules) /\ IsList(f.proxies)
          /\ \A i \in DOMAIN f.proxies : IsList(f.proxies[i].members)
          /\ \A i, j \in DOMAIN f.proxies :
                f.proxies[i].type \in {"failover", "url-test"} /\ f.proxies[j].type \in GroupTypes =>
                    f.proxies[j].name \notin ToSet(f.proxies[i].members)

Distinct(ps) == Cardinality(NamesOf(ps)) = Len(ps) /\ Empty \notin NamesOf(ps)

\* Validate finds no error: group members and defaults are proxies, the
\* targets of rules are groups of proxy-groups or one of three words.
Validate(cfg) ==
    /\ cfg.mode \in {"global", "rule", "direct"}
    /\ {cfg.http, cfg.socks5} \subseteq 0..MaxPort
    /\ {cfg.cidr, cfg.fakecidr} \subseteq {"ok", Empty}
    /\ Distinct(cfg.proxies) /\ Distinct(cfg.groups)
    /\ \A i \in DOMAIN cfg.proxies : cfg.proxies[i].type \in ProxyTypes \cup {Empty}
    /\ \A i \in DOMAIN cfg.groups :
          LET g == cfg.groups[i]
          IN  /\ g.type \in GroupTypes \cup {Empty}
              /\ g.default \in NamesOf(cfg.proxies) \cup {Empty}
              /\ \A j \in DOMAIN g.members :
                     g.members[j] \in NamesOf(cfg.proxies) \cup {"DIRECT"}
    /\ \A i \in DOMAIN cfg.rules :
          cfg.rules[i].target \in NamesOf(cfg.groups) \cup {"DIRECT", "REJECT", "PROXY"}

\* MergeDynamic decodes the overlay into a value it cannot change, so a file
\* that exists and holds anything ends the start instead of being merged.
NoOverlay == [proxies |-> <<>>, rules |-> <<>>]

MergeDynamic(base, dyn) == [cfg |-> base, ok |-> dyn = NoOverlay]

------------------------------------------------------------------------------
(* Rules.                                                                  *)

\* "lo-hi" is put in order and has to lie in the port range, a single port
\* is taken as it is; the pattern is one number or a pair.
parsePortRange(p) ==
    IF Len(p) = 1
    THEN [ok |-> TRUE, lo |-> p[1], hi |-> p[1]]
    ELSE LET lo == IF p[1] <= p[2] THEN p[1] ELSE p[2]
             hi == IF p[1] <= p[2] THEN p[2] ELSE p[1]
         IN  [ok |-> hi <= MaxPort, lo |-> lo, hi |-> hi]

\* A target without a port matches every range.
matchPortRange(port, p) ==
    LET r == parsePortRange(p)
    IN  r.ok /\ (port = 0 \/ (r.lo <= port /\ port <= r.hi))

match(t, rule) ==
    CASE rule.type = "DOMAIN" -> t.host = rule.pattern
      [] rule.type = "DOMAIN-SUFFIX" -> IsSuffix(rule.pattern, t.host)
      [] rule.type = "DOMAIN-KEYWORD" -> \E i \in DOMAIN t.host : t.host[i] = rule.pattern
      [] rule.type \in {"IP-CIDR", "REGEX"} -> t.host \in rule.pattern
      [] rule.type = "GEOIP" -> t.private
      [] rule.type = "PORT-RANGE" -> matchPortRange(t.port, rule.pattern)
      [] rule.type = "MATCH" -> TRUE
      [] OTHER -> FALSE

\* router.New refuses a pattern that does not compile; AddRule does not look
\* at port ranges and drops such a rule silently.
Compiles(rule) == rule.type = "PORT-RANGE" => parsePortRange(rule.pattern).ok

------------------------------------------------------------------------------
VARIABLES
    cfg,        \* the configuration file
    overlay,    \* dynamic.yml: proxies and rules, empty if there is no file
    phase,      \* down, probing, serving, refused
    rules,      \* Router.rules
    reg,        \* Registry.proxies: name -> configuration entry
    group,      \* state of the group under test: best, failed, choice, idx
    answers,    \* results of the probe: <<member, answered>>
    probed,     \* members whose goroutine has ended
    up,         \* proxies that answer
    flips,
    call,       \* per caller: pc, target, via (the group), at, tried
    removed     \* ghost: names RemoveProxy took away

routeVars == <<cfg, overlay, phase, rules, reg, group, answers, probed, up, flips, call, removed>>
built == <<phase, rules, reg>>
world == <<cfg, overlay, up, flips, removed>>

Call(pc, target, via, at, tried) ==
    [pc |-> pc, target |-> target, via |-> via, at |-> at, tried |-> tried]

NoCall == Call("idle", Empty, Empty, 1, {})

RouteInit ==
    /\ cfg \in {Load(f) : f \in Configs} /\ overlay = NoOverlay
    /\ phase = "down" /\ rules = <<>> /\ reg = << >>
    /\ group = [best |-> Empty, failed |-> {}, choice |-> Empty, idx |-> 0]
    /\ answers = {} /\ probed = {}
    /\ up = RegNames(cfg.proxies) /\ flips = 0
    /\ call = [c \in Callers |-> NoCall]
    /\ removed = {}

------------------------------------------------------------------------------
(* Registry and the building of the router.                                *)

isGroup(p) == p.type \in GroupTypes

\* DIRECT and REJECT are always there.
Known(name) == name \in DOMAIN reg \cup {"DIRECT", "REJECT"}

\* Register takes the proxies first and then the groups, each in the order of
\* the list; the proxy-groups of the configuration are not among them.
Register(ps) ==
    [n \in RegNames(ps) |->
        LET named == {i \in DOMAIN ps : RegName(ps[i]) = n}
            groups == {i \in named : isGroup(ps[i])}
        IN  ps[Max(IF groups = {} THEN named ELSE groups)]]

AcceptsAllButHttp3(ps) ==
    \A i \in DOMAIN ps : ps[i].type \in (ProxyTypes \ {"http3"}) \cup GroupTypes

\* NewChain wants its hops registered already; three kinds want members.
Accepts(ps) ==
    \A i \in DOMAIN ps :
        LET p == ps[i]
        IN  /\ p.type \in ProxyTypes \cup GroupTypes
            /\ p.type \in {"chain", "failover", "load-balance"} => p.members # <<>>
            /\ p.type = "chain" =>
                  \A j \in DOMAIN p.members :
                      p.members[j] \in {"DIRECT", "REJECT"} \cup
                          {RegName(ps[k]) : k \in {l \in DOMAIN ps : l < i \/ ~isGroup(ps[l])}}

Group(ps) == SelectSeq(ps, LAMBDA p : p.type \in GroupTypes)

Members(ps) == IF Group(ps) = <<>> THEN <<>> ELSE Head(Group(ps)).members

\* NewSelector and NewURLTest start with the default or the first member.
Fresh(ps) ==
    LET first == IF Members(ps) = <<>> THEN Empty ELSE Head(Members(ps))
        default == IF Group(ps) = <<>> THEN Empty ELSE Head(Group(ps)).default
    IN  [best |-> first, failed |-> {}, idx |-> 0,
         choice |-> IF default = Empty THEN first ELSE default]

buildRouter ==
    /\ phase = "down"
    /\ LET m == MergeDynamic(cfg, overlay)
       IN  IF /\ m.ok /\ Accepts(m.cfg.proxies)
              /\ \A i \in DOMAIN m.cfg.rules : Compiles(m.cfg.rules[i])
           THEN /\ reg' = Register(m.cfg.proxies) /\ rules' = m.cfg.rules
                /\ group' = Fresh(cfg.proxies)
                /\ phase' = IF \E i \in DOMAIN cfg.proxies : cfg.proxies[i].type = "url-test"
                            THEN "probing" ELSE "serving"
           ELSE phase' = "refused" /\ UNCHANGED <<reg, rules, group>>
    /\ UNCHANGED <<world, answers, probed, call>>

------------------------------------------------------------------------------
(* Probe: one goroutine per member, results appended without a lock.       *)

\* Two appends at once may keep only one of the results.
ProbeMember(m) ==
    /\ phase = "probing" /\ m \in ToSet(Members(cfg.proxies)) \ probed
    /\ probed' = probed \cup {m}
    /\ \/ answers' = answers \cup {<<m, m \in up /\ Known(m)>>}
       \/ \E a \in answers : answers' = (answers \ {a}) \cup {<<m, m \in up /\ Known(m)>>}
    /\ UNCHANGED <<built, world, group, call>>

BestOfAll ==
    LET results == {a[1] : a \in answers}
    IN  IF results = {} THEN {group.best} ELSE results

\* The fastest of those that answered; latencies are not modelled.
BestOf ==
    LET ok == {a[1] : a \in {b \in answers : b[2]}}
    IN  IF ok = {} THEN {group.best} ELSE ok

ProbeEnd ==
    /\ phase = "probing" /\ probed = ToSet(Members(cfg.proxies))
    /\ phase' = "serving"
    /\ \E b \in BestOf :
          group' = [best |-> b, failed |-> {a[1] : a \in {x \in answers : ~x[2]}},
                    choice |-> group.choice, idx |-> group.idx]
    /\ UNCHANGED <<rules, reg, world, answers, probed, call>>

------------------------------------------------------------------------------
(* Changes while the router serves.                                        *)

AddRule(r) ==
    /\ phase = "serving" /\ Len(rules) <= Len(cfg.rules)
    /\ rules' = <<r>> \o rules
    /\ UNCHANGED <<phase, reg, world, group, answers, probed, call>>

\* A name that is taken is an error; what RemoveProxy took away may come back.
AddProxy(name) ==
    /\ phase = "serving" /\ name \in removed /\ ~Known(name)
    /\ reg' = [n \in DOMAIN reg \cup {name} |->
                  IF n = name THEN Register(cfg.proxies)[n] ELSE reg[n]]
    /\ UNCHANGED <<phase, rules, world, group, answers, probed, call>>

RemoveProxy(name) ==
    /\ phase = "serving" /\ name \in DOMAIN reg /\ removed = {}
    /\ reg' = [n \in DOMAIN reg \ {name} |-> reg[n]]
    /\ removed' = removed \cup {name}
    /\ UNCHANGED <<phase, rules, cfg, overlay, up, flips, group, answers, probed, call>>

\* Selector.SetChoice wants a registered name.
SetChoice(name) ==
    /\ phase = "serving" /\ Known(name) /\ name # group.choice
    /\ \E n \in DOMAIN reg : reg[n].type = "selector"
    /\ group' = [group EXCEPT !.choice = name]
    /\ UNCHANGED <<built, world, answers, probed, call>>

\* The tools and commands that promise a change without a restart write the
\* overlay and leave the router alone.
Writes(dyn) ==
    /\ phase \in {"serving", "refused"} /\ overlay' = dyn
    /\ UNCHANGED <<built, cfg, up, flips, removed, group, answers, probed, call>>

\* A proxy of the same name is replaced, and its place kept.
add_proxy(p) ==
    LET i == SelectInSeq(overlay.proxies, LAMBDA q : q.name = p.name)
    IN  /\ p.name # Empty /\ p.type # Empty
        /\ i # 0 \/ overlay = NoOverlay
        /\ Writes([overlay EXCEPT !.proxies = IF i = 0 THEN Append(@, p) ELSE ReplaceAt(@, i, p)])

\* A new rule comes first.
add_rule(r) ==
    overlay = NoOverlay /\ Writes([overlay EXCEPT !.rules = <<r>> \o @])

\* The service is stopped and started over the same files.
Restart ==
    /\ phase \in {"serving", "refused"} /\ overlay # NoOverlay
    /\ \A c \in Callers : call[c].pc = "idle"
    /\ phase' = "down" /\ rules' = <<>> /\ reg' = << >>
    /\ answers' = {} /\ probed' = {} /\ removed' = {}
    /\ UNCHANGED <<cfg, overlay, up, flips, group, call>>

\* The environment: a proxy stops answering or answers again.
Flip(name) ==
    /\ flips < MaxFlips /\ flips' = flips + 1
    /\ up' = IF name \in up THEN up \ {name} ELSE up \cup {name}
    /\ UNCHANGED <<built, cfg, overlay, group, answers, probed, call, removed>>

------------------------------------------------------------------------------
(* A caller: Pick, the lookup of the name, and Connect.                    *)

Goto(c, r) == call' = [call EXCEPT ![c] = r]

\* The same call, elsewhere.
Now(k, pc) == Call(pc, k.target, k.via, k.at, k.tried)

\* No rule, or the mode global: the first name of a map, which is any name.
selectFirst ==
    IF DOMAIN reg = {} THEN {"DIRECT"} ELSE DOMAIN reg

Candidates(t) ==
    LET i == SelectInSeq(rules, LAMBDA r : match(t, r))
    IN  CASE cfg.mode = "direct" -> {"DIRECT"}
          [] cfg.mode = "global" -> selectFirst
          [] OTHER -> IF i = 0 THEN selectFirst ELSE {rules[i].target}

Pick(c, t) ==
    /\ phase = "serving" /\ call[c].pc = "idle"
    /\ \E name \in Candidates(t) :
          Goto(c, Call("get", name, Empty, 1, {}))
    /\ UNCHANGED <<built, world, group, answers, probed>>

\* A caller holds the group itself, whatever happens to its name.
Held(c) == Register(cfg.proxies)[call[c].via]

GiveUp(c) ==
    LET k == call[c]
    IN  Goto(c, Call("error", k.target, k.via, k.at, k.tried \cup {k.target}))

\* FailoverGroup.Connect goes on with the next member.
Failed(c) ==
    LET k == call[c]
        next == k.at + 1
    IN  IF k.via # Empty /\ Held(c).type = "failover" /\ next <= Len(Held(c).members)
        THEN Goto(c, Call("group", k.target, k.via, next, k.tried \cup {k.target}))
        ELSE GiveUp(c)

GiveUpOnMissing(c) == GiveUp(c)

\* A member that is not registered is skipped like one that does not answer.
Missing(c) ==
    Failed(c)

\* Registry.Get, for the target of the rule and for the member of a group.
Get(c) ==
    LET k == call[c]
    IN  /\ k.pc = "get"
        /\ IF ~Known(k.target)
           THEN Missing(c)
           ELSE IF k.target \in DOMAIN reg /\ isGroup(reg[k.target])
                THEN Goto(c, Call("group", k.target, k.target, k.at, k.tried))
                ELSE Goto(c, Now(k, "dial"))
        /\ UNCHANGED <<built, world, group, answers, probed>>

\* Which member the group turns to.
Turn(c) ==
    LET k == call[c]
        g == Held(c)
        n == Len(g.members)
    IN  CASE g.type = "selector" -> {group.choice}
          [] g.type = "url-test" -> {group.best}
          [] g.type = "load-balance" -> ToSet(g.members)
          [] g.type = "round-robin" -> {g.members[(group.idx % n) + 1]}
          [] g.type \in {"failover", "chain"} -> {g.members[k.at]}

\* The hops of a chain were looked up when it was made.
GroupConnect(c) ==
    LET k == call[c]
    IN  /\ k.pc = "group"
        /\ IF Held(c).members = <<>>
           THEN GiveUp(c) /\ UNCHANGED group
           ELSE \E m \in Turn(c) :
                  /\ Goto(c, Call(IF Held(c).type = "chain" THEN "dial" ELSE "get",
                                  m, k.via, k.at, k.tried))
                  /\ group' = IF Held(c).type = "round-robin"
                              THEN [group EXCEPT !.idx = @ + 1] ELSE group
        /\ UNCHANGED <<built, world, answers, probed>>

\* A chain dials every hop, the last one to the address itself; a hop without
\* a server (DIRECT) ends it.
Reached(c) ==
    LET k == call[c]
    IN  IF k.via # Empty /\ Held(c).type = "chain" /\ k.at < Len(Held(c).members)
        THEN IF Held(c).members[k.at + 1] \in {"DIRECT", "REJECT"}
             THEN GiveUp(c)
             ELSE Goto(c, Call("group", k.target, k.via, k.at + 1, k.tried))
        ELSE Goto(c, Now(k, "ok"))

\* Connect of a proxy; DIRECT reaches the address, REJECT never does.
Dial(c) ==
    LET k == call[c]
    IN  /\ k.pc = "dial"
        /\ IF k.target \in up \cup {"DIRECT"} THEN Reached(c)
           ELSE IF k.via # Empty /\ Held(c).type = "url-test"
                THEN Goto(c, Now(k, "mark"))
                ELSE Failed(c)
        /\ UNCHANGED <<built, world, group, answers, probed>>

\* URLTest.Connect marks the member that failed and keeps it as the best one.
markFailed(c) ==
    /\ call[c].pc = "mark"
    /\ group' = [group EXCEPT !.failed = @ \cup {call[c].target}]
    /\ GiveUp(c)
    /\ UNCHANGED <<built, world, answers, probed>>

RouteNext ==
    \/ buildRouter \/ ProbeEnd \/ Restart
    \/ \E m \in ToSet(Members(cfg.proxies)) : ProbeMember(m)
    \/ \E r \in NewRules : AddRule(r) \/ add_rule(r)
    \/ \E p \in NewProxies : add_proxy(p)
    \/ \E name \in RegNames(cfg.proxies) :
          AddProxy(name) \/ RemoveProxy(name) \/ SetChoice(name) \/ Flip(name)
    \/ \E c \in Callers :
          \/ \E t \in Targets : Pick(c, t)
          \/ Get(c) \/ GroupConnect(c) \/ Dial(c) \/ markFailed(c)

RouteSpec == RouteInit /\ [][RouteNext]_routeVars

------------------------------------------------------------------------------
\* A failover group reports an error only after every member was tried and
\* failed in this very call; a chain reports a connection only after every
\* hop was dialled; the member a url-test group starts with answered its
\* probe, unless no answer was recorded (Connect of the groups, Probe).  Said of
\* configurations without nested failover and url-test groups only, the ones
\* RoutingAssumption admits.
GroupsHonest ==
    /\ \A c \in Callers : call[c].via # Empty /\ call[c].pc \in {"ok", "error"} =>
          LET g == Held(c)
          IN  /\ g.type = "failover" /\ call[c].pc = "error" =>
                     ToSet(g.members) \subseteq call[c].tried
              /\ g.type = "chain" /\ call[c].pc = "ok" => call[c].at = Len(g.members)
    /\ phase = "serving" /\ (\E a \in answers : a[2]) => <<group.best, TRUE>> \in answers

\* Where Validate and the start disagree.  A configuration that Validate
\* accepts is refused only for an overlay file (MergeDynamic), a pattern that
\* does not compile or a proxy without a type; and once it serves, a target is
\* not found only if it is a proxy-group, which is validated as a target but
\* never registered (buildRouter), the word PROXY, a proxy since removed, or
\* named by a rule AddRule took without looking for its target.
ValidConfigServes ==
    Validate(cfg) =>
        /\ phase = "refused" =>
              \/ overlay # NoOverlay
              \/ \E i \in DOMAIN cfg.rules : ~Compiles(cfg.rules[i])
              \/ \E i \in DOMAIN cfg.proxies : cfg.proxies[i].type = Empty
        /\ \A c \in Callers :
              call[c].pc = "error" /\ call[c].via = Empty =>
                  \/ call[c].target \in NamesOf(cfg.groups) \cup {"PROXY", "REJECT"} \cup removed
                  \/ call[c].target \in {r.target : r \in NewRules} \ RegNames(cfg.proxies)
                  \/ flips > 0
==============================================================================
