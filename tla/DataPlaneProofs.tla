--------------------------- MODULE DataPlaneProofs --------------------------
(***************************************************************************)
(* Proofs about four parts of the data plane that share no state: routing, *)
(* the DNS server's cache, port forwarding, and the start and the shutdown *)
(* of the program.  Each has its inductive invariant, one lemma per group  *)
(* of actions, the theorem that the invariant holds and those it is for.   *)
(***************************************************************************)
EXTENDS Routing, Dns, Forward, Runtime, SequenceTheorems, WellFoundedInduction, TLAPS

------------------------------------------------------------------------------
(* Routing.                                                                *)

\* A set of numbers that is not empty has a least one.
LEMMA LeastOf ==
  ASSUME NEW T \in SUBSET Nat, T # {}
  PROVE  \E x \in T : \A y \in T : x <= y
<1>1. PICK x \in T : \A y \in T : ~(<<y, x>> \in OpToRel(<, Nat))
  BY WFMin, NatLessThanWellFounded
<1>2. ASSUME NEW y \in T PROVE x <= y
  <2>1. ~(<<y, x>> \in OpToRel(<, Nat))
    BY <1>1
  <2>2. y \in Nat /\ x \in Nat
    OBVIOUS
  <2>3. ~(y < x)
    BY <2>1, <2>2 DEF OpToRel
  <2> QED  BY <2>2, <2>3
<1> QED  BY <1>2

LEMMA MinIs ==
  ASSUME NEW T \in SUBSET Nat, T # {}
  PROVE  Min(T) \in T
BY LeastOf DEF Min

LEMMA LastOf ==
  ASSUME NEW n \in Nat, NEW J \in SUBSET (1..n), J # {}
  PROVE  \E i \in J : \A j \in J : j <= i
<1>1. PICK T : T = {n - j : j \in J}
  OBVIOUS
<1>2. T # {} /\ \A x \in T : x \in Nat
  <2>1. \A j \in J : n - j \in Nat
    OBVIOUS
  <2> QED  BY <1>1, <2>1
<1>3. PICK x \in T : \A y \in T : x <= y
  <2>1. T \in SUBSET Nat
    BY <1>2
  <2> QED  BY <1>2, <2>1, LeastOf
<1>4. PICK i \in J : x = n - i
  BY <1>1, <1>3
<1>5. \A j \in J : n - i <= n - j
  BY <1>1, <1>3, <1>4
<1> QED  BY <1>5

\* The members of a list.
LEMMA ListIs ==
  ASSUME NEW s, IsList(s)
  PROVE  /\ Len(s) \in Nat /\ DOMAIN s = 1..Len(s)
         /\ ToSet(s) = {s[i] : i \in 1..Len(s)}
         /\ Len(s) = 0 => s = <<>>
<1>1. s \in Seq(Range(s))
  BY DEF IsList
<1>2. Len(s) \in Nat /\ DOMAIN s = 1..Len(s)
  BY <1>1
<1>3. Len(s) = 0 => s = <<>>
  BY <1>1, EmptySeq
<1> QED  BY <1>2, <1>3 DEF ToSet

LEMMA WiderSeq ==
  ASSUME NEW S, NEW T, S \subseteq T, NEW s \in Seq(S)
  PROVE  s \in Seq(T)
OBVIOUS

\* What comes first in a list.
LEMMA FrontOf ==
  ASSUME NEW S, NEW x \in S, NEW q \in Seq(S)
  PROVE  <<x>> \o q \in Seq(S) /\ <<x>> \o q # <<>>
<1>1. PICK y : y = <<x>>
  OBVIOUS
<1>2. y \in Seq(S) /\ Len(y) = 1
  BY <1>1
<1>3. y \o q \in Seq(S) /\ Len(y \o q) = 1 + Len(q) /\ Len(q) \in Nat
  BY <1>2, ConcatProperties
<1>4. PICK z : z = y \o q
  OBVIOUS
<1>5. z \in Seq(S) /\ Len(z) # 0
  BY <1>3, <1>4
<1>6. z # <<>>
  BY <1>5, EmptySeq
<1> QED  BY <1>1, <1>4, <1>5, <1>6

LEMMA ReplacedAt ==
  ASSUME NEW S, NEW x \in S, NEW q \in Seq(S), q # <<>>, NEW i
  PROVE  [q EXCEPT ![i] = x] \in Seq(S) /\ [q EXCEPT ![i] = x] # <<>>
<1>1. PICK z : z = [q EXCEPT ![i] = x]
  OBVIOUS
<1>2. Len(q) \in Nat /\ Len(q) # 0 /\ q \in [1..Len(q) -> S]
  BY EmptySeq, LenProperties
<1>3. z \in [1..Len(q) -> S]
  BY <1>1, <1>2
<1>4. z \in Seq(S) /\ Len(z) = Len(q)
  BY <1>2, <1>3, IsASeq, LenProperties
<1> QED  BY <1>1, <1>2, <1>4, EmptySeq

LEMMA MaxIs ==
  ASSUME NEW n \in Nat, NEW J \in SUBSET (1..n), J # {}
  PROVE  Max(J) \in J
<1>1. PICK i \in J : \A j \in J : j <= i
  BY LastOf
<1>2. \A j \in J : i >= j
  BY <1>1
<1> QED  BY <1>2 DEF Max

\* The entry a name is registered with bears that name.
LEMMA Registered ==
  ASSUME NEW ps, IsList(ps), NEW n \in RegNames(ps)
  PROVE  \E i \in DOMAIN ps : Register(ps)[n] = ps[i] /\ RegName(ps[i]) = n
<1>1. PICK named : named = {i \in DOMAIN ps : RegName(ps[i]) = n}
  OBVIOUS
<1>2. PICK groups : groups = {i \in named : isGroup(ps[i])}
  OBVIOUS
<1>3. PICK J : J = IF groups = {} THEN named ELSE groups
  OBVIOUS
<1>4. Len(ps) \in Nat /\ DOMAIN ps = 1..Len(ps)
  BY ListIs
<1>5. J \subseteq named /\ J # {}
  BY <1>1, <1>2, <1>3 DEF RegNames
<1>6. Max(J) \in J
  BY <1>1, <1>4, <1>5, MaxIs
<1>7. Register(ps)[n] = ps[Max(J)]
  BY <1>1, <1>2, <1>3 DEF Register
<1> QED  BY <1>1, <1>5, <1>6, <1>7

------------------------------------------------------------------------------
\* What is assumed of the proxies of a configuration.
Shape(ps) ==
  /\ IsList(ps)
  /\ \A i \in DOMAIN ps : IsList(ps[i].members)
  /\ \A i, j \in DOMAIN ps :
        ps[i].type \in {"failover", "url-test"} /\ ps[j].type \in GroupTypes =>
            ps[j].name \notin ToSet(ps[i].members)

Entry(ps, n) == Register(ps)[n]

\* It holds after Load.
LEMMA LoadShape == RouteInit => Shape(cfg.proxies) /\ IsList(cfg.rules)
<1> SUFFICES ASSUME RouteInit PROVE Shape(cfg.proxies) /\ IsList(cfg.rules)
  OBVIOUS
<1>1. PICK f \in Configs : cfg = Load(f)
  BY DEF RouteInit
<1>2. {"proxies", "groups", "rules"} \subseteq DOMAIN f
  BY RoutingAssumption
<1>3. DOMAIN Defaults = {"mode", "http", "socks5", "cidr", "fakecidr"}
  BY DEF Defaults
<1>4. Load(f)["proxies"] = f["proxies"] /\ Load(f)["rules"] = f["rules"]
  BY <1>2, <1>3 DEF Load
<1>5. cfg.proxies = f.proxies /\ cfg.rules = f.rules
  BY <1>1, <1>4
<1> QED  BY <1>5, RoutingAssumption DEF Shape

LEMMA ValidMeans ==
  ASSUME Validate(cfg)
  PROVE  /\ Empty \notin RegNames(cfg.proxies)
         /\ \A i \in DOMAIN cfg.proxies : cfg.proxies[i].type \in ProxyTypes \cup {Empty}
         /\ \A i \in DOMAIN cfg.rules :
               cfg.rules[i].target \in NamesOf(cfg.groups) \cup {"DIRECT", "REJECT", "PROXY"}
<1>1. Empty \notin RegNames(cfg.proxies)
  <2>1. Empty \notin NamesOf(cfg.proxies)
    BY Zenon DEF Validate, Distinct
  <2> QED  BY <2>1 DEF RegNames, RegName, NamesOf, Empty
<1>2. \A i \in DOMAIN cfg.proxies : cfg.proxies[i].type \in ProxyTypes \cup {Empty}
  BY Zenon DEF Validate
<1>3. \A i \in DOMAIN cfg.rules :
        cfg.rules[i].target \in NamesOf(cfg.groups) \cup {"DIRECT", "REJECT", "PROXY"}
  BY Zenon DEF Validate
<1> QED  BY <1>1, <1>2, <1>3

LEMMA MergeIs ==
  /\ MergeDynamic(cfg, overlay).cfg = cfg
  /\ MergeDynamic(cfg, overlay).ok = (overlay = NoOverlay)
<1>1. MergeDynamic(cfg, overlay).cfg = cfg
  BY DEF MergeDynamic
<1>2. MergeDynamic(cfg, overlay).ok = (overlay = NoOverlay)
  BY Zenon DEF MergeDynamic
<1> QED  BY <1>1, <1>2, Zenon

\* A registered group is no member of a failover or url-test group.
LEMMA NoNesting ==
  ASSUME NEW ps, Shape(ps), NEW n \in RegNames(ps), NEW m \in RegNames(ps),
         Entry(ps, n).type \in {"failover", "url-test"}, Entry(ps, m).type \in GroupTypes
  PROVE  m \notin ToSet(Entry(ps, n).members)
<1>1. PICK i \in DOMAIN ps : Entry(ps, n) = ps[i]
  BY Registered DEF Shape, Entry
<1>2. PICK j \in DOMAIN ps : Entry(ps, m) = ps[j] /\ RegName(ps[j]) = m
  BY Registered DEF Shape, Entry
<1>3. ps[j].name = m
  BY <1>2 DEF RegName, GroupTypes
<1> QED  BY <1>1, <1>2, <1>3 DEF Shape

LEMMA EntryMembers ==
  ASSUME NEW ps, Shape(ps), NEW n \in RegNames(ps)
  PROVE  IsList(Entry(ps, n).members)
<1>1. PICK i \in DOMAIN ps : Entry(ps, n) = ps[i]
  BY Registered DEF Shape, Entry
<1> QED  BY <1>1 DEF Shape

------------------------------------------------------------------------------
\* Where a call stands in its group, ps being the registered proxies.
FailoverOK(k, ms) ==
  /\ k.pc \notin {"idle", "mark"}
  /\ k.pc \in {"get", "dial"} => ms # <<>> /\ k.target = ms[k.at]
  /\ k.pc \in {"get", "group", "dial"} /\ ms # <<>> =>
        k.at \in 1..Len(ms) /\ \A i \in 1..(k.at - 1) : ms[i] \in k.tried
  /\ k.pc = "error" => ToSet(ms) \subseteq k.tried

ChainOK(k, ms) ==
  /\ k.pc \notin {"get", "mark"}
  /\ k.pc = "dial" => ms # <<>>
  /\ k.pc \in {"group", "dial"} /\ ms # <<>> => k.at \in 1..Len(ms)
  /\ k.pc = "ok" => k.at = Len(ms)

Kind(k, ps) == Entry(ps, k.via).type
Mem(k, ps) == Entry(ps, k.via).members

CallOK(k, ps) ==
  /\ k.via = Empty => k.at = 1
  /\ k.via # Empty =>
        /\ k.via \in RegNames(ps)
        /\ Kind(k, ps) \notin {"failover", "chain"} => k.at = 1
        /\ Kind(k, ps) = "failover" => FailoverOK(k, Mem(k, ps))
        /\ Kind(k, ps) = "chain" => ChainOK(k, Mem(k, ps))

LEMMA CallIs ==
  ASSUME NEW pc, NEW target, NEW via, NEW at, NEW tried, NEW k, k = Call(pc, target, via, at, tried)
  PROVE  k.pc = pc /\ k.target = target /\ k.via = via /\ k.at = at /\ k.tried = tried
BY DEF Call

LEMMA MemIs ==
  ASSUME NEW ps, Shape(ps), NEW k, CallOK(k, ps), k.via # Empty, NEW ms, ms = Mem(k, ps)
  PROVE  /\ IsList(ms) /\ Len(ms) \in Nat /\ (Len(ms) = 0 => ms = <<>>)
         /\ ToSet(ms) = {ms[i] : i \in 1..Len(ms)}
<1>1. IsList(ms)
  BY EntryMembers DEF CallOK, Mem
<1> QED  BY <1>1, ListIs

\* The outcomes of a step, as records.
GaveUp(k) == Call("error", k.target, k.via, k.at, k.tried \cup {k.target})

Onward(k) == Call("group", k.target, k.via, k.at + 1, k.tried \cup {k.target})

LEMMA GaveUpOK ==
  ASSUME NEW ps, Shape(ps), NEW k, CallOK(k, ps),
         k.via # Empty /\ Kind(k, ps) = "failover" =>
            ToSet(Mem(k, ps)) \subseteq k.tried \cup {k.target}
  PROVE  CallOK(GaveUp(k), ps)
<1>1. PICK e : e = GaveUp(k)
  OBVIOUS
<1>2. e.pc = "error" /\ e.via = k.via /\ e.at = k.at /\ e.tried = k.tried \cup {k.target}
  BY <1>1, CallIs DEF GaveUp
<1>3. Kind(e, ps) = Kind(k, ps) /\ Mem(e, ps) = Mem(k, ps)
  BY <1>2 DEF Kind, Mem
<1>4. CallOK(e, ps)
  BY <1>2, <1>3 DEF CallOK, FailoverOK, ChainOK
<1> QED  BY <1>1, <1>4

\* What Failed makes of a call that looked for a proxy or dialled one.
LEMMA FailedOK ==
  ASSUME NEW ps, Shape(ps), NEW k, CallOK(k, ps), k.pc \in {"get", "dial"}
  PROVE  /\ (k.via # Empty /\ Kind(k, ps) = "failover" /\ k.at + 1 <= Len(Mem(k, ps))) =>
              CallOK(Onward(k), ps)
         /\ ~(k.via # Empty /\ Kind(k, ps) = "failover" /\ k.at + 1 <= Len(Mem(k, ps))) =>
              CallOK(GaveUp(k), ps)
<1>1. ASSUME k.via # Empty, Kind(k, ps) = "failover"
      PROVE  /\ k.at + 1 <= Len(Mem(k, ps)) => CallOK(Onward(k), ps)
             /\ ~(k.at + 1 <= Len(Mem(k, ps))) => CallOK(GaveUp(k), ps)
  <2>1. PICK ms : ms = Mem(k, ps)
    OBVIOUS
  <2>2. /\ IsList(ms) /\ Len(ms) \in Nat /\ (Len(ms) = 0 => ms = <<>>)
        /\ ToSet(ms) = {ms[i] : i \in 1..Len(ms)}
    BY <1>1, <2>1, MemIs
  <2>3. /\ k.via \in RegNames(ps) /\ ms # <<>> /\ k.target = ms[k.at] /\ k.at \in 1..Len(ms)
        /\ \A i \in 1..(k.at - 1) : ms[i] \in k.tried
    BY <1>1, <2>1 DEF CallOK, FailoverOK
  <2>4. ASSUME k.at + 1 <= Len(ms) PROVE CallOK(Onward(k), ps)
    <3>1. PICK e : e = Onward(k)
      OBVIOUS
    <3>2. e.pc = "group" /\ e.via = k.via /\ e.at = k.at + 1 /\ e.tried = k.tried \cup {k.target}
      BY <3>1, CallIs DEF Onward
    <3>3. Kind(e, ps) = "failover" /\ Mem(e, ps) = ms
      BY <1>1, <2>1, <3>2 DEF Kind, Mem
    <3>4. e.at \in 1..Len(ms) /\ \A i \in 1..(e.at - 1) : ms[i] \in e.tried
      BY <2>2, <2>3, <2>4, <3>2
    <3>5. CallOK(e, ps)
      BY <1>1, <2>3, <3>2, <3>3, <3>4 DEF CallOK, FailoverOK
    <3> QED  BY <3>1, <3>5
  <2>5. ASSUME ~(k.at + 1 <= Len(ms)) PROVE CallOK(GaveUp(k), ps)
    <3>1. \A i \in 1..Len(ms) : i \in 1..(k.at - 1) \/ i = k.at
      BY <2>2, <2>3, <2>5
    <3>2. ToSet(ms) \subseteq k.tried \cup {k.target}
      BY <2>2, <2>3, <3>1
    <3> QED  BY <2>1, <3>2, GaveUpOK
  <2> QED  BY <2>1, <2>4, <2>5
<1>2. ASSUME ~(k.via # Empty /\ Kind(k, ps) = "failover") PROVE CallOK(GaveUp(k), ps)
  BY <1>2, GaveUpOK
<1> QED  BY <1>1, <1>2

\* The lookup of a name that is registered, and what follows.
LEMMA FoundOK ==
  ASSUME NEW ps, Shape(ps), NEW k, CallOK(k, ps), k.pc = "get"
  PROVE  /\ CallOK(Call("dial", k.target, k.via, k.at, k.tried), ps)
         /\ k.target \in RegNames(ps) /\ Entry(ps, k.target).type \in GroupTypes =>
              CallOK(Call("group", k.target, k.target, k.at, k.tried), ps)
<1>1. CallOK(Call("dial", k.target, k.via, k.at, k.tried), ps)
  <2>1. PICK e : e = Call("dial", k.target, k.via, k.at, k.tried)
    OBVIOUS
  <2>2. e.pc = "dial" /\ e.target = k.target /\ e.via = k.via /\ e.at = k.at /\ e.tried = k.tried
    BY <2>1, CallIs
  <2>3. Kind(e, ps) = Kind(k, ps) /\ Mem(e, ps) = Mem(k, ps)
    BY <2>2 DEF Kind, Mem
  <2>4. CallOK(e, ps)
    BY <2>2, <2>3 DEF CallOK, FailoverOK, ChainOK
  <2> QED  BY <2>1, <2>4
<1>2. ASSUME k.target \in RegNames(ps), Entry(ps, k.target).type \in GroupTypes
      PROVE  CallOK(Call("group", k.target, k.target, k.at, k.tried), ps)
  <2>1. PICK e : e = Call("group", k.target, k.target, k.at, k.tried)
    OBVIOUS
  <2>2. e.pc = "group" /\ e.via = k.target /\ e.at = k.at
    BY <2>1, CallIs
  <2>3. k.at = 1
    <3>1. CASE k.via # Empty /\ Kind(k, ps) = "failover"
      <4>1. PICK ms : ms = Mem(k, ps)
        OBVIOUS
      <4>2. ToSet(ms) = {ms[i] : i \in 1..Len(ms)} /\ k.target = ms[k.at] /\ k.at \in 1..Len(ms)
        BY <3>1, <4>1, MemIs DEF CallOK, FailoverOK
      <4>3. k.target \in ToSet(Entry(ps, k.via).members)
        BY <4>1, <4>2 DEF Mem
      <4> QED  BY <1>2, <3>1, <4>3, NoNesting DEF CallOK, Kind
    <3>2. CASE ~(k.via # Empty /\ Kind(k, ps) = "failover")
      BY <3>2 DEF CallOK, ChainOK
    <3> QED  BY <3>1, <3>2
  <2>4. PICK ms : ms = Entry(ps, k.target).members
    OBVIOUS
  <2>5. Kind(e, ps) = Entry(ps, k.target).type /\ Mem(e, ps) = ms
    BY <2>2, <2>4 DEF Kind, Mem
  <2>6. ms # <<>> => 1 \in 1..Len(ms)
    <3>1. IsList(ms)
      BY <1>2, <2>4, EntryMembers
    <3> QED  BY <3>1, ListIs
  <2>7. e.at = 1 /\ \A i \in 1..(e.at - 1) : FALSE
    BY <2>2, <2>3
  <2>8. CallOK(e, ps)
    BY <1>2, <2>2, <2>5, <2>6, <2>7 DEF CallOK, FailoverOK, ChainOK
  <2> QED  BY <2>1, <2>8
<1> QED  BY <1>1, <1>2

\* A group has chosen member m.
LEMMA TurnedOK ==
  ASSUME NEW ps, Shape(ps), NEW k, CallOK(k, ps), k.pc = "group", k.via # Empty, NEW m,
         Mem(k, ps) # <<>>,
         Kind(k, ps) \in {"failover", "chain"} => m = Mem(k, ps)[k.at]
  PROVE  CallOK(Call(IF Kind(k, ps) = "chain" THEN "dial" ELSE "get", m, k.via, k.at, k.tried), ps)
<1>1. PICK e : e = Call(IF Kind(k, ps) = "chain" THEN "dial" ELSE "get", m, k.via, k.at, k.tried)
  OBVIOUS
<1>2. /\ e.pc = (IF Kind(k, ps) = "chain" THEN "dial" ELSE "get")
      /\ e.target = m /\ e.via = k.via /\ e.at = k.at /\ e.tried = k.tried
  BY <1>1, CallIs
<1>3. Kind(e, ps) = Kind(k, ps) /\ Mem(e, ps) = Mem(k, ps)
  BY <1>2 DEF Kind, Mem
<1>4. CallOK(e, ps)
  BY <1>2, <1>3 DEF CallOK, FailoverOK, ChainOK
<1> QED  BY <1>1, <1>4

\* A proxy was reached.
LEMMA ReachedOK ==
  ASSUME NEW ps, Shape(ps), NEW k, CallOK(k, ps), k.pc = "dial"
  PROVE  /\ (k.via # Empty /\ Kind(k, ps) = "chain" /\ k.at < Len(Mem(k, ps))) =>
              /\ CallOK(GaveUp(k), ps)
              /\ CallOK(Call("group", k.target, k.via, k.at + 1, k.tried), ps)
         /\ ~(k.via # Empty /\ Kind(k, ps) = "chain" /\ k.at < Len(Mem(k, ps))) =>
              CallOK(Call("ok", k.target, k.via, k.at, k.tried), ps)
<1>1. ASSUME k.via # Empty, Kind(k, ps) = "chain"
      PROVE  /\ Mem(k, ps) # <<>> /\ k.at \in 1..Len(Mem(k, ps)) /\ Len(Mem(k, ps)) \in Nat
  BY <1>1, MemIs DEF CallOK, ChainOK
<1>2. ASSUME k.via # Empty, Kind(k, ps) = "chain", k.at < Len(Mem(k, ps))
      PROVE  /\ CallOK(GaveUp(k), ps)
             /\ CallOK(Call("group", k.target, k.via, k.at + 1, k.tried), ps)
  <2>1. CallOK(GaveUp(k), ps)
    BY <1>2, GaveUpOK
  <2>2. PICK e : e = Call("group", k.target, k.via, k.at + 1, k.tried)
    OBVIOUS
  <2>3. e.pc = "group" /\ e.via = k.via /\ e.at = k.at + 1
    BY <2>2, CallIs
  <2>4. Kind(e, ps) = "chain" /\ Mem(e, ps) = Mem(k, ps)
    BY <1>2, <2>3 DEF Kind, Mem
  <2>5. e.at \in 1..Len(Mem(k, ps))
    BY <1>1, <1>2, <2>3
  <2>6. CallOK(e, ps)
    BY <1>2, <2>3, <2>4, <2>5 DEF CallOK, ChainOK
  <2> QED  BY <2>1, <2>2, <2>6
<1>3. ASSUME ~(k.via # Empty /\ Kind(k, ps) = "chain" /\ k.at < Len(Mem(k, ps)))
      PROVE  CallOK(Call("ok", k.target, k.via, k.at, k.tried), ps)
  <2>1. PICK e : e = Call("ok", k.target, k.via, k.at, k.tried)
    OBVIOUS
  <2>2. e.pc = "ok" /\ e.via = k.via /\ e.at = k.at
    BY <2>1, CallIs
  <2>3. Kind(e, ps) = Kind(k, ps) /\ Mem(e, ps) = Mem(k, ps)
    BY <2>2 DEF Kind, Mem
  <2>4. k.via # Empty /\ Kind(k, ps) = "chain" => k.at = Len(Mem(k, ps))
    BY <1>1, <1>3
  <2>5. CallOK(e, ps)
    BY <2>2, <2>3, <2>4 DEF CallOK, FailoverOK, ChainOK
  <2> QED  BY <2>1, <2>5
<1> QED  BY <1>2, <1>3

\* A member of a url-test group is to be marked.
LEMMA ToMarkOK ==
  ASSUME NEW ps, NEW k, CallOK(k, ps), k.via # Empty, Kind(k, ps) = "url-test"
  PROVE  CallOK(Call("mark", k.target, k.via, k.at, k.tried), ps)
<1>1. PICK e : e = Call("mark", k.target, k.via, k.at, k.tried)
  OBVIOUS
<1>2. e.via = k.via /\ e.at = k.at
  BY <1>1, CallIs
<1>3. Kind(e, ps) = "url-test"
  BY <1>2 DEF Kind
<1>4. CallOK(e, ps)
  BY <1>2, <1>3 DEF CallOK
<1> QED  BY <1>1, <1>4

------------------------------------------------------------------------------
\* The registry holds entries of the configuration, all of them but for what
\* was removed, and nothing is under way before the router serves.
RegInv ==
  /\ phase \in {"down", "probing", "serving", "refused"}
  /\ Shape(cfg.proxies) /\ IsList(cfg.rules)
  /\ DOMAIN reg \subseteq RegNames(cfg.proxies)
  /\ \A n \in DOMAIN reg : reg[n] = Entry(cfg.proxies, n)
  /\ phase \in {"probing", "serving"} => RegNames(cfg.proxies) \subseteq DOMAIN reg \cup removed
  /\ DOMAIN call = Callers
  /\ phase # "serving" => \A c \in Callers : call[c].pc = "idle"

RuleInv == rules \in Seq(NewRules \cup Range(cfg.rules))

\* The probe's results are of the members, and the best one is among them.
BestInv ==
  /\ answers \subseteq ToSet(Members(cfg.proxies)) \X BOOLEAN
  /\ DOMAIN group = {"best", "failed", "choice", "idx"}
  /\ phase = "down" => answers = {}
  /\ phase = "serving" /\ (\E a \in answers : a[2]) => <<group.best, TRUE>> \in answers

UpInv == flips \in Nat /\ (flips = 0 => up = RegNames(cfg.proxies))

OverlayInv == overlay \in [proxies : Seq(NewProxies), rules : Seq(NewRules)]

RefusedInv ==
  Validate(cfg) /\ phase = "refused" =>
     \/ overlay # NoOverlay
     \/ \E i \in DOMAIN cfg.rules : ~Compiles(cfg.rules[i])
     \/ \E i \in DOMAIN cfg.proxies : cfg.proxies[i].type = Empty

CallInv == \A c \in Callers : CallOK(call[c], cfg.proxies)

\* The names ValidConfigServes excuses.
Excused(n) ==
  \/ n \in NamesOf(cfg.groups) \cup {"PROXY", "REJECT"} \cup removed
  \/ n \in {r.target : r \in NewRules} \ RegNames(cfg.proxies)
  \/ flips > 0

TargetOK(k) ==
  /\ k.via = Empty /\ k.pc \in {"get", "dial"} =>
        k.target \in RegNames(cfg.proxies) \cup {"DIRECT"} \/ Excused(k.target)
  /\ k.via = Empty /\ k.pc = "error" => Excused(k.target)
  /\ k.pc \in {"group", "mark"} => k.via # Empty

TargetInv == Validate(cfg) => \A c \in Callers : TargetOK(call[c])

RouteInv ==
  RegInv /\ RuleInv /\ BestInv /\ UpInv /\ OverlayInv /\ RefusedInv /\ CallInv /\ TargetInv

LEMMA RouteInitInv == RouteInit => RouteInv
<1> SUFFICES ASSUME RouteInit PROVE RouteInv
  OBVIOUS
<1>1. DOMAIN reg = {} /\ \A c \in Callers : call[c] = NoCall
  BY DEF RouteInit
<1>2. PICK k : k = NoCall
  OBVIOUS
<1>3. k.pc = "idle" /\ k.via = Empty /\ k.at = 1
  BY <1>2, CallIs DEF NoCall
<1>4. RegInv
  BY <1>1, <1>2, <1>3, LoadShape DEF RegInv, RouteInit
<1>5. RuleInv
  BY DEF RuleInv, RouteInit
<1>6. BestInv
  BY DEF BestInv, RouteInit
<1>7. UpInv /\ RefusedInv
  BY DEF UpInv, RefusedInv, RouteInit
<1>8. OverlayInv
  BY DEF OverlayInv, RouteInit, NoOverlay
<1>9. CallInv
  BY <1>1, <1>2, <1>3 DEF CallInv, CallOK
<1>10. TargetInv
  BY <1>1, <1>2, <1>3 DEF TargetInv, TargetOK
<1> QED  BY <1>4, <1>5, <1>6, <1>7, <1>8, <1>9, <1>10 DEF RouteInv

\* What a step that leaves the calls and the configuration alone preserves.
LEMMA CallFrame ==
  ASSUME RouteInv, UNCHANGED <<cfg, call>>, flips' \in Nat, flips' >= flips, removed \subseteq removed'
  PROVE  CallInv' /\ TargetInv'
<1>1. CallInv'
  BY DEF RouteInv, CallInv
<1>2. \A n : Excused(n) => Excused(n)'
  BY DEF Excused, RouteInv, UpInv
<1>3. TargetInv'
  BY <1>2 DEF RouteInv, TargetInv, TargetOK
<1> QED  BY <1>1, <1>3

LEMMA BuildRouterStep ==
  ASSUME RouteInv, buildRouter
  PROVE  RouteInv'
<1> USE DEF RouteInv
<1>1. /\ phase = "down" /\ phase' \in {"probing", "serving", "refused"}
      /\ UNCHANGED <<cfg, overlay, up, flips, removed, answers, call>>
  BY DEF buildRouter, world
<1>2. phase' = "refused" => UNCHANGED <<reg, rules, group>>
  BY DEF buildRouter
<1>3. phase' # "refused" =>
         reg' = Register(cfg.proxies) /\ rules' = cfg.rules /\ group' = Fresh(cfg.proxies)
  BY MergeIs DEF buildRouter
<1>4. DOMAIN Register(cfg.proxies) = RegNames(cfg.proxies)
  BY DEF Register
<1>5. RegInv'
  BY <1>1, <1>2, <1>3, <1>4 DEF RegInv, Entry
<1>6. RuleInv'
  <2>1. cfg.rules \in Seq(Range(cfg.rules))
    BY DEF RegInv, IsList
  <2>2. cfg.rules \in Seq(NewRules \cup Range(cfg.rules))
    BY <2>1, WiderSeq
  <2> QED  BY <1>1, <1>2, <1>3, <2>2 DEF RuleInv
<1>7. BestInv'
  <2>1. DOMAIN Fresh(cfg.proxies) = {"best", "failed", "choice", "idx"}
    BY DEF Fresh
  <2> QED  BY <1>1, <1>2, <1>3, <2>1 DEF BestInv
<1>8. RefusedInv'
  <2> SUFFICES ASSUME Validate(cfg), phase' = "refused", overlay = NoOverlay,
                      \A i \in DOMAIN cfg.rules : Compiles(cfg.rules[i]),
                      \A i \in DOMAIN cfg.proxies : cfg.proxies[i].type # Empty
               PROVE  FALSE
    BY <1>1 DEF RefusedInv
  <2>1. Accepts(cfg.proxies)
    BY ValidMeans DEF Accepts, ProxyTypes
  <2>2. MergeDynamic(cfg, overlay).cfg = cfg /\ MergeDynamic(cfg, overlay).ok
    BY MergeIs
  <2> QED  BY <2>1, <2>2 DEF buildRouter
<1>9. CallInv' /\ TargetInv'
  BY <1>1, CallFrame DEF UpInv
<1> QED  BY <1>1, <1>5, <1>6, <1>7, <1>8, <1>9 DEF UpInv, OverlayInv

LEMMA ProbeMemberStep ==
  ASSUME RouteInv, NEW m \in ToSet(Members(cfg.proxies)), ProbeMember(m)
  PROVE  RouteInv'
<1> USE DEF RouteInv
<1>1. /\ phase = "probing"
      /\ UNCHANGED <<phase, rules, reg, cfg, overlay, up, flips, removed, group, call>>
  BY DEF ProbeMember, built, world
<1>2. PICK b \in BOOLEAN : b = (m \in up /\ Known(m))
  BY Zenon
<1>3. \/ answers' = answers \cup {<<m, b>>}
      \/ \E a \in answers : answers' = (answers \ {a}) \cup {<<m, b>>}
  BY <1>2, Zenon DEF ProbeMember
<1>4. answers' \subseteq ToSet(Members(cfg.proxies)) \X BOOLEAN
  BY <1>3 DEF BestInv
<1>5. BestInv'
  BY <1>1, <1>4 DEF BestInv
<1>6. CallInv' /\ TargetInv'
  BY <1>1, CallFrame DEF UpInv
<1> QED  BY <1>1, <1>5, <1>6 DEF RegInv, RuleInv, UpInv, OverlayInv, RefusedInv

LEMMA ProbeEndStep ==
  ASSUME RouteInv, ProbeEnd
  PROVE  RouteInv'
<1> USE DEF RouteInv
<1>1. /\ phase = "probing" /\ phase' = "serving"
      /\ UNCHANGED <<rules, reg, cfg, overlay, up, flips, removed, answers, call>>
  BY DEF ProbeEnd, world
<1>2. PICK b \in BestOf :
        group' = [best |-> b, failed |-> {a[1] : a \in {x \in answers : ~x[2]}},
                  choice |-> group.choice, idx |-> group.idx]
  BY DEF ProbeEnd
<1>3. ASSUME NEW a \in answers, a[2] PROVE <<b, TRUE>> \in answers
  <2>1. PICK x \in answers : x[2] /\ b = x[1]
    BY <1>2, <1>3, Zenon DEF BestOf
  <2>2. PICK n, y : x = <<n, y>> /\ y \in BOOLEAN
    BY <2>1 DEF BestInv
  <2>3. b = n /\ y = TRUE
    BY <2>1, <2>2
  <2> QED  BY <2>1, <2>2, <2>3
<1>4. group'.best = b /\ DOMAIN group' = {"best", "failed", "choice", "idx"}
  BY <1>2
<1>5. BestInv'
  BY <1>1, <1>3, <1>4 DEF BestInv
<1>6. CallInv' /\ TargetInv'
  BY <1>1, CallFrame DEF UpInv
<1> QED  BY <1>1, <1>5, <1>6 DEF RegInv, RuleInv, UpInv, OverlayInv, RefusedInv

LEMMA RestartStep ==
  ASSUME RouteInv, Restart
  PROVE  RouteInv'
<1> USE DEF RouteInv
<1>1. /\ phase' = "down" /\ rules' = <<>> /\ reg' = << >> /\ answers' = {} /\ removed' = {}
      /\ \A c \in Callers : call[c].pc = "idle"
      /\ UNCHANGED <<cfg, overlay, up, flips, group, call>>
  BY DEF Restart
<1>2. RegInv' /\ BestInv'
  BY <1>1 DEF RegInv, BestInv
<1>3. CallInv' /\ TargetInv'
  BY <1>1 DEF CallInv, TargetInv, TargetOK
<1> QED  BY <1>1, <1>2, <1>3 DEF RuleInv, UpInv, OverlayInv, RefusedInv

LEMMA AddRuleStep ==
  ASSUME RouteInv, NEW r \in NewRules, AddRule(r)
  PROVE  RouteInv'
<1> USE DEF RouteInv
<1>1. /\ phase = "serving" /\ rules' = <<r>> \o rules
      /\ UNCHANGED <<phase, reg, cfg, overlay, up, flips, removed, group, answers, call>>
  BY DEF AddRule, world
<1>2. RuleInv'
  <2>1. PICK S : S = NewRules \cup Range(cfg.rules)
    OBVIOUS
  <2>2. <<r>> \o rules \in Seq(S)
    BY <2>1, FrontOf DEF RuleInv
  <2> QED  BY <1>1, <2>1, <2>2 DEF RuleInv
<1>3. CallInv' /\ TargetInv'
  BY <1>1, CallFrame DEF UpInv
<1> QED  BY <1>1, <1>2, <1>3 DEF RegInv, BestInv, UpInv, OverlayInv, RefusedInv

LEMMA ProxyStep ==
  ASSUME RouteInv, NEW name \in RegNames(cfg.proxies), AddProxy(name) \/ RemoveProxy(name)
  PROVE  RouteInv'
<1> USE DEF RouteInv
<1>1. /\ phase = "serving" /\ removed \subseteq removed'
      /\ UNCHANGED <<phase, rules, cfg, overlay, up, flips, group, answers, call>>
  BY DEF AddProxy, RemoveProxy, world
<1>2. RegInv'
  <2>1. CASE AddProxy(name)
    <3>1. /\ DOMAIN reg' = DOMAIN reg \cup {name} /\ removed' = removed
          /\ \A n \in DOMAIN reg' : reg'[n] = IF n = name THEN Entry(cfg.proxies, n) ELSE reg[n]
      BY <2>1 DEF AddProxy, Entry, world
    <3> QED  BY <1>1, <3>1 DEF RegInv
  <2>2. CASE RemoveProxy(name)
    <3>1. /\ DOMAIN reg' = DOMAIN reg \ {name} /\ removed' = removed \cup {name}
          /\ \A n \in DOMAIN reg' : reg'[n] = reg[n]
      BY <2>2 DEF RemoveProxy
    <3> QED  BY <1>1, <3>1 DEF RegInv
  <2> QED  BY <2>1, <2>2
<1>3. CallInv' /\ TargetInv'
  BY <1>1, CallFrame DEF UpInv
<1> QED  BY <1>1, <1>2, <1>3 DEF RuleInv, BestInv, UpInv, OverlayInv, RefusedInv

LEMMA SetChoiceStep ==
  ASSUME RouteInv, NEW name, SetChoice(name)
  PROVE  RouteInv'
<1> USE DEF RouteInv
<1>1. /\ group' = [group EXCEPT !.choice = name]
      /\ UNCHANGED <<phase, rules, reg, cfg, overlay, up, flips, removed, answers, call>>
  BY DEF SetChoice, built, world
<1>2. DOMAIN group' = DOMAIN group /\ group'.best = group.best
  BY <1>1 DEF BestInv
<1>3. CallInv' /\ TargetInv'
  BY <1>1, CallFrame DEF UpInv
<1> QED  BY <1>1, <1>2, <1>3 DEF RegInv, RuleInv, BestInv, UpInv, OverlayInv, RefusedInv

LEMMA FlipStep ==
  ASSUME RouteInv, NEW name, Flip(name)
  PROVE  RouteInv'
<1> USE DEF RouteInv
<1>1. /\ flips' = flips + 1
      /\ UNCHANGED <<phase, rules, reg, cfg, overlay, removed, group, answers, call>>
  BY DEF Flip, built
<1>2. UpInv' /\ flips' >= flips
  BY <1>1 DEF UpInv
<1>3. CallInv' /\ TargetInv'
  BY <1>1, <1>2, CallFrame DEF UpInv
<1> QED  BY <1>1, <1>2, <1>3 DEF RegInv, RuleInv, BestInv, OverlayInv, RefusedInv

\* What is written to the overlay is never nothing.
LEMMA WritesStep ==
  ASSUME RouteInv, NEW dyn \in [proxies : Seq(NewProxies), rules : Seq(NewRules)], Writes(dyn),
         dyn # NoOverlay
  PROVE  RouteInv'
<1> USE DEF RouteInv
<1>1. /\ overlay' = dyn
      /\ UNCHANGED <<phase, rules, reg, cfg, up, flips, removed, group, answers, call>>
  BY DEF Writes, built
<1>2. OverlayInv' /\ RefusedInv'
  BY <1>1 DEF OverlayInv, RefusedInv
<1>3. CallInv' /\ TargetInv'
  BY <1>1, CallFrame DEF UpInv
<1> QED  BY <1>1, <1>2, <1>3 DEF RegInv, RuleInv, BestInv, UpInv

LEMMA OverlayParts ==
  ASSUME NEW o \in [proxies : Seq(NewProxies), rules : Seq(NewRules)], NEW q
  PROVE  /\ q \in Seq(NewProxies) =>
              /\ [o EXCEPT !.proxies = q] \in [proxies : Seq(NewProxies), rules : Seq(NewRules)]
              /\ [o EXCEPT !.proxies = q].proxies = q
         /\ q \in Seq(NewRules) =>
              /\ [o EXCEPT !.rules = q] \in [proxies : Seq(NewProxies), rules : Seq(NewRules)]
              /\ [o EXCEPT !.rules = q].rules = q
OBVIOUS

LEMMA add_proxyStep ==
  ASSUME RouteInv, NEW p \in NewProxies, add_proxy(p)
  PROVE  RouteInv'
<1> USE DEF RouteInv
<1>1. PICK i : i = SelectInSeq(overlay.proxies, LAMBDA q : q.name = p.name)
  OBVIOUS
<1>2. overlay.proxies \in Seq(NewProxies)
  BY DEF OverlayInv
<1>3. overlay.proxies = <<>> => i = 0
  BY <1>1 DEF SelectInSeq
<1>4. PICK s : s = IF i = 0 THEN Append(overlay.proxies, p) ELSE ReplaceAt(overlay.proxies, i, p)
  OBVIOUS
<1>5. s \in Seq(NewProxies) /\ s # <<>>
  <2>1. CASE i = 0
    BY <1>2, <1>4, <2>1, AppendProperties
  <2>2. CASE i # 0
    <3>1. PICK o \in Seq(NewProxies) : o = overlay.proxies /\ o # <<>>
      BY <1>2, <1>3, <2>2
    <3>2. s = [o EXCEPT ![i] = p]
      BY <1>4, <2>2, <3>1 DEF ReplaceAt
    <3> QED  BY <3>1, <3>2, ReplacedAt
  <2> QED  BY <2>1, <2>2
<1>6. Writes([overlay EXCEPT !.proxies = s])
  BY <1>1, <1>4 DEF add_proxy
<1>7. PICK dyn : dyn = [overlay EXCEPT !.proxies = s]
  OBVIOUS
<1>8. dyn \in [proxies : Seq(NewProxies), rules : Seq(NewRules)] /\ dyn.proxies = s
  BY <1>5, <1>7, OverlayParts DEF OverlayInv
<1>9. dyn # NoOverlay
  BY <1>5, <1>8 DEF NoOverlay
<1> QED  BY <1>6, <1>7, <1>8, <1>9, WritesStep

LEMMA add_ruleStep ==
  ASSUME RouteInv, NEW r \in NewRules, add_rule(r)
  PROVE  RouteInv'
<1> USE DEF RouteInv
<1>1. PICK s : s = <<r>> \o overlay.rules
  OBVIOUS
<1>2. s \in Seq(NewRules) /\ s # <<>>
  BY <1>1, FrontOf DEF OverlayInv
<1>3. Writes([overlay EXCEPT !.rules = s])
  BY <1>1 DEF add_rule
<1>4. PICK dyn : dyn = [overlay EXCEPT !.rules = s]
  OBVIOUS
<1>5. dyn \in [proxies : Seq(NewProxies), rules : Seq(NewRules)] /\ dyn.rules = s
  BY <1>2, <1>4, OverlayParts DEF OverlayInv
<1>6. dyn # NoOverlay
  BY <1>2, <1>5 DEF NoOverlay
<1> QED  BY <1>3, <1>4, <1>5, <1>6, WritesStep

------------------------------------------------------------------------------
\* A step of caller c that makes its call k2.
CallBecomes(c, k2) ==
  /\ UNCHANGED <<phase, rules, reg, cfg, overlay, up, flips, removed, answers>>
  /\ DOMAIN call' = Callers /\ call'[c] = k2
  /\ \A d \in Callers : d # c => call'[d] = call[d]

LEMMA GotoIs ==
  ASSUME RegInv, NEW c \in Callers, NEW k2, Goto(c, k2)
  PROVE  /\ DOMAIN call' = Callers /\ call'[c] = k2
         /\ \A d \in Callers : d # c => call'[d] = call[d]
BY DEF RegInv, Goto

LEMMA BecomesKeeps ==
  ASSUME RouteInv, NEW c \in Callers, NEW k2, CallBecomes(c, k2), phase = "serving",
         CallOK(k2, cfg.proxies), Validate(cfg) => TargetOK(k2), BestInv'
  PROVE  RouteInv'
<1> USE DEF RouteInv, CallBecomes
<1>1. RegInv'
  BY DEF RegInv
<1>2. CallInv'
  BY DEF CallInv
<1>3. \A n : Excused(n) => Excused(n)'
  BY DEF Excused
<1>4. ASSUME Validate(cfg), NEW d \in Callers PROVE TargetOK(call[d])'
  <2>1. CASE d = c
    BY <1>3, <1>4, <2>1 DEF TargetOK
  <2>2. CASE d # c
    BY <1>3, <1>4, <2>2 DEF TargetInv, TargetOK
  <2> QED  BY <2>1, <2>2
<1>6. TargetInv'
  BY <1>4 DEF TargetInv
<1> QED  BY <1>1, <1>2, <1>6 DEF RuleInv, UpInv, OverlayInv, RefusedInv

\* The names Pick may come to.
LEMMA PickedIs ==
  ASSUME RouteInv, phase = "serving", Validate(cfg), NEW t, NEW n \in Candidates(t)
  PROVE  n \in RegNames(cfg.proxies) \cup {"DIRECT"} \/ Excused(n)
<1> USE DEF RouteInv
<1>1. PICK i : i = SelectInSeq(rules, LAMBDA r : match(t, r))
  OBVIOUS
<1>2. n = "DIRECT" \/ n \in selectFirst \/ (i # 0 /\ n = rules[i].target)
  BY <1>1 DEF Candidates
<1>3. n \in selectFirst => n \in RegNames(cfg.proxies) \cup {"DIRECT"}
  BY DEF selectFirst, RegInv
<1>4. ASSUME i # 0, n = rules[i].target
      PROVE  n \in RegNames(cfg.proxies) \cup {"DIRECT"} \/ Excused(n)
  <2>1. i \in 1..Len(rules)
    <3>1. PICK I : I = {j \in 1..Len(rules) : match(t, rules[j])}
      OBVIOUS
    <3>2. i = IF I # {} THEN Min(I) ELSE 0
      BY <1>1, <3>1 DEF SelectInSeq
    <3>3. I \subseteq 1..Len(rules)
      BY <3>1, Zenon
    <3>4. I \in SUBSET Nat
      BY <3>3
    <3> QED  BY <1>4, <3>2, <3>3, <3>4, MinIs
  <2>2. rules[i] \in NewRules \cup Range(cfg.rules)
    BY <2>1 DEF RuleInv
  <2>3. CASE rules[i] \in NewRules
    BY <1>4, <2>3 DEF Excused
  <2>4. CASE rules[i] \in Range(cfg.rules)
    <3>1. PICK j \in DOMAIN cfg.rules : rules[i] = cfg.rules[j]
      BY <2>4 DEF Range
    <3>2. n \in NamesOf(cfg.groups) \cup {"DIRECT", "REJECT", "PROXY"}
      BY <1>4, <3>1, ValidMeans
    <3> QED  BY <3>2 DEF Excused
  <2> QED  BY <2>2, <2>3, <2>4
<1> QED  BY <1>2, <1>3, <1>4

LEMMA PickStep ==
  ASSUME RouteInv, NEW c \in Callers, NEW t, Pick(c, t)
  PROVE  RouteInv'
<1> USE DEF RouteInv
<1>1. PICK n \in Candidates(t) : Goto(c, Call("get", n, Empty, 1, {}))
  BY DEF Pick
<1>2. PICK k : k = Call("get", n, Empty, 1, {})
  OBVIOUS
<1>3. k.pc = "get" /\ k.target = n /\ k.via = Empty /\ k.at = 1
  BY <1>2, CallIs
<1>4. CallBecomes(c, k) /\ phase = "serving" /\ UNCHANGED group
  BY <1>1, <1>2, GotoIs DEF Pick, CallBecomes, built, world
<1>5. BestInv'
  BY <1>4 DEF BestInv, CallBecomes
<1>6. CallOK(k, cfg.proxies)
  BY <1>3 DEF CallOK
<1>7. Validate(cfg) => TargetOK(k)
  BY <1>3, <1>4, PickedIs DEF TargetOK
<1> QED  BY <1>4, <1>5, <1>6, <1>7, BecomesKeeps

\* What every step of a caller under way starts from.
LEMMA UnderWay ==
  ASSUME RouteInv, NEW c \in Callers, call[c].pc # "idle"
  PROVE  /\ phase = "serving" /\ Shape(cfg.proxies) /\ CallOK(call[c], cfg.proxies)
         /\ Validate(cfg) => TargetOK(call[c])
         /\ Held(c).type = Kind(call[c], cfg.proxies)
         /\ Held(c).members = Mem(call[c], cfg.proxies)
BY DEF RouteInv, RegInv, CallInv, TargetInv, Held, Kind, Mem, Entry

\* The end of a call, for a target that is excused or came from a group.
LEMMA GaveUpTarget ==
  ASSUME NEW k, k.via = Empty => Excused(k.target)
  PROVE  TargetOK(GaveUp(k))
<1>1. PICK e : e = GaveUp(k)
  OBVIOUS
<1>2. e.pc = "error" /\ e.via = k.via /\ e.target = k.target
  BY <1>1, CallIs DEF GaveUp
<1> QED  BY <1>1, <1>2 DEF TargetOK

LEMMA ThroughGroup ==
  ASSUME NEW pc, NEW target, NEW via, NEW at, NEW tried, via # Empty
  PROVE  TargetOK(Call(pc, target, via, at, tried))
<1>1. PICK e : e = Call(pc, target, via, at, tried)
  OBVIOUS
<1>2. e.via # Empty
  BY <1>1, CallIs
<1> QED  BY <1>1, <1>2 DEF TargetOK

\* Failed, for a target that is excused or came from a group.
LEMMA FailedStep ==
  ASSUME RouteInv, NEW c \in Callers, call[c].pc \in {"get", "dial"}, Failed(c),
         UNCHANGED <<built, world, group, answers, probed>>,
         Validate(cfg) /\ call[c].via = Empty => Excused(call[c].target)
  PROVE  RouteInv'
<1>1. PICK k, ps : k = call[c] /\ ps = cfg.proxies
  OBVIOUS
<1>2. /\ phase = "serving" /\ Shape(ps) /\ CallOK(k, ps) /\ RegInv
      /\ Held(c).type = Kind(k, ps) /\ Held(c).members = Mem(k, ps)
  BY <1>1, UnderWay DEF RouteInv
<1>3. BestInv'
  BY DEF RouteInv, BestInv, built, world
<1>4. CASE k.via # Empty /\ Kind(k, ps) = "failover" /\ k.at + 1 <= Len(Mem(k, ps))
  <2>1. Goto(c, Onward(k))
    BY <1>1, <1>2, <1>4 DEF Failed, Onward
  <2>2. CallBecomes(c, Onward(k))
    BY <1>2, <2>1, GotoIs DEF CallBecomes, built, world
  <2>3. CallOK(Onward(k), ps) /\ TargetOK(Onward(k))
    BY <1>1, <1>2, <1>4, FailedOK, ThroughGroup DEF Onward
  <2> QED  BY <1>1, <1>2, <1>3, <2>2, <2>3, BecomesKeeps
<1>5. CASE ~(k.via # Empty /\ Kind(k, ps) = "failover" /\ k.at + 1 <= Len(Mem(k, ps)))
  <2>1. Goto(c, GaveUp(k))
    BY <1>1, <1>2, <1>5 DEF Failed, GiveUp, GaveUp
  <2>2. CallBecomes(c, GaveUp(k))
    BY <1>2, <2>1, GotoIs DEF CallBecomes, built, world
  <2>3. CallOK(GaveUp(k), ps) /\ (Validate(cfg) => TargetOK(GaveUp(k)))
    BY <1>1, <1>2, <1>5, FailedOK, GaveUpTarget
  <2> QED  BY <1>1, <1>2, <1>3, <2>2, <2>3, BecomesKeeps
<1> QED  BY <1>4, <1>5

LEMMA GetStep ==
  ASSUME RouteInv, NEW c \in Callers, Get(c)
  PROVE  RouteInv'
<1>1. PICK k, ps : k = call[c] /\ ps = cfg.proxies
  OBVIOUS
<1>2. /\ k.pc = "get" /\ phase = "serving" /\ Shape(ps) /\ CallOK(k, ps) /\ RegInv
      /\ Validate(cfg) => TargetOK(k)
  BY <1>1, UnderWay DEF RouteInv, Get
<1>3. UNCHANGED <<built, world, group, answers, probed>> /\ BestInv'
  BY DEF RouteInv, BestInv, built, world, Get
<1>4. CASE ~Known(k.target)
  <2>1. Failed(c)
    BY <1>1, <1>4 DEF Get, Missing
  <2>2. ASSUME Validate(cfg), k.via = Empty PROVE Excused(k.target)
    BY <1>2, <1>4, <2>2 DEF TargetOK, Known, RegInv, Excused
  <2> QED  BY <1>1, <1>2, <1>3, <2>1, <2>2, FailedStep
<1>5. CASE Known(k.target) /\ k.target \in DOMAIN reg /\ isGroup(reg[k.target])
  <2>1. Goto(c, Call("group", k.target, k.target, k.at, k.tried))
    BY <1>1, <1>5 DEF Get
  <2>2. PICK e : e = Call("group", k.target, k.target, k.at, k.tried)
    OBVIOUS
  <2>3. CallBecomes(c, e)
    BY <1>2, <1>3, <2>1, <2>2, GotoIs DEF CallBecomes, built, world
  <2>4. k.target \in RegNames(ps) /\ Entry(ps, k.target).type \in GroupTypes
    BY <1>1, <1>2, <1>5 DEF RegInv, isGroup
  <2>5. CallOK(e, ps)
    BY <1>2, <2>2, <2>4, FoundOK
  <2>6. ASSUME Validate(cfg) PROVE TargetOK(e)
    <3>1. k.target # Empty
      BY <1>1, <2>4, <2>6, ValidMeans
    <3> QED  BY <2>2, <3>1, ThroughGroup
  <2> QED  BY <1>1, <1>2, <1>3, <2>3, <2>5, <2>6, BecomesKeeps
<1>6. CASE Known(k.target) /\ ~(k.target \in DOMAIN reg /\ isGroup(reg[k.target]))
  <2>1. Goto(c, Call("dial", k.target, k.via, k.at, k.tried))
    BY <1>1, <1>6 DEF Get, Now
  <2>2. PICK e : e = Call("dial", k.target, k.via, k.at, k.tried)
    OBVIOUS
  <2>3. CallBecomes(c, e)
    BY <1>2, <1>3, <2>1, <2>2, GotoIs DEF CallBecomes, built, world
  <2>4. CallOK(e, ps)
    BY <1>2, <2>2, FoundOK
  <2>5. e.pc = "dial" /\ e.target = k.target /\ e.via = k.via
    BY <2>2, CallIs
  <2>6. Validate(cfg) => TargetOK(e)
    BY <1>2, <2>5 DEF TargetOK
  <2> QED  BY <1>1, <1>2, <1>3, <2>3, <2>4, <2>6, BecomesKeeps
<1> QED  BY <1>4, <1>5, <1>6

LEMMA GroupConnectStep ==
  ASSUME RouteInv, NEW c \in Callers, GroupConnect(c)
  PROVE  RouteInv'
<1>1. PICK k, ps : k = call[c] /\ ps = cfg.proxies
  OBVIOUS
<1>2. /\ k.pc = "group" /\ phase = "serving" /\ Shape(ps) /\ CallOK(k, ps) /\ RegInv
      /\ Validate(cfg) => TargetOK(k)
      /\ Held(c).type = Kind(k, ps) /\ Held(c).members = Mem(k, ps)
  BY <1>1, UnderWay DEF RouteInv, GroupConnect
<1>3. UNCHANGED <<built, world, answers, probed>>
  BY DEF GroupConnect
<1>4. Validate(cfg) => k.via # Empty
  BY <1>2 DEF TargetOK
<1>5. CASE Mem(k, ps) = <<>>
  <2>1. Goto(c, GaveUp(k)) /\ UNCHANGED group
    BY <1>1, <1>2, <1>5 DEF GroupConnect, GiveUp, GaveUp
  <2>2. CallBecomes(c, GaveUp(k))
    BY <1>2, <1>3, <2>1, GotoIs DEF CallBecomes, built, world
  <2>3. ToSet(<<>>) = {}
    BY DEF ToSet
  <2>4. CallOK(GaveUp(k), ps)
    BY <1>2, <1>5, <2>3, GaveUpOK
  <2>5. Validate(cfg) => TargetOK(GaveUp(k))
    BY <1>4, ThroughGroup DEF GaveUp
  <2>6. BestInv'
    BY <1>3, <2>1 DEF RouteInv, BestInv, built, world
  <2> QED  BY <1>1, <1>2, <2>2, <2>4, <2>5, <2>6, BecomesKeeps
<1>6. CASE Mem(k, ps) # <<>>
  <2>1. PICK m \in Turn(c) :
          /\ Goto(c, Call(IF Held(c).type = "chain" THEN "dial" ELSE "get", m, k.via, k.at, k.tried))
          /\ group' = IF Held(c).type = "round-robin" THEN [group EXCEPT !.idx = @ + 1] ELSE group
    BY <1>1, <1>2, <1>6 DEF GroupConnect
  <2>2. PICK e : e = Call(IF Kind(k, ps) = "chain" THEN "dial" ELSE "get", m, k.via, k.at, k.tried)
    OBVIOUS
  <2>3. CallBecomes(c, e)
    BY <1>2, <1>3, <2>1, <2>2, GotoIs DEF CallBecomes, built, world
  <2>4. BestInv'
    <3>1. DOMAIN group' = DOMAIN group /\ group'.best = group.best
      BY <2>1 DEF RouteInv, BestInv
    <3> QED  BY <1>3, <3>1 DEF RouteInv, BestInv, built, world
  <2>5. CallOK(e, ps)
    <3>1. CASE k.via = Empty
      <4>1. e.via = Empty /\ e.at = k.at
        BY <2>2, <3>1, CallIs
      <4> QED  BY <1>2, <3>1, <4>1 DEF CallOK
    <3>2. CASE k.via # Empty
      <4>1. Kind(k, ps) \in {"failover", "chain"} => m = Mem(k, ps)[k.at]
        BY <1>1, <1>2, <2>1 DEF Turn
      <4> QED  BY <1>2, <1>6, <2>2, <3>2, <4>1, TurnedOK
    <3> QED  BY <3>1, <3>2
  <2>6. Validate(cfg) => TargetOK(e)
    BY <1>4, <2>2, ThroughGroup
  <2> QED  BY <1>1, <1>2, <2>3, <2>4, <2>5, <2>6, BecomesKeeps
<1> QED  BY <1>5, <1>6

LEMMA DialStep ==
  ASSUME RouteInv, NEW c \in Callers, Dial(c)
  PROVE  RouteInv'
<1>1. PICK k, ps : k = call[c] /\ ps = cfg.proxies
  OBVIOUS
<1>2. /\ k.pc = "dial" /\ phase = "serving" /\ Shape(ps) /\ CallOK(k, ps) /\ RegInv
      /\ Validate(cfg) => TargetOK(k)
      /\ Held(c).type = Kind(k, ps) /\ Held(c).members = Mem(k, ps)
  BY <1>1, UnderWay DEF RouteInv, Dial
<1>3. UNCHANGED <<built, world, group, answers, probed>> /\ BestInv'
  BY DEF RouteInv, BestInv, built, world, Dial
<1>4. ASSUME NEW e, Goto(c, e), CallOK(e, ps), Validate(cfg) => TargetOK(e)
      PROVE  RouteInv'
  <2>1. CallBecomes(c, e)
    BY <1>2, <1>3, <1>4, GotoIs DEF CallBecomes, built, world
  <2> QED  BY <1>1, <1>2, <1>3, <1>4, <2>1, BecomesKeeps
<1>5. CASE k.target \in up \cup {"DIRECT"}
  <2>1. Reached(c)
    BY <1>1, <1>5 DEF Dial
  <2>2. CASE k.via # Empty /\ Kind(k, ps) = "chain" /\ k.at < Len(Mem(k, ps))
    <3>1. \/ Goto(c, GaveUp(k))
          \/ Goto(c, Call("group", k.target, k.via, k.at + 1, k.tried))
      BY <1>1, <1>2, <2>1, <2>2 DEF Reached, GiveUp, GaveUp
    <3>2. CallOK(GaveUp(k), ps) /\ CallOK(Call("group", k.target, k.via, k.at + 1, k.tried), ps)
      BY <1>2, <2>2, ReachedOK
    <3>3. TargetOK(GaveUp(k)) /\ TargetOK(Call("group", k.target, k.via, k.at + 1, k.tried))
      BY <2>2, ThroughGroup DEF GaveUp
    <3> QED  BY <1>4, <3>1, <3>2, <3>3
  <2>3. CASE ~(k.via # Empty /\ Kind(k, ps) = "chain" /\ k.at < Len(Mem(k, ps)))
    <3>1. PICK e : e = Call("ok", k.target, k.via, k.at, k.tried)
      OBVIOUS
    <3>2. Goto(c, e)
      BY <1>1, <1>2, <2>1, <2>3, <3>1 DEF Reached, Now
    <3>3. CallOK(e, ps)
      BY <1>2, <2>3, <3>1, ReachedOK
    <3>4. e.pc = "ok"
      BY <3>1, CallIs
    <3>5. TargetOK(e)
      BY <3>4 DEF TargetOK
    <3> QED  BY <1>4, <3>2, <3>3, <3>5
  <2> QED  BY <2>2, <2>3
<1>6. CASE k.target \notin up \cup {"DIRECT"} /\ k.via # Empty /\ Kind(k, ps) = "url-test"
  <2>1. Goto(c, Call("mark", k.target, k.via, k.at, k.tried))
    BY <1>1, <1>2, <1>6 DEF Dial, Now
  <2>2. CallOK(Call("mark", k.target, k.via, k.at, k.tried), ps)
    BY <1>2, <1>6, ToMarkOK
  <2>3. TargetOK(Call("mark", k.target, k.via, k.at, k.tried))
    BY <1>6, ThroughGroup
  <2> QED  BY <1>4, <2>1, <2>2, <2>3
<1>7. CASE k.target \notin up \cup {"DIRECT"} /\ ~(k.via # Empty /\ Kind(k, ps) = "url-test")
  <2>1. Failed(c)
    BY <1>1, <1>2, <1>7 DEF Dial
  <2>2. ASSUME Validate(cfg), k.via = Empty PROVE Excused(k.target)
    BY <1>1, <1>2, <1>7, <2>2 DEF TargetOK, RouteInv, UpInv, Excused
  <2> QED  BY <1>1, <1>2, <1>3, <2>1, <2>2, FailedStep
<1> QED  BY <1>5, <1>6, <1>7

LEMMA markFailedStep ==
  ASSUME RouteInv, NEW c \in Callers, markFailed(c)
  PROVE  RouteInv'
<1>1. PICK k, ps : k = call[c] /\ ps = cfg.proxies
  OBVIOUS
<1>2. /\ k.pc = "mark" /\ phase = "serving" /\ Shape(ps) /\ CallOK(k, ps) /\ RegInv
      /\ Validate(cfg) => TargetOK(k)
  BY <1>1, UnderWay DEF RouteInv, markFailed
<1>3. /\ UNCHANGED <<built, world, answers, probed>> /\ Goto(c, GaveUp(k))
      /\ group' = [group EXCEPT !.failed = @ \cup {k.target}]
  BY <1>1 DEF markFailed, GiveUp, GaveUp
<1>4. BestInv'
  <2>1. DOMAIN group' = DOMAIN group /\ group'.best = group.best
    BY <1>3 DEF RouteInv, BestInv
  <2> QED  BY <1>3, <2>1 DEF RouteInv, BestInv, built, world
<1>5. CallBecomes(c, GaveUp(k))
  BY <1>2, <1>3, GotoIs DEF CallBecomes, built, world
<1>6. CallOK(GaveUp(k), ps)
  BY <1>2, GaveUpOK DEF CallOK, FailoverOK
<1>7. Validate(cfg) => TargetOK(GaveUp(k))
  BY <1>2, ThroughGroup DEF TargetOK, GaveUp
<1> QED  BY <1>1, <1>2, <1>4, <1>5, <1>6, <1>7, BecomesKeeps

\* RouteInv holds in every state between the configuration and a connection.
THEOREM RoutingInvariant == RouteSpec => []RouteInv
<1>1. RouteInv /\ [RouteNext]_routeVars => RouteInv'
  <2> SUFFICES ASSUME RouteInv, [RouteNext]_routeVars PROVE RouteInv'
    OBVIOUS
  <2>1. CASE UNCHANGED routeVars
    <3>1. CallInv' /\ TargetInv'
      BY <2>1, CallFrame DEF routeVars, RouteInv, UpInv
    <3> QED  BY <2>1, <3>1 DEF routeVars, RouteInv, RegInv, RuleInv, BestInv, UpInv, OverlayInv,
             RefusedInv
  <2>2. CASE RouteNext
    BY <2>2, BuildRouterStep, ProbeEndStep, RestartStep, ProbeMemberStep, AddRuleStep, add_ruleStep,
       add_proxyStep, ProxyStep, SetChoiceStep, FlipStep, PickStep, GetStep, GroupConnectStep,
       DialStep, markFailedStep DEF RouteNext
  <2> QED  BY <2>1, <2>2
<1> QED  BY RouteInitInv, <1>1, PTL DEF RouteSpec

\* In every run of a configuration that RoutingAssumption admits (no groups among
\* the members of failover and url-test groups) a failover group gives up only
\* after every member failed in the same call, a chain reports a connection only
\* when its last hop was dialled, and the member a url-test group starts with
\* answered its probe.
THEOREM GroupsAlwaysHonest == RouteSpec => []GroupsHonest
<1>1. ASSUME RouteInv PROVE GroupsHonest
  <2>1. ASSUME NEW c \in Callers, call[c].via # Empty
        PROVE  /\ Held(c).type = "failover" /\ call[c].pc = "error" =>
                      ToSet(Held(c).members) \subseteq call[c].tried
               /\ Held(c).type = "chain" /\ call[c].pc = "ok" => call[c].at = Len(Held(c).members)
    <3>1. PICK k, ps : k = call[c] /\ ps = cfg.proxies
      OBVIOUS
    <3>2. CallOK(k, ps) /\ Held(c).type = Kind(k, ps) /\ Held(c).members = Mem(k, ps)
      BY <1>1, <3>1 DEF RouteInv, CallInv, Held, Kind, Mem, Entry
    <3> QED  BY <2>1, <3>1, <3>2 DEF CallOK, FailoverOK, ChainOK
  <2> QED  BY <1>1, <2>1 DEF GroupsHonest, RouteInv, BestInv
<1> QED  BY RoutingInvariant, <1>1, PTL

\* In every run a configuration that Validate accepts is refused, and a target
\* that a rule named is not found, only for the reasons ValidConfigServes lists.
THEOREM ValidConfigsAlwaysServe == RouteSpec => []ValidConfigServes
<1>1. ASSUME RouteInv PROVE ValidConfigServes
  <2>1. ASSUME Validate(cfg), NEW c \in Callers, call[c].pc = "error", call[c].via = Empty
        PROVE  Excused(call[c].target)
    BY <1>1, <2>1 DEF RouteInv, TargetInv, TargetOK
  <2> QED  BY <1>1, <2>1 DEF ValidConfigServes, RouteInv, RefusedInv, Excused
<1> QED  BY RoutingInvariant, <1>1, PTL

------------------------------------------------------------------------------
(* The DNS server.                                                         *)

DnsTypeOK ==
    /\ resolver \in Resolvers /\ clock \in Nat
    /\ cache \subseteq [key : Domains \X QTypes, ips : SUBSET (Families \X Nat), expires : Nat,
                        took : Nat]
    /\ query \in [Queries -> [pc : {"none", "get", "lookup", "set", "answered"},
                              domain : Domains \cup {"none"}, type : QTypes \cup {"none"},
                              begun : Nat, ips : SUBSET (Families \X Nat), took : Nat]]

\* Addresses that answer a question of type t.
HasFamily(ips, t) == t \in Families => \E a \in ips : a[1] = t

\* A stage of a query and what is known of its addresses there.
QueryInv ==
    \A q \in Queries :
        LET r == query[q] IN
        /\ r.pc # "none" => r.domain \in Domains /\ r.type \in QTypes
        /\ r.pc \in {"lookup", "set"} =>
              r.begun <= clock /\ (resolver = "doh" => clock <= r.begun + MaxLatency)
        /\ r.pc = "set" => \A a \in r.ips : r.begun <= a[2]
        /\ r.pc = "answered" =>
              /\ \A a \in r.ips : clock <= a[2] + Ttl + r.took
              /\ resolver = "doh" => r.took <= MaxLatency
        /\ r.pc \in {"set", "answered"} => HasFamily(r.ips, r.type)

\* An entry expires in time for the oldest of its addresses.
CacheInv ==
    \A e \in cache :
        /\ \A a \in e.ips : e.expires <= a[2] + Ttl + e.took
        /\ resolver = "doh" => e.took <= MaxLatency
        /\ HasFamily(e.ips, e.key[2])

DnsInv == DnsTypeOK /\ QueryInv /\ CacheInv

LEMMA DnsInitInv == DnsInit => DnsInv
BY DnsAssumption DEF DnsInit, DnsInv, DnsTypeOK, QueryInv, CacheInv, NoQuery, Resolvers, HasFamily

LEMMA QuestionStep ==
  ASSUME DnsInv, NEW q \in Queries, NEW d \in Domains, NEW t \in QTypes, Question(q, d, t)
  PROVE  DnsInv'
<1>1. DnsTypeOK'
  BY DEF DnsInv, Question, DnsTypeOK, NoQuery
<1>2. QueryInv'
  BY DEF DnsInv, Question, DnsTypeOK, QueryInv, NoQuery, HasFamily
<1>3. CacheInv'
  BY DEF DnsInv, Question, CacheInv, HasFamily
<1> QED  BY <1>1, <1>2, <1>3 DEF DnsInv

LEMMA CacheGetStep ==
  ASSUME DnsInv, NEW q \in Queries, CacheGet(q)
  PROVE  DnsInv'
<1>1. CASE Cached(q) = {}
  <2>0. Goes(q, "lookup", clock, {}, 0) /\ query[q].pc = "get" /\ UNCHANGED <<resolver, clock, cache>>
    BY <1>1 DEF CacheGet
  <2>1. DnsTypeOK'
    BY <2>0 DEF DnsInv, Goes, DnsTypeOK
  <2>2. QueryInv'
    BY <2>0, DnsAssumption DEF DnsInv, Goes, DnsTypeOK, QueryInv, HasFamily
  <2>3. CacheInv'
    BY <2>0 DEF DnsInv, CacheInv, HasFamily
  <2> QED  BY <2>1, <2>2, <2>3 DEF DnsInv
<1>2. CASE Cached(q) # {}
  <2>0. PICK e \in Cached(q) : Goes(q, "answered", 0, e.ips, e.took)
    BY <1>2 DEF CacheGet
  <2>1. query[q].pc = "get" /\ UNCHANGED <<resolver, clock, cache>>
    BY DEF CacheGet
  <2>2. e \in cache /\ e.key = <<query[q].domain, query[q].type>> /\ clock <= e.expires
    BY DEF Cached, Key
  <2>3. e.ips \in SUBSET (Families \X Nat) /\ e.expires \in Nat /\ e.took \in Nat
    BY <2>2 DEF DnsInv, DnsTypeOK
  <2>4. DnsTypeOK'
    BY <2>0, <2>1, <2>3 DEF DnsInv, Goes, DnsTypeOK
  <2>5. /\ HasFamily(e.ips, query[q].type)
        /\ \A a \in e.ips : clock <= a[2] + Ttl + e.took
        /\ resolver = "doh" => e.took <= MaxLatency
    BY <2>2, <2>3, DnsAssumption DEF DnsInv, CacheInv, HasFamily, DnsTypeOK
  <2>6. QueryInv'
    BY <2>0, <2>1, <2>3, <2>5 DEF DnsInv, Goes, DnsTypeOK, QueryInv, HasFamily
  <2>7. CacheInv'
    BY <2>1 DEF DnsInv, CacheInv, HasFamily
  <2> QED  BY <2>4, <2>6, <2>7 DEF DnsInv
<1> QED  BY <1>1, <1>2

LEMMA LookupStep ==
  ASSUME DnsInv, NEW q \in Queries, Lookup(q)
  PROVE  DnsInv'
<1> DEFINE ips == Resolve(query[q].type)
<1>0. /\ query[q].pc = "lookup" /\ UNCHANGED <<resolver, clock, cache>>
      /\ Goes(q, "set", query[q].begun, ips, 0)
  BY DEF Lookup
<1>1. \A a \in ips : a \in Families \X Nat /\ a[2] = clock
  BY DEF DnsInv, DnsTypeOK, Resolve, Upstream
<1>2. query[q].type \in Families => <<query[q].type, clock>> \in ips
  BY DEF Resolve, Upstream
<1>3. HasFamily(ips, query[q].type)
  BY <1>2 DEF HasFamily
<1> HIDE DEF ips
<1>4. DnsTypeOK'
  BY <1>0, <1>1 DEF DnsInv, Goes, DnsTypeOK
<1>5. QueryInv'
  BY <1>0, <1>1, <1>3 DEF DnsInv, Goes, DnsTypeOK, QueryInv
<1>6. CacheInv'
  BY <1>0 DEF DnsInv, CacheInv, HasFamily
<1> QED  BY <1>4, <1>5, <1>6 DEF DnsInv

\* The two ways in which a query's goroutine ends.
LEMMA DropStep ==
  ASSUME DnsInv, NEW q \in Queries, LookupFails(q) \/ Reply(q)
  PROVE  DnsInv'
<1>0. query' = [query EXCEPT ![q] = NoQuery] /\ UNCHANGED <<resolver, clock, cache>>
  BY DEF LookupFails, Reply
<1>1. DnsTypeOK'
  BY <1>0 DEF DnsInv, DnsTypeOK, NoQuery
<1>2. QueryInv'
  BY <1>0 DEF DnsInv, DnsTypeOK, QueryInv, NoQuery, HasFamily
<1>3. CacheInv'
  BY <1>0 DEF DnsInv, CacheInv, HasFamily
<1> QED  BY <1>1, <1>2, <1>3 DEF DnsInv

LEMMA CacheSetStep ==
  ASSUME DnsInv, NEW q \in Queries, CacheSet(q)
  PROVE  DnsInv'
<1> DEFINE k == <<query[q].domain, query[q].type>>
           took == clock - query[q].begun
           entry == [key |-> k, ips |-> query[q].ips, expires |-> clock + Ttl, took |-> took]
<1>0. /\ query[q].pc = "set" /\ UNCHANGED <<resolver, clock>>
      /\ cache' = {e \in cache : e.key # k} \cup {entry}
      /\ Goes(q, "answered", 0, query[q].ips, took)
  BY DEF CacheSet, Key
<1>1. /\ k \in Domains \X QTypes /\ query[q].ips \in SUBSET (Families \X Nat)
      /\ clock \in Nat /\ clock + Ttl \in Nat
      /\ HasFamily(query[q].ips, query[q].type)
  BY <1>0, DnsAssumption DEF DnsInv, DnsTypeOK, QueryInv
<1>2. took \in Nat /\ (resolver = "doh" => took <= MaxLatency)
  BY <1>0, DnsAssumption DEF DnsInv, DnsTypeOK, QueryInv
<1>3. \A a \in query[q].ips : clock <= a[2] + Ttl + took /\ clock + Ttl <= a[2] + Ttl + took
  BY <1>0, <1>1, DnsAssumption DEF DnsInv, DnsTypeOK, QueryInv
<1> HIDE DEF took
<1>4. /\ entry \in [key : Domains \X QTypes, ips : SUBSET (Families \X Nat), expires : Nat,
                    took : Nat]
      /\ \A a \in entry.ips : entry.expires <= a[2] + Ttl + entry.took
      /\ resolver = "doh" => entry.took <= MaxLatency
      /\ HasFamily(entry.ips, entry.key[2])
  BY <1>1, <1>2, <1>3
<1> HIDE DEF entry
<1>5. DnsTypeOK'
  BY <1>0, <1>1, <1>2, <1>4 DEF DnsInv, Goes, DnsTypeOK
<1>6. QueryInv'
  BY <1>0, <1>1, <1>2, <1>3 DEF DnsInv, Goes, DnsTypeOK, QueryInv, HasFamily
<1>7. CacheInv'
  BY <1>0, <1>4 DEF DnsInv, CacheInv, HasFamily
<1> QED  BY <1>5, <1>6, <1>7 DEF DnsInv

LEMMA CleanupCacheStep == DnsInv /\ cleanupCache => DnsInv'
BY DEF DnsInv, cleanupCache, DnsTypeOK, QueryInv, CacheInv, HasFamily

LEMMA TickStep == DnsInv /\ Tick => DnsInv'
<1> SUFFICES ASSUME DnsInv, Tick PROVE DnsInv'
  OBVIOUS
<1>1. DnsTypeOK'
  BY DEF DnsInv, Tick, DnsTypeOK
<1>2. QueryInv'
  BY DnsAssumption DEF DnsInv, Tick, DnsTypeOK, QueryInv, HasFamily
<1>3. CacheInv'
  BY DEF DnsInv, Tick, CacheInv, HasFamily
<1> QED  BY <1>1, <1>2, <1>3 DEF DnsInv

\* DnsInv holds in every state of the DNS server.
THEOREM DnsInvariant == DnsSpec => []DnsInv
<1>1. DnsInv /\ [DnsNext]_dnsVars => DnsInv'
  <2> SUFFICES ASSUME DnsInv, [DnsNext]_dnsVars PROVE DnsInv'
    OBVIOUS
  <2>1. CASE UNCHANGED dnsVars
    BY <2>1 DEF dnsVars, DnsInv, DnsTypeOK, QueryInv, CacheInv, HasFamily
  <2>2. CASE DnsNext
    BY <2>2, QuestionStep, CacheGetStep, LookupStep, DropStep, CacheSetStep,
       CleanupCacheStep, TickStep DEF DnsNext
  <2> QED  BY <2>1, <2>2
<1> QED  BY DnsInitInv, <1>1, PTL DEF DnsSpec

\* An answer of processQuery is never older than an entry lives and the lookup
\* took that stored it (with DoH: than an entry lives and the client's timeout),
\* and never empty for an address type, although CacheResolver.Resolve holds no
\* lock between Get and Set: for any number of queries and domains.
THEOREM AnswersAlwaysFresh == DnsSpec => []AnswersFresh
<1>1. DnsInv => AnswersFresh
  BY DnsAssumption DEF DnsInv, DnsTypeOK, QueryInv, AnswersFresh, Answer, HasFamily
<1> QED  BY DnsInvariant, <1>1, PTL

------------------------------------------------------------------------------
(* Port forwarding.                                                        *)

Ends == Links \X {"client", "dest"}
Numbered == Users \X (1..MaxQueries)
Datagrams == Numbered \cup {Stray}

FwdTypeOK ==
    /\ mode \in Modes /\ ctx \in {"live", "cancelled"} /\ lsock \in {"open", "closed"}
    /\ returned \in {"none", "nil", "error"}
    /\ link \in [Links -> {"none", "shake", "relay", "over"}]
    /\ copy \subseteq Ends /\ ends \subseteq Ends /\ eof \subseteq Ends
    /\ errors \in Nat
    /\ lastClient \in Users \cup {"nil"}
    /\ asked \subseteq Numbered /\ sentBy \in [Users -> 0..MaxQueries]
    /\ pump \in Datagrams \cup {Waiting, Ended, Panicked}
    /\ readCh \in Seq(Datagrams)
    /\ assoc \in {"open", "chan", "closed"} /\ replies \in {"on", "ended"}
    /\ home \subseteq Datagrams \X Users
    /\ crossed \subseteq Numbered /\ early \in BOOLEAN

\* A listener is closed by a watcher, after the context, or by the return.
AcceptInv == ReturnsHonestly /\ (lsock = "closed" => ctx = "cancelled" \/ returned # "none")

\* Which ends and copiers a connection has at each stage of its handler.
LinkAt(c) ==
        /\ link[c] = "none" => <<c, "dest">> \notin ends
        /\ link[c] = "shake" => <<c, "client">> \in ends /\ <<c, "dest">> \notin ends
        /\ link[c] \in {"none", "shake"} => Pair(c) \cap copy = {}
        /\ link[c] = "relay" /\ mode \in Cancellable =>
              \A e \in Pair(c) : e \in copy <=> e \in ends
        /\ link[c] = "relay" /\ mode \notin Cancellable => Pair(c) \subseteq ends
        /\ link[c] = "over" /\ mode # "frps" => Pair(c) \cap ends = {}

LinkInv == \A c \in Links : LinkAt(c)

\* A step of another connection.
Elsewhere(d) ==
    /\ link'[d] = link[d]
    /\ \A e \in Pair(d) : (e \in copy' <=> e \in copy) /\ (e \in ends' <=> e \in ends)

\* A query that was sent.
Sent(q) == q[2] <= sentBy[q[1]]

\* The client that spoke last is the one a query came from, unless crossed
\* has the query.
CrossInv ==
    /\ \A q \in Numbered : Sent(q) => q[1] = lastClient \/ q \in crossed
    /\ \A q \in asked : Sent(q)
    /\ pump \in Numbered => Sent(pump)
    /\ \A i \in 1..Len(readCh) : readCh[i] \in Numbered => Sent(readCh[i])

\* Until a client speaks, only a datagram nobody asked for reaches readLoop.
EarlyInv ==
    /\ lastClient = "nil" =>
          early \/ (asked = {} /\ pump \in {Waiting, Ended, Panicked} /\ readCh = <<>>)
    /\ assoc # "open" => returned # "none"

FwdInv == FwdTypeOK /\ AcceptInv /\ LinkInv /\ CrossInv /\ EarlyInv /\ DatagramsHome

LEMMA FwdInitInv == FwdInit => FwdInv
<1> SUFFICES ASSUME FwdInit PROVE FwdInv
  OBVIOUS
<1>1. FwdTypeOK
  <2>1. sentBy \in [Users -> 0..MaxQueries]
    BY ForwardAssumption DEF FwdInit
  <2>2. link \in [Links -> {"none", "shake", "relay", "over"}] /\ readCh \in Seq(Datagrams)
    BY DEF FwdInit
  <2> QED  BY <2>1, <2>2 DEF FwdInit, FwdTypeOK
<1>2. AcceptInv /\ LinkInv
  BY DEF FwdInit, AcceptInv, ReturnsHonestly, LinkInv, LinkAt, Pair
<1>3. CrossInv
  BY ForwardAssumption DEF FwdInit, CrossInv, Numbered, Sent, Waiting
<1>4. EarlyInv /\ DatagramsHome
  BY DEF FwdInit, EarlyInv, DatagramsHome, Waiting, Panicked
<1> QED  BY <1>1, <1>2, <1>3, <1>4 DEF FwdInv

\* The accept loop and the context: the sockets of the connections and the
\* datagrams are not touched.
LEMMA AcceptStep ==
  ASSUME FwdInv, Interrupt \/ Watch \/ ForwardEnds \/ FrpGoesOn
  PROVE  FwdInv'
<1>0. /\ UNCHANGED <<mode, tcp, udp>>
      /\ ctx' \in {"live", "cancelled"} /\ lsock' \in {"open", "closed"}
      /\ returned' \in {"none", "nil", "error"} /\ errors' \in Nat
      /\ (returned # "none" => returned' # "none") /\ (lsock = "closed" => lsock' = "closed")
  BY DEF FwdInv, FwdTypeOK, Interrupt, Watch, ForwardEnds, FrpGoesOn
<1>1. FwdTypeOK'
  BY <1>0 DEF FwdInv, FwdTypeOK, tcp, udp
<1>2. AcceptInv'
  <2>1. CASE Interrupt \/ Watch \/ FrpGoesOn
    BY <2>1 DEF FwdInv, FwdTypeOK, AcceptInv, ReturnsHonestly, Interrupt, Watch, FrpGoesOn
  <2>2. CASE ForwardEnds
    BY <2>2 DEF FwdInv, FwdTypeOK, AcceptInv, ReturnsHonestly, ForwardEnds
  <2> QED  BY <2>1, <2>2
<1>3. LinkInv'
  BY <1>0 DEF FwdInv, LinkInv, LinkAt, tcp
<1>4. CrossInv'
  BY <1>0 DEF FwdInv, CrossInv, Sent, udp
<1>5. EarlyInv' /\ DatagramsHome'
  BY <1>0 DEF FwdInv, EarlyInv, DatagramsHome, udp
<1> QED  BY <1>1, <1>2, <1>3, <1>4, <1>5 DEF FwdInv

\* What the steps of a connection leave alone.
LEMMA TcpFrame ==
  ASSUME FwdInv, UNCHANGED <<mode, ctx, lsock, returned, errors, udp>>,
         link' \in [Links -> {"none", "shake", "relay", "over"}],
         copy' \subseteq Ends, ends' \subseteq Ends, eof' \subseteq Ends, LinkInv'
  PROVE  FwdInv'
<1>1. FwdTypeOK'
  BY DEF FwdInv, FwdTypeOK, udp
<1>2. AcceptInv'
  BY DEF FwdInv, AcceptInv, ReturnsHonestly
<1>4. CrossInv'
  BY DEF FwdInv, CrossInv, Sent, udp
<1>5. EarlyInv' /\ DatagramsHome'
  BY DEF FwdInv, EarlyInv, DatagramsHome, udp
<1> QED  BY <1>1, <1>2, <1>4, <1>5 DEF FwdInv

LEMMA LinkElsewhere ==
  ASSUME NEW d, LinkAt(d), Elsewhere(d), mode' = mode
  PROVE  LinkAt(d)'
BY DEF LinkAt, Elsewhere, Pair

LEMMA LinkStep ==
  ASSUME FwdInv, NEW c \in Links, AcceptLink(c) \/ HandlerFails(c) \/ Relay(c)
  PROVE  FwdInv'
<1>1. /\ link' \in [Links -> {"none", "shake", "relay", "over"}]
      /\ copy' \subseteq Ends /\ ends' \subseteq Ends /\ eof' \subseteq Ends
  BY DEF FwdInv, FwdTypeOK, AcceptLink, HandlerFails, Relay, Pair, Ends
<1>2. LinkInv'
  <2>0. \A d \in Links \ {c} : Elsewhere(d) /\ LinkAt(d)
    BY DEF FwdInv, FwdTypeOK, LinkInv, AcceptLink, HandlerFails, Relay, Elsewhere, Pair
  <2>1. ASSUME AcceptLink(c) PROVE LinkAt(c)'
    BY <2>1 DEF FwdInv, FwdTypeOK, LinkInv, LinkAt, AcceptLink, Pair
  <2>2. ASSUME HandlerFails(c) PROVE LinkAt(c)'
    BY <2>2 DEF FwdInv, FwdTypeOK, LinkInv, LinkAt, HandlerFails, Pair
  <2>3. ASSUME Relay(c) PROVE LinkAt(c)'
    BY <2>3 DEF FwdInv, FwdTypeOK, LinkInv, LinkAt, Relay, Pair
  <2>4. mode' = mode
    BY DEF AcceptLink, HandlerFails, Relay
  <2> QED  BY <2>0, <2>1, <2>2, <2>3, <2>4, LinkElsewhere DEF LinkInv
<1> QED  BY <1>1, <1>2, TcpFrame DEF AcceptLink, HandlerFails, Relay

LEMMA CopyStep ==
  ASSUME FwdInv, NEW c \in Links, NEW e \in {"client", "dest"},
         PeerFinishes(c, e) \/ CopierEnds(c, e)
  PROVE  FwdInv'
<1>1. /\ link' \in [Links -> {"none", "shake", "relay", "over"}]
      /\ copy' \subseteq Ends /\ ends' \subseteq Ends /\ eof' \subseteq Ends
  BY DEF FwdInv, FwdTypeOK, PeerFinishes, CopierEnds, Ends
<1>2. LinkInv'
  <2>1. CASE PeerFinishes(c, e)
    BY <2>1 DEF FwdInv, LinkInv, LinkAt, PeerFinishes
  <2>2. CASE CopierEnds(c, e)
    BY <2>2 DEF FwdInv, FwdTypeOK, LinkInv, LinkAt, CopierEnds, Closes, Pair
  <2> QED  BY <2>1, <2>2
<1> QED  BY <1>1, <1>2, TcpFrame DEF PeerFinishes, CopierEnds

LEMMA RelayReturnsStep ==
  ASSUME FwdInv, NEW c \in Links, RelayReturns(c)
  PROVE  FwdInv'
<1>1. /\ link' \in [Links -> {"none", "shake", "relay", "over"}]
      /\ copy' \subseteq Ends /\ ends' \subseteq Ends /\ eof' \subseteq Ends
  BY DEF FwdInv, FwdTypeOK, RelayReturns
<1>2. LinkInv'
  <2>0. \A d \in Links \ {c} : Elsewhere(d) /\ LinkAt(d)
    BY DEF FwdInv, FwdTypeOK, LinkInv, RelayReturns, Deferred, Elsewhere, Pair
  <2>1. LinkAt(c)'
    BY DEF FwdInv, FwdTypeOK, LinkAt, RelayReturns, Deferred
  <2> QED  BY <2>0, <2>1, LinkElsewhere DEF LinkInv, RelayReturns
<1> QED  BY <1>1, <1>2, TcpFrame DEF RelayReturns

\* What the steps of the association leave alone.
LEMMA UdpFrame ==
  ASSUME FwdInv, UNCHANGED still
  PROVE  LinkInv' /\ (errors' >= errors /\ errors' \in Nat => AcceptInv')
<1>1. LinkInv'
  BY DEF FwdInv, LinkInv, LinkAt, still, tcp
<1>2. ASSUME errors' >= errors, errors' \in Nat PROVE AcceptInv'
  BY <1>2 DEF FwdInv, FwdTypeOK, AcceptInv, ReturnsHonestly, still
<1> QED  BY <1>1, <1>2

LEMMA ClientSendsStep ==
  ASSUME FwdInv, NEW u \in Users, ClientSends(u)
  PROVE  FwdInv'
<1> USE DEF FwdInv
<1>0. /\ sentBy[u] \in 0..MaxQueries /\ sentBy[u] < MaxQueries /\ sentBy'[u] = sentBy[u] + 1
      /\ <<u, sentBy'[u]>> \in Numbered /\ sentBy' \in [Users -> 0..MaxQueries]
      /\ \A v \in Users : sentBy[v] <= sentBy'[v] /\ (v # u => sentBy'[v] = sentBy[v])
  BY ForwardAssumption DEF FwdTypeOK, ClientSends, Numbered
<1>1. FwdTypeOK'
  BY <1>0 DEF FwdTypeOK, ClientSends, Numbered, still, tcp
<1>2. AcceptInv' /\ LinkInv'
  BY UdpFrame DEF FwdTypeOK, ClientSends
<1>3. CrossInv'
  <2>1. \A q \in Numbered : Sent(q) => Sent(q)'
    BY <1>0, ForwardAssumption DEF Sent, Numbered, FwdTypeOK
  <2>2. \A q \in Numbered : Sent(q)' => q[1] = lastClient' \/ q \in crossed'
    BY <1>0 DEF Sent, Numbered, FwdTypeOK, ClientSends
  <2>3. \A q \in asked' : Sent(q)'
    BY <1>0, <2>1 DEF FwdTypeOK, CrossInv, ClientSends, Sent
  <2> QED  BY <2>1, <2>2, <2>3 DEF CrossInv, ClientSends
<1>4. EarlyInv' /\ DatagramsHome'
  BY ForwardAssumption DEF EarlyInv, DatagramsHome, ClientSends, still
<1> QED  BY <1>1, <1>2, <1>3, <1>4

LEMMA PumpReadsStep ==
  ASSUME FwdInv, PumpReads
  PROVE  FwdInv'
<1> USE DEF FwdInv
<1>0. /\ asked' \subseteq asked /\ errors' \in Nat /\ errors' >= errors
      /\ pump' \in asked \cup {Stray}
      /\ UNCHANGED <<still, lastClient, sentBy, readCh, assoc, replies, home, crossed>>
  BY DEF FwdTypeOK, PumpReads
<1>e. /\ early' \in BOOLEAN /\ (early => early')
      /\ pump' \in asked \/ (lastClient = "nil" => early')
  <2>0. early \in BOOLEAN
    BY DEF FwdTypeOK
  <2>1. CASE pump' \in asked /\ UNCHANGED early
    BY <2>0, <2>1
  <2>2. CASE early' = (early \/ lastClient = "nil")
    BY <2>0, <2>2
  <2> QED  BY <2>1, <2>2 DEF PumpReads
<1>1. FwdTypeOK'
  BY <1>0, <1>e DEF FwdTypeOK, Datagrams, still, tcp
<1>2. AcceptInv' /\ LinkInv'
  BY <1>0, UdpFrame
<1>3. CrossInv'
  <2>1. pump' \in Numbered => Sent(pump')
    BY <1>0, ForwardAssumption DEF CrossInv, Numbered, Stray
  <2> QED  BY <1>0, <2>1 DEF CrossInv, Sent
<1>4. EarlyInv'
  BY <1>0, <1>e DEF EarlyInv, still
<1>5. DatagramsHome'
  <2>1. pump' # Panicked
    BY <1>0, ForwardAssumption DEF FwdTypeOK, Numbered, Stray, Panicked
  <2> QED  BY <1>0, <1>e, <2>1 DEF DatagramsHome, still
<1> QED  BY <1>1, <1>2, <1>3, <1>4, <1>5

LEMMA PumpQueuesStep ==
  ASSUME FwdInv, PumpQueues
  PROVE  FwdInv'
<1> USE DEF FwdInv
<1>0. pump \in Datagrams
  BY DEF FwdTypeOK, PumpQueues
<1>1. FwdTypeOK'
  BY <1>0 DEF FwdTypeOK, PumpQueues, still, tcp
<1>2. AcceptInv' /\ LinkInv'
  BY UdpFrame DEF FwdTypeOK, PumpQueues
<1>3. CrossInv'
  <2>1. pump' \notin Numbered
    BY ForwardAssumption DEF PumpQueues, Numbered, Waiting, Panicked
  <2>2. \A i \in 1..Len(readCh') : readCh'[i] \in Numbered => Sent(readCh'[i])
    BY <1>0 DEF CrossInv, FwdTypeOK, PumpQueues
  <2> QED  BY <2>1, <2>2 DEF CrossInv, Sent, PumpQueues
<1>4. EarlyInv'
  BY DEF EarlyInv, PumpQueues, still
<1>5. DatagramsHome'
  BY DEF DatagramsHome, EarlyInv, PumpQueues, Waiting, Panicked, still
<1> QED  BY <1>1, <1>2, <1>3, <1>4, <1>5

LEMMA PumpEndsStep ==
  ASSUME FwdInv, PumpEnds \/ AssocCloses
  PROVE  FwdInv'
<1> USE DEF FwdInv
<1>1. FwdTypeOK'
  BY DEF FwdTypeOK, PumpEnds, AssocCloses, still, tcp
<1>2. AcceptInv' /\ LinkInv'
  BY UdpFrame DEF FwdTypeOK, PumpEnds, AssocCloses
<1>3. CrossInv'
  BY ForwardAssumption DEF CrossInv, Sent, PumpEnds, AssocCloses, Ended, Numbered
<1>4. EarlyInv'
  BY DEF EarlyInv, PumpEnds, AssocCloses, still
<1>5. DatagramsHome'
  BY DEF DatagramsHome, PumpEnds, AssocCloses, Ended, Panicked, still
<1> QED  BY <1>1, <1>2, <1>3, <1>4, <1>5

LEMMA ReplyReturnsStep ==
  ASSUME FwdInv, ReplyReturns
  PROVE  FwdInv'
<1> USE DEF FwdInv
<1>0. /\ readCh' \in Seq(Datagrams)
      /\ readCh # <<>> => Head(readCh) = readCh[1] /\ Head(readCh) \in Datagrams /\ 1 \in 1..Len(readCh)
  <2>1. readCh \in Seq(Datagrams)
    BY DEF FwdTypeOK
  <2>2. readCh # <<>> => /\ Tail(readCh) \in Seq(Datagrams) /\ 1 \in 1..Len(readCh)
                        /\ Head(readCh) = readCh[1] /\ Head(readCh) \in Datagrams
    BY <2>1, HeadTailProperties
  <2>3. readCh' = readCh \/ (readCh # <<>> /\ readCh' = Tail(readCh))
    BY DEF ReplyReturns
  <2> QED  BY <2>1, <2>2, <2>3
<1>1. FwdTypeOK'
  <2>1. replies' \in {"on", "ended"}
    BY DEF FwdTypeOK, ReplyReturns
  <2>2. home' \subseteq Datagrams \X Users
    <3>1. CASE readCh # <<>> /\ lastClient # "nil" /\ lsock = "open"
      <4>1. PICK d \in Datagrams : d = Head(readCh)
        BY <1>0, <3>1
      <4>2. lastClient \in Users /\ home' = home \cup {<<d, lastClient>>}
        BY <3>1, <4>1 DEF FwdTypeOK, ReplyReturns
      <4> QED  BY <4>2 DEF FwdTypeOK
    <3>2. CASE ~(readCh # <<>> /\ lastClient # "nil" /\ lsock = "open")
      BY <3>2 DEF FwdTypeOK, ReplyReturns
    <3> QED  BY <3>1, <3>2
  <2>3. UNCHANGED <<still, errors, lastClient, asked, sentBy, pump, assoc, crossed, early>>
    BY DEF ReplyReturns
  <2> QED  BY <1>0, <2>1, <2>2, <2>3 DEF FwdTypeOK, still, tcp
<1>2. AcceptInv' /\ LinkInv'
  BY UdpFrame DEF FwdTypeOK, ReplyReturns
<1>3. CrossInv'
  <2>1. CASE readCh = <<>>
    BY <2>1 DEF CrossInv, Sent, ReplyReturns
  <2>2. CASE readCh # <<>> /\ readCh' = Tail(readCh)
    <3>1. \A i \in 1..Len(readCh') : i + 1 \in 1..Len(readCh) /\ readCh'[i] = readCh[i + 1]
      BY <2>2 DEF FwdTypeOK
    <3> QED  BY <3>1 DEF CrossInv, Sent, ReplyReturns
  <2> QED  BY <2>1, <2>2 DEF ReplyReturns
<1>4. EarlyInv'
  BY DEF EarlyInv, ReplyReturns, still
<1>5. DatagramsHome'
  <2>1. \A r \in home' : r[1][1] \in Users /\ r[2] # r[1][1] => r[1] \in crossed'
    <3>1. CASE readCh # <<>> /\ lastClient # "nil" /\ lsock = "open"
      <4>1. Head(readCh) \in Numbered => Head(readCh)[1] = lastClient \/ Head(readCh) \in crossed
        BY <1>0, <3>1 DEF CrossInv
      <4>2. Head(readCh)[1] \in Users => Head(readCh) \in Numbered
        BY <1>0, <3>1, ForwardAssumption DEF Datagrams, Stray
      <4> QED  BY <3>1, <4>1, <4>2 DEF DatagramsHome, ReplyReturns
    <3>2. CASE ~(readCh # <<>> /\ lastClient # "nil" /\ lsock = "open")
      BY <3>2 DEF DatagramsHome, ReplyReturns
    <3> QED  BY <3>1, <3>2
  <2>2. replies' = "ended" => early' \/ lsock' = "closed"
    BY DEF FwdTypeOK, DatagramsHome, EarlyInv, AcceptInv, ReturnsHonestly, ReplyReturns, still
  <2> QED  BY <2>1, <2>2 DEF DatagramsHome, ReplyReturns, still
<1> QED  BY <1>1, <1>2, <1>3, <1>4, <1>5

\* FwdInv holds in every state of a forwarder.
THEOREM ForwardInvariant == FwdSpec => []FwdInv
<1>1. FwdInv /\ [FwdNext]_fwdVars => FwdInv'
  <2> SUFFICES ASSUME FwdInv, [FwdNext]_fwdVars PROVE FwdInv'
    OBVIOUS
  <2>1. CASE UNCHANGED fwdVars
    <3>1. UNCHANGED <<mode, ctx, lsock, returned, errors, udp>> /\ UNCHANGED tcp
      BY <2>1 DEF fwdVars, udp, tcp
    <3> QED  BY <3>1, TcpFrame DEF FwdInv, FwdTypeOK, LinkInv, LinkAt, tcp
  <2>2. CASE FwdNext
    BY <2>2, AcceptStep, LinkStep, CopyStep, RelayReturnsStep, ClientSendsStep, PumpReadsStep,
       PumpQueuesStep, PumpEndsStep, ReplyReturnsStep DEF FwdNext, Tcp, Udp
  <2> QED  BY <2>1, <2>2
<1> QED  BY FwdInitInv, <1>1, PTL DEF FwdSpec

\* In every mode and for any connections and clients: a forwarder returns what
\* happened, a relay never ends half, and forward.UDP returns a reply to the
\* client that asked unless another one spoke in between.
THEOREM ForwardsCleanly == FwdSpec => []ForwardClean
<1>1. ASSUME FwdInv PROVE ForwardClean
  <2>1. RelaysEnd
    <3> SUFFICES ASSUME NEW c \in Links
                 PROVE  LET runs == copy \cap Pair(c)
                            hurt == \E e \in Pair(c) : e \in eof \/ e \notin ends
                            ending == \E e \in {"client", "dest"} : <<c, e>> \in runs /\ MustEnd(c, e)
                        IN  /\ link[c] = "relay" /\ hurt /\ ~Waited(c) => ending
                            /\ link[c] = "over" /\ mode # "frps" =>
                                  (runs # {} => ending) /\ Pair(c) \cap ends = {}
      BY DEF RelaysEnd
    <3> USE <1>1 DEF FwdInv, LinkInv, LinkAt, Pair, MustEnd, Other, Waited
    <3>1. CASE link[c] = "relay" /\ mode \in Cancellable
      BY <3>1
    <3>2. CASE link[c] = "relay" /\ mode \notin Cancellable
      BY <3>2
    <3>3. CASE link[c] = "over"
      BY <3>3
    <3> QED  BY <3>1, <3>2, <3>3
  <2> QED  BY <1>1, <2>1 DEF FwdInv, AcceptInv, ForwardClean
<1> QED  BY ForwardInvariant, <1>1, PTL

------------------------------------------------------------------------------
(* The program.                                                            *)

\* The stages of a device between the end of Start's preparations and the end
\* of shutdown, and those that only a cancelled context leads to.
Looping == {"up", "devclosed", "chanclosed", "cleaned"}
Closing == {"devclosed", "chanclosed", "cleaned", "done"}

RuntimeTypeOK ==
    /\ plan \in Plans
    /\ cancelled \in BOOLEAN /\ crashed \in BOOLEAN
    /\ main \in {"up", "left", "gone"} /\ code \in {"none", "nil", "error"}
    /\ run \in [Kinds -> {"off", "running", "done", "failed"}]
    /\ dev \in [Owners -> Stages]
    /\ routed \subseteq Owners /\ loops \subseteq Owners \X {"read", "write"}
    /\ failures \in Nat

\* What a stage of the device says of its loops, its route and the context.
DeviceInv ==
    /\ \A u \in routed : dev[u] \in {"up", "devclosed", "chanclosed"}
    /\ \A l \in loops : dev[l[1]] \in Looping
    /\ \A u \in Owners : dev[u] \in Closing => cancelled
    /\ Holds("tun") => ~Holds("bridge")
    /\ crashed => cancelled

\* A subsystem that is off never starts; runTUN ends as its device ends; a
\* WireGuard peer ends by a failure only.
SubsystemInv ==
    /\ \A k \in Kinds : run[k] # "off" => k \in plan.on
    /\ dev["tun"] # "off" => "tun" \in plan.on
    /\ run["tun"] = "done" => dev["tun"] = "done"
    /\ run["tun"] = "failed" <=> dev["tun"] = "failed"
    /\ run["wireguard"] # "done"
    /\ run["wireguard"] = "failed" => failures > 0

\* What the command knew when it returned.
CommandInv ==
    /\ main # "up" /\ ~plan.full => \E k \in plan.on : run[k] \in {"failed", "done"}
    /\ code = "error" => \E k \in Kinds : run[k] = "failed"

RuntimeInv == RuntimeTypeOK /\ DeviceInv /\ SubsystemInv /\ CommandInv

LEMMA RuntimeInitInv == RuntimeInit => RuntimeInv
<1> SUFFICES ASSUME RuntimeInit PROVE RuntimeInv
  OBVIOUS
<1>1. RuntimeTypeOK
  BY RuntimeAssumption DEF RuntimeInit, RuntimeTypeOK, Stages, Owners
<1>2. DeviceInv
  BY DEF RuntimeInit, DeviceInv, Owners, Closing, Holds
<1>3. SubsystemInv
  BY DEF RuntimeInit, SubsystemInv, Owners, Kinds
<1>4. CommandInv
  BY DEF RuntimeInit, CommandInv
<1> QED  BY <1>1, <1>2, <1>3, <1>4 DEF RuntimeInv

\* The command's own steps leave the subsystems and the device alone.
LEMMA CommandStep ==
  ASSUME RuntimeInv, CtrlC \/ fullStart \/ standaloneRun \/ ProcessEnds
  PROVE  RuntimeInv'
<1>0. /\ cancelled' \in BOOLEAN /\ (cancelled => cancelled')
      /\ main' \in {"up", "left", "gone"} /\ code' \in {"none", "nil", "error"}
      /\ UNCHANGED <<plan, run, serving, device, failures>>
  BY DEF CtrlC, fullStart, standaloneRun, ProcessEnds, Returns, RuntimeInv, RuntimeTypeOK
<1>1. RuntimeTypeOK'
  BY <1>0 DEF RuntimeInv, RuntimeTypeOK, device
<1>2. DeviceInv'
  BY <1>0 DEF RuntimeInv, DeviceInv, device, Holds
<1>3. SubsystemInv'
  BY <1>0 DEF RuntimeInv, SubsystemInv, device
<1>4. CommandInv'
  <2>0. plan.on \subseteq Kinds
    BY RuntimeAssumption DEF RuntimeInv, RuntimeTypeOK, Plan
  <2>1. CASE CtrlC \/ ProcessEnds
    BY <1>0, <2>1 DEF RuntimeInv, RuntimeTypeOK, CommandInv, CtrlC, ProcessEnds
  <2>2. CASE fullStart
    BY <1>0, <2>2 DEF CommandInv, fullStart, Returns
  <2>3. CASE standaloneRun
    BY <1>0, <2>0, <2>3 DEF CommandInv, standaloneRun, Returns
  <2> QED  BY <2>1, <2>2, <2>3
<1> QED  BY <1>1, <1>2, <1>3, <1>4 DEF RuntimeInv

\* A subsystem other than the device's ends: k is done or has failed.
LEMMA SubsystemStep ==
  ASSUME RuntimeInv, NEW k \in Kinds,
         run[k] = "running", k # "tun",
         NEW s \in {"done", "failed"}, Becomes(k, s),
         k = "wireguard" => s = "failed" /\ failures' > 0,
         failures' \in Nat, failures' >= failures,
         UNCHANGED <<process, device>>
  PROVE  RuntimeInv'
<1>1. RuntimeTypeOK'
  BY DEF RuntimeInv, RuntimeTypeOK, Becomes, process, device
<1>2. DeviceInv'
  BY DEF RuntimeInv, DeviceInv, process, device, Holds
<1>3. SubsystemInv'
  BY DEF RuntimeInv, RuntimeTypeOK, SubsystemInv, Becomes, process, device, Kinds
<1>4. CommandInv'
  BY RuntimeAssumption DEF RuntimeInv, RuntimeTypeOK, CommandInv, Becomes, process, Plan
<1> QED  BY <1>1, <1>2, <1>3, <1>4 DEF RuntimeInv

LEMMA ServerStep ==
  ASSUME RuntimeInv,
         \/ \E k \in Kinds : StartFails(k) \/ Obeys(k)
         \/ dnsStop \/ (\E l \in {"udp", "tcp"} : dnsServe(l))
         \/ (\E streams \in BOOLEAN : webStop(streams)) \/ wireguardStart
  PROVE  RuntimeInv'
<1>0. failures \in Nat
  BY DEF RuntimeInv, RuntimeTypeOK
<1>1. ASSUME NEW k \in Kinds, StartFails(k) PROVE RuntimeInv'
  BY <1>0, <1>1, SubsystemStep DEF StartFails, Runs
<1>2. ASSUME NEW k \in Kinds, Obeys(k) PROVE RuntimeInv'
  BY <1>0, <1>2, SubsystemStep DEF Obeys, Runs
<1>3. CASE dnsStop
  BY <1>0, <1>3, SubsystemStep DEF dnsStop, Runs, Kinds
<1>4. ASSUME NEW l \in {"udp", "tcp"}, dnsServe(l) PROVE RuntimeInv'
  BY <1>4 DEF dnsServe, RuntimeInv, RuntimeTypeOK, DeviceInv, SubsystemInv, CommandInv,
     process, device, Holds
<1>5. ASSUME NEW streams \in BOOLEAN, webStop(streams) PROVE RuntimeInv'
  <2>1. PICK s \in {"done", "failed"} : Becomes("web", s)
    BY <1>5 DEF webStop
  <2> QED  BY <1>0, <1>5, <2>1, SubsystemStep DEF webStop, Runs, Kinds
<1>6. CASE wireguardStart
  BY <1>0, <1>6, SubsystemStep DEF wireguardStart, Runs, Kinds
<1> QED  BY <1>1, <1>2, <1>3, <1>4, <1>5, <1>6

LEMMA OpenTunStep ==
  ASSUME RuntimeInv, NEW u \in Owners, openTun(u)
  PROVE  RuntimeInv'
<1>1. RuntimeTypeOK'
  BY DEF RuntimeInv, RuntimeTypeOK, openTun, process, Becomes, Stages, Owners, Kinds
<1>2. DeviceInv'
  BY DEF RuntimeInv, RuntimeTypeOK, DeviceInv, openTun, process, Holds, Owners, Closing, Looping
<1>3. SubsystemInv'
  BY DEF RuntimeInv, RuntimeTypeOK, SubsystemInv, openTun, process, Becomes, Owners, Kinds
<1>4. CommandInv'
  <2>1. UNCHANGED process /\ (UNCHANGED run \/ run' = [run EXCEPT !["tun"] = "failed"])
    BY DEF openTun, Becomes
  <2>2. plan.on \subseteq Kinds /\ \A k \in Kinds : run[k] = run'[k] \/ run'[k] = "failed"
    BY <2>1, RuntimeAssumption DEF RuntimeInv, RuntimeTypeOK, Plan
  <2> QED  BY <2>1, <2>2 DEF RuntimeInv, CommandInv, process
<1> QED  BY <1>1, <1>2, <1>3, <1>4 DEF RuntimeInv

LEMMA TunStartStep ==
  ASSUME RuntimeInv, NEW u \in Owners, tunStart(u)
  PROVE  RuntimeInv'
<1>1. RuntimeTypeOK'
  BY DEF RuntimeInv, RuntimeTypeOK, tunStart, process, Stages, Owners
<1>2. DeviceInv'
  BY DEF RuntimeInv, RuntimeTypeOK, DeviceInv, tunStart, process, Holds, Owners, Closing, Looping
<1>3. SubsystemInv' /\ CommandInv'
  BY DEF RuntimeInv, RuntimeTypeOK, SubsystemInv, CommandInv, tunStart, process, Owners
<1> QED  BY <1>1, <1>2, <1>3 DEF RuntimeInv

\* The first three steps of shutdown.
LEMMA ShutdownStep ==
  ASSUME RuntimeInv, NEW u \in Owners, closeDevice(u) \/ closeInbound(u) \/ cleanup(u)
  PROVE  RuntimeInv'
<1>1. RuntimeTypeOK'
  BY DEF RuntimeInv, RuntimeTypeOK, closeDevice, closeInbound, cleanup, Stage, process, Stages
<1>2. DeviceInv'
  BY DEF RuntimeInv, RuntimeTypeOK, DeviceInv, closeDevice, closeInbound, cleanup, Stage,
     process, Holds, Owners, Closing, Looping
<1>3. SubsystemInv' /\ CommandInv'
  BY DEF RuntimeInv, RuntimeTypeOK, SubsystemInv, CommandInv, closeDevice, closeInbound,
     cleanup, Stage, process, Owners
<1> QED  BY <1>1, <1>2, <1>3 DEF RuntimeInv

LEMMA TunWaitStep ==
  ASSUME RuntimeInv, NEW u \in Owners, tunWait(u)
  PROVE  RuntimeInv'
<1>1. RuntimeTypeOK'
  BY DEF RuntimeInv, RuntimeTypeOK, tunWait, Stage, Becomes, process, Stages, Kinds
<1>2. DeviceInv'
  <2>1. \A l \in loops : l[1] # u
    BY DEF RuntimeInv, RuntimeTypeOK, tunWait
  <2> QED  BY <2>1 DEF RuntimeInv, RuntimeTypeOK, DeviceInv, tunWait, Stage,
           process, Holds, Owners, Closing, Looping
<1>3. SubsystemInv'
  BY DEF RuntimeInv, RuntimeTypeOK, SubsystemInv, tunWait, Stage, Becomes, process, Owners, Kinds
<1>4. CommandInv'
  BY DEF RuntimeInv, RuntimeTypeOK, SubsystemInv, CommandInv, tunWait, Stage, Becomes, process, Kinds
<1> QED  BY <1>1, <1>2, <1>3, <1>4 DEF RuntimeInv

LEMMA LoopStep ==
  ASSUME RuntimeInv, NEW u \in Owners, readLoop(u) \/ writeLoop(u)
  PROVE  RuntimeInv'
BY DEF RuntimeInv, RuntimeTypeOK, DeviceInv, SubsystemInv, CommandInv, readLoop, writeLoop,
   process, Holds

LEMMA WritePacketStep == RuntimeInv /\ WritePacket => RuntimeInv'
<1> SUFFICES ASSUME RuntimeInv, WritePacket PROVE RuntimeInv'
  OBVIOUS
<1>1. RuntimeTypeOK'
  BY DEF RuntimeInv, RuntimeTypeOK, WritePacket, process
<1>2. DeviceInv'
  BY DEF RuntimeInv, RuntimeTypeOK, DeviceInv, WritePacket, process, Holds, Owners, Closing
<1>3. SubsystemInv' /\ CommandInv'
  BY DEF RuntimeInv, SubsystemInv, CommandInv, WritePacket, process
<1> QED  BY <1>1, <1>2, <1>3 DEF RuntimeInv

\* RuntimeInv holds in every state of the program.
THEOREM RuntimeInvariant == RuntimeSpec => []RuntimeInv
<1>1. RuntimeInv /\ [RuntimeNext]_runtimeVars => RuntimeInv'
  <2> SUFFICES ASSUME RuntimeInv, [RuntimeNext]_runtimeVars PROVE RuntimeInv'
    OBVIOUS
  <2>1. CASE UNCHANGED runtimeVars
    BY <2>1 DEF runtimeVars, RuntimeInv, RuntimeTypeOK, DeviceInv, SubsystemInv, CommandInv, Holds
  <2>2. CASE RuntimeNext
    BY <2>2, CommandStep, ServerStep, OpenTunStep, TunStartStep, ShutdownStep, TunWaitStep,
       LoopStep, WritePacketStep DEF RuntimeNext
  <2> QED  BY <2>1, <2>2
<1> QED  BY RuntimeInitInv, <1>1, PTL DEF RuntimeSpec

\* Whatever the plan, the failures and the moment of the interrupt: the command
\* reports an error only if there was one, a device whose Start is back left no
\* loop and no route, shutdown never waits for a loop that cannot end, and the
\* device has one owner.
THEOREM AlwaysShutsDown == RuntimeSpec => []ShutsDown
<1>1. ASSUME RuntimeInv PROVE ShutsDown
  <2>1. EndsHonestly
    BY <1>1 DEF RuntimeInv, DeviceInv, CommandInv, EndsHonestly
  <2>2. NothingLeft
    <3>1. \A u \in Owners : dev[u] = "done" =>
            u \notin routed /\ <<u, "read">> \notin loops /\ <<u, "write">> \notin loops
      BY <1>1 DEF RuntimeInv, DeviceInv, Looping
    <3>2. ASSUME main = "gone", ~plan.full, "tun" \in routed PROVE FALSE
      <4>1. dev["tun"] \in {"up", "devclosed", "chanclosed"} /\ "tun" \in plan.on
        BY <1>1, <3>2 DEF RuntimeInv, DeviceInv, SubsystemInv
      <4>2. PICK k \in plan.on : run[k] \in {"failed", "done"}
        BY <1>1, <3>2 DEF RuntimeInv, CommandInv
      <4>3. k = "tun"
        BY <1>1, <3>2, <4>1, RuntimeAssumption DEF RuntimeInv, RuntimeTypeOK
      <4> QED  BY <1>1, <4>1, <4>2, <4>3 DEF RuntimeInv, SubsystemInv
    <3> QED  BY <1>1, <3>1, <3>2 DEF RuntimeInv, RuntimeTypeOK, NothingLeft, Owners
  <2>3. Stoppable
    <3>1. \A l \in loops : dev[l[1]] = "cleaned" =>
            IF l[2] = "read" THEN readLoopEnds(l[1]) ELSE writeLoopEnds(l[1])
      BY <1>1 DEF RuntimeInv, RuntimeTypeOK, DeviceInv, readLoopEnds, writeLoopEnds, Holds, Closing
    <3>2. ~plan.full /\ plan.on = {"wireguard"} /\ main # "up" => failures > 0
      BY <1>1 DEF RuntimeInv, SubsystemInv, CommandInv
    <3> QED  BY <3>1, <3>2 DEF Stoppable
  <2>4. OneOwner
    BY <1>1 DEF RuntimeInv, RuntimeTypeOK, DeviceInv, SubsystemInv, OneOwner, Owners, Holds
  <2> QED  BY <2>1, <2>2, <2>3, <2>4 DEF ShutsDown
<1> QED  BY RuntimeInvariant, <1>1, PTL
==============================================================================
