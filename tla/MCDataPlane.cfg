SPECIFICATION Spec
CONSTANTS
    Callers = {c1, c2}
    Configs <- MCConfigs
    Targets <- MCTargets
    NewRules <- MCNewRules
    NewProxies <- MCNewProxies
    MaxFlips = 2
    Ports = {"http", "socks", "tproxy"}
    Conns = {k1, k2}
    Proxies = {"p1"}
    MaxFaults = 1
    Dialogues <- MCDialogues
    Lengths = {3, 253, 258}
    MaxPayload = 3
    Links = {"l1"}
    Users = {"u1", "u2"}
    ChanCap = 1
    MaxErrors = 1
    MaxQueries = 1
    Plans <- MCPlans
    QueueCap = 1
    MaxFailures = 1
    Queries = {q1, q2}
    Domains = {"d"}
    Ttl = 1
    MaxLatency = 1
    MaxTime = 3
INVARIANTS GroupsHonest ValidConfigServes CleanStop AccountsBalance 
INVARIANTS ForwardClean ShutsDown AnswersFresh
SYMMETRY Interchangeable
CHECK_DEADLOCK FALSE
