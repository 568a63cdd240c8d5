\* Two clients, one handler at a time, no data, two faults: what must happen.
CONSTANTS
  FirstHost = 10
  LastHost = 11
  Addr = {c1, c2}
  Gor = {g1}
  Timeout = 1
  Server = Server
  Dest = {}
  MaxFaults = 2
  None = None
SPECIFICATION FairSpec
PROPERTIES HeartbeatRestores PeersLearned
