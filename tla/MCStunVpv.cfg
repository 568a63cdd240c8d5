\* Two clients, two handlers of the server, data on the way, one fault.
CONSTANTS
  FirstHost = 10
  LastHost = 11
  Addr = {c1, c2}
  Gor = {g1, g2}
  Timeout = 1
  Server = Server
  Dest = {10}
  MaxFaults = 1
  None = None
SPECIFICATION Spec
INVARIANTS TypeOK NoLeak HoldsUnlessDisturbed RelayedTruly
