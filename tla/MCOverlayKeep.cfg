\* One edge, one fault: what heartbeats can repair.
CONSTANTS
  FirstHost = 10
  LastHost = 11
  Addr = {e1}
  Gor = {g1}
  Timeout = 1
  Cleaner = Cleaner
  None = None
  Super = Super
  Dest = {}
  MaxFaults = 1
SPECIFICATION FairOverlaySpec
PROPERTIES HeartbeatKeepsConnection
