\* What an edge sends through the supernode, without any fault.
CONSTANTS
  FirstHost = 10
  LastHost = 11
  Addr = {e1, e2}
  Gor = {g1}
  Timeout = 1
  Cleaner = Cleaner
  None = None
  Super = Super
  Dest = {10}
  MaxFaults = 0
SPECIFICATION OverlaySpec
PROPERTIES SupernodeRelays
