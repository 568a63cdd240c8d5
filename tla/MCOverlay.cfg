\* Two edges, two handlers of the supernode, data on the way, one fault.
CONSTANTS
  FirstHost = 10
  LastHost = 11
  Addr = {e1, e2}
  Gor = {g1, g2}
  Timeout = 1
  Cleaner = Cleaner
  None = None
  Super = Super
  Dest = {10}
  MaxFaults = 1
SPECIFICATION OverlaySpec
SYMMETRY Interchangeable
INVARIANTS OverlayTypeOK LeaseHeldUnlessDisturbed
PROPERTIES RefinesSupernode
