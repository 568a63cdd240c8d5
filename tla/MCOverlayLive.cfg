\* Two edges, one handler at a time, no data, one fault: what must happen.
CONSTANTS
  FirstHost = 10
  LastHost = 11
  Addr = {e1, e2}
  Gor = {g1}
  Timeout = 1
  Cleaner = Cleaner
  None = None
  Super = Super
  Dest = {}
  MaxFaults = 1
SPECIFICATION FairOverlaySpec
PROPERTIES RoutesConverge LeasesConverge
