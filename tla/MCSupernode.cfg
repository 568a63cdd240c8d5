\* Two handler goroutines and the cleanup race for two virtual addresses.
CONSTANTS
  FirstHost = 10
  LastHost = 11
  Addr = {a1, a2}
  Gor = {g1, g2}
  Timeout = 1
  Cleaner = Cleaner
  None = None
SPECIFICATION FairSuperSpec
INVARIANTS SuperTypeOK LockInv NoDoubleLease NoLeak IndexSound
PROPERTIES NoTakeover RefinesLeasePool StaleRemoved RegisterCompletes
