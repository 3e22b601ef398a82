SPECIFICATION DetectorOnly
CONSTANTS
  t1 = t1
  t2 = t2
  t3 = t3
  table = table
  row = row
  Txns = {t1, t2, t3}
  Tags = {table}
  TableTags = {table}
  Requests <- TableRequests
  MaxCalls = 2
  MaxResolving = 1
SYMMETRY TxnSymmetry
INVARIANTS
  HoldersCompatible
  NoOrphanWaiter
  WaitersConsistent
  WaitGraphExact
  HeldLocksAgree
PROPERTIES
  NoOvertaking
  LocksOnlyGrow
