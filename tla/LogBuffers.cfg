SPECIFICATION Fair
CONSTANTS
  c1 = c1
  c2 = c2
  Clients = {c1, c2}
  Sizes = {2}
  BufferSize = 4
  MaxCalls = 3
  MaxCrashes = 1
CHECK_DEADLOCK FALSE
INVARIANTS
  TypeOK
  LsnIsOffset
  FlushedIsOnDisk
PROPERTIES
  ImplementsWal
  StopsWhenDrained
  AppendAndCloseReturn
  EveryWaitReturns
