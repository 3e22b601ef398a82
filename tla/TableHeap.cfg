CONSTANTS
    t1 = t1
    t2 = t2
    None = None
    Boot = Boot
    Txns <- MCTxns
    PageSize = 18
    HeaderSize = 2
    WordSize = 1
    WordBits = 2
    RowSizes = {4, 12}
    MaxSlots = 3
    MaxPages = 2
    MaxOps = 3
    MaxFaults = 1
SPECIFICATION Spec
CHECK_DEADLOCK FALSE
INVARIANTS  ScanExact
PROPERTY ScanEnds
