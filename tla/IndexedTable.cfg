CONSTANTS
    t1 = t1
    t2 = t2
    None = None
    Txns <- MCTxns
    Rids = {1, 2}
    Keys = {1, 2}
    Buckets = {1, 2, 3, 4}
    Commands <- MCCommands
    MaxStmts = 3
    MaxFaults = 1
SPECIFICATION Spec
SYMMETRY MCSymmetry
CHECK_DEADLOCK FALSE
INVARIANTS IndexAgrees LookupComplete LookupSound
