SPECIFICATION Spec
CONSTANTS
  p1 = p1
  s1 = s1
  Pages = {p1}
  Slots = {s1}
  MaxTxns = 1
  MaxOps = 1
  MaxVacuums = 0
  MaxCheckpoints = 1
  MaxCrashes = 0
  MaxActive = 1
  MaxCheckpointed = 2
  MaxEvents = 4
CHECK_DEADLOCK FALSE
INVARIANT TruncationIsSafe
