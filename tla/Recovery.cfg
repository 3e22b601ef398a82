SPECIFICATION Fair
CONSTANTS
  p1 = p1
  s1 = s1
  Pages = {p1}
  Slots = {s1}
  MaxTxns = 2
  MaxOps = 2
  MaxVacuums = 1
  MaxCheckpoints = 1
  MaxCrashes = 2
  MaxActive = 1
  MaxCheckpointed = 2
  MaxEvents = 5
CHECK_DEADLOCK FALSE
INVARIANTS
  TypeOK
  RecoveredState
  RepeatsHistory
  NoCommittedInSnapshot
  RestartFailsOnlyOnEmptyMaster
PROPERTY RestartEnds
CONSTRAINT Bounded
