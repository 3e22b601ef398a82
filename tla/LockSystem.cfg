SPECIFICATION SysFair
CONSTANTS
  table = table
  row = row
  Tags = {table, row}
  TableTags = {table}
  Txns = {1, 2}
  Requests <- HierarchyRequests
  MaxCalls = 2
  MaxResolving = 2
INVARIANT TypeOK
PROPERTIES
  ImplementsLockManager
  EveryLockReturns
