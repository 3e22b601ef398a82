SPECIFICATION SysSpec
CONSTANTS
  table = table
  row = row
  Tags = {table, row}
  TableTags = {table}
  Txns = {1, 2, 3}
  Requests <- CrossedRequests
  MaxCalls = 2
  MaxResolving = 1
INVARIANT NoUnwatchedDeadlock
