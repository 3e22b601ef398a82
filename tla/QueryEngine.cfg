SPECIFICATION Spec
CONSTANTS
    MinInt <- MCMinInt
    MaxInt = 12
    MaxTuplesInBlock = 2
    Tables <- MCTables
    TableColumns <- MCColumns
    Statements <- MCStatements
    Databases <- MCDatabases
    IndexSets <- MCIndexSets
INVARIANTS
    PushdownPreserves
PROPERTIES
    AnswerExact
CHECK_DEADLOCK FALSE
