SPECIFICATION FairSpec
CONSTANTS
    r1 = r1
    r2 = r2
    Run <- TwoRuns
    Records = 3
    Truthy = TRUE
INVARIANTS
    TypeOK
    RecordsStored
    NullsComeLast
PROPERTIES
    NullsForever
CHECK_DEADLOCK FALSE
