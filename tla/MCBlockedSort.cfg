SPECIFICATION Spec
CONSTANTS
    Client = {c1, c2}
    Db <- OneDb
    Key = {a, b}
    NoKey = nokey
    Units <- SortUnits
    Requests <- SortRequests
    MaxElements = 3
    MaxTime = 1
INVARIANT NoClientSleepsOnData
