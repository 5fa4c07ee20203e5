SPECIFICATION FairSpec
CONSTANTS
    Client = {c1, c2, c3}
    Db <- TwoDbs
    Key = {a, b}
    NoKey = nokey
    Units <- WakeUnits
    Requests <- WakeRequests
    MaxElements = 2
    MaxTime = 2
INVARIANTS
    TypeOK
    NoClientSleepsOnData
    TablesAgree
    ElementsAreConserved
PROPERTIES
    ServedInOrder
    TimeoutsEnd
