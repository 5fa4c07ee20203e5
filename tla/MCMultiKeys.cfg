SPECIFICATION Spec
CONSTANTS
    k1 = k1
    k2 = k2
    c1 = c1
    c2 = c2
    Nobody = Nobody
    Client <- TwoClients
    Db <- OneDb
    Key <- TwoKeys
    MaxVal = 1
    Commands <- KeyCommands
    MaxQueue = 1
    MaxTime = 2
    Evicting = TRUE
SYMMETRY ClientSymmetry
INVARIANTS
    TypeOK
    ExpiresInDict
    WatchTablesMirror
    StaleIsDirty
    NoLeftoverMarks
PROPERTIES
    ExecStartsFresh
