SPECIFICATION Spec
CONSTANTS
    k1 = k1
    k2 = k2
    c1 = c1
    c2 = c2
    Nobody = Nobody
    Client <- TwoClients
    Db <- TwoDbs
    Key <- OneKey
    MaxVal = 1
    Commands <- DbCommands
    MaxQueue = 2
    MaxTime = 0
    Evicting = FALSE
SYMMETRY ClientSymmetry
INVARIANTS
    StaleIsDirty
    StreamClosedWhenIdle
PROPERTIES
    AllOrNothing
