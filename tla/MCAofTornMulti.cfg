CONSTANTS
    Db <- OneDb
    Key = {k1, k2}
    MaxVal = 3
    Units <- PlainUnits
    Commands <- PlainCommands
    Fsync = "always"
    NoFsyncOnRewrite = FALSE
    Torn = TRUE
    Drift = 0
    MaxLog = 6
    MaxTime = 0
    MaxCrashes = 1
    MaxRewrites = 0
    MaxWriteErrors = 0
    MaxFsyncErrors = 0
SPECIFICATION Spec
CHECK_DEADLOCK FALSE
INVARIANT LogReplaysToData
