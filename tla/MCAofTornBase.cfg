CONSTANTS
    Db <- OneDb
    Key = {k1}
    MaxVal = 3
    Units <- CountUnits
    Commands <- CountCommands
    Fsync = "everysec"
    NoFsyncOnRewrite = FALSE
    Torn = TRUE
    Drift = 0
    MaxLog = 3
    MaxTime = 0
    MaxCrashes = 1
    MaxRewrites = 1
    MaxWriteErrors = 0
    MaxFsyncErrors = 0
SPECIFICATION Spec
CHECK_DEADLOCK FALSE
INVARIANT LogReplaysToData
