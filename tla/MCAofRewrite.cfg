CONSTANTS
    Db <- TwoDbs
    Key = {k1}
    MaxVal = 2
    Units <- TtlUnits
    Commands <- TtlCommands
    Fsync = "everysec"
    NoFsyncOnRewrite = TRUE
    Torn = FALSE
    Drift = 1
    MaxLog = 3
    MaxTime = 2
    MaxCrashes = 1
    MaxRewrites = 1
    MaxWriteErrors = 0
    MaxFsyncErrors = 0
SPECIFICATION Spec
CHECK_DEADLOCK FALSE
INVARIANT LogReplaysToData
PROPERTY RecoversSafely
