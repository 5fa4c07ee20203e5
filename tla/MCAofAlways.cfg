CONSTANTS
    Db <- OneDb
    Key = {k1, k2}
    MaxVal = 2
    Units <- PlainUnits
    Commands <- PlainCommands
    Fsync = "always"
    NoFsyncOnRewrite = FALSE
    Torn = FALSE
    Drift = 0
    MaxLog = 4
    MaxTime = 0
    MaxCrashes = 2
    MaxRewrites = 1
    MaxWriteErrors = 0
    MaxFsyncErrors = 0
SPECIFICATION Spec
CHECK_DEADLOCK FALSE
INVARIANT TypeOK
INVARIANT LogReplaysToData
PROPERTY RecoversSafely
