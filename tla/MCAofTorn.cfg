CONSTANTS
    Db <- OneDb
    Key = {k1, k2}
    MaxVal = 3
    Units <- PlainUnits
    Commands <- PlainCommands
    Fsync = "everysec"
    NoFsyncOnRewrite = FALSE
    Torn = TRUE
    Drift = 0
    MaxLog = 4
    MaxTime = 0
    MaxCrashes = 1
    MaxRewrites = 0
    MaxWriteErrors = 1
    MaxFsyncErrors = 0
SPECIFICATION FairSpec
CHECK_DEADLOCK FALSE
PROPERTY RecoversSafely
PROPERTY WritesResume
