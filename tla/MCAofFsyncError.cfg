CONSTANTS
    Db <- OneDb
    Key = {k1}
    MaxVal = 3
    Units <- CountUnits
    Commands <- CountCommands
    Fsync = "everysec"
    NoFsyncOnRewrite = FALSE
    Torn = FALSE
    Drift = 0
    MaxLog = 3
    MaxTime = 0
    MaxCrashes = 0
    MaxRewrites = 0
    MaxWriteErrors = 0
    MaxFsyncErrors = 1
SPECIFICATION FairSpec
CHECK_DEADLOCK FALSE
PROPERTY WritesResume
