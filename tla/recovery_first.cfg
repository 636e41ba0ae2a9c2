\* One crash; every kind of record on one key; a log of at most three files
\* of one record each, so that rotation and retention happen.
CONSTANTS
    k1 = k1
    k2 = k2
    a = a
    b = b
    Nil = Nil
    Keys <- MCKeys
    Values <- MCValues
    Payloads <- MCOneKey
    MaxSnapshots = 1
    MaxFileSize = 2
    MaxLogFiles = 2
    SyncOnWrite = FALSE
    OpenMayFail = FALSE
    MaxClock = 2
    MaxSeq = 2
    MaxCrashes = 1
SPECIFICATION RecoverySpec
INVARIANT RecoveryTypeOK
INVARIANT FirstRecoveryRestores
\* Once RestoreFromLatest hangs on snapshots_mutex_ the worker stops for good.
CHECK_DEADLOCK FALSE
