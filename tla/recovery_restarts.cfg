\* Two crashes: the sequence numbers of the second run of the process repeat those of the first.
CONSTANTS
    k1 = k1
    k2 = k2
    a = a
    b = b
    Nil = Nil
    Keys <- MCKeys
    Values <- MCValues
    Payloads <- MCOneKey
    MaxSnapshots = 1
    MaxFileSize = 2
    MaxLogFiles = 3
    SyncOnWrite = FALSE
    OpenMayFail = FALSE
    MaxClock = 2
    MaxSeq = 2
    MaxCrashes = 2
SPECIFICATION RecoverySpec
INVARIANT EveryRecoveryRestores
\* Once RestoreFromLatest hangs on snapshots_mutex_ the worker stops for good.
CHECK_DEADLOCK FALSE
