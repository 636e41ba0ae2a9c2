\* Where records are once Sync has returned, with rotation, retention,
\* truncation, failing opens and a crash.
CONSTANTS
    p = p
    Nil = Nil
    Payloads <- MCPayloads
    MaxFileSize = 3
    MaxLogFiles = 1
    SyncOnWrite = FALSE
    OpenMayFail = TRUE
    MaxClock = 2
    MaxSeq = 3
    MaxCrashes = 1
SPECIFICATION Spec
INVARIANT TypeOK
INVARIANT SyncedLeftTheBuffer
INVARIANT AcknowledgedOutliveRotation
