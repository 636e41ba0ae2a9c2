\* The rate limiter, the token check and the validation in front of the handlers.
CONSTANTS
    c1 = c1
    c2 = c2
    c3 = c3
    Nil = Nil
    Secret = Secret
    OtherSecret = OtherSecret
    Clients <- MCClients
    Users <- MCUsers
    Validities = {1}
    EnableGlobal = TRUE
    EnablePerClient = TRUE
    GlobalCapacity = 2
    GlobalRefill = 2
    ClientCapacity = 1
    ClientRefill = 1
    MaxClients = 2
    CleanupInterval = 1
    Scale = 2
    MaxKeyLength = 2
    MaxValueSize = 1
    MaxTtl = 1
    MaxIssued = 1
    MaxTime = 3
SYMMETRY ClientSymmetry
SPECIFICATION Spec
INVARIANT TypeOK
INVARIANT BucketsHoldTheRate
INVARIANT ClientTableBounded
INVARIANT AdmitsExactlyTheGrants
