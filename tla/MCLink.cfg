CONSTANTS
    Scenarios <- Ordinary
    maxAge = 3
    probeWait = 1
    probeNum = 3
    probeMin = 1
    probeMax = 2
    announceWait = 2
    announceNum = 2
    announceInterval = 2
    maxConflicts = 1
    rateLimitInterval = 3
    defendInterval = 4
SPECIFICATION FairSpec
INVARIANTS
    KnownIsOwner
    OneClaimant
PROPERTIES
    DutyKept
    Connects
CHECK_DEADLOCK FALSE
