CONSTANTS
    SeqMod = 16
    maxReasmSegments = 8
    maxWindow = 6
    maxChallengeRejects = 5
    Int8 = 8
    Uint8Max = 6
    rstJump = 4
    scrambleIRS <- MCScrambleIRS
    rtoInitial = 0
    rtoMin = 0
    rtoMax = 0
    backoffMax = 0
    wireWndMax = 3
    maxWndShift = 1
    ISS <- MCISS
    MaxFrames = 2
    Scenarios <- Ordinary
SPECIFICATION FairSpec
INVARIANTS
    ReceivedIsPrefix
    KeptUntilReceived
    WindowKept
    FailsOnlyInTimeWait
PROPERTIES
    AllArrives
CHECK_DEADLOCK FALSE
