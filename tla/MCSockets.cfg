CONSTANTS
    SeqMod = 16
    maxReasmSegments = 8
    maxWindow = 6
    maxChallengeRejects = 5
    Int8 = 8
    Uint8Max = 6
    rstJump = 4
    scrambleIRS <- MCScrambleIRS
    rtoInitial = 0
    rtoMin = 0
    rtoMax = 0
    backoffMax = 0
    wireWndMax = 3
    maxWndShift = 1
    Addrs6 = {"peer6"}
    MaxTime = 2
    EphPorts = 2
    Scenarios <- Used
SPECIFICATION Spec
INVARIANTS
    DatagramsAreWhole
    FdsAreExact
    StreamsAreWhole
PROPERTIES
    CallsEnd
CHECK_DEADLOCK FALSE
