CONSTANTS
    SeqMod = 8
    maxWindow = 1
    maxChallengeRejects = 1
    Int8 = 3
    Uint8Max = 6
    rstJump = 4
    scrambleIRS <- MCScrambleIRS
    ISSs = {6}
    Lens = {0,1}
    Wnds = {0,1}
    SeqDeltas = {0,7}
    AckDeltas = {0,1}
    FlagSets <- MCFlagSets
    MaxProgress = 2
    MaxRefused = 0
SPECIFICATION Spec
INVARIANTS
    SendSpaceBounded
    PendingIsSendable
PROPERTIES
    SequencesKept
CONSTRAINT Bounded
CHECK_DEADLOCK FALSE
