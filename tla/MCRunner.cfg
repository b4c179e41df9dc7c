SPECIFICATION Spec
CONSTANTS
    SeqMod = 8
    NSlots = 3
    Options <- MCOptions
    FirstSeqs = {6}
    MaxFrames = 3
INVARIANTS
    SlotHasOneOwner
PROPERTIES
    FifoSpec
    FrameReachesStack
CHECK_DEADLOCK FALSE
