SPECIFICATION Spec
CONSTANTS
    SeqMod = 16
    ISS = 13
    BufSize = 5
    MaxPkts = 4
    MSS = 3
    MaxStream = 14
INVARIANTS
    StreamIntact
    PacketsCarryTheirBytes
CHECK_DEADLOCK FALSE
