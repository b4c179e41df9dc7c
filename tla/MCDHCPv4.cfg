CONSTANTS
    Scenarios <- Ordinary
SPECIFICATION FairSpec
INVARIANTS
    PendingIsExact
    OneOwner
PROPERTIES
    AddressIsKept
    EveryStackComesUp
CHECK_DEADLOCK FALSE
