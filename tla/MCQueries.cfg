SPECIFICATION Spec
CONSTANTS
    KeyMod = 1048576
    Scenarios <- Queried
    IPNodes = 3
    UDPNodes = 2
    UserUDP = 1
    AddrRoom = 2
    ClockShift <- Behind
    MaxCookies = 2
    MaxCookieLen = 8
INVARIANTS
    AnswersAreTrue
    RepliesAreExact
    CookieSentOnce
    LossesAreRetried
PROPERTIES
    EveryCallEnds
