CONSTANTS
    u1 = u1
    u2 = u2
    g1 = g1
    ch1 = ch1
    NoUAID = NoUAID
    BadUAID = BadUAID
    Absent = Absent
    NoChan = NoChan
    BadChan = BadChan
    UAID <- MCUAID
    FreshID <- MCFreshID
    Chan <- MCChan
    Elsewhere <- MCElsewhere
    Stored <- MCStored
    MaxChannels = 1
    PingInt = 2
    HelloTimeout = 2
    MaxTime = 4
    MaxFrames = 3
    StoreErrors = TRUE
    MaxServerFlushes = 1
SPECIFICATION Spec
CHECK_DEADLOCK FALSE
INVARIANT
    AnonymousOnlyHelloPing
