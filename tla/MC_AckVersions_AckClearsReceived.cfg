CONSTANTS
    c1 = c1
    c2 = c2
    Chan <- MCChan
    MaxVersion = 2
    MaxSends = 3
    StoreErrors = TRUE
SPECIFICATION Spec
CHECK_DEADLOCK FALSE
PROPERTY
    AckClearsReceived
