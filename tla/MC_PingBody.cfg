CONSTANTS
    Byte <- MCByte
    Space <- MCSpace
    MaxLen = 4
SPECIFICATION Spec
CHECK_DEADLOCK FALSE
INVARIANT
    ClassifiesAsSpecified
