CONSTANTS
    c1 = c1
    c2 = c2
    c3 = c3
    a1 = a1
    a2 = a2
    NoConn = NoConn
    Conn <- MCConn
    Acceptor <- MCTwoAcceptors
    MaxConns = 2
    MaxCloseCalls = 2
SPECIFICATION Spec
INVARIANT
    AdmissionBound
