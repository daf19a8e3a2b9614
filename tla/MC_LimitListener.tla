------------------------- MODULE MC_LimitListener -------------------------
(* LimitListener with three sockets, a ceiling of two connections and     *)
(* one accepting goroutine, as net/http's Server.Serve runs it.           *)
EXTENDS LimitListener

CONSTANTS c1, c2, c3, a1, a2

MCConn == {c1, c2, c3}
MCOneAcceptor == {a1}
MCTwoAcceptors == {a1, a2}
=============================================================================
