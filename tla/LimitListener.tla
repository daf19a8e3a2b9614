--------------------------- MODULE LimitListener ---------------------------
(***************************************************************************)
(* The admission-control listener of simplepush/net.go.                    *)
(*                                                                         *)
(* LimitListener wraps a net.Listener.  Accept refuses with errClosed once *)
(* the listener's closeOnce has run, refuses with errTooBusy while the     *)
(* atomic counter `conns' has reached MaxConns, and otherwise blocks in    *)
(* the underlying Accept, sets keep-alive, increments the counter and      *)
(* returns the socket wrapped in a limitConn.  limitConn.Close closes the  *)
(* socket and then runs removeConn (the decrement) under a sync.Once.      *)
(*                                                                         *)
(* Accept is not atomic: the admission check (net.go:167-174), the         *)
(* blocking underlying Accept (net.go:175-178) and the increment           *)
(* (net.go:179-181) are three steps of the calling goroutine, and other    *)
(* goroutines may close connections, close the listener or call Accept     *)
(* between them.  limitConn.Close is two steps: the socket close and the   *)
(* once-guarded decrement.  Keep-alive tuning has no effect on the state   *)
(* the properties are about and is left out.                               *)
(***************************************************************************)
EXTENDS Integers, FiniteSets

CONSTANTS
    Conn,           \* sockets the underlying listener can hand out
    Acceptor,       \* goroutines that call LimitListener.Accept
    MaxConns,       \* LimitListener.MaxConns
    MaxCloseCalls,  \* bound on the Close calls made on one limitConn
    NoConn          \* "no socket held" in an acceptor's record

ASSUME ConnAssumption == IsFiniteSet(Conn) /\ NoConn \notin Conn
ASSUME MaxConnsAssumption == MaxConns \in Nat
ASSUME MaxCloseCallsAssumption == MaxCloseCalls \in Nat \ {0}

VARIABLES
    conns,       \* LimitListener.conns, the atomic active-connection count
    lnClosed,    \* closeOnce.IsDone(): Close has closed the listener
    sock,        \* state of each underlying socket: "new", "open", "closed"
    added,       \* addConn has run for the socket (a limitConn wraps it)
    removed,     \* the limitConn's removeOnce has run removeConn
    closeCalls,  \* number of limitConn.Close calls begun on the socket
    closing,     \* Close calls past Conn.Close, not yet past removeOnce.Do
    acc          \* each Accept caller: program point, socket held, result

vars == <<conns, lnClosed, sock, added, removed, closeCalls, closing, acc>>

AccPC == {"idle", "accept", "admit"}
AccResult == {"none", "ok", "busy", "closed", "err"}

(* The connections the counter is meant to count: wrapped by a limitConn  *)
(* whose removeOnce has not run.                                          *)
Counted == {c \in Conn : added[c] /\ ~removed[c]}

(* The connections a limitConn has ever wrapped.                          *)
Wrapped == {c \in Conn : added[c]}

(* Sockets accepted from the underlying listener and not closed.          *)
Live == {c \in Conn : sock[c] = "open"}

TypeOK ==
    /\ conns \in Nat
    /\ lnClosed \in BOOLEAN
    /\ sock \in [Conn -> {"new", "open", "closed"}]
    /\ added \in [Conn -> BOOLEAN]
    /\ removed \in [Conn -> BOOLEAN]
    /\ closeCalls \in [Conn -> 0..MaxCloseCalls]
    /\ closing \in [Conn -> Nat]
    /\ acc \in [Acceptor -> [pc : AccPC, conn : Conn \cup {NoConn},
                            res : AccResult]]

Init ==
    /\ conns = 0
    /\ lnClosed = FALSE
    /\ sock = [c \in Conn |-> "new"]
    /\ added = [c \in Conn |-> FALSE]
    /\ removed = [c \in Conn |-> FALSE]
    /\ closeCalls = [c \in Conn |-> 0]
    /\ closing = [c \in Conn |-> 0]
    /\ acc = [a \in Acceptor |-> [pc |-> "idle", conn |-> NoConn, res |-> "none"]]

-----------------------------------------------------------------------------
(* Accept, first step: the early returns of net.go:167-174.               *)
AcceptClosed(a) ==
    /\ acc[a].pc = "idle"
    /\ lnClosed
    /\ acc' = [acc EXCEPT ![a].res = "closed"]
    /\ UNCHANGED <<conns, lnClosed, sock, added, removed, closeCalls, closing>>

AcceptBusy(a) ==
    /\ acc[a].pc = "idle"
    /\ ~lnClosed
    /\ conns >= MaxConns
    /\ acc' = [acc EXCEPT ![a].res = "busy"]
    /\ UNCHANGED <<conns, lnClosed, sock, added, removed, closeCalls, closing>>

(* Mutant: the saturation test written with > instead of >=.              *)
AcceptProceedOffByOne(a) ==
    /\ acc[a].pc = "idle"
    /\ ~lnClosed
    /\ conns <= MaxConns
    /\ acc' = [acc EXCEPT ![a].pc = "accept"]
    /\ UNCHANGED <<conns, lnClosed, sock, added, removed, closeCalls, closing>>

(* Both early-return tests passed: the caller goes on to the underlying   *)
(* Accept.                                                                *)
AcceptProceed(a) ==
    /\ acc[a].pc = "idle"
    /\ ~lnClosed
    /\ conns < MaxConns
    /\ acc' = [acc EXCEPT ![a].pc = "accept"]
    /\ UNCHANGED <<conns, lnClosed, sock, added, removed, closeCalls, closing>>

(* Accept, second step: l.Listener.Accept() (net.go:175-178).  It blocks  *)
(* until a client connects, and fails once the listener is closed.        *)
AcceptSocket(a) ==
    /\ acc[a].pc = "accept"
    /\ ~lnClosed
    /\ \E c \in Conn :
         /\ sock[c] = "new"
         /\ sock' = [sock EXCEPT ![c] = "open"]
         /\ acc' = [acc EXCEPT ![a].pc = "admit", ![a].conn = c]
    /\ UNCHANGED <<conns, lnClosed, added, removed, closeCalls, closing>>

AcceptError(a) ==
    /\ acc[a].pc = "accept"
    /\ lnClosed
    /\ acc' = [acc EXCEPT ![a] = [pc |-> "idle", conn |-> NoConn, res |-> "err"]]
    /\ UNCHANGED <<conns, lnClosed, sock, added, removed, closeCalls, closing>>

(* Accept, last step: setKeepAlive, addConn and the limitConn wrapper     *)
(* (net.go:179-181).                                                      *)
AcceptAdmit(a) ==
    /\ acc[a].pc = "admit"
    /\ conns' = conns + 1
    /\ added' = [added EXCEPT ![acc[a].conn] = TRUE]
    /\ acc' = [acc EXCEPT ![a] = [pc |-> "idle", conn |-> NoConn, res |-> "ok"]]
    /\ UNCHANGED <<lnClosed, sock, removed, closeCalls, closing>>

(* LimitListener.Close: closeOnce.Do(l.Listener.Close) (net.go:185-187).  *)
(* Concurrent calls collapse into one close; later calls change nothing.  *)
Close ==
    /\ ~lnClosed
    /\ lnClosed' = TRUE
    /\ UNCHANGED <<conns, sock, added, removed, closeCalls, closing, acc>>

(* Mutant: Close returns early when the socket close fails.              *)
ConnCloseBeginEarlyReturn(c) ==
    /\ added[c]
    /\ closeCalls[c] < MaxCloseCalls
    /\ \E err \in BOOLEAN :
         /\ err \/ sock[c] = "open"
         /\ sock' = [sock EXCEPT ![c] = "closed"]
         /\ closing' = [closing EXCEPT ![c] = IF err THEN @ ELSE @ + 1]
    /\ closeCalls' = [closeCalls EXCEPT ![c] = @ + 1]
    /\ UNCHANGED <<conns, lnClosed, added, removed, acc>>

(* limitConn.Close, first step: c.Conn.Close() (net.go:122).  Any holder  *)
(* of the limitConn may call it, any number of times; the error it may    *)
(* return (always, from the second call on) does not stop the decrement.  *)
ConnCloseBegin(c) ==
    /\ added[c]
    /\ closeCalls[c] < MaxCloseCalls
    /\ \E err \in BOOLEAN :
         /\ err \/ sock[c] = "open"
         /\ sock' = [sock EXCEPT ![c] = "closed"]
         /\ closing' = [closing EXCEPT ![c] = @ + 1]
    /\ closeCalls' = [closeCalls EXCEPT ![c] = @ + 1]
    /\ UNCHANGED <<conns, lnClosed, added, removed, acc>>

(* Mutant: removeConn called directly, without the sync.Once.             *)
ConnCloseNoOnce(c) ==
    /\ closing[c] > 0
    /\ closing' = [closing EXCEPT ![c] = @ - 1]
    /\ removed' = [removed EXCEPT ![c] = TRUE]
    /\ conns' = conns - 1
    /\ UNCHANGED <<lnClosed, sock, added, closeCalls, acc>>

(* limitConn.Close, second step: c.removeOnce.Do(c.removeConn)            *)
(* (net.go:123).  sync.Once runs removeConn for the first caller only.    *)
ConnCloseRemove(c) ==
    /\ closing[c] > 0
    /\ closing' = [closing EXCEPT ![c] = @ - 1]
    /\ removed' = [removed EXCEPT ![c] = TRUE]
    /\ conns' = IF removed[c] THEN conns ELSE conns - 1
    /\ UNCHANGED <<lnClosed, sock, added, closeCalls, acc>>

-----------------------------------------------------------------------------
Next ==
    \/ \E a \in Acceptor :
         \/ AcceptClosed(a)
         \/ AcceptBusy(a)
         \/ AcceptProceed(a)
         \/ AcceptSocket(a)
         \/ AcceptError(a)
         \/ AcceptAdmit(a)
    \/ Close
    \/ \E c \in Conn : ConnCloseBegin(c) \/ ConnCloseRemove(c)

(* A goroutine inside limitConn.Close is not blocked between its two      *)
(* steps, so the Go scheduler eventually runs the second.                 *)
Fairness == \A c \in Conn : WF_vars(ConnCloseRemove(c))

Spec == Init /\ [][Next]_vars /\ Fairness

-----------------------------------------------------------------------------
(* The counter equals the number of limitConns whose removeOnce has not   *)
(* run: each wrapped connection is counted once by addConn and uncounted  *)
(* once, however many Close calls race on it (spec invariant 3).          *)
CountMatchesWrappers == conns = Cardinality(Counted)

(* Admission bound: the sockets accepted and not yet closed never exceed  *)
(* MaxConns, although the check in Accept runs before the socket is       *)
(* accepted and counted (spec property 2).                                *)
AdmissionBound == Cardinality(Live) <= MaxConns

(* Every closed wrapped connection is eventually uncounted: a Close call  *)
(* always reaches removeOnce, whatever the socket close returned.         *)
ClosedEventuallyReleased ==
    \A c \in Conn : (added[c] /\ sock[c] = "closed") ~> removed[c]

-----------------------------------------------------------------------------
(* The abstract admission specification, with the counted connections as  *)
(* the held ones, the wrapped ones as those ever served and closeOnce as   *)
(* the listener's closed flag.                                            *)
Abs == INSTANCE Admission WITH
    held <- Counted,
    served <- Wrapped,
    closed <- lnClosed

(* LimitListener implements the admission specification: every addConn is *)
(* an admission made while fewer than MaxConns were counted, every first   *)
(* removeOnce a release, and no other step changes what is counted; it    *)
(* holds only while one goroutine calls Accept (spec 4.1, property 2).    *)
AdmissionRefined == Abs!Spec
=============================================================================
