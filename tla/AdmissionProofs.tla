--------------------------- MODULE AdmissionProofs ---------------------------
(***************************************************************************)
(* Proofs that LimitListener keeps its admission promise when one         *)
(* goroutine calls Accept, as net/http's Server.Serve does: the sockets   *)
(* open never exceed MaxConns, and the listener implements the abstract   *)
(* Admission specification under the mapping of LimitListener!Abs.         *)
(***************************************************************************)
EXTENDS LimitListenerProofs

(* One goroutine calls Accept.                                            *)
SingleAcceptor == \A a, b \in Acceptor : a = b

(* The counter never exceeds MaxConns.                                    *)
Bound == conns <= MaxConns

(* An acceptor past the admission check has seen a count below MaxConns,  *)
(* and with no other acceptor nothing has raised it since.                *)
Pending == \A a \in Acceptor : acc[a].pc \in {"accept", "admit"} => conns < MaxConns

(* A socket is closed before any Close call reaches removeOnce.           *)
ClosedFirst == \A c \in Conn : closing[c] > 0 \/ removed[c] => sock[c] = "closed"

(* An open socket is wrapped, or held by an acceptor about to wrap it.    *)
OpenOwned ==
    \A c \in Conn : sock[c] = "open" =>
        added[c] \/ \E a \in Acceptor : acc[a].pc = "admit" /\ acc[a].conn = c

AInv == IInv /\ Bound /\ Pending /\ ClosedFirst /\ OpenOwned

LEMMA InitAInv == Init => AInv
<1>. SUFFICES ASSUME Init PROVE AInv
    OBVIOUS
<1>1. IInv
    BY InitIInv
<1>. QED
    BY <1>1, MaxConnsAssumption DEF Init, Bound, Pending, ClosedFirst, OpenOwned, AInv

LEMMA NextAInv ==
    ASSUME SingleAcceptor, AInv, [Next]_vars
    PROVE  AInv'
<1>. USE DEF AInv
<1>1. IInv'
    BY NextIInv
<1>. USE DEF IInv
<1>2. ASSUME NEW a \in Acceptor, AcceptClosed(a) \/ AcceptBusy(a) PROVE AInv'
    BY <1>1, <1>2 DEF AcceptClosed, AcceptBusy, TypeOK, Bound, Pending,
                      ClosedFirst, OpenOwned
<1>3. ASSUME NEW a \in Acceptor, AcceptProceed(a) PROVE AInv'
    BY <1>1, <1>3 DEF AcceptProceed, TypeOK, Bound, Pending, ClosedFirst,
                      OpenOwned
<1>4. ASSUME NEW a \in Acceptor, AcceptSocket(a) PROVE AInv'
    <2>1. PICK c \in Conn :
            /\ sock[c] = "new"
            /\ sock' = [sock EXCEPT ![c] = "open"]
            /\ acc' = [acc EXCEPT ![a].pc = "admit", ![a].conn = c]
        BY <1>4 DEF AcceptSocket
    <2>2. UNCHANGED <<conns, lnClosed, added, removed, closeCalls, closing>>
        BY <1>4 DEF AcceptSocket
    <2>3. acc[a].pc = "accept"
        BY <1>4 DEF AcceptSocket
    <2>4. Pending'
        BY <2>1, <2>2, <2>3 DEF Pending, TypeOK
    <2>5. closing[c] = 0 /\ ~removed[c]
        BY <2>1 DEF TypeOK
    <2>6. ClosedFirst'
        BY <2>1, <2>2, <2>5 DEF ClosedFirst, TypeOK
    <2>7. OpenOwned'
        BY <2>1, <2>2, <2>3 DEF OpenOwned, TypeOK
    <2>. QED
        BY <1>1, <2>2, <2>4, <2>6, <2>7 DEF Bound
<1>5. ASSUME NEW a \in Acceptor, AcceptError(a) PROVE AInv'
    BY <1>1, <1>5 DEF AcceptError, TypeOK, Bound, Pending, ClosedFirst,
                      OpenOwned
<1>6. ASSUME NEW a \in Acceptor, AcceptAdmit(a) PROVE AInv'
    <2>. DEFINE c == acc[a].conn
    <2>1. /\ acc[a].pc = "admit"
          /\ conns' = conns + 1
          /\ added' = [added EXCEPT ![c] = TRUE]
          /\ acc' = [acc EXCEPT ![a] = [pc |-> "idle", conn |-> NoConn, res |-> "ok"]]
          /\ UNCHANGED <<lnClosed, sock, removed, closeCalls, closing>>
        BY <1>6 DEF AcceptAdmit
    <2>2. c \in Conn
        BY <2>1 DEF HeldOK
    <2>3. conns < MaxConns
        BY <2>1 DEF Pending
    <2>4. Bound'
        BY <2>1, <2>3, MaxConnsAssumption DEF Bound, TypeOK
    <2>5. Pending'
        <3>1. \A b \in Acceptor : b = a
            BY DEF SingleAcceptor
        <3>. QED
            BY <2>1, <3>1 DEF Pending, TypeOK
    <2>6. ClosedFirst'
        BY <2>1 DEF ClosedFirst
    <2>7. OpenOwned'
        <3>1. \A b \in Acceptor : b = a
            BY DEF SingleAcceptor
        <3>. QED
            BY <2>1, <2>2, <3>1 DEF OpenOwned, TypeOK
    <2>. QED
        BY <1>1, <2>4, <2>5, <2>6, <2>7
<1>7. CASE Close
    BY <1>1, <1>7 DEF Close, Bound, Pending, ClosedFirst, OpenOwned
<1>8. ASSUME NEW c \in Conn, ConnCloseBegin(c) PROVE AInv'
    <2>1. /\ sock' = [sock EXCEPT ![c] = "closed"]
          /\ closing' = [closing EXCEPT ![c] = @ + 1]
          /\ UNCHANGED <<conns, lnClosed, added, removed, acc>>
        BY <1>8 DEF ConnCloseBegin
    <2>. QED
        BY <1>1, <2>1 DEF TypeOK, Bound, Pending, ClosedFirst, OpenOwned
<1>9. ASSUME NEW c \in Conn, ConnCloseRemove(c) PROVE AInv'
    <2>1. /\ closing[c] > 0
          /\ closing' = [closing EXCEPT ![c] = @ - 1]
          /\ removed' = [removed EXCEPT ![c] = TRUE]
          /\ conns' = IF removed[c] THEN conns ELSE conns - 1
          /\ UNCHANGED <<lnClosed, sock, added, closeCalls, acc>>
        BY <1>9 DEF ConnCloseRemove
    <2>2. Bound' /\ Pending'
        BY <2>1, MaxConnsAssumption DEF TypeOK, Bound, Pending
    <2>3. ClosedFirst'
        BY <2>1 DEF TypeOK, ClosedFirst
    <2>4. OpenOwned'
        BY <2>1 DEF OpenOwned
    <2>. QED
        BY <1>1, <2>2, <2>3, <2>4
<1>10. CASE UNCHANGED vars
    BY <1>1, <1>10 DEF vars, Bound, Pending, ClosedFirst, OpenOwned
<1>. QED
    BY <1>2, <1>3, <1>4, <1>5, <1>6, <1>7, <1>8, <1>9, <1>10 DEF Next

(* The strengthened invariant holds in every reachable state when one     *)
(* goroutine calls Accept.                                                *)
THEOREM AInvHolds == ASSUME SingleAcceptor PROVE Spec => []AInv
<1>. QED
    BY InitAInv, NextAInv, PTL DEF Spec

(* The open sockets are the counted ones and at most one socket held by   *)
(* the acceptor between the underlying Accept and addConn, which it took  *)
(* only after seeing a count below MaxConns.                               *)
LEMMA LiveBounded == ASSUME SingleAcceptor, AInv PROVE AdmissionBound
<1>. USE DEF AInv, IInv
<1>0. /\ IsFiniteSet(Counted)
      /\ Cardinality(Counted) \in Nat
    BY CountedFinite
<1>1a. /\ IsFiniteSet(Live)
       /\ Cardinality(Live) \in Nat
    <2>1. Live \subseteq Conn
        BY DEF Live
    <2>. QED
        BY <2>1, ConnAssumption, FS_Subset, FS_CardinalityType
<1>1. CASE \E a \in Acceptor : acc[a].pc = "admit"
    <2>1. PICK a \in Acceptor : acc[a].pc = "admit"
        BY <1>1
    <2>. DEFINE h == acc[a].conn
    <2>2. Live \subseteq Counted \cup {h}
        BY <2>1 DEF Live, Counted, OpenOwned, ClosedFirst, SingleAcceptor, TypeOK
    <2>3. /\ IsFiniteSet(Counted \cup {h})
          /\ Cardinality(Counted \cup {h}) \in Nat
          /\ Cardinality(Counted \cup {h}) <= Cardinality(Counted) + 1
        <3>1. /\ IsFiniteSet(Counted \cup {h})
              /\ Cardinality(Counted \cup {h}) =
                   IF h \in Counted THEN Cardinality(Counted) ELSE Cardinality(Counted) + 1
            BY <1>0, FS_AddElement
        <3>2. Cardinality(Counted \cup {h}) \in Nat
            BY <3>1, FS_CardinalityType
        <3>. QED
            BY <1>0, <3>1, <3>2
    <2>4. Cardinality(Live) <= Cardinality(Counted \cup {h})
        BY <2>2, <2>3, FS_Subset
    <2>5. conns < MaxConns
        BY <2>1 DEF Pending
    <2>. QED
        BY <1>0, <1>1a, <2>3, <2>4, <2>5, MaxConnsAssumption
        DEF AdmissionBound, CountMatchesWrappers
<1>2. CASE ~\E a \in Acceptor : acc[a].pc = "admit"
    <2>1. Live \subseteq Counted
        BY <1>2 DEF Live, Counted, OpenOwned, ClosedFirst, TypeOK
    <2>2. Cardinality(Live) <= Cardinality(Counted)
        BY <1>0, <2>1, FS_Subset
    <2>. QED
        BY <2>2, <1>0, <1>1a, MaxConnsAssumption
        DEF AdmissionBound, CountMatchesWrappers, Bound
<1>. QED
    BY <1>1, <1>2

(* With one goroutine calling Accept, the sockets accepted and not closed *)
(* never exceed MaxConns, for every MaxConns and every number of racing   *)
(* Close calls (spec 4.1, property 2; the two-acceptor run shows the      *)
(* assumption is needed).                                                 *)
THEOREM AdmissionBoundHolds == ASSUME SingleAcceptor PROVE Spec => []AdmissionBound
<1>1. AInv => AdmissionBound
    BY LiveBounded
<1>. QED
    BY <1>1, AInvHolds, PTL

(* Each step of the listener is a step of the admission specification or *)
(* leaves the held, served and closed sets alone: addConn admits, the     *)
(* first removeOnce releases, closeOnce closes.                           *)
LEMMA StepRefines ==
    ASSUME SingleAcceptor, AInv, [Next]_vars
    PROVE  [Abs!Next]_Abs!avars
<1>. USE DEF AInv, IInv
<1>. DEFINE Unmoved == Counted' = Counted /\ Wrapped' = Wrapped /\ lnClosed' = lnClosed
<1>0. Unmoved => UNCHANGED Abs!avars
    BY DEF Abs!avars, Wrapped
<1>1. ASSUME NEW a \in Acceptor,
             \/ AcceptClosed(a) \/ AcceptBusy(a) \/ AcceptProceed(a)
             \/ AcceptSocket(a) \/ AcceptError(a)
      PROVE  [Abs!Next]_Abs!avars
    <2>1. UNCHANGED <<lnClosed, added, removed>>
        BY <1>1 DEF AcceptClosed, AcceptBusy, AcceptProceed, AcceptSocket, AcceptError
    <2>. QED
        BY <2>1, <1>0 DEF Counted, Wrapped
<1>2. ASSUME NEW a \in Acceptor, AcceptAdmit(a) PROVE [Abs!Next]_Abs!avars
    <2>. DEFINE k == acc[a].conn
    <2>1. /\ acc[a].pc = "admit"
          /\ added' = [added EXCEPT ![k] = TRUE]
          /\ UNCHANGED <<lnClosed, removed>>
        BY <1>2 DEF AcceptAdmit
    <2>2. k \in Conn /\ ~added[k] /\ ~removed[k]
        BY <2>1 DEF HeldOK
    <2>3. Cardinality(Counted) < MaxConns
        BY <2>1 DEF Pending, CountMatchesWrappers
    <2>4. Counted' = Counted \cup {k} /\ Wrapped' = Wrapped \cup {k}
        BY <2>1, <2>2 DEF Counted, Wrapped, TypeOK
    <2>5. Abs!Cardinality(Counted) = Cardinality(Counted)
        BY DEF Abs!Cardinality, Cardinality
    <2>6. Abs!Admit(k)
        BY <2>1, <2>2, <2>3, <2>4, <2>5 DEF Abs!Admit, Wrapped
    <2>7. \E x \in Conn : Abs!Admit(x)
        <3>1. k \in Conn
            BY <2>2
        <3>. WITNESS k \in Conn
        <3>. QED
            BY <2>6
    <2>8. Abs!Next
        BY <2>7 DEF Abs!Next
    <2>. QED
        BY <2>8
<1>3. CASE Close
    <2>1. ~lnClosed /\ lnClosed' /\ UNCHANGED <<added, removed>>
        BY <1>3 DEF Close
    <2>2. Abs!Close
        BY <2>1 DEF Abs!Close, Counted, Wrapped
    <2>. QED
        BY <2>2 DEF Abs!Next
<1>4. ASSUME NEW c \in Conn, ConnCloseBegin(c) PROVE [Abs!Next]_Abs!avars
    <2>1. UNCHANGED <<lnClosed, added, removed>>
        BY <1>4 DEF ConnCloseBegin
    <2>. QED
        BY <2>1, <1>0 DEF Counted, Wrapped
<1>5. ASSUME NEW c \in Conn, ConnCloseRemove(c) PROVE [Abs!Next]_Abs!avars
    <2>1. /\ closing[c] > 0
          /\ removed' = [removed EXCEPT ![c] = TRUE]
          /\ UNCHANGED <<lnClosed, added>>
        BY <1>5 DEF ConnCloseRemove
    <2>2. added[c]
        BY <2>1
    <2>3. CASE removed[c]
        <3>1. Counted' = Counted
            BY <2>1, <2>3 DEF Counted, TypeOK
        <3>. QED
            BY <2>1, <3>1, <1>0 DEF Wrapped
    <2>4. CASE ~removed[c]
        <3>1. c \in Counted /\ Counted' = Counted \ {c}
            BY <2>1, <2>2, <2>4 DEF Counted, TypeOK
        <3>2. Abs!Release(c)
            BY <2>1, <3>1 DEF Abs!Release, Wrapped
        <3>. QED
            BY <3>2 DEF Abs!Next
    <2>. QED
        BY <2>3, <2>4
<1>6. CASE UNCHANGED vars
    BY <1>6, <1>0 DEF vars, Counted, Wrapped
<1>. QED
    BY <1>1, <1>2, <1>3, <1>4, <1>5, <1>6 DEF Next

(* With one goroutine calling Accept, LimitListener implements the        *)
(* admission specification: the counted connections change only by an     *)
(* admission below MaxConns of a socket never admitted before (addConn)   *)
(* or by one release (the first removeOnce), and closeOnce closes once.   *)
THEOREM Refinement == ASSUME SingleAcceptor PROVE Spec => AdmissionRefined
<1>1. Init => Abs!Init
    BY DEF Init, Abs!Init, Counted, Wrapped
<1>2. AInv /\ [Next]_vars => [Abs!Next]_Abs!avars
    BY StepRefines
<1>. QED
    BY <1>1, <1>2, AInvHolds, PTL DEF Spec, AdmissionRefined, Abs!Spec
=============================================================================
