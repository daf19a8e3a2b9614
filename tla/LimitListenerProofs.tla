------------------------ MODULE LimitListenerProofs ------------------------
(***************************************************************************)
(* Proofs about LimitListener for every value of the constants: the       *)
(* counter is always a natural number and always equals the number of     *)
(* limitConns whose removeOnce has not run, however Accept calls, Close   *)
(* calls on the listener and racing Close calls on connections            *)
(* interleave.                                                            *)
(***************************************************************************)
EXTENDS LimitListener, FiniteSetTheorems, TLAPS

(* The inductive invariant.  CountMatchesWrappers alone is not inductive: *)
(* AcceptAdmit must add a socket not counted yet, and ConnCloseRemove     *)
(* must remove one that is counted unless removeOnce already ran.  The    *)
(* extra conjuncts say where a socket can be: a socket held by an         *)
(* acceptor about to admit it is accepted, not wrapped, and held by no    *)
(* other acceptor; a wrapped socket has left the underlying listener; a   *)
(* Close call in progress is on a wrapped socket; and a socket is only    *)
(* removed after being wrapped.                                           *)
HeldOK(a) ==
    acc[a].pc = "admit" =>
        /\ acc[a].conn \in Conn
        /\ sock[acc[a].conn] # "new"
        /\ ~added[acc[a].conn]

IInv ==
    /\ TypeOK
    /\ CountMatchesWrappers
    /\ \A c \in Conn : removed[c] => added[c]
    /\ \A c \in Conn : closing[c] > 0 => added[c]
    /\ \A c \in Conn : added[c] => sock[c] # "new"
    /\ \A a \in Acceptor : HeldOK(a)
    /\ \A a, b \in Acceptor :
         a # b /\ acc[a].pc = "admit" /\ acc[b].pc = "admit"
           => acc[a].conn # acc[b].conn

(* Counted is a finite set and its cardinality a natural number.          *)
LEMMA CountedFinite ==
    ASSUME TypeOK
    PROVE  /\ IsFiniteSet(Counted)
           /\ Cardinality(Counted) \in Nat
<1>1. Counted \subseteq Conn
    BY DEF Counted
<1>2. IsFiniteSet(Counted)
    BY <1>1, ConnAssumption, FS_Subset
<1>. QED
    BY <1>2, FS_CardinalityType

LEMMA InitIInv == Init => IInv
<1>. SUFFICES ASSUME Init PROVE IInv
    OBVIOUS
<1>1. Counted = {}
    BY DEF Init, Counted
<1>2. Cardinality(Counted) = 0
    BY <1>1, FS_EmptySet
<1>3. acc \in [Acceptor -> [pc : AccPC, conn : Conn \cup {NoConn}, res : AccResult]]
    BY DEF Init, AccPC, AccResult
<1>4. TypeOK
    <2>1. closeCalls \in [Conn -> 0..MaxCloseCalls]
        BY MaxCloseCallsAssumption DEF Init
    <2>2. /\ sock \in [Conn -> {"new", "open", "closed"}]
          /\ added \in [Conn -> BOOLEAN]
          /\ removed \in [Conn -> BOOLEAN]
          /\ closing \in [Conn -> Nat]
        BY DEF Init
    <2>. QED
        BY <1>3, <2>1, <2>2 DEF Init, TypeOK
<1>5. CountMatchesWrappers
    BY <1>2 DEF Init, CountMatchesWrappers
<1>6. \A a \in Acceptor : HeldOK(a)
    BY DEF Init, HeldOK
<1>. QED
    BY <1>4, <1>5, <1>6 DEF Init, IInv

LEMMA NextIInv == IInv /\ [Next]_vars => IInv'
<1>. SUFFICES ASSUME IInv, [Next]_vars PROVE IInv'
    OBVIOUS
<1>. USE DEF IInv
<1>0. /\ IsFiniteSet(Counted)
      /\ Cardinality(Counted) \in Nat
    BY CountedFinite
<1>1. ASSUME NEW a \in Acceptor, AcceptClosed(a) PROVE IInv'
    BY <1>1, ConnAssumption
    DEF AcceptClosed, TypeOK, CountMatchesWrappers, Counted, HeldOK, AccResult
<1>2. ASSUME NEW a \in Acceptor, AcceptBusy(a) PROVE IInv'
    BY <1>2, ConnAssumption
    DEF AcceptBusy, TypeOK, CountMatchesWrappers, Counted, HeldOK, AccResult
<1>3. ASSUME NEW a \in Acceptor, AcceptProceed(a) PROVE IInv'
    BY <1>3, ConnAssumption
    DEF AcceptProceed, TypeOK, CountMatchesWrappers, Counted, HeldOK, AccPC
<1>4. ASSUME NEW a \in Acceptor, AcceptSocket(a) PROVE IInv'
    <2>1. PICK c \in Conn :
            /\ sock[c] = "new"
            /\ sock' = [sock EXCEPT ![c] = "open"]
            /\ acc' = [acc EXCEPT ![a].pc = "admit", ![a].conn = c]
        BY <1>4 DEF AcceptSocket
    <2>2. UNCHANGED <<conns, lnClosed, added, removed, closeCalls, closing>>
        BY <1>4 DEF AcceptSocket
    <2>3. Counted' = Counted
        BY <2>2 DEF Counted
    <2>4. ~added[c]
        BY <2>1 DEF TypeOK
    <2>5. \A b \in Acceptor : b # a /\ acc[b].pc = "admit" => acc[b].conn # c
        BY <2>1 DEF HeldOK
    <2>6. TypeOK'
        BY <2>1, <2>2 DEF TypeOK, AccPC
    <2>7. CountMatchesWrappers'
        BY <2>2, <2>3 DEF CountMatchesWrappers
    <2>8. \A b \in Acceptor : HeldOK(b)'
        BY <2>1, <2>2, <2>4 DEF HeldOK, TypeOK
    <2>9. \A x \in Conn : added'[x] => sock'[x] # "new"
        BY <2>1, <2>2 DEF TypeOK
    <2>10. \A b, d \in Acceptor :
             b # d /\ acc'[b].pc = "admit" /\ acc'[d].pc = "admit"
               => acc'[b].conn # acc'[d].conn
        BY <2>1, <2>5 DEF TypeOK
    <2>. QED
        BY <2>2, <2>6, <2>7, <2>8, <2>9, <2>10
<1>5. ASSUME NEW a \in Acceptor, AcceptError(a) PROVE IInv'
    BY <1>5, ConnAssumption
    DEF AcceptError, TypeOK, CountMatchesWrappers, Counted, HeldOK, AccPC, AccResult
<1>6. ASSUME NEW a \in Acceptor, AcceptAdmit(a) PROVE IInv'
    <2>. DEFINE c == acc[a].conn
    <2>1. /\ acc[a].pc = "admit"
          /\ conns' = conns + 1
          /\ added' = [added EXCEPT ![c] = TRUE]
          /\ acc' = [acc EXCEPT ![a] = [pc |-> "idle", conn |-> NoConn, res |-> "ok"]]
          /\ UNCHANGED <<lnClosed, sock, removed, closeCalls, closing>>
        BY <1>6 DEF AcceptAdmit
    <2>2. c \in Conn /\ sock[c] # "new" /\ ~added[c] /\ ~removed[c]
        BY <2>1 DEF HeldOK
    <2>3. Counted' = Counted \cup {c}
        BY <2>1, <2>2 DEF Counted, TypeOK
    <2>4. c \notin Counted
        BY <2>2 DEF Counted
    <2>5. Cardinality(Counted') = Cardinality(Counted) + 1
        BY <1>0, <2>3, <2>4, FS_AddElement
    <2>6. CountMatchesWrappers'
        BY <2>1, <2>5 DEF CountMatchesWrappers
    <2>7. TypeOK'
        BY <2>1, <2>2, <1>0 DEF TypeOK, CountMatchesWrappers, AccPC, AccResult
    <2>8. \A b \in Acceptor : b # a /\ acc[b].pc = "admit" => acc[b].conn # c
        BY <2>1 DEF TypeOK
    <2>9. \A b \in Acceptor : HeldOK(b)'
        BY <2>1, <2>8 DEF HeldOK, TypeOK
    <2>. QED
        BY <2>1, <2>2, <2>6, <2>7, <2>9 DEF TypeOK
<1>7. CASE Close
    BY <1>7 DEF Close, TypeOK, CountMatchesWrappers, Counted, HeldOK
<1>8. ASSUME NEW c \in Conn, ConnCloseBegin(c) PROVE IInv'
    <2>1. /\ added[c]
          /\ closeCalls[c] < MaxCloseCalls
          /\ sock' = [sock EXCEPT ![c] = "closed"]
          /\ closing' = [closing EXCEPT ![c] = @ + 1]
          /\ closeCalls' = [closeCalls EXCEPT ![c] = @ + 1]
          /\ UNCHANGED <<conns, lnClosed, added, removed, acc>>
        BY <1>8 DEF ConnCloseBegin
    <2>2. Counted' = Counted
        BY <2>1 DEF Counted
    <2>3. TypeOK'
        BY <2>1, MaxCloseCallsAssumption DEF TypeOK
    <2>4. CountMatchesWrappers'
        BY <2>1, <2>2 DEF CountMatchesWrappers
    <2>5. \A a \in Acceptor : HeldOK(a)'
        BY <2>1 DEF HeldOK, TypeOK
    <2>6. \A x \in Conn : added'[x] => sock'[x] # "new"
        BY <2>1 DEF TypeOK
    <2>7. \A x \in Conn : closing'[x] > 0 => added'[x]
        BY <2>1 DEF TypeOK
    <2>. QED
        BY <2>1, <2>3, <2>4, <2>5, <2>6, <2>7

<1>9. ASSUME NEW c \in Conn, ConnCloseRemove(c) PROVE IInv'
    <2>1. /\ closing[c] > 0
          /\ closing' = [closing EXCEPT ![c] = @ - 1]
          /\ removed' = [removed EXCEPT ![c] = TRUE]
          /\ conns' = IF removed[c] THEN conns ELSE conns - 1
          /\ UNCHANGED <<lnClosed, sock, added, closeCalls, acc>>
        BY <1>9 DEF ConnCloseRemove
    <2>2. added[c]
        BY <2>1
    <2>3. Counted' = Counted \ {c}
        BY <2>1 DEF Counted, TypeOK
    <2>4. Cardinality(Counted') = IF removed[c] THEN Cardinality(Counted)
                                  ELSE Cardinality(Counted) - 1
        <3>1. c \in Counted <=> ~removed[c]
            BY <2>2 DEF Counted
        <3>. QED
            BY <1>0, <2>3, <3>1, FS_RemoveElement
    <2>5. CountMatchesWrappers'
        BY <2>1, <2>4 DEF CountMatchesWrappers
    <2>6. Cardinality(Counted') \in Nat
        BY <1>0, <2>3, FS_RemoveElement, FS_CardinalityType
    <2>7. TypeOK'
        BY <2>1, <2>5, <2>6 DEF TypeOK, CountMatchesWrappers
    <2>. QED
        BY <2>1, <2>2, <2>5, <2>7 DEF TypeOK, HeldOK
<1>10. CASE UNCHANGED vars
    BY <1>10 DEF vars, TypeOK, CountMatchesWrappers, Counted, HeldOK
<1>. QED
    BY <1>1, <1>2, <1>3, <1>4, <1>5, <1>6, <1>7, <1>8, <1>9, <1>10 DEF Next

(* The inductive invariant holds in every reachable state.                *)
THEOREM IInvHolds == Spec => []IInv
<1>. QED
    BY InitIInv, NextIInv, PTL DEF Spec

(* Type correctness of the listener: in particular the atomic counter     *)
(* never goes negative, whatever the order of racing Close calls.         *)
THEOREM TypeCorrect == Spec => []TypeOK
<1>. QED
    BY IInvHolds, PTL DEF IInv

(* The counter always equals the number of wrapped connections whose      *)
(* removeOnce has not run (spec invariant 3): addConn and the once-guarded *)
(* removeConn keep it exact for every MaxConns, set of sockets, number of *)
(* acceptors and number of Close calls.                                   *)
THEOREM CounterExact == Spec => []CountMatchesWrappers
<1>. QED
    BY IInvHolds, PTL DEF IInv
=============================================================================
