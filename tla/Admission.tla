----------------------------- MODULE Admission -----------------------------
(***************************************************************************)
(* What LimitListener promises its server (spec 4.1, property 2): a set of *)
(* held connections that never grows past MaxConns.  A connection is      *)
(* admitted at most once, only while fewer than MaxConns are held, and is  *)
(* released at most once; the listener can be closed at any time.  How    *)
(* the count is kept (an atomic counter, a once-guarded decrement) and     *)
(* when sockets are accepted or closed is left to the implementation.     *)
(***************************************************************************)
EXTENDS FiniteSets, Naturals

CONSTANTS Conn, MaxConns

VARIABLES
    held,     \* connections admitted and not yet released
    served,   \* connections ever admitted
    closed    \* the listener has been closed

avars == <<held, served, closed>>

Init ==
    /\ held = {}
    /\ served = {}
    /\ closed = FALSE

Admit(c) ==
    /\ c \notin served
    /\ Cardinality(held) < MaxConns
    /\ held' = held \cup {c}
    /\ served' = served \cup {c}
    /\ UNCHANGED closed

Release(c) ==
    /\ c \in held
    /\ held' = held \ {c}
    /\ UNCHANGED <<served, closed>>

Close ==
    /\ ~closed
    /\ closed' = TRUE
    /\ UNCHANGED <<held, served>>

Next ==
    \/ \E c \in Conn : Admit(c) \/ Release(c)
    \/ Close

Spec == Init /\ [][Next]_avars

(* The promise: never more than MaxConns connections held at once.        *)
HeldBound == Cardinality(held) <= MaxConns
=============================================================================
