---------------------------- MODULE AckVersions ----------------------------
(***************************************************************************)
(* The ack and flush paths of one bound connection, with the versions the *)
(* Store keeps for each channel (worker.go, Worker.Ack and Worker.Flush).  *)
(* The Store holds, per channel, the latest pending version, or nothing    *)
(* (0).  Another server stores newer versions and asks the worker, from   *)
(* the server's goroutine, for a targeted flush of the version it stored. *)
(* The client acknowledges updates it has received, each a channel and a  *)
(* version, and lists expired channels; Ack drops every named channel,    *)
(* stopping at the first failing Drop, and then flushes what is left.     *)
(* The Worker module models these handlers without versions; this module  *)
(* keeps the rest of the connection (hello, ping, the timer) out.         *)
(***************************************************************************)
EXTENDS Naturals, Sequences

CONSTANTS
    Chan,         \* channel ids registered for the device
    MaxVersion,   \* the highest version another server stores
    MaxSends,     \* bound on the notifications written to the socket
    StoreErrors   \* whether Store.Drop may fail

VARIABLES
    latest,   \* the last version stored for each channel, 0 if none yet
    stored,   \* Store: channel -> pending version, 0 when nothing pending
    out,      \* the notifications written, each a set of <<channel, version>>
    ack,      \* the last ack frame the worker handled
    stopped   \* Worker.stopped

vars == <<latest, stored, out, ack, stopped>>

NoAck == [upd |-> {}, exp |-> {}]

(* Every <<channel, version>> pair the client has been sent.              *)
Received == {p \in Chan \X (1..MaxVersion) : \E i \in 1..Len(out) : p \in out[i]}

(* The ack frames a client may send: updates it received, and any set of *)
(* channels it reports expired.                                           *)
AckFrames == [upd : SUBSET Received, exp : SUBSET Chan]

Init ==
    /\ latest = [c \in Chan |-> 0]
    /\ stored = [c \in Chan |-> 0]
    /\ out = <<>>
    /\ ack = NoAck
    /\ stopped = FALSE

(* Store.FetchAll: one update per channel with a pending version.         *)
FetchAll(s) == {<<c, s[c]>> : c \in {d \in Chan : s[d] # 0}}

(* Worker.Flush(sock, 0, "", 0), the bulk flush: fetch every pending      *)
(* update and send them as one notification, or send nothing.             *)
Flush(s) ==
    out' = IF FetchAll(s) = {} THEN out ELSE Append(out, FetchAll(s))

(* The channels an ack frame names, in the order Ack drops them: its      *)
(* updates, then its expired channels.                                    *)
Named(f) == {p[1] : p \in f.upd} \cup f.exp

(* Worker.Ack on a bound socket.  An empty update list is ErrNoParams and *)
(* stops the connection.  Otherwise every named channel is dropped, by    *)
(* channel id alone, and the bulk flush follows; a failing Drop ends the  *)
(* handler with the channels before it dropped and stops the connection.  *)
Ack ==
    /\ ~stopped
    /\ Len(out) < MaxSends
    /\ \E f \in AckFrames :
         /\ ack' = f
         /\ UNCHANGED latest
         /\ \/ /\ f.upd = {}
               /\ stopped' = TRUE
               /\ UNCHANGED <<stored, out>>
            \/ /\ f.upd # {}
               /\ stored' = [c \in Chan |-> IF c \in Named(f) THEN 0 ELSE stored[c]]
               /\ Flush(stored')
               /\ UNCHANGED stopped
            \/ /\ f.upd # {}
               /\ StoreErrors
               /\ \E dropped \in SUBSET Named(f) \ {Named(f)} :
                    stored' = [c \in Chan |-> IF c \in dropped THEN 0 ELSE stored[c]]
               /\ stopped' = TRUE
               /\ UNCHANGED out

(* Another server stores a newer version of a channel's update.           *)
StoreUpdate ==
    \E c \in Chan :
        /\ latest[c] < MaxVersion
        /\ latest' = [latest EXCEPT ![c] = @ + 1]
        /\ stored' = [stored EXCEPT ![c] = latest'[c]]
        /\ UNCHANGED <<out, ack, stopped>>

(* Worker.Flush(sock, 0, channel, version) from the server's goroutine:   *)
(* a notification carrying the version just stored, without reading the  *)
(* Store.                                                                 *)
ServerFlush ==
    /\ Len(out) < MaxSends
    /\ \E c \in Chan :
         /\ latest[c] # 0
         /\ out' = Append(out, {<<c, latest[c]>>})
    /\ UNCHANGED <<latest, stored, ack, stopped>>

Next == Ack \/ StoreUpdate \/ ServerFlush

Spec == Init /\ [][Next]_vars

-----------------------------------------------------------------------------
(* Ack clears only what the client stated it received (the comment above  *)
(* Worker.Ack, worker.go:420): a pending version leaves the Store only    *)
(* when the ack names that channel as expired or acknowledges a version   *)
(* at least as new.  Drop removes the channel whatever version the ack    *)
(* carried, so a version stored after the client's copy is lost unseen.   *)
AckClearsReceived ==
    [][\A c \in Chan :
          stored[c] # 0 /\ stored'[c] = 0
              => \/ c \in ack'.exp
                 \/ \E p \in ack'.upd : p[1] = c /\ p[2] >= stored[c]
      ]_vars
=============================================================================
