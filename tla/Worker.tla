------------------------------- MODULE Worker -------------------------------
(***************************************************************************)
(* One connection's protocol driver, simplepush/worker.go.                 *)
(*                                                                         *)
(* Worker.Run starts the idle-hello timer (a goroutine of its own) and     *)
(* runs the receive loop `sniffer'.  Each iteration reads a frame,         *)
(* classifies it, dispatches it to one handler and, on a handler error,    *)
(* sends the error envelope and sets the `stopped' latch; once stopped,    *)
(* the loop returns and Run closes the socket.                             *)
(*                                                                         *)
(* One iteration of the loop, the handler it calls and the Flush that      *)
(* handler calls are one action: nothing else touches the worker's state   *)
(* in between, and the shared Store serialises each call.  The timer, the  *)
(* clock, the client hanging up and updates stored for the device by       *)
(* other servers are the concurrent actors.                                *)
(*                                                                         *)
(* The Store (not part of this code) is kept to what the worker reads:     *)
(* the channels registered per device id and the channels with a pending   *)
(* update.  A frame is a record naming its command and the fields the      *)
(* handlers test; a reply is a record of its messageType and the fields    *)
(* the properties read.                                                    *)
(***************************************************************************)
EXTENDS Integers, Sequences, FiniteSets

CONSTANTS
    UAID,          \* well-formed device ids a client may suggest
    FreshID,       \* device ids id.Generate may return
    NoUAID,        \* the empty string: no device id bound to the socket
    BadUAID,       \* a suggested device id id.Valid rejects
    Absent,        \* a JSON field missing from the request
    Chan,          \* well-formed channel ids
    NoChan,        \* the empty channel id
    BadChan,       \* a channel id id.Valid rejects
    Elsewhere,     \* ids app.ClientExists reports (held by other workers)
    Stored,        \* ids the Store knows, with Chan registered, at start
    MaxChannels,   \* Store.MaxChannels()
    PingInt,       \* app.clientMinPing, in clock ticks
    HelloTimeout,  \* app.clientHelloTimeout, in clock ticks
    MaxTime,       \* bound on the clock
    MaxFrames,     \* bound on the frames the client sends
    StoreErrors,   \* whether Store calls may fail
    MaxServerFlushes \* bound on the server's targeted Flush calls

ASSUME IdAssumption ==
    /\ UAID \cap FreshID = {}
    /\ NoUAID \notin UAID \cup FreshID \cup {BadUAID, Absent}
    /\ BadUAID \notin UAID \cup FreshID \cup {Absent}
    /\ Elsewhere \subseteq UAID /\ Stored \subseteq UAID
    /\ NoChan \notin Chan /\ BadChan \notin Chan \cup {NoChan}
ASSUME NumAssumption ==
    /\ MaxChannels \in Nat /\ PingInt \in Nat
    /\ HelloTimeout \in Nat \ {0} /\ MaxTime \in Nat \ {0}
    /\ MaxFrames \in Nat /\ StoreErrors \in BOOLEAN
    /\ MaxServerFlushes \in Nat

VARIABLES
    pc,        \* "loop" in sniffer, "hello" in Hello past HandleCommand,
               \* "done" once Run has closed the socket
    stopped,   \* Worker.stopped
    state,     \* Worker.state
    uaid,      \* sock.Uaid
    lastPing,  \* Worker.lastPing; 0 is the zero time.Time
    now,       \* the clock, from 1
    sockOpen,  \* the socket has not been closed on this side
    timer,     \* the hello timer: "armed", "closing" (read "" ) or "done"
    frames,    \* number of frames received
    frame,     \* the last frame received (raw)
    out,       \* the frames written to the socket, in order
    pongs,     \* the clock at each ping accepted
    chans,     \* Store: device id -> registered channels
    pending,   \* Store: device id -> channels with a pending update
    routed,    \* HandleCommand(HELLO) has registered the worker with the server
    srvFlushes \* Flush calls made by the server's goroutine

vars == <<pc, stopped, state, uaid, lastPing, now, sockOpen, timer, frames,
          frame, out, pongs, chans, pending, routed, srvFlushes>>
storeVars == <<chans, pending>>
srvVars == <<routed, srvFlushes>>

(* Every id the Store may be asked about, "" included.                    *)
DeviceID == UAID \cup FreshID \cup {NoUAID}

-----------------------------------------------------------------------------
(* Frames.                                                                *)
(* A request: its messageType and the fields the handlers read.           *)
Req(k, u, n, c, up, ex) == [kind |-> k, uaid |-> u, chids |-> n, chan |-> c,
                            upd |-> up, exp |-> ex]
Blank == Req("", Absent, Absent, NoChan, {}, {})
Bare(k) == Req(k, Absent, Absent, NoChan, {}, {})

HelloFrames ==
    {Req("hello", u, n, NoChan, {}, {}) :
        u \in UAID \cup {NoUAID, BadUAID, Absent},
        n \in {Absent} \cup 0..(MaxChannels + 1)}
RegisterFrames == {Req("register", Absent, Absent, c, {}, {}) : c \in Chan \cup {BadChan}}
UnregisterFrames == {Req("unregister", Absent, Absent, c, {}, {}) : c \in Chan \cup {NoChan}}
AckFrames == {Req("ack", Absent, Absent, NoChan, u, e) : u, e \in SUBSET Chan}

(* "empty": a zero-length message; "badpayload": braces and whitespace    *)
(* isPingBody rejects; "syntax" and "typeerr": JSON that fails to decode  *)
(* into RequestHeader; "ping" covers both "{}" and messageType "ping";    *)
(* "unknown": any other messageType.                                      *)
Frame ==
    {Bare(k) : k \in {"empty", "badpayload", "syntax", "typeerr", "ping",
                      "purge", "unknown"}}
    \cup HelloFrames \cup RegisterFrames \cup UnregisterFrames \cup AckFrames

(* Replies.                                                               *)
Msg(t, u, e, cs) == [type |-> t, uaid |-> u, err |-> e, chans |-> cs]
ErrorReply(e) == Msg("error", NoUAID, e, {})

(* websocket.JSON.Send: a write on a closed socket is lost, and the       *)
(* handlers ignore the error it returns.                                  *)
Send(o, m) == IF sockOpen THEN Append(o, m) ELSE o

(* Store.Exists.                                                          *)
Exists(u) == chans[u] # {}

(* The errors the handlers return, by name, and "none" on a reply that  *)
(* carries no error.                                                     *)
ErrName == {"none", "InvalidCommand", "InvalidParams", "NoParams", "ExistingID",
            "InvalidID", "UnknownCommand", "TooManyPings", "StoreErr", "WriteErr"}

TypeOK ==
    /\ pc \in {"loop", "hello", "done"}
    /\ stopped \in BOOLEAN
    /\ state \in {"Inactive", "Active"}
    /\ uaid \in DeviceID
    /\ lastPing \in 0..MaxTime
    /\ now \in 1..MaxTime
    /\ sockOpen \in BOOLEAN
    /\ timer \in {"armed", "closing", "done"}
    /\ frames \in 0..MaxFrames
    /\ frame \in Frame \cup {Blank}
    /\ out \in Seq([type : {"hello", "register", "unregister", "notification",
                            "pong", "purge", "error"},
                    uaid : DeviceID, err : ErrName, chans : SUBSET Chan])
    /\ pongs \in Seq(1..MaxTime)
    /\ chans \in [DeviceID -> SUBSET Chan]
    /\ pending \in [DeviceID -> SUBSET Chan]
    /\ routed \in BOOLEAN
    /\ srvFlushes \in 0..MaxServerFlushes

(* NewWorker sets state to WorkerActive (worker.go:99).                   *)
Init ==
    /\ pc = "loop"
    /\ stopped = FALSE
    /\ state = "Active"
    /\ uaid = NoUAID
    /\ lastPing = 0
    /\ now = 1
    /\ sockOpen = TRUE
    /\ timer = "armed"
    /\ frames = 0
    /\ frame = Blank
    /\ out = <<>>
    /\ pongs = <<>>
    /\ chans = [u \in DeviceID |-> IF u \in Stored THEN Chan ELSE {}]
    /\ pending = [u \in DeviceID |-> {}]
    /\ routed = FALSE
    /\ srvFlushes = 0

-----------------------------------------------------------------------------
(* The receive loop reads frame f: the loop is running, not stopped, and  *)
(* websocket.Message.Receive succeeds (worker.go:125-135).                *)
Receive(f) ==
    /\ pc = "loop"
    /\ ~stopped
    /\ sockOpen
    /\ frames < MaxFrames
    /\ frames' = frames + 1
    /\ frame' = f

(* A handler returned err: handleError sends the client's frame back with *)
(* status and error (every frame that reaches a handler decodes as an     *)
(* object), and the loop sets stopped (worker.go:205-212, 218-229).       *)
Fail(e) ==
    /\ out' = Send(out, ErrorReply(e))
    /\ stopped' = TRUE

(* Mutant: the flush decides from the pending updates read before the   *)
(* handler's own Store calls.                                             *)
FlushStale(u, o, p) ==
    \/ /\ u = NoUAID
       /\ out' = o
       /\ stopped' = TRUE
    \/ /\ u # NoUAID
       /\ StoreErrors
       /\ out' = Send(o, ErrorReply("StoreErr"))
       /\ stopped' = TRUE
    \/ /\ u # NoUAID
       /\ out' = IF pending[u] = {} THEN o
                 ELSE Send(o, Msg("notification", u, "none", pending[u]))
       /\ UNCHANGED stopped

(* Worker.Flush(sock, 0, "", 0) for device u on pending updates p, after  *)
(* the replies o (worker.go:571-643).  With no device id it sets stopped  *)
(* and returns nil; a FetchAll error is returned to the loop; otherwise   *)
(* the pending updates, if any, are sent as one notification.             *)
Flush(u, o, p) ==
    \/ /\ u = NoUAID
       /\ out' = o
       /\ stopped' = TRUE
    \/ /\ u # NoUAID
       /\ StoreErrors
       /\ out' = Send(o, ErrorReply("StoreErr"))
       /\ stopped' = TRUE
    \/ /\ u # NoUAID
       /\ out' = IF p[u] = {} THEN o ELSE Send(o, Msg("notification", u, "none", p[u]))
       /\ UNCHANGED stopped

(* sniffer, frames handled without a handler (worker.go:136-184): an      *)
(* empty frame is skipped; a frame isPingBody rejects, or JSON that does  *)
(* not decode, stops the loop; a messageType of the wrong JSON type is    *)
(* answered with ErrUnknownCommand and stops the loop.                    *)
RecvEmpty ==
    /\ Receive(Bare("empty"))
    /\ UNCHANGED <<srvVars, pc, stopped, state, uaid, lastPing, now, sockOpen, timer,
                   out, pongs, storeVars>>

RecvMalformed ==
    /\ \E k \in {"badpayload", "syntax"} : Receive(Bare(k))
    /\ stopped' = TRUE
    /\ UNCHANGED <<srvVars, pc, state, uaid, lastPing, now, sockOpen, timer, out, pongs,
                   storeVars>>

RecvTypeError ==
    /\ Receive(Bare("typeerr"))
    /\ Fail("UnknownCommand")
    /\ UNCHANGED <<srvVars, pc, state, uaid, lastPing, now, sockOpen, timer, pongs,
                   storeVars>>

(* The default branch of the dispatch switch (worker.go:198-204).         *)
Unknown ==
    /\ Receive(Bare("unknown"))
    /\ Fail("UnknownCommand")
    /\ UNCHANGED <<srvVars, pc, state, uaid, lastPing, now, sockOpen, timer, pongs,
                   storeVars>>

(* Worker.Ping (worker.go:645-664): a ping closer than pingInt to the     *)
(* last one answered is refused and stops the loop; otherwise lastPing    *)
(* is set and a pong sent.                                                *)
TooSoon == PingInt > 0 /\ lastPing # 0 /\ now - lastPing < PingInt

PingNoUpdate ==
    /\ Receive(Bare("ping"))
    /\ \/ /\ TooSoon
          /\ Fail("TooManyPings")
          /\ UNCHANGED <<lastPing, pongs>>
       \/ /\ ~TooSoon
          /\ out' = Send(out, Msg("pong", NoUAID, "none", {}))
          /\ pongs' = Append(pongs, now)
          /\ UNCHANGED <<stopped, lastPing>>
    /\ UNCHANGED <<srvVars, pc, state, uaid, now, sockOpen, timer, storeVars>>

Ping ==
    /\ Receive(Bare("ping"))
    /\ \/ /\ TooSoon
          /\ Fail("TooManyPings")
          /\ UNCHANGED <<lastPing, pongs>>
       \/ /\ ~TooSoon
          /\ lastPing' = now
          /\ out' = Send(out, Msg("pong", NoUAID, "none", {}))
          /\ pongs' = Append(pongs, now)
          /\ UNCHANGED stopped
    /\ UNCHANGED <<srvVars, pc, state, uaid, now, sockOpen, timer, storeVars>>

(* Worker.Purge (worker.go:667-676): answers "{}" whatever the state.     *)
Purge ==
    /\ Receive(Bare("purge"))
    /\ out' = Send(out, Msg("purge", NoUAID, "none", {}))
    /\ UNCHANGED <<srvVars, pc, stopped, state, uaid, lastPing, now, sockOpen, timer,
                   pongs, storeVars>>
(* Mutant: the suggested id is not checked with id.Valid.                *)
HelloErrNoValidation(f) ==
    IF f.uaid = Absent THEN "InvalidParams"
    ELSE IF f.chids = Absent THEN "NoParams"
    ELSE IF uaid # NoUAID /\ f.uaid \notin {NoUAID, uaid} THEN "ExistingID"
    ELSE "none"

(* Worker.Hello (worker.go:266-418).  The checks in the order the code   *)
(* makes them: the error a hello is refused with, if any.                 *)
HelloErr(f) ==
    IF f.uaid = Absent THEN "InvalidParams"
    ELSE IF f.chids = Absent THEN "NoParams"
    ELSE IF uaid # NoUAID /\ f.uaid \notin {NoUAID, uaid} THEN "ExistingID"
    ELSE IF uaid = NoUAID /\ f.uaid = BadUAID THEN "InvalidID"
    ELSE "none"

(* forceReset on a socket with no device id: no id suggested, the id held *)
(* by another worker, too many channels, or the Store test of line 367,   *)
(* which asks about sock.Uaid (still "") rather than the suggested id.    *)
ForceReset(f) ==
    /\ uaid = NoUAID
    /\ \/ f.uaid = NoUAID
       \/ f.uaid \in Elsewhere
       \/ f.chids > MaxChannels
       \/ ~Exists(uaid) /\ f.chids > 0

(* The too-many-channels branch, which also calls Store.DropAll.          *)
TooManyChannels(f) ==
    /\ uaid = NoUAID
    /\ f.uaid \in UAID \ Elsewhere
    /\ f.chids > MaxChannels

(* Mutant: the empty-id reset tested before the duplicate-handshake test. *)
NewUAIDResetFirst(f) ==
    IF f.uaid = NoUAID THEN FreshID \cup {NoUAID}
    ELSE IF uaid # NoUAID THEN {uaid}
    ELSE IF ForceReset(f) THEN FreshID \cup {NoUAID}
    ELSE {f.uaid}

(* sock.Uaid after registerDevice: kept on a duplicate handshake, from    *)
(* id.Generate on a reset (whose error is dropped, leaving ""), else the  *)
(* suggested id.                                                          *)
NewUAID(f) ==
    IF uaid # NoUAID THEN {uaid}
    ELSE IF ForceReset(f) THEN FreshID \cup {NoUAID}
    ELSE {f.uaid}

(* Worker.Hello up to and including the blocking HandleCommand(HELLO)     *)
(* (worker.go:266-394): a refused hello is answered with its error; an    *)
(* accepted one binds sock.Uaid, drops the channels of an over-full       *)
(* device, and registers the worker with the server under sock.Uaid,       *)
(* from which point the server's goroutine may call Flush on it.          *)
Hello ==
    \E f \in HelloFrames :
      /\ Receive(f)
      /\ \/ /\ HelloErr(f) # "none"
            /\ Fail(HelloErr(f))
            /\ UNCHANGED <<pc, uaid, storeVars, routed>>
         \/ /\ HelloErr(f) = "none"
            /\ uaid' \in NewUAID(f)
            /\ chans' = IF TooManyChannels(f)
                           THEN [chans EXCEPT ![f.uaid] = {}] ELSE chans
            /\ pending' = IF TooManyChannels(f)
                             THEN [pending EXCEPT ![f.uaid] = {}] ELSE pending
            /\ routed' = TRUE
            /\ pc' = "hello"
            /\ UNCHANGED <<stopped, out>>
      /\ UNCHANGED <<state, lastPing, now, sockOpen, timer, pongs, srvFlushes>>

(* The rest of Worker.Hello once HandleCommand has returned               *)
(* (worker.go:396-418): the reply is written straight to the socket, the  *)
(* state becomes Active whether or not the write failed, and only a       *)
(* successful write is followed by the flush of what the Store holds now. *)
HelloReply ==
    /\ pc = "hello"
    /\ pc' = "loop"
    /\ state' = "Active"
    /\ IF sockOpen
          THEN Flush(uaid, Append(out, Msg("hello", uaid, "none", {})), pending)
          ELSE Fail("WriteErr")
    /\ UNCHANGED <<uaid, lastPing, now, sockOpen, timer, frames, frame, pongs,
                   storeVars, srvVars>>

(* Worker.Register (worker.go:469-524).                                   *)
Register ==
    \E f \in RegisterFrames :
      /\ Receive(f)
      /\ \/ /\ uaid = NoUAID
            /\ Fail("InvalidCommand")
            /\ UNCHANGED storeVars
         \/ /\ uaid # NoUAID
            /\ f.chan = BadChan
            /\ Fail("InvalidParams")
            /\ UNCHANGED storeVars
         \/ /\ uaid # NoUAID
            /\ f.chan \in Chan
            /\ StoreErrors
            /\ Fail("StoreErr")
            /\ UNCHANGED storeVars
         \/ /\ uaid # NoUAID
            /\ f.chan \in Chan
            /\ chans' = [chans EXCEPT ![uaid] = @ \cup {f.chan}]
            /\ out' = Send(out, Msg("register", uaid, "none", {f.chan}))
            /\ UNCHANGED <<stopped, pending>>
      /\ UNCHANGED <<srvVars, pc, state, uaid, lastPing, now, sockOpen, timer, pongs>>

(* Worker.Unregister (worker.go:527-568): a Store error is only logged    *)
(* and the reply is always status 200.                                    *)
Unregister ==
    \E f \in UnregisterFrames :
      /\ Receive(f)
      /\ \/ /\ uaid = NoUAID
            /\ Fail("InvalidCommand")
            /\ UNCHANGED storeVars
         \/ /\ uaid # NoUAID
            /\ f.chan = NoChan
            /\ Fail("NoParams")
            /\ UNCHANGED storeVars
         \/ /\ uaid # NoUAID
            /\ f.chan \in Chan
            /\ \/ /\ chans' = [chans EXCEPT ![uaid] = @ \ {f.chan}]
                  /\ pending' = [pending EXCEPT ![uaid] = @ \ {f.chan}]
               \/ StoreErrors /\ UNCHANGED storeVars
            /\ out' = Send(out, Msg("unregister", NoUAID, "none", {f.chan}))
            /\ UNCHANGED stopped
      /\ UNCHANGED <<srvVars, pc, state, uaid, lastPing, now, sockOpen, timer, pongs>>

(* Worker.Ack (worker.go:422-466): Store.Drop for every channel of the    *)
(* update and expired lists, then a flush.  The first failing Drop ends   *)
(* the handler with the channels before it already dropped.               *)
Ack ==
    \E f \in AckFrames :
      /\ Receive(f)
      /\ \/ /\ uaid = NoUAID
            /\ Fail("InvalidCommand")
            /\ UNCHANGED storeVars
         \/ /\ uaid # NoUAID
            /\ f.upd = {}
            /\ Fail("NoParams")
            /\ UNCHANGED storeVars
         \/ /\ uaid # NoUAID
            /\ f.upd # {}
            /\ pending' = [pending EXCEPT ![uaid] = @ \ (f.upd \cup f.exp)]
            /\ Flush(uaid, out, pending')
            /\ UNCHANGED chans
         \/ /\ uaid # NoUAID
            /\ f.upd # {}
            /\ StoreErrors
            /\ \E dropped \in SUBSET (f.upd \cup f.exp) \ {f.upd \cup f.exp} :
                 pending' = [pending EXCEPT ![uaid] = @ \ dropped]
            /\ Fail("StoreErr")
            /\ UNCHANGED chans
      /\ UNCHANGED <<srvVars, pc, state, uaid, lastPing, now, sockOpen, timer, pongs>>

(* Receive fails: the client hung up or the socket was closed under the   *)
(* loop (worker.go:128-135).                                              *)
ReceiveError ==
    /\ pc = "loop"
    /\ ~stopped
    /\ stopped' = TRUE
    /\ UNCHANGED <<srvVars, pc, state, uaid, lastPing, now, sockOpen, timer, frames,
                   frame, out, pongs, storeVars>>

(* sniffer returns once stopped and Run closes the socket                 *)
(* (worker.go:124-127, 255-256).                                          *)
RunExit ==
    /\ pc = "loop"
    /\ stopped
    /\ pc' = "done"
    /\ sockOpen' = FALSE
    /\ UNCHANGED <<srvVars, stopped, state, uaid, lastPing, now, timer, frames, frame,
                   out, pongs, storeVars>>

(* Mutant: the callback never reaches its Close, whatever sock.Uaid holds *)
(* (a dropped Close at line 240).                                         *)
TimerFireUnconditional ==
    /\ timer = "armed"
    /\ now >= HelloTimeout
    /\ timer' = "done"
    /\ UNCHANGED <<srvVars, pc, stopped, state, uaid, lastPing, now, sockOpen, frames,
                   frame, out, pongs, storeVars>>

(* The time.AfterFunc callback of Run (worker.go:233-242) reads           *)
(* sock.Uaid, unsynchronised with the loop, and closes the socket if it   *)
(* was "".  The read and the close are separate steps.                    *)
TimerFire ==
    /\ timer = "armed"
    /\ now >= HelloTimeout
    /\ timer' = IF uaid = NoUAID THEN "closing" ELSE "done"
    /\ UNCHANGED <<srvVars, pc, stopped, state, uaid, lastPing, now, sockOpen, frames,
                   frame, out, pongs, storeVars>>

TimerClose ==
    /\ timer = "closing"
    /\ timer' = "done"
    /\ sockOpen' = FALSE
    /\ UNCHANGED <<srvVars, pc, stopped, state, uaid, lastPing, now, frames, frame, out,
                   pongs, storeVars>>

(* Worker.Flush(sock, t, channel, version) called by the server's update *)
(* goroutine with a channel, for the worker HandleCommand registered       *)
(* (worker.go:585-594, 614-622, 641): with no device id it sets stopped   *)
(* and sends nothing; otherwise it writes a notification for that one     *)
(* channel without reading the Store, concurrently with the loop.         *)
ServerFlush ==
    /\ routed
    /\ srvFlushes < MaxServerFlushes
    /\ srvFlushes' = srvFlushes + 1
    /\ \/ /\ uaid = NoUAID
          /\ stopped' = TRUE
          /\ UNCHANGED out
       \/ /\ uaid # NoUAID
          /\ \E c \in Chan : out' = Send(out, Msg("notification", uaid, "none", {c}))
          /\ UNCHANGED stopped
    /\ UNCHANGED <<pc, state, uaid, lastPing, now, sockOpen, timer, frames, frame,
                   pongs, storeVars, routed>>

(* Time passes.                                                           *)
Tick ==
    /\ now < MaxTime
    /\ now' = now + 1
    /\ UNCHANGED <<srvVars, pc, stopped, state, uaid, lastPing, sockOpen, timer, frames,
                   frame, out, pongs, storeVars>>

(* Another server stores an update for a registered channel.              *)
NewUpdate ==
    /\ \E u \in DeviceID, c \in Chan :
         /\ c \in chans[u] \ pending[u]
         /\ pending' = [pending EXCEPT ![u] = @ \cup {c}]
    /\ UNCHANGED <<srvVars, pc, stopped, state, uaid, lastPing, now, sockOpen, timer,
                   frames, frame, out, pongs, chans>>

-----------------------------------------------------------------------------
Next ==
    \/ RecvEmpty \/ RecvMalformed \/ RecvTypeError \/ Unknown
    \/ Ping \/ Purge \/ Hello \/ HelloReply \/ Register \/ Unregister \/ Ack
    \/ ReceiveError \/ RunExit
    \/ TimerFire \/ TimerClose \/ Tick \/ NewUpdate \/ ServerFlush

(* The clock advances, and the timer goroutine and the loop goroutine,    *)
(* never blocked between these steps (HandleCommand has returned when the *)
(* hello reply is due), are eventually scheduled.                         *)
Fairness ==
    /\ WF_vars(Tick)
    /\ WF_vars(TimerFire)
    /\ WF_vars(TimerClose)
    /\ WF_vars(RunExit)
    /\ WF_vars(HelloReply)

Spec == Init /\ [][Next]_vars /\ Fairness

-----------------------------------------------------------------------------
(* Once a device id is bound to the socket it is never replaced: a second *)
(* hello with an empty or equal id keeps it and one with another id is    *)
(* refused with ErrExistingID (spec invariant 2, property 8).             *)
UaidStable == [][uaid # NoUAID => uaid' = uaid]_uaid

(* Any two pings the worker accepts are at least pingInt apart, across    *)
(* refusals, other commands and the passing of time (spec property 5).    *)
PingSpacing ==
    \A i \in 1..(Len(pongs) - 1) : pongs[i + 1] - pongs[i] >= PingInt

(* A hello or an ack handled without error leaves the client holding      *)
(* every update pending for the device: the flush that ends the handler   *)
(* sends exactly what the Store holds after the handler's own drops, and  *)
(* sends nothing when that is empty (spec invariant 5).                   *)
FlushedStep ==
    LET helloDone == pc = "hello" /\ pc' = "loop"
        ackDone == frames' = frames + 1 /\ frame'.kind = "ack"
    IN  /\ helloDone \/ ackDone
        /\ ~stopped'
        /\ sockOpen
        => IF pending'[uaid'] = {}
           THEN Len(out') = Len(out) + IF helloDone THEN 1 ELSE 0
           ELSE out'[Len(out')] = Msg("notification", uaid', "none", pending'[uaid'])

(* Every step of the worker, its timer and the server's goroutine is a   *)
(* FlushedStep: what a completed hello or ack flush leaves the client     *)
(* holding is what the Store holds for the device.                        *)
FlushSendsPending == [][FlushedStep]_vars

(* A socket still without a device id is eventually closed: the hello     *)
(* timer reaps anonymous connections (spec 4.3, idle-hello watchdog).     *)
AnonymousReaped == <>[](uaid = NoUAID => ~sockOpen)

-----------------------------------------------------------------------------
(* Statements of the spec that the code does not meet.                    *)

(* Before its hello the connection answers no command but hello and ping  *)
(* (spec invariant 1, scenario S5).                                       *)
AnonymousOnlyHelloPing ==
    \A i \in 1..Len(out) :
        out[i].type \in {"register", "unregister", "purge", "notification"}
            => \E j \in 1..(i - 1) : out[j].type = "hello"

(* A hello suggesting a well-formed id that is known to the Store, not    *)
(* held by another worker and sent with at most maxChannels channels      *)
(* keeps that id (spec 4.4, steps 8 and 9).                               *)
HelloKeepsKnownID ==
    [][ /\ frames' = frames + 1
        /\ frame'.kind = "hello"
        /\ uaid = NoUAID
        /\ frame'.uaid \in UAID \ Elsewhere
        /\ frame'.chids \in 1..MaxChannels
        /\ Exists(frame'.uaid)
        => uaid' = frame'.uaid
      ]_vars

(* Every hello reply names the device id the socket is bound to: a forced *)
(* reset answers with a freshly generated id (spec 4.4, registerDevice).  *)
HelloReplyNamesID == \A i \in 1..Len(out) : out[i].type = "hello" => out[i].uaid # NoUAID

(* The client hears the hello reply before any notification: a flush     *)
(* completes after the hello that triggered it, and the socket is owned   *)
(* by its worker alone (spec 4.4 registerDevice, spec 5).  The server's  *)
(* goroutine may call Flush as soon as HandleCommand has registered the  *)
(* worker, before the loop has written the reply.                        *)
NotificationAfterHello ==
    \A i \in 1..Len(out) :
        out[i].type = "notification" => \E j \in 1..(i - 1) : out[j].type = "hello"

(* The hello timer closes the socket only while it has no device id      *)
(* (spec 5: "closes the socket iff still anonymous at fire; cancellation  *)
(* after success is a no-op").  The callback reads sock.Uaid and closes  *)
(* in two steps, and a hello may complete between them.                  *)
BoundNotReaped == [][timer = "closing" /\ timer' = "done" => uaid = NoUAID]_vars
=============================================================================
