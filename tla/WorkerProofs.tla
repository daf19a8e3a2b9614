----------------------------- MODULE WorkerProofs -----------------------------
(***************************************************************************)
(* Proofs about the Worker for every set of ids and channels and every    *)
(* value of the bounds: a bound device id is never replaced, and the      *)
(* pings the worker answers are at least pingInt apart.                   *)
(***************************************************************************)
EXTENDS Worker, TLAPS

(* The steps that leave the ping state (lastPing, the clock, the answered *)
(* pings) and the device id alone.                                        *)
Quiet ==
    \/ RecvEmpty \/ RecvMalformed \/ RecvTypeError \/ Unknown \/ Purge
    \/ HelloReply \/ Register \/ Unregister \/ Ack \/ ReceiveError \/ RunExit
    \/ TimerFire \/ TimerClose \/ NewUpdate \/ ServerFlush

LEMMA QuietSteps == Quiet => UNCHANGED <<uaid, lastPing, now, pongs>>
BY DEF Quiet, RecvEmpty, RecvMalformed, RecvTypeError, Unknown, Purge,
       HelloReply, Register, Unregister, Ack, ReceiveError, RunExit,
       TimerFire, TimerClose, NewUpdate, ServerFlush

LEMMA NextSplit == Next <=> Quiet \/ Ping \/ Hello \/ Tick
BY DEF Next, Quiet

(* A second hello keeps the id already bound: NewUAID tests sock.Uaid     *)
(* before any reset (worker.go:322-331).                                  *)
LEMMA HelloKeepsBound == Hello /\ uaid # NoUAID => uaid' = uaid
<1>. SUFFICES ASSUME Hello, uaid # NoUAID PROVE uaid' = uaid
    OBVIOUS
<1>1. PICK f \in HelloFrames : Hello!(f)
    BY DEF Hello
<1>. QED
    BY <1>1 DEF NewUAID

(* Once a device id is bound to the socket no step of the worker, of its  *)
(* hello timer or of the server's goroutine replaces it (spec invariant   *)
(* 2, property 8).                                                        *)
THEOREM UaidStableHolds == Spec => UaidStable
<1>1. [Next]_vars => [uaid # NoUAID => uaid' = uaid]_uaid
    BY QuietSteps, NextSplit, HelloKeepsBound DEF Ping, Tick, vars
<1>. QED
    BY <1>1, PTL DEF Spec, UaidStable

-----------------------------------------------------------------------------
(* The ping state is well typed, the clock never runs behind lastPing,    *)
(* and lastPing is the last answered ping, never the zero time once a     *)
(* ping has been answered.                                                *)
PingInv ==
    /\ lastPing \in Nat
    /\ now \in Nat \ {0}
    /\ pongs \in Seq(Nat)
    /\ lastPing <= now
    /\ pongs # <<>> => lastPing = pongs[Len(pongs)] /\ lastPing # 0
    /\ PingSpacing

LEMMA InitPingInv == Init => PingInv
BY DEF Init, PingInv, PingSpacing

LEMMA PingStep ==
    ASSUME PingInv, Ping
    PROVE  PingInv'
<1>1. /\ ~TooSoon => lastPing' = now /\ pongs' = Append(pongs, now)
      /\ TooSoon => UNCHANGED <<lastPing, pongs>>
      /\ now' = now
    BY DEF Ping
<1>2. CASE TooSoon
    BY <1>1, <1>2 DEF PingInv, PingSpacing
<1>3. CASE ~TooSoon
    <2>1. pongs # <<>> => now - pongs[Len(pongs)] >= PingInt
        BY <1>3, NumAssumption DEF TooSoon, PingInv
    <2>2. pongs' \in Seq(Nat) /\ Len(pongs') = Len(pongs) + 1
        BY <1>1, <1>3 DEF PingInv
    <2>3. \A i \in 1..Len(pongs) : pongs'[i] = pongs[i]
        BY <1>1, <1>3 DEF PingInv
    <2>4. pongs'[Len(pongs')] = now
        BY <1>1, <1>3 DEF PingInv
    <2>5. PingSpacing'
        <3>. SUFFICES ASSUME NEW i \in 1..(Len(pongs') - 1)
                      PROVE  pongs'[i + 1] - pongs'[i] >= PingInt
            BY DEF PingSpacing
        <3>1. CASE i < Len(pongs)
            <4>1. i \in 1..(Len(pongs) - 1) /\ i + 1 \in 1..Len(pongs)
                BY <2>2, <3>1 DEF PingInv
            <4>2. pongs'[i + 1] = pongs[i + 1] /\ pongs'[i] = pongs[i]
                BY <2>3, <4>1
            <4>. QED
                BY <4>1, <4>2 DEF PingInv, PingSpacing
        <3>2. CASE i = Len(pongs)
            <4>1. pongs # <<>> /\ i \in 1..Len(pongs)
                BY <2>2, <3>2 DEF PingInv
            <4>2. pongs'[i + 1] = now /\ pongs'[i] = pongs[Len(pongs)]
                BY <2>2, <2>3, <2>4, <3>2, <4>1
            <4>. QED
                BY <2>1, <4>1, <4>2
        <3>. QED
            BY <2>2, <3>1, <3>2 DEF PingInv
    <2>. QED
        BY <1>1, <1>3, <2>2, <2>4, <2>5 DEF PingInv
<1>. QED
    BY <1>2, <1>3

LEMMA NextPingInv == PingInv /\ [Next]_vars => PingInv'
<1>. SUFFICES ASSUME PingInv, [Next]_vars PROVE PingInv'
    OBVIOUS
<1>1. CASE Ping
    BY <1>1, PingStep
<1>2. CASE Tick
    BY <1>2 DEF Tick, PingInv, PingSpacing
<1>3. CASE Quiet \/ Hello \/ UNCHANGED vars
    <2>1. UNCHANGED <<lastPing, now, pongs>>
        BY <1>3, QuietSteps DEF Hello, vars
    <2>. QED
        BY <2>1 DEF PingInv, PingSpacing
<1>. QED
    BY <1>1, <1>2, <1>3, NextSplit

(* Any two pings the worker answers are at least pingInt apart, for every *)
(* pingInt, clock bound and number of frames: Ping refuses a ping closer  *)
(* than pingInt to lastPing, and sets lastPing on every ping it answers   *)
(* (worker.go:645-664; spec property 5).                                  *)
THEOREM PingSpacingHolds == Spec => []PingSpacing
<1>1. Spec => []PingInv
    BY InitPingInv, NextPingInv, PTL DEF Spec
<1>. QED
    BY <1>1, PTL DEF PingInv
-----------------------------------------------------------------------------
(* Type correctness.  The replies written to the socket.                  *)
Reply == [type : {"hello", "register", "unregister", "notification",
                  "pong", "purge", "error"},
          uaid : DeviceID, err : ErrName, chans : SUBSET Chan]

(* A reply written by websocket.JSON.Send keeps the socket's log typed.  *)
LEMMA SendType ==
    ASSUME NEW o \in Seq(Reply), NEW m \in Reply
    PROVE  Send(o, m) \in Seq(Reply)
BY DEF Send

(* handleError's envelope and the stopped latch.                          *)
LEMMA FailType ==
    ASSUME TypeOK, NEW e \in ErrName, Fail(e)
    PROVE  out' \in Seq(Reply) /\ stopped' \in BOOLEAN
<1>1. ErrorReply(e) \in Reply
    BY IdAssumption DEF ErrorReply, Msg, Reply, DeviceID
<1>2. out \in Seq(Reply)
    BY DEF TypeOK, Reply
<1>. QED
    BY <1>1, <1>2, SendType DEF Fail

(* Worker.Flush writes at most one notification after the replies o.      *)
LEMMA FlushType ==
    ASSUME TypeOK, NEW u \in DeviceID, NEW o \in Seq(Reply),
           NEW p \in [DeviceID -> SUBSET Chan], Flush(u, o, p)
    PROVE  out' \in Seq(Reply) /\ stopped' \in BOOLEAN
<1>1. /\ ErrorReply("StoreErr") \in Reply
      /\ Msg("notification", u, "none", p[u]) \in Reply
    BY IdAssumption DEF ErrorReply, Msg, Reply, DeviceID, ErrName
<1>. QED
    BY <1>1, SendType DEF Flush, TypeOK

(* The fields of the frames the loop receives.                            *)
LEMMA HelloFields ==
    \A f \in HelloFrames : f.kind = "hello" /\ f.uaid \in UAID \cup {NoUAID, BadUAID, Absent}
BY DEF HelloFrames, Req

LEMMA AckFields ==
    \A f \in AckFrames : f.kind = "ack" /\ f.upd \subseteq Chan /\ f.exp \subseteq Chan
BY DEF AckFrames, Req

LEMMA ChanFields ==
    /\ \A f \in RegisterFrames : f.kind = "register" /\ f.chan \in Chan \cup {BadChan}
    /\ \A f \in UnregisterFrames : f.kind = "unregister" /\ f.chan \in Chan \cup {NoChan}
BY DEF RegisterFrames, UnregisterFrames, Req

(* Every frame the loop receives is one of the frames the model lists.   *)
LEMMA FramesType ==
    /\ HelloFrames \subseteq Frame /\ RegisterFrames \subseteq Frame
    /\ UnregisterFrames \subseteq Frame /\ AckFrames \subseteq Frame
    /\ \A k \in {"empty", "badpayload", "syntax", "typeerr", "ping", "purge",
                 "unknown"} : Bare(k) \in Frame
BY DEF Frame

(* The id sock.Uaid takes in Hello is a device id: a refused suggestion   *)
(* (absent or invalid) never gets past HelloErr.                          *)
LEMMA NewUAIDType ==
    ASSUME TypeOK, NEW f \in HelloFrames, HelloErr(f) = "none"
    PROVE  NewUAID(f) \subseteq DeviceID
<1>1. f.uaid \in UAID \cup {NoUAID, BadUAID, Absent}
    BY HelloFields
<1>2. uaid = NoUAID => f.uaid \notin {BadUAID, Absent}
    BY DEF HelloErr
<1>. QED
    BY <1>1, <1>2 DEF NewUAID, DeviceID, TypeOK

LEMMA InitTypeOK == Init => TypeOK
<1>. SUFFICES ASSUME Init PROVE TypeOK
    OBVIOUS
<1>1. uaid \in DeviceID /\ lastPing \in 0..MaxTime /\ now \in 1..MaxTime
    BY NumAssumption DEF Init, DeviceID
<1>2. chans \in [DeviceID -> SUBSET Chan] /\ pending \in [DeviceID -> SUBSET Chan]
    BY DEF Init
<1>3. out \in Seq(Reply) /\ pongs \in Seq(1..MaxTime)
    BY DEF Init
<1>4. frames \in 0..MaxFrames /\ srvFlushes \in 0..MaxServerFlushes
    BY NumAssumption DEF Init
<1>. QED
    BY <1>1, <1>2, <1>3, <1>4 DEF Init, TypeOK, Reply

(* A loop iteration that reads frame f keeps the frame counter in bounds. *)
LEMMA ReceiveType ==
    ASSUME TypeOK, NEW f \in Frame, Receive(f)
    PROVE  frames' \in 0..MaxFrames /\ frame' \in Frame \cup {Blank}
BY NumAssumption DEF Receive, TypeOK

(* The replies of the handlers that write one without an error.           *)
LEMMA RepliesType ==
    /\ Msg("pong", NoUAID, "none", {}) \in Reply
    /\ Msg("purge", NoUAID, "none", {}) \in Reply
    /\ \A u \in DeviceID : Msg("hello", u, "none", {}) \in Reply
    /\ \A u \in DeviceID, c \in Chan :
          /\ Msg("register", u, "none", {c}) \in Reply
          /\ Msg("unregister", NoUAID, "none", {c}) \in Reply
          /\ Msg("notification", u, "none", {c}) \in Reply
BY DEF Msg, Reply, ErrName, DeviceID

LEMMA NextTypeOK == TypeOK /\ [Next]_vars => TypeOK'
<1>. SUFFICES ASSUME TypeOK, [Next]_vars PROVE TypeOK'
    OBVIOUS
<1>. USE NumAssumption
<1>0. TypeOK' <=> /\ out' \in Seq(Reply)
                  /\ (TypeOK!1 /\ TypeOK!2 /\ TypeOK!3 /\ TypeOK!4 /\ TypeOK!5
                      /\ TypeOK!6 /\ TypeOK!7 /\ TypeOK!8 /\ TypeOK!9 /\ TypeOK!10
                      /\ TypeOK!12 /\ TypeOK!13 /\ TypeOK!14 /\ TypeOK!15
                      /\ TypeOK!16)'
    BY DEF TypeOK, Reply
<1>a. out \in Seq(Reply)
    BY DEF TypeOK, Reply
<1>e. /\ "UnknownCommand" \in ErrName /\ "TooManyPings" \in ErrName
      /\ "InvalidCommand" \in ErrName /\ "InvalidParams" \in ErrName
      /\ "NoParams" \in ErrName /\ "StoreErr" \in ErrName /\ "WriteErr" \in ErrName
    BY DEF ErrName
<1>1. CASE RecvEmpty \/ RecvMalformed
    <2>1. \E k \in {"empty", "badpayload", "syntax"} : Receive(Bare(k))
        BY <1>1 DEF RecvEmpty, RecvMalformed
    <2>2. frames' \in 0..MaxFrames /\ frame' \in Frame \cup {Blank}
        BY <2>1, ReceiveType, FramesType
    <2>. QED
        BY <1>1, <2>2, <1>0, <1>a DEF RecvEmpty, RecvMalformed, TypeOK, srvVars, storeVars
<1>2. CASE RecvTypeError \/ Unknown
    <2>1. \E k \in {"typeerr", "unknown"} : Receive(Bare(k))
        BY <1>2 DEF RecvTypeError, Unknown
    <2>2. frames' \in 0..MaxFrames /\ frame' \in Frame \cup {Blank}
        BY <2>1, ReceiveType, FramesType
    <2>3. out' \in Seq(Reply) /\ stopped' \in BOOLEAN
        BY <1>2, <1>e, FailType DEF RecvTypeError, Unknown
    <2>. QED
        BY <1>2, <2>2, <2>3, <1>0 DEF RecvTypeError, Unknown, TypeOK, srvVars, storeVars
<1>3. CASE Ping
    <2>1. frames' \in 0..MaxFrames /\ frame' \in Frame \cup {Blank}
        BY <1>3, ReceiveType, FramesType DEF Ping
    <2>2. out' \in Seq(Reply) /\ stopped' \in BOOLEAN
        BY <1>3, <1>a, <1>e, RepliesType, FailType, SendType DEF Ping, TypeOK
    <2>3. lastPing' \in 0..MaxTime /\ pongs' \in Seq(1..MaxTime)
        <3>1. now \in 1..MaxTime /\ pongs \in Seq(1..MaxTime) /\ lastPing \in 0..MaxTime
            BY DEF TypeOK
        <3>2. \/ lastPing' = now /\ pongs' = Append(pongs, now)
              \/ lastPing' = lastPing /\ pongs' = pongs
            BY <1>3 DEF Ping
        <3>. QED
            BY <3>1, <3>2
    <2>. QED
        BY <1>3, <2>1, <2>2, <2>3, <1>0 DEF Ping, TypeOK, srvVars, storeVars
<1>4. CASE Purge
    <2>1. frames' \in 0..MaxFrames /\ frame' \in Frame \cup {Blank}
        BY <1>4, ReceiveType, FramesType DEF Purge
    <2>2. out' \in Seq(Reply)
        BY <1>4, <1>a, RepliesType, SendType DEF Purge
    <2>. QED
        BY <1>4, <2>1, <2>2, <1>0 DEF Purge, TypeOK, srvVars, storeVars
<1>5. CASE Hello
    <2>1. PICK f \in HelloFrames : Hello!(f)
        BY <1>5 DEF Hello
    <2>2. frames' \in 0..MaxFrames /\ frame' \in Frame \cup {Blank}
        BY <2>1, ReceiveType, FramesType
    <2>3. CASE HelloErr(f) # "none"
        <3>1. HelloErr(f) \in ErrName
            BY DEF HelloErr, ErrName
        <3>2. out' \in Seq(Reply) /\ stopped' \in BOOLEAN
            BY <2>1, <2>3, <3>1, FailType
        <3>. QED
            BY <2>1, <2>2, <2>3, <3>2, <1>0 DEF TypeOK, storeVars
    <2>4. CASE HelloErr(f) = "none"
        <3>1. uaid' \in DeviceID
            BY <2>1, <2>4, NewUAIDType
        <3>2. chans' \in [DeviceID -> SUBSET Chan] /\ pending' \in [DeviceID -> SUBSET Chan]
            BY <2>1, <2>4 DEF TypeOK
        <3>. QED
            BY <2>1, <2>2, <2>4, <3>1, <3>2, <1>0, <1>a DEF TypeOK
    <2>. QED
        BY <2>3, <2>4
<1>6. CASE HelloReply
    <2>1. Append(out, Msg("hello", uaid, "none", {})) \in Seq(Reply)
        BY <1>a, RepliesType DEF TypeOK
    <2>2. out' \in Seq(Reply) /\ stopped' \in BOOLEAN
        BY <1>6, <1>e, <2>1, FlushType, FailType DEF HelloReply, TypeOK
    <2>. QED
        BY <1>6, <2>2, <1>0 DEF HelloReply, TypeOK, srvVars, storeVars
<1>7. CASE Register
    <2>1. PICK f \in RegisterFrames : Register!(f)
        BY <1>7 DEF Register
    <2>2. frames' \in 0..MaxFrames /\ frame' \in Frame \cup {Blank}
        BY <2>1, ReceiveType, FramesType
    <2>3. out' \in Seq(Reply) /\ stopped' \in BOOLEAN
        BY <2>1, <1>a, <1>e, RepliesType, FailType, SendType DEF TypeOK
    <2>4. chans' \in [DeviceID -> SUBSET Chan] /\ pending' \in [DeviceID -> SUBSET Chan]
        BY <2>1 DEF TypeOK, storeVars
    <2>. QED
        BY <2>1, <2>2, <2>3, <2>4, <1>0 DEF TypeOK, srvVars
<1>8. CASE Unregister
    <2>1. PICK f \in UnregisterFrames : Unregister!(f)
        BY <1>8 DEF Unregister
    <2>2. frames' \in 0..MaxFrames /\ frame' \in Frame \cup {Blank}
        BY <2>1, ReceiveType, FramesType
    <2>3. out' \in Seq(Reply) /\ stopped' \in BOOLEAN
        BY <2>1, <1>a, <1>e, RepliesType, FailType, SendType DEF TypeOK
    <2>4. chans' \in [DeviceID -> SUBSET Chan] /\ pending' \in [DeviceID -> SUBSET Chan]
        BY <2>1 DEF TypeOK, storeVars
    <2>. QED
        BY <2>1, <2>2, <2>3, <2>4, <1>0 DEF TypeOK, srvVars
<1>9. CASE Ack
    <2>1. PICK f \in AckFrames : Ack!(f)
        BY <1>9 DEF Ack
    <2>2. frames' \in 0..MaxFrames /\ frame' \in Frame \cup {Blank}
        BY <2>1, ReceiveType, FramesType
    <2>3. f.upd \subseteq Chan /\ f.exp \subseteq Chan
        BY AckFields
    <2>4. pending' \in [DeviceID -> SUBSET Chan] /\ chans' \in [DeviceID -> SUBSET Chan]
        BY <2>1, <2>3 DEF TypeOK, storeVars
    <2>5. out' \in Seq(Reply) /\ stopped' \in BOOLEAN
        BY <2>1, <2>4, <1>a, <1>e, FailType, FlushType DEF TypeOK
    <2>. QED
        BY <2>1, <2>2, <2>4, <2>5, <1>0 DEF TypeOK, srvVars
<1>10. CASE ReceiveError \/ RunExit
    BY <1>10, <1>0, <1>a DEF ReceiveError, RunExit, TypeOK, srvVars, storeVars
<1>13. CASE TimerFire \/ TimerClose
    BY <1>13, <1>0, <1>a DEF TimerFire, TimerClose, TypeOK, srvVars, storeVars
<1>14. CASE Tick
    BY <1>14, <1>0, <1>a DEF Tick, TypeOK, srvVars, storeVars
<1>15. CASE NewUpdate
    <2>1. PICK u \in DeviceID, c \in Chan :
              /\ c \in chans[u] \ pending[u]
              /\ pending' = [pending EXCEPT ![u] = @ \cup {c}]
        BY <1>15 DEF NewUpdate
    <2>2. pending' \in [DeviceID -> SUBSET Chan]
        BY <2>1 DEF TypeOK
    <2>. QED
        BY <1>15, <2>2, <1>0, <1>a DEF NewUpdate, TypeOK, srvVars
<1>11. CASE ServerFlush
    <2>1. out' \in Seq(Reply)
        BY <1>11, <1>a, RepliesType, SendType DEF ServerFlush, TypeOK
    <2>2. srvFlushes' \in 0..MaxServerFlushes
        BY <1>11 DEF ServerFlush, TypeOK
    <2>3. stopped' \in BOOLEAN
        BY <1>11 DEF ServerFlush, TypeOK
    <2>. QED
        BY <1>11, <2>1, <2>2, <2>3, <1>0 DEF ServerFlush, TypeOK, storeVars
<1>12. CASE UNCHANGED vars
    BY <1>12, <1>0, <1>a DEF vars, TypeOK
<1>. QED
    BY <1>1, <1>2, <1>3, <1>4, <1>5, <1>6, <1>7, <1>8, <1>9, <1>10, <1>11, <1>12,
       <1>13, <1>14, <1>15 DEF Next

(* The worker's state stays well typed for every set of ids and channels  *)
(* and every bound: in particular the clock and the frame counter stay    *)
(* within their bounds, sock.Uaid is always a device id (never the        *)
(* invalid or absent suggestion a hello carried), and every reply written *)
(* is one of the protocol's messages.                                     *)
THEOREM TypeCorrect == Spec => []TypeOK
BY InitTypeOK, NextTypeOK, PTL DEF Spec
-----------------------------------------------------------------------------
(* The flush that ends a hello or an ack.                                 *)

(* A bulk flush that neither stops the loop nor writes on a closed socket *)
(* appends the notification of what p holds for u, if anything.          *)
LEMMA FlushResult ==
    ASSUME NEW u, NEW o \in Seq(Reply), NEW p, sockOpen, Flush(u, o, p), ~stopped'
    PROVE  out' = IF p[u] = {} THEN o
                  ELSE Append(o, Msg("notification", u, "none", p[u]))
BY DEF Flush, Send

(* Only HelloReply takes the loop from "hello" back to "loop", and only   *)
(* Ack receives a frame of kind "ack".                                    *)
LEMMA FlushedSteps ==
    ASSUME TypeOK, [Next]_vars,
           \/ pc = "hello" /\ pc' = "loop"
           \/ frames' = frames + 1 /\ frame'.kind = "ack"
    PROVE  HelloReply \/ Ack
<1>. USE NumAssumption
<1>0. frames \in Nat
    BY DEF TypeOK
<1>1. ~(RecvEmpty \/ RecvMalformed \/ RecvTypeError \/ Unknown \/ Ping \/ Purge)
    BY <1>0 DEF RecvEmpty, RecvMalformed, RecvTypeError, Unknown, Ping, Purge,
       Receive, Bare, Req
<1>2. ~Hello
    BY <1>0, HelloFields DEF Hello, Receive
<1>3. ~(Register \/ Unregister)
    BY <1>0, ChanFields DEF Register, Unregister, Receive
<1>4. ~(ReceiveError \/ RunExit \/ TimerFire \/ TimerClose \/ Tick \/ NewUpdate
        \/ ServerFlush \/ UNCHANGED vars)
    BY <1>0 DEF ReceiveError, RunExit, TimerFire, TimerClose, Tick, NewUpdate,
       ServerFlush, vars
<1>. QED
    BY <1>1, <1>2, <1>3, <1>4 DEF Next

LEMMA FlushedStepHolds == TypeOK /\ [Next]_vars => [FlushedStep]_vars
<1>. SUFFICES ASSUME TypeOK, [Next]_vars,
                     \/ pc = "hello" /\ pc' = "loop"
                     \/ frames' = frames + 1 /\ frame'.kind = "ack",
                     ~stopped', sockOpen
              PROVE  IF pending'[uaid'] = {}
                     THEN Len(out') = Len(out) + IF pc = "hello" /\ pc' = "loop" THEN 1 ELSE 0
                     ELSE out'[Len(out')] = Msg("notification", uaid', "none", pending'[uaid'])
    BY DEF FlushedStep
<1>0. out \in Seq(Reply)
    BY DEF TypeOK, Reply
<1>1. CASE HelloReply
    <2>1. Append(out, Msg("hello", uaid, "none", {})) \in Seq(Reply)
        BY <1>0, RepliesType DEF TypeOK
    <2>2. Flush(uaid, Append(out, Msg("hello", uaid, "none", {})), pending)
        BY <1>1 DEF HelloReply
    <2>3. out' = IF pending[uaid] = {} THEN Append(out, Msg("hello", uaid, "none", {}))
                 ELSE Append(Append(out, Msg("hello", uaid, "none", {})),
                             Msg("notification", uaid, "none", pending[uaid]))
        BY <2>1, <2>2, FlushResult
    <2>4. pc = "hello" /\ pc' = "loop" /\ pending' = pending /\ uaid' = uaid
        BY <1>1 DEF HelloReply, storeVars
    <2>. QED
        BY <1>0, <2>3, <2>4
<1>2. CASE Ack
    <2>1. PICK f \in AckFrames : Ack!(f)
        BY <1>2 DEF Ack
    <2>2. pc = "loop" /\ pc' = "loop" /\ uaid' = uaid
        BY <2>1 DEF Receive
    <2>3. CASE uaid = NoUAID \/ f.upd = {}
        BY <2>1, <2>3 DEF Fail
    <2>4. CASE uaid # NoUAID /\ f.upd # {}
        <3>1. /\ Flush(uaid, out, pending')
              /\ pending' = [pending EXCEPT ![uaid] = @ \ (f.upd \cup f.exp)]
            BY <2>1, <2>4 DEF Fail
        <3>2. out' = IF pending'[uaid] = {} THEN out
                     ELSE Append(out, Msg("notification", uaid, "none", pending'[uaid]))
            BY <1>0, <3>1, FlushResult
        <3>. QED
            BY <1>0, <2>2, <3>2
    <2>. QED
        BY <2>3, <2>4
<1>. QED
    BY <1>1, <1>2, FlushedSteps

(* A hello or an ack that completes without error on an open socket      *)
(* leaves the client holding exactly the updates the Store holds for the *)
(* device after the handler's own DropAll or Drops: the trailing Flush   *)
(* reads the Store after them (worker.go:413-414, 459; spec invariant 5). *)
THEOREM FlushSendsPendingHolds == Spec => FlushSendsPending
<1>1. TypeOK /\ [Next]_vars => [FlushedStep]_vars
    BY FlushedStepHolds
<1>. QED
    BY <1>1, TypeCorrect, PTL DEF Spec, FlushSendsPending
=============================================================================
