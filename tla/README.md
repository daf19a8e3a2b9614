# TLA+ models of pushgo's connection layer

This directory holds TLA+ specifications of two files of the SimplePush
server in `src/src/github.com/mozilla-services/pushgo/simplepush/`:

- `net.go`: the admission-control listener.
- `worker.go`: the per-connection protocol worker.

Each part also has TLC configurations that model-check it on small instances
and TLAPS proofs of its key invariants.

## 1. The system and its parts

| Part | Source | State | Operations | Module |
|---|---|---|---|---|
| LimitListener | net.go 94-187 | atomic counter `conns`, `closeOnce`, each `limitConn`'s `removeOnce` | `Accept`, `Close`, `limitConn.Close`, `addConn`, `removeConn`, `ConnCount` | `LimitListener` (proofs in `LimitListenerProofs`); abstract spec `Admission`, refinement proved in `AdmissionProofs` |
| Worker | worker.go 93-676 | `stopped`, `state`, `lastPing`, `sock.Uaid`, the socket, the hello timer | `sniffer` loop, `Hello`, `Register`, `Unregister`, `Ack`, `Ping`, `Purge`, `Flush`, `handleError`, `Run` and its `time.AfterFunc`; `Flush` called by the server goroutine | `Worker` (proofs in `WorkerProofs`); `AckVersions` for the Store's versions on the ack and flush paths |
| isPingBody | worker.go 678-703 | loop indices and brace counters | one byte per step | `PingBody` (proofs in `PingBodyProofs`) |
| Listen, ListenTLS, newTLSListener | net.go | none beyond building a LimitListener | socket and TLS setup | not modelled (I/O) |
| HostPort, CanonicalURL, ParseRetryAfter | net.go | none | string formatting and parsing | not modelled |
| MockBalancer | net.go | mock | generated test code | not modelled |
| Store, Router, id, Application | not in src/ | external | called by the Worker | abstracted inside `Worker` |

**How the parts interact.** The HTTP server calls `LimitListener.Accept` and
serves each accepted `limitConn` as a websocket. The server runs one
`Worker.Run` per socket. Run does two things:

- It starts a hello timer goroutine that closes the socket if `sock.Uaid` is
  still empty when the timer fires.
- It runs `sniffer`, the receive loop.

When the loop stops, Run closes the socket. That close is the
`limitConn.Close` that gives the listener's slot back.

Several goroutines can close the same `limitConn`: the timer, Run, the panic
recovery and the HTTP server. The listener's counter is correct only because
`removeOnce` makes the decrement run once.

**The hard behaviours:**

- Concurrent `Accept` callers.
- Racing `Close` calls on one connection.
- A failing socket close.
- The hello timer reading `sock.Uaid` without synchronisation while the loop
  writes it.
- Store failures partway through a handler.
- New updates arriving between frames.
- The server goroutine calling `Flush` for a targeted notification while the
  worker's own loop is inside `Hello`.
- An ack naming an old version while the Store holds a newer one.
- The client hanging up at any point.

## 2. Modules and how they correspond to the code

### `LimitListener` (net.go)

**State:**

- `conns` is the atomic counter.
- `lnClosed` is `closeOnce.IsDone()`.
- `sock[c]` is the state of each underlying socket: new, open or closed.
- `added[c]` says `addConn` has run and the socket is wrapped.
- `removed[c]` says `removeOnce` has run.
- `closeCalls[c]` and `closing[c]` track the `limitConn.Close` calls that are
  in progress.
- `acc[a]` is the program point of each `Accept` goroutine.

**`Accept`** is three steps, because the goroutine may be preempted between
its check and its increment and blocks in the underlying Accept:

1. The early returns. `AcceptClosed` handles lines 167-171. `AcceptBusy`
   handles lines 172-174. `AcceptProceed` passes both.
2. The underlying Accept (lines 175-178). `AcceptSocket` takes a socket;
   `AcceptError` is the failure once the listener is closed.
3. `AcceptAdmit`: `setKeepAlive` and `addConn` (lines 179-181).

**`Close`** is `closeOnce.Do`.

**`limitConn.Close`** is two steps:

- `ConnCloseBegin` is the socket close. Its error is a nondeterministic
  choice, and from the second call on it is always an error.
- `ConnCloseRemove` is `removeOnce.Do(removeConn)`.

Keep-alive tuning changes no modelled state.

### `Admission` (the abstract specification of the listener)

`Admission` states what the listener promises its server, without the
counter or the once-guards:

- `held` is the set of connections admitted and not released.
- `served` is the set of connections ever admitted.
- `closed` says the listener has been closed.

`Admit(c)` takes a connection never served while fewer than `MaxConns` are
held. `Release(c)` gives one back. `Close` closes the listener.

`LimitListener` defines `Abs == INSTANCE Admission WITH held <- Counted,
served <- Wrapped, closed <- lnClosed`. Under this mapping:

- `AcceptAdmit` is `Admit`.
- The `ConnCloseRemove` that runs `removeConn` is `Release`.
- `Close` is `Close`.
- Every other step is a stutter.

`AdmissionRefined == Abs!Spec` is checked by the `listener` run. It is
proved in `AdmissionProofs` for one Accept goroutine.

### `Worker` (worker.go)

**State:**

- `pc` is the loop's program point.
- `stopped`, `state`, `uaid` (`sock.Uaid`), `lastPing` and `sockOpen` are the
  worker's fields and the socket. `state` is written (Active at
  worker.go:99 and after each hello) but no code in worker.go reads it, so
  no property is stated about it.
- `now` is the clock.
- `timer` tracks the AfterFunc goroutine: armed, closing or done.
- `frames` counts the frames received. `frame` is the last one.
- `out` is the sequence of messages written to the socket. `pongs` holds the
  times of the pings that were answered.
- The Store is abstracted as `chans[u]` (registered channels) and
  `pending[u]` (updates not yet acknowledged).
- `routed` says that `HandleCommand(HELLO)` has registered the worker with
  the server. `srvFlushes` counts the `Flush` calls the server's goroutine
  has made.

A frame is a record. Its kind is the message type, or one of the sniffer's
failure classes: empty, bad payload, syntax error, type error, unknown. Its
fields are drawn from small sets of valid, invalid and absent values. JSON
decoding is modelled by its outcome. A reply is a record of type, device id,
error and channels.

**One action per loop iteration.** Each action is the sniffer's whole
iteration: receive, classify, dispatch to the handler, handle the error and
set `stopped`. A handler's trailing `Flush` is part of its action.

- `RecvEmpty`, `RecvMalformed` and `RecvTypeError` are the sniffer's early
  exits.
- `Unknown` is the default branch.
- `Ping`, `Purge`, `Hello`, `Register`, `Unregister` and `Ack` are the
  handlers.
- `ReceiveError` is a failed Receive: the client hung up, or the timer closed
  the socket.
- `RunExit` is the sniffer's return plus Run's close.

**Hello** follows the code's order of tests:

1. The request must decode (`HelloErr`).
2. The channel list is validated.
3. A bound socket keeps its id.
4. An empty or invalid suggested id is replaced.
5. `ClientExists` causes a reset.
6. Too many channels: `DropAll`, then a reset.
7. `!Exists(sock.Uaid)` with channels causes a reset. The code tests the
   socket's id here, which is still empty.
8. `id.Generate`, whose error is ignored (`NewUAID`).
9. The router registration.
10. The reply.
11. The flush.

Steps 1 to 9 are the action `Hello`. It ends with `routed` set and `pc` at
"hello". Steps 10 and 11 are `HelloReply`. The split is at the
`HandleCommand` call (line 394): from that call on, the server knows the
worker.

**ServerFlush** is `Worker.Flush(sock, 0, channel, version)` called by the
server's goroutine for a targeted notification once the worker is routed
(lines 585-594, 614-622, 641). It runs concurrently with the loop:

- With an empty `sock.Uaid` it sets `stopped`.
- Otherwise it writes one notification.

It is bounded by `MaxServerFlushes`.

**The timer** is two steps, `TimerFire` (the read, line 235) and
`TimerClose` (line 240), because the read and the close are separate.

**Clock and updates.** `Tick` advances the clock. `NewUpdate` is an update
written for a registered channel by another server through the Store. Both
are modelled from the spec, because their code is not under `src/`.

### `AckVersions` (worker.go, Ack and Flush with versions)

`AckVersions` models one bound connection's ack and flush paths with the
versions the Store keeps:

- `latest[c]` is the last version stored for channel `c`.
- `stored[c]` is the pending version, or 0.
- `out` is the notifications written, as sets of channel and version pairs.
- `ack` is the last ack frame handled.

The actions are:

- `Ack` is the whole handler. It covers `ErrNoParams`, the two Drop loops
  (by channel id only), a Drop failing partway, and the bulk flush.
- `StoreUpdate` is another server storing a newer version. It is modelled
  from the spec.
- `ServerFlush` is the targeted flush carrying the stored version.

The client acknowledges only pairs it has received. This module has a
violation run only: every delivery property fails on the same bug.

### `PingBody` (worker.go 678-703)

`isPingBody` as the loop it is:

- `Fast` is the early exit for frames shorter than two bytes and for `{}`.
- `ScanByte` handles one byte per step and may break out early.
- `Verdict` is the final test.

`Classify` is a reference definition written from spec 4.2. It is stated
over the whole frame, by counting the braces (`Count`), not as a loop.
`NonBlank` uses `SelectSeq` to state the function comment's reading: the
frame without its whitespace. The bytes `'{'` and `'}'` are the labels
`LBrace` and `RBrace`.

### MC modules

`MC_LimitListener`, `MC_Worker`, `MC_AckVersions` and `MC_PingBody` give the constants small
model-value sets.

## 3. Runs

| Run | Cfg | Expect | What it shows |
|---|---|---|---|
| `listener` | `MC_LimitListener.cfg` | pass | 3 sockets, 1 acceptor, MaxConns 2, 2 Close calls per connection. `CountMatchesWrappers`: the counter equals the wrapped connections not yet removed. `AdmissionBound`: open sockets ≤ MaxConns. `ClosedEventuallyReleased`: every closed connection is eventually uncounted, even when its socket close failed. `AdmissionRefined`: the listener implements `Admission`. 2,946 states. |
| `listener_two_acceptors` | `MC_LimitListener_race.cfg` | violation | With two Accept goroutines, both pass the `ConnCount` check and three sockets are open under MaxConns 2. |
| `worker` | `MC_Worker.cfg` | pass | Two known ids (one shared with another node), one fresh id, one channel, MaxChannels 1, pingInt 2, hello timeout 2, clock up to 4, 3 frames, Store errors on, one server flush. `UaidStable`: a bound id never changes. `PingSpacing`: answered pings are at least pingInt apart. `FlushSendsPending`: a successful hello or ack is followed by exactly the pending updates. `AnonymousReaped`: a socket without an id is eventually closed. 629,615 states. |
| `worker_purge_anonymous` | `MC_Worker_AnonymousOnlyHelloPing.cfg` | violation | `Purge` answers before hello (worker.go:667). |
| `worker_hello_known_id` | `MC_Worker_HelloKeepsKnownID.cfg` | violation | A returning device with a stored id and channels is reset to a fresh id (worker.go:367). |
| `worker_generate_failure` | `MC_Worker_HelloReplyNamesID.cfg` | violation | The `id.Generate` failure is ignored, so the hello reply carries an empty uaid (worker.go:378). |
| `worker_server_flush_before_hello` | `MC_Worker_NotificationAfterHello.cfg` | violation | After `Hello` has registered the worker, the server's `Flush` writes a notification before the hello reply (worker.go:394). |
| `worker_timer_reaps_bound` | `MC_Worker_BoundNotReaped.cfg` | violation | The timer reads an empty uaid, a hello binds an id and is answered, and the timer then closes the bound socket (worker.go:240). |
| `ack_drops_newer_version` | `MC_AckVersions_AckClearsReceived.cfg` | violation | Two channels, versions up to 2, 3 notifications. The client acks version 1, and the Store's version 2 is dropped without being sent (worker.go:445). |
| `pingbody` | `MC_PingBody.cfg` | pass | The loop agrees with the spec's classification on every frame of up to 4 bytes over `{`, `}`, space and `x`. 1,337 states. |
| `pingbody_comment` | `MC_PingBody_comment.cfg` | violation | The function's comment says "empty object literal", but `}` is taken for a ping. |

**Why the bounds are enough.**

- **Listener.** The counter and the once-guard are exercised by:
  - reaching the limit with 2 of 3 sockets;
  - a refusal;
  - re-admission after a close;
  - two Close calls racing on one connection, with one of them failing.
- **Worker.** Three frames allow hello followed by two more commands, a
  second hello, or a ping pair. pingInt 2 with a clock up to 4 puts pings on
  both sides of the boundary. MaxChannels 1 with one channel reaches the
  too-many-channels reset. Both values of the hello timer's read happen.
- **Every mutant is killed under these bounds** (PROJECT.json, `mutants`).
  - In the listener: the off-by-one admission test, a decrement without the
    once, and an early return on a close error. The off-by-one admission
    test also breaks `AdmissionRefined`.
  - In the worker: a ping that does not update `lastPing`, a reset taken
    before the bound-id test, a flush from stale pending updates, a timer
    callback that never reaches its `Close`, and a validation that adopts an invalid id.

**Fairness.**

- **Listener.** Only `ConnCloseRemove` is weakly fair: a goroutine inside
  `limitConn.Close` is not blocked between the close and `removeOnce.Do`.
- **Worker.**
  - `Tick` is weakly fair: time advances.
  - `TimerFire` and `TimerClose` are weakly fair: the AfterFunc goroutine is
    runnable once the timeout has passed.
  - `RunExit` is weakly fair: once stopped, the loop returns at its next
    test.
  - `HelloReply` is weakly fair: once `HandleCommand` has returned, the loop
    goroutine is not blocked before its write.
  - Frames arrive at the client's will, so receive actions get no fairness.

Deadlock checking is off for the worker and PingBody, because both really
stop: a finished loop, and a finished classification.

## 4. Findings

See PROJECT.json `findings`. In short:

- The listener's admission bound assumes a single Accept caller.
- Hello checks the wrong id for existence, so it resets every returning
  device that lists channels.
- A failed `id.Generate` yields a successful hello with no id.
- `Purge` is served before hello.
- `isPingBody` accepts one-byte frames and `}{` as pings, against its own
  comment.
- The server's targeted `Flush` can reach the client before the hello reply.
- The hello timer can close a socket whose hello has just succeeded.
- Ack drops a channel's newer version when the client acknowledges an older
  one.

## 5. What is proved

`LimitListenerProofs` proves, for every finite set of sockets, any set of
acceptors, any `MaxConns ∈ Nat` and any positive bound on Close calls:

- **`TypeCorrect`**: `Spec => []TypeOK`. The counter is never negative.
- **`CounterExact`**: `Spec => []CountMatchesWrappers`. The counter equals
  the number of wrapped connections whose `removeOnce` has not run.

**The inductive invariant.** `CountMatchesWrappers` is not inductive on its
own. The reason is the admit and remove steps:

- `AcceptAdmit` adds 1 to the counter. That keeps the equality only if the
  socket it wraps is not already counted.
- `ConnCloseRemove` subtracts 1 only on the first run. That keeps the
  equality only if a socket reaching the once-guard was wrapped.

`IInv` adds the facts that make both true:

- A socket held at the admit point is accepted, not wrapped, and held by no
  other acceptor.
- `removed` implies `added`.
- A close in progress is on a wrapped socket.

The proof is `InitIInv` and `NextIInv`, with one step per action. It uses
`FS_AddElement` and `FS_RemoveElement` for the cardinality, and combines the
two with PTL.

`AdmissionProofs` proves, under `SingleAcceptor` (all acceptors equal),
for every set of sockets and every `MaxConns`:

- **`AdmissionBoundHolds`**: `Spec => []AdmissionBound`.
- **`Refinement`**: `Spec => AdmissionRefined`.

The strengthening is `AInv`, which adds four facts to `IInv`:

- `Bound`: the counter is at most `MaxConns`.
- `Pending`: an acceptor past its check saw a free slot. Its increment is
  still to come, so the counter is below `MaxConns`.
- `ClosedFirst`: a connection in `limitConn.Close` or removed has its socket
  closed.
- `OpenOwned`: an open socket is wrapped, or held at the admit point.

`Pending` is what fails with two acceptors. The refinement's step lemma
`StepRefines` maps each action to `Admit`, `Release`, `Close` or a stutter.
The initial states map by definition. PTL combines the two with
`AInvHolds`.

`WorkerProofs` proves, for every set of ids and channels and every bound:

- **`UaidStableHolds`**: `Spec => UaidStable`. `Hello` keeps a bound id,
  because `NewUAID` tests it first. Every other step leaves `uaid` alone.
- **`PingSpacingHolds`**: `Spec => []PingSpacing`, through `PingInv`. That
  invariant says the clock never runs behind `lastPing`, and `lastPing` is
  the last answered ping and never 0 once a ping has been answered. Without
  it the rate-limit test would not bound the gap to the previous pong.
- **`TypeCorrect`**: `Spec => []TypeOK`. `NextTypeOK` has one case per
  action. It rests on lemmas for the reply builders (`SendType`,
  `FailType`, `FlushType`) and for the frames a client may send
  (`FramesType`). The error field ranges over `ErrName`, the errors the
  handlers return by name. The prover cannot show that a string literal is
  in `STRING`, so the set is written out. The request frames are built by
  the constructor `Req` and not by record `EXCEPT`, which the SMT backend
  does not translate. Both forms denote the same records, so TLC's runs
  are unchanged.
- **`FlushSendsPendingHolds`**: `Spec => FlushSendsPending`. `FlushedSteps`
  shows that only `HelloReply` and `Ack` complete a hello or an ack.
  `FlushResult` says what `Flush` writes: one notification with the
  pending channels, or nothing when none are pending. PTL lifts the step
  fact over `TypeCorrect`.

`PingBodyProofs` proves **`ClassifiesAsSpecifiedHolds`**:
`Spec => []ClassifiesAsSpecified`. It holds for every alphabet, every set
of whitespace bytes and every `MaxLen`, so every frame length is covered.
The loop invariant `PInv` says that, while the loop runs:

- `left` and `right` are the counts of braces among the first `i - 1`
  bytes (`PCount`);
- each of those bytes is a brace or whitespace.

Once a result is set, it is `Classify(raw)`. The invariant was
model-checked on the `pingbody` bounds before it was proved. The induction
runs over the steps of the loop, not over data. `PCountStep` is the
cardinality fact each byte needs: counting over one more byte adds one
when that byte is `b`. It follows from `FS_AddElement`. To keep the module
provable, `Count` is a cardinality and `Init` draws frames as functions
`1..n -> Byte`, with no RECURSIVE operator from SequencesExt. The brace
bytes are the labels `LBrace` and `RBrace`. The SMT backend cannot encode
the literal `"{"` in an identifier.

**Only model-checked:**

- The liveness properties (`ClosedEventuallyReleased`, `AnonymousReaped`).
  TLAPS does not handle fairness or ENABLED.
- `AdmissionBound` with several acceptors. It is false (the two-acceptor
  run).
- The violated properties of the violation runs, which are
  counterexamples and not theorems.

## 6. Not modelled

- **Listen and TLS setup, and the string helpers.** They are I/O and
  formatting.
- **MockBalancer.** It is generated code.
- **The panic-recovery paths.** They close the socket, like `RunExit`.
- **The Store's versions in the full Worker.** They are only in
  `AckVersions`, to keep the Worker's state space small.

## 7. Plan for later work

1. Add a `PushServer` module that composes `LimitListener` with several
   `Worker`s, where `RunExit` and `TimerClose` call `limitConn.Close`. It
   would check that every worker's slot is released.
2. Give the partial Drop failure in `Ack` a property once the device can
   reconnect: the dropped channels are never sent again, and the rest are
   sent on the next hello.
3. Every safety property of the passing runs is now proved. Further
   proofs wait on new models: the `PushServer` composition of item 1, and
   `AckVersions` once item 2 gives it a passing run. The liveness
   properties stay with TLC.
