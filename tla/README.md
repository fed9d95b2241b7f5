# A TLA+ verification of mobiletunnel

mobiletunnel forwards TCP connections through one long-lived tunnel that survives the loss of
the network under it: the laptop may sleep, change networks, or lose ssh, and the forwarded
connections go on. This directory models the program in TLA+, checks the models with TLC on
small instances, and proves some of their properties with TLAPS for every value of their
constants. Paths below are relative to `src/`; `lib/` stands for `src/src/lib/`, `bin/` for
`src/src/bin/`.

## 1. The system

```
 applications          client process                    server process          targets
   TCP  ──▶ StreamMultiplexerClient            StreamMultiplexerServer ──▶ TCP
             │ ▲  ChannelMessage bytes          │ ▲
             ▼ │  (mpsc, 16 in, unbounded out)  ▼ │
            StreamState::run_client ═══ TCP ═══ StreamState::run_server
                          (through ssh -L, kept up by bin/mobiletunnel.rs)
```

| Component | Source | State it keeps | Operations | Talks to |
|---|---|---|---|---|
| Reconnecting stream | `lib/reconnecting_stream.rs` | own and peer's random id, unacknowledged messages with the sequence number before the first (`base_offset`), number of messages received; one TCP connection at a time | take a message of the application, hello, resend, data, ack, reconnect, listen, cancel | its application by one bounded channel in and one unbounded channel out; its peer over TCP |
| Its wire codec | same file, 287-401 | none | parse, encode | |
| Stream multiplexer | `lib/stream_multiplexer.rs` | table of streams by id, three tasks and an unbounded channel for each, next id | accept, Connect, Data, Disconnect, Error, cancel | its streams by the bounded channel of all streams; the reconnecting stream as its "application" |
| Backpressure | same file, 79-90, 283-425, 427-443, 558-612 | count of queued messages, `sent_pause`, `read_paused`, a `Notify`: relaxed atomics shared by the run loop and two tasks | count, PAUSE, drain, RESUME, pause, wake | its counterpart at the other end through the tunnel |
| Frame parser | same file, 92-258, 445-520 | bytes of an unfinished frame | parse, encode, put bytes, take a message | |
| Client glue | `lib/client.rs`, `bin/client.rs` | the two tasks, an interrupt token | start, end | joins a reconnecting stream and a multiplexer |
| Server glue | `lib/server.rs`, `bin/server.rs` | the same and a pid file | kill older servers, start, daemonize, end | the same |
| Launcher | `bin/mobiletunnel.rs` | the ssh child, its output, two tokens | start the server, check it, restart ssh, end | ssh, client glue, server check |
| Server check | `lib/server_check_port.rs` | none | print whether a pid is alive, once a second | the launcher reads it through ssh |
| Helpers | `lib/process_helper.rs`, `lib/util.rs`, `lib/lib.rs` | none | | |

What is hard about it:

- *Unreliable delivery*. A connection may go at any byte. Data that was received while its
  acknowledgement was lost is sent again on the next connection, and so is data that was never
  written. A connection can be dead for one end and in use for the other, and the server's listener
  may hold connections whose hello was written long ago.
- *Restarts*. Either process may be replaced by one that knows nothing. Random ids are all that
  keeps the streams of two incarnations apart.
- *Interleaving*. The tokio runtime is multi-threaded. The counter and the flags of a stream are
  touched by three tasks, and PAUSE and RESUME reach the tunnel by different ways.
- *Waiting*. Bounded channels in both directions, tasks that wait to send and look at no token
  meanwhile, tasks that are joined by tasks that wait themselves.
- *Early ends*. A stream may be aborted in any state, and either process, the link, a socket, an
  application's channel may end at any moment.

The list `hazards` of `PROJECT.json` has each of these at the line where it bites, with the
properties that watch over it or the reason why none does.

What makes the components correct:

- Reconnecting stream: each application receives the other one's messages once and in order, from
  the first on; nothing is released from the window before it was delivered; the window is bounded
  and opens again; a cancelled endpoint stops.
- Multiplexer: each stream's bytes come out in order, at least up to where the stream was ended; an
  id is introduced before it is used; a slow stream does not hold up another; no cycle of full
  channels; cancellation leaves no task behind.
- Backpressure: the count is right when it is tested; a paused sender is resumed; a wake-up is not
  lost.
- Codecs: wherever the bytes are cut and a connection breaks, the messages given come out, none
  waits for the next one, and no length overflows.
- Glue and launcher: when one half ends, so does the other; a server that lives is not given up, and
  the launcher of one that died ends, if it has a check.

## 2. Modules

| Module | Models or proves | Used by |
|---|---|---|
| `ReconnectingStream` | `lib/reconnecting_stream.rs`: `StreamState`, `run_client`, `run_server`, `run_stream`, `run_unconnected_stream`; and `Link == INSTANCE ReliableLink WITH bound <- remote_id, released <- base_offset`, the refinement mapping | |
| `ReliableLink` | the abstract specification of the above: what an application sees, and which of its messages an endpoint has given up its copy of | the link of `MuxStreams` and `FlowControl` behaves this way |
| `StreamInvariant` | `StreamInv`, the inductive invariant of `ReconnectingStream` | `MCReconnectingStream` (instances), runs `rs_*` |
| `ReconnectingStreamProofs`, `StreamEventProofs`, `StreamInvariantProofs`, `StreamTheorems` | the proofs of it, each extending the one before: types; what a step is to the connections; one conjunct of `StreamInv` after the other; the theorems and the refinement | |
| `MuxStreams` | `lib/stream_multiplexer.rs`: both run loops, `OngoingStreamTracker`, `run_internal_stream`; and `Pipes == INSTANCE StreamPipes WITH end <- View`, the refinement mapping | |
| `StreamPipes` | the abstract specification of the above: what the two sockets of a stream see | |
| `MuxInvariant` | `MuxInv`, its inductive invariant | `MCMuxStreams` (instances), runs `mx_*` |
| `MuxStreamsProofs` | the proof of it, and what follows | |
| `FlowControl` | the shared atomics of one direction of one stream | runs `fc_*` |
| `FlowControlProofs` | its inductive invariant, and what follows | |
| `FrameCodec` | `ChannelMessage::encode` and `parse`, `ChannelMessageParser`, `StreamCodecMessage::encode` and `parse`, `StreamCodec` | |
| `FrameInvariant` | `CodecInv`, its inductive invariant | run `codec_frames` |
| `FrameCodecProofs` | what is encoded is parsed again, whole and no earlier; the proof of `CodecInv`, and what follows | |
| `Supervision` | `bin/mobiletunnel.rs`, `lib/client.rs`, `lib/server.rs`, `lib/server_check_port.rs`: who starts, watches and ends whom | runs `sup_*` |
| `SupervisionProofs` | type correctness, and that a server that lives is not given up | |

Each module holds, before a definition it could replace, definitions marked *mutant*: plausible
bugs in the code (a dropped check, a swapped order, an off-by-one). `PROJECT.json` says which
property each must violate; they play no part in `Spec`.

### ReconnectingStream

Variables have the names of the fields of `StreamState`; per endpoint each is a function on
`{"client", "server"}`. A payload is `[from, n]`: the incarnation whose application sent it and
its number. Neither is on the wire; they let properties speak of which message arrived. Only the
size of a message matters to the code, and `MsgSize` gives it.

- `pipe[e][c]` is what `e` wrote on connection `c` and the other end has not processed: the queue to
  the writer task, both kernel buffers, the wire and the reader task's queue, all FIFO.
- `Break(c)` truncates both directions of a connection to some prefix; `closed` records which end
  dropped it. From then on either of "read the rest" and "the writer fails" may come first, as the
  two tasks of `run_stream` race.
- `Connect` succeeds when the kernel of the listening server does, before the server accepts, so that
  `backlog` and `socket_queue` may hold connections the client already talks on.
- `Return` and `BreakLoop` are the two ways out of `run_stream`: the first leaves its tasks alone,
  the second waits for the reader task (`"joining"`), deaf to cancellation, until the connection is
  dead.
- `Restart(e)` is the end of a process and a new one in its place: `StreamState::new` and a fresh id.
- The application, the tokens and the network are external; `May...` constants say which of them
  misbehave in an instance.

### MuxStreams

One step is what a task does between two awaits, but for the counter and the flag of a stream that the run
loop and the write task share. Their accesses are steps of their own: `GotData` is the send into the
stream's channel, `DataCount`, `DataSwap` and `TrySendPause` what the same handler does next, each
only if the one before says so; `WriteDone` is the end of the write with the `fetch_sub`, `WriteSwap` the swap,
`WriteSendsResume` the send. So the write task may drain the channel between any two of the run loop's
accesses, as in `FlowControl`. The `store(false)` after a `try_send` that found no room is one step with it: the write task's
swap touches only the flag, so that one in between does what it does before both.

A run loop is in `select!` (`"select"`), in that handler (`"count"`, `"swap"`, `"pause"`), or holds a
message that waits for room in the channel into the link (`"sending"`): there it looks neither at its token
nor at the link's output. `task`, `reader`, `writer` are the three tasks of a stream at an end, each a record of where
it is and of what it owns. `Remove` is `abort()`,
which takes effect only where the task waits: a task that is `"ending"` has been polled and still
goes on to its `send`. Dropping a future drops what it owns, so the unbounded channel goes with
the write task, or with the stream's task when no write task was spawned yet. Only what the link promises is
modelled of it (`into`, `rx`, `Deliver`): a bounded FIFO in, every message once and in order out.

Abstractions: a Data message is its number. `flow[e][s].pending` is an integer that may be -1 where the
code's counter wraps. At most one message is queued and not yet counted, so the values that are compared, the count
before a `fetch_sub` and the sum after a `fetch_add`, are never negative and are those of the code. The width of the counter, and the overflow check of a debug build, are in `FlowControl`. The channel out of the link is
unbounded, as in `StreamState::new`, and that is what keeps two run loops that both wait to send
from waiting for each other: the endpoints go on delivering, acknowledging and making room.
`DataGetsThrough` depends on it. The window of the reconnecting stream is not in this module; that it opens
again is `EventuallyAcked` of `ReconnectingStream`.
The Error message is not modelled: no code sends it. When the client's listener fails, the
multiplexer is dropped at once (`AcceptFails`), and its link, without a sender, goes on reconnecting until
the process ends; when the server's does, the link ends and takes the multiplexer with it (`LinkFails`).

### FlowControl

Every atomic access is a step of its own. The four tasks are the read task and the run loop of the
sending end, the run loop and the write task of the receiving end. The counter counts modulo
`UsizeMod`; `fetch_add(1) + 1` adds outside the atomic, and panics in a debug build when it
overflows (`OverflowChecks` is the set of builds in view). The stream stays open.

### FrameCodec

One direction of a tunnel, as bytes. A byte is `[type, len, at]`: the type and the length field of
the header it follows and its place in that message, so that a parser which starts in the wrong
place sees it. Ids and contents are not told apart. `Frame` and `parse` are the multiplexer's layer,
`Data`, `Hello`, `Ack` and `stream_parse` the reconnecting stream's below it; lengths are those of the
code but for the modulus (`LenMod` for 2^32). `wire` is cut at any byte (`ReadChunk`), `buf` is
FramedRead's buffer, `buffer` that of `ChannelMessageParser`. `Break` replaces the connection by one with a Hello
and an empty `buf` and resumes after the messages that were received; that this is what the two ends agree
on is the matter of `ReconnectingStream`.

### Supervision

One launcher, its ssh child with the check at its other end, one server, and the two halves
(`link`, the reconnecting stream, and `mux`, the multiplexer) of either end of the tunnel. What they
carry is left out: of a multiplexer it is kept whether it waits in `select!` or in a `send` into the
link, where it sees no token. A token is cancelled at one place each, where a task has ended, so that
`SshCancelled` and `Interrupted` are functions of which tasks have. The lines of the check wait in `lines` until
`run_ssh` reads them; at the end of the output (`eof`) the code's `next_line` is ready at once
again and again, so that neither another line nor the timer ever ends the wait (`TimerRunsOut`).
`copy_self` is the argument of that name. The check is a command of the launcher's program, so it is there only
if the server runs a copy of it (`CheckPrints`); `mobiletunnel_server` does not know it and exits at once (`CheckUnknown`).
An ssh without a check ends when it forwards no connection (`SshLeaves`), and must when there is no server to have
one to (`SshEnds`). `SshRestarts` is also the first start of an ssh: `mk_ssh`, then the look at the token.
`ssh = "dead"` is a child that has ended and not been waited for. What fails is counted by `faults`:
starting the server, finding a port, a server's crash (or its killing by another one's `--kill-old`), the check, ssh,
spawning it, reading its output, a silent network, binding and accepting.

## 3. Runs

Bounds are small, but each is chosen so that the case in question happens; all runs explore their state
space completely.

| Run | Instance | Shows |
|---|---|---|
| `rs_safety` | 3 messages up and 1 down, sizes 1-3, window 3, 3 connections of which 2 break, dropped channels, failing `accept()` | `TypeOK`, `DeliveredInOrder`, `NothingLost`, `AckedWasDelivered`, `WindowBound`, `NoProtocolError`, `StreamIsWhole`, and that the stream implements `ReliableLink` (`LinkSpec`) |
| `rs_restart` | 1 message each way, 2 restarts of either process, 3 connections, 1 breaks | the same across incarnations: `DeliveredInOrder`, `NothingLost`, `NoProtocolError`, and `LinkSpec`, so that nothing is released which the incarnation that an endpoint is bound to has not received; and that `StreamInv`, which the proofs rest on, holds |
| `rs_live` | 2 messages up through a window that holds one, 2 connections, 1 breaks, either end cancelled at any point | `EventuallyAcked`, `CancelledStops` (of both ends, and of the server's listener) |
| `rs_false_ack` | client replaced once | finding 1 |
| `fc_flow` | 8 messages, high water 3, low water 1, both builds, tunnel's channel may be full | `TypeOK`, `PendingAgrees`, `PausedIsKnown`, `NoLostWakeup`, `ResumeWakes` |
| `fc_stall` | the same, one build | finding 2 |
| `mx_one` | 1 stream, 2 messages up, all channels of capacity 1, high water 2, sockets that close, and one fault: a socket or a listener fails, or either end is cancelled | `TypeOK`, `ConnectedFirst`, `MuxInv` (and so `InOrder`, which follows), `StaysEnded`, that the multiplexers implement `StreamPipes` (`PipesSpec`), `CancelledEnds` |
| `mx_stuck` | 2 streams, one with 3 messages up and a socket that takes no data, the other with 1 each way | `InOrder`, `DataGetsThrough`, `PausedIsRemembered` |
| `mx_close` | 1 stream, 1 message each way, sockets that close | finding 3 |
| `codec_frames` | 2 messages of lengths 0, the largest that fits and one more, 1 Ack, 1 break, every cut | `TypeOK`, `DecodedIsGiven`, `NothingHeldBack`, `NeverFails`, `CodecInv` |
| `sup_tunnel` | with and without a check, 3 faults, 2 attempts to find the pid, 2 lines waiting | `TypeOK`, `NoFalseTermination`, `HalfServerEnds`, `MainEnds`, `DeathNoticed`, `Reconnects` |
| `sup_replaced` | 1 line waiting, no fault | finding 4 |

Why the bounds are enough. Two breaks and three connections give every combination of "delivered,
ack lost", "not delivered" and "hello already stale" on a second reconnection; with three messages
of growing size the window is reached, overshot and opened again. Two restarts allow a client that replaced
another to meet a server that knew the first, and the other way round; with the server's listener
queue, hellos of a dead incarnation meet a living one. Channels of one place make every send that can wait
wait. Eight messages against a high-water mark of three give PAUSE and RESUME more than once, and three against
two a PAUSE, a drain at any point of it, and one message more. In `mx_one` the second of two messages brings the PAUSE;
one fault at any point meets every state of a stream; a second
one finds a tunnel that is coming down already. A frame of the codec may be 13, 32 or (as an Error in the
place of what is too long) 26 bytes; two of them and an Ack give every way in which a chunk can end in or
after a header, a length or a frame of either layer, and `LenMod` 33 makes 19 bytes of data the last that fit.
Three faults let an ssh hang, its check die and the server end, in every order.

`PausedIsRemembered` says of a stream at rest that a read task which is still paused is one that the other end remembers
to have paused; so no PAUSE is forgotten, and no RESUME is lost while a later PAUSE is kept. It does not say that the
other end will send a RESUME: that is `DrainedIsResumed` of `FlowControl`, which fails (finding 2), and the same
interleaving is in `MuxStreams`.

Deadlock checking is off: in every instance the applications have a finite number of messages and
the system comes to rest.

### Fairness

`ReconnectingStream`: weak fairness of each task's steps (tokio polls a task that was woken), of
the timers, and of the kernel telling an endpoint of a dead connection. `Connect` has strong fairness: a
client whose attempts alternate with failures gets through in the end; without it nothing can be
promised. Nothing obliges an application to send, a process to crash, the network to break a connection or
`accept()` to fail. `Break` is bounded, so that the network is eventually good enough.

`FlowControl`: weak fairness of each task. A read from the socket is not forced.

`MuxStreams`: one weak-fairness condition on the union of all scheduled steps: while one of them can be
taken, some step is. The runtime promises that and more, as it polls every task that was woken. It is enough because each step uses
up a message or a phase of a task, of which there are finitely many in an instance. Reading from,
closing and failing of sockets are not forced, nor is writing to a stuck one.

`Supervision`: weak fairness of the launcher, of each process and task and of the check, which prints or exits; ssh
connects in the end, as it is restarted until it does. `SshKills` (the timer and the token of `run_ssh`)
has a condition of its own, because `select!` picks a ready branch at random: lines that keep
coming do not hold the token up for ever. The timer is the model's only when nothing else is ready
(`TimerRunsOut`). No fault is obliged to happen, and a run loop is not obliged to leave a `send` while
its link lives. An ssh without a check may end while the server lives, and need not.

`select!` picks among ready branches at random; a model step per ready branch is that choice.

## 4. Proofs

Every invariant of the runs is a theorem for every value of the constants, and so are the step property
`StaysEnded` and the two refinements, of `ReliableLink` and of `StreamPipes`. The only assumptions are the named `ASSUME`s of the modules, which say what
kind of value a constant is (TLC evaluates them in each run); one theorem has a hypothesis of its own and
says so. Each proof has the same shape: an inductive invariant, checked by TLC before it was proved, a
lemma that the initial states satisfy it, one that every step keeps it, and a few lines per property that
follows.

### The reconnecting stream

`StreamInvariance == Spec => []StreamInv`. What an application sees depends on what is in flight, and that on who
uses a connection and for whom, so no property of section 3 is inductive. The parts of `StreamInv`:

- `TypeOK` includes that an endpoint works on a connection exactly in the control states in
  which `run_stream` has one, so that `pipe[..][conn[e]]` is defined.
- `ConnInv`: an end of a connection is in use, waits in one of the server's two queues, or was dropped, and what
  leads to a dropped end is empty (`EndsOwned`); connections are used in the order in which they
  were made (`ConnsInOrder`); a hello comes first, once, and is there until it is read or the connection is lost;
  before it has read its peer's hello an end sends only its own (`HelloFirst`, `HelloKept`, `HelloOnly`).
- `IdsInOrder`, `HelloFresh`: ids of incarnations rise, and a hello on a connection that its sender still uses
  says what a new one would.
- `WindowNumbered`, `Received`: produced messages are, in this order, released, in the window, in the
  application's channel; delivered ones are the first `received_seq` of the bound peer.
- `Limited`, `WindowBound`: no application sends more than it has, so that each message has a size, and the window without its
  newest message is smaller than `max_window`.
- `DataContinues`, `DataComplete`, `DataWasSent`: the Data on a connection starts no later than with the message that its reader waits
  for and has no gap; where the connection works it goes on to the newest message of the sender.
- `AcksInWindow`, `AckedWasReceived`, `HellosInOrder`: acknowledgements in flight rise within the window and, like
  hellos that were written long ago, are not ahead of the peer. `HellosInOrder` is there for the server's listener: the
  hellos that wait in it may be of several connections of a client and are read after the acknowledgements of an earlier one.
- `Acknowledged`: the same where the peer may have been replaced. What an endpoint has released, the incarnation that it is bound to
  had received; and so has the sender of every hello, and of every acknowledgement that will be taken. `AckedWasReceived` speaks only of a
  peer that still runs, but a hello of a dead incarnation may be the first that an endpoint reads.

The argument. There are twenty-odd actions, but only eleven kinds of things that a step can be to the other end:
dropping connections, making one, taking one up, writing, reading, losing bytes, and so on. `StepIsEvent`
(`StreamEventProofs`) shows that every step is one of them (`Event`), and each conjunct is then shown to be kept by each
kind (`EventEnds`, `OrderStep`, `WindowStep`, `IdsStep`, `HelloFreshStep`, `ReceivedStep`, `SentStep`, `ContinuesStep`, `CompleteStep`,
`AcksStep`, `AcknowledgedStep`, ...), with lemmas on what appending, taking and cutting do to a sequence of messages
(`ContinuesTail`, `ContinuesPrefix`, `ContinuesResend`, `EndsAtTail`). `Connections` states the first half alone.

What follows: `InOrderDelivery` (`DeliveredInOrder`), `NothingIsLost` (`NothingLost`), `ProtocolIsKept`
(`NoProtocolError`), `FlightIsWhole` (`StreamIsWhole`), `WindowIsBounded` (`WindowBound`), each with breaks, cancellations and restarts of either process; and
`AcksAreTrue` (`AckedWasDelivered`) under `MayRestart = {}`, which finding 1 shows to be needed.

`WindowBound` speaks of `unacked_size`, a sum over the window. It is a recursive function of the length of a sequence, and the
steps append one message or drop the first few, so two facts are needed: the sum of one more is the sum and its
size, and dropping messages does not make the sum larger. The second is an induction over the length. It is
done without the library's induction theorems, by the least length at which it would fail (`LeastElement`, `UpTo` in
`ReconnectingStreamProofs`), which has a predecessor at which it holds. `BoundStep` is then the argument of the code: what is taken is taken when
the window is not full, and is its newest message.

`Refinement == Spec => LinkSpec`: initial states map to initial states, and of the eleven kinds of steps one produces, one delivers,
those that read a hello may bind and release, those that read an acknowledgement may release, one replaces an
incarnation, and the others are stutters. That the delivered message is the one after the last delivered needs
`DataContinues`; that a binding is to an incarnation which exists and is not the endpoint's own, `IdsInOrder`; that what is
released had been received, `Acknowledged`. As a specification of steps it also says that, while an incarnation lives, what it
released and delivered only grows and its binding stays. `ReliableLink` counts what is released and does not ask whose messages the peer
received: finding 1 is that they need not be those of this incarnation.

### The multiplexer

`MuxInvariance == Spec => []MuxInv`, for any number of streams, messages, faults and capacities, with

    MuxInv == TypeOK /\ TasksInv /\ LoopsInv /\ Introduced /\ Ordered

- `TasksInv`: the three tasks of a stream start in order, and own nothing before.
- `LoopsInv`: a run loop that selects holds no message, one in the handler of a Data message only the PAUSE that it may come
  to, one that was dropped has nothing left.
- `Introduced`: what lies between the two multiplexers names a stream first in a Connect, if the server does not know it,
  and never again in one. It counts what is on the way, because a Connect may be far behind when the client
  already speaks of the stream, and stops to count when the server's multiplexer is gone.
- `Ordered`: of each stream's data, what is written, queued for writing, under way, held by a run loop that waits to send and in
  the channel of all streams, are the numbers 1, 2, ... in this order and without a gap (`Flow`), as long as
  somebody takes it (`Accepts`). An aborted stream, a task that has ended and a dropped run loop are what the
  conditions are about.

The argument goes by kinds of steps again: a task of a stream moves (`LocalStep`), a run loop takes a message of its peer
(`Taking`), takes one in hand (`Holds`), sends it, the link delivers, a run loop is dropped, nothing
moves (`Still`), the run loop goes on in the handler of a Data message (`Pauses`). For each there is one lemma that it keeps `MuxInv`. `StreamsInOrder` (`InOrder`) and `ConnectsFirst`
(`ConnectedFirst`) follow.

`EndedStays` (`StaysEnded`) is a property of steps: of no stream that has ended at an end a task runs again, is
anything more written, or is the entry in the tracker made anew. The state alone does not exclude it: a run loop that
got a second Connect for an id would spawn its tasks again. That every Connect, received or held, is about a stream
whose task is still `"none"` is `Introduced`; that its two other tasks are then, too, is `TasksInv`. Everything else
a run loop takes finds the stream or drops what it took (`RemoveKept`, `ReceiveKept`).

`PipesImplemented == Spec => PipesSpec`. `StreamPipes` has one variable, the ends of the streams: of each whether its halves are not
there yet, opening, open or ended, how much was taken from its socket and what was given to it. `View` finds them in the
tasks. A step of the multiplexers changes at most one end of one stream (`ViewMoves`, `ViewSame`), so each lemma is about the end
it may change: the read task takes or ends (`ReadObserved`), the write task gives or ends (`WriteObserved`), a run loop
that spawns or aborts begins an end, opens it or ends it (`NewStreamObserved`, `RemoveObserved`,
`ReceiveObserved`), and a stream's task that connects, fails to, or sees its two tasks end does the same (`TaskObserved`,
`RunObserved`). `MuxInv` is needed where an end depends on the other one: the server is asked only
for a stream that the client has accepted (`Introduced`), and what is given is the next of what was taken (`Flow`). An abort ends a stream that
still connects at once; of one that is open it only tells the two tasks, which end one after the other, so that the
abort itself is no step of the pipe.

### Backpressure

`Invariance == Spec => []IInv` with

    IInv == TypeOK /\ Conserved /\ PendingAgrees /\ PauseRecorded

for all water marks `LowWater < HighWater`, word sizes larger than the number of messages, and builds.

- `PendingAgrees` alone is not inductive: a counter modulo `UsizeMod` could meet itself on its way
  round. `Conserved` (tunnel, channel and write task hold no more messages than were read)
  excludes it. From the two follows `CounterAgrees`: between `send` and `fetch_add` the counter
  may be one short, also below zero, and at all other times it is exact. So the write task's low-water test,
  which may run in that window, is the only place that sees a wrapped value.
- `PausedIsKnown` speaks of a settled system. `PauseRecorded` extends it to one with control messages on
  their way: unless a RESUME is still to come, `sent_pause` is at least as pessimistic as the
  last control message in the tunnel. `PausedKnown` follows.
- `WakeupKept` (`NoLostWakeup`): the property is inductive given the types, as the flag is cleared before the `Notify` is told and
  the read task looks at the flag before it waits; `notify_one` leaves a permit. That the mutant with `notify_waiters`
  breaks it is the reason to state it.

### The codecs

First of the functions: a buffer that starts with `Frame(m)` is parsed to `Seen(m)` and exactly its
length is consumed, whatever follows (`FrameIsParsed`), a proper beginning of it is kept (`PartOfFrameIsKept`), and of a
buffer that starts with a message of the reconnecting stream, or a part of one, its parser takes the message or nothing and finds
no fault (`StreamMessageParsed`), for every message and every modulus beyond 32. That the length with its header fits four
bytes (`SeenFits`), so that `%` changes nothing, is the lemma on which they rest.

Then of the state machine, `CodecInvariance == Spec => []CodecInv`. `UnderWay` says that `buf \o wire` consists of the Data
messages not yet received, in order, with Hellos and Acks anywhere between them; `Buffered` that `buffer` consists of the frames
not yet decoded. "Consists" (`Consists`) is stated by where messages start, without recursion: every place that has the first byte
of a message is the place of one that lies there whole, and the next starts where it ends. So it can be proved about: `ConsistsMore`
(one more at the end) and `ConsistsRest` (without the first) are all the steps need, and where the bytes are cut is of no account
because `UnderWay` looks at both halves as one. `DecodedInOrder`, `NothingIsHeldBack`, `CodecNeverFails` and `TypeCorrect` follow.

### The supervision

`Inductive == Spec => []IInv` with

    IInv == TypeOK /\ Phases /\ LinesTrue /\ NoFalseTermination

for any number of attempts, waiting lines and faults. `NoFalseTermination` depends on the lines that
wait to be read: a line BAD must be true when it is read, not only when it was printed. `LinesTrue`
says so of each, and holds because a server that has ended, or whose file was replaced, stays so; `Phases` says that an ssh
exists only after the pid file was found, so that no check looks for a server that has yet to come up.
Without `--copy-self` there are no lines, so it holds the more. `LivingServersAreKept` follows, and `sup_replaced` shows that its exception for a replaced file is needed.

### Model-checked only

- The properties that speak of what happens in the end: `EventuallyAcked`, `CancelledStops`, `ResumeWakes`, `PausedIsRemembered`,
  `CancelledEnds`, `DataGetsThrough`, `HalfServerEnds`, `MainEnds`, `DeathNoticed`, `Reconnects`. They depend on fairness, which is out of
  the prover's reach.
- The four findings, which are counterexamples.

## 5. Findings

Each is the counterexample of a run marked `violation`, with the sentence of the repository it contradicts.

1. **False acknowledgement** (`rs_false_ack`, `lib/reconnecting_stream.rs:548`). A client that replaced
   another does not know the server yet and takes the count in the server's hello, which is of the other client's
   messages, for its own: it releases messages nobody received. The server refuses it, so the two
   never pair, but the messages are gone from the window.
2. **A stream stays paused** (`fc_stall`, `lib/stream_multiplexer.rs:573`). The write task drains the
   channel between the run loop's count and its swap of `sent_pause`: no RESUME is sent, then PAUSE is.
3. **Close drops data** (`mx_close`, `lib/stream_multiplexer.rs:553`). A Disconnect aborts the stream
   although data that came before it is still queued.
4. **A server is given up that lives** (`sup_replaced`, `lib/server_check_port.rs:29`). When the file
   of a running server is replaced or removed the system appends " (deleted)" to its name, which
   `lib/server.rs:178` strips and the check does not. It prints BAD, and the launcher ends the tunnel.

Observations that contradict no sentence of the repository, and so have no run of their own; the models have
the steps:

- The message is in a stream's channel before it is counted, and the write task may count it off
  first (`lib/stream_multiplexer.rs:572`): the counter wraps. `PendingAgrees` says that it comes
  right again; where additions are checked, the next one panics.
- PAUSE may overtake an earlier RESUME (`:577`), which then undoes it; it costs memory, not
  correctness, and `PausedIsKnown` holds in spite of it.
- A stream that waits for room to send its Disconnect is aborted if data for it is refused (`:567`);
  the other end is not told.
- When the check's output has ended while ssh goes on, `run_ssh` spins and its timer never fires
  (`bin/mobiletunnel.rs:160`). `DeathNoticed` and `Reconnects` name the case (`Deaf`).
- Without `--copy-self` there is no check. It is started as `<server_command> check-server-pid <pid>`
  (`bin/mobiletunnel.rs:324`), which only the launcher's own `main` knows (`:208`); `bin/server.rs:29` takes it for a wrong
  argument. No BAD ever comes, and when the server has ended the launcher starts ssh again and again for ever.
  `DeathNoticed` is about a launcher that copied itself; `Reconnects` promises the other one a working ssh again and
  again only.
- `get_available_port` returns at the first port that is taken (`:101`), in a loop meant for a hundred.
- A launcher that finds no pid file in twenty attempts leaves the server behind.

## 6. Not modelled, and the plan

| Part | Why | Plan |
|---|---|---|
| Which processes `--kill-old` kills, what `daemonize` does, locations, copying the binary, command lines | process-table and file I/O; their failures and the pid file are in `Supervision` | none |
| Contents of messages, ids on the wire, UTF-8 of error texts | no control depends on them but the refusal of a text that is none, which no encoder writes | none |
| The port between `drop` and ssh's bind | the ports of the machine | none |
| `process_helper`, `util`, `lib.rs` | no state | none |

What is left to do: a composition in which the multiplexers run over `ReliableLink` with a window, so that the two
liveness results, `EventuallyAcked` and `DataGetsThrough`, are one.
