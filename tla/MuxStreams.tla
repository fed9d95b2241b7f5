------------------------------ MODULE MuxStreams ------------------------------
(***************************************************************************)
(* The two stream multiplexers of src/src/lib/stream_multiplexer.rs and    *)
(* the life of the streams between them.  The client's multiplexer accepts *)
(* TCP connections, numbers them, and announces each with a Connect; the   *)
(* server's opens one to its target for each Connect.  At either end a     *)
(* stream is three tasks: the one that new_stream spawns, and the read and *)
(* the write task it spawns in turn (run_internal_stream).  They send to   *)
(* the multiplexer through the bounded channel from_stream of all streams, *)
(* and receive from it through an unbounded channel each.                  *)
(*                                                                         *)
(* Between the multiplexers lies the reconnecting stream, here as what it  *)
(* promises (ReliableLink): a bounded channel into it, an unbounded one    *)
(* out of it, every message once and in order.                             *)
(*                                                                         *)
(* What a task does between two awaits is one step, but for the accesses   *)
(* to the counter and the flag that the run loop and the write task of a   *)
(* stream share.  A Data message is its number in its stream.              *)
(***************************************************************************)
EXTENDS Integers, Sequences, FiniteSets

CONSTANTS
    MaxStreams,  \* bound: connections the client accepts
    MaxData,     \* bound: [Ends -> [Streams -> Nat]] messages read from a socket
    StreamCap,   \* capacity of from_stream (16)
    IntoCap,     \* capacity of the channel into the reconnecting stream (16)
    HighWater,   \* BACKPRESSURE_HIGH_WATER
    LowWater,    \* BACKPRESSURE_LOW_WATER
    MaxFaults,   \* bound: sockets that fail and ends that are cancelled
    MayClose,    \* [Ends -> SUBSET Streams] sockets that may close or fail to read
    Stuck        \* streams whose sockets may stop taking data for ever

Ends == {"client", "server"}
Peer(e) == IF e = "client" THEN "server" ELSE "client"
Streams == 1 .. MaxStreams

ASSUME BoundAssumption == /\ MaxStreams \in Nat /\ MaxData \in [Ends -> [Streams -> Nat]]
                          /\ MaxFaults \in Nat
                          /\ MayClose \in [Ends -> SUBSET Streams] /\ Stuck \subseteq Streams
ASSUME CapAssumption   == StreamCap \in Nat \ {0} /\ IntoCap \in Nat \ {0}
ASSUME WaterAssumption == HighWater \in Nat /\ LowWater \in 1 .. HighWater

Control == [type : {"Connect", "Disconnect", "Pause", "Resume"}, s : Streams]
ChannelMessage == Control \cup [type : {"Data"}, s : Streams, n : Nat]
NoMsg == [type |-> "None"]

Msg(type, s) == [type |-> type, s |-> s]
Data(s, n) == [type |-> "Data", s |-> s, n |-> n]

VARIABLES
    \* the run loops
    mux,          \* "select"; "sending" held into the link; in a Data message's
                  \* handler before "count", "swap", "pause"; "stopped", "dropped"
    held,         \* the message to send; in that handler, the PAUSE it may come to
    next_id,      \* stream_id of the client's run
    tracked,      \* ids with an entry in OngoingStreamTracker.streams
    interrupted,  \* the streams' interrupt tokens are cancelled
    \* channels
    from_stream,
    into,         \* into the reconnecting stream of an end
    rx,           \* out of it
    \* the tasks of each stream
    task,         \* [pc, done: the drop guard has cancelled]
    reader,       \* [pc, n: messages read, paused: read_paused]; "sending" message n
    writer,       \* [pc, queue: the unbounded channel, written: to the socket];
                  \* "writing" the first message of queue
    flow,         \* StreamFlowControl: [pending, sent_pause], shared with the run loop
    \* the environment
    cancelled,
    linked,       \* the end's reconnecting stream still runs
    faults

muxVars  == <<mux, held, next_id, tracked, interrupted>>
chanVars == <<from_stream, into, rx>>
taskVars == <<task, reader, writer, flow>>
envVars  == <<cancelled, linked, faults>>
vars == <<muxVars, chanVars, taskVars, envVars>>

PerStream(v) == [e \in Ends |-> [s \in Streams |-> v]]

Init ==
    /\ mux = [e \in Ends |-> "select"]
    /\ held = [e \in Ends |-> NoMsg]
    /\ next_id = 1
    /\ tracked = [e \in Ends |-> {}]
    /\ interrupted = [e \in Ends |-> FALSE]
    /\ from_stream = [e \in Ends |-> <<>>]
    /\ into = [e \in Ends |-> <<>>]
    /\ rx = [e \in Ends |-> <<>>]
    /\ task = PerStream([pc |-> "none", done |-> FALSE])
    /\ reader = PerStream([pc |-> "none", n |-> 0, paused |-> FALSE])
    /\ writer = PerStream([pc |-> "none", queue |-> <<>>, written |-> <<>>])
    /\ flow = PerStream([pending |-> 0, sent_pause |-> FALSE])
    /\ cancelled = [e \in Ends |-> FALSE]
    /\ linked = [e \in Ends |-> TRUE]
    /\ faults = 0

Fault == faults < MaxFaults /\ faults' = faults + 1

-----------------------------------------------------------------------------
(* Sending to the multiplexer: waits for room, fails once it was dropped.  *)

\* Mutant: one message too many.
RoomForOneMore(e) == mux[e] # "dropped" /\ Len(from_stream[e]) <= StreamCap
Room(e) == mux[e] # "dropped" /\ Len(from_stream[e]) < StreamCap

Post(e, m) ==
    /\ Room(e)
    /\ from_stream' = [from_stream EXCEPT ![e] = Append(@, m)]

-----------------------------------------------------------------------------
(* The read task.                                                          *)

Reads(e, s, from, to) ==
    /\ reader[e][s].pc \in from
    /\ reader' = [reader EXCEPT ![e][s].pc = to]

ReadData(e, s) ==
    /\ reader[e][s].pc = "reading" /\ reader[e][s].n < MaxData[e][s]
    /\ reader' = [reader EXCEPT ![e][s].pc = "sending", ![e][s].n = @ + 1]
    /\ UNCHANGED <<muxVars, chanVars, task, writer, flow, envVars>>

\* The flag is looked at between two messages only; mutant: try_send, and what
\* finds no room is dropped.
ReadTriesSend(e, s) ==
    /\ Reads(e, s, {"sending"}, IF reader[e][s].paused THEN "paused" ELSE "reading")
    /\ Post(e, Data(s, reader[e][s].n)) \/ (~Room(e) /\ UNCHANGED from_stream)
    /\ UNCHANGED <<muxVars, into, rx, task, writer, flow, envVars>>
ReadSends(e, s) ==
    /\ Reads(e, s, {"sending"}, IF reader[e][s].paused THEN "paused" ELSE "reading")
    /\ Post(e, Data(s, reader[e][s].n))
    /\ UNCHANGED <<muxVars, into, rx, task, writer, flow, envVars>>

ReadResumes(e, s) ==
    /\ ~reader[e][s].paused
    /\ Reads(e, s, {"paused"}, "reading")
    /\ UNCHANGED <<muxVars, chanVars, task, writer, flow, envVars>>

\* The application closes its socket, or reading fails.
ReadEnds(e, s) ==
    /\ s \in MayClose[e]
    /\ Reads(e, s, {"reading"}, "ended")
    /\ UNCHANGED <<muxVars, chanVars, task, writer, flow, envVars>>

\* The stream is done or interrupted, or the multiplexer is gone; a read task
\* that waits to send looks at neither token.
ReadCancelled(e, s) ==
    /\ \/ (task[e][s].done \/ interrupted[e]) /\ Reads(e, s, {"reading", "paused"}, "ended")
       \/ mux[e] = "dropped" /\ Reads(e, s, {"sending"}, "ended")
    /\ UNCHANGED <<muxVars, chanVars, task, writer, flow, envVars>>

-----------------------------------------------------------------------------
(* The write task.  When it ends, what its channel holds is lost.          *)

WriteReceives(e, s) ==
    /\ writer[e][s].pc = "recv" /\ writer[e][s].queue # <<>>
    /\ writer' = [writer EXCEPT ![e][s].pc = "writing"]
    /\ UNCHANGED <<muxVars, chanVars, task, reader, flow, envVars>>

\* write_all and fetch_sub(1): is the count before that not above the low-water mark?
\* The counter wraps below zero, here to negative numbers, which nobody compares.
\* Mutant: the flag is cleared first, and then the count compared.
WriteDoneClears(e, s) ==
    LET w == writer[e][s]
        f == flow[e][s]
    IN
    /\ w.pc = "writing"
    /\ writer' = [writer EXCEPT ![e][s] =
                    [pc |-> IF f.sent_pause /\ f.pending <= LowWater THEN "resume" ELSE "recv",
                     queue |-> Tail(w.queue),
                     written |-> Append(w.written, Head(w.queue))]]
    /\ flow' = [flow EXCEPT ![e][s] = [pending |-> f.pending - 1, sent_pause |-> FALSE]]
    /\ UNCHANGED <<muxVars, chanVars, task, reader, envVars>>
WriteDone(e, s) ==
    LET w == writer[e][s]
        f == flow[e][s]
    IN
    /\ w.pc = "writing"
    /\ writer' = [writer EXCEPT ![e][s] =
                    [pc |-> IF f.pending <= LowWater THEN "swap" ELSE "recv",
                     queue |-> Tail(w.queue),
                     written |-> Append(w.written, Head(w.queue))]]
    /\ flow' = [flow EXCEPT ![e][s].pending = @ - 1]
    /\ UNCHANGED <<muxVars, chanVars, task, reader, envVars>>

\* sent_pause.swap(false)
WriteSwap(e, s) ==
    /\ writer[e][s].pc = "swap"
    /\ writer' = [writer EXCEPT ![e][s].pc = IF flow[e][s].sent_pause THEN "resume" ELSE "recv"]
    /\ flow' = [flow EXCEPT ![e][s].sent_pause = FALSE]
    /\ UNCHANGED <<muxVars, chanVars, task, reader, envVars>>

WriteSendsResume(e, s) ==
    /\ writer[e][s].pc = "resume"
    /\ Post(e, Msg("Resume", s))
    /\ writer' = [writer EXCEPT ![e][s].pc = "recv"]
    /\ UNCHANGED <<muxVars, into, rx, task, reader, flow, envVars>>

WriteEnds(e, s) ==
    /\ writer' = [writer EXCEPT ![e][s].pc = "ended", ![e][s].queue = <<>>]
    /\ UNCHANGED <<muxVars, chanVars, task, reader, flow, cancelled, linked>>

WriteFails(e, s) ==
    /\ Fault
    /\ writer[e][s].pc = "writing"
    /\ WriteEnds(e, s)

\* Waiting for a message it looks at both tokens and sees its sender dropped;
\* in write_all it looks at the stream's own token only; sending, at none.
WriteCancelled(e, s) ==
    LET w == writer[e][s] IN
    /\ \/ w.pc = "recv" /\ (task[e][s].done \/ interrupted[e])
       \/ w.pc = "recv" /\ w.queue = <<>> /\ s \notin tracked[e]
       \/ w.pc = "writing" /\ task[e][s].done
       \/ w.pc = "resume" /\ mux[e] = "dropped"
    /\ WriteEnds(e, s)
    /\ UNCHANGED faults

-----------------------------------------------------------------------------
(* The task of a stream.                                                   *)

\* run_internal_stream spawns the two others.
RunStream(e, s) ==
    /\ task' = [task EXCEPT ![e][s].pc = "running"]
    /\ reader' = [reader EXCEPT ![e][s].pc = "reading"]
    /\ writer' = [writer EXCEPT ![e][s].pc = "recv"]
    /\ UNCHANGED flow

TaskConnects(e, s) ==
    /\ task[e][s].pc = "connecting"
    /\ RunStream(e, s)
    /\ UNCHANGED <<muxVars, chanVars, envVars>>

TaskConnectFails(e, s) ==
    /\ Fault
    /\ task[e][s].pc = "connecting"
    /\ task' = [task EXCEPT ![e][s].pc = "ending"]
    /\ UNCHANGED <<muxVars, chanVars, reader, writer, flow, cancelled, linked>>

\* One of the two has ended: the drop guard cancels the other.
TaskEnds(e, s) ==
    /\ task[e][s].pc = "running"
    /\ "ended" \in {reader[e][s].pc, writer[e][s].pc}
    /\ task' = [task EXCEPT ![e][s] = [pc |-> "ending", done |-> TRUE]]
    /\ UNCHANGED <<muxVars, chanVars, reader, writer, flow, envVars>>

\* A stream that never connected drops its channel with the task.
TaskGone(e, s) ==
    /\ task' = [task EXCEPT ![e][s].pc = "ended"]
    /\ writer' = [writer EXCEPT ![e][s].queue = IF writer[e][s].pc = "none" THEN <<>> ELSE @]
    /\ UNCHANGED flow

\* A task that was aborted goes on until it has to wait.
TaskWaits(e, s) ==
    /\ task[e][s].pc = "ending"
    /\ mux[e] # "dropped" /\ ~Room(e)
    /\ IF s \in tracked[e]
          THEN task' = [task EXCEPT ![e][s].pc = "waiting"] /\ UNCHANGED <<writer, flow>>
          ELSE TaskGone(e, s)
    /\ UNCHANGED <<muxVars, chanVars, reader, envVars>>

\* The Disconnect, or nothing when the multiplexer is gone.
TaskSendsDisconnect(e, s) ==
    /\ task[e][s].pc \in {"ending", "waiting"}
    /\ Post(e, Msg("Disconnect", s)) \/ (mux[e] = "dropped" /\ UNCHANGED from_stream)
    /\ TaskGone(e, s)
    /\ UNCHANGED <<muxVars, into, rx, reader, envVars>>

-----------------------------------------------------------------------------
(* OngoingStreamTracker: new_stream, remove, data, pause_read, resume_read.*)

\* The connection of an accepted client is there already.
NewStream(e, s) ==
    /\ tracked' = [tracked EXCEPT ![e] = @ \cup {s}]
    /\ IF e = "client"
          THEN RunStream(e, s)
          ELSE /\ task' = [task EXCEPT ![e][s].pc = "connecting"]
               /\ UNCHANGED <<reader, writer, flow>>

\* abort() ends the task where it waits, not one that is about to send its
\* Disconnect, and what it owns is dropped: the drop guard, or the channel that no
\* write task has yet.
Remove(e, s) ==
    /\ tracked' = [tracked EXCEPT ![e] = @ \ {s}]
    /\ IF s \in tracked[e] /\ task[e][s].pc \in {"connecting", "running", "waiting"}
          THEN /\ task' = [task EXCEPT ![e][s] =
                             [pc |-> "ended", done |-> @.done \/ @.pc = "running"]]
               /\ writer' = [writer EXCEPT ![e][s].queue =
                               IF writer[e][s].pc = "none" THEN <<>> ELSE @]
          ELSE UNCHANGED <<task, writer>>
    /\ UNCHANGED flow

\* Somebody holds the receiver of the stream's unbounded channel.
Receiving(e, s) ==
    \/ writer[e][s].pc \in {"recv", "writing", "swap", "resume"}
    \/ writer[e][s].pc = "none" /\ task[e][s].pc \in {"connecting", "ending", "waiting"}

\* A run loop takes the next message of the link.
Takes(e, type) ==
    /\ mux[e] = "select"
    /\ rx[e] # <<>> /\ Head(rx[e]).type = type
    /\ rx' = [rx EXCEPT ![e] = Tail(@)]

\* A Connect for a stream that is there already is logged, and no more.
GotConnect ==
    LET s == Head(rx["server"]).s IN
    /\ Takes("server", "Connect")
    /\ IF s \in tracked["server"]
          THEN UNCHANGED <<tracked, taskVars>>
          ELSE NewStream("server", s)
    /\ UNCHANGED <<mux, held, next_id, interrupted, from_stream, into, envVars>>

GotDisconnect(e) ==
    /\ Takes(e, "Disconnect")
    /\ Remove(e, Head(rx[e]).s)
    /\ UNCHANGED <<mux, held, next_id, interrupted, from_stream, into, reader, envVars>>

GotPause(e) ==
    LET s == Head(rx[e]).s IN
    /\ Takes(e, "Pause")
    /\ reader' = [reader EXCEPT ![e][s].paused = @ \/ s \in tracked[e]]
    /\ UNCHANGED <<muxVars, from_stream, into, task, writer, flow, envVars>>

GotResume(e) ==
    LET s == Head(rx[e]).s IN
    /\ Takes(e, "Resume")
    /\ reader' = [reader EXCEPT ![e][s].paused = @ /\ s \notin tracked[e]]
    /\ UNCHANGED <<muxVars, from_stream, into, task, writer, flow, envVars>>

GotDataUnknown(e) ==
    /\ Takes(e, "Data")
    /\ Head(rx[e]).s \notin tracked[e]
    /\ UNCHANGED <<muxVars, from_stream, into, taskVars, envVars>>

GotDataRefused(e) ==
    LET s == Head(rx[e]).s IN
    /\ Takes(e, "Data")
    /\ s \in tracked[e] /\ ~Receiving(e, s)
    /\ Remove(e, s)
    /\ UNCHANGED <<mux, held, next_id, interrupted, from_stream, into, reader, envVars>>

\* A stream's channel is unbounded; mutant: it holds one message, and the run
\* loop waits for room.
bounded(e, s) == writer[e][s].queue = <<>>
unbounded(e, s) == TRUE

\* data(): the message goes into the stream's channel, whose other end may take it
\* at once.
GotData(e) ==
    LET m == Head(rx[e])
        s == m.s
    IN
    /\ Takes(e, "Data")
    /\ s \in tracked[e] /\ Receiving(e, s)
    /\ unbounded(e, s)
    /\ writer' = [writer EXCEPT ![e][s].queue = Append(@, m.n)]
    /\ mux' = [mux EXCEPT ![e] = "count"]
    /\ held' = [held EXCEPT ![e] = Msg("Pause", s)]
    /\ UNCHANGED <<next_id, tracked, interrupted, from_stream, into, task, reader, flow, envVars>>

\* The handler goes on, or is left when PAUSE is not due.
GoesOn(e, more, to) ==
    /\ mux' = [mux EXCEPT ![e] = IF more THEN to ELSE "select"]
    /\ held' = [held EXCEPT ![e] = IF more THEN @ ELSE NoMsg]

\* fetch_add(1): is the count at the high-water mark now?
DataCount(e) ==
    LET s == held[e].s IN
    /\ mux[e] = "count"
    /\ flow' = [flow EXCEPT ![e][s].pending = @ + 1]
    /\ GoesOn(e, flow[e][s].pending + 1 >= HighWater, "swap")
    /\ UNCHANGED <<next_id, tracked, interrupted, chanVars, task, reader, writer, envVars>>

\* sent_pause.swap(true)
DataSwap(e) ==
    LET s == held[e].s IN
    /\ mux[e] = "swap"
    /\ flow' = [flow EXCEPT ![e][s].sent_pause = TRUE]
    /\ GoesOn(e, ~flow[e][s].sent_pause, "pause")
    /\ UNCHANGED <<next_id, tracked, interrupted, chanVars, task, reader, writer, envVars>>

\* try_send finds no room.
full(e) == Len(into[e]) >= IntoCap

\* The PAUSE, or the flag is reset when the channel is full; where the link has
\* ended, run returns with the error.
TrySendPause(e) ==
    LET s == held[e].s IN
    /\ mux[e] = "pause"
    /\ into' = [into EXCEPT ![e] = IF linked[e] /\ ~full(e) THEN Append(@, held[e]) ELSE @]
    /\ flow' = [flow EXCEPT ![e][s].sent_pause = ~(linked[e] /\ full(e)) /\ @]
    /\ mux' = [mux EXCEPT ![e] = IF linked[e] THEN "select" ELSE "stopped"]
    /\ held' = [held EXCEPT ![e] = NoMsg]
    /\ UNCHANGED <<next_id, tracked, interrupted, from_stream, rx, task, reader, writer, envVars>>

-----------------------------------------------------------------------------
(* The run loops.                                                          *)

\* The client accepts a connection; the Connect goes into the link first; mutant:
\* the number is not used up.
AcceptSameId ==
    /\ mux["client"] = "select"
    /\ next_id \in Streams
    /\ held' = [held EXCEPT !["client"] = Msg("Connect", next_id)]
    /\ mux' = [mux EXCEPT !["client"] = "sending"]
    /\ UNCHANGED <<next_id, tracked, interrupted, chanVars, taskVars, envVars>>
Accept ==
    /\ mux["client"] = "select"
    /\ next_id \in Streams
    /\ next_id' = next_id + 1
    /\ held' = [held EXCEPT !["client"] = Msg("Connect", next_id)]
    /\ mux' = [mux EXCEPT !["client"] = "sending"]
    /\ UNCHANGED <<tracked, interrupted, chanVars, taskVars, envVars>>

\* What the streams send is passed on.
Forward(e) ==
    /\ mux[e] = "select"
    /\ from_stream[e] # <<>>
    /\ held' = [held EXCEPT ![e] = Head(from_stream[e])]
    /\ from_stream' = [from_stream EXCEPT ![e] = Tail(@)]
    /\ mux' = [mux EXCEPT ![e] = "sending"]
    /\ UNCHANGED <<next_id, tracked, interrupted, into, rx, taskVars, envVars>>

\* send() into the link is where a run loop blocks, deaf to everything else.
MuxSends(e) ==
    /\ mux[e] = "sending"
    /\ linked[e] /\ Len(into[e]) < IntoCap
    /\ into' = [into EXCEPT ![e] = Append(@, held[e])]
    /\ held' = [held EXCEPT ![e] = NoMsg]
    /\ mux' = [mux EXCEPT ![e] = "select"]
    /\ IF held[e].type = "Connect"
          THEN NewStream(e, held[e].s)
          ELSE UNCHANGED <<tracked, taskVars>>
    /\ UNCHANGED <<next_id, interrupted, from_stream, rx, envVars>>

MuxCancelled(e) ==
    /\ mux[e] = "select"
    /\ cancelled[e]
    /\ mux' = [mux EXCEPT ![e] = "stopped"]
    /\ interrupted' = [interrupted EXCEPT ![e] = TRUE]
    /\ UNCHANGED <<held, next_id, tracked, chanVars, taskVars, envVars>>

\* The link has ended: send() or recv() fails, and run returns with the error;
\* mutant: send() is tried again.
MuxFailsAtRecv(e) ==
    /\ ~linked[e]
    /\ mux[e] = "select" /\ rx[e] = <<>>
    /\ mux' = [mux EXCEPT ![e] = "stopped"]
    /\ UNCHANGED <<held, next_id, tracked, interrupted, chanVars, taskVars, envVars>>
MuxFails(e) ==
    /\ ~linked[e]
    /\ mux[e] = "sending" \/ (mux[e] = "select" /\ rx[e] = <<>>)
    /\ mux' = [mux EXCEPT ![e] = "stopped"]
    /\ UNCHANGED <<held, next_id, tracked, interrupted, chanVars, taskVars, envVars>>

\* The multiplexer is dropped, and with it the streams' channels.
Dropped(e) ==
    /\ mux' = [mux EXCEPT ![e] = "dropped"]
    /\ held' = [held EXCEPT ![e] = NoMsg]
    /\ tracked' = [tracked EXCEPT ![e] = {}]
    /\ from_stream' = [from_stream EXCEPT ![e] = <<>>]
    /\ rx' = [rx EXCEPT ![e] = <<>>]
    /\ UNCHANGED <<next_id, interrupted, into, taskVars, cancelled, linked>>

\* Its owner keeps it until the link has ended, too.
Drop(e) ==
    /\ mux[e] = "stopped" /\ ~linked[e]
    /\ Dropped(e)
    /\ UNCHANGED faults

\* The client's listener fails: the error goes through run and run_client at once.
AcceptFails ==
    /\ Fault
    /\ mux["client"] = "select"
    /\ Dropped("client")

-----------------------------------------------------------------------------
(* The reconnecting streams and the owner of the cancellation tokens.      *)

\* What the receiving end's multiplexer will never take stays in the link.
Deliver(e) ==
    /\ linked[e] /\ linked[Peer(e)] /\ mux[Peer(e)] # "dropped"
    /\ into[e] # <<>>
    /\ into' = [into EXCEPT ![e] = Tail(@)]
    /\ rx' = [rx EXCEPT ![Peer(e)] = Append(@, Head(into[e]))]
    /\ UNCHANGED <<muxVars, from_stream, taskVars, envVars>>

\* The tokens of the client's streams are children of the one that run gets.
Cancel(e) ==
    /\ Fault
    /\ ~cancelled[e]
    /\ cancelled' = [cancelled EXCEPT ![e] = TRUE]
    /\ interrupted' = [interrupted EXCEPT ![e] = @ \/ e = "client"]
    /\ UNCHANGED <<mux, held, next_id, tracked, chanVars, taskVars, linked>>

\* Nothing but its token ends it: when its sender is dropped it goes on reconnecting.
LinkEnds(e) ==
    /\ linked[e] /\ cancelled[e]
    /\ linked' = [linked EXCEPT ![e] = FALSE]
    /\ UNCHANGED <<muxVars, chanVars, taskVars, cancelled, faults>>

\* The server's listener fails: tokio_main cancels the multiplexer.
LinkFails ==
    /\ Fault
    /\ linked["server"]
    /\ linked' = [linked EXCEPT !["server"] = FALSE]
    /\ cancelled' = [cancelled EXCEPT !["server"] = TRUE]
    /\ UNCHANGED <<muxVars, chanVars, taskVars>>

-----------------------------------------------------------------------------

ReadTask(e, s)   == ReadSends(e, s) \/ ReadResumes(e, s) \/ ReadCancelled(e, s)
WriteTask(e, s)  == \/ WriteReceives(e, s) \/ WriteSwap(e, s)
                    \/ WriteSendsResume(e, s) \/ WriteCancelled(e, s)
StreamTask(e, s) == TaskEnds(e, s) \/ TaskWaits(e, s) \/ TaskSendsDisconnect(e, s)
Connects(e, s)   == TaskConnects(e, s) \/ TaskConnectFails(e, s)
Sockets(e, s)    == ReadData(e, s) \/ ReadEnds(e, s) \/ WriteFails(e, s)

Receive(e) ==
    \/ e = "server" /\ GotConnect
    \/ GotDisconnect(e) \/ GotPause(e) \/ GotResume(e)
    \/ GotDataUnknown(e) \/ GotDataRefused(e) \/ GotData(e)

Backpressure(e) == DataCount(e) \/ DataSwap(e) \/ TrySendPause(e)

Run(e) ==
    \/ Receive(e) \/ Backpressure(e) \/ Forward(e) \/ MuxSends(e)
    \/ MuxCancelled(e) \/ MuxFails(e) \/ Drop(e)

Link(e) == Deliver(e) \/ LinkEnds(e)

Next ==
    \/ Accept \/ AcceptFails \/ LinkFails
    \/ \E e \in Ends :
          \/ Run(e) \/ Link(e) \/ Cancel(e)
          \/ \E s \in Streams :
                \/ ReadTask(e, s) \/ WriteTask(e, s) \/ StreamTask(e, s)
                \/ Connects(e, s) \/ Sockets(e, s) \/ WriteDone(e, s)

Spec == Init /\ [][Next]_vars

\* What happens if it can: the runtime polls the tasks, the links deliver, and end
\* when cancelled, an attempt to connect comes to a result, and a socket takes
\* data unless its stream is a stuck one.  Nothing obliges an application to
\* connect, to send or to close.
Polled ==
    \E e \in Ends :
        \/ Run(e) \/ Link(e)
        \/ \E s \in Streams :
              \/ ReadTask(e, s) \/ WriteTask(e, s) \/ Connects(e, s) \/ StreamTask(e, s)
              \/ s \notin Stuck /\ WriteDone(e, s)

\* Each of these steps uses up a message or a phase of a task, of which there are
\* finitely many, so that none of them can keep another one waiting for ever, and
\* one fairness condition for all of them does.
FairSpec == Spec /\ WF_vars(Polled)

-----------------------------------------------------------------------------
(* Properties.                                                             *)

\* Type correctness.
TypeOK ==
    /\ mux \in [Ends -> {"select", "sending", "count", "swap", "pause", "stopped", "dropped"}]
    /\ held \in [Ends -> ChannelMessage \cup {NoMsg}]
    /\ \A e \in Ends : mux[e] = "sending" => held[e] # NoMsg
    /\ next_id \in 1 .. MaxStreams + 1
    /\ tracked \in [Ends -> SUBSET Streams]
    /\ interrupted \in [Ends -> BOOLEAN]
    /\ from_stream \in [Ends -> Seq(ChannelMessage)]
    /\ into \in [Ends -> Seq(ChannelMessage)]
    /\ rx \in [Ends -> Seq(ChannelMessage)]
    /\ \A e \in Ends : Len(from_stream[e]) <= StreamCap /\ Len(into[e]) <= IntoCap
    /\ task \in [Ends -> [Streams ->
          [pc : {"none", "connecting", "running", "ending", "waiting", "ended"},
           done : BOOLEAN]]]
    /\ reader \in [Ends -> [Streams ->
          [pc : {"none", "reading", "sending", "paused", "ended"},
           n : Nat, paused : BOOLEAN]]]
    /\ writer \in [Ends -> [Streams ->
          [pc : {"none", "recv", "writing", "swap", "resume", "ended"},
           queue : Seq(Nat), written : Seq(Nat)]]]
    /\ flow \in [Ends -> [Streams -> [pending : Int, sent_pause : BOOLEAN]]]
    /\ \A e \in Ends, s \in Streams :
          writer[e][s].pc = "writing" => writer[e][s].queue # <<>>
    /\ cancelled \in [Ends -> BOOLEAN]
    /\ linked \in [Ends -> BOOLEAN]
    /\ faults \in 0 .. MaxFaults

\* Whatever way a stream ends, and whatever the other streams do, what comes out
\* of it is a beginning of what went in, nothing left out in between.
InOrder ==
    \A e \in Ends, s \in Streams :
        LET written == writer[Peer(e)][s].written IN
        /\ written = [k \in 1 .. Len(written) |-> k]
        /\ Len(written) <= reader[e][s].n

\* A stream is introduced before it is talked about: each Connect meets an id that
\* the server does not know, and anything else an id that it was told of.
ConnectedFirst ==
    /\ rx["server"] # <<>> =>
          LET m == Head(rx["server"]) IN
          (m.type = "Connect") <=> (task["server"][m.s].pc = "none")
    /\ \A k \in 1 .. Len(rx["client"]) :
          rx["client"][k].type # "Connect" /\ task["client"][rx["client"][k].s].pc # "none"

\* An end of a stream is not brought back: none of its tasks runs again when it has
\* ended, nothing more is written then, and what the tracker has forgotten it does not
\* track again.  No late Data, PAUSE or RESUME, and no Connect, finds the id free.
StaysEnded ==
    [][\A e \in Ends, s \in Streams :
          /\ task[e][s].pc = "ended" => task'[e][s].pc = "ended"
          /\ reader[e][s].pc = "ended" => reader'[e][s].pc = "ended"
          /\ writer[e][s].pc = "ended" =>
                writer'[e][s].pc = "ended" /\ writer'[e][s].written = writer[e][s].written
          /\ s \in tracked'[e] => s \in tracked[e] \/ task[e][s].pc = "none"]_vars

\* The stream is no longer whole at one of its ends.
Over(s) == \E e \in Ends : task[e][s].pc \in {"ending", "waiting", "ended"} \/ cancelled[e]

\* No cycle of full channels stops the tunnel: what was read at one end is written
\* at the other in the end, if the stream is whole, also past other streams whose
\* sockets take nothing (test_slow_stream_does_not_block_others).
DataGetsThrough ==
    <>[](\A e \in Ends, s \in Streams \ Stuck :
            Len(writer[Peer(e)][s].written) = reader[e][s].n \/ Over(s))

\* No pause is forgotten, in whatever order the count, the flag and full channels are
\* met: a read task that stays paused does so because the other end remembers to have
\* paused it.  (FlowControl's DrainedIsResumed is about whether it will think of it.)
PausedIsRemembered ==
    <>[](\A e \in Ends, s \in Streams :
            reader[e][s].pc = "paused" => flow[Peer(e)][s].sent_pause \/ Over(s))

\* A cancelled multiplexer stops, also when it waits to send into a link that is
\* cancelled with it, and leaves no task of a stream behind.
Stopped(e) ==
    /\ mux[e] = "dropped"
    /\ \A s \in Streams : /\ task[e][s].pc \in {"none", "ended"}
                          /\ reader[e][s].pc \in {"none", "ended"}
                          /\ writer[e][s].pc \in {"none", "ended"}
CancelledEnds == <>[](\A e \in Ends : cancelled[e] => Stopped(e))

\* tests/stream_multiplexer.rs:270, all data should eventually arrive, nothing is
\* dropped: where no socket fails and nobody cancels, a stream that one
\* application closes and the other does not is not taken down at the other end
\* before all that was sent is written.
CloseKeepsData ==
    \A e \in Ends, s \in Streams :
        LET f == Peer(e) IN
        reader[e][s].pc = "ended" /\ reader[f][s].pc # "ended" /\ writer[f][s].pc = "ended"
            => Len(writer[f][s].written) = reader[e][s].n

-----------------------------------------------------------------------------

\* The phase of a half of an end of a stream: of the stream's task, then of its own.
PhaseOf(t, pc) ==
    IF t = "none" THEN "none"
    ELSE IF t = "connecting" THEN "opening"
    ELSE IF pc \in {"none", "ended"} THEN "ended"
    ELSE "open"

\* What its two sockets see of a stream.
EndOf(e, s) ==
    [input  |-> PhaseOf(task[e][s].pc, reader[e][s].pc),
     output |-> PhaseOf(task[e][s].pc, writer[e][s].pc),
     taken  |-> reader[e][s].n,
     given  |-> writer[e][s].written]
View == [e \in Ends |-> [s \in Streams |-> EndOf(e, s)]]

\* The multiplexers implement the pipes: numbering and announcing streams, forwarding,
\* queueing, PAUSE, RESUME, Disconnect and what arrives after it are steps that no
\* socket can observe.
Pipes == INSTANCE StreamPipes WITH end <- View
PipesSpec == Pipes!Spec
=============================================================================
