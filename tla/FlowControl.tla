---------------------------- MODULE FlowControl ----------------------------
(***************************************************************************)
(* Backpressure of one direction of one multiplexed stream, in             *)
(* src/src/lib/stream_multiplexer.rs.  At one end of the tunnel the read   *)
(* task of the stream turns what it reads from its socket into Data        *)
(* messages; at the other end the multiplexer hands them to the write task *)
(* of the stream through an unbounded channel.  StreamFlowControl.pending  *)
(* counts what that channel holds; at HighWater the multiplexer sends      *)
(* PAUSE, and when the count has come down to LowWater the write task      *)
(* sends RESUME.                                                           *)
(*                                                                         *)
(* The runtime is multi-threaded and every access to the shared counter    *)
(* and flags is a relaxed atomic, so each of them is a step here and the   *)
(* four tasks interleave between them.  Control messages take two ways:    *)
(* PAUSE is put into the tunnel directly, RESUME first goes to the         *)
(* multiplexer through the channel of all streams.                         *)
(*                                                                         *)
(* The stream stays open: closing it is not part of this module.  The      *)
(* tunnel is the reliable link, one FIFO per direction.                    *)
(***************************************************************************)
EXTENDS Naturals, Sequences

CONSTANTS
    HighWater,      \* BACKPRESSURE_HIGH_WATER
    LowWater,       \* BACKPRESSURE_LOW_WATER
    UsizeMod,       \* usize counts modulo this
    OverflowChecks, \* the builds in view: TRUE if an overflowing + panics (debug)
    MayBeFull,      \* other streams may fill the channel into the tunnel
    MaxData         \* bound: messages the read task gets to read

ASSUME WaterAssumption == /\ HighWater \in Nat /\ LowWater \in Nat
                          /\ LowWater < HighWater
ASSUME WordAssumption  == /\ MaxData \in Nat /\ UsizeMod \in Nat
                          /\ MaxData + 1 < UsizeMod /\ HighWater < UsizeMod
ASSUME BuildAssumption == /\ OverflowChecks \subseteq BOOLEAN /\ OverflowChecks # {}
                          /\ MayBeFull \in BOOLEAN

VARIABLES
    \* the sending end
    nread,        \* messages read and sent so far
    read_pc,      \* the read task
    read_paused,
    permit,       \* of read_resume_notify
    peer_pc,      \* the sending end's multiplexer
    \* the tunnel
    tunnel,       \* number of Data messages on their way
    back,         \* control messages on their way to the sending end
    \* the receiving end
    mux_pc,       \* the multiplexer
    queue,        \* number of messages in the stream's unbounded channel
    pending,
    sent_pause,
    write_pc,     \* the write task
    resumes       \* number of RESUMEs in the channel to the multiplexer

readVars == <<nread, read_pc, read_paused, permit, peer_pc>>
muxVars  == <<mux_pc, queue, pending, sent_pause>>
vars == <<readVars, tunnel, back, muxVars, write_pc, resumes>>

Init ==
    /\ nread = 0 /\ read_pc = "check" /\ read_paused = FALSE /\ permit = FALSE
    /\ peer_pc = "recv"
    /\ tunnel = 0 /\ back = <<>>
    /\ mux_pc = "recv" /\ queue = 0 /\ pending = 0 /\ sent_pause = FALSE
    /\ write_pc = "recv" /\ resumes = 0

\* fetch_add(1) and fetch_sub(1) wrap.
StuckIncremented(n) == IF n = UsizeMod - 1 THEN n ELSE n + 1   \* mutant: saturates
Incremented(n) == IF n = UsizeMod - 1 THEN 0 ELSE n + 1
BareDecremented(n) == n - 1                            \* mutant: no wrap
Decremented(n) == IF n = 0 THEN UsizeMod - 1 ELSE n - 1

-----------------------------------------------------------------------------
(* The read task.                                                          *)

ReadChecks ==
    /\ read_pc = "check"
    /\ read_pc' = IF read_paused THEN "waiting" ELSE "reading"
    /\ UNCHANGED <<nread, read_paused, permit, peer_pc, tunnel, back, muxVars,
                   write_pc, resumes>>

ReadNotified ==
    /\ read_pc = "waiting"
    /\ permit
    /\ permit' = FALSE
    /\ read_pc' = "check"
    /\ UNCHANGED <<nread, read_paused, peer_pc, tunnel, back, muxVars, write_pc, resumes>>

ReadSends ==
    /\ read_pc = "reading"
    /\ nread < MaxData
    /\ nread' = nread + 1
    /\ tunnel' = tunnel + 1
    /\ read_pc' = "check"
    /\ UNCHANGED <<read_paused, permit, peer_pc, back, muxVars, write_pc, resumes>>

-----------------------------------------------------------------------------
(* The multiplexer of the sending end.                                     *)

PauseRead ==
    /\ peer_pc = "recv"
    /\ back # <<>> /\ Head(back) = "Pause"
    /\ back' = Tail(back)
    /\ read_paused' = TRUE
    /\ UNCHANGED <<nread, read_pc, permit, peer_pc, tunnel, muxVars, write_pc, resumes>>

\* resume_read: first the flag, then the notification.
ResumeRead ==
    /\ peer_pc = "recv"
    /\ back # <<>> /\ Head(back) = "Resume"
    /\ back' = Tail(back)
    /\ read_paused' = FALSE
    /\ peer_pc' = "notify"
    /\ UNCHANGED <<nread, read_pc, permit, tunnel, muxVars, write_pc, resumes>>

\* mutant: notify_waiters, which a read task misses that has looked at the flag
\* and does not wait yet
NotifyWaiters ==
    /\ peer_pc = "notify"
    /\ permit' \in {permit, TRUE}
    /\ peer_pc' = "recv"
    /\ UNCHANGED <<nread, read_pc, read_paused, tunnel, back, muxVars, write_pc, resumes>>
NotifyOne ==
    /\ peer_pc = "notify"
    /\ permit' = TRUE
    /\ peer_pc' = "recv"
    /\ UNCHANGED <<nread, read_pc, read_paused, tunnel, back, muxVars, write_pc, resumes>>

-----------------------------------------------------------------------------
(* The multiplexer of the receiving end: OngoingStreamTracker::data, and   *)
(* the run loop's forwarding of what its streams send.                     *)

DataSend ==
    /\ mux_pc = "recv"
    /\ tunnel > 0
    /\ tunnel' = tunnel - 1
    /\ queue' = queue + 1
    /\ mux_pc' = "sent"
    /\ UNCHANGED <<readVars, back, pending, sent_pause, write_pc, resumes>>

\* `fetch_add(1) + 1`: the sum is taken in full width, so that it overflows when
\* the counter has wrapped.
DataCount ==
    /\ mux_pc = "sent"
    /\ pending' = Incremented(pending)
    /\ \E checked \in OverflowChecks :
          mux_pc' = CASE pending = UsizeMod - 1 /\ checked -> "panicked"
                      [] pending' >= HighWater -> "swap"
                      [] OTHER -> "recv"
    /\ UNCHANGED <<readVars, tunnel, back, queue, sent_pause, write_pc, resumes>>

DataSwap ==
    /\ mux_pc = "swap"
    /\ mux_pc' = IF sent_pause THEN "recv" ELSE "pause"
    /\ sent_pause' = TRUE
    /\ UNCHANGED <<readVars, tunnel, back, queue, pending, write_pc, resumes>>

\* try_send: the PAUSE, or, when the channel is full, sent_pause is reset.
TrySendPause ==
    /\ mux_pc = "pause"
    /\ mux_pc' = "recv"
    /\ \/ back' = Append(back, "Pause") /\ UNCHANGED sent_pause
       \/ MayBeFull /\ sent_pause' = FALSE /\ UNCHANGED back
    /\ UNCHANGED <<readVars, tunnel, queue, pending, write_pc, resumes>>

ForwardResume ==
    /\ mux_pc = "recv"
    /\ resumes > 0
    /\ resumes' = resumes - 1
    /\ back' = Append(back, "Resume")
    /\ UNCHANGED <<readVars, tunnel, muxVars, write_pc>>

-----------------------------------------------------------------------------
(* The write task.                                                         *)

WriteReceives ==
    /\ write_pc = "recv"
    /\ queue > 0
    /\ queue' = queue - 1
    /\ write_pc' = "write"
    /\ UNCHANGED <<readVars, tunnel, back, mux_pc, pending, sent_pause, resumes>>

\* write_all to the socket and fetch_sub(1); prev is the count before.
WriteCounts ==
    /\ write_pc = "write"
    /\ pending' = Decremented(pending)
    /\ write_pc' = IF pending <= LowWater THEN "swap" ELSE "recv"
    /\ UNCHANGED <<readVars, tunnel, back, mux_pc, queue, sent_pause, resumes>>

WriteSwap ==
    /\ write_pc = "swap"
    /\ write_pc' = IF sent_pause THEN "resume" ELSE "recv"
    /\ sent_pause' = FALSE
    /\ UNCHANGED <<readVars, tunnel, back, mux_pc, queue, pending, resumes>>

\* mutant: try_send, and the RESUME is dropped when the channel is full
WriteTriesResume ==
    /\ write_pc = "resume"
    /\ resumes' \in {resumes, resumes + 1}
    /\ write_pc' = "recv"
    /\ UNCHANGED <<readVars, tunnel, back, muxVars>>
WriteSendsResume ==
    /\ write_pc = "resume"
    /\ resumes' = resumes + 1
    /\ write_pc' = "recv"
    /\ UNCHANGED <<readVars, tunnel, back, muxVars>>

-----------------------------------------------------------------------------

Read  == ReadChecks \/ ReadNotified \/ ReadSends
Peer  == PauseRead \/ ResumeRead \/ NotifyOne
Mux   == DataSend \/ DataCount \/ DataSwap \/ TrySendPause \/ ForwardResume
Write == WriteReceives \/ WriteCounts \/ WriteSwap \/ WriteSendsResume

Next == Read \/ Peer \/ Mux \/ Write

Spec == Init /\ [][Next]_vars

\* The runtime polls every task that can make progress, the peer of the write
\* task's socket reads.
FairSpec ==
    /\ Spec
    /\ WF_vars(ReadChecks \/ ReadNotified) /\ WF_vars(Peer) /\ WF_vars(Mux)
    /\ WF_vars(Write)

-----------------------------------------------------------------------------
(* Properties.                                                             *)

\* Type correctness.
TypeOK ==
    /\ nread \in 0 .. MaxData
    /\ read_pc \in {"check", "waiting", "reading"}
    /\ read_paused \in BOOLEAN /\ permit \in BOOLEAN
    /\ peer_pc \in {"recv", "notify"}
    /\ tunnel \in Nat
    /\ back \in Seq({"Pause", "Resume"})
    /\ mux_pc \in {"recv", "sent", "swap", "pause", "panicked"}
    /\ queue \in Nat
    /\ pending \in 0 .. UsizeMod - 1
    /\ sent_pause \in BOOLEAN
    /\ write_pc \in {"recv", "write", "swap", "resume"}
    /\ resumes \in Nat

\* The counter is never wrong for longer than the multiplexer needs from its
\* send to its fetch_add: whatever the two tasks' order, and although the counter
\* may wrap in between, it then is the number of messages not yet written.
PendingAgrees ==
    (IF mux_pc = "sent" THEN Incremented(pending) ELSE pending)
        = queue + (IF write_pc = "write" THEN 1 ELSE 0)

\* No control message is on its way or about to be sent.
Settled ==
    /\ back = <<>> /\ resumes = 0 /\ peer_pc = "recv"
    /\ write_pc # "resume" /\ mux_pc # "pause"

\* A sending end that is paused is never forgotten: the receiving end remembers
\* that it owes a RESUME.
PausedIsKnown == Settled /\ read_paused => sent_pause

\* A resumed read task that still waits has a notification to wait for.
NoLostWakeup ==
    read_pc = "waiting" /\ ~read_paused => permit \/ peer_pc = "notify"

\* A RESUME that arrives gets the read task going, or a PAUSE has followed it.
ResumeWakes ==
    (read_pc = "waiting" /\ ~read_paused) ~> (read_pc # "waiting" \/ read_paused)

\* stream_multiplexer.rs:87: once a paused stream drains below LowWater, RESUME
\* is sent, so that it does not stay paused with nothing to drain.
DrainedIsResumed ==
    (read_paused /\ queue < LowWater) ~> (~read_paused \/ queue >= LowWater)
=============================================================================
