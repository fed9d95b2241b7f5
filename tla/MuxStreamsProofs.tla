--------------------------- MODULE MuxStreamsProofs ---------------------------
(***************************************************************************)
(* MuxInv is an invariant of MuxStreams, what follows from it, and that    *)
(* the multiplexers implement the pipes of StreamPipes.                    *)
(***************************************************************************)
EXTENDS MuxInvariant, SequenceTheorems, TLAPS

-----------------------------------------------------------------------------
(* Messages and types.                                                     *)

Controls == {"Connect", "Disconnect", "Pause", "Resume"}
TaskType == [pc : {"none", "connecting", "running", "ending", "waiting", "ended"}, done : BOOLEAN]
ReaderType == [pc : {"none", "reading", "sending", "paused", "ended"}, n : Nat, paused : BOOLEAN]
WriterType == [pc : {"none", "recv", "writing", "swap", "resume", "ended"},
               queue : Seq(Nat), written : Seq(Nat)]
FlowType == [pending : Int, sent_pause : BOOLEAN]
FlowTypes == flow \in [Ends -> [Streams -> FlowType]]

\* The messages of a stream, and NoMsg, are told apart by their fields.
LEMMA Messages ==
    /\ \A s \in Streams, t \in Controls :
          /\ Msg(t, s) \in ChannelMessage /\ Msg(t, s) # NoMsg
          /\ Msg(t, s).type = t /\ Msg(t, s).s = s /\ t # "Data"
    /\ \A s \in Streams, n \in Nat :
          /\ Data(s, n) \in ChannelMessage /\ Data(s, n) # NoMsg
          /\ Data(s, n).type = "Data" /\ Data(s, n).s = s /\ Data(s, n).n = n
    /\ \A m \in ChannelMessage :
          /\ m # NoMsg /\ m.s \in Streams /\ m.type \in Controls \cup {"Data"}
          /\ m.type = "Data" => m.n \in Nat /\ m = Data(m.s, m.n)
<1>1. \A s \in Streams, t \in Controls :
          /\ Msg(t, s) \in ChannelMessage /\ Msg(t, s) # NoMsg
          /\ Msg(t, s).type = t /\ Msg(t, s).s = s /\ t # "Data"
  BY DEF Msg, ChannelMessage, Control, Controls, NoMsg
<1>2. \A s \in Streams, n \in Nat :
          /\ Data(s, n) \in ChannelMessage /\ Data(s, n) # NoMsg
          /\ Data(s, n).type = "Data" /\ Data(s, n).s = s /\ Data(s, n).n = n
  BY DEF Data, ChannelMessage, NoMsg
<1>3. ASSUME NEW m \in ChannelMessage
      PROVE  /\ m # NoMsg /\ m.s \in Streams /\ m.type \in Controls \cup {"Data"}
             /\ m.type = "Data" => m.n \in Nat /\ m = Data(m.s, m.n)
  <2>1. CASE m \in Control
    BY <2>1 DEF Control, Controls, NoMsg
  <2>2. CASE m \in [type : {"Data"}, s : Streams, n : Nat]
    BY <2>2 DEF Data, NoMsg
  <2> QED
    BY <2>1, <2>2 DEF ChannelMessage
<1> QED
  BY <1>1, <1>2, <1>3

\* Each end has one peer, and is its.
LEMMA PeerProperties ==
    \A e \in Ends : Peer(e) \in Ends /\ Peer(e) # e /\ Peer(Peer(e)) = e
BY DEF Ends, Peer

\* The types of TypeOK by their names.
LEMMA Types ==
    TypeOK <=>
      /\ mux \in [Ends -> {"select", "sending", "count", "swap", "pause", "stopped", "dropped"}]
      /\ held \in [Ends -> ChannelMessage \cup {NoMsg}]
      /\ \A e \in Ends : mux[e] = "sending" => held[e] # NoMsg
      /\ next_id \in 1 .. MaxStreams + 1
      /\ tracked \in [Ends -> SUBSET Streams]
      /\ interrupted \in [Ends -> BOOLEAN]
      /\ from_stream \in [Ends -> Seq(ChannelMessage)]
      /\ into \in [Ends -> Seq(ChannelMessage)]
      /\ rx \in [Ends -> Seq(ChannelMessage)]
      /\ \A e \in Ends : Len(from_stream[e]) <= StreamCap /\ Len(into[e]) <= IntoCap
      /\ task \in [Ends -> [Streams -> TaskType]]
      /\ reader \in [Ends -> [Streams -> ReaderType]]
      /\ writer \in [Ends -> [Streams -> WriterType]] /\ FlowTypes
      /\ \A e \in Ends, s \in Streams : writer[e][s].pc = "writing" => writer[e][s].queue # <<>>
      /\ cancelled \in [Ends -> BOOLEAN]
      /\ linked \in [Ends -> BOOLEAN]
      /\ faults \in 0 .. MaxFaults
BY DEF TypeOK, TaskType, ReaderType, WriterType, FlowTypes, FlowType

\* The initial state has its type.
LEMMA TypeInit == Init => TypeOK
<1> SUFFICES ASSUME Init PROVE TypeOK
  OBVIOUS
<1>1. Len(<<>>) = 0 /\ StreamCap \in Nat /\ IntoCap \in Nat /\ MaxStreams \in Nat /\ MaxFaults \in Nat
  BY CapAssumption, BoundAssumption
<1>2. task \in [Ends -> [Streams -> TaskType]]
  BY DEF Init, PerStream, TaskType
<1>3. reader \in [Ends -> [Streams -> ReaderType]]
  BY DEF Init, PerStream, ReaderType
<1>4. writer \in [Ends -> [Streams -> WriterType]]
  BY DEF Init, PerStream, WriterType
<1>5. FlowTypes /\ \A e \in Ends, s \in Streams : writer[e][s].pc = "none"
  BY DEF Init, PerStream, FlowTypes, FlowType
<1> QED
  BY <1>1, <1>2, <1>3, <1>4, <1>5, Types DEF Init

-----------------------------------------------------------------------------
(* The types are kept.                                                     *)

\* A record of a stream at an end is replaced, or every end has the value it had.
LEMMA Update ==
    ASSUME NEW T, NEW f \in [Ends -> [Streams -> T]], NEW e \in Ends, NEW s \in Streams, NEW v \in T
    PROVE  LET g == [f EXCEPT ![e][s] = v] IN
           /\ g \in [Ends -> [Streams -> T]] /\ g[e][s] = v
           /\ \A d \in Ends, r \in Streams : d # e \/ r # s => g[d][r] = f[d][r]
OBVIOUS

\* The channel of all streams takes a message when there is room.
LEMMA PostType ==
    ASSUME TypeOK, NEW e \in Ends, NEW m \in ChannelMessage, Post(e, m)
    PROVE  /\ from_stream' \in [Ends -> Seq(ChannelMessage)]
           /\ \A d \in Ends : Len(from_stream'[d]) <= StreamCap
           /\ from_stream'[e] = Append(from_stream[e], m)
           /\ \A d \in Ends : d # e => from_stream'[d] = from_stream[d]
           /\ mux[e] # "dropped"
<1>1. from_stream \in [Ends -> Seq(ChannelMessage)] /\ StreamCap \in Nat
      /\ \A d \in Ends : Len(from_stream[d]) <= StreamCap
  BY CapAssumption DEF TypeOK
<1>2. Len(from_stream[e]) \in Nat /\ Len(from_stream[e]) < StreamCap /\ mux[e] # "dropped"
  BY <1>1 DEF Post, Room
<1>3. Len(Append(from_stream[e], m)) = Len(from_stream[e]) + 1
  BY <1>1
<1> QED
  BY <1>1, <1>2, <1>3 DEF Post

\* What a step of a read task does to its record and the channel of the streams.
LEMMA ReadTypes ==
    ASSUME TypeOK, NEW e \in Ends, NEW s \in Streams,
           ReadTask(e, s) \/ ReadData(e, s) \/ ReadEnds(e, s)
    PROVE  /\ reader' \in [Ends -> [Streams -> ReaderType]]
           /\ \A d \in Ends, r \in Streams : d # e \/ r # s => reader'[d][r] = reader[d][r]
           /\ UNCHANGED <<muxVars, into, rx, task, writer, envVars>>
           /\ \/ reader[e][s].pc = "sending" /\ reader'[e][s].n = reader[e][s].n
                 /\ reader'[e][s].pc # "none"
                 /\ reader'[e][s].pc # "sending" /\ Post(e, Data(s, reader[e][s].n))
              \/ /\ reader[e][s].pc \in {"reading", "paused"} /\ UNCHANGED from_stream
                 /\ reader'[e][s].n = reader[e][s].n
                 /\ reader'[e][s].pc \in {"reading", "ended"}
              \/ /\ reader[e][s].pc = "sending" /\ UNCHANGED from_stream
                 /\ reader'[e][s].n = reader[e][s].n
                 /\ reader'[e][s].pc = "ended" /\ mux[e] = "dropped"
              \/ /\ reader[e][s].pc = "reading" /\ UNCHANGED from_stream
                 /\ reader'[e][s].n = reader[e][s].n + 1
                 /\ reader'[e][s].pc = "sending"
<1>0. reader \in [Ends -> [Streams -> ReaderType]] /\ reader[e][s] \in ReaderType
  BY Types
<1>1. CASE ReadSends(e, s)
  <2> DEFINE p == IF reader[e][s].paused THEN "paused" ELSE "reading"
             v == [reader[e][s] EXCEPT !.pc = p]
  <2>1. v \in ReaderType /\ v.pc \in {"paused", "reading"} /\ v.n = reader[e][s].n
    BY <1>0 DEF ReaderType
  <2>2. reader' = [reader EXCEPT ![e][s] = v]
    BY <1>0, <1>1 DEF ReadSends, Reads
  <2> HIDE DEF v, p
  <2>3. /\ reader' \in [Ends -> [Streams -> ReaderType]] /\ reader'[e][s] = v
        /\ \A d \in Ends, r \in Streams : d # e \/ r # s => reader'[d][r] = reader[d][r]
    BY <1>0, <2>1, <2>2, Update
  <2> QED
    BY <1>1, <2>1, <2>3 DEF ReadSends, Reads
<1>2. CASE ReadResumes(e, s) \/ ReadCancelled(e, s) \/ ReadEnds(e, s)
  <2>1. PICK p \in {"reading", "ended"} : reader' = [reader EXCEPT ![e][s] = [reader[e][s] EXCEPT !.pc = p]]
            /\ (ReadResumes(e, s) => p = "reading") /\ (~ReadResumes(e, s) => p = "ended")
    BY <1>0, <1>2 DEF ReadResumes, ReadCancelled, ReadEnds, Reads
  <2> DEFINE v == [reader[e][s] EXCEPT !.pc = p]
  <2>2. v \in ReaderType /\ v.pc = p /\ v.n = reader[e][s].n
    BY <1>0 DEF ReaderType
  <2>3. reader' = [reader EXCEPT ![e][s] = v]
    BY <2>1
  <2> HIDE DEF v
  <2>4. /\ reader' \in [Ends -> [Streams -> ReaderType]] /\ reader'[e][s] = v
        /\ \A d \in Ends, r \in Streams : d # e \/ r # s => reader'[d][r] = reader[d][r]
    BY <1>0, <2>2, <2>3, Update
  <2> QED
    BY <1>2, <2>1, <2>2, <2>4 DEF ReadResumes, ReadCancelled, ReadEnds, Reads, chanVars
<1>3. CASE ReadData(e, s)
  <2> DEFINE v == [reader[e][s] EXCEPT !.pc = "sending", !.n = @ + 1]
  <2>0. PICK r \in ReaderType : r = reader[e][s]
    BY <1>0
  <2>1. v \in ReaderType /\ v.pc = "sending" /\ v.n = reader[e][s].n + 1
    <3>1. r.n \in Nat /\ r.n + 1 \in Nat /\ r.paused \in BOOLEAN /\ r = [pc |-> r.pc, n |-> r.n, paused |-> r.paused]
      BY DEF ReaderType
    <3>2. v.pc = "sending" /\ v.n = r.n + 1
      BY <2>0, <3>1 DEF ReaderType
    <3>3. v \in ReaderType
      <4>1. [r EXCEPT !.pc = "sending"] \in ReaderType
        BY DEF ReaderType
      <4>2. \A q \in ReaderType, k \in Nat : [q EXCEPT !.n = k] \in ReaderType
        BY DEF ReaderType
      <4>3. [r EXCEPT !.pc = "sending"].n = r.n
        BY DEF ReaderType
      <4> QED
        BY <2>0, <3>1, <4>1, <4>2, <4>3
    <3> QED
      BY <2>0, <3>2, <3>3
  <2>2. reader' = [reader EXCEPT ![e][s] = v]
    BY <1>0, <1>3 DEF ReadData
  <2> HIDE DEF v
  <2>3. /\ reader' \in [Ends -> [Streams -> ReaderType]] /\ reader'[e][s] = v
        /\ \A d \in Ends, k \in Streams : d # e \/ k # s => reader'[d][k] = reader[d][k]
    BY <1>0, <2>1, <2>2, Update
  <2> QED
    BY <1>3, <2>1, <2>3 DEF ReadData, chanVars
<1> QED
  BY <1>1, <1>2, <1>3 DEF ReadTask

\* The faults are counted up to their bound.
LEMMA FaultType ==
    ASSUME TypeOK, Fault PROVE faults' \in 0 .. MaxFaults
BY BoundAssumption DEF TypeOK, Fault

\* What changing a field of a writer's record makes of it.
LEMMA WriterFields ==
    ASSUME NEW w \in WriterType
    PROVE  /\ w.queue \in Seq(Nat) /\ w.written \in Seq(Nat)
           /\ \A p \in {"none", "recv", "writing", "swap", "resume", "ended"} :
                 LET v == [w EXCEPT !.pc = p] IN
                 v \in WriterType /\ v.pc = p /\ v.queue = w.queue /\ v.written = w.written
           /\ \A q \in Seq(Nat) :
                 LET v == [w EXCEPT !.queue = q] IN
                 v \in WriterType /\ v.pc = w.pc /\ v.queue = q /\ v.written = w.written
           /\ LET v == [w EXCEPT !.pc = "ended", !.queue = <<>>] IN
              v \in WriterType /\ v.pc = "ended" /\ v.queue = <<>> /\ v.written = w.written
<1>1. w.queue \in Seq(Nat) /\ w.written \in Seq(Nat)
  BY DEF WriterType
<1>2. ASSUME NEW x \in WriterType, NEW p \in {"none", "recv", "writing", "swap", "resume", "ended"}
      PROVE  LET v == [x EXCEPT !.pc = p] IN
             v \in WriterType /\ v.pc = p /\ v.queue = x.queue /\ v.written = x.written
  BY DEF WriterType
<1>3. ASSUME NEW x \in WriterType, NEW q \in Seq(Nat)
      PROVE  LET v == [x EXCEPT !.queue = q] IN
             v \in WriterType /\ v.pc = x.pc /\ v.queue = q /\ v.written = x.written
  BY DEF WriterType
<1>4. LET v == [w EXCEPT !.pc = "ended", !.queue = <<>>] IN
      v \in WriterType /\ v.pc = "ended" /\ v.queue = <<>> /\ v.written = w.written
  <2> DEFINE x == [w EXCEPT !.pc = "ended"]
             y == [x EXCEPT !.queue = <<>>]
  <2>1. x \in WriterType /\ x.pc = "ended" /\ x.queue = w.queue /\ x.written = w.written
    BY <1>2
  <2>2. y \in WriterType /\ y.pc = "ended" /\ y.queue = <<>> /\ y.written = w.written
    <3> HIDE DEF x
    <3>1. <<>> \in Seq(Nat)
      OBVIOUS
    <3> QED
      BY <1>3, <2>1, <3>1
  <2> QED
    BY <2>2
<1> QED
  BY <1>1, <1>2, <1>3, <1>4

\* What a step of a write task does to its record and the channel of the streams.
LEMMA WriteTypes ==
    ASSUME TypeOK, NEW e \in Ends, NEW s \in Streams,
           WriteTask(e, s) \/ WriteDone(e, s) \/ WriteFails(e, s)
    PROVE  LET w == writer[e][s]
               v == writer'[e][s]
           IN
           /\ writer' \in [Ends -> [Streams -> WriterType]]
           /\ \A d \in Ends, r \in Streams : d # e \/ r # s => writer'[d][r] = writer[d][r]
           /\ UNCHANGED <<muxVars, into, rx, task, reader, cancelled, linked>>
           /\ faults' \in 0 .. MaxFaults
           /\ v.pc \in {"recv", "writing", "swap", "resume", "ended"} /\ w.pc \in {"recv", "writing", "swap", "resume"}
           /\ \/ /\ v.written = w.written /\ v.queue = w.queue /\ UNCHANGED from_stream
                 /\ v.pc = "writing" /\ w.queue # <<>>
              \/ /\ w.queue # <<>> /\ v.queue = Tail(w.queue) /\ UNCHANGED from_stream
                 /\ v.written = Append(w.written, Head(w.queue))
                 /\ v.pc # "writing" /\ v.pc # "ended"
              \/ /\ v.written = w.written /\ v.queue = w.queue /\ v.pc \in {"recv", "resume"}
                 /\ UNCHANGED from_stream \/ Post(e, Msg("Resume", s))
              \/ /\ v.written = w.written /\ v.queue = <<>> /\ v.pc = "ended"
                 /\ UNCHANGED from_stream
<1>0. /\ writer \in [Ends -> [Streams -> WriterType]] /\ writer[e][s] \in WriterType
      /\ faults \in 0 .. MaxFaults /\ (writer[e][s].pc = "writing" => writer[e][s].queue # <<>>)
  BY Types
<1> DEFINE w == writer[e][s]
<1>1. CASE WriteReceives(e, s)
  <2> DEFINE v == [w EXCEPT !.pc = "writing"]
  <2>1. v \in WriterType /\ v.pc = "writing" /\ v.queue = w.queue /\ v.written = w.written
    BY <1>0, WriterFields
  <2>2. writer' = [writer EXCEPT ![e][s] = v]
    BY <1>0, <1>1 DEF WriteReceives
  <2> HIDE DEF v
  <2>3. /\ writer' \in [Ends -> [Streams -> WriterType]] /\ writer'[e][s] = v
        /\ \A d \in Ends, r \in Streams : d # e \/ r # s => writer'[d][r] = writer[d][r]
    BY <1>0, <2>1, <2>2, Update
  <2> QED
    BY <1>0, <1>1, <2>1, <2>3 DEF WriteReceives, chanVars, envVars
<1>2. CASE WriteDone(e, s)
  <2> DEFINE p == IF flow[e][s].pending <= LowWater THEN "swap" ELSE "recv"
             v == [pc |-> p, queue |-> Tail(w.queue), written |-> Append(w.written, Head(w.queue))]
  <2>1. w.pc = "writing" /\ w.queue # <<>>
    BY <1>0, <1>2 DEF WriteDone
  <2>2. /\ Tail(w.queue) \in Seq(Nat) /\ Append(w.written, Head(w.queue)) \in Seq(Nat)
    <3>1. \A q \in Seq(Nat), x \in Seq(Nat) : q # <<>> => Tail(q) \in Seq(Nat) /\ Append(x, Head(q)) \in Seq(Nat)
      OBVIOUS
    <3> QED
      BY <1>0, <2>1, <3>1, WriterFields
  <2>4. v \in WriterType /\ v.pc \in {"swap", "recv"}
    <3>1. p \in {"swap", "recv"}
      OBVIOUS
    <3> HIDE DEF p
    <3> QED
      BY <2>2, <3>1 DEF WriterType
  <2>5. v.queue = Tail(w.queue) /\ v.written = Append(w.written, Head(w.queue))
    OBVIOUS
  <2>6. writer' = [writer EXCEPT ![e][s] = v]
    BY <1>2 DEF WriteDone
  <2> HIDE DEF v
  <2>7. /\ writer' \in [Ends -> [Streams -> WriterType]] /\ writer'[e][s] = v
        /\ \A d \in Ends, r \in Streams : d # e \/ r # s => writer'[d][r] = writer[d][r]
    BY <1>0, <2>4, <2>6, Update
  <2> QED
    BY <1>0, <1>2, <2>1, <2>4, <2>5, <2>7 DEF WriteDone, chanVars, envVars
<1>5. CASE WriteSwap(e, s)
  <2> DEFINE p == IF flow[e][s].sent_pause THEN "resume" ELSE "recv"
             v == [w EXCEPT !.pc = p]
  <2>1. v \in WriterType /\ v.pc \in {"resume", "recv"} /\ v.queue = w.queue /\ v.written = w.written
    <3>1. p \in {"resume", "recv"} /\ p \in {"none", "recv", "writing", "swap", "resume", "ended"}
      OBVIOUS
    <3> HIDE DEF p, w
    <3>2. w \in WriterType
      BY <1>0 DEF w
    <3> QED
      BY <3>1, <3>2 DEF WriterType
  <2>2. writer' = [writer EXCEPT ![e][s] = v]
    BY <1>0, <1>5 DEF WriteSwap
  <2> HIDE DEF v
  <2>3. /\ writer' \in [Ends -> [Streams -> WriterType]] /\ writer'[e][s] = v
        /\ \A d \in Ends, r \in Streams : d # e \/ r # s => writer'[d][r] = writer[d][r]
    BY <1>0, <2>1, <2>2, Update
  <2> QED
    BY <1>0, <1>5, <2>1, <2>3 DEF WriteSwap, chanVars, envVars
<1>3. CASE WriteSendsResume(e, s)
  <2> DEFINE v == [w EXCEPT !.pc = "recv"]
  <2>1. v \in WriterType /\ v.pc = "recv" /\ v.queue = w.queue /\ v.written = w.written
    BY <1>0, WriterFields
  <2>2. writer' = [writer EXCEPT ![e][s] = v]
    BY <1>0, <1>3 DEF WriteSendsResume
  <2> HIDE DEF v
  <2>3. /\ writer' \in [Ends -> [Streams -> WriterType]] /\ writer'[e][s] = v
        /\ \A d \in Ends, r \in Streams : d # e \/ r # s => writer'[d][r] = writer[d][r]
    BY <1>0, <2>1, <2>2, Update
  <2> QED
    BY <1>0, <1>3, <2>1, <2>3 DEF WriteSendsResume, envVars
<1>4. CASE WriteCancelled(e, s) \/ WriteFails(e, s)
  <2> DEFINE v == [w EXCEPT !.pc = "ended", !.queue = <<>>]
  <2>1. v \in WriterType /\ v.pc = "ended" /\ v.queue = <<>> /\ v.written = w.written
    BY <1>0, WriterFields
  <2>2. writer' = [writer EXCEPT ![e][s] = v]
    BY <1>0, <1>4 DEF WriteCancelled, WriteFails, WriteEnds
  <2> HIDE DEF v
  <2>3. /\ writer' \in [Ends -> [Streams -> WriterType]] /\ writer'[e][s] = v
        /\ \A d \in Ends, r \in Streams : d # e \/ r # s => writer'[d][r] = writer[d][r]
    BY <1>0, <2>1, <2>2, Update
  <2>4. faults' \in 0 .. MaxFaults
    BY <1>0, <1>4, FaultType DEF WriteFails, WriteCancelled
  <2>5. w.pc \in {"recv", "writing", "swap", "resume"}
    BY <1>4 DEF WriteCancelled, WriteFails
  <2> QED
    BY <1>4, <2>1, <2>3, <2>4, <2>5 DEF WriteCancelled, WriteFails, WriteEnds, chanVars
<1> QED
  BY <1>1, <1>2, <1>3, <1>4, <1>5 DEF WriteTask

\* A task's record with another pc.
LEMMA TaskFields ==
    ASSUME NEW t \in TaskType, NEW p \in {"connecting", "running", "ending", "waiting", "ended"}
    PROVE  LET v == [t EXCEPT !.pc = p] IN v \in TaskType /\ v.pc = p
BY DEF TaskType

\* What run_internal_stream makes of the records of a stream.
LEMMA RunTypes ==
    ASSUME TypeOK, NEW e \in Ends, NEW s \in Streams, RunStream(e, s)
    PROVE  /\ task' \in [Ends -> [Streams -> TaskType]]
           /\ reader' \in [Ends -> [Streams -> ReaderType]]
           /\ writer' \in [Ends -> [Streams -> WriterType]]
           /\ \A d \in Ends, r \in Streams : d # e \/ r # s =>
                 /\ task'[d][r] = task[d][r] /\ reader'[d][r] = reader[d][r]
                 /\ writer'[d][r] = writer[d][r]
           /\ task'[e][s].pc = "running"
           /\ reader'[e][s].pc = "reading" /\ reader'[e][s].n = reader[e][s].n
           /\ writer'[e][s].pc = "recv" /\ writer'[e][s].queue = writer[e][s].queue
           /\ writer'[e][s].written = writer[e][s].written
<1>0. /\ task \in [Ends -> [Streams -> TaskType]] /\ task[e][s] \in TaskType
      /\ reader \in [Ends -> [Streams -> ReaderType]] /\ reader[e][s] \in ReaderType
      /\ writer \in [Ends -> [Streams -> WriterType]] /\ writer[e][s] \in WriterType
  BY Types
<1> DEFINE t == [task[e][s] EXCEPT !.pc = "running"]
           r == [reader[e][s] EXCEPT !.pc = "reading"]
           w == [writer[e][s] EXCEPT !.pc = "recv"]
<1>1. /\ task' = [task EXCEPT ![e][s] = t] /\ reader' = [reader EXCEPT ![e][s] = r]
      /\ writer' = [writer EXCEPT ![e][s] = w]
  BY <1>0 DEF RunStream
<1>2. t \in TaskType /\ t.pc = "running"
  BY <1>0, TaskFields
<1>3. r \in ReaderType /\ r.pc = "reading" /\ r.n = reader[e][s].n
  BY <1>0 DEF ReaderType
<1>4. w \in WriterType /\ w.pc = "recv" /\ w.queue = writer[e][s].queue /\ w.written = writer[e][s].written
  BY <1>0, WriterFields
<1> HIDE DEF t, r, w
<1>5. /\ task' \in [Ends -> [Streams -> TaskType]] /\ task'[e][s] = t
      /\ \A d \in Ends, k \in Streams : d # e \/ k # s => task'[d][k] = task[d][k]
  BY <1>0, <1>1, <1>2, Update
<1>6. /\ reader' \in [Ends -> [Streams -> ReaderType]] /\ reader'[e][s] = r
      /\ \A d \in Ends, k \in Streams : d # e \/ k # s => reader'[d][k] = reader[d][k]
  BY <1>0, <1>1, <1>3, Update
<1>7. /\ writer' \in [Ends -> [Streams -> WriterType]] /\ writer'[e][s] = w
      /\ \A d \in Ends, k \in Streams : d # e \/ k # s => writer'[d][k] = writer[d][k]
  BY <1>0, <1>1, <1>4, Update
<1> QED
  BY <1>2, <1>3, <1>4, <1>5, <1>6, <1>7

\* A task that ends takes along the channel that has no write task.
Emptied(w) == [w EXCEPT !.queue = IF w.pc = "none" THEN <<>> ELSE w.queue]

\* A write task's record when the stream's task is gone.
LEMMA EmptiedFields ==
    ASSUME NEW w \in WriterType
    PROVE  /\ Emptied(w) \in WriterType
           /\ Emptied(w).pc = w.pc /\ Emptied(w).written = w.written
           /\ w.pc = "none" => Emptied(w).queue = <<>>
           /\ w.pc # "none" => Emptied(w).queue = w.queue
<1> DEFINE q == IF w.pc = "none" THEN <<>> ELSE w.queue
           v == [w EXCEPT !.queue = q]
<1>1. q \in Seq(Nat)
  <2>1. <<>> \in Seq(Nat) /\ w.queue \in Seq(Nat)
    BY DEF WriterType
  <2> QED
    BY <2>1
<1>2. Emptied(w) = v
  BY DEF Emptied
<1>3. (w.pc = "none" => q = <<>>) /\ (w.pc # "none" => q = w.queue)
  OBVIOUS
<1> HIDE DEF q
<1>4. v \in WriterType /\ v.pc = w.pc /\ v.queue = q /\ v.written = w.written
  BY <1>1 DEF WriterType
<1> QED
  BY <1>2, <1>3, <1>4

\* What a step of a stream's task, or a connection that fails, does to the records.
LEMMA TaskTypes ==
    ASSUME TypeOK, NEW e \in Ends, NEW s \in Streams, StreamTask(e, s) \/ TaskConnectFails(e, s)
    PROVE  LET w == writer[e][s]
               v == writer'[e][s]
               t == task[e][s]
               u == task'[e][s]
           IN
           /\ task' \in [Ends -> [Streams -> TaskType]]
           /\ writer' \in [Ends -> [Streams -> WriterType]]
           /\ \A d \in Ends, r \in Streams : d # e \/ r # s =>
                 task'[d][r] = task[d][r] /\ writer'[d][r] = writer[d][r]
           /\ UNCHANGED <<muxVars, into, rx, reader, cancelled, linked>>
           /\ faults' \in 0 .. MaxFaults
           /\ v.written = w.written /\ v.pc = w.pc
           /\ \/ /\ t.pc = "running" /\ u.pc = "ending" /\ v.queue = w.queue /\ UNCHANGED from_stream
              \/ /\ t.pc = "connecting" /\ u.pc = "ending" /\ v.queue = w.queue /\ UNCHANGED from_stream
              \/ /\ t.pc = "ending" /\ u.pc = "waiting" /\ v.queue = w.queue /\ UNCHANGED from_stream
              \/ /\ t.pc \in {"ending", "waiting"} /\ u.pc = "ended"
                 /\ IF w.pc = "none" THEN v.queue = <<>> ELSE v.queue = w.queue
                 /\ UNCHANGED from_stream \/ Post(e, Msg("Disconnect", s))
<1>0. /\ task \in [Ends -> [Streams -> TaskType]] /\ task[e][s] \in TaskType
      /\ writer \in [Ends -> [Streams -> WriterType]] /\ faults \in 0 .. MaxFaults
  BY Types
<1>1. ASSUME NEW p \in {"connecting", "running", "ending", "waiting", "ended"},
             task' = [task EXCEPT ![e][s].pc = p]
      PROVE  /\ task' \in [Ends -> [Streams -> TaskType]] /\ task'[e][s].pc = p
             /\ \A d \in Ends, r \in Streams : d # e \/ r # s => task'[d][r] = task[d][r]
  <2> DEFINE v == [task[e][s] EXCEPT !.pc = p]
  <2>1. v \in TaskType /\ v.pc = p
    BY <1>0, TaskFields
  <2>2. task' = [task EXCEPT ![e][s] = v]
    BY <1>0, <1>1
  <2> HIDE DEF v
  <2> QED
    BY <1>0, <2>1, <2>2, Update
<1>6. ASSUME TaskGone(e, s)
      PROVE  /\ task' \in [Ends -> [Streams -> TaskType]] /\ task'[e][s].pc = "ended"
             /\ writer' \in [Ends -> [Streams -> WriterType]]
             /\ \A d \in Ends, r \in Streams : d # e \/ r # s =>
                   task'[d][r] = task[d][r] /\ writer'[d][r] = writer[d][r]
             /\ writer'[e][s].pc = writer[e][s].pc
             /\ writer'[e][s].written = writer[e][s].written
             /\ writer[e][s].pc = "none" => writer'[e][s].queue = <<>>
             /\ writer[e][s].pc # "none" => writer'[e][s].queue = writer[e][s].queue
  <2>1. /\ task' = [task EXCEPT ![e][s].pc = "ended"]
        /\ writer' = [writer EXCEPT ![e][s].queue = IF writer[e][s].pc = "none" THEN <<>> ELSE @]
    BY <1>6 DEF TaskGone
  <2>2. /\ task' \in [Ends -> [Streams -> TaskType]] /\ task'[e][s].pc = "ended"
        /\ \A d \in Ends, r \in Streams : d # e \/ r # s => task'[d][r] = task[d][r]
    BY <1>1, <2>1
  <2> DEFINE v == Emptied(writer[e][s])
  <2>3. writer' = [writer EXCEPT ![e][s] = v]
    BY <1>0, <2>1 DEF Emptied
  <2>4. v \in WriterType /\ v.pc = writer[e][s].pc /\ v.written = writer[e][s].written
        /\ (writer[e][s].pc = "none" => v.queue = <<>>)
        /\ (writer[e][s].pc # "none" => v.queue = writer[e][s].queue)
    BY <1>0, EmptiedFields
  <2> HIDE DEF v
  <2>5. /\ writer' \in [Ends -> [Streams -> WriterType]] /\ writer'[e][s] = v
        /\ \A d \in Ends, r \in Streams : d # e \/ r # s => writer'[d][r] = writer[d][r]
    BY <1>0, <2>3, <2>4, Update
  <2> QED
    BY <2>2, <2>4, <2>5
<1>2. CASE TaskEnds(e, s)
  <2> DEFINE v == [pc |-> "ending", done |-> TRUE]
  <2>1. v \in TaskType /\ v.pc = "ending"
    BY DEF TaskType
  <2>2. task' = [task EXCEPT ![e][s] = v]
    BY <1>2 DEF TaskEnds
  <2> HIDE DEF v
  <2>3. /\ task' \in [Ends -> [Streams -> TaskType]] /\ task'[e][s] = v
        /\ \A d \in Ends, r \in Streams : d # e \/ r # s => task'[d][r] = task[d][r]
    BY <1>0, <2>1, <2>2, Update
  <2> QED
    BY <1>0, <1>2, <2>1, <2>3 DEF TaskEnds, chanVars, envVars
<1>3. CASE TaskConnectFails(e, s)
  <2>1. task' = [task EXCEPT ![e][s].pc = "ending"] /\ task[e][s].pc = "connecting" /\ Fault
        /\ UNCHANGED <<muxVars, chanVars, reader, writer, cancelled, linked>>
    BY <1>3 DEF TaskConnectFails
  <2> QED
    BY <1>0, <1>1, <2>1, FaultType DEF chanVars
<1>4. CASE TaskWaits(e, s)
  <2>1. task[e][s].pc = "ending" /\ UNCHANGED <<muxVars, chanVars, reader, envVars>>
    BY <1>4 DEF TaskWaits
  <2>2. CASE task' = [task EXCEPT ![e][s].pc = "waiting"] /\ UNCHANGED writer
    BY <1>0, <1>1, <2>1, <2>2 DEF chanVars, envVars
  <2>3. CASE TaskGone(e, s)
    BY <1>0, <1>6, <2>1, <2>3 DEF chanVars, envVars
  <2> QED
    BY <1>4, <2>2, <2>3 DEF TaskWaits
<1>5. CASE TaskSendsDisconnect(e, s)
  <2>1. /\ task[e][s].pc \in {"ending", "waiting"} /\ TaskGone(e, s)
        /\ Post(e, Msg("Disconnect", s)) \/ UNCHANGED from_stream
        /\ UNCHANGED <<muxVars, into, rx, reader, envVars>>
    BY <1>5 DEF TaskSendsDisconnect
  <2> QED
    BY <1>0, <1>6, <2>1 DEF envVars
<1> QED
  BY <1>2, <1>3, <1>4, <1>5 DEF StreamTask

-----------------------------------------------------------------------------
(* The steps of a stream's own tasks.                                      *)

RecordTypes ==
    /\ task \in [Ends -> [Streams -> TaskType]]
    /\ reader \in [Ends -> [Streams -> ReaderType]]
    /\ writer \in [Ends -> [Streams -> WriterType]]

EnvTypes ==
    /\ cancelled \in [Ends -> BOOLEAN] /\ linked \in [Ends -> BOOLEAN]
    /\ faults \in 0 .. MaxFaults

\* Nothing happens to stream r at end d.
SameStream(d, r) ==
    task'[d][r] = task[d][r] /\ reader'[d][r] = reader[d][r] /\ writer'[d][r] = writer[d][r]

\* The next message that the read task sends is the one after those it has sent.
SendsNext(e, s, m) ==
    IF m.type = "Data" THEN m.n = Sent(e, s) + 1 /\ Sent(e, s)' = m.n ELSE Sent(e, s)' = Sent(e, s)

\* A task of stream s at end e has moved.
LocalStep(e, s) ==
    /\ UNCHANGED <<muxVars, into, rx>>
    /\ RecordTypes' /\ EnvTypes'
    /\ \A d \in Ends, r \in Streams : d # e \/ r # s => SameStream(d, r)
    /\ task[e][s].pc # "none" /\ task'[e][s].pc # "none"
    /\ TaskInv(e, s)'
    /\ Orderly(writer[e][s]) => Orderly(writer'[e][s])
    /\ Given(e, s)' <= Given(e, s)
    /\ Receiving(e, s)' => Receiving(e, s) /\ Given(e, s)' = Given(e, s)
    /\ \/ /\ from_stream' = from_stream /\ Sent(e, s) <= Sent(e, s)'
          /\ mux[e] # "dropped" => Sent(e, s)' = Sent(e, s)
       \/ \E m \in ChannelMessage :
             /\ Post(e, m) /\ m.s = s /\ m.type # "Connect" /\ SendsNext(e, s, m)

\* The invariant, one stream at a time.
LEMMA InvParts ==
    /\ TasksInv /\ TypeOK => \A e \in Ends, s \in Streams : TaskInv(e, s)
    /\ TypeOK => RecordTypes /\ EnvTypes
    /\ Ordered => \A e \in Ends, s \in Streams : Orderly(writer[e][s])
BY Types DEF TasksInv, TaskInv, RecordTypes, EnvTypes, Ordered

\* The counts of a stream are numbers.
LEMMA Counts ==
    ASSUME RecordTypes, NEW e \in Ends, NEW s \in Streams, TaskInv(e, s)
    PROVE  /\ Given(e, s) \in Nat /\ Sent(e, s) \in Nat /\ reader[e][s].n \in Nat
           /\ reader[e][s].pc = "sending" => Sent(e, s) = reader[e][s].n - 1
           /\ reader[e][s].pc # "sending" => Sent(e, s) = reader[e][s].n
<1>1. reader[e][s] \in ReaderType /\ writer[e][s] \in WriterType
  BY DEF RecordTypes
<1>2. reader[e][s].n \in Nat /\ writer[e][s].queue \in Seq(Nat) /\ writer[e][s].written \in Seq(Nat)
  BY <1>1 DEF ReaderType, WriterType
<1>3. Len(writer[e][s].queue) \in Nat /\ Len(writer[e][s].written) \in Nat
  BY <1>2
<1>4. reader[e][s].pc = "sending" => reader[e][s].n > 0
  BY DEF TaskInv
<1>5. /\ reader[e][s].pc = "sending" => Sent(e, s) = reader[e][s].n - 1
      /\ reader[e][s].pc # "sending" => Sent(e, s) = reader[e][s].n - 0
  BY DEF Sent
<1>6. Sent(e, s) \in Nat
  BY <1>2, <1>4, <1>5
<1>7. Given(e, s) \in Nat
  <2>1. \A i, j \in Nat : i + j \in Nat
    OBVIOUS
  <2> QED
    BY <1>3, <2>1, Zenon DEF Given
<1> QED
  BY <1>2, <1>5, <1>6, <1>7

\* A step of a read task is local to its stream.
LEMMA ReadStep ==
    ASSUME MuxInv, NEW e \in Ends, NEW s \in Streams,
           ReadTask(e, s) \/ ReadData(e, s) \/ ReadEnds(e, s)
    PROVE  LocalStep(e, s)
<1>0. TypeOK /\ TaskInv(e, s) /\ RecordTypes /\ EnvTypes
  BY InvParts DEF MuxInv
<1>1. /\ reader' \in [Ends -> [Streams -> ReaderType]]
      /\ \A d \in Ends, r \in Streams : d # e \/ r # s => reader'[d][r] = reader[d][r]
      /\ UNCHANGED <<muxVars, into, rx, task, writer, envVars>>
      /\ reader[e][s].pc \in {"reading", "paused", "sending"} /\ reader'[e][s].pc # "none"
  BY <1>0, ReadTypes
<1>2. RecordTypes' /\ EnvTypes' /\ \A d \in Ends, r \in Streams : d # e \/ r # s => SameStream(d, r)
  BY <1>0, <1>1 DEF RecordTypes, EnvTypes, SameStream, envVars
<1>3. task[e][s].pc \notin {"none", "connecting"} /\ task'[e][s].pc = task[e][s].pc
  BY <1>0, <1>1 DEF TaskInv
<1>4. Given(e, s)' = Given(e, s) /\ (Receiving(e, s)' <=> Receiving(e, s))
  BY <1>1 DEF Given, Receiving
<1>5. Given(e, s) \in Nat /\ Sent(e, s) \in Nat /\ reader[e][s].n \in Nat
      /\ (reader[e][s].pc = "sending" => Sent(e, s) = reader[e][s].n - 1)
      /\ (reader[e][s].pc # "sending" => Sent(e, s) = reader[e][s].n)
  BY <1>0, Counts
<1>6. /\ reader'[e][s].pc = "sending" => Sent(e, s)' = reader'[e][s].n - 1
      /\ reader'[e][s].pc # "sending" => Sent(e, s)' = reader'[e][s].n - 0
  BY DEF Sent
<1>7. /\ reader'[e][s].pc = "sending" => reader'[e][s].n > 0
      /\ \/ /\ from_stream' = from_stream /\ Sent(e, s) <= Sent(e, s)'
            /\ mux[e] # "dropped" => Sent(e, s)' = Sent(e, s)
         \/ \E m \in ChannelMessage :
               /\ Post(e, m) /\ m.s = s /\ m.type # "Connect" /\ SendsNext(e, s, m)
  <2>1. CASE reader[e][s].pc = "sending" /\ reader'[e][s].n = reader[e][s].n
             /\ reader'[e][s].pc # "sending" /\ Post(e, Data(s, reader[e][s].n))
    <3> DEFINE m == Data(s, reader[e][s].n)
    <3>1. m \in ChannelMessage /\ m.s = s /\ m.type = "Data" /\ m.n = reader[e][s].n
      BY <1>5, Messages
    <3>2. Sent(e, s)' = m.n /\ m.n = Sent(e, s) + 1
      BY <1>5, <1>6, <2>1, <3>1
    <3>3. Post(e, m) /\ SendsNext(e, s, m)
      BY <2>1, <3>1, <3>2 DEF SendsNext
    <3> HIDE DEF m
    <3> QED
      BY <2>1, <3>1, <3>3
  <2>2. CASE /\ reader[e][s].pc \in {"reading", "paused"} /\ UNCHANGED from_stream
             /\ reader'[e][s].n = reader[e][s].n /\ reader'[e][s].pc \in {"reading", "ended"}
    BY <1>5, <1>6, <2>2
  <2>3. CASE /\ reader[e][s].pc = "sending" /\ UNCHANGED from_stream
             /\ reader'[e][s].n = reader[e][s].n
             /\ reader'[e][s].pc = "ended" /\ mux[e] = "dropped"
    BY <1>5, <1>6, <2>3
  <2>4. CASE /\ reader[e][s].pc = "reading" /\ UNCHANGED from_stream
             /\ reader'[e][s].n = reader[e][s].n + 1 /\ reader'[e][s].pc = "sending"
    BY <1>5, <1>6, <2>4
  <2> QED
    BY <1>0, <2>1, <2>2, <2>3, <2>4, ReadTypes
<1>8. TaskInv(e, s)'
  BY <1>0, <1>1, <1>3, <1>7 DEF TaskInv
<1> QED
  BY <1>1, <1>2, <1>3, <1>4, <1>5, <1>7, <1>8 DEF LocalStep

\* A sequence of numbers without its first, which goes to the end of another.
LEMMA Moves ==
    ASSUME NEW q \in Seq(Nat), NEW x \in Seq(Nat), q # <<>>, Counted(x, 0), Counted(q, Len(x))
    PROVE  /\ Counted(Append(x, Head(q)), 0) /\ Counted(Tail(q), Len(Append(x, Head(q))))
           /\ Len(Append(x, Head(q))) + Len(Tail(q)) = Len(x) + Len(q)
<1>1. /\ Len(q) \in Nat \ {0} /\ Len(x) \in Nat /\ Head(q) = q[1] /\ Len(Tail(q)) = Len(q) - 1
      /\ \A k \in 1 .. Len(q) - 1 : Tail(q)[k] = q[k + 1]
  OBVIOUS
<1>2. /\ Len(Append(x, Head(q))) = Len(x) + 1
      /\ \A k \in 1 .. Len(x) : Append(x, Head(q))[k] = x[k]
      /\ Append(x, Head(q))[Len(x) + 1] = q[1]
  BY <1>1
<1>3. q[1] = Len(x) + 1
  BY <1>1 DEF Counted
<1>4. Counted(Append(x, Head(q)), 0)
  BY <1>1, <1>2, <1>3 DEF Counted
<1>5. ASSUME NEW k \in 1 .. Len(q) - 1 PROVE Tail(q)[k] = (Len(x) + 1) + k
  <2>1. k + 1 \in 1 .. Len(q) /\ q[k + 1] = Len(x) + (k + 1)
    BY <1>1 DEF Counted
  <2> QED
    BY <1>1, <2>1
<1>6. Counted(Tail(q), Len(Append(x, Head(q))))
  BY <1>1, <1>2, <1>5 DEF Counted
<1> QED
  BY <1>1, <1>2, <1>4, <1>6

\* A step of a write task is local to its stream.
LEMMA WriteStep ==
    ASSUME MuxInv, NEW e \in Ends, NEW s \in Streams,
           WriteTask(e, s) \/ WriteDone(e, s) \/ WriteFails(e, s)
    PROVE  LocalStep(e, s)
<1> DEFINE w == writer[e][s]
           v == writer'[e][s]
<1>0. TypeOK /\ TaskInv(e, s) /\ RecordTypes /\ EnvTypes
  BY InvParts DEF MuxInv
<1>1. /\ writer' \in [Ends -> [Streams -> WriterType]]
      /\ \A d \in Ends, r \in Streams : d # e \/ r # s => writer'[d][r] = writer[d][r]
      /\ UNCHANGED <<muxVars, into, rx, task, reader, cancelled, linked>>
      /\ faults' \in 0 .. MaxFaults
      /\ v.pc \in {"recv", "writing", "swap", "resume", "ended"} /\ w.pc \in {"recv", "writing", "swap", "resume"}
  BY <1>0, WriteTypes
<1>2. RecordTypes' /\ EnvTypes' /\ \A d \in Ends, r \in Streams : d # e \/ r # s => SameStream(d, r)
  BY <1>0, <1>1 DEF RecordTypes, EnvTypes, SameStream
<1>3. task[e][s].pc \notin {"none", "connecting"} /\ task'[e][s].pc = task[e][s].pc
  BY <1>0, <1>1 DEF TaskInv
<1>4. Sent(e, s)' = Sent(e, s) /\ Sent(e, s) \in Nat
  BY <1>0, <1>1, Counts DEF Sent
<1>5. /\ Receiving(e, s) /\ (Receiving(e, s)' => v.pc # "ended")
      /\ Given(e, s) = Len(w.written) + Len(w.queue)
      /\ Given(e, s)' = Len(v.written) + Len(v.queue)
  BY <1>1 DEF Receiving, Given
<1>6. w.queue \in Seq(Nat) /\ w.written \in Seq(Nat) /\ Len(w.queue) \in Nat /\ Len(w.written) \in Nat
  <2>1. w \in WriterType
    BY <1>0 DEF RecordTypes
  <2>2. w.queue \in Seq(Nat) /\ w.written \in Seq(Nat)
    BY <2>1 DEF WriterType
  <2> QED
    BY <2>2
<1> HIDE DEF w, v
<1>7. /\ v.pc = "writing" => v.queue # <<>>
      /\ Orderly(w) => Orderly(v)
      /\ Orderly(w) => Len(v.written) + Len(v.queue) <= Len(w.written) + Len(w.queue)
      /\ Orderly(w) /\ v.pc # "ended" => Len(v.written) + Len(v.queue) = Len(w.written) + Len(w.queue)
      /\ from_stream' = from_stream \/ Post(e, Msg("Resume", s))
  <2>1. CASE /\ v.written = w.written /\ v.queue = w.queue /\ UNCHANGED from_stream
             /\ v.pc = "writing" /\ w.queue # <<>>
    BY <1>6, <2>1 DEF Orderly
  <2>2. CASE /\ w.queue # <<>> /\ v.queue = Tail(w.queue) /\ UNCHANGED from_stream
             /\ v.written = Append(w.written, Head(w.queue))
             /\ v.pc # "writing" /\ v.pc # "ended"
    <3>1. Orderly(w) => /\ Counted(v.written, 0) /\ Counted(v.queue, Len(v.written))
                        /\ Len(v.written) + Len(v.queue) = Len(w.written) + Len(w.queue)
      BY <1>6, <2>2, Moves DEF Orderly
    <3>2. Orderly(w) => Orderly(v)
      BY <3>1 DEF Orderly
    <3>3. Orderly(w) => Len(v.written) + Len(v.queue) <= Len(w.written) + Len(w.queue)
      <4>1. \A n, m \in Nat : n + m \in Nat /\ n <= n
        OBVIOUS
      <4> QED
        BY <1>6, <3>1, <4>1, Zenon
    <3> QED
      BY <2>2, <3>1, <3>2, <3>3
  <2>3. CASE /\ v.written = w.written /\ v.queue = w.queue /\ v.pc \in {"recv", "resume"}
             /\ from_stream' = from_stream \/ Post(e, Msg("Resume", s))
    BY <1>6, <2>3 DEF Orderly
  <2>4. CASE /\ v.written = w.written /\ v.queue = <<>> /\ v.pc = "ended"
             /\ UNCHANGED from_stream
    <3>1. Len(v.queue) = 0
      BY <2>4
    <3> QED
      BY <1>6, <2>4, <3>1 DEF Orderly, Counted
  <2> QED
    BY <1>0, <2>1, <2>2, <2>3, <2>4, WriteTypes DEF w, v
<1>8. Orderly(w)
  BY InvParts DEF MuxInv, w
<1>9. TaskInv(e, s)'
  BY <1>0, <1>1, <1>3, <1>7 DEF TaskInv, v
<1>10. \/ from_stream' = from_stream
       \/ \E m \in ChannelMessage :
             /\ Post(e, m) /\ m.s = s /\ m.type # "Connect" /\ SendsNext(e, s, m)
  <2>1. ASSUME Post(e, Msg("Resume", s))
        PROVE  \E m \in ChannelMessage :
                  Post(e, m) /\ m.s = s /\ m.type # "Connect" /\ SendsNext(e, s, m)
    <3> DEFINE m == Msg("Resume", s)
    <3>1. m \in ChannelMessage /\ m.s = s /\ m.type = "Resume"
      BY Messages DEF Controls
    <3> HIDE DEF m
    <3>2. SendsNext(e, s, m)
      BY <1>4, <3>1 DEF SendsNext
    <3>3. Post(e, m)
      BY <2>1 DEF m
    <3> QED
      BY <3>1, <3>2, <3>3
  <2> QED
    BY <1>7, <2>1
<1>11. Given(e, s)' <= Given(e, s) /\ (Receiving(e, s)' => Receiving(e, s) /\ Given(e, s)' = Given(e, s))
  BY <1>5, <1>7, <1>8
<1>12. Orderly(writer[e][s]) => Orderly(writer'[e][s])
  BY <1>7 DEF w, v
<1>13. task[e][s].pc # "none" /\ task'[e][s].pc # "none" /\ UNCHANGED <<muxVars, into, rx>>
  BY <1>1, <1>3
<1> QED
  BY <1>2, <1>4, <1>9, <1>10, <1>11, <1>12, <1>13 DEF LocalStep

\* A step of a stream's task is local to its stream.
LEMMA StreamTaskStep ==
    ASSUME MuxInv, NEW e \in Ends, NEW s \in Streams, StreamTask(e, s) \/ Connects(e, s)
    PROVE  LocalStep(e, s)
<1> DEFINE w == writer[e][s]
           v == writer'[e][s]
           t == task[e][s].pc
           u == task'[e][s].pc
<1>0. TypeOK /\ TaskInv(e, s) /\ RecordTypes /\ EnvTypes
  BY InvParts DEF MuxInv
<1>6. w.queue \in Seq(Nat) /\ w.written \in Seq(Nat) /\ Len(w.queue) \in Nat /\ Len(w.written) \in Nat
      /\ Len(<<>>) = 0
  <2>1. w \in WriterType
    BY <1>0 DEF RecordTypes
  <2>2. w.queue \in Seq(Nat) /\ w.written \in Seq(Nat)
    BY <2>1 DEF WriterType
  <2> QED
    BY <2>2
<1>g. /\ Given(e, s) = Len(w.written) + Len(w.queue)
      /\ Given(e, s)' = Len(v.written) + Len(v.queue)
  BY DEF Given
<1>r. /\ Receiving(e, s) <=> \/ w.pc \in {"recv", "writing", "swap", "resume"}
                             \/ w.pc = "none" /\ t \in {"connecting", "ending", "waiting"}
      /\ Receiving(e, s)' <=> \/ v.pc \in {"recv", "writing", "swap", "resume"}
                              \/ v.pc = "none" /\ u \in {"connecting", "ending", "waiting"}
  BY DEF Receiving
<1>1. CASE StreamTask(e, s) \/ TaskConnectFails(e, s)
  <2>1. /\ task' \in [Ends -> [Streams -> TaskType]]
        /\ writer' \in [Ends -> [Streams -> WriterType]]
        /\ \A d \in Ends, r \in Streams : d # e \/ r # s =>
              task'[d][r] = task[d][r] /\ writer'[d][r] = writer[d][r]
        /\ UNCHANGED <<muxVars, into, rx, reader, cancelled, linked>>
        /\ faults' \in 0 .. MaxFaults /\ v.written = w.written /\ v.pc = w.pc
    BY <1>0, <1>1, TaskTypes
  <2>2. \/ t \in {"running", "ending"} /\ v.queue = w.queue /\ from_stream' = from_stream
           /\ u \in {"ending", "waiting"}
        \/ t = "connecting" /\ u = "ending" /\ v.queue = w.queue /\ from_stream' = from_stream
        \/ /\ t \in {"ending", "waiting"} /\ u = "ended"
           /\ IF w.pc = "none" THEN v.queue = <<>> ELSE v.queue = w.queue
           /\ from_stream' = from_stream \/ Post(e, Msg("Disconnect", s))
    BY <1>0, <1>1, TaskTypes
  <2>3. RecordTypes' /\ EnvTypes' /\ \A d \in Ends, r \in Streams : d # e \/ r # s => SameStream(d, r)
    BY <1>0, <2>1 DEF RecordTypes, EnvTypes, SameStream
  <2>4. Sent(e, s)' = Sent(e, s) /\ Sent(e, s) \in Nat
    BY <1>0, <2>1, Counts DEF Sent
  <2>5. TaskInv(e, s)'
    BY <1>0, <2>1, <2>2 DEF TaskInv
  <2>6. v.queue = w.queue \/ v.queue = <<>>
    BY <2>2
  <2>7. Given(e, s)' <= Given(e, s)
    BY <1>6, <1>g, <2>1, <2>6
  <2>8. Orderly(w) => Orderly(v)
    <3>1. CASE v.queue = w.queue
      BY <2>1, <3>1 DEF Orderly
    <3>2. CASE v.queue = <<>>
      <4>1. \A n \in Nat : Counted(<<>>, n)
        BY <1>6 DEF Counted
      <4> QED
        BY <1>6, <2>1, <3>2, <4>1 DEF Orderly
    <3> QED
      BY <2>6, <3>1, <3>2
  <2>9. Receiving(e, s)' => Receiving(e, s) /\ v.queue = w.queue
    BY <1>0, <1>r, <2>1, <2>2 DEF TaskInv
  <2>10. Receiving(e, s)' => Receiving(e, s) /\ Given(e, s)' = Given(e, s)
    BY <1>g, <2>1, <2>9
  <2>11. \/ from_stream' = from_stream
         \/ \E m \in ChannelMessage :
               /\ Post(e, m) /\ m.s = s /\ m.type # "Connect" /\ SendsNext(e, s, m)
    <3>1. ASSUME Post(e, Msg("Disconnect", s))
          PROVE  \E m \in ChannelMessage :
                    Post(e, m) /\ m.s = s /\ m.type # "Connect" /\ SendsNext(e, s, m)
      <4> DEFINE m == Msg("Disconnect", s)
      <4>1. m \in ChannelMessage /\ m.s = s /\ m.type = "Disconnect"
        BY Messages DEF Controls
      <4> HIDE DEF m
      <4>2. SendsNext(e, s, m)
        BY <2>4, <4>1 DEF SendsNext
      <4>3. Post(e, m)
        BY <3>1 DEF m
      <4> QED
        BY <4>1, <4>2, <4>3
    <3> QED
      BY <2>2, <3>1
  <2>12. task[e][s].pc # "none" /\ task'[e][s].pc # "none" /\ UNCHANGED <<muxVars, into, rx>>
    BY <2>1, <2>2
  <2> QED
    BY <2>3, <2>4, <2>5, <2>7, <2>8, <2>10, <2>11, <2>12 DEF LocalStep
<1>2. CASE TaskConnects(e, s)
  <2>1. /\ t = "connecting" /\ RunStream(e, s) /\ UNCHANGED <<muxVars, chanVars, envVars>>
    BY <1>2 DEF TaskConnects
  <2>2. /\ task' \in [Ends -> [Streams -> TaskType]]
        /\ reader' \in [Ends -> [Streams -> ReaderType]]
        /\ writer' \in [Ends -> [Streams -> WriterType]]
        /\ \A d \in Ends, r \in Streams : d # e \/ r # s => SameStream(d, r)
        /\ u = "running" /\ reader'[e][s].pc = "reading" /\ reader'[e][s].n = reader[e][s].n
        /\ v.pc = "recv" /\ v.queue = w.queue /\ v.written = w.written
    BY <1>0, <2>1, RunTypes DEF SameStream
  <2>3. RecordTypes' /\ EnvTypes'
    BY <1>0, <2>1, <2>2 DEF RecordTypes, EnvTypes, envVars
  <2>4. reader[e][s].pc = "none" /\ w.pc = "none"
    BY <1>0, <2>1 DEF TaskInv
  <2>5. Sent(e, s)' = Sent(e, s) /\ Sent(e, s) \in Nat
    BY <1>0, <2>2, <2>4, Counts DEF Sent
  <2>6. TaskInv(e, s)'
    BY <1>0, <2>1, <2>2 DEF TaskInv
  <2>7. Receiving(e, s) /\ Given(e, s)' = Given(e, s) /\ Given(e, s) \in Nat
    BY <1>0, <1>r, <1>g, <2>1, <2>2, <2>4, Counts
  <2>8. Orderly(w) => Orderly(v)
    BY <2>2 DEF Orderly
  <2>9. from_stream' = from_stream /\ UNCHANGED <<muxVars, into, rx>>
    BY <2>1 DEF chanVars
  <2>10. Sent(e, s) <= Sent(e, s)' /\ Given(e, s)' <= Given(e, s)
    BY <2>5, <2>7
  <2> QED
    BY <2>1, <2>2, <2>3, <2>5, <2>6, <2>7, <2>8, <2>9, <2>10 DEF LocalStep
<1> QED
  BY <1>1, <1>2 DEF Connects

-----------------------------------------------------------------------------
(* What sequences of messages carry and introduce.                         *)

\* m is data of stream s.
Is(m, s) == m.type = "Data" /\ m.s = s

\* The elements of a queue with one more message.
LEMMA AppendedAt ==
    ASSUME NEW q \in Seq(ChannelMessage), NEW m \in ChannelMessage
    PROVE  /\ Append(q, m) \in Seq(ChannelMessage) /\ Len(q) \in Nat
           /\ Len(Append(q, m)) = Len(q) + 1 /\ Append(q, m)[Len(q) + 1] = m
           /\ \A k \in 1 .. Len(q) : Append(q, m)[k] = q[k] /\ q[k] \in ChannelMessage
OBVIOUS

\* The elements of a queue without its first message.
LEMMA TailAt ==
    ASSUME NEW q \in Seq(ChannelMessage), q # <<>>
    PROVE  /\ Tail(q) \in Seq(ChannelMessage) /\ Len(q) \in Nat \ {0}
           /\ Head(q) = q[1] /\ Head(q) \in ChannelMessage /\ Len(Tail(q)) = Len(q) - 1
           /\ \A k \in 1 .. Len(q) - 1 : Tail(q)[k] = q[k + 1] /\ k + 1 \in 1 .. Len(q)
           /\ \A k \in 1 .. Len(q) : k = 1 \/ (k - 1 \in 1 .. Len(q) - 1 /\ q[k] = Tail(q)[k - 1])
           /\ \A k \in 1 .. Len(q) : q[k] \in ChannelMessage
OBVIOUS

\* An empty queue carries nothing.
LEMMA CarriesNone ==
    ASSUME NEW s \in Streams, NEW a \in Nat, NEW b \in Nat, a <= b
    PROVE  Carries(<<>>, s, a, b) <=> a = b
<1>1. Len(<<>>) = 0
  OBVIOUS
<1>2. a = b => Carries(<<>>, s, a, b)
  BY <1>1 DEF Carries
<1>3. ASSUME Carries(<<>>, s, a, b), a # b PROVE FALSE
  <2>1. b \in a + 1 .. b
    BY <1>3
  <2> QED
    BY <1>1, <1>3, <2>1 DEF Carries
<1> QED
  BY <1>2, <1>3

\* A message that is not data of the stream comes last.
LEMMA CarriesMore ==
    ASSUME NEW q \in Seq(ChannelMessage), NEW s \in Streams, NEW a \in Nat, NEW b \in Nat,
           NEW m \in ChannelMessage, ~Is(m, s), Carries(q, s, a, b)
    PROVE  Carries(Append(q, m), s, a, b)
<1> DEFINE p == Append(q, m)
           l == Len(q)
<1>1. l \in Nat /\ Len(p) = l + 1 /\ p[l + 1] = m /\ \A k \in 1 .. l : p[k] = q[k]
  BY AppendedAt
<1> HIDE DEF p, l
<1>2. \A k \in 1 .. Len(p) : k \in 1 .. l \/ k = l + 1
  BY <1>1
<1>3. \A k \in 1 .. Len(p) : Is(p[k], s) => k \in 1 .. l /\ p[k] = q[k]
  BY <1>1, <1>2
<1>4. \A k \in 1 .. Len(p) : Is(p[k], s) => a < p[k].n /\ p[k].n <= b
  BY <1>3 DEF Carries, Is, l
<1>5. ASSUME NEW n \in a + 1 .. b PROVE \E k \in 1 .. Len(p) : p[k] = Data(s, n)
  <2>1. PICK k \in 1 .. l : q[k] = Data(s, n)
    BY DEF Carries, l
  <2> QED
    BY <1>1, <2>1
<1>6. ASSUME NEW j \in 1 .. Len(p), NEW k \in 1 .. Len(p), j < k, Is(p[j], s), Is(p[k], s)
      PROVE  p[j].n < p[k].n
  BY <1>3, <1>6 DEF Carries, Is, l
<1> QED
  BY <1>4, <1>5, <1>6 DEF Carries, Is, p

\* The next message of the stream comes last.
LEMMA CarriesNext ==
    ASSUME NEW q \in Seq(ChannelMessage), NEW s \in Streams, NEW a \in Nat, NEW b \in Nat, a <= b,
           NEW m \in ChannelMessage, m = Data(s, b + 1), Carries(q, s, a, b)
    PROVE  Carries(Append(q, m), s, a, b + 1)
<1> DEFINE p == Append(q, m)
           l == Len(q)
<1>1. l \in Nat /\ Len(p) = l + 1 /\ p[l + 1] = m /\ \A k \in 1 .. l : p[k] = q[k] /\ q[k] \in ChannelMessage
  BY AppendedAt
<1>0. m.n = b + 1
  BY DEF Data
<1> HIDE DEF p, l
<1>2. \A k \in 1 .. Len(p) : (k \in 1 .. l /\ p[k] = q[k]) \/ (k = l + 1 /\ p[k] = m)
  BY <1>1
<1>a. \A k \in 1 .. l : Is(q[k], s) => q[k].n \in Nat /\ a < q[k].n /\ q[k].n <= b
  BY <1>1, Messages DEF Carries, Is, l
<1>4. \A k \in 1 .. Len(p) : Is(p[k], s) => a < p[k].n /\ p[k].n <= b + 1
  BY <1>0, <1>2, <1>a
<1>5. ASSUME NEW n \in a + 1 .. b + 1 PROVE \E k \in 1 .. Len(p) : p[k] = Data(s, n)
  <2>1. CASE n \in a + 1 .. b
    <3>1. PICK k \in 1 .. l : q[k] = Data(s, n)
      BY <2>1 DEF Carries, l
    <3> QED
      BY <1>1, <3>1
  <2>2. CASE n = b + 1
    BY <1>1, <2>2
  <2> QED
    BY <2>1, <2>2
<1>6. ASSUME NEW j \in 1 .. Len(p), NEW k \in 1 .. Len(p), j < k, Is(p[j], s), Is(p[k], s)
      PROVE  p[j].n < p[k].n
  <2>1. j \in 1 .. l /\ p[j] = q[j]
    BY <1>1, <1>2, <1>6
  <2>2. CASE k \in 1 .. l /\ p[k] = q[k]
    BY <1>6, <2>1, <2>2 DEF Carries, Is, l
  <2>3. CASE p[k] = m
    BY <1>0, <1>6, <1>a, <2>1, <2>3
  <2> QED
    BY <1>2, <2>2, <2>3
<1> QED
  BY <1>4, <1>5, <1>6 DEF Carries, Is, p

\* What is carried starts with the first message.
LEMMA CarriesRest ==
    ASSUME NEW q \in Seq(ChannelMessage), q # <<>>, NEW s \in Streams, NEW a \in Nat, NEW b \in Nat,
           Carries(q, s, a, b)
    PROVE  /\ ~Is(Head(q), s) => Carries(Tail(q), s, a, b)
           /\ Is(Head(q), s) => /\ a + 1 <= b /\ Head(q) = Data(s, a + 1)
                                /\ Carries(Tail(q), s, a + 1, b)
<1> DEFINE p == Tail(q)
           l == Len(q)
           h == Head(q)
<1>1. /\ l \in Nat \ {0} /\ Len(p) = l - 1 /\ h = q[1] /\ h \in ChannelMessage
      /\ \A k \in 1 .. l - 1 : p[k] = q[k + 1] /\ k + 1 \in 1 .. l
      /\ \A k \in 1 .. l : k = 1 \/ (k - 1 \in 1 .. l - 1 /\ q[k] = p[k - 1])
      /\ \A k \in 1 .. l : q[k] \in ChannelMessage
  BY TailAt
<1>2. /\ \A k \in 1 .. l : Is(q[k], s) => q[k].n \in Nat /\ a < q[k].n /\ q[k].n <= b
      /\ \A n \in a + 1 .. b : \E k \in 1 .. l : q[k] = Data(s, n)
      /\ \A j, k \in 1 .. l : j < k /\ Is(q[j], s) /\ Is(q[k], s) => q[j].n < q[k].n
  BY <1>1, Messages DEF Carries, Is
<1> HIDE DEF p, l, h
<1>3. \A j, k \in 1 .. l - 1 : j < k /\ Is(p[j], s) /\ Is(p[k], s) => p[j].n < p[k].n
  <2> SUFFICES ASSUME NEW j \in 1 .. l - 1, NEW k \in 1 .. l - 1, j < k, Is(p[j], s), Is(p[k], s)
               PROVE  p[j].n < p[k].n
    OBVIOUS
  <2>1. j + 1 \in 1 .. l /\ k + 1 \in 1 .. l /\ j + 1 < k + 1 /\ p[j] = q[j + 1] /\ p[k] = q[k + 1]
    BY <1>1
  <2> QED
    BY <1>2, <2>1
<1>4. \A n \in Nat : Data(s, n).type = "Data" /\ Data(s, n).s = s /\ Data(s, n).n = n
  BY Messages
<1>l. Len(p) = l - 1
  BY <1>1
<1>5. ASSUME ~Is(h, s) PROVE Carries(p, s, a, b)
  <2>1. \A k \in 1 .. l - 1 : Is(p[k], s) => a < p[k].n /\ p[k].n <= b
    BY <1>1, <1>2
  <2>2. ASSUME NEW n \in a + 1 .. b PROVE \E k \in 1 .. l - 1 : p[k] = Data(s, n)
    <3>1. PICK k \in 1 .. l : q[k] = Data(s, n)
      BY <1>2
    <3>2. k # 1
      BY <1>1, <1>4, <1>5, <3>1 DEF Is
    <3> QED
      BY <1>1, <3>1, <3>2
  <2> QED
    BY <1>l, <1>3, <2>1, <2>2 DEF Carries, Is
<1>6. ASSUME Is(h, s) PROVE a + 1 <= b /\ h = Data(s, a + 1) /\ Carries(p, s, a + 1, b)
  <2>0. 1 \in 1 .. l /\ h.n \in Nat /\ a < h.n /\ h.n <= b /\ h = Data(s, h.n)
    BY <1>1, <1>2, <1>6, Messages DEF Is
  <2>1. a + 1 \in a + 1 .. b
    BY <2>0
  <2>2. PICK k \in 1 .. l : q[k] = Data(s, a + 1)
    BY <1>2, <2>1
  <2>3. Is(q[k], s) /\ q[k].n = a + 1
    BY <1>4, <2>2 DEF Is
  <2>4. k = 1
    <3>1. k # 1 => 1 < k
      OBVIOUS
    <3>2. k # 1 => h.n < a + 1
      BY <1>1, <1>2, <1>6, <2>0, <2>3, <3>1
    <3> QED
      BY <2>0, <3>2
  <2>5. h = Data(s, a + 1) /\ h.n = a + 1
    BY <1>1, <1>4, <2>2, <2>4
  <2>6. ASSUME NEW i \in 1 .. l - 1, Is(p[i], s) PROVE a + 1 < p[i].n /\ p[i].n <= b
    <3>1. i + 1 \in 1 .. l /\ 1 < i + 1 /\ p[i] = q[i + 1]
      BY <1>1
    <3>2. q[i + 1].n \in Nat /\ q[i + 1].n <= b
      BY <1>2, <2>6, <3>1
    <3>3. q[1].n < q[i + 1].n
      BY <1>1, <1>2, <1>6, <2>0, <2>6, <3>1
    <3> QED
      BY <1>1, <2>5, <3>1, <3>2, <3>3
  <2>7. ASSUME NEW n \in (a + 1) + 1 .. b PROVE \E i \in 1 .. l - 1 : p[i] = Data(s, n)
    <3>1. n \in a + 1 .. b /\ n # a + 1
      OBVIOUS
    <3>2. PICK i \in 1 .. l : q[i] = Data(s, n)
      BY <1>2, <3>1
    <3>3. n \in Nat /\ Data(s, n).n = n
      BY <1>4
    <3>4. i # 1
      BY <1>1, <2>5, <3>1, <3>2, <3>3
    <3> QED
      BY <1>1, <3>2, <3>4
  <2>8. a + 1 <= b
    BY <2>1
  <2>9. Carries(p, s, a + 1, b)
    BY <1>l, <1>3, <2>6, <2>7 DEF Carries, Is
  <2> QED
    BY <2>5, <2>8, <2>9
<1> QED
  BY <1>5, <1>6 DEF p, h

\* A single message.
LEMMA CarriesOne ==
    ASSUME NEW m \in ChannelMessage, NEW s \in Streams, NEW a \in Nat, NEW b \in Nat, a <= b
    PROVE  /\ ~Is(m, s) => (Carries(<<m>>, s, a, b) <=> a = b)
           /\ Is(m, s) => (Carries(<<m>>, s, a, b) <=> b = a + 1 /\ m = Data(s, b))
<1>1. /\ <<m>> \in Seq(ChannelMessage) /\ <<m>> # <<>> /\ Head(<<m>>) = m /\ Tail(<<m>>) = <<>>
      /\ <<>> \in Seq(ChannelMessage) /\ Append(<<>>, m) = <<m>>
  OBVIOUS
<1> DEFINE q == <<m>>
<1>r. /\ Carries(q, s, a, b) /\ ~Is(m, s) => Carries(<<>>, s, a, b)
      /\ Carries(q, s, a, b) /\ Is(m, s) => a + 1 <= b /\ m = Data(s, a + 1) /\ Carries(<<>>, s, a + 1, b)
  <2>1. q \in Seq(ChannelMessage) /\ q # <<>> /\ Head(q) = m /\ Tail(q) = <<>>
    BY <1>1
  <2> HIDE DEF q
  <2> QED
    BY <2>1, CarriesRest
<1>2. ASSUME ~Is(m, s), Carries(<<m>>, s, a, b) PROVE a = b
  <2>1. Carries(<<>>, s, a, b)
    BY <1>2, <1>r
  <2> QED
    BY <2>1, CarriesNone
<1>3. ASSUME ~Is(m, s), a = b PROVE Carries(<<m>>, s, a, b)
  <2>1. Carries(<<>>, s, a, b)
    BY <1>3, CarriesNone
  <2>2. Carries(Append(<<>>, m), s, a, b)
    BY <1>1, <1>3, <2>1, CarriesMore
  <2> QED
    BY <1>1, <2>2
<1>4. ASSUME Is(m, s), Carries(<<m>>, s, a, b) PROVE b = a + 1 /\ m = Data(s, b)
  <2>1. a + 1 <= b /\ m = Data(s, a + 1) /\ Carries(<<>>, s, a + 1, b) /\ a + 1 \in Nat
    BY <1>4, <1>r
  <2>2. a + 1 = b
    BY <2>1, CarriesNone
  <2> QED
    BY <2>1, <2>2
<1>5. ASSUME Is(m, s), b = a + 1, m = Data(s, b) PROVE Carries(<<m>>, s, a, b)
  <2>1. Carries(<<>>, s, a, a)
    BY CarriesNone
  <2>2. m = Data(s, a + 1) /\ a <= a
    BY <1>5
  <2>3. Carries(Append(<<>>, m), s, a, a + 1)
    BY <1>1, <2>1, <2>2, CarriesNext
  <2> QED
    BY <1>1, <1>5, <2>3
<1> QED
  BY <1>2, <1>3, <1>4, <1>5

\* The way may take one message more that is not data of s, or what is held.
LEMMA UnderwayMore ==
    ASSUME NEW q \in Seq(ChannelMessage), NEW h, NEW s \in Streams, NEW a \in Nat, NEW b \in Nat,
           NEW m \in ChannelMessage, ~Is(m, s), Underway(q, h, s, a, b)
    PROVE  Underway(Append(q, m), h, s, a, b)
<1>1. PICK k \in a .. b : Carries(q, s, a, k) /\ Carries(h, s, k, b)
  BY DEF Underway
<1>2. Carries(Append(q, m), s, a, k)
  BY <1>1, CarriesMore
<1> QED
  BY <1>1, <1>2 DEF Underway

\* What is held may as well be on the way.
LEMMA UnderwaySent ==
    ASSUME NEW q \in Seq(ChannelMessage), NEW s \in Streams, NEW a \in Nat, NEW b \in Nat,
           NEW m \in ChannelMessage, Underway(q, <<m>>, s, a, b)
    PROVE  Underway(Append(q, m), <<>>, s, a, b)
<1>1. PICK k \in a .. b : Carries(q, s, a, k) /\ Carries(<<m>>, s, k, b)
  BY DEF Underway
<1>0. k \in Nat /\ a <= k /\ k <= b /\ b \in a .. b
  BY <1>1
<1>2. Carries(Append(q, m), s, a, b)
  <2>1. CASE Is(m, s)
    <3>1. b = k + 1 /\ m = Data(s, k + 1)
      BY <1>0, <1>1, <2>1, CarriesOne
    <3>2. Carries(Append(q, m), s, a, k + 1)
      BY <1>0, <1>1, <3>1, CarriesNext
    <3> QED
      BY <3>1, <3>2
  <2>2. CASE ~Is(m, s)
    <3>1. b = k
      BY <1>0, <1>1, <2>2, CarriesOne
    <3>2. Carries(Append(q, m), s, a, k)
      BY <1>0, <1>1, <2>2, CarriesMore
    <3> QED
      BY <3>1, <3>2
  <2> QED
    BY <2>1, <2>2
<1>3. Carries(<<>>, s, b, b)
  BY CarriesNone
<1> QED
  BY <1>0, <1>2, <1>3 DEF Underway

\* What is held first comes from nothing.
LEMMA UnderwayHeld ==
    ASSUME NEW q \in Seq(ChannelMessage), NEW s \in Streams, NEW a \in Nat, NEW b \in Nat,
           NEW m \in ChannelMessage, Underway(q, <<>>, s, a, b)
    PROVE  /\ Carries(q, s, a, b)
           /\ ~Is(m, s) => Underway(q, <<m>>, s, a, b)
           /\ m = Data(s, b + 1) => Underway(q, <<m>>, s, a, b + 1)
<1>1. PICK k \in a .. b : Carries(q, s, a, k) /\ Carries(<<>>, s, k, b)
  BY DEF Underway
<1>2. k \in Nat /\ k = b /\ b \in a .. b /\ b \in a .. b + 1
  <2>1. k \in Nat /\ k <= b /\ a <= k
    BY <1>1
  <2>2. k = b
    BY <1>1, <2>1, CarriesNone
  <2> QED
    BY <2>1, <2>2
<1>3. ~Is(m, s) => Carries(<<m>>, s, b, b)
  BY CarriesOne
<1>4. ASSUME m = Data(s, b + 1) PROVE Carries(<<m>>, s, b, b + 1)
  <2>1. Is(m, s)
    BY <1>4, Messages DEF Is
  <2> QED
    BY <1>4, <2>1, CarriesOne
<1> QED
  BY <1>1, <1>2, <1>3, <1>4 DEF Underway

\* What is on the way goes on without what is held.
LEMMA UnderwayAlone ==
    ASSUME NEW q \in Seq(ChannelMessage), NEW h, NEW s \in Streams, NEW a \in Nat, NEW b \in Nat,
           Underway(q, h, s, a, b)
    PROVE  \E k \in a .. b : Underway(q, <<>>, s, a, k)
<1>1. PICK k \in a .. b : Carries(q, s, a, k) /\ Carries(h, s, k, b)
  BY DEF Underway
<1>2. k \in Nat /\ k \in a .. k
  BY <1>1
<1>3. Carries(<<>>, s, k, k)
  BY <1>2, CarriesNone
<1> QED
  BY <1>1, <1>2, <1>3 DEF Underway

\* The first message on the way arrives.
LEMMA UnderwayRest ==
    ASSUME NEW q \in Seq(ChannelMessage), q # <<>>, NEW h, NEW s \in Streams,
           NEW a \in Nat, NEW b \in Nat, Underway(q, h, s, a, b)
    PROVE  /\ ~Is(Head(q), s) => Underway(Tail(q), h, s, a, b)
           /\ Is(Head(q), s) => /\ a + 1 <= b /\ Head(q) = Data(s, a + 1)
                                /\ Underway(Tail(q), h, s, a + 1, b)
<1>1. PICK k \in a .. b : Carries(q, s, a, k) /\ Carries(h, s, k, b)
  BY DEF Underway
<1>2. k \in Nat
  BY <1>1
<1>3. /\ ~Is(Head(q), s) => Carries(Tail(q), s, a, k)
      /\ Is(Head(q), s) => a + 1 <= k /\ Head(q) = Data(s, a + 1) /\ Carries(Tail(q), s, a + 1, k)
  BY <1>1, <1>2, CarriesRest
<1>4. a + 1 <= k => k \in a + 1 .. b /\ a + 1 <= b
  BY <1>1
<1> QED
  BY <1>1, <1>3, <1>4 DEF Underway

\* What is said in a sequence with one message more, or one less.
LEMMA NamedMore ==
    ASSUME NEW q \in Seq(ChannelMessage), NEW m \in ChannelMessage
    PROVE  Named(Append(q, m)) = Named(q) \cup {m.s}
<1> DEFINE p == Append(q, m)
           l == Len(q)
<1>1. l \in Nat /\ Len(p) = l + 1 /\ p[l + 1] = m /\ \A k \in 1 .. l : p[k] = q[k]
  BY AppendedAt
<1> HIDE DEF p, l
<1>2. /\ \A k \in 1 .. Len(p) : k \in 1 .. l \/ k = l + 1
      /\ \A k \in 1 .. l : k \in 1 .. Len(p)
      /\ l + 1 \in 1 .. Len(p)
  BY <1>1
<1>3. ASSUME NEW r \in Named(p) PROVE r \in Named(q) \cup {m.s}
  <2>1. PICK k \in 1 .. Len(p) : r = p[k].s
    BY <1>3 DEF Named
  <2> QED
    BY <1>1, <1>2, <2>1 DEF Named, l
<1>4. ASSUME NEW r \in Named(q) \cup {m.s} PROVE r \in Named(p)
  <2>1. CASE r = m.s
    BY <1>1, <1>2, <2>1 DEF Named
  <2>2. CASE r \in Named(q)
    <3>1. PICK k \in 1 .. l : r = q[k].s
      BY <2>2 DEF Named, l
    <3> QED
      BY <1>1, <1>2, <3>1 DEF Named
  <2> QED
    BY <1>4, <2>1, <2>2
<1> QED
  BY <1>3, <1>4 DEF p

\* The streams that a queue speaks of are those of its first message and of its rest.
LEMMA NamedRest ==
    ASSUME NEW q \in Seq(ChannelMessage), q # <<>>
    PROVE  Named(q) = {Head(q).s} \cup Named(Tail(q))
<1> DEFINE p == Tail(q)
           l == Len(q)
           h == Head(q)
<1>1. /\ l \in Nat \ {0} /\ Len(p) = l - 1 /\ h = q[1]
      /\ \A k \in 1 .. l - 1 : p[k] = q[k + 1] /\ k + 1 \in 1 .. l
      /\ \A k \in 1 .. l : k = 1 \/ (k - 1 \in 1 .. l - 1 /\ q[k] = p[k - 1])
  BY TailAt
<1> HIDE DEF p, l, h
<1>2. 1 \in 1 .. l
  BY <1>1
<1>3. ASSUME NEW r \in Named(q) PROVE r \in {h.s} \cup Named(p)
  <2>1. PICK k \in 1 .. l : r = q[k].s
    BY <1>3 DEF Named, l
  <2>2. CASE k = 1
    BY <1>1, <2>1, <2>2
  <2>3. CASE k - 1 \in 1 .. l - 1 /\ q[k] = p[k - 1]
    BY <1>1, <2>1, <2>3 DEF Named
  <2> QED
    BY <1>1, <2>1, <2>2, <2>3
<1>4. ASSUME NEW r \in {h.s} \cup Named(p) PROVE r \in Named(q)
  <2>1. CASE r = h.s
    BY <1>1, <1>2, <2>1 DEF Named, l
  <2>2. CASE r \in Named(p)
    <3>1. PICK k \in 1 .. l - 1 : r = p[k].s
      BY <1>1, <2>2 DEF Named
    <3> QED
      BY <1>1, <3>1 DEF Named, l
  <2> QED
    BY <1>4, <2>1, <2>2
<1> QED
  BY <1>3, <1>4 DEF p, h

\* One more message about a known stream.
LEMMA TalkMore ==
    ASSUME NEW q \in Seq(ChannelMessage), NEW m \in ChannelMessage, NEW K,
           Talk(q, K), m.type # "Connect", m.s \in K
    PROVE  Talk(Append(q, m), K)
BY AppendedAt DEF Talk

\* Talk holds of an empty queue, for more streams, and for what follows a first message.
LEMMA TalkParts ==
    /\ \A K : Talk(<<>>, K)
    /\ \A q, K, L : K \subseteq L /\ Talk(q, K) => Talk(q, L)
    /\ \A q \in Seq(ChannelMessage) : \A K :
          Talk(q, K) /\ q # <<>> =>
             Talk(Tail(q), K) /\ Head(q).type # "Connect" /\ Head(q).s \in K
<1>1. \A K : Talk(<<>>, K)
  <2>1. Len(<<>>) = 0
    OBVIOUS
  <2> QED
    BY <2>1 DEF Talk
<1>2. \A q, K, L : K \subseteq L /\ Talk(q, K) => Talk(q, L)
  BY DEF Talk
<1>3. ASSUME NEW q \in Seq(ChannelMessage), NEW K, Talk(q, K), q # <<>>
      PROVE  Talk(Tail(q), K) /\ Head(q).type # "Connect" /\ Head(q).s \in K
  <2>1. /\ Len(q) \in Nat \ {0} /\ Len(Tail(q)) = Len(q) - 1 /\ Head(q) = q[1]
        /\ \A k \in 1 .. Len(q) - 1 : Tail(q)[k] = q[k + 1] /\ k + 1 \in 1 .. Len(q)
    BY <1>3, TailAt
  <2> QED
    BY <1>3, <2>1 DEF Talk
<1> QED
  BY <1>1, <1>2, <1>3

\* The streams named before the k-th message.
NamedBefore(q, k) == {q[j].s : j \in 1 .. k - 1}

\* One more message, a Connect just if the stream is new.
LEMMA IntroducesMore ==
    ASSUME NEW q \in Seq(ChannelMessage), NEW m \in ChannelMessage, NEW K, Introduces(q, K),
           m.type = "Connect" <=> m.s \notin K \cup Named(q)
    PROVE  Introduces(Append(q, m), K)
<1> DEFINE p == Append(q, m)
           l == Len(q)
<1>1. l \in Nat /\ Len(p) = l + 1 /\ p[l + 1] = m /\ \A k \in 1 .. l : p[k] = q[k]
  BY AppendedAt
<1> HIDE DEF p, l
<1>2. \A k \in 1 .. l + 1 : \A j \in 1 .. k - 1 : j \in 1 .. l /\ p[j] = q[j]
  BY <1>1
<1>3. \A k \in 1 .. l + 1 : NamedBefore(p, k) = NamedBefore(q, k)
  BY <1>2 DEF NamedBefore
<1>4. NamedBefore(q, l + 1) = Named(q)
  <2>1. (l + 1) - 1 = l
    BY <1>1
  <2> QED
    BY <2>1 DEF NamedBefore, Named, l
<1>5. ASSUME NEW k \in 1 .. l + 1 PROVE p[k].type = "Connect" <=> p[k].s \notin K \cup NamedBefore(p, k)
  <2>1. CASE k \in 1 .. l
    <3>1. q[k].type = "Connect" <=> q[k].s \notin K \cup NamedBefore(q, k)
      BY <2>1 DEF Introduces, NamedBefore, l
    <3> QED
      BY <1>1, <1>3, <2>1, <3>1
  <2>2. CASE k = l + 1
    BY <1>1, <1>3, <1>4, <2>2
  <2> QED
    BY <1>1, <2>1, <2>2
<1> QED
  BY <1>1, <1>5 DEF Introduces, NamedBefore, p

\* The first message is a Connect just if its stream is new, and its stream is known to the rest.
LEMMA IntroducesRest ==
    ASSUME NEW q \in Seq(ChannelMessage), q # <<>>, NEW K, Introduces(q, K)
    PROVE  /\ Head(q).type = "Connect" <=> Head(q).s \notin K
           /\ Introduces(Tail(q), K \cup {Head(q).s})
<1> DEFINE p == Tail(q)
           l == Len(q)
           h == Head(q)
<1>1. /\ l \in Nat \ {0} /\ Len(p) = l - 1 /\ h = q[1]
      /\ \A k \in 1 .. l - 1 : p[k] = q[k + 1] /\ k + 1 \in 1 .. l
      /\ \A k \in 1 .. l : k = 1 \/ (k - 1 \in 1 .. l - 1 /\ q[k] = p[k - 1])
  BY TailAt
<1>2. \A k \in 1 .. l : q[k].type = "Connect" <=> q[k].s \notin K \cup NamedBefore(q, k)
  BY DEF Introduces, NamedBefore
<1> HIDE DEF p, l, h
<1>3. 1 \in 1 .. l /\ NamedBefore(q, 1) = {}
  BY <1>1 DEF NamedBefore
<1>4. h.type = "Connect" <=> h.s \notin K
  BY <1>1, <1>2, <1>3
<1>5. ASSUME NEW k \in 1 .. l - 1
      PROVE  NamedBefore(q, k + 1) = {h.s} \cup NamedBefore(p, k)
  <2>1. ASSUME NEW j \in 1 .. (k + 1) - 1 PROVE q[j].s \in {h.s} \cup NamedBefore(p, k)
    <3>1. CASE j = 1
      BY <1>1, <3>1
    <3>2. CASE j # 1
      <4>1. j - 1 \in 1 .. k - 1 /\ j - 1 \in 1 .. l - 1 /\ (j - 1) + 1 = j
        <5>1. l \in Nat /\ k \in Nat /\ j \in Nat /\ 1 <= j /\ j <= k /\ k <= l - 1
          BY <1>1
        <5> QED
          BY <3>2, <5>1
      <4>2. q[j] = p[j - 1]
        BY <1>1, <4>1
      <4> QED
        BY <4>1, <4>2 DEF NamedBefore
    <3> QED
      BY <3>1, <3>2
  <2>2. ASSUME NEW j \in 1 .. k - 1 PROVE p[j].s \in NamedBefore(q, k + 1)
    <3>1. j \in 1 .. l - 1 /\ j + 1 \in 1 .. (k + 1) - 1
      <4>1. l \in Nat /\ k \in Nat /\ j \in Nat /\ 1 <= j /\ j <= k - 1 /\ k <= l - 1
        BY <1>1
      <4> QED
        BY <4>1
    <3>2. p[j] = q[j + 1]
      BY <1>1, <3>1
    <3> QED
      BY <3>1, <3>2 DEF NamedBefore
  <2>3. h.s \in NamedBefore(q, k + 1)
    <3>1. 1 \in 1 .. (k + 1) - 1
      OBVIOUS
    <3> QED
      BY <1>1, <3>1 DEF NamedBefore
  <2> QED
    BY <2>1, <2>2, <2>3 DEF NamedBefore
<1>6. ASSUME NEW k \in 1 .. l - 1
      PROVE  p[k].type = "Connect" <=> p[k].s \notin (K \cup {h.s}) \cup NamedBefore(p, k)
  <2>1. p[k] = q[k + 1] /\ k + 1 \in 1 .. l
    BY <1>1
  <2>2. q[k + 1].type = "Connect" <=> q[k + 1].s \notin K \cup NamedBefore(q, k + 1)
    BY <1>2, <2>1
  <2> QED
    BY <1>5, <2>1, <2>2
<1> QED
  BY <1>1, <1>4, <1>6 DEF Introduces, NamedBefore, p, h

-----------------------------------------------------------------------------
(* The parts of the invariant.                                             *)

LoopTypes ==
    /\ mux \in [Ends -> {"select", "sending", "count", "swap", "pause", "stopped", "dropped"}]
    /\ held \in [Ends -> ChannelMessage \cup {NoMsg}]
    /\ \A e \in Ends : mux[e] = "sending" => held[e] # NoMsg
    /\ next_id \in 1 .. MaxStreams + 1
    /\ tracked \in [Ends -> SUBSET Streams]
    /\ interrupted \in [Ends -> BOOLEAN]

ChanTypes ==
    /\ from_stream \in [Ends -> Seq(ChannelMessage)]
    /\ into \in [Ends -> Seq(ChannelMessage)]
    /\ rx \in [Ends -> Seq(ChannelMessage)]
    /\ \A e \in Ends : Len(from_stream[e]) <= StreamCap /\ Len(into[e]) <= IntoCap

Writings == \A e \in Ends, s \in Streams : writer[e][s].pc = "writing" => writer[e][s].queue # <<>>

\* TypeOK, by the variables that steps change together.
LEMMA TypesByPart ==
    TypeOK <=> LoopTypes /\ ChanTypes /\ RecordTypes /\ Writings /\ EnvTypes /\ FlowTypes
BY Types DEF LoopTypes, ChanTypes, RecordTypes, Writings, EnvTypes

\* The same of the next state.
LEMMA TypesByPartNext ==
    TypeOK' <=> LoopTypes' /\ ChanTypes' /\ RecordTypes' /\ Writings' /\ EnvTypes' /\ FlowTypes'
BY DEF TypeOK, TaskType, ReaderType, WriterType, LoopTypes, ChanTypes, RecordTypes, Writings, EnvTypes,
       FlowTypes, FlowType

\* A task that writes has something to write.
LEMMA WritingsNext == TasksInv' => Writings'
BY DEF TasksInv, TaskInv, Writings

\* What is between the multiplexers is a sequence of messages.
LEMMA WayType ==
    ASSUME ChanTypes, NEW e \in Ends
    PROVE  /\ Way(e) \in Seq(ChannelMessage) /\ from_stream[e] \in Seq(ChannelMessage)
           /\ into[e] \in Seq(ChannelMessage) /\ rx[e] \in Seq(ChannelMessage)
BY PeerProperties DEF ChanTypes, Way

\* Flow in the next state.
LEMMA FlowNext ==
    ASSUME NEW e \in Ends, NEW s \in Streams, NEW f, f = Peer(e),
           Given(f, s)' <= Sent(e, s)',
           Accepts(f, s)' =>
              \E b \in Given(f, s)' .. Sent(e, s)' :
                 /\ Underway(Way(e)', Holding(e)', s, Given(f, s)', b)
                 /\ mux'[e] # "dropped" => Carries(from_stream'[e], s, b, Sent(e, s)')
    PROVE  Flow(e, s)'
BY DEF Flow

\* And now.
LEMMA FlowNow ==
    ASSUME NEW e \in Ends, NEW s \in Streams, NEW f, f = Peer(e), Flow(e, s)
    PROVE  /\ Given(f, s) <= Sent(e, s)
           /\ Accepts(f, s) =>
                 \E b \in Given(f, s) .. Sent(e, s) :
                    /\ Underway(Way(e), Holding(e), s, Given(f, s), b)
                    /\ mux[e] # "dropped" => Carries(from_stream[e], s, b, Sent(e, s))
BY DEF Flow

\* A step that moves no data of s on its way from e.
LEMMA FlowSame ==
    ASSUME NEW e \in Ends, NEW s \in Streams, NEW f, f = Peer(e), Flow(e, s),
           Way(e)' = Way(e), Holding(e)' = Holding(e), from_stream'[e] = from_stream[e],
           mux[e] = "dropped" => mux'[e] = "dropped",
           Sent(e, s) \in Nat, Sent(e, s)' \in Nat, Sent(e, s) <= Sent(e, s)',
           mux[e] # "dropped" => Sent(e, s)' = Sent(e, s),
           Given(f, s) \in Nat, Given(f, s)' \in Nat, Given(f, s)' <= Given(f, s),
           Accepts(f, s)' => Accepts(f, s) /\ Given(f, s)' = Given(f, s)
    PROVE  Flow(e, s)'
<1>1. Given(f, s) <= Sent(e, s)
  BY FlowNow
<1>2. Given(f, s)' <= Sent(e, s)'
  BY <1>1
<1>3. ASSUME Accepts(f, s)'
      PROVE  \E b \in Given(f, s)' .. Sent(e, s)' :
                 /\ Underway(Way(e)', Holding(e)', s, Given(f, s)', b)
                 /\ mux'[e] # "dropped" => Carries(from_stream'[e], s, b, Sent(e, s)')
  <2>1. PICK b \in Given(f, s) .. Sent(e, s) :
                 /\ Underway(Way(e), Holding(e), s, Given(f, s), b)
                 /\ mux[e] # "dropped" => Carries(from_stream[e], s, b, Sent(e, s))
    BY <1>3, FlowNow
  <2>2. b \in Given(f, s)' .. Sent(e, s)'
    BY <1>3
  <2>3. Underway(Way(e)', Holding(e)', s, Given(f, s)', b)
    BY <1>3, <2>1
  <2>4. mux'[e] # "dropped" => Carries(from_stream'[e], s, b, Sent(e, s)')
    BY <2>1
  <2> QED
    BY <2>2, <2>3, <2>4
<1> QED
  BY <1>2, <1>3, FlowNext

\* The counts of a record are numbers.
LEMMA CountValues ==
    ASSUME NEW r \in ReaderType, NEW w \in WriterType, r.pc = "sending" => r.n > 0
    PROVE  /\ Len(w.written) + Len(w.queue) \in Nat
           /\ r.n - (IF r.pc = "sending" THEN 1 ELSE 0) \in Nat
<1>1. r.n \in Nat /\ w.queue \in Seq(Nat) /\ w.written \in Seq(Nat)
  BY DEF ReaderType, WriterType
<1>2. Len(w.written) + Len(w.queue) \in Nat
  <2>1. Len(w.queue) \in Nat /\ Len(w.written) \in Nat
    BY <1>1
  <2>2. \A i, j \in Nat : i + j \in Nat
    OBVIOUS
  <2> QED
    BY <2>1, <2>2, Zenon
<1>3. r.n - (IF r.pc = "sending" THEN 1 ELSE 0) \in Nat
  BY <1>1
<1> QED
  BY <1>2, <1>3

\* The counts of the next state are numbers, too.
LEMMA CountsNext ==
    ASSUME RecordTypes', NEW e \in Ends, NEW s \in Streams, TaskInv(e, s)'
    PROVE  Given(e, s)' \in Nat /\ Sent(e, s)' \in Nat
<1>1. reader'[e][s] \in ReaderType /\ writer'[e][s] \in WriterType
      /\ (reader'[e][s].pc = "sending" => reader'[e][s].n > 0)
  BY DEF RecordTypes, TaskInv
<1>2. /\ Len(writer'[e][s].written) + Len(writer'[e][s].queue) \in Nat
      /\ reader'[e][s].n - (IF reader'[e][s].pc = "sending" THEN 1 ELSE 0) \in Nat
  BY <1>1, CountValues
<1> QED
  BY <1>2 DEF Given, Sent

\* What MuxInv says of all the counts.
LEMMA AllCounts ==
    ASSUME MuxInv, NEW e \in Ends, NEW s \in Streams
    PROVE  /\ Given(e, s) \in Nat /\ Sent(e, s) \in Nat /\ Flow(e, s) /\ Orderly(writer[e][s])
           /\ TaskInv(e, s) /\ RecordTypes /\ ChanTypes /\ LoopTypes /\ EnvTypes
<1>1. TaskInv(e, s) /\ RecordTypes /\ ChanTypes /\ LoopTypes /\ EnvTypes
  BY TypesByPart DEF MuxInv, TasksInv
<1> QED
  BY <1>1, Counts DEF MuxInv, Ordered

\* A stream whose records stay, at an end whose run loop keeps it.
LEMMA SameStreamParts ==
    ASSUME NEW d \in Ends, NEW r \in Streams, SameStream(d, r)
    PROVE  /\ Given(d, r)' = Given(d, r) /\ Sent(d, r)' = Sent(d, r)
           /\ Receiving(d, r)' <=> Receiving(d, r)
           /\ Orderly(writer'[d][r]) <=> Orderly(writer[d][r])
           /\ r \in Known(d)' <=> r \in Known(d)
           /\ (r \in tracked'[d] <=> r \in tracked[d]) /\ TaskInv(d, r) => TaskInv(d, r)'
<1> USE DEF SameStream
<1>1. Given(d, r)' = Given(d, r) /\ Sent(d, r)' = Sent(d, r)
  BY DEF Given, Sent
<1>2. Receiving(d, r)' <=> Receiving(d, r)
  BY DEF Receiving
<1>3. Orderly(writer'[d][r]) <=> Orderly(writer[d][r])
  OBVIOUS
<1>4. r \in Known(d)' <=> r \in Known(d)
  BY DEF Known
<1>5. (r \in tracked'[d] <=> r \in tracked[d]) /\ TaskInv(d, r) => TaskInv(d, r)'
  BY DEF TaskInv
<1> QED
  BY <1>1, <1>2, <1>3, <1>4, <1>5

\* A step that is local to a stream keeps the invariant.
LEMMA LocalKeeps ==
    ASSUME MuxInv, FlowTypes', NEW e \in Ends, NEW s \in Streams, LocalStep(e, s)
    PROVE  MuxInv'
<1>0. /\ TypeOK /\ TasksInv /\ LoopsInv /\ Introduced /\ Ordered
      /\ RecordTypes /\ ChanTypes /\ LoopTypes /\ EnvTypes
  BY TypesByPart DEF MuxInv
<1>1. /\ UNCHANGED <<muxVars, into, rx>>
      /\ RecordTypes' /\ EnvTypes'
      /\ \A d \in Ends, r \in Streams : d # e \/ r # s => SameStream(d, r)
      /\ task[e][s].pc # "none" /\ task'[e][s].pc # "none" /\ TaskInv(e, s)'
      /\ Orderly(writer[e][s]) => Orderly(writer'[e][s])
      /\ Given(e, s)' <= Given(e, s)
      /\ Receiving(e, s)' => Receiving(e, s) /\ Given(e, s)' = Given(e, s)
  BY DEF LocalStep
<1>2. \/ /\ from_stream' = from_stream /\ Sent(e, s) <= Sent(e, s)'
         /\ mux[e] # "dropped" => Sent(e, s)' = Sent(e, s)
      \/ \E m \in ChannelMessage :
            /\ Post(e, m) /\ m.s = s /\ m.type # "Connect" /\ SendsNext(e, s, m)
  BY DEF LocalStep
<1>3. \A d \in Ends, r \in Streams : TaskInv(d, r)'
  <2> SUFFICES ASSUME NEW d \in Ends, NEW r \in Streams, d # e \/ r # s PROVE TaskInv(d, r)'
    BY <1>1
  <2>1. SameStream(d, r) /\ tracked' = tracked /\ TaskInv(d, r)
    BY <1>0, <1>1 DEF muxVars, TasksInv
  <2> QED
    BY <2>1, SameStreamParts
<1>4. TasksInv'
  BY <1>3 DEF TasksInv
<1>5. ASSUME NEW m \in ChannelMessage, Post(e, m)
      PROVE  /\ from_stream' \in [Ends -> Seq(ChannelMessage)]
             /\ \A d \in Ends : Len(from_stream'[d]) <= StreamCap
             /\ from_stream'[e] = Append(from_stream[e], m)
             /\ \A d \in Ends : d # e => from_stream'[d] = from_stream[d]
             /\ mux[e] # "dropped"
  BY <1>0, <1>5, PostType
<1>6. TypeOK'
  <2>1. ChanTypes'
    <3>1. CASE from_stream' = from_stream
      BY <1>0, <1>1, <3>1 DEF ChanTypes
    <3>2. CASE \E m \in ChannelMessage : Post(e, m)
      BY <1>0, <1>1, <1>5, <3>2 DEF ChanTypes
    <3> QED
      BY <1>2, <3>1, <3>2
  <2>2. LoopTypes'
    BY <1>0, <1>1 DEF LoopTypes, muxVars
  <2> QED
    BY <1>1, <1>4, <2>1, <2>2, TypesByPartNext, WritingsNext
<1>7. LoopsInv'
  <2>1. mux' = mux /\ held' = held /\ tracked' = tracked /\ rx' = rx
    BY <1>1 DEF muxVars
  <2>2. \A d \in Ends : mux[d] = "dropped" => from_stream'[d] = from_stream[d]
    <3>1. CASE from_stream' = from_stream
      BY <3>1
    <3>2. CASE \E m \in ChannelMessage : Post(e, m)
      BY <1>5, <3>2
    <3> QED
      BY <1>2, <3>1, <3>2
  <2> QED
    BY <1>0, <2>1, <2>2 DEF LoopsInv
<1>8. \A d \in Ends : Way(d)' = Way(d) /\ Holding(d)' = Holding(d) /\ Known(d)' = Known(d)
  <2> SUFFICES ASSUME NEW d \in Ends
               PROVE  Way(d)' = Way(d) /\ Holding(d)' = Holding(d) /\ Known(d)' = Known(d)
    OBVIOUS
  <2>1. Way(d)' = Way(d) /\ Holding(d)' = Holding(d)
    BY <1>1 DEF Way, Holding, muxVars
  <2>2. \A r \in Streams : r \in Known(d)' <=> r \in Known(d)
    BY <1>1, SameStreamParts DEF Known
  <2> QED
    BY <2>1, <2>2 DEF Known
<1>9. Introduced'
  <2>1. s \in Known("client")
    <3>1. s \in Known(e) /\ e \in {"client", "server"}
      BY <1>1 DEF Known, Ends
    <3> QED
      BY <1>0, <3>1 DEF Introduced
  <2>2. ASSUME NEW d \in Ends PROVE Talk(from_stream'[d], Known("client"))
    <3>1. Talk(from_stream[d], Known("client")) /\ from_stream[d] \in Seq(ChannelMessage)
      BY <1>0 DEF Introduced, ChanTypes
    <3>2. CASE from_stream' = from_stream
      BY <3>1, <3>2
    <3>3. ASSUME NEW m \in ChannelMessage, Post(e, m), m.s = s, m.type # "Connect"
          PROVE  Talk(from_stream'[d], Known("client"))
      <4>1. CASE d = e
        <5>1. Talk(Append(from_stream[d], m), Known("client"))
          BY <2>1, <3>1, <3>3, TalkMore
        <5> QED
          BY <1>5, <3>3, <4>1, <5>1
      <4>2. CASE d # e
        BY <1>5, <3>1, <3>3, <4>2
      <4> QED
        BY <4>1, <4>2
    <3> QED
      BY <1>2, <3>2, <3>3
  <2>3. "client" \in Ends /\ "server" \in Ends
    BY DEF Ends
  <2> QED
    BY <1>0, <1>1, <1>8, <2>2, <2>3 DEF Introduced, muxVars
<1>10. ASSUME NEW d \in Ends, NEW r \in Streams PROVE Orderly(writer'[d][r]) /\ Flow(d, r)'
  <2>0. /\ Given(d, r) \in Nat /\ Sent(d, r) \in Nat /\ Flow(d, r) /\ Orderly(writer[d][r])
        /\ Given(d, r)' \in Nat /\ Sent(d, r)' \in Nat
    BY <1>1, <1>3, AllCounts, CountsNext
  <2>1. Orderly(writer'[d][r])
    <3>1. CASE d = e /\ r = s
      BY <1>1, <2>0, <3>1
    <3>2. CASE d # e \/ r # s
      BY <1>1, <2>0, <3>2, SameStreamParts
    <3> QED
      BY <3>1, <3>2
  <2> DEFINE f == Peer(d)
  <2>f. f \in Ends /\ f # d
    BY PeerProperties
  <2>2. /\ Given(f, r) \in Nat /\ Given(f, r)' \in Nat /\ Given(f, r)' <= Given(f, r)
        /\ Accepts(f, r)' => Accepts(f, r) /\ Given(f, r)' = Given(f, r)
    <3>1. Given(f, r) \in Nat /\ Given(f, r)' \in Nat
      BY <1>1, <1>3, <2>f, AllCounts, CountsNext
    <3>2. mux' = mux /\ tracked' = tracked
      BY <1>1 DEF muxVars
    <3>3. CASE f = e /\ r = s
      <4>1. r \in Known(f) /\ r \in Known(f)'
        BY <1>1, <2>f, <3>3 DEF Known
      <4> QED
        BY <1>1, <3>1, <3>2, <3>3, <4>1 DEF Accepts
    <3>4. CASE f # e \/ r # s
      <4>1. SameStream(f, r)
        BY <1>1, <2>f, <3>4
      <4>2. Given(f, r)' = Given(f, r) /\ (Receiving(f, r)' <=> Receiving(f, r))
        BY <2>f, <4>1, SameStreamParts
      <4>3. Given(f, r)' <= Given(f, r)
        BY <3>1, <4>2
      <4>4. Accepts(f, r)' => Accepts(f, r)
        BY <1>8, <2>f, <3>2, <4>2 DEF Accepts
      <4> QED
        BY <3>1, <4>2, <4>3, <4>4
    <3> QED
      BY <3>3, <3>4
  <2>w. Way(d)' = Way(d) /\ Holding(d)' = Holding(d) /\ mux' = mux
    BY <1>1, <1>8 DEF muxVars
  <2> HIDE DEF f
  <2>3. CASE /\ from_stream'[d] = from_stream[d] /\ Sent(d, r) <= Sent(d, r)'
             /\ mux[d] # "dropped" => Sent(d, r)' = Sent(d, r)
    <3>1. mux[d] = "dropped" => mux'[d] = "dropped"
      BY <2>w
    <3>2. Flow(d, r)'
      BY <2>0, <2>2, <2>w, <2>3, <3>1, FlowSame DEF f
    <3> QED
      BY <2>1, <3>2
  <2>4. ASSUME d = e, NEW m \in ChannelMessage, Post(e, m), m.s = s, SendsNext(e, s, m)
        PROVE  Flow(d, r)'
    <3>1. from_stream'[d] = Append(from_stream[d], m) /\ mux[d] # "dropped"
          /\ from_stream[d] \in Seq(ChannelMessage)
      BY <1>0, <1>5, <2>4 DEF ChanTypes
    <3>2. /\ Is(m, r) => Sent(d, r)' = Sent(d, r) + 1 /\ m = Data(r, Sent(d, r) + 1)
          /\ ~Is(m, r) => Sent(d, r)' = Sent(d, r)
      <4>1. CASE r = s
        <5>1. m.type = "Data" => m = Data(s, m.n)
          BY <2>4, Messages
        <5> QED
          BY <2>4, <4>1, <5>1 DEF Is, SendsNext
      <4>2. CASE r # s
        BY <1>1, <2>4, <4>2, SameStreamParts DEF Is
      <4> QED
        BY <4>1, <4>2
    <3>3. Sent(d, r) <= Sent(d, r)'
      BY <2>0, <3>2
    <3>4. Given(f, r)' <= Sent(d, r)'
      <4>1. Given(f, r) <= Sent(d, r)
        BY <2>0, FlowNow DEF f
      <4> QED
        BY <2>0, <2>2, <3>3, <4>1
    <3>5. ASSUME Accepts(f, r)'
          PROVE  \E b \in Given(f, r)' .. Sent(d, r)' :
                     /\ Underway(Way(d)', Holding(d)', r, Given(f, r)', b)
                     /\ mux'[d] # "dropped" => Carries(from_stream'[d], r, b, Sent(d, r)')
      <4>0. Accepts(f, r) /\ Given(f, r)' = Given(f, r)
        BY <2>2, <3>5
      <4>1. PICK b \in Given(f, r) .. Sent(d, r) :
                     /\ Underway(Way(d), Holding(d), r, Given(f, r), b)
                     /\ mux[d] # "dropped" => Carries(from_stream[d], r, b, Sent(d, r))
        BY <2>0, <4>0, FlowNow DEF f
      <4>2. b \in Given(f, r)' .. Sent(d, r)' /\ b \in Nat /\ b <= Sent(d, r)
        BY <2>0, <2>2, <3>3, <4>0
      <4>3. Carries(from_stream'[d], r, b, Sent(d, r)')
        <5>1. CASE Is(m, r)
          BY <2>0, <3>1, <3>2, <4>1, <4>2, <5>1, CarriesNext
        <5>2. CASE ~Is(m, r)
          BY <2>0, <3>1, <3>2, <4>1, <4>2, <5>2, CarriesMore
        <5> QED
          BY <5>1, <5>2
      <4>4. Underway(Way(d)', Holding(d)', r, Given(f, r)', b)
        BY <2>w, <4>0, <4>1
      <4> QED
        BY <4>2, <4>3, <4>4
    <3> QED
      BY <3>4, <3>5, FlowNext DEF f
  <2>5. CASE d # e
    <3>1. Sent(d, r)' = Sent(d, r) /\ Sent(d, r) <= Sent(d, r)'
      BY <1>1, <2>0, <2>5, SameStreamParts
    <3>2. from_stream'[d] = from_stream[d]
      <4>1. CASE from_stream' = from_stream
        BY <4>1
      <4>2. CASE \E m \in ChannelMessage : Post(e, m)
        BY <1>5, <2>5, <4>2
      <4> QED
        BY <1>2, <4>1, <4>2
    <3> QED
      BY <2>3, <3>1, <3>2
  <2>6. CASE d = e /\ from_stream' = from_stream /\ Sent(e, s) <= Sent(e, s)'
             /\ (mux[e] # "dropped" => Sent(e, s)' = Sent(e, s))
    <3>1. r # s => Sent(d, r)' = Sent(d, r) /\ Sent(d, r) <= Sent(d, r)'
      BY <1>1, <2>0, <2>6, SameStreamParts
    <3> QED
      BY <2>3, <2>6, <3>1
  <2> QED
    BY <1>2, <2>1, <2>4, <2>5, <2>6
<1>11. Ordered'
  BY <1>10 DEF Ordered
<1> QED
  BY <1>4, <1>6, <1>7, <1>9, <1>11 DEF MuxInv

-----------------------------------------------------------------------------
(* A new stream, and one that is removed.                                  *)

\* Stream r at end d is what it was, for its run loop, too.
SameAt(d, r) == SameStream(d, r) /\ (r \in tracked'[d] <=> r \in tracked[d])

\* new_stream changes its stream only, and gives nothing to it.
LEMMA NewStreamEffect ==
    ASSUME TypeOK, NEW e \in Ends, NEW s \in Streams, TaskInv(e, s), task[e][s].pc = "none",
           NewStream(e, s)
    PROVE  /\ tracked' \in [Ends -> SUBSET Streams] /\ RecordTypes'
           /\ \A d \in Ends, r \in Streams : d # e \/ r # s => SameAt(d, r)
           /\ task'[e][s].pc # "none" /\ TaskInv(e, s)'
           /\ writer'[e][s].queue = writer[e][s].queue
           /\ writer'[e][s].written = writer[e][s].written
           /\ Sent(e, s)' = Sent(e, s)
<1>0. RecordTypes /\ tracked \in [Ends -> SUBSET Streams]
      /\ reader[e][s].pc = "none" /\ writer[e][s].pc = "none"
  BY TypesByPart DEF LoopTypes, TaskInv
<1>1. tracked' \in [Ends -> SUBSET Streams]
      /\ \A d \in Ends, r \in Streams : d # e \/ r # s => (r \in tracked'[d] <=> r \in tracked[d])
  BY <1>0 DEF NewStream
<1>2. CASE RunStream(e, s)
  <2>1. /\ RecordTypes' /\ \A d \in Ends, r \in Streams : d # e \/ r # s => SameStream(d, r)
        /\ task'[e][s].pc = "running"
        /\ reader'[e][s].pc = "reading" /\ reader'[e][s].n = reader[e][s].n
        /\ writer'[e][s].pc = "recv" /\ writer'[e][s].queue = writer[e][s].queue
        /\ writer'[e][s].written = writer[e][s].written
    BY <1>2, RunTypes DEF RecordTypes, SameStream
  <2>2. TaskInv(e, s)'
    BY <2>1 DEF TaskInv
  <2>3. Sent(e, s)' = Sent(e, s)
    BY <1>0, <2>1 DEF Sent
  <2> QED
    BY <1>1, <2>1, <2>2, <2>3 DEF SameAt
<1>3. CASE task' = [task EXCEPT ![e][s].pc = "connecting"] /\ UNCHANGED <<reader, writer>>
  <2> DEFINE v == [task[e][s] EXCEPT !.pc = "connecting"]
  <2>1. v \in TaskType /\ v.pc = "connecting"
    <3>1. task[e][s] \in TaskType
      BY <1>0 DEF RecordTypes
    <3> QED
      BY <3>1, TaskFields
  <2>2. task' = [task EXCEPT ![e][s] = v]
    BY <1>0, <1>3 DEF RecordTypes
  <2> HIDE DEF v
  <2>3. /\ task' \in [Ends -> [Streams -> TaskType]] /\ task'[e][s] = v
        /\ \A d \in Ends, r \in Streams : d # e \/ r # s => task'[d][r] = task[d][r]
    BY <1>0, <2>1, <2>2, Update DEF RecordTypes
  <2>4. RecordTypes' /\ \A d \in Ends, r \in Streams : d # e \/ r # s => SameStream(d, r)
    BY <1>0, <1>3, <2>3 DEF RecordTypes, SameStream
  <2>5. TaskInv(e, s)'
    BY <1>0, <1>3, <2>1, <2>3 DEF TaskInv
  <2>6. Sent(e, s)' = Sent(e, s)
    BY <1>3 DEF Sent
  <2> QED
    BY <1>1, <1>3, <2>1, <2>3, <2>4, <2>5, <2>6 DEF SameAt
<1> QED
  BY <1>2, <1>3 DEF NewStream

\* remove changes its stream only, which then takes no data.
LEMMA RemoveEffect ==
    ASSUME TypeOK, NEW e \in Ends, NEW s \in Streams, TaskInv(e, s), Orderly(writer[e][s]),
           Remove(e, s), UNCHANGED reader
    PROVE  /\ tracked' \in [Ends -> SUBSET Streams] /\ RecordTypes'
           /\ \A d \in Ends, r \in Streams : d # e \/ r # s => SameAt(d, r)
           /\ s \notin tracked'[e]
           /\ task'[e][s].pc = "none" <=> task[e][s].pc = "none"
           /\ TaskInv(e, s)' /\ Orderly(writer'[e][s])
           /\ Given(e, s)' <= Given(e, s) /\ Sent(e, s)' = Sent(e, s)
<1> DEFINE w == writer[e][s]
           v == writer'[e][s]
<1>0. RecordTypes /\ tracked \in [Ends -> SUBSET Streams] /\ task[e][s] \in TaskType /\ w \in WriterType
  BY TypesByPart DEF LoopTypes, RecordTypes
<1>1. tracked' \in [Ends -> SUBSET Streams] /\ s \notin tracked'[e]
      /\ \A d \in Ends, r \in Streams : d # e \/ r # s => (r \in tracked'[d] <=> r \in tracked[d])
  BY <1>0 DEF Remove
<1>2. Sent(e, s)' = Sent(e, s)
  BY DEF Sent
<1>c. Given(e, s) = Len(w.written) + Len(w.queue) /\ Given(e, s)' = Len(v.written) + Len(v.queue)
  BY DEF Given
<1>d. w.queue \in Seq(Nat) /\ w.written \in Seq(Nat) /\ Len(w.queue) \in Nat /\ Len(w.written) \in Nat
      /\ Len(<<>>) = 0
  <2>1. w.queue \in Seq(Nat) /\ w.written \in Seq(Nat)
    BY <1>0 DEF WriterType
  <2> QED
    BY <2>1
<1>3. CASE UNCHANGED <<task, writer>>
  <2>1. RecordTypes' /\ \A d \in Ends, r \in Streams : d # e \/ r # s => SameStream(d, r)
    BY <1>0, <1>3 DEF RecordTypes, SameStream
  <2>2. TaskInv(e, s)' /\ Orderly(writer'[e][s])
    BY <1>1, <1>3 DEF TaskInv
  <2>3. Given(e, s)' <= Given(e, s)
    BY <1>3, <1>c, <1>d
  <2> QED
    BY <1>1, <1>2, <1>3, <2>1, <2>2, <2>3 DEF SameAt
<1>4. CASE /\ task[e][s].pc \in {"connecting", "running", "waiting"}
           /\ task' = [task EXCEPT ![e][s] =
                          [pc |-> "ended", done |-> @.done \/ @.pc = "running"]]
           /\ writer' = [writer EXCEPT ![e][s].queue =
                            IF writer[e][s].pc = "none" THEN <<>> ELSE @]
  <2> DEFINE t == [pc |-> "ended", done |-> task[e][s].done \/ task[e][s].pc = "running"]
             x == Emptied(w)
  <2>1. t \in TaskType /\ t.pc = "ended"
    BY <1>0 DEF TaskType
  <2>2. task' = [task EXCEPT ![e][s] = t]
    BY <1>0, <1>4 DEF RecordTypes
  <2>3. writer' = [writer EXCEPT ![e][s] = x]
    BY <1>0, <1>4 DEF RecordTypes, Emptied
  <2>4. x \in WriterType /\ x.pc = w.pc /\ x.written = w.written
        /\ (w.pc = "none" => x.queue = <<>>) /\ (w.pc # "none" => x.queue = w.queue)
    BY <1>0, EmptiedFields
  <2> HIDE DEF t, x
  <2>5. /\ task' \in [Ends -> [Streams -> TaskType]] /\ task'[e][s] = t
        /\ \A d \in Ends, r \in Streams : d # e \/ r # s => task'[d][r] = task[d][r]
    BY <1>0, <2>1, <2>2, Update DEF RecordTypes
  <2>6. /\ writer' \in [Ends -> [Streams -> WriterType]] /\ v = x
        /\ \A d \in Ends, r \in Streams : d # e \/ r # s => writer'[d][r] = writer[d][r]
    BY <1>0, <2>3, <2>4, Update DEF RecordTypes
  <2>7. RecordTypes' /\ \A d \in Ends, r \in Streams : d # e \/ r # s => SameStream(d, r)
    BY <1>0, <2>5, <2>6 DEF RecordTypes, SameStream
  <2>8. v.written = w.written /\ (v.queue = w.queue \/ v.queue = <<>>) /\ v.pc = w.pc
    BY <2>4, <2>6
  <2>9. TaskInv(e, s)'
    BY <1>4, <2>1, <2>4, <2>5, <2>6 DEF TaskInv
  <2>10. Orderly(v)
    <3>1. Counted(w.written, 0) /\ Counted(w.queue, Len(w.written))
      BY DEF Orderly
    <3>2. Counted(<<>>, Len(w.written))
      BY <1>d DEF Counted
    <3>3. Counted(v.written, 0) /\ Counted(v.queue, Len(v.written))
      BY <2>8, <3>1, <3>2
    <3> QED
      BY <3>3 DEF Orderly
  <2>11. Given(e, s)' <= Given(e, s)
    BY <1>c, <1>d, <2>8
  <2> QED
    BY <1>1, <1>2, <1>4, <2>1, <2>5, <2>7, <2>9, <2>10, <2>11 DEF SameAt
<1> QED
  BY <1>3, <1>4 DEF Remove

-----------------------------------------------------------------------------
(* A run loop takes a message.                                             *)

\* The end e takes m: what becomes of its stream, and of e, which may go on handling it.
Taking(e, m) ==
    /\ mux[e] = "select" /\ rx[e] # <<>> /\ m = Head(rx[e])
    /\ rx' = [rx EXCEPT ![e] = Tail(@)]
    /\ UNCHANGED <<next_id, interrupted, from_stream, into, envVars>>
    /\ \/ mux' = mux /\ held' = held
       \/ /\ m.type = "Data" /\ mux' = [mux EXCEPT ![e] = "count"]
          /\ held' = [held EXCEPT ![e] = Msg("Pause", m.s)]
    /\ tracked' \in [Ends -> SUBSET Streams] /\ RecordTypes'
    /\ \A d \in Ends, r \in Streams : d # e \/ r # m.s => SameAt(d, r)
    /\ task'[e][m.s].pc = "none" <=> task[e][m.s].pc = "none" /\ m.type # "Connect"
    /\ TaskInv(e, m.s)' /\ Orderly(writer'[e][m.s]) /\ Sent(e, m.s)' = Sent(e, m.s)
    /\ \/ Given(e, m.s)' <= Given(e, m.s)
       \/ m.type = "Data" /\ Accepts(e, m.s) /\ Given(e, m.s)' = Given(e, m.s) + 1
    /\ Accepts(e, m.s)' =>
          /\ Accepts(e, m.s)
          /\ m.type = "Data" => Given(e, m.s)' = Given(e, m.s) + 1
          /\ m.type # "Data" => Given(e, m.s)' = Given(e, m.s)

\* What an end takes is the first message on the way to it.
LEMMA HeadOfWay ==
    ASSUME ChanTypes, NEW e \in Ends, rx[e] # <<>>
    PROVE  /\ Way(Peer(e)) \in Seq(ChannelMessage) /\ Way(Peer(e)) # <<>>
           /\ Head(Way(Peer(e))) = Head(rx[e]) /\ Head(rx[e]) \in ChannelMessage
           /\ Tail(Way(Peer(e))) = Tail(rx[e]) \o into[Peer(e)]
           /\ Tail(rx[e]) \in Seq(ChannelMessage)
<1> DEFINE f == Peer(e)
           p == rx[e]
           q == into[f]
<1>1. f \in Ends /\ Peer(f) = e
  BY PeerProperties
<1>2. p \in Seq(ChannelMessage) /\ q \in Seq(ChannelMessage) /\ p # <<>>
  BY <1>1 DEF ChanTypes
<1>3. Way(f) = p \o q
  BY <1>1 DEF Way
<1> HIDE DEF p, q
<1>4. /\ p \o q \in Seq(ChannelMessage) /\ p \o q # <<>> /\ Head(p \o q) = Head(p)
      /\ Head(p) \in ChannelMessage /\ Tail(p) \in Seq(ChannelMessage)
      /\ Tail(p \o q) = Tail(p) \o q
  <2>1. /\ p \o q \in Seq(ChannelMessage) /\ Len(p) \in Nat \ {0} /\ Len(q) \in Nat
        /\ Len(p \o q) = Len(p) + Len(q) /\ Head(p) = p[1] /\ Head(p) \in ChannelMessage
        /\ Tail(p) \in Seq(ChannelMessage) /\ (p \o q)[1] = p[1]
    BY <1>2
  <2>2. p \o q # <<>>
    BY <2>1
  <2>3. Head(p \o q) = Head(p)
    BY <2>1, <2>2
  <2>4. p = <<Head(p)>> \o Tail(p)
    BY <1>2, HeadTailProperties
  <2>5. p \o q = <<Head(p)>> \o (Tail(p) \o q)
    BY <1>2, <2>1, <2>4, ConcatAssociative
  <2>6. Tail(p) \o q \in Seq(ChannelMessage)
    BY <1>2, <2>1
  <2>7. \A x \in ChannelMessage, z \in Seq(ChannelMessage) : Tail(<<x>> \o z) = z
    OBVIOUS
  <2>8. Tail(p \o q) = Tail(p) \o q
    BY <2>1, <2>5, <2>6, <2>7
  <2> QED
    BY <2>1, <2>2, <2>3, <2>8
<1> QED
  BY <1>3, <1>4 DEF p, q

\* What is appended to a channel into the link is appended to the way.
LEMMA WayMore ==
    ASSUME ChanTypes, NEW e \in Ends, NEW m \in ChannelMessage,
           rx'[Peer(e)] = rx[Peer(e)], into'[e] = Append(into[e], m)
    PROVE  Way(e)' = Append(Way(e), m)
<1>1. /\ rx[Peer(e)] \in Seq(ChannelMessage) /\ into[e] \in Seq(ChannelMessage)
      /\ Way(e) = rx[Peer(e)] \o into[e]
  BY PeerProperties DEF ChanTypes, Way
<1>2. \A p, q \in Seq(ChannelMessage) : p \o Append(q, m) = Append(p \o q, m)
  <2> SUFFICES ASSUME NEW p \in Seq(ChannelMessage), NEW q \in Seq(ChannelMessage)
               PROVE  p \o Append(q, m) = Append(p \o q, m)
    OBVIOUS
  <2>1. <<m>> \in Seq(ChannelMessage) /\ p \o q \in Seq(ChannelMessage)
    OBVIOUS
  <2>2. \A x \in Seq(ChannelMessage) : Append(x, m) = x \o <<m>>
    BY AppendIsConcat
  <2> QED
    BY <2>1, <2>2, ConcatAssociative
<1>3. Way(e)' = rx[Peer(e)] \o Append(into[e], m)
  BY DEF Way
<1> QED
  BY <1>1, <1>2, <1>3

\* A message that arrives first introduces its stream, or is about a known one.
LEMMA FirstIs ==
    ASSUME MuxInv, NEW e \in Ends, rx[e] # <<>>, NEW m, m = Head(rx[e]), mux[e] # "dropped"
    PROVE  /\ m \in ChannelMessage /\ m.s \in Streams
           /\ m.type = "Connect" <=> m.s \notin Known(e)
           /\ m.type = "Connect" => e = "server"
<1>0. ChanTypes /\ Introduced
  BY TypesByPart DEF MuxInv
<1>1. /\ Way(Peer(e)) \in Seq(ChannelMessage) /\ Way(Peer(e)) # <<>>
      /\ Head(Way(Peer(e))) = m /\ m \in ChannelMessage
  BY <1>0, HeadOfWay
<1>2. m.s \in Streams
  BY <1>1, Messages
<1>3. CASE e = "client"
  <2>1. Talk(Way(Peer(e)), Known(e))
    BY <1>0, <1>3 DEF Introduced, Peer
  <2> QED
    BY <1>1, <1>2, <2>1, TalkParts
<1>4. CASE e = "server"
  <2>1. Introduces(Way(Peer(e)), Known(e))
    BY <1>0, <1>4 DEF Introduced, Peer
  <2>2. m.type = "Connect" <=> m.s \notin Known(e)
    BY <1>1, <2>1, IntroducesRest
  <2> QED
    BY <1>1, <1>2, <1>4, <2>2
<1> QED
  BY <1>3, <1>4 DEF Ends

\* What Taking does to the ways, the types and the tasks.
LEMMA TakingParts ==
    ASSUME MuxInv, FlowTypes', NEW e \in Ends, NEW m, Taking(e, m)
    PROVE  /\ m \in ChannelMessage /\ m.s \in Streams /\ Msg("Pause", m.s) \in ChannelMessage
           /\ Msg("Pause", m.s).type = "Pause" /\ Msg("Pause", m.s).s = m.s
           /\ Way(Peer(e)) \in Seq(ChannelMessage) /\ Way(Peer(e)) # <<>> /\ Head(Way(Peer(e))) = m
           /\ Way(Peer(e))' = Tail(Way(Peer(e))) /\ Way(e)' = Way(e)
           /\ held' = held \/ (m.type = "Data" /\ held' = [held EXCEPT ![e] = Msg("Pause", m.s)])
           /\ \A d \in Ends : /\ Holding(d)' = Holding(d)
                              /\ mux'[d] = "dropped" <=> mux[d] = "dropped"
           /\ Known(Peer(e))' = Known(Peer(e))
           /\ Known(e)' = IF m.type = "Connect" THEN Known(e) \cup {m.s} ELSE Known(e)
           /\ m.type = "Connect" <=> m.s \notin Known(e)
           /\ m.type = "Connect" => e = "server"
           /\ TypeOK' /\ TasksInv' /\ LoopsInv'
<1> DEFINE f == Peer(e)
<1>0. /\ ChanTypes /\ LoopTypes /\ RecordTypes /\ TasksInv /\ LoopsInv /\ EnvTypes /\ TypeOK
      /\ f \in Ends /\ f # e /\ Peer(f) = e
  BY TypesByPart, PeerProperties DEF MuxInv
<1>1. /\ mux[e] = "select" /\ rx[e] # <<>> /\ m = Head(rx[e])
      /\ rx' = [rx EXCEPT ![e] = Tail(@)]
      /\ UNCHANGED <<next_id, interrupted, from_stream, into, envVars>>
      /\ \/ mux' = mux /\ held' = held
         \/ /\ m.type = "Data" /\ mux' = [mux EXCEPT ![e] = "count"]
            /\ held' = [held EXCEPT ![e] = Msg("Pause", m.s)]
      /\ tracked' \in [Ends -> SUBSET Streams] /\ RecordTypes'
      /\ \A d \in Ends, r \in Streams : d # e \/ r # m.s => SameAt(d, r)
      /\ task'[e][m.s].pc = "none" <=> task[e][m.s].pc = "none" /\ m.type # "Connect"
      /\ TaskInv(e, m.s)'
  BY DEF Taking
<1>2. /\ m \in ChannelMessage /\ m.s \in Streams
      /\ m.type = "Connect" <=> m.s \notin Known(e)
      /\ m.type = "Connect" => e = "server"
  BY <1>1, FirstIs
<1> DEFINE pause == Msg("Pause", m.s)
<1>3. pause \in ChannelMessage /\ pause.type = "Pause" /\ pause.s = m.s
  BY <1>2, Messages DEF Controls
<1> HIDE DEF pause
<1>4. /\ Way(f) \in Seq(ChannelMessage) /\ Way(f) # <<>>
      /\ Head(Way(f)) = Head(rx[e]) /\ Head(rx[e]) \in ChannelMessage
      /\ Tail(Way(f)) = Tail(rx[e]) \o into[f]
      /\ Tail(rx[e]) \in Seq(ChannelMessage)
  BY <1>0, <1>1, HeadOfWay
<1>5. /\ rx'[e] = Tail(rx[e]) /\ rx'[f] = rx[f]
      /\ rx' \in [Ends -> Seq(ChannelMessage)]
      /\ mux' \in [Ends -> {"select", "sending", "count", "swap", "pause", "stopped", "dropped"}]
      /\ \A d \in Ends : d # e => mux'[d] = mux[d] /\ held'[d] = held[d]
      /\ \/ mux'[e] = "select" /\ held'[e] = NoMsg
         \/ mux'[e] = "count" /\ held'[e] = pause
  BY <1>0, <1>1, <1>4 DEF ChanTypes, LoopTypes, LoopsInv, pause
<1>7. Way(f)' = Tail(Way(f))
  BY <1>0, <1>1, <1>4, <1>5 DEF Way
<1>8. Way(e)' = Way(e)
  BY <1>1, <1>5 DEF Way
<1>9. \A d \in Ends : Holding(d)' = Holding(d) /\ (mux'[d] = "dropped" <=> mux[d] = "dropped")
  <2>1. ASSUME NEW d \in Ends, d # e PROVE Holding(d)' = Holding(d)
    BY <1>5, <2>1 DEF Holding
  <2>2. Holding(e) = <<>> /\ Holding(e)' = <<>>
    BY <1>0, <1>1, <1>5 DEF Holding, Handling, LoopsInv
  <2> QED
    BY <1>1, <1>5, <2>1, <2>2
<1>10. \A d \in Ends, r \in Streams : d # e \/ r # m.s => (r \in Known(d)' <=> r \in Known(d))
  BY <1>1, SameStreamParts DEF SameAt
<1>11. Known(f)' = Known(f)
  BY <1>0, <1>10 DEF Known
<1>12. Known(e)' = IF m.type = "Connect" THEN Known(e) \cup {m.s} ELSE Known(e)
  <2>1. m.s \in Known(e)' <=> (m.s \in Known(e) \/ m.type = "Connect")
    BY <1>1, <1>2 DEF Known
  <2>2. \A r \in Streams : r \in Known(e)' <=> (r \in Known(e) \/ (r = m.s /\ m.type = "Connect"))
    BY <1>10, <2>1
  <2> QED
    BY <1>2, <2>2 DEF Known
<1>13. \A d \in Ends, r \in Streams : TaskInv(d, r)'
  <2> SUFFICES ASSUME NEW d \in Ends, NEW r \in Streams, d # e \/ r # m.s PROVE TaskInv(d, r)'
    BY <1>1
  <2>1. SameStream(d, r) /\ (r \in tracked'[d] <=> r \in tracked[d]) /\ TaskInv(d, r)
    BY <1>0, <1>1 DEF SameAt, TasksInv
  <2> QED
    BY <2>1, SameStreamParts
<1>14. TasksInv'
  BY <1>13 DEF TasksInv
<1>15. TypeOK'
  <2>1. ChanTypes'
    BY <1>0, <1>1, <1>5 DEF ChanTypes
  <2>2. \A d \in Ends : mux'[d] = "sending" => held'[d] # NoMsg
    BY <1>0, <1>1, <1>5 DEF LoopTypes
  <2>h. held' \in [Ends -> ChannelMessage \cup {NoMsg}]
    BY <1>0, <1>1, <1>3 DEF LoopTypes, pause
  <2>3. LoopTypes'
    BY <1>0, <1>1, <1>5, <2>2, <2>h DEF LoopTypes
  <2>4. EnvTypes'
    BY <1>0, <1>1 DEF EnvTypes, envVars
  <2> QED
    BY <1>1, <1>14, <2>1, <2>3, <2>4, TypesByPartNext, WritingsNext
<1>16. LoopsInv'
  <2>1. ASSUME NEW d \in Ends, mux'[d] = "select" PROVE held'[d] = NoMsg
    BY <1>0, <1>1, <1>5, <2>1 DEF LoopsInv
  <2>3. ASSUME NEW d \in Ends, mux'[d] \in Handling PROVE held'[d].type = "Pause"
    BY <1>0, <1>3, <1>5, <2>3 DEF LoopsInv, Handling
  <2>2. ASSUME NEW d \in Ends, mux'[d] = "dropped"
        PROVE  /\ held'[d] = NoMsg /\ tracked'[d] = {}
               /\ from_stream'[d] = <<>> /\ rx'[d] = <<>>
    <3>1. d # e /\ mux[d] = "dropped"
      BY <1>5, <2>2
    <3>2. held'[d] = NoMsg /\ from_stream'[d] = <<>> /\ rx'[d] = <<>> /\ tracked[d] = {}
      BY <1>0, <1>1, <1>5, <3>1 DEF LoopsInv, ChanTypes
    <3>3. \A r \in Streams : r \notin tracked'[d]
      BY <1>1, <3>1, <3>2 DEF SameAt
    <3> QED
      BY <1>1, <3>2, <3>3
  <2> QED
    BY <2>1, <2>2, <2>3 DEF LoopsInv
<1> QED
  BY <1>2, <1>3, <1>4, <1>1, <1>7, <1>8, <1>9, <1>11, <1>12, <1>14, <1>15, <1>16 DEF pause

\* A message that is taken leaves the introductions in order.
LEMMA TakingIntroduced ==
    ASSUME MuxInv, FlowTypes', NEW e \in Ends, NEW m, Taking(e, m)
    PROVE  Introduced'
<1> DEFINE K == Known("client")
           L == Known("server")
           W == Way("client")
           V == Way("server")
           pause == Msg("Pause", m.s)
<1>0. Introduced /\ ChanTypes /\ W \in Seq(ChannelMessage) /\ V \in Seq(ChannelMessage)
  BY TypesByPart, WayType DEF MuxInv, Ends
<1>1. /\ \A s \in K : s < next_id
      /\ L \cup Named(W) \subseteq K
      /\ mux["server"] # "dropped" => K \subseteq L \cup Named(W) /\ Introduces(W, L)
      /\ Talk(V, K)
      /\ \A d \in Ends : /\ Talk(from_stream[d], K)
                         /\ held[d] # NoMsg =>
                               IF held[d].type = "Connect"
                                  THEN d = "client" /\ held[d].s < next_id /\ held[d].s \notin K
                                  ELSE held[d].s \in K
  BY <1>0 DEF Introduced
<1>2. /\ m \in ChannelMessage /\ m.s \in Streams /\ pause \in ChannelMessage
      /\ pause.type = "Pause" /\ pause.s = m.s
      /\ Way(Peer(e)) # <<>> /\ Head(Way(Peer(e))) = m
      /\ Way(Peer(e))' = Tail(Way(Peer(e))) /\ Way(e)' = Way(e)
      /\ held' = held \/ (m.type = "Data" /\ held' = [held EXCEPT ![e] = pause])
      /\ Known(Peer(e))' = Known(Peer(e))
      /\ Known(e)' = IF m.type = "Connect" THEN Known(e) \cup {m.s} ELSE Known(e)
      /\ m.type = "Connect" <=> m.s \notin Known(e)
      /\ m.type = "Connect" => e = "server"
      /\ held \in [Ends -> ChannelMessage \cup {NoMsg}]
  BY TakingParts, TypesByPart DEF MuxInv, LoopTypes
<1>3. next_id' = next_id /\ from_stream' = from_stream
      /\ (mux'["server"] = "dropped" <=> mux["server"] = "dropped")
  BY TakingParts DEF Taking, Ends
<1>4. K' = K
  BY <1>2 DEF Ends, Peer
<1> HIDE DEF K, L, W, V, pause
<1>h. ASSUME m.type = "Data" => m.s \in K, NEW d \in Ends, held'[d] # NoMsg
      PROVE  IF held'[d].type = "Connect"
                THEN d = "client" /\ held'[d].s < next_id /\ held'[d].s \notin K
                ELSE held'[d].s \in K
  <2>1. held'[d] = held[d] \/ (m.type = "Data" /\ held'[d] = pause)
    BY <1>2
  <2> QED
    BY <1>1, <1>2, <1>h, <2>1
<1>5. CASE e = "server"
  <2>1. W # <<>> /\ Head(W) = m /\ W' = Tail(W) /\ V' = V
        /\ L' = IF m.type = "Connect" THEN L \cup {m.s} ELSE L
    BY <1>2, <1>5 DEF W, V, L, Peer
  <2>2. m.type = "Connect" <=> m.s \notin L
    BY <1>2, <1>5 DEF L
  <2>3. L' = L \cup {m.s}
    BY <2>1, <2>2
  <2>4. Named(W) = {m.s} \cup Named(W')
    BY <1>0, <2>1, NamedRest
  <2>5. Introduces(W, L) => Introduces(W', L')
    BY <1>0, <2>1, <2>3, IntroducesRest
  <2>6. Talk(V', K) /\ (m.type = "Data" => m.s \in K)
    BY <1>1, <2>1, <2>2
  <2>7. L' \cup Named(W') \subseteq K /\ L' \cup Named(W') = L \cup Named(W)
    BY <1>1, <2>3, <2>4
  <2> QED
    BY <1>1, <1>3, <1>4, <1>h, <2>5, <2>6, <2>7 DEF Introduced, K, L, W, V
<1>6. CASE e = "client"
  <2>1. V # <<>> /\ Head(V) = m /\ V' = Tail(V) /\ W' = W /\ L' = L
    BY <1>2, <1>6 DEF W, V, L, Peer
  <2>2. Talk(V', K) /\ m.s \in K
    BY <1>0, <1>1, <2>1, TalkParts
  <2> QED
    BY <1>1, <1>3, <1>4, <1>h, <2>1, <2>2 DEF Introduced, K, L, W, V
<1> QED
  BY <1>5, <1>6 DEF Ends

\* A stream that is as it was has the same counts, and accepts what it did.
LEMMA SameAtAccepts ==
    ASSUME NEW d \in Ends, NEW r \in Streams, SameAt(d, r),
           mux'[d] = "dropped" <=> mux[d] = "dropped"
    PROVE  /\ Given(d, r)' = Given(d, r) /\ Sent(d, r)' = Sent(d, r)
           /\ Accepts(d, r)' <=> Accepts(d, r)
           /\ Orderly(writer'[d][r]) <=> Orderly(writer[d][r])
<1>1. SameStream(d, r) /\ (r \in tracked'[d] <=> r \in tracked[d])
  BY DEF SameAt
<1>2. /\ Given(d, r)' = Given(d, r) /\ Sent(d, r)' = Sent(d, r)
      /\ Receiving(d, r)' <=> Receiving(d, r)
      /\ Orderly(writer'[d][r]) <=> Orderly(writer[d][r])
      /\ r \in Known(d)' <=> r \in Known(d)
  BY <1>1, SameStreamParts
<1>3. Accepts(d, r)' <=> Accepts(d, r)
  BY <1>1, <1>2 DEF Accepts
<1> QED
  BY <1>2, <1>3

\* A message that is taken leaves the data in order.
LEMMA TakingOrdered ==
    ASSUME MuxInv, FlowTypes', NEW e \in Ends, NEW m, Taking(e, m)
    PROVE  Ordered'
<1> DEFINE f == Peer(e)
           W == Way(f)
<1>0. f \in Ends /\ f # e /\ Peer(f) = e /\ (\A d \in Ends : d = e \/ d = f)
  BY PeerProperties DEF Ends, Peer
<1>1. /\ m \in ChannelMessage /\ m.s \in Streams /\ Way(e)' = Way(e)
      /\ W \in Seq(ChannelMessage) /\ W # <<>> /\ Head(W) = m /\ W' = Tail(W)
      /\ \A d \in Ends : Holding(d)' = Holding(d) /\ (mux'[d] = "dropped" <=> mux[d] = "dropped")
      /\ TypeOK' /\ TasksInv'
  BY TakingParts
<1>2. /\ \A d \in Ends, r \in Streams : d # e \/ r # m.s => SameAt(d, r)
      /\ Orderly(writer'[e][m.s]) /\ Sent(e, m.s)' = Sent(e, m.s)
      /\ \/ Given(e, m.s)' <= Given(e, m.s)
         \/ m.type = "Data" /\ Accepts(e, m.s) /\ Given(e, m.s)' = Given(e, m.s) + 1
      /\ Accepts(e, m.s)' =>
            /\ Accepts(e, m.s)
            /\ m.type = "Data" => Given(e, m.s)' = Given(e, m.s) + 1
            /\ m.type # "Data" => Given(e, m.s)' = Given(e, m.s)
      /\ from_stream' = from_stream /\ mux[e] = "select"
  BY DEF Taking
<1> HIDE DEF f, W
<1>3. ASSUME NEW d \in Ends, NEW r \in Streams
      PROVE  /\ Given(d, r) \in Nat /\ Sent(d, r) \in Nat
             /\ Given(d, r)' \in Nat /\ Sent(d, r)' = Sent(d, r) /\ Flow(d, r)
             /\ Orderly(writer'[d][r])
  <2>1. /\ Given(d, r) \in Nat /\ Sent(d, r) \in Nat /\ Flow(d, r) /\ Orderly(writer[d][r])
        /\ ChanTypes
    BY AllCounts
  <2>2. Given(d, r)' \in Nat
    <3>1. RecordTypes' /\ TaskInv(d, r)'
      BY <1>1, TypesByPartNext DEF TasksInv
    <3> QED
      BY <3>1, CountsNext
  <2>3. Sent(d, r)' = Sent(d, r) /\ Orderly(writer'[d][r])
    <3>1. CASE d = e /\ r = m.s
      BY <1>2, <3>1
    <3>2. CASE d # e \/ r # m.s
      <4>1. SameAt(d, r) /\ (mux'[d] = "dropped" <=> mux[d] = "dropped")
        BY <1>1, <1>2, <3>2
      <4> QED
        BY <2>1, <4>1, SameAtAccepts
    <3> QED
      BY <3>1, <3>2
  <2> QED
    BY <2>1, <2>2, <2>3
<1>4. ASSUME NEW r \in Streams PROVE Flow(e, r)'
  <2>0. /\ Given(f, r)' = Given(f, r) /\ (Accepts(f, r)' <=> Accepts(f, r))
        /\ Sent(e, r)' = Sent(e, r) /\ Given(f, r) \in Nat /\ Sent(e, r) \in Nat /\ Flow(e, r)
    <3>1. SameAt(f, r) /\ (mux'[f] = "dropped" <=> mux[f] = "dropped")
      BY <1>0, <1>1, <1>2
    <3>2. Given(f, r)' = Given(f, r) /\ (Accepts(f, r)' <=> Accepts(f, r))
      BY <1>0, <3>1, SameAtAccepts
    <3> QED
      BY <1>0, <1>3, <3>2
  <2>1. Given(f, r)' <= Sent(e, r)'
    BY <2>0, FlowNow DEF f
  <2>2. ASSUME Accepts(f, r)'
        PROVE  \E b \in Given(f, r)' .. Sent(e, r)' :
                   /\ Underway(Way(e)', Holding(e)', r, Given(f, r)', b)
                   /\ mux'[e] # "dropped" => Carries(from_stream'[e], r, b, Sent(e, r)')
    <3>1. PICK b \in Given(f, r) .. Sent(e, r) :
                   /\ Underway(Way(e), Holding(e), r, Given(f, r), b)
                   /\ mux[e] # "dropped" => Carries(from_stream[e], r, b, Sent(e, r))
      BY <2>0, <2>2, FlowNow DEF f
    <3>2. Underway(Way(e)', Holding(e)', r, Given(f, r)', b)
      BY <1>1, <2>0, <3>1
    <3>3. mux'[e] # "dropped" => Carries(from_stream'[e], r, b, Sent(e, r)')
      BY <1>1, <1>2, <2>0, <3>1
    <3>4. b \in Given(f, r)' .. Sent(e, r)'
      BY <2>0, <3>1
    <3> QED
      BY <3>2, <3>3, <3>4
  <2> QED
    BY <2>1, <2>2, FlowNext DEF f
<1>5. ASSUME NEW r \in Streams PROVE Flow(f, r)'
  <2>0. /\ Given(e, r) \in Nat /\ Given(e, r)' \in Nat /\ Sent(f, r)' = Sent(f, r)
        /\ Sent(f, r) \in Nat /\ Flow(f, r) /\ Given(e, r) <= Sent(f, r)
    BY <1>0, <1>3, FlowNow
  <2>1. /\ Given(e, r)' <= Given(e, r) \/ (Is(m, r) /\ Accepts(e, r) /\ Given(e, r)' = Given(e, r) + 1)
        /\ Accepts(e, r)' => /\ Accepts(e, r)
                             /\ Is(m, r) => Given(e, r)' = Given(e, r) + 1
                             /\ ~Is(m, r) => Given(e, r)' = Given(e, r)
    <3>1. CASE r = m.s
      BY <1>2, <3>1 DEF Is
    <3>2. CASE r # m.s
      <4>1. SameAt(e, r) /\ (mux'[e] = "dropped" <=> mux[e] = "dropped")
        BY <1>1, <1>2, <3>2
      <4>2. Given(e, r)' = Given(e, r) /\ (Accepts(e, r)' <=> Accepts(e, r)) /\ ~Is(m, r)
        BY <3>2, <4>1, SameAtAccepts DEF Is
      <4> QED
        BY <2>0, <4>2
    <3> QED
      BY <3>1, <3>2
  <2>2. ASSUME Accepts(e, r)
        PROVE  \E b \in Given(e, r) .. Sent(f, r) :
                  /\ ~Is(m, r) => Underway(W', Holding(f)', r, Given(e, r), b)
                  /\ Is(m, r) => /\ Given(e, r) + 1 <= b
                                 /\ Underway(W', Holding(f)', r, Given(e, r) + 1, b)
                  /\ mux'[f] # "dropped" => Carries(from_stream'[f], r, b, Sent(f, r)')
    <3>1. PICK b \in Given(e, r) .. Sent(f, r) :
                   /\ Underway(W, Holding(f), r, Given(e, r), b)
                   /\ mux[f] # "dropped" => Carries(from_stream[f], r, b, Sent(f, r))
      BY <1>0, <2>0, <2>2, FlowNow DEF W
    <3>2. b \in Nat
      BY <2>0
    <3>3. /\ ~Is(Head(W), r) => Underway(Tail(W), Holding(f), r, Given(e, r), b)
          /\ Is(Head(W), r) => /\ Given(e, r) + 1 <= b
                               /\ Underway(Tail(W), Holding(f), r, Given(e, r) + 1, b)
      BY <1>1, <2>0, <3>1, <3>2, UnderwayRest
    <3>4. mux'[f] # "dropped" => Carries(from_stream'[f], r, b, Sent(f, r)')
      BY <1>0, <1>1, <1>2, <2>0, <3>1
    <3>5. W' = Tail(W) /\ Holding(f)' = Holding(f) /\ Head(W) = m
      BY <1>0, <1>1
    <3> QED
      BY <3>1, <3>3, <3>4, <3>5
  <2>3. Given(e, r)' <= Sent(f, r)'
    <3>1. CASE Given(e, r)' <= Given(e, r)
      BY <2>0, <3>1
    <3>2. CASE Is(m, r) /\ Accepts(e, r) /\ Given(e, r)' = Given(e, r) + 1
      <4>1. PICK b \in Given(e, r) .. Sent(f, r) : Given(e, r) + 1 <= b
        BY <2>2, <3>2
      <4> QED
        BY <2>0, <3>2, <4>1
    <3> QED
      BY <2>1, <3>1, <3>2
  <2>4. ASSUME Accepts(e, r)'
        PROVE  \E b \in Given(e, r)' .. Sent(f, r)' :
                   /\ Underway(Way(f)', Holding(f)', r, Given(e, r)', b)
                   /\ mux'[f] # "dropped" => Carries(from_stream'[f], r, b, Sent(f, r)')
    <3>1. PICK b \in Given(e, r) .. Sent(f, r) :
                  /\ ~Is(m, r) => Underway(W', Holding(f)', r, Given(e, r), b)
                  /\ Is(m, r) => /\ Given(e, r) + 1 <= b
                                 /\ Underway(W', Holding(f)', r, Given(e, r) + 1, b)
                  /\ mux'[f] # "dropped" => Carries(from_stream'[f], r, b, Sent(f, r)')
      BY <2>1, <2>2, <2>4
    <3>2. b \in Given(e, r)' .. Sent(f, r)'
      BY <2>0, <2>1, <2>4, <3>1
    <3>3. Underway(Way(f)', Holding(f)', r, Given(e, r)', b)
      BY <2>1, <2>4, <3>1 DEF W
    <3> QED
      BY <3>1, <3>2, <3>3
  <2> QED
    BY <1>0, <2>3, <2>4, FlowNext
<1> QED
  BY <1>0, <1>3, <1>4, <1>5 DEF Ordered

\* Taking a message keeps the invariant.
LEMMA TakingKeeps ==
    ASSUME MuxInv, FlowTypes', NEW e \in Ends, NEW m, Taking(e, m) PROVE MuxInv'
<1>1. TypeOK' /\ TasksInv' /\ LoopsInv'
  BY TakingParts
<1>2. Introduced'
  BY TakingIntroduced
<1>3. Ordered'
  BY TakingOrdered
<1> QED
  BY <1>1, <1>2, <1>3 DEF MuxInv

-----------------------------------------------------------------------------
(* What a run loop does with each kind of message is Taking.               *)

\* The first message, its stream, and what is known of them.
LEMMA TakesParts ==
    ASSUME MuxInv, NEW e \in Ends, NEW t, Takes(e, t), NEW m, m = Head(rx[e])
    PROVE  /\ mux[e] = "select" /\ rx[e] # <<>> /\ m.type = t /\ rx' = [rx EXCEPT ![e] = Tail(@)]
           /\ m \in ChannelMessage /\ m.s \in Streams
           /\ m.type = "Connect" <=> task[e][m.s].pc = "none"
           /\ TypeOK /\ TaskInv(e, m.s) /\ Orderly(writer[e][m.s]) /\ RecordTypes
           /\ Given(e, m.s) \in Nat /\ tracked \in [Ends -> SUBSET Streams]
<1>1. mux[e] = "select" /\ rx[e] # <<>> /\ m.type = t /\ rx' = [rx EXCEPT ![e] = Tail(@)]
  BY DEF Takes
<1>2. m \in ChannelMessage /\ m.s \in Streams /\ (m.type = "Connect" <=> m.s \notin Known(e))
  BY <1>1, FirstIs
<1>3. m.type = "Connect" <=> task[e][m.s].pc = "none"
  BY <1>2 DEF Known
<1>4. TaskInv(e, m.s) /\ Orderly(writer[e][m.s]) /\ RecordTypes /\ Given(e, m.s) \in Nat /\ LoopTypes
  BY <1>2, AllCounts
<1> QED
  BY <1>1, <1>2, <1>3, <1>4 DEF MuxInv, LoopTypes

\* The handler of a Connect takes it.
LEMMA GotConnectTakes ==
    ASSUME MuxInv, NEW e, e = "server", NEW m, m = Head(rx[e]), GotConnect PROVE Taking(e, m)
<1> DEFINE s == m.s
<1>0. /\ e \in Ends /\ Takes(e, "Connect")
      /\ s \notin tracked[e] => NewStream(e, s)
      /\ UNCHANGED <<mux, held, next_id, interrupted, from_stream, into, envVars>>
  BY DEF GotConnect, Ends
<1>1. /\ mux[e] = "select" /\ rx[e] # <<>> /\ m.type = "Connect" /\ rx' = [rx EXCEPT ![e] = Tail(@)]
      /\ s \in Streams /\ task[e][s].pc = "none"
      /\ TypeOK /\ TaskInv(e, s) /\ Orderly(writer[e][s]) /\ Given(e, s) \in Nat
  BY <1>0, TakesParts
<1>n. NewStream(e, s)
  BY <1>0, <1>1 DEF TaskInv
<1>2. /\ tracked' \in [Ends -> SUBSET Streams] /\ RecordTypes'
      /\ \A d \in Ends, r \in Streams : d # e \/ r # s => SameAt(d, r)
      /\ task'[e][s].pc # "none" /\ TaskInv(e, s)'
      /\ writer'[e][s].queue = writer[e][s].queue
      /\ writer'[e][s].written = writer[e][s].written
      /\ Sent(e, s)' = Sent(e, s)
  BY <1>0, <1>1, <1>n, NewStreamEffect
<1>3. Orderly(writer'[e][s]) /\ Given(e, s)' = Given(e, s)
  BY <1>1, <1>2 DEF Orderly, Given
<1>4. Given(e, s)' <= Given(e, s)
  BY <1>1, <1>3
<1>5. Accepts(e, s)
  BY <1>1 DEF Accepts, Known
<1> QED
  BY <1>0, <1>1, <1>2, <1>3, <1>4, <1>5 DEF Taking

\* The stream of what was taken is no longer tracked.
LEMMA RemoveTakes ==
    ASSUME MuxInv, NEW e \in Ends, NEW m, m = Head(rx[e]), NEW t, t # "Connect", Takes(e, t),
           Remove(e, m.s),
           UNCHANGED <<mux, held, next_id, interrupted, from_stream, into, reader, envVars>>
    PROVE  Taking(e, m)
<1> DEFINE s == m.s
<1>1. /\ mux[e] = "select" /\ rx[e] # <<>> /\ m.type # "Connect" /\ rx' = [rx EXCEPT ![e] = Tail(@)]
      /\ s \in Streams /\ task[e][s].pc # "none"
      /\ TypeOK /\ TaskInv(e, s) /\ Orderly(writer[e][s])
  BY TakesParts
<1>2. /\ tracked' \in [Ends -> SUBSET Streams] /\ RecordTypes'
      /\ \A d \in Ends, r \in Streams : d # e \/ r # s => SameAt(d, r)
      /\ s \notin tracked'[e]
      /\ task'[e][s].pc = "none" <=> task[e][s].pc = "none"
      /\ TaskInv(e, s)' /\ Orderly(writer'[e][s])
      /\ Given(e, s)' <= Given(e, s) /\ Sent(e, s)' = Sent(e, s)
  BY <1>1, RemoveEffect
<1>3. ~Accepts(e, s)'
  BY <1>1, <1>2 DEF Accepts, Known
<1> QED
  BY <1>1, <1>2, <1>3 DEF Taking

\* Data for an unknown stream is taken, and nothing else happens.
LEMMA GotDataUnknownTakes ==
    ASSUME MuxInv, NEW e \in Ends, NEW m, m = Head(rx[e]), GotDataUnknown(e) PROVE Taking(e, m)
<1> DEFINE s == m.s
<1>0. Takes(e, "Data") /\ s \notin tracked[e]
      /\ UNCHANGED <<muxVars, from_stream, into, taskVars, envVars>>
  BY DEF GotDataUnknown
<1>1. /\ mux[e] = "select" /\ rx[e] # <<>> /\ m.type = "Data" /\ rx' = [rx EXCEPT ![e] = Tail(@)]
      /\ s \in Streams /\ task[e][s].pc # "none" /\ RecordTypes
      /\ TypeOK /\ TaskInv(e, s) /\ Orderly(writer[e][s]) /\ Given(e, s) \in Nat
      /\ tracked \in [Ends -> SUBSET Streams]
  BY <1>0, TakesParts
<1>2. UNCHANGED <<mux, held, next_id, tracked, interrupted, task, reader, writer>>
  BY <1>0 DEF muxVars, taskVars
<1>3. RecordTypes' /\ \A d \in Ends, r \in Streams : SameAt(d, r)
  BY <1>1, <1>2 DEF RecordTypes, SameAt, SameStream
<1>4. TaskInv(e, s)' /\ Orderly(writer'[e][s]) /\ Sent(e, s)' = Sent(e, s) /\ Given(e, s)' = Given(e, s)
  BY <1>1, <1>2 DEF TaskInv, Sent, Given
<1>5. Given(e, s)' <= Given(e, s)
  BY <1>1, <1>4
<1>6. ~Accepts(e, s)'
  BY <1>0, <1>1, <1>2 DEF Accepts, Known
<1> QED
  BY <1>0, <1>1, <1>2, <1>3, <1>4, <1>5, <1>6 DEF Taking

\* The reader is paused or resumed.
LEMMA PauseTakes ==
    ASSUME MuxInv, NEW e \in Ends, NEW m, m = Head(rx[e]), NEW t, t \notin {"Connect", "Data"},
           Takes(e, t), NEW b \in BOOLEAN, reader' = [reader EXCEPT ![e][m.s].paused = b],
           UNCHANGED <<muxVars, from_stream, into, task, writer, envVars>>
    PROVE  Taking(e, m)
<1> DEFINE s == m.s
           v == [reader[e][s] EXCEPT !.paused = b]
<1>1. /\ mux[e] = "select" /\ rx[e] # <<>> /\ m.type \notin {"Connect", "Data"}
      /\ rx' = [rx EXCEPT ![e] = Tail(@)]
      /\ s \in Streams /\ task[e][s].pc # "none" /\ RecordTypes
      /\ TypeOK /\ TaskInv(e, s) /\ Orderly(writer[e][s]) /\ Given(e, s) \in Nat
      /\ tracked \in [Ends -> SUBSET Streams]
  BY TakesParts
<1>2. UNCHANGED <<mux, held, next_id, tracked, interrupted>>
  BY DEF muxVars
<1>r. reader[e][s] \in ReaderType
  BY <1>1 DEF RecordTypes
<1>v. v \in ReaderType /\ v.pc = reader[e][s].pc /\ v.n = reader[e][s].n
  BY <1>r DEF ReaderType
<1>3. reader' = [reader EXCEPT ![e][s] = v]
  BY <1>1 DEF RecordTypes
<1> HIDE DEF v
<1>4. /\ reader' \in [Ends -> [Streams -> ReaderType]] /\ reader'[e][s] = v
      /\ \A d \in Ends, r \in Streams : d # e \/ r # s => reader'[d][r] = reader[d][r]
  BY <1>1, <1>3, <1>v, Update DEF RecordTypes
<1>5. RecordTypes' /\ \A d \in Ends, r \in Streams : d # e \/ r # s => SameAt(d, r)
  BY <1>1, <1>2, <1>4 DEF RecordTypes, SameAt, SameStream
<1>6. TaskInv(e, s)' /\ Orderly(writer'[e][s]) /\ Sent(e, s)' = Sent(e, s) /\ Given(e, s)' = Given(e, s)
  BY <1>1, <1>2, <1>4, <1>v DEF TaskInv, Sent, Given
<1>7. Given(e, s)' <= Given(e, s)
  BY <1>1, <1>6
<1>8. Accepts(e, s)' => Accepts(e, s)
  BY <1>2 DEF Accepts, Known, Receiving
<1> QED
  BY <1>1, <1>2, <1>5, <1>6, <1>7, <1>8 DEF Taking

\* The handler of Data for a stream that receives takes it.
LEMMA GotDataTakes ==
    ASSUME MuxInv, NEW e \in Ends, NEW m, m = Head(rx[e]), GotData(e) PROVE Taking(e, m)
<1> DEFINE s == m.s
           w == writer[e][s]
           v == [w EXCEPT !.queue = Append(w.queue, m.n)]
<1>0. /\ Takes(e, "Data") /\ s \in tracked[e] /\ Receiving(e, s)
      /\ writer' = [writer EXCEPT ![e][s].queue = Append(@, m.n)]
      /\ mux' = [mux EXCEPT ![e] = "count"] /\ held' = [held EXCEPT ![e] = Msg("Pause", s)]
      /\ UNCHANGED <<next_id, tracked, interrupted, from_stream, into, task, reader, envVars>>
  BY DEF GotData
<1> HIDE DEF v
<1>t. Takes(e, "Data")
  BY <1>0
<1>1. /\ mux[e] = "select" /\ rx[e] # <<>> /\ m.type = "Data" /\ rx' = [rx EXCEPT ![e] = Tail(@)]
      /\ m \in ChannelMessage /\ s \in Streams /\ task[e][s].pc # "none" /\ RecordTypes
      /\ TypeOK /\ TaskInv(e, s) /\ Orderly(w) /\ Given(e, s) \in Nat
      /\ tracked \in [Ends -> SUBSET Streams]
  BY <1>t, TakesParts
<1>2. w \in WriterType /\ m.n \in Nat
  BY <1>1, Messages DEF RecordTypes
<1>3. v \in WriterType /\ v.pc = w.pc /\ v.queue = Append(w.queue, m.n) /\ v.written = w.written
  <2> DEFINE q == Append(w.queue, m.n)
  <2>1. \A x \in Seq(Nat), k \in Nat : Append(x, k) \in Seq(Nat)
    OBVIOUS
  <2>2. w.queue \in Seq(Nat)
    BY <1>2, WriterFields
  <2>3. q \in Seq(Nat)
    BY <1>2, <2>1, <2>2
  <2>4. v = [w EXCEPT !.queue = q]
    BY DEF v
  <2> HIDE DEF w, q
  <2>5. LET u == [w EXCEPT !.queue = q] IN
        u \in WriterType /\ u.pc = w.pc /\ u.queue = q /\ u.written = w.written
    BY <1>2, <2>3 DEF WriterType
  <2> QED
    BY <2>4, <2>5 DEF q
<1>w. writer \in [Ends -> [Streams -> WriterType]]
  BY <1>1 DEF RecordTypes
<1>4. writer' = [writer EXCEPT ![e][s] = v]
  BY <1>0, <1>1, <1>w DEF v
<1>5. /\ writer' \in [Ends -> [Streams -> WriterType]] /\ writer'[e][s] = v
      /\ \A d \in Ends, r \in Streams : d # e \/ r # s => writer'[d][r] = writer[d][r]
  <2>1. v \in WriterType /\ s \in Streams
    BY <1>1, <1>3
  <2> HIDE DEF s
  <2> QED
    BY <1>4, <1>w, <2>1, Update
<1>6. RecordTypes' /\ \A d \in Ends, r \in Streams : d # e \/ r # s => SameAt(d, r)
  BY <1>0, <1>1, <1>5 DEF RecordTypes, SameAt, SameStream
<1>7. w.queue \in Seq(Nat) /\ w.written \in Seq(Nat) /\ Len(w.queue) \in Nat /\ Len(w.written) \in Nat
  <2>1. w.queue \in Seq(Nat) /\ w.written \in Seq(Nat)
    BY <1>2 DEF WriterType
  <2> HIDE DEF w
  <2> QED
    BY <2>1
<1> HIDE DEF w
<1>8. Given(e, s) = Len(w.written) + Len(w.queue) /\ Given(e, s)' = Given(e, s) + 1
  <2>1. Given(e, s) = Len(w.written) + Len(w.queue)
    BY DEF Given, w
  <2>2. Len(v.queue) = Len(w.queue) + 1 /\ v.written = w.written
    BY <1>2, <1>3, <1>7
  <2>3. Given(e, s)' = Len(v.written) + Len(v.queue)
    BY <1>5 DEF Given
  <2>4. \A i, j \in Nat : i + (j + 1) = (i + j) + 1
    OBVIOUS
  <2>5. Given(e, s)' = Len(w.written) + (Len(w.queue) + 1)
    BY <2>2, <2>3, Zenon
  <2> QED
    BY <1>7, <2>1, <2>4, <2>5, Zenon
<1>9. Accepts(e, s)
  BY <1>0, <1>1 DEF Accepts
<1>10. m.n = Given(e, s) + 1
  <2> DEFINE f == Peer(e)
             W == Way(f)
  <2>0. f \in Ends /\ Peer(f) = e
    BY PeerProperties
  <2>1. Flow(f, s) /\ Sent(f, s) \in Nat /\ ChanTypes
    BY <1>1, <2>0, AllCounts
  <2>2. W \in Seq(ChannelMessage) /\ W # <<>> /\ Head(W) = m
    BY <1>1, <2>1, HeadOfWay
  <2> HIDE DEF f, W
  <2>3. PICK k \in Given(e, s) .. Sent(f, s) : Underway(W, Holding(f), s, Given(e, s), k)
    BY <1>1, <1>9, <2>0, <2>1, FlowNow DEF W
  <2>4. Is(m, s) /\ k \in Nat
    BY <1>1, <2>1 DEF Is
  <2>5. m = Data(s, Given(e, s) + 1)
    BY <1>1, <2>2, <2>3, <2>4, UnderwayRest
  <2>6. Given(e, s) + 1 \in Nat
    BY <1>1
  <2> QED
    BY <1>1, <2>5, <2>6, Messages
<1>11. Orderly(v)
  <2>1. Counted(w.written, 0) /\ Counted(w.queue, Len(w.written))
    BY <1>1 DEF Orderly
  <2>2. /\ Len(v.queue) = Len(w.queue) + 1 /\ v.queue[Len(w.queue) + 1] = m.n
        /\ \A k \in 1 .. Len(w.queue) : v.queue[k] = w.queue[k]
    BY <1>2, <1>3, <1>7
  <2>3. m.n = Len(w.written) + (Len(w.queue) + 1)
    <3>1. \A i, j \in Nat : i + (j + 1) = (i + j) + 1
      OBVIOUS
    <3> QED
      BY <1>7, <1>8, <1>10, <3>1, Zenon
  <2>4. Counted(v.queue, Len(w.written))
    <3>1. ASSUME NEW k \in 1 .. Len(v.queue) PROVE v.queue[k] = Len(w.written) + k
      <4>1. CASE k \in 1 .. Len(w.queue)
        BY <2>1, <2>2, <4>1 DEF Counted
      <4>2. CASE k = Len(w.queue) + 1
        BY <2>2, <2>3, <4>2
      <4> QED
        BY <1>7, <2>2, <4>1, <4>2
    <3> QED
      BY <3>1 DEF Counted
  <2> QED
    BY <1>3, <2>1, <2>4 DEF Orderly
<1>12. TaskInv(e, s)'
  <2>1. v.pc # "none" \/ task[e][s].pc # "running"
    BY <1>1, <1>3 DEF TaskInv, w
  <2>2. v.queue # <<>>
    <3>1. Len(v.queue) = Len(w.queue) + 1
      BY <1>2, <1>3, <1>7
    <3> QED
      BY <1>7, <3>1
  <2> QED
    BY <1>0, <1>1, <1>3, <1>5, <2>1, <2>2 DEF TaskInv, w
<1>13. Sent(e, s)' = Sent(e, s)
  BY <1>0 DEF Sent
<1> QED
  BY <1>0, <1>1, <1>5, <1>6, <1>8, <1>9, <1>11, <1>12, <1>13 DEF Taking

\* So everything that a run loop receives is taken.
LEMMA ReceiveTakes ==
    ASSUME MuxInv, NEW e \in Ends, NEW m, m = Head(rx[e]), Receive(e) PROVE Taking(e, m)
<1>1. CASE e = "server" /\ GotConnect
  BY <1>1, GotConnectTakes
<1>2. CASE GotDisconnect(e)
  BY <1>2, RemoveTakes DEF GotDisconnect
<1>3. CASE GotPause(e)
  <2> DEFINE b == reader[e][m.s].paused \/ m.s \in tracked[e]
  <2>1. /\ Takes(e, "Pause") /\ reader' = [reader EXCEPT ![e][m.s].paused = @ \/ m.s \in tracked[e]]
        /\ UNCHANGED <<muxVars, from_stream, into, task, writer, envVars>>
    BY <1>3 DEF GotPause
  <2>2. m.s \in Streams /\ RecordTypes
    BY <2>1, TakesParts
  <2>3. reader' = [reader EXCEPT ![e][m.s].paused = b] /\ b \in BOOLEAN
    BY <2>1, <2>2 DEF RecordTypes, ReaderType
  <2> HIDE DEF b
  <2> QED
    BY <2>1, <2>3, PauseTakes
<1>4. CASE GotResume(e)
  <2> DEFINE b == reader[e][m.s].paused /\ m.s \notin tracked[e]
  <2>1. /\ Takes(e, "Resume") /\ reader' = [reader EXCEPT ![e][m.s].paused = @ /\ m.s \notin tracked[e]]
        /\ UNCHANGED <<muxVars, from_stream, into, task, writer, envVars>>
    BY <1>4 DEF GotResume
  <2>2. m.s \in Streams /\ RecordTypes
    BY <2>1, TakesParts
  <2>3. reader' = [reader EXCEPT ![e][m.s].paused = b] /\ b \in BOOLEAN
    BY <2>1, <2>2 DEF RecordTypes, ReaderType
  <2> HIDE DEF b
  <2> QED
    BY <2>1, <2>3, PauseTakes
<1>5. CASE GotDataUnknown(e)
  BY <1>5, GotDataUnknownTakes
<1>6. CASE GotDataRefused(e)
  BY <1>6, RemoveTakes DEF GotDataRefused
<1>7. CASE GotData(e)
  BY <1>7, GotDataTakes
<1> QED
  BY <1>1, <1>2, <1>3, <1>4, <1>5, <1>6, <1>7 DEF Receive

\* And keeps the invariant.
LEMMA ReceiveKeeps ==
    ASSUME MuxInv, FlowTypes', NEW e \in Ends, Receive(e) PROVE MuxInv'
BY ReceiveTakes, TakingKeeps

-----------------------------------------------------------------------------
(* The steps of the run loops and the links that leave the streams' tasks. *)

\* What a step that leaves the tasks, and tracks no more streams, leaves.
LEMMA TasksSame ==
    ASSUME MuxInv, UNCHANGED <<task, reader, writer>>,
           \A d \in Ends : tracked'[d] \subseteq tracked[d]
    PROVE  /\ TasksInv' /\ RecordTypes'
           /\ \A d \in Ends : Known(d)' = Known(d)
           /\ \A d \in Ends, r \in Streams :
                 /\ Given(d, r)' = Given(d, r) /\ Given(d, r) \in Nat
                 /\ Sent(d, r)' = Sent(d, r) /\ Sent(d, r) \in Nat
                 /\ Receiving(d, r)' <=> Receiving(d, r)
                 /\ Orderly(writer'[d][r]) /\ Flow(d, r)
<1>0. UNCHANGED <<task, reader, writer>> /\ TasksInv /\ RecordTypes
  BY TypesByPart DEF MuxInv
<1>1. RecordTypes'
  BY <1>0 DEF RecordTypes
<1>2. \A d \in Ends : Known(d)' = Known(d)
  BY <1>0 DEF Known
<1>3. TasksInv'
  BY <1>0 DEF TasksInv, TaskInv
<1>4. ASSUME NEW d \in Ends, NEW r \in Streams
      PROVE  /\ Given(d, r)' = Given(d, r) /\ Given(d, r) \in Nat
             /\ Sent(d, r)' = Sent(d, r) /\ Sent(d, r) \in Nat
             /\ Receiving(d, r)' <=> Receiving(d, r)
             /\ Orderly(writer'[d][r]) /\ Flow(d, r)
  <2>1. Given(d, r) \in Nat /\ Sent(d, r) \in Nat /\ Flow(d, r) /\ Orderly(writer[d][r])
    BY AllCounts
  <2>2. Given(d, r)' = Given(d, r) /\ Sent(d, r)' = Sent(d, r) /\ (Receiving(d, r)' <=> Receiving(d, r))
    BY <1>0 DEF Given, Sent, Receiving
  <2> QED
    BY <1>0, <2>1, <2>2
<1> QED
  BY <1>1, <1>2, <1>3, <1>4

\* A step that moves the boundary between what is under way and what is not.
LEMMA FlowMoves ==
    ASSUME NEW e \in Ends, NEW s \in Streams, NEW f, f = Peer(e), Flow(e, s),
           NEW g, g = Given(f, s), NEW n, n = Sent(e, s),
           Given(f, s)' = g, Sent(e, s)' = n, Accepts(f, s)' => Accepts(f, s),
           \A b \in g .. n :
              /\ Underway(Way(e), Holding(e), s, g, b)
              /\ mux[e] # "dropped" => Carries(from_stream[e], s, b, n)
              => \E c \in g .. n :
                    /\ Underway(Way(e)', Holding(e)', s, g, c)
                    /\ mux'[e] # "dropped" => Carries(from_stream'[e], s, c, n)
    PROVE  Flow(e, s)'
<1>1. Given(f, s)' <= Sent(e, s)'
  BY FlowNow
<1>2. ASSUME Accepts(f, s)'
      PROVE  \E b \in Given(f, s)' .. Sent(e, s)' :
                 /\ Underway(Way(e)', Holding(e)', s, Given(f, s)', b)
                 /\ mux'[e] # "dropped" => Carries(from_stream'[e], s, b, Sent(e, s)')
  <2>1. PICK b \in g .. n : /\ Underway(Way(e), Holding(e), s, g, b)
                            /\ mux[e] # "dropped" => Carries(from_stream[e], s, b, n)
    BY <1>2, FlowNow
  <2>2. PICK c \in g .. n : /\ Underway(Way(e)', Holding(e)', s, g, c)
                            /\ mux'[e] # "dropped" => Carries(from_stream'[e], s, c, n)
    BY <2>1
  <2> QED
    BY <2>2
<1> QED
  BY <1>1, <1>2, FlowNext

\* Nothing moves, and a run loop may stop.
Still ==
    /\ UNCHANGED <<held, next_id, tracked, chanVars, taskVars>>
    /\ interrupted' \in [Ends -> BOOLEAN] /\ EnvTypes'
    /\ mux' \in [Ends -> {"select", "sending", "count", "swap", "pause", "stopped", "dropped"}]
    /\ \A d \in Ends : mux'[d] = mux[d] \/ (mux'[d] = "stopped" /\ mux[d] \in {"select", "sending"})

\* A step that moves nothing keeps the invariant.
LEMMA StillKeeps == ASSUME MuxInv, FlowTypes', Still PROVE MuxInv'
<1>0. ChanTypes /\ LoopTypes /\ LoopsInv /\ Introduced /\ Ordered
  BY TypesByPart DEF MuxInv
<1>1. /\ UNCHANGED <<held, next_id, tracked, from_stream, into, rx, task, reader, writer>>
      /\ interrupted' \in [Ends -> BOOLEAN] /\ EnvTypes'
      /\ mux' \in [Ends -> {"select", "sending", "count", "swap", "pause", "stopped", "dropped"}]
      /\ \A d \in Ends : mux'[d] = mux[d] \/ (mux'[d] = "stopped" /\ mux[d] \in {"select", "sending"})
  BY DEF Still, chanVars, taskVars
<1>2. \A d \in Ends : mux'[d] = "dropped" <=> mux[d] = "dropped"
  BY <1>1
<1>3. /\ TasksInv' /\ RecordTypes' /\ \A d \in Ends : Known(d)' = Known(d)
      /\ \A d \in Ends, r \in Streams :
            /\ Given(d, r)' = Given(d, r) /\ Given(d, r) \in Nat
            /\ Sent(d, r)' = Sent(d, r) /\ Sent(d, r) \in Nat
            /\ Receiving(d, r)' <=> Receiving(d, r)
            /\ Orderly(writer'[d][r]) /\ Flow(d, r)
  BY <1>1, TasksSame
<1>4. \A d \in Ends : Way(d)' = Way(d) /\ Holding(d)' = Holding(d)
  BY <1>1 DEF Way, Holding, Handling
<1>5. TypeOK'
  <2>1. ChanTypes'
    BY <1>0, <1>1 DEF ChanTypes
  <2>2. \A d \in Ends : mux'[d] = "sending" => held'[d] # NoMsg
    BY <1>0, <1>1 DEF LoopTypes
  <2>3. LoopTypes'
    BY <1>0, <1>1, <2>2 DEF LoopTypes
  <2> QED
    BY <1>1, <1>3, <2>1, <2>3, TypesByPartNext, WritingsNext
<1>6. LoopsInv'
  <2>1. \A d \in Ends : /\ mux'[d] = "select" => mux[d] = "select"
                        /\ mux'[d] \in Handling => mux[d] \in Handling
    BY <1>1 DEF Handling
  <2> QED
    BY <1>0, <1>1, <1>2, <2>1 DEF LoopsInv
<1>7. Introduced'
  <2>1. "client" \in Ends /\ "server" \in Ends
    BY DEF Ends
  <2> QED
    BY <1>0, <1>1, <1>2, <1>3, <1>4, <2>1 DEF Introduced
<1>8. ASSUME NEW d \in Ends, NEW r \in Streams PROVE Flow(d, r)'
  <2> DEFINE f == Peer(d)
  <2>0. f \in Ends
    BY PeerProperties
  <2>1. Accepts(f, r)' => Accepts(f, r)
    BY <1>1, <1>2, <1>3, <2>0 DEF Accepts
  <2>2. \A n \in Nat : n <= n
    OBVIOUS
  <2> HIDE DEF f
  <2>3. /\ Way(d)' = Way(d) /\ Holding(d)' = Holding(d) /\ from_stream'[d] = from_stream[d]
        /\ mux[d] = "dropped" => mux'[d] = "dropped"
    BY <1>1, <1>2, <1>4
  <2>4. /\ Sent(d, r) \in Nat /\ Sent(d, r)' \in Nat /\ Sent(d, r) <= Sent(d, r)' /\ Sent(d, r)' = Sent(d, r)
        /\ Given(f, r) \in Nat /\ Given(f, r)' \in Nat /\ Given(f, r)' <= Given(f, r)
        /\ Given(f, r)' = Given(f, r) /\ Flow(d, r)
    BY <1>3, <2>0, <2>2
  <2> QED
    BY <2>1, <2>3, <2>4, FlowSame DEF f
<1> QED
  BY <1>3, <1>5, <1>6, <1>7, <1>8 DEF MuxInv, Ordered

\* Cancellation, and the end of a link, move nothing.
LEMMA StillSteps ==
    ASSUME MuxInv, NEW e \in Ends,
           MuxCancelled(e) \/ MuxFails(e) \/ LinkEnds(e) \/ Cancel(e) \/ LinkFails
    PROVE  Still
<1>0. /\ mux \in [Ends -> {"select", "sending", "count", "swap", "pause", "stopped", "dropped"}]
      /\ interrupted \in [Ends -> BOOLEAN] /\ EnvTypes /\ TypeOK
  BY TypesByPart DEF MuxInv, LoopTypes
<1>1. CASE MuxCancelled(e) \/ MuxFails(e)
  <2>1. /\ mux[e] \in {"select", "sending"} /\ mux' = [mux EXCEPT ![e] = "stopped"]
        /\ interrupted' = interrupted \/ interrupted' = [interrupted EXCEPT ![e] = TRUE]
        /\ UNCHANGED <<held, next_id, tracked, chanVars, taskVars, envVars>>
    BY <1>1 DEF MuxCancelled, MuxFails
  <2>2. interrupted' \in [Ends -> BOOLEAN] /\ EnvTypes'
    BY <1>0, <2>1 DEF EnvTypes, envVars
  <2>3. /\ mux' \in [Ends -> {"select", "sending", "count", "swap", "pause", "stopped", "dropped"}]
        /\ \A d \in Ends : mux'[d] = mux[d] \/ (mux'[d] = "stopped" /\ mux[d] \in {"select", "sending"})
    BY <1>0, <2>1
  <2> QED
    BY <2>1, <2>2, <2>3 DEF Still
<1>2. CASE LinkEnds(e)
  BY <1>0, <1>2 DEF LinkEnds, Still, EnvTypes, muxVars
<1>3. CASE Cancel(e)
  <2>1. faults' \in 0 .. MaxFaults
    BY <1>0, <1>3, FaultType DEF Cancel
  <2>2. (interrupted[e] \/ e = "client") \in BOOLEAN
    BY <1>0
  <2>3. interrupted' \in [Ends -> BOOLEAN] /\ cancelled' \in [Ends -> BOOLEAN]
    BY <1>0, <1>3, <2>2 DEF Cancel, EnvTypes
  <2> QED
    BY <1>0, <1>3, <2>1, <2>3 DEF Cancel, Still, EnvTypes
<1>4. CASE LinkFails
  <2>1. faults' \in 0 .. MaxFaults
    BY <1>0, <1>4, FaultType DEF LinkFails
  <2> QED
    BY <1>0, <1>4, <2>1 DEF LinkFails, Still, EnvTypes, muxVars
<1> QED
  BY <1>1, <1>2, <1>3, <1>4

\* The link moves a message from one channel to the next of the same way.
LEMMA DeliverKeeps ==
    ASSUME MuxInv, FlowTypes', NEW e \in Ends, Deliver(e) PROVE MuxInv'
<1> DEFINE f == Peer(e)
<1>0. /\ ChanTypes /\ LoopTypes /\ EnvTypes /\ LoopsInv /\ Introduced /\ Ordered
      /\ f \in Ends /\ f # e /\ Peer(f) = e /\ \A d \in Ends : d = e \/ d = f
  BY TypesByPart, PeerProperties DEF MuxInv, Ends, Peer
<1>1. /\ into[e] # <<>> /\ mux[f] # "dropped" /\ into' = [into EXCEPT ![e] = Tail(@)]
      /\ rx' = [rx EXCEPT ![f] = Append(@, Head(into[e]))]
      /\ UNCHANGED <<mux, held, next_id, tracked, interrupted, from_stream, task, reader, writer>>
      /\ UNCHANGED envVars
  BY DEF Deliver, muxVars, taskVars
<1> DEFINE p == rx[f]
           q == into[e]
           m == Head(q)
<1>2. /\ p \in Seq(ChannelMessage) /\ q \in Seq(ChannelMessage) /\ q # <<>> /\ IntoCap \in Nat
      /\ Len(q) <= IntoCap
  BY <1>0, <1>1, CapAssumption DEF ChanTypes
<1>3. rx'[f] = Append(p, m) /\ into'[e] = Tail(q) /\ rx'[e] = rx[e] /\ into'[f] = into[f]
  BY <1>0, <1>1 DEF ChanTypes
<1>s. /\ Tail(q) \in Seq(ChannelMessage) /\ Len(Tail(q)) = Len(q) - 1 /\ m \in ChannelMessage
      /\ Append(p, m) \in Seq(ChannelMessage) /\ Len(q) \in Nat
  BY <1>2
<1>4. Append(p, m) \o Tail(q) = p \o q
  <2> HIDE DEF p, q
  <2>1. q = <<m>> \o Tail(q)
    BY <1>2, HeadTailProperties
  <2>2. <<m>> \in Seq(ChannelMessage) /\ Append(p, m) = p \o <<m>>
    BY <1>2, <1>s, AppendIsConcat
  <2>3. (p \o <<m>>) \o Tail(q) = p \o (<<m>> \o Tail(q))
    BY <1>2, <1>s, <2>2, ConcatAssociative
  <2> QED
    BY <2>1, <2>2, <2>3
<1>5. \A d \in Ends : Way(d)' = Way(d) /\ Holding(d)' = Holding(d)
  <2>1. Way(e)' = Way(e)
    BY <1>3, <1>4 DEF Way
  <2>2. Way(f)' = Way(f)
    BY <1>0, <1>3 DEF Way
  <2> QED
    BY <1>0, <1>1, <2>1, <2>2 DEF Holding
<1>6. TypeOK'
  <2>1. Len(Tail(q)) <= IntoCap
    BY <1>2, <1>s
  <2>2. ChanTypes'
    BY <1>0, <1>1, <1>s, <2>1 DEF ChanTypes
  <2>3. LoopTypes' /\ EnvTypes'
    BY <1>0, <1>1 DEF LoopTypes, EnvTypes, envVars
  <2>4. TasksInv' /\ RecordTypes'
    BY <1>1, TasksSame
  <2> QED
    BY <2>2, <2>3, <2>4, TypesByPartNext, WritingsNext
<1> HIDE DEF f, p, q, m
<1>7. /\ TasksInv' /\ RecordTypes' /\ \A d \in Ends : Known(d)' = Known(d)
      /\ \A d \in Ends, r \in Streams :
            /\ Given(d, r)' = Given(d, r) /\ Given(d, r) \in Nat
            /\ Sent(d, r)' = Sent(d, r) /\ Sent(d, r) \in Nat
            /\ Receiving(d, r)' <=> Receiving(d, r)
            /\ Orderly(writer'[d][r]) /\ Flow(d, r)
  BY <1>1, TasksSame
<1>8. LoopsInv'
  <2>1. \A d \in Ends : mux[d] = "dropped" => rx'[d] = rx[d]
    BY <1>0, <1>1, <1>3
  <2> QED
    BY <1>0, <1>1, <2>1 DEF LoopsInv
<1>9. Introduced'
  <2>1. "client" \in Ends /\ "server" \in Ends
    BY DEF Ends
  <2> QED
    BY <1>0, <1>1, <1>5, <1>7, <2>1 DEF Introduced
<1>10. ASSUME NEW d \in Ends, NEW r \in Streams PROVE Flow(d, r)'
  <2> DEFINE h == Peer(d)
  <2>0. h \in Ends
    BY PeerProperties
  <2>1. Accepts(h, r)' => Accepts(h, r)
    BY <1>1, <1>7, <2>0 DEF Accepts
  <2>2. \A n \in Nat : n <= n
    OBVIOUS
  <2> HIDE DEF h
  <2>3. /\ Way(d)' = Way(d) /\ Holding(d)' = Holding(d) /\ from_stream'[d] = from_stream[d]
        /\ mux[d] = "dropped" => mux'[d] = "dropped"
    BY <1>1, <1>5
  <2>4. /\ Sent(d, r) \in Nat /\ Sent(d, r)' \in Nat /\ Sent(d, r) <= Sent(d, r)' /\ Sent(d, r)' = Sent(d, r)
        /\ Given(h, r) \in Nat /\ Given(h, r)' \in Nat /\ Given(h, r)' <= Given(h, r)
        /\ Given(h, r)' = Given(h, r) /\ Flow(d, r)
    BY <1>7, <2>0, <2>2
  <2> QED
    BY <2>1, <2>3, <2>4, FlowSame DEF h
<1> QED
  BY <1>6, <1>7, <1>8, <1>9, <1>10 DEF MuxInv, Ordered

\* A run loop takes message m in hand: the Connect of a new stream, or what a stream sent.
Holds(e, m) ==
    /\ mux[e] = "select" /\ mux' = [mux EXCEPT ![e] = "sending"]
    /\ held' = [held EXCEPT ![e] = m]
    /\ UNCHANGED <<tracked, interrupted, into, rx, taskVars, envVars>>
    /\ \/ /\ e = "client" /\ next_id \in Streams /\ m = Msg("Connect", next_id)
          /\ next_id' = next_id + 1 /\ UNCHANGED from_stream
       \/ /\ from_stream[e] # <<>> /\ m = Head(from_stream[e])
          /\ from_stream' = [from_stream EXCEPT ![e] = Tail(@)] /\ UNCHANGED next_id

\* Taking a message in hand keeps the invariant.
LEMMA HoldsKeeps ==
    ASSUME MuxInv, FlowTypes', NEW e \in Ends, NEW m, Holds(e, m) PROVE MuxInv'
<1> DEFINE q == from_stream[e]
           K == Known("client")
<1>0. /\ ChanTypes /\ LoopTypes /\ EnvTypes /\ LoopsInv /\ Introduced /\ Ordered
      /\ MaxStreams \in Nat /\ StreamCap \in Nat
  BY TypesByPart, BoundAssumption, CapAssumption DEF MuxInv
<1>1. /\ mux[e] = "select" /\ mux' = [mux EXCEPT ![e] = "sending"]
      /\ held' = [held EXCEPT ![e] = m]
      /\ UNCHANGED <<tracked, interrupted, into, rx, task, reader, writer>>
      /\ UNCHANGED envVars
  BY DEF Holds, taskVars
<1>2. q \in Seq(ChannelMessage) /\ Len(q) \in Nat /\ Len(q) <= StreamCap
  BY <1>0 DEF ChanTypes
<1> HIDE DEF q
<1>3. \/ /\ e = "client" /\ next_id \in Streams /\ m = Msg("Connect", next_id)
         /\ next_id' = next_id + 1 /\ from_stream' = from_stream
      \/ /\ q # <<>> /\ m = Head(q) /\ from_stream' = [from_stream EXCEPT ![e] = Tail(q)]
         /\ next_id' = next_id
  BY DEF Holds, q
<1>4. m \in ChannelMessage /\ m # NoMsg
  BY <1>2, <1>3, Messages, TailAt DEF Controls
<1>5. held[e] = NoMsg
  BY <1>0, <1>1 DEF LoopsInv
<1>6. /\ held'[e] = m /\ mux'[e] = "sending"
      /\ \A d \in Ends : d # e => held'[d] = held[d] /\ mux'[d] = mux[d] /\ from_stream'[d] = from_stream[d]
  BY <1>0, <1>1, <1>3 DEF LoopTypes, ChanTypes
<1>7. /\ \A d \in Ends : Way(d)' = Way(d)
      /\ \A d \in Ends : d # e => Holding(d)' = Holding(d)
      /\ Holding(e) = <<>> /\ Holding(e)' = <<m>>
  BY <1>1, <1>4, <1>5, <1>6 DEF Way, Holding, Handling
<1>8. /\ TasksInv' /\ RecordTypes' /\ \A d \in Ends : Known(d)' = Known(d)
      /\ \A d \in Ends, r \in Streams :
            /\ Given(d, r)' = Given(d, r) /\ Given(d, r) \in Nat
            /\ Sent(d, r)' = Sent(d, r) /\ Sent(d, r) \in Nat
            /\ Receiving(d, r)' <=> Receiving(d, r)
            /\ Orderly(writer'[d][r]) /\ Flow(d, r)
  BY <1>1, TasksSame
<1>9. ChanTypes'
  <2>1. CASE from_stream' = from_stream
    BY <1>0, <1>1, <2>1 DEF ChanTypes
  <2>2. CASE q # <<>> /\ from_stream' = [from_stream EXCEPT ![e] = Tail(q)]
    <3>1. Tail(q) \in Seq(ChannelMessage) /\ Len(Tail(q)) <= StreamCap
      BY <1>0, <1>2, <2>2, TailAt
    <3> QED
      BY <1>0, <1>1, <2>2, <3>1 DEF ChanTypes
  <2> QED
    BY <1>3, <2>1, <2>2
<1>10. LoopTypes' /\ next_id <= next_id'
  <2>1. next_id' \in 1 .. MaxStreams + 1 /\ next_id <= next_id'
    BY <1>0, <1>3 DEF LoopTypes, Streams
  <2>2. \A d \in Ends : mux'[d] = "sending" => held'[d] # NoMsg
    BY <1>0, <1>4, <1>6 DEF LoopTypes
  <2>3. /\ mux' \in [Ends -> {"select", "sending", "count", "swap", "pause", "stopped", "dropped"}]
        /\ held' \in [Ends -> ChannelMessage \cup {NoMsg}]
    BY <1>0, <1>1, <1>4 DEF LoopTypes
  <2> QED
    BY <1>0, <1>1, <2>1, <2>2, <2>3 DEF LoopTypes
<1>11. TypeOK'
  <2>1. EnvTypes'
    BY <1>0, <1>1 DEF EnvTypes, envVars
  <2> QED
    BY <1>8, <1>9, <1>10, <2>1, TypesByPartNext, WritingsNext
<1>12. LoopsInv'
  <2>1. \A d \in Ends : mux'[d] \in Handling \cup {"select", "dropped"} => d # e
    BY <1>6 DEF Handling
  <2> QED
    BY <1>0, <1>1, <1>6, <2>1 DEF LoopsInv
<1>13. Introduced'
  <2>1. /\ "client" \in Ends /\ "server" \in Ends /\ K' = K
        /\ mux'["server"] = "dropped" <=> mux["server"] = "dropped"
    BY <1>1, <1>6, <1>8 DEF Ends, K
  <2>2. /\ \A s \in K : s < next_id /\ s \in Streams
        /\ \A d \in Ends : /\ Talk(from_stream[d], K)
                           /\ held[d] # NoMsg =>
                                 IF held[d].type = "Connect"
                                    THEN d = "client" /\ held[d].s < next_id /\ held[d].s \notin K
                                    ELSE held[d].s \in K
    BY <1>0 DEF Introduced, K, Known
  <2> HIDE DEF K
  <2>3. \A s \in Nat : s < next_id => s < next_id'
    BY <1>0, <1>10 DEF LoopTypes
  <2>4. /\ Talk(from_stream'[e], K)
        /\ IF m.type = "Connect" THEN e = "client" /\ m.s < next_id' /\ m.s \notin K ELSE m.s \in K
    <3>1. CASE /\ e = "client" /\ next_id \in Streams /\ m = Msg("Connect", next_id)
               /\ next_id' = next_id + 1 /\ from_stream' = from_stream
      <4>1. m.type = "Connect" /\ m.s = next_id
        BY <3>1 DEF Msg
      <4>2. next_id \notin K /\ next_id < next_id'
        BY <1>0, <2>2, <3>1 DEF LoopTypes
      <4> QED
        BY <2>2, <3>1, <4>1, <4>2
    <3>2. CASE q # <<>> /\ m = Head(q) /\ from_stream' = [from_stream EXCEPT ![e] = Tail(q)]
      <4>1. from_stream'[e] = Tail(q)
        BY <1>0, <3>2 DEF ChanTypes
      <4>2. Talk(q, K)
        BY <2>2 DEF q
      <4> QED
        BY <1>2, <3>2, <4>1, <4>2, TalkParts
    <3> QED
      BY <1>3, <3>1, <3>2
  <2>5. ASSUME NEW d \in Ends
        PROVE  /\ Talk(from_stream'[d], K)
               /\ held'[d] # NoMsg =>
                     IF held'[d].type = "Connect"
                        THEN d = "client" /\ held'[d].s < next_id' /\ held'[d].s \notin K
                        ELSE held'[d].s \in K
    <3>1. CASE d = e
      BY <1>6, <2>4, <3>1
    <3>2. CASE d # e
      <4>1. held'[d] = held[d] /\ from_stream'[d] = from_stream[d]
        BY <1>6, <3>2
      <4>2. held[d] # NoMsg => held[d].s \in Nat
        <5>1. held[d] # NoMsg => held[d] \in ChannelMessage
          BY <1>0 DEF LoopTypes
        <5> QED
          BY <5>1, Messages DEF Streams
      <4> QED
        BY <2>2, <2>3, <4>1, <4>2
    <3> QED
      BY <3>1, <3>2
  <2>6. \A s \in K : s < next_id'
    BY <2>2, <2>3 DEF Streams
  <2> QED
    BY <1>0, <1>7, <1>8, <2>1, <2>5, <2>6 DEF Introduced, K
<1> HIDE DEF K
<1>14. ASSUME NEW d \in Ends, NEW r \in Streams PROVE Flow(d, r)'
  <2> DEFINE f == Peer(d)
  <2>0. f \in Ends
    BY PeerProperties
  <2>1. Accepts(f, r)' => Accepts(f, r)
    <3>1. mux[f] = "dropped" => mux'[f] = "dropped"
      BY <1>1, <1>6, <2>0
    <3> QED
      BY <1>1, <1>8, <2>0, <3>1 DEF Accepts
  <2>2. \A n \in Nat : n <= n
    OBVIOUS
  <2> HIDE DEF f
  <2>3. CASE d # e
    <3>1. /\ Way(d)' = Way(d) /\ Holding(d)' = Holding(d) /\ from_stream'[d] = from_stream[d]
          /\ mux[d] = "dropped" => mux'[d] = "dropped"
      BY <1>6, <1>7, <2>3
    <3>2. /\ Sent(d, r) \in Nat /\ Sent(d, r)' \in Nat /\ Sent(d, r) <= Sent(d, r)' /\ Sent(d, r)' = Sent(d, r)
          /\ Given(f, r) \in Nat /\ Given(f, r)' \in Nat /\ Given(f, r)' <= Given(f, r)
          /\ Given(f, r)' = Given(f, r) /\ Flow(d, r)
      BY <1>8, <2>0, <2>2
    <3> QED
      BY <2>1, <3>1, <3>2, FlowSame DEF f
  <2>4. CASE d = e
    <3>0. PICK g \in Nat : g = Given(f, r)
      BY <1>8, <2>0
    <3>1. PICK n \in Nat : n = Sent(d, r)
      BY <1>8
    <3>2. Given(f, r)' = g /\ Sent(d, r)' = n /\ Flow(d, r)
      BY <1>8, <2>0, <3>0, <3>1
    <3>3. ASSUME NEW b \in g .. n, Underway(Way(d), Holding(d), r, g, b),
                 mux[d] # "dropped" => Carries(from_stream[d], r, b, n)
          PROVE  \E c \in g .. n :
                    /\ Underway(Way(d)', Holding(d)', r, g, c)
                    /\ mux'[d] # "dropped" => Carries(from_stream'[d], r, c, n)
      <4>1. b \in Nat /\ Underway(Way(e), <<>>, r, g, b) /\ Carries(q, r, b, n)
            /\ Way(e) \in Seq(ChannelMessage)
        BY <1>0, <1>1, <1>7, <2>4, <3>3, WayType DEF q
      <4>2. ~Is(m, r) => Underway(Way(e), <<m>>, r, g, b)
        BY <1>4, <4>1, UnderwayHeld
      <4>3. m = Data(r, b + 1) => Underway(Way(e), <<m>>, r, g, b + 1)
        BY <1>4, <4>1, UnderwayHeld
      <4>4. CASE from_stream' = from_stream /\ m = Msg("Connect", next_id)
        <5>1. ~Is(m, r) /\ from_stream'[e] = q
          BY <4>4 DEF Is, Msg, q
        <5> QED
          BY <1>7, <2>4, <4>1, <4>2, <5>1
      <4>5. CASE q # <<>> /\ m = Head(q) /\ from_stream' = [from_stream EXCEPT ![e] = Tail(q)]
        <5>1. from_stream'[e] = Tail(q)
          BY <1>0, <4>5 DEF ChanTypes
        <5>2. /\ ~Is(m, r) => Carries(Tail(q), r, b, n)
              /\ Is(m, r) => b + 1 <= n /\ m = Data(r, b + 1) /\ Carries(Tail(q), r, b + 1, n)
          BY <1>2, <4>1, <4>5, CarriesRest
        <5>3. CASE ~Is(m, r)
          BY <1>7, <2>4, <4>2, <5>1, <5>2, <5>3
        <5>4. CASE Is(m, r)
          <6>1. b + 1 \in g .. n
            BY <4>1, <5>2, <5>4
          <6> QED
            BY <1>7, <2>4, <4>3, <5>1, <5>2, <5>4, <6>1
        <5> QED
          BY <5>3, <5>4
      <4> QED
        BY <1>3, <4>4, <4>5
    <3> HIDE DEF f
    <3> QED
      BY <2>1, <3>0, <3>1, <3>2, <3>3, FlowMoves DEF f
  <2> QED
    BY <2>3, <2>4
<1> QED
  BY <1>8, <1>11, <1>12, <1>13, <1>14 DEF MuxInv, Ordered

\* Accept and Forward take a message in hand.
LEMMA HoldsSteps ==
    ASSUME NEW e \in Ends, (e = "client" /\ Accept) \/ Forward(e)
    PROVE  \E m : Holds(e, m)
<1>1. CASE e = "client" /\ Accept
  <2>1. Holds(e, Msg("Connect", next_id))
    BY <1>1 DEF Accept, Holds, chanVars
  <2> QED
    BY <2>1
<1>2. CASE Forward(e)
  <2>1. Holds(e, Head(from_stream[e]))
    BY <1>2 DEF Forward, Holds
  <2> QED
    BY <2>1
<1> QED
  BY <1>1, <1>2

-----------------------------------------------------------------------------
(* A run loop sends what it holds into the link.                           *)

\* What that leaves of the streams: the one that a Connect announces is new.
LEMMA SendsEffect ==
    ASSUME MuxInv, NEW e \in Ends, NEW m, m = held[e], MuxSends(e)
    PROVE  /\ TasksInv' /\ RecordTypes' /\ tracked' \in [Ends -> SUBSET Streams]
           /\ \A d \in Ends : d # e => tracked'[d] = tracked[d]
           /\ m \in ChannelMessage /\ m.s \in Streams
           /\ m.type = "Connect" => e = "client" /\ m.s < next_id /\ m.s \notin Known("client")
           /\ m.type # "Connect" => m.s \in Known("client")
           /\ Known("server")' = Known("server")
           /\ m.type = "Connect" => Known("client")' = Known("client") \cup {m.s}
           /\ m.type # "Connect" => Known("client")' = Known("client")
           /\ \A d \in Ends, r \in Streams :
                 /\ Given(d, r)' = Given(d, r) /\ Given(d, r) \in Nat
                 /\ Sent(d, r)' = Sent(d, r) /\ Sent(d, r) \in Nat
                 /\ Accepts(d, r)' => Accepts(d, r)
                 /\ Orderly(writer'[d][r]) /\ Flow(d, r)
<1>0. LoopTypes /\ Introduced /\ TypeOK /\ TasksInv
  BY TypesByPart DEF MuxInv
<1>1. /\ mux[e] = "sending" /\ mux' = [mux EXCEPT ![e] = "select"]
      /\ IF m.type = "Connect" THEN NewStream(e, m.s) ELSE UNCHANGED <<tracked, taskVars>>
  BY DEF MuxSends
<1>2. m \in ChannelMessage /\ m # NoMsg /\ m.s \in Streams
  BY <1>0, <1>1, Messages DEF LoopTypes
<1>3. /\ m.type = "Connect" => e = "client" /\ m.s < next_id /\ m.s \notin Known("client")
      /\ m.type # "Connect" => m.s \in Known("client")
  BY <1>0, <1>2 DEF Introduced
<1>4. \A d \in Ends : mux'[d] = "dropped" <=> mux[d] = "dropped"
  BY <1>0, <1>1 DEF LoopTypes
<1>5. \A d \in Ends, r \in Streams :
         Given(d, r) \in Nat /\ Sent(d, r) \in Nat /\ Flow(d, r) /\ Orderly(writer[d][r])
  BY AllCounts
<1>6. CASE m.type # "Connect"
  <2>1. UNCHANGED <<tracked, taskVars>>
    BY <1>1, <1>6
  <2>2. /\ TasksInv' /\ RecordTypes'
        /\ \A d \in Ends : Known(d)' = Known(d)
        /\ \A d \in Ends, r \in Streams :
              /\ Given(d, r)' = Given(d, r) /\ Sent(d, r)' = Sent(d, r)
              /\ Receiving(d, r)' <=> Receiving(d, r)
              /\ Orderly(writer'[d][r])
    BY <2>1, TasksSame DEF taskVars
  <2>3. \A d \in Ends, r \in Streams : Accepts(d, r)' => Accepts(d, r)
    BY <1>4, <2>1, <2>2 DEF Accepts
  <2>4. tracked' \in [Ends -> SUBSET Streams]
    BY <1>0, <2>1 DEF LoopTypes
  <2>5. "client" \in Ends /\ "server" \in Ends
    BY DEF Ends
  <2> QED
    BY <1>2, <1>3, <1>5, <1>6, <2>1, <2>2, <2>3, <2>4, <2>5
<1>7. CASE m.type = "Connect"
  <2> DEFINE s == m.s
  <2>0. /\ e = "client" /\ s \in Streams /\ s < next_id /\ s \notin Known("client") /\ NewStream(e, s)
        /\ task[e][s].pc = "none" /\ TaskInv(e, s) /\ Orderly(writer[e][s])
    BY <1>0, <1>1, <1>2, <1>3, <1>5, <1>7 DEF Known, TasksInv
  <2>1. /\ tracked' \in [Ends -> SUBSET Streams] /\ RecordTypes'
        /\ \A d \in Ends, r \in Streams : d # e \/ r # s => SameAt(d, r)
        /\ task'[e][s].pc # "none" /\ TaskInv(e, s)'
        /\ writer'[e][s].queue = writer[e][s].queue
        /\ writer'[e][s].written = writer[e][s].written
        /\ Sent(e, s)' = Sent(e, s)
    BY <1>0, <2>0, NewStreamEffect
  <2> HIDE DEF s
  <2>2. Given(e, s)' = Given(e, s) /\ Orderly(writer'[e][s])
    BY <2>0, <2>1 DEF Given, Orderly
  <2>3. Accepts(e, s)' => Accepts(e, s)
    BY <1>4, <2>0 DEF Accepts
  <2>4. ASSUME NEW d \in Ends, NEW r \in Streams, d # e \/ r # s
        PROVE  /\ Given(d, r)' = Given(d, r) /\ Sent(d, r)' = Sent(d, r)
               /\ Accepts(d, r)' => Accepts(d, r)
               /\ Orderly(writer'[d][r])
               /\ r \in Known(d)' <=> r \in Known(d)
               /\ r \in tracked'[d] <=> r \in tracked[d]
               /\ TaskInv(d, r)'
    <3>1. SameAt(d, r) /\ (mux'[d] = "dropped" <=> mux[d] = "dropped")
      BY <1>4, <2>1, <2>4
    <3>2. SameStream(d, r) /\ (r \in tracked'[d] <=> r \in tracked[d]) /\ TaskInv(d, r)
      BY <1>0, <3>1 DEF SameAt, TasksInv
    <3>3. (r \in Known(d)' <=> r \in Known(d)) /\ TaskInv(d, r)'
      BY <3>2, SameStreamParts
    <3> QED
      BY <1>5, <3>1, <3>2, <3>3, SameAtAccepts
  <2>5. TasksInv'
    BY <2>1, <2>4 DEF TasksInv
  <2>6. s \in Known(e)'
    BY <2>0, <2>1 DEF Known
  <2>7. /\ Known("server")' = Known("server") /\ Known("client")' = Known("client") \cup {s}
        /\ \A d \in Ends : Known(d) \subseteq Streams /\ Known(d)' \subseteq Streams
    <3>1. \A d \in Ends : Known(d) \subseteq Streams /\ Known(d)' \subseteq Streams
      BY DEF Known
    <3>2. "client" \in Ends /\ "server" \in Ends /\ "server" # e
      BY <2>0 DEF Ends
    <3>3. Known("server")' = Known("server")
      BY <2>4, <3>1, <3>2
    <3>4. Known("client")' = Known("client") \cup {s}
      BY <2>0, <2>4, <2>6, <3>1, <3>2
    <3> QED
      BY <3>1, <3>3, <3>4
  <2>8. ASSUME NEW d \in Ends, d # e PROVE tracked'[d] = tracked[d]
    <3>1. tracked[d] \subseteq Streams /\ tracked'[d] \subseteq Streams
      BY <1>0, <2>1 DEF LoopTypes
    <3> QED
      BY <2>4, <2>8, <3>1
  <2>9. \A d \in Ends, r \in Streams :
           /\ Given(d, r)' = Given(d, r) /\ Sent(d, r)' = Sent(d, r)
           /\ Accepts(d, r)' => Accepts(d, r)
           /\ Orderly(writer'[d][r])
    BY <2>1, <2>2, <2>3, <2>4
  <2> QED
    BY <1>2, <1>3, <1>5, <1>7, <2>1, <2>5, <2>7, <2>8, <2>9 DEF s
<1> QED
  BY <1>6, <1>7

\* What is sent into the link is a Connect just if the stream is new.
LEMMA SendsIntroduced ==
    ASSUME MuxInv, NEW e \in Ends, NEW m \in ChannelMessage,
           m.type = "Connect" => e = "client" /\ m.s < next_id /\ m.s \notin Known("client"),
           m.type # "Connect" => m.s \in Known("client"),
           Known("server")' = Known("server"),
           Known("client")' = IF m.type = "Connect" THEN Known("client") \cup {m.s} ELSE Known("client"),
           Way(e)' = Append(Way(e), m), Way(Peer(e))' = Way(Peer(e)),
           held'[e] = NoMsg, held'[Peer(e)] = held[Peer(e)],
           next_id' = next_id, from_stream' = from_stream,
           mux'["server"] = "dropped" <=> mux["server"] = "dropped"
    PROVE  Introduced'
<1> DEFINE K == Known("client")
           L == Known("server")
           W == Way("client")
           V == Way("server")
<1>0. Introduced /\ ChanTypes /\ W \in Seq(ChannelMessage) /\ V \in Seq(ChannelMessage)
  BY TypesByPart, WayType DEF MuxInv, Ends
<1>1. /\ \A s \in K : s < next_id
      /\ L \cup Named(W) \subseteq K
      /\ mux["server"] # "dropped" => K \subseteq L \cup Named(W) /\ Introduces(W, L)
      /\ Talk(V, K)
      /\ \A d \in Ends : /\ Talk(from_stream[d], K)
                         /\ held[d] # NoMsg =>
                               IF held[d].type = "Connect"
                                  THEN d = "client" /\ held[d].s < next_id /\ held[d].s \notin K
                                  ELSE held[d].s \in K
  BY <1>0 DEF Introduced
<1>2. /\ m \in ChannelMessage /\ m.s \in Streams
      /\ m.type = "Connect" => e = "client" /\ m.s < next_id /\ m.s \notin K
      /\ m.type # "Connect" => m.s \in K
      /\ L' = L
      /\ m.type = "Connect" => K' = K \cup {m.s}
      /\ m.type # "Connect" => K' = K
  BY Messages
<1> HIDE DEF K, L, W, V
<1>3. K \subseteq K' /\ m.s \in K' /\ K' \subseteq K \cup {m.s}
  BY <1>2
<1>4. \A s \in K' : s < next_id'
  BY <1>1, <1>2
<1>5. \A d \in Ends :
         /\ Talk(from_stream'[d], K')
         /\ held'[d] # NoMsg =>
               IF held'[d].type = "Connect"
                  THEN d = "client" /\ held'[d].s < next_id' /\ held'[d].s \notin K'
                  ELSE held'[d].s \in K'
  <2>1. \A d \in Ends : Talk(from_stream'[d], K')
    BY <1>1, <1>3, TalkParts
  <2>2. ASSUME NEW d \in Ends, held'[d] # NoMsg
        PROVE  IF held'[d].type = "Connect"
                  THEN d = "client" /\ held'[d].s < next_id' /\ held'[d].s \notin K'
                  ELSE held'[d].s \in K'
    <3>1. d = Peer(e) /\ held'[d] = held[d] /\ d # e
      BY <2>2, PeerProperties DEF Ends, Peer
    <3>2. held[d].type = "Connect" => K' = K
      BY <1>1, <1>2, <2>2, <3>1
    <3> QED
      BY <1>1, <1>3, <2>2, <3>1, <3>2
  <2> QED
    BY <2>1, <2>2
<1>6. CASE e = "client"
  <2>1. W' = Append(W, m) /\ V' = V
    BY <1>6 DEF W, V, Peer
  <2>2. Named(W') = Named(W) \cup {m.s}
    BY <1>0, <1>2, <2>1, NamedMore
  <2>3. L' \cup Named(W') \subseteq K'
    BY <1>1, <1>2, <1>3, <2>2
  <2>4. Talk(V', K')
    BY <1>1, <1>3, <2>1, TalkParts
  <2>5. ASSUME mux["server"] # "dropped" PROVE K' \subseteq L' \cup Named(W') /\ Introduces(W', L')
    <3>1. K = L \cup Named(W) /\ Introduces(W, L)
      BY <1>1, <2>5
    <3>2. m.type = "Connect" <=> m.s \notin L \cup Named(W)
      BY <1>2, <3>1
    <3>3. Introduces(W', L')
      BY <1>0, <1>2, <2>1, <3>1, <3>2, IntroducesMore
    <3> QED
      BY <1>2, <1>3, <2>2, <3>1, <3>3
  <2> QED
    BY <1>4, <1>5, <2>3, <2>4, <2>5 DEF Introduced, K, L, W, V
<1>7. CASE e = "server"
  <2>1. V' = Append(V, m) /\ W' = W
    BY <1>7 DEF W, V, Peer
  <2>2. m.type # "Connect" /\ K' = K /\ m.s \in K
    BY <1>2, <1>7
  <2>3. Talk(V', K')
    BY <1>0, <1>1, <1>2, <2>1, <2>2, TalkMore
  <2> QED
    BY <1>1, <1>2, <1>4, <1>5, <2>1, <2>2, <2>3 DEF Introduced, K, L, W, V
<1> QED
  BY <1>6, <1>7 DEF Ends

\* Sending what is held into the link keeps the invariant.
LEMMA SendsKeeps ==
    ASSUME MuxInv, FlowTypes', NEW e \in Ends, MuxSends(e) PROVE MuxInv'
<1>0. /\ ChanTypes /\ LoopTypes /\ EnvTypes /\ LoopsInv /\ IntoCap \in Nat
      /\ Peer(e) \in Ends /\ Peer(e) # e /\ \A d \in Ends : d = e \/ d = Peer(e)
  BY TypesByPart, CapAssumption, PeerProperties DEF MuxInv, Ends, Peer
<1>m. PICK m \in ChannelMessage : m = held[e]
  BY SendsEffect
<1>1. /\ mux[e] = "sending" /\ mux' = [mux EXCEPT ![e] = "select"]
      /\ held' = [held EXCEPT ![e] = NoMsg]
      /\ Len(into[e]) < IntoCap /\ into' = [into EXCEPT ![e] = Append(@, m)]
      /\ UNCHANGED <<next_id, interrupted, from_stream, rx, envVars>>
  BY <1>m DEF MuxSends
<1>2. /\ TasksInv' /\ RecordTypes' /\ tracked' \in [Ends -> SUBSET Streams]
      /\ \A d \in Ends : d # e => tracked'[d] = tracked[d]
      /\ \A d \in Ends, r \in Streams :
            /\ Given(d, r)' = Given(d, r) /\ Given(d, r) \in Nat
            /\ Sent(d, r)' = Sent(d, r) /\ Sent(d, r) \in Nat
            /\ Accepts(d, r)' => Accepts(d, r)
            /\ Orderly(writer'[d][r]) /\ Flow(d, r)
  BY <1>m, SendsEffect
<1>3. /\ held'[e] = NoMsg /\ mux'[e] = "select" /\ into'[e] = Append(into[e], m)
      /\ \A d \in Ends : d # e => held'[d] = held[d] /\ mux'[d] = mux[d] /\ into'[d] = into[d]
  BY <1>0, <1>1 DEF LoopTypes, ChanTypes
<1>4. Way(e)' = Append(Way(e), m)
  BY <1>0, <1>1, <1>3, WayMore
<1>5. /\ Way(Peer(e))' = Way(Peer(e)) /\ Holding(Peer(e))' = Holding(Peer(e))
      /\ Holding(e) = <<m>> /\ Holding(e)' = <<>>
  <2>1. held[e] # NoMsg
    BY <1>0, <1>1 DEF LoopTypes
  <2>2. Holding(e) = <<m>> /\ Holding(e)' = <<>>
    BY <1>1, <1>3, <1>m, <2>1 DEF Holding, Handling
  <2>3. Holding(Peer(e))' = Holding(Peer(e))
    BY <1>0, <1>3 DEF Holding
  <2>4. into'[Peer(e)] = into[Peer(e)] /\ rx' = rx
    BY <1>0, <1>1, <1>3
  <2> QED
    BY <2>2, <2>3, <2>4 DEF Way
<1>6. TypeOK'
  <2>1. ChanTypes'
    <3>1. into[e] \in Seq(ChannelMessage)
      BY <1>0 DEF ChanTypes
    <3>2. Append(into[e], m) \in Seq(ChannelMessage) /\ Len(Append(into[e], m)) <= IntoCap
      BY <1>0, <1>1, <3>1, AppendedAt
    <3> QED
      BY <1>0, <1>1, <3>2 DEF ChanTypes
  <2>2. \A d \in Ends : mux'[d] = "sending" => held'[d] # NoMsg
    BY <1>0, <1>3 DEF LoopTypes
  <2>3. LoopTypes'
    BY <1>0, <1>1, <1>2, <2>2 DEF LoopTypes
  <2>4. EnvTypes'
    BY <1>0, <1>1, TypesByPart DEF EnvTypes, envVars
  <2> QED
    BY <1>2, <2>1, <2>3, <2>4, TypesByPartNext, WritingsNext
<1>7. LoopsInv'
  BY <1>0, <1>1, <1>2, <1>3 DEF LoopsInv, Handling
<1>8. Introduced'
  <2>1. mux'["server"] = "dropped" <=> mux["server"] = "dropped"
    BY <1>0, <1>1 DEF LoopTypes, Ends
  <2>2. /\ m.type = "Connect" => e = "client" /\ m.s < next_id /\ m.s \notin Known("client")
        /\ m.type # "Connect" => m.s \in Known("client")
        /\ Known("server")' = Known("server")
        /\ Known("client")' = IF m.type = "Connect" THEN Known("client") \cup {m.s} ELSE Known("client")
    BY <1>m, SendsEffect
  <2> QED
    BY <1>0, <1>1, <1>3, <1>4, <1>5, <2>1, <2>2, SendsIntroduced
<1>9. ASSUME NEW d \in Ends, NEW r \in Streams PROVE Flow(d, r)'
  <2> DEFINE f == Peer(d)
  <2>0. f \in Ends
    BY PeerProperties
  <2>1. Accepts(f, r)' => Accepts(f, r)
    BY <1>2, <2>0
  <2>2. \A n \in Nat : n <= n
    OBVIOUS
  <2> HIDE DEF f
  <2>3. CASE d # e
    <3>1. /\ Way(d)' = Way(d) /\ Holding(d)' = Holding(d) /\ from_stream'[d] = from_stream[d]
          /\ mux[d] = "dropped" => mux'[d] = "dropped"
      BY <1>0, <1>1, <1>3, <1>5, <2>3
    <3>2. /\ Sent(d, r) \in Nat /\ Sent(d, r)' \in Nat /\ Sent(d, r) <= Sent(d, r)' /\ Sent(d, r)' = Sent(d, r)
          /\ Given(f, r) \in Nat /\ Given(f, r)' \in Nat /\ Given(f, r)' <= Given(f, r)
          /\ Given(f, r)' = Given(f, r) /\ Flow(d, r)
      BY <1>2, <2>0, <2>2
    <3> QED
      BY <2>1, <3>1, <3>2, FlowSame DEF f
  <2>4. CASE d = e
    <3>0. PICK g \in Nat : g = Given(f, r)
      BY <1>2, <2>0
    <3>1. PICK n \in Nat : n = Sent(d, r)
      BY <1>2
    <3>2. Given(f, r)' = g /\ Sent(d, r)' = n /\ Flow(d, r)
      BY <1>2, <2>0, <3>0, <3>1
    <3>3. ASSUME NEW b \in g .. n, Underway(Way(d), Holding(d), r, g, b),
                 mux[d] # "dropped" => Carries(from_stream[d], r, b, n)
          PROVE  \E c \in g .. n :
                    /\ Underway(Way(d)', Holding(d)', r, g, c)
                    /\ mux'[d] # "dropped" => Carries(from_stream'[d], r, c, n)
      <4>1. b \in Nat /\ Underway(Way(e), <<m>>, r, g, b) /\ Way(e) \in Seq(ChannelMessage)
        BY <1>0, <1>5, <2>4, <3>3, WayType
      <4>2. Underway(Append(Way(e), m), <<>>, r, g, b)
        BY <4>1, UnderwaySent
      <4> QED
        BY <1>1, <1>4, <1>5, <2>4, <3>3, <4>2
    <3> QED
      BY <2>1, <3>0, <3>1, <3>2, <3>3, FlowMoves DEF f
  <2> QED
    BY <2>3, <2>4
<1> QED
  BY <1>2, <1>6, <1>7, <1>8, <1>9 DEF MuxInv, Ordered

-----------------------------------------------------------------------------
(* The handler of a Data message goes on after it was taken.               *)

\* It comes to p, which is another of its steps or, with the PAUSE or without, its end.
Pauses(e, p) ==
    /\ mux[e] \in Handling /\ mux' = [mux EXCEPT ![e] = p]
    /\ UNCHANGED <<next_id, tracked, interrupted, from_stream, rx, task, reader, writer, envVars>>
    /\ \/ p \in {"swap", "pause"} /\ UNCHANGED <<held, into>>
       \/ /\ p \in {"select", "stopped"} /\ held' = [held EXCEPT ![e] = NoMsg]
          /\ \/ UNCHANGED into
             \/ /\ Len(into[e]) < IntoCap
                /\ into' = [into EXCEPT ![e] = Append(@, held[e])]

\* The count, the swap and the PAUSE do.
LEMMA PausesSteps ==
    ASSUME MuxInv, NEW e \in Ends, Backpressure(e) PROVE \E p : Pauses(e, p)
<1>0. /\ held \in [Ends -> ChannelMessage \cup {NoMsg}] /\ into \in [Ends -> Seq(ChannelMessage)]
      /\ IntoCap \in Nat
  BY TypesByPart, CapAssumption DEF MuxInv, LoopTypes, ChanTypes
<1>1. CASE DataCount(e) \/ DataSwap(e)
  <2>1. \/ \E to \in {"swap", "pause"} : mux' = [mux EXCEPT ![e] = to] /\ held' = held
        \/ mux' = [mux EXCEPT ![e] = "select"] /\ held' = [held EXCEPT ![e] = NoMsg]
    BY <1>0, <1>1 DEF DataCount, DataSwap, GoesOn
  <2>2. /\ mux[e] \in Handling
        /\ UNCHANGED <<next_id, tracked, interrupted, chanVars, task, reader, writer, envVars>>
    BY <1>1 DEF DataCount, DataSwap, Handling
  <2> QED
    BY <2>1, <2>2 DEF Pauses, chanVars
<1>2. CASE TrySendPause(e)
  <2>1. PICK p \in {"select", "stopped"} : mux' = [mux EXCEPT ![e] = p]
    BY <1>2 DEF TrySendPause
  <2>2. UNCHANGED into \/ /\ Len(into[e]) < IntoCap
                          /\ into' = [into EXCEPT ![e] = Append(@, held[e])]
    <3>1. CASE linked[e] /\ ~full(e)
      <4>1. Len(into[e]) < IntoCap
        BY <1>0, <3>1 DEF full
      <4> QED
        BY <1>2, <3>1, <4>1 DEF TrySendPause
    <3>2. CASE ~(linked[e] /\ ~full(e))
      BY <1>0, <1>2, <3>2 DEF TrySendPause
    <3> QED
      BY <3>1, <3>2
  <2> QED
    BY <1>2, <2>1, <2>2 DEF TrySendPause, Pauses, Handling
<1> QED
  BY <1>1, <1>2 DEF Backpressure

\* They keep the invariant: a PAUSE is about a stream that the other end was told of, and
\* carries no data.
LEMMA PausesKeeps ==
    ASSUME MuxInv, FlowTypes', NEW e \in Ends, NEW p, Pauses(e, p) PROVE MuxInv'
<1> DEFINE f == Peer(e)
           m == held[e]
           sent == Len(into[e]) < IntoCap /\ into' = [into EXCEPT ![e] = Append(@, m)]
<1>0. /\ ChanTypes /\ LoopTypes /\ EnvTypes /\ LoopsInv /\ Introduced /\ IntoCap \in Nat
      /\ f \in Ends /\ f # e /\ Peer(f) = e /\ \A d \in Ends : d = e \/ d = f
  BY TypesByPart, CapAssumption, PeerProperties DEF MuxInv, Ends, Peer
<1>1. /\ mux[e] \in Handling /\ mux' = [mux EXCEPT ![e] = p]
      /\ UNCHANGED <<next_id, tracked, interrupted, from_stream, rx, task, reader, writer, envVars>>
      /\ p \in {"swap", "pause", "select", "stopped"}
      /\ \/ p \in Handling /\ held' = held /\ into' = into
         \/ p \notin Handling /\ held' = [held EXCEPT ![e] = NoMsg] /\ (into' = into \/ sent)
  BY DEF Pauses, Handling
<1>2. m \in ChannelMessage /\ m # NoMsg /\ m.type = "Pause" /\ m.s \in Known("client")
  <2>1. m.type = "Pause" /\ m \in ChannelMessage \cup {NoMsg}
    BY <1>0, <1>1 DEF LoopsInv, LoopTypes
  <2>2. m # NoMsg
    BY <2>1 DEF NoMsg
  <2> QED
    BY <1>0, <2>1, <2>2 DEF Introduced
<1>3. /\ mux'[e] = p /\ \A d \in Ends : d # e => mux'[d] = mux[d] /\ held'[d] = held[d]
      /\ \A d \in Ends : mux'[d] = "dropped" <=> mux[d] = "dropped"
      /\ \A d \in Ends : held'[d] = held[d] \/ (held'[d] = NoMsg /\ d = e)
  BY <1>0, <1>1 DEF LoopTypes, Handling
<1>4. /\ TasksInv' /\ RecordTypes' /\ \A d \in Ends : Known(d)' = Known(d)
      /\ \A d \in Ends, r \in Streams :
            /\ Given(d, r)' = Given(d, r) /\ Given(d, r) \in Nat
            /\ Sent(d, r)' = Sent(d, r) /\ Sent(d, r) \in Nat
            /\ Receiving(d, r)' <=> Receiving(d, r)
            /\ Orderly(writer'[d][r]) /\ Flow(d, r)
  BY <1>1, TasksSame
<1> HIDE DEF m, f
<1>5. \A d \in Ends : Holding(d)' = Holding(d)
  <2>1. Holding(e) = <<>> /\ Holding(e)' = <<>>
    BY <1>0, <1>1, <1>3 DEF Holding, LoopTypes
  <2> QED
    BY <1>3, <2>1 DEF Holding
<1>6. /\ Way(f)' = Way(f)
      /\ Way(e)' = Way(e) \/ (sent /\ Way(e)' = Append(Way(e), m))
  <2>1. CASE into' = into
    BY <1>1, <2>1 DEF Way
  <2>2. CASE sent
    <3>1. into'[e] = Append(into[e], m) /\ into'[f] = into[f]
      BY <1>0, <2>2 DEF ChanTypes
    <3>2. Way(f)' = Way(f)
      BY <1>0, <1>1, <3>1 DEF Way
    <3>3. Way(e)' = Append(Way(e), m)
      BY <1>0, <1>1, <1>2, <3>1, WayMore
    <3> QED
      BY <2>2, <3>2, <3>3
  <2> QED
    BY <1>1, <2>1, <2>2
<1>7. TypeOK'
  <2>1. ChanTypes'
    <3>1. CASE into' = into
      BY <1>0, <1>1, <3>1 DEF ChanTypes
    <3>2. CASE sent
      <4>1. into[e] \in Seq(ChannelMessage)
        BY <1>0 DEF ChanTypes
      <4>2. Append(into[e], m) \in Seq(ChannelMessage) /\ Len(Append(into[e], m)) <= IntoCap
        BY <1>0, <1>2, <3>2, <4>1, AppendedAt
      <4> QED
        BY <1>0, <1>1, <3>2, <4>2 DEF ChanTypes
    <3> QED
      BY <1>1, <3>1, <3>2
  <2>2. LoopTypes'
    <3>1. /\ mux' \in [Ends -> {"select", "sending", "count", "swap", "pause", "stopped", "dropped"}]
          /\ held' \in [Ends -> ChannelMessage \cup {NoMsg}]
      BY <1>0, <1>1 DEF LoopTypes
    <3>2. \A d \in Ends : mux'[d] = "sending" => held'[d] # NoMsg
      BY <1>0, <1>1, <1>3 DEF LoopTypes
    <3> QED
      BY <1>0, <1>1, <3>1, <3>2 DEF LoopTypes
  <2>3. EnvTypes'
    BY <1>0, <1>1 DEF EnvTypes, envVars
  <2> QED
    BY <1>4, <2>1, <2>2, <2>3, TypesByPartNext, WritingsNext
<1>8. LoopsInv'
  <2>1. ASSUME NEW d \in Ends PROVE mux'[d] = "select" => held'[d] = NoMsg
    BY <1>0, <1>1, <1>3 DEF LoopsInv, LoopTypes, Handling
  <2>2. ASSUME NEW d \in Ends, mux'[d] \in Handling PROVE held'[d].type = "Pause"
    <3>1. mux[d] \in Handling /\ held'[d] = held[d]
      BY <1>1, <1>3, <2>2
    <3> QED
      BY <1>0, <3>1 DEF LoopsInv
  <2>3. ASSUME NEW d \in Ends, mux'[d] = "dropped" PROVE d # e /\ mux[d] = "dropped"
    BY <1>1, <1>3, <2>3
  <2> QED
    BY <1>0, <1>1, <1>3, <2>1, <2>2, <2>3 DEF LoopsInv
<1>9. Introduced'
  <2>1. "client" \in Ends /\ "server" \in Ends
    BY DEF Ends
  <2>2. CASE Way(e)' = Way(e)
    <3>1. Way("client")' = Way("client") /\ Way("server")' = Way("server")
      BY <1>0, <1>6, <2>1, <2>2
    <3> QED
      BY <1>0, <1>1, <1>3, <1>4, <2>1, <3>1 DEF Introduced
  <2>3. CASE Way(e)' = Append(Way(e), m) /\ p \notin Handling
    <3>1. held'[e] = NoMsg /\ held'[f] = held[f]
      BY <1>0, <1>1, <1>3, <2>3 DEF LoopTypes
    <3> QED
      BY <1>1, <1>2, <1>3, <1>4, <1>6, <2>1, <2>3, <3>1, SendsIntroduced DEF f
  <2>4. CASE p \in Handling
    <3>1. Way(e)' = Way(e)
      BY <1>1, <2>4 DEF Way
    <3> QED
      BY <2>2, <3>1
  <2> QED
    BY <1>6, <2>2, <2>3, <2>4
<1>10. ASSUME NEW d \in Ends, NEW r \in Streams PROVE Flow(d, r)'
  <2> DEFINE h == Peer(d)
  <2>0. h \in Ends
    BY PeerProperties
  <2>1. Accepts(h, r)' => Accepts(h, r)
    BY <1>1, <1>3, <1>4, <2>0 DEF Accepts
  <2>2. \A n \in Nat : n <= n
    OBVIOUS
  <2> HIDE DEF h
  <2>3. CASE Way(d)' = Way(d)
    <3>1. /\ Holding(d)' = Holding(d) /\ from_stream'[d] = from_stream[d]
          /\ mux[d] = "dropped" => mux'[d] = "dropped"
      BY <1>1, <1>3, <1>5
    <3>2. /\ Sent(d, r) \in Nat /\ Sent(d, r)' \in Nat /\ Sent(d, r) <= Sent(d, r)' /\ Sent(d, r)' = Sent(d, r)
          /\ Given(h, r) \in Nat /\ Given(h, r)' \in Nat /\ Given(h, r)' <= Given(h, r)
          /\ Given(h, r)' = Given(h, r) /\ Flow(d, r)
      BY <1>4, <2>0, <2>2
    <3> QED
      BY <2>1, <2>3, <3>1, <3>2, FlowSame DEF h
  <2>4. CASE d = e /\ Way(e)' = Append(Way(e), m)
    <3>0. PICK g \in Nat : g = Given(h, r)
      BY <1>4, <2>0
    <3>1. PICK n \in Nat : n = Sent(d, r)
      BY <1>4
    <3>2. Given(h, r)' = g /\ Sent(d, r)' = n /\ Flow(d, r)
      BY <1>4, <2>0, <3>0, <3>1
    <3>3. ASSUME NEW b \in g .. n, Underway(Way(d), Holding(d), r, g, b),
                 mux[d] # "dropped" => Carries(from_stream[d], r, b, n)
          PROVE  \E c \in g .. n :
                    /\ Underway(Way(d)', Holding(d)', r, g, c)
                    /\ mux'[d] # "dropped" => Carries(from_stream'[d], r, c, n)
      <4>1. b \in Nat /\ Way(e) \in Seq(ChannelMessage) /\ ~Is(m, r)
        BY <1>0, <1>2, WayType DEF Is
      <4>2. Underway(Append(Way(e), m), Holding(e), r, g, b)
        BY <1>2, <2>4, <3>3, <4>1, UnderwayMore
      <4> QED
        BY <1>1, <1>3, <1>5, <2>4, <3>3, <4>2
    <3> QED
      BY <2>1, <3>0, <3>1, <3>2, <3>3, FlowMoves DEF h
  <2> QED
    BY <1>0, <1>6, <2>3, <2>4
<1> QED
  BY <1>4, <1>7, <1>8, <1>9, <1>10 DEF MuxInv, Ordered

-----------------------------------------------------------------------------
(* A multiplexer is dropped, and what came out of its link with it.        *)

\* What is left of the introductions when a multiplexer is dropped.
LEMMA DroppedIntroduced ==
    ASSUME MuxInv, NEW e \in Ends, Way(e)' = Way(e), Way(Peer(e))' = into[Peer(e)],
           \A d \in Ends : Known(d)' = Known(d), next_id' = next_id,
           \A d \in Ends : from_stream'[d] = from_stream[d] \/ from_stream'[d] = <<>>,
           \A d \in Ends : held'[d] = held[d] \/ held'[d] = NoMsg,
           mux["server"] = "dropped" => mux'["server"] = "dropped",
           mux'[e] = "dropped"
    PROVE  Introduced'
<1> DEFINE K == Known("client")
           f == Peer(e)
<1>0. /\ Introduced /\ ChanTypes /\ f \in Ends /\ Peer(f) = e
      /\ "client" \in Ends /\ "server" \in Ends /\ K' = K /\ Known("server")' = Known("server")
  BY TypesByPart, PeerProperties DEF MuxInv, Ends
<1>1. rx[e] \in Seq(ChannelMessage) /\ into[f] \in Seq(ChannelMessage) /\ Way(f) = rx[e] \o into[f]
  BY <1>0 DEF ChanTypes, Way
<1>2. \A k \in 1 .. Len(into[f]) :
         Len(rx[e]) + k \in 1 .. Len(Way(f)) /\ Way(f)[Len(rx[e]) + k] = into[f][k]
  <2>1. ASSUME NEW p \in Seq(ChannelMessage), NEW q \in Seq(ChannelMessage)
        PROVE  \A k \in 1 .. Len(q) :
                  Len(p) + k \in 1 .. Len(p \o q) /\ (p \o q)[Len(p) + k] = q[k]
    OBVIOUS
  <2> QED
    BY <1>1, <2>1, Zenon
<1>3. Named(into[f]) \subseteq Named(Way(f))
  BY <1>2 DEF Named
<1>4. Talk(Way(f), K) => Talk(into[f], K)
  BY <1>2 DEF Talk
<1>5. \A d \in Ends :
         /\ Talk(from_stream'[d], K)
         /\ held'[d] # NoMsg =>
               IF held'[d].type = "Connect"
                  THEN d = "client" /\ held'[d].s < next_id' /\ held'[d].s \notin K
                  ELSE held'[d].s \in K
  <2>1. \A d \in Ends : /\ Talk(from_stream[d], K)
                        /\ held[d] # NoMsg =>
                              IF held[d].type = "Connect"
                                 THEN d = "client" /\ held[d].s < next_id /\ held[d].s \notin K
                                 ELSE held[d].s \in K
    BY <1>0 DEF Introduced
  <2>2. Talk(<<>>, K)
    BY TalkParts
  <2> QED
    BY <2>1, <2>2
<1> HIDE DEF K, f
<1>6. CASE e = "server"
  <2>1. Way("server")' = Way("server") /\ Way("client")' = into[f] /\ f = "client"
    BY <1>6 DEF f, Peer
  <2>2. Known("server")' \cup Named(Way("client")') \subseteq K
    BY <1>0, <1>3, <2>1 DEF Introduced, K
  <2>3. Talk(Way("server")', K) /\ \A s \in K : s < next_id'
    BY <1>0, <2>1 DEF Introduced, K
  <2> QED
    BY <1>0, <1>5, <1>6, <2>2, <2>3 DEF Introduced, K
<1>7. CASE e = "client"
  <2>1. Way("client")' = Way("client") /\ Way("server")' = into[f] /\ f = "server"
    BY <1>7 DEF f, Peer
  <2>2. Talk(Way("server")', K)
    BY <1>0, <1>4, <2>1 DEF Introduced, K
  <2> QED
    BY <1>0, <1>5, <2>1, <2>2 DEF Introduced, K
<1> QED
  BY <1>6, <1>7 DEF Ends

\* Dropping a multiplexer keeps the invariant.
LEMMA DroppedKeeps ==
    ASSUME MuxInv, FlowTypes', NEW e \in Ends, Dropped(e), faults' \in 0 .. MaxFaults PROVE MuxInv'
<1>0. /\ ChanTypes /\ LoopTypes /\ EnvTypes /\ LoopsInv /\ StreamCap \in Nat
      /\ Peer(e) \in Ends /\ Peer(e) # e /\ Peer(Peer(e)) = e /\ \A d \in Ends : d = e \/ d = Peer(e)
  BY TypesByPart, CapAssumption, PeerProperties DEF MuxInv, Ends, Peer
<1>1. /\ mux' = [mux EXCEPT ![e] = "dropped"] /\ held' = [held EXCEPT ![e] = NoMsg]
      /\ tracked' = [tracked EXCEPT ![e] = {}]
      /\ from_stream' = [from_stream EXCEPT ![e] = <<>>] /\ rx' = [rx EXCEPT ![e] = <<>>]
      /\ UNCHANGED <<next_id, interrupted, into, task, reader, writer, cancelled, linked>>
  BY DEF Dropped, taskVars
<1>2. /\ held'[e] = NoMsg /\ mux'[e] = "dropped" /\ tracked'[e] = {}
      /\ from_stream'[e] = <<>> /\ rx'[e] = <<>>
      /\ \A d \in Ends : d # e =>
            /\ held'[d] = held[d] /\ mux'[d] = mux[d] /\ tracked'[d] = tracked[d]
            /\ from_stream'[d] = from_stream[d] /\ rx'[d] = rx[d]
  BY <1>0, <1>1 DEF LoopTypes, ChanTypes
<1>3. /\ TasksInv' /\ RecordTypes' /\ \A d \in Ends : Known(d)' = Known(d)
      /\ \A d \in Ends, r \in Streams :
            /\ Given(d, r)' = Given(d, r) /\ Given(d, r) \in Nat
            /\ Sent(d, r)' = Sent(d, r) /\ Sent(d, r) \in Nat
            /\ Receiving(d, r)' <=> Receiving(d, r)
            /\ Orderly(writer'[d][r]) /\ Flow(d, r)
  <2>1. \A d \in Ends : tracked'[d] \subseteq tracked[d]
    BY <1>2
  <2> QED
    BY <1>1, <2>1, TasksSame
<1>4. /\ Way(e)' = Way(e) /\ Way(Peer(e))' = into[Peer(e)] /\ Holding(e)' = <<>>
      /\ Holding(Peer(e))' = Holding(Peer(e))
  <2>1. Way(e)' = Way(e)
    BY <1>0, <1>1, <1>2 DEF Way
  <2>2. into[Peer(e)] \in Seq(ChannelMessage)
    BY <1>0 DEF ChanTypes
  <2>3. Way(Peer(e))' = <<>> \o into[Peer(e)]
    BY <1>0, <1>1, <1>2 DEF Way
  <2>4. Way(Peer(e))' = into[Peer(e)]
    BY <2>2, <2>3
  <2>5. Holding(e)' = <<>> /\ Holding(Peer(e))' = Holding(Peer(e))
    BY <1>0, <1>2 DEF Holding
  <2> QED
    BY <2>1, <2>4, <2>5
<1>5. TypeOK'
  <2>1. ChanTypes'
    BY <1>0, <1>1 DEF ChanTypes
  <2>2. \A d \in Ends : mux'[d] = "sending" => held'[d] # NoMsg
    BY <1>0, <1>2 DEF LoopTypes
  <2>3. LoopTypes'
    BY <1>0, <1>1, <2>2 DEF LoopTypes
  <2>4. EnvTypes'
    BY <1>0, <1>1 DEF EnvTypes
  <2> QED
    BY <1>3, <2>1, <2>3, <2>4, TypesByPartNext, WritingsNext
<1>6. LoopsInv'
  BY <1>0, <1>2 DEF LoopsInv, Handling
<1>7. Introduced'
  <2>1. mux["server"] = "dropped" => mux'["server"] = "dropped"
    BY <1>2 DEF Ends
  <2>2. \A d \in Ends : /\ from_stream'[d] = from_stream[d] \/ from_stream'[d] = <<>>
                        /\ held'[d] = held[d] \/ held'[d] = NoMsg
    BY <1>2
  <2> QED
    BY <1>1, <1>2, <1>3, <1>4, <2>1, <2>2, DroppedIntroduced
<1>8. ASSUME NEW d \in Ends, NEW r \in Streams PROVE Flow(d, r)'
  <2> DEFINE f == Peer(d)
  <2>0. f \in Ends
    BY PeerProperties
  <2>1. Accepts(f, r)' => Accepts(f, r)
    BY <1>2, <1>3, <2>0 DEF Accepts
  <2>2. PICK g \in Nat : g = Given(f, r)
    BY <1>3, <2>0
  <2>3. PICK n \in Nat : n = Sent(d, r)
    BY <1>3
  <2>4. Given(f, r)' = g /\ Sent(d, r)' = n /\ Flow(d, r)
    BY <1>3, <2>0, <2>2, <2>3
  <2>5. CASE d = e
    <3>1. ASSUME NEW b \in g .. n, Underway(Way(d), Holding(d), r, g, b)
          PROVE  \E c \in g .. n :
                    /\ Underway(Way(d)', Holding(d)', r, g, c)
                    /\ mux'[d] # "dropped" => Carries(from_stream'[d], r, c, n)
      <4>1. b \in Nat /\ Way(e) \in Seq(ChannelMessage)
        BY <1>0, WayType
      <4>2. PICK k \in g .. b : Underway(Way(e), <<>>, r, g, k)
        BY <2>5, <3>1, <4>1, UnderwayAlone
      <4>3. k \in g .. n
        BY <4>1, <4>2
      <4> QED
        BY <1>2, <1>4, <2>5, <4>2, <4>3
    <3> HIDE DEF f
    <3> QED
      BY <2>1, <2>2, <2>3, <2>4, <3>1, FlowMoves DEF f
  <2>6. CASE d # e
    <3>1. f = e
      BY <1>0, <2>6, PeerProperties
    <3>2. ~Accepts(f, r)'
      BY <1>2, <3>1 DEF Accepts
    <3>3. Given(f, r) <= Sent(d, r)
      BY <2>4, FlowNow
    <3> HIDE DEF f
    <3> QED
      BY <2>2, <2>3, <2>4, <3>2, <3>3, FlowNext DEF f
  <2> QED
    BY <2>5, <2>6
<1> QED
  BY <1>3, <1>5, <1>6, <1>7, <1>8 DEF MuxInv, Ordered

\* The two ways for a multiplexer to be dropped.
LEMMA DroppedSteps ==
    ASSUME MuxInv, NEW e \in Ends, Drop(e) \/ (e = "client" /\ AcceptFails)
    PROVE  Dropped(e) /\ faults' \in 0 .. MaxFaults
<1>1. CASE Drop(e)
  BY <1>1, Types DEF Drop, MuxInv
<1>2. CASE e = "client" /\ AcceptFails
  BY <1>2, FaultType DEF AcceptFails, MuxInv
<1> QED
  BY <1>1, <1>2

-----------------------------------------------------------------------------
(* The invariant holds, and what follows from it.                          *)

\* The invariant holds at first.
LEMMA InitInv == ASSUME Init PROVE MuxInv
<1>1. /\ \A e \in Ends : /\ mux[e] = "select" /\ held[e] = NoMsg /\ tracked[e] = {}
                         /\ from_stream[e] = <<>> /\ into[e] = <<>> /\ rx[e] = <<>>
      /\ \A e \in Ends, s \in Streams :
            /\ task[e][s].pc = "none"
            /\ reader[e][s].pc = "none" /\ reader[e][s].n = 0
            /\ writer[e][s].pc = "none" /\ writer[e][s].queue = <<>> /\ writer[e][s].written = <<>>
  BY DEF Init, PerStream
<1>2. TypeOK
  BY TypeInit
<1>3. TasksInv
  BY <1>1 DEF TasksInv, TaskInv
<1>4. LoopsInv
  BY <1>1 DEF LoopsInv, Handling
<1>5. \A e \in Ends : Way(e) = <<>> /\ Holding(e) = <<>> /\ Known(e) = {}
  <2>1. <<>> \o <<>> = <<>>
    OBVIOUS
  <2> QED
    BY <1>1, <2>1, PeerProperties DEF Way, Holding, Known
<1>6. Introduced
  <2>1. Named(<<>>) = {} /\ Introduces(<<>>, {}) /\ Talk(<<>>, {})
    BY DEF Named, Introduces, Talk
  <2>2. "client" \in Ends /\ "server" \in Ends
    BY DEF Ends
  <2> QED
    BY <1>1, <1>5, <2>1, <2>2 DEF Introduced
<1>7. ASSUME NEW e \in Ends, NEW s \in Streams PROVE Orderly(writer[e][s]) /\ Flow(e, s)
  <2> DEFINE f == Peer(e)
  <2>1. Orderly(writer[e][s])
    BY <1>1 DEF Orderly, Counted
  <2>2. Given(f, s) = 0 /\ Sent(e, s) = 0
    <3>1. 0 + 0 = 0 /\ 0 - 0 = 0 /\ Len(<<>>) = 0
      OBVIOUS
    <3> QED
      BY <1>1, <3>1, PeerProperties DEF Given, Sent
  <2>3. Carries(<<>>, s, 0, 0)
    BY CarriesNone
  <2>4. 0 \in 0 .. 0 /\ 0 <= 0
    OBVIOUS
  <2>5. Underway(<<>>, <<>>, s, 0, 0)
    BY <2>3, <2>4 DEF Underway
  <2> HIDE DEF f
  <2>6. Flow(e, s)
    BY <1>1, <1>5, <2>2, <2>3, <2>4, <2>5 DEF Flow, f
  <2> QED
    BY <2>1, <2>6
<1> QED
  BY <1>2, <1>3, <1>4, <1>6, <1>7 DEF MuxInv, Ordered

\* A step of a task of a stream is a LocalStep.
LEMMA TaskStep ==
    ASSUME MuxInv, NEW e \in Ends, NEW s \in Streams,
           \/ ReadTask(e, s) \/ WriteTask(e, s) \/ StreamTask(e, s)
           \/ Connects(e, s) \/ Sockets(e, s) \/ WriteDone(e, s)
    PROVE  LocalStep(e, s)
<1>1. CASE ReadTask(e, s) \/ ReadData(e, s) \/ ReadEnds(e, s)
  BY <1>1, ReadStep
<1>2. CASE WriteTask(e, s) \/ WriteDone(e, s) \/ WriteFails(e, s)
  BY <1>2, WriteStep
<1>3. CASE StreamTask(e, s) \/ Connects(e, s)
  BY <1>3, StreamTaskStep
<1> QED
  BY <1>1, <1>2, <1>3 DEF Sockets

\* A step of nobody keeps the invariant.
LEMMA StutterKeeps == ASSUME MuxInv, FlowTypes', UNCHANGED vars PROVE MuxInv'
<1>1. Still
  BY TypesByPart DEF vars, muxVars, chanVars, envVars, Still, EnvTypes, LoopTypes, MuxInv
<1> QED
  BY <1>1, StillKeeps

\* The counter and the flag keep their types, whoever uses them.
LEMMA FlowTyped == ASSUME MuxInv, [Next]_vars PROVE FlowTypes'
<1>0. FlowTypes /\ LoopTypes /\ LoopsInv
  BY TypesByPart DEF MuxInv
<1>1. ASSUME NEW x \in FlowType
      PROVE  /\ x.pending \in Int /\ x.sent_pause \in BOOLEAN
             /\ \A i \in Int : [x EXCEPT !.pending = i] \in FlowType
             /\ \A b \in BOOLEAN : [x EXCEPT !.sent_pause = b] \in FlowType
  BY DEF FlowType
<1>2. ASSUME NEW e \in Ends, NEW s \in Streams
      PROVE  /\ flow[e][s].pending \in Int /\ flow[e][s].sent_pause \in BOOLEAN
             /\ \A i \in Int : flow' = [flow EXCEPT ![e][s].pending = i] => FlowTypes'
             /\ \A b \in BOOLEAN : flow' = [flow EXCEPT ![e][s].sent_pause = b] => FlowTypes'
  <2>1. flow[e][s] \in FlowType
    BY <1>0 DEF FlowTypes
  <2>2. \A v \in FlowType : [flow EXCEPT ![e][s] = v] \in [Ends -> [Streams -> FlowType]]
    BY <1>0, Update DEF FlowTypes
  <2> QED
    BY <1>1, <2>1, <2>2 DEF FlowTypes
<1>3. ASSUME NEW e \in Ends, NEW s \in Streams, WriteDone(e, s) \/ WriteSwap(e, s) PROVE FlowTypes'
  <2>1. CASE WriteDone(e, s)
    <3>1. flow' = [flow EXCEPT ![e][s].pending = flow[e][s].pending - 1] /\ flow[e][s].pending - 1 \in Int
      BY <1>2, <2>1 DEF WriteDone
    <3> QED
      BY <1>2, <3>1
  <2>2. CASE WriteSwap(e, s)
    <3>1. flow' = [flow EXCEPT ![e][s].sent_pause = FALSE]
      BY <2>2 DEF WriteSwap
    <3> QED
      BY <1>2, <3>1
  <2> QED
    BY <1>3, <2>1, <2>2
<1>4. ASSUME NEW e \in Ends, Backpressure(e) PROVE FlowTypes'
  <2> DEFINE s == held[e].s
  <2>1. s \in Streams
    <3>1. mux[e] \in Handling
      BY <1>4 DEF Backpressure, DataCount, DataSwap, TrySendPause, Handling
    <3>2. held[e].type = "Pause" /\ held[e] \in ChannelMessage \cup {NoMsg}
      BY <1>0, <3>1 DEF LoopsInv, LoopTypes
    <3> QED
      BY <3>2, Messages DEF NoMsg
  <2> HIDE DEF s
  <2>2. CASE DataCount(e)
    <3>1. flow' = [flow EXCEPT ![e][s].pending = flow[e][s].pending + 1] /\ flow[e][s].pending + 1 \in Int
      BY <1>2, <2>1, <2>2 DEF DataCount, s
    <3> QED
      BY <1>2, <2>1, <3>1
  <2>3. CASE DataSwap(e)
    <3>1. flow' = [flow EXCEPT ![e][s].sent_pause = TRUE]
      BY <2>3 DEF DataSwap, s
    <3> QED
      BY <1>2, <2>1, <3>1
  <2>4. CASE TrySendPause(e)
    <3> DEFINE b == ~(linked[e] /\ full(e)) /\ flow[e][s].sent_pause
    <3>1. flow' = [flow EXCEPT ![e][s].sent_pause = b]
      BY <2>4 DEF TrySendPause, s
    <3>2. b \in BOOLEAN
      OBVIOUS
    <3> HIDE DEF b
    <3> QED
      BY <1>2, <2>1, <3>1, <3>2
  <2> QED
    BY <1>4, <2>2, <2>3, <2>4 DEF Backpressure
<1>5. CASE UNCHANGED flow
  BY <1>0, <1>5 DEF FlowTypes
<1>6. ASSUME NEW e \in Ends, Run(e), ~Backpressure(e) PROVE UNCHANGED flow
  <2>1. CASE Receive(e)
    BY <2>1 DEF Receive, GotConnect, GotDisconnect, GotPause, GotResume, GotDataUnknown,
                GotDataRefused, GotData, NewStream, RunStream, Remove, taskVars
  <2>2. CASE ~Receive(e)
    BY <1>6, <2>2 DEF Run, Forward, MuxSends, MuxCancelled, MuxFails, Drop, Dropped, NewStream,
                      RunStream, taskVars
  <2> QED
    BY <2>1, <2>2
<1>7. ASSUME \/ Accept \/ AcceptFails \/ LinkFails \/ UNCHANGED vars
             \/ \E e \in Ends : Link(e) \/ Cancel(e)
      PROVE  UNCHANGED flow
  BY <1>7 DEF Accept, AcceptFails, Dropped, LinkFails, Link, Deliver, LinkEnds, Cancel, vars, taskVars
<1>8. ASSUME NEW e \in Ends, NEW s \in Streams, ~WriteSwap(e, s),
             ReadTask(e, s) \/ WriteTask(e, s) \/ Sockets(e, s)
      PROVE  UNCHANGED flow
  BY <1>8 DEF ReadTask, ReadSends, ReadResumes, ReadCancelled, WriteTask, WriteReceives, WriteSendsResume,
              WriteCancelled, WriteEnds, Sockets, ReadData, ReadEnds, WriteFails
<1>9. ASSUME NEW e \in Ends, NEW s \in Streams, StreamTask(e, s) \/ Connects(e, s)
      PROVE  UNCHANGED flow
  BY <1>9 DEF StreamTask, TaskEnds, TaskWaits, TaskSendsDisconnect, TaskGone, Connects, TaskConnects,
              TaskConnectFails, RunStream
<1> QED
  BY <1>3, <1>4, <1>5, <1>6, <1>7, <1>8, <1>9 DEF Next

\* Every step keeps the invariant, one case for each kind of step.
LEMMA InvariantStep == ASSUME MuxInv, [Next]_vars PROVE MuxInv'
<1>0. "client" \in Ends /\ FlowTypes'
  BY FlowTyped DEF Ends
<1>1. CASE Accept
  BY <1>0, <1>1, HoldsSteps, HoldsKeeps
<1>2. CASE AcceptFails
  BY <1>0, <1>2, DroppedSteps, DroppedKeeps
<1>3. CASE LinkFails
  BY <1>0, <1>3, StillSteps, StillKeeps
<1>4. ASSUME NEW e \in Ends, Run(e) PROVE MuxInv'
  <2>1. CASE Receive(e)
    BY <1>0, <2>1, ReceiveKeeps
  <2>2. CASE Forward(e)
    BY <1>0, <2>2, HoldsSteps, HoldsKeeps
  <2>3. CASE MuxSends(e)
    BY <1>0, <2>3, SendsKeeps
  <2>4. CASE MuxCancelled(e) \/ MuxFails(e)
    BY <1>0, <2>4, StillSteps, StillKeeps
  <2>5. CASE Drop(e)
    BY <1>0, <2>5, DroppedSteps, DroppedKeeps
  <2>6. CASE Backpressure(e)
    BY <1>0, <2>6, PausesSteps, PausesKeeps
  <2> QED
    BY <1>4, <2>1, <2>2, <2>3, <2>4, <2>5, <2>6 DEF Run
<1>5. ASSUME NEW e \in Ends, Link(e) \/ Cancel(e) PROVE MuxInv'
  <2>1. CASE Deliver(e)
    BY <1>0, <2>1, DeliverKeeps
  <2>2. CASE LinkEnds(e) \/ Cancel(e)
    BY <1>0, <2>2, StillSteps, StillKeeps
  <2> QED
    BY <1>5, <2>1, <2>2 DEF Link
<1>6. ASSUME NEW e \in Ends, NEW s \in Streams,
             \/ ReadTask(e, s) \/ WriteTask(e, s) \/ StreamTask(e, s)
             \/ Connects(e, s) \/ Sockets(e, s) \/ WriteDone(e, s)
      PROVE  MuxInv'
  <2>1. LocalStep(e, s)
    BY <1>6, TaskStep
  <2> QED
    BY <1>0, <2>1, LocalKeeps
<1>7. CASE UNCHANGED vars
  BY <1>0, <1>7, StutterKeeps
<1> QED
  BY <1>1, <1>2, <1>3, <1>4, <1>5, <1>6, <1>7 DEF Next

\* MuxInv, the conjunction of all that is said above, holds in every state.
THEOREM MuxInvariance == Spec => []MuxInv
<1>1. Init => MuxInv
  BY InitInv
<1>2. MuxInv /\ [Next]_vars => MuxInv'
  BY InvariantStep
<1> QED
  BY <1>1, <1>2, PTL DEF Spec

\* The multiplexers' state has its type, with the capacities of the bounded channels
\* and the messages that only some states of a task or a run loop allow.
THEOREM TypeCorrect == Spec => []TypeOK
<1>1. MuxInv => TypeOK
  BY DEF MuxInv
<1> QED
  BY <1>1, MuxInvariance, PTL

\* What the write tasks write, however streams end and run loops stop, is the beginning
\* of what the read tasks at the other end have read, in order and nothing left out.
THEOREM StreamsInOrder == Spec => []InOrder
<1>1. ASSUME MuxInv, NEW e \in Ends, NEW s \in Streams, NEW w, w = writer[Peer(e)][s].written
      PROVE  w = [k \in 1 .. Len(w) |-> k] /\ Len(w) <= reader[e][s].n
  <2> DEFINE f == Peer(e)
             v == writer[f][s]
  <2>0. f \in Ends
    BY PeerProperties
  <2>1. TaskInv(e, s) /\ RecordTypes /\ Flow(e, s) /\ Orderly(v)
    BY <1>1, <2>0, AllCounts
  <2>2. v \in WriterType
    BY <2>0, <2>1 DEF RecordTypes
  <2>3. w \in Seq(Nat) /\ v.queue \in Seq(Nat) /\ Len(w) \in Nat /\ Len(v.queue) \in Nat
    BY <1>1, <2>2 DEF WriterType
  <2>4. \A k \in 1 .. Len(w) : w[k] = 0 + k
    BY <1>1, <2>1 DEF Orderly, Counted
  <2>5. w = [k \in 1 .. Len(w) |-> k]
    <3>1. w = [k \in 1 .. Len(w) |-> w[k]]
      BY <2>3
    <3>2. \A k \in 1 .. Len(w) : w[k] = k
      BY <2>4
    <3> QED
      BY <3>1, <3>2
  <2>6. Given(f, s) <= Sent(e, s) /\ Given(f, s) = Len(w) + Len(v.queue)
    BY <1>1, <2>1, FlowNow DEF Given
  <2>7. Sent(e, s) \in Nat /\ reader[e][s].n \in Nat /\ Sent(e, s) <= reader[e][s].n
    BY <2>1, Counts
  <2> HIDE DEF f, v
  <2>8. Len(w) <= reader[e][s].n
    BY <2>3, <2>6, <2>7
  <2> QED
    BY <2>5, <2>8
<1>2. MuxInv => InOrder
  BY <1>1 DEF InOrder
<1> QED
  BY <1>2, MuxInvariance, PTL

\* The server meets the Connect of a stream first and once, and the client nothing about
\* a stream that it did not announce, so that no message is taken for another stream.
THEOREM ConnectsFirst == Spec => []ConnectedFirst
<1>1. ASSUME MuxInv, rx["server"] # <<>>, NEW m, m = Head(rx["server"])
      PROVE  (m.type = "Connect") <=> (task["server"][m.s].pc = "none")
  <2>1. "server" \in Ends /\ mux["server"] # "dropped"
    BY <1>1 DEF MuxInv, LoopsInv, Ends
  <2>2. m.s \in Streams /\ (m.type = "Connect" <=> m.s \notin Known("server"))
    BY <1>1, <2>1, FirstIs
  <2> QED
    BY <2>2 DEF Known
<1>2. ASSUME MuxInv, NEW k \in 1 .. Len(rx["client"])
      PROVE  rx["client"][k].type # "Connect" /\ task["client"][rx["client"][k].s].pc # "none"
  <2>1. /\ rx["client"] \in Seq(ChannelMessage) /\ into["server"] \in Seq(ChannelMessage)
        /\ Way("server") = rx["client"] \o into["server"] /\ Talk(Way("server"), Known("client"))
    BY <1>2, TypesByPart DEF MuxInv, ChanTypes, Introduced, Way, Ends, Peer
  <2>2. k \in 1 .. Len(Way("server")) /\ Way("server")[k] = rx["client"][k]
    <3>1. ASSUME NEW p \in Seq(ChannelMessage), NEW q \in Seq(ChannelMessage)
          PROVE  \A i \in 1 .. Len(p) : i \in 1 .. Len(p \o q) /\ (p \o q)[i] = p[i]
      OBVIOUS
    <3> QED
      BY <1>2, <2>1, <3>1, Zenon
  <2> QED
    BY <2>1, <2>2 DEF Talk, Known
<1>3. MuxInv => ConnectedFirst
  BY <1>1, <1>2 DEF ConnectedFirst
<1> QED
  BY <1>3, MuxInvariance, PTL
-----------------------------------------------------------------------------
(* An end of a stream is not brought back.                                 *)

\* What StaysEnded says of stream r at end d.
Kept(d, r) ==
    /\ task[d][r].pc = "ended" => task'[d][r].pc = "ended"
    /\ reader[d][r].pc = "ended" => reader'[d][r].pc = "ended"
    /\ writer[d][r].pc = "ended" =>
          writer'[d][r].pc = "ended" /\ writer'[d][r].written = writer[d][r].written
    /\ r \in tracked'[d] => r \in tracked[d] \/ task[d][r].pc = "none"

\* A step that moves stream s at end e only has to keep that one.
LEMMA KeptOne ==
    ASSUME NEW e \in Ends, NEW s \in Streams, Kept(e, s),
           \A d \in Ends, r \in Streams : d # e \/ r # s => SameAt(d, r)
    PROVE  \A d \in Ends, r \in Streams : Kept(d, r)
<1>1. ASSUME NEW d \in Ends, NEW r \in Streams, d # e \/ r # s PROVE Kept(d, r)
  <2>1. SameAt(d, r)
    BY <1>1
  <2> QED
    BY <2>1 DEF SameAt, SameStream, Kept
<1> QED
  BY <1>1

\* A step that moves no task, and tracks nothing new, keeps all of them.
LEMMA KeptAll ==
    ASSUME UNCHANGED <<task, reader, writer>>, \A d \in Ends : tracked'[d] \subseteq tracked[d]
    PROVE  \A d \in Ends, r \in Streams : Kept(d, r)
BY DEF Kept

\* A stream's own tasks leave their last state never, nor does one of them run another.
LEMMA LocalKept ==
    ASSUME MuxInv, NEW e \in Ends, NEW s \in Streams, LocalStep(e, s),
           \/ ReadTask(e, s) \/ WriteTask(e, s) \/ StreamTask(e, s)
           \/ Connects(e, s) \/ Sockets(e, s) \/ WriteDone(e, s)
    PROVE  \A d \in Ends, r \in Streams : Kept(d, r)
<1>0. TypeOK /\ TaskInv(e, s)
  BY AllCounts DEF MuxInv
<1>1. tracked' = tracked /\ \A d \in Ends, r \in Streams : d # e \/ r # s => SameStream(d, r)
  BY DEF LocalStep, muxVars
<1> SUFFICES Kept(e, s)
  BY <1>1, KeptOne DEF SameAt
<1>2. CASE ReadTask(e, s) \/ ReadData(e, s) \/ ReadEnds(e, s)
  <2>1. reader[e][s].pc # "ended" /\ UNCHANGED <<task, writer>>
    BY <1>0, <1>2, ReadTypes
  <2> QED
    BY <1>1, <2>1 DEF Kept
<1>3. CASE WriteTask(e, s) \/ WriteDone(e, s) \/ WriteFails(e, s)
  <2>1. writer[e][s].pc # "ended" /\ UNCHANGED <<task, reader>>
    BY <1>0, <1>3, WriteTypes
  <2> QED
    BY <1>1, <2>1 DEF Kept
<1>4. CASE StreamTask(e, s) \/ TaskConnectFails(e, s)
  <2>1. /\ writer'[e][s].pc = writer[e][s].pc /\ writer'[e][s].written = writer[e][s].written
        /\ task[e][s].pc # "ended" /\ UNCHANGED reader
    BY <1>0, <1>4, TaskTypes
  <2> QED
    BY <1>1, <2>1 DEF Kept
<1>5. CASE TaskConnects(e, s)
  <2>1. task[e][s].pc = "connecting" /\ reader[e][s].pc = "none" /\ writer[e][s].pc = "none"
    BY <1>0, <1>5 DEF TaskConnects, TaskInv
  <2> QED
    BY <1>1, <2>1 DEF Kept
<1> QED
  BY <1>2, <1>3, <1>4, <1>5 DEF Connects, Sockets

\* A stream is started where its task has not been, and nothing of it has ended.
LEMMA NewStreamKept ==
    ASSUME MuxInv, NEW e \in Ends, NEW s \in Streams, task[e][s].pc = "none", NewStream(e, s)
    PROVE  \A d \in Ends, r \in Streams : Kept(d, r)
<1>1. TypeOK /\ TaskInv(e, s)
  BY AllCounts DEF MuxInv
<1>2. reader[e][s].pc = "none" /\ writer[e][s].pc = "none"
  BY <1>1 DEF TaskInv
<1>3. Kept(e, s)
  BY <1>2 DEF Kept
<1>4. \A d \in Ends, r \in Streams : d # e \/ r # s => SameAt(d, r)
  BY <1>1, NewStreamEffect
<1> QED
  BY <1>3, <1>4, KeptOne

\* A task that is aborted ends, and takes no other back to life.
LEMMA RemoveKept ==
    ASSUME MuxInv, NEW e \in Ends, NEW s \in Streams, Remove(e, s), UNCHANGED reader
    PROVE  Kept(e, s)
<1> DEFINE t == task[e][s]
           w == writer[e][s]
<1>1. RecordTypes /\ tracked \in [Ends -> SUBSET Streams]
  BY AllCounts DEF LoopTypes
<1>2. s \notin tracked'[e]
  BY <1>1 DEF Remove
<1>3. CASE s \in tracked[e] /\ t.pc \in {"connecting", "running", "waiting"}
  <2>1. writer' = [writer EXCEPT ![e][s] = Emptied(w)]
    BY <1>1, <1>3 DEF Remove, RecordTypes, Emptied
  <2>2. w \in WriterType
    BY <1>1 DEF RecordTypes
  <2>3. writer'[e][s] = Emptied(w)
    BY <1>1, <2>1 DEF RecordTypes
  <2>4. writer'[e][s].pc = w.pc /\ writer'[e][s].written = w.written
    BY <2>2, <2>3, EmptiedFields
  <2> QED
    BY <1>2, <1>3, <2>4 DEF Kept
<1>4. CASE ~(s \in tracked[e] /\ t.pc \in {"connecting", "running", "waiting"})
  <2>1. UNCHANGED <<task, writer>>
    BY <1>4 DEF Remove
  <2> QED
    BY <1>2, <2>1 DEF Kept
<1> QED
  BY <1>3, <1>4

\* What a run loop receives revives nothing.
LEMMA ReceiveKept ==
    ASSUME MuxInv, NEW e \in Ends, Receive(e)
    PROVE  \A d \in Ends, r \in Streams : Kept(d, r)
<1> PICK m : m = Head(rx[e])
  OBVIOUS
<1> DEFINE s == m.s
<1>0. Taking(e, m)
  BY ReceiveTakes
<1>1. /\ \A d \in Ends, r \in Streams : d # e \/ r # s => SameAt(d, r)
      /\ rx[e] # <<>> /\ mux[e] = "select"
  BY <1>0 DEF Taking
<1>2. /\ s \in Streams /\ RecordTypes /\ (m.type = "Connect" <=> s \notin Known(e))
  BY <1>1, FirstIs, TypesByPart DEF MuxInv
<1> HIDE DEF s
<1>3. CASE e = "server" /\ GotConnect
  <2>1. m.type = "Connect" /\ (s \notin tracked[e] => NewStream(e, s))
    BY <1>3 DEF GotConnect, Takes, s
  <2>2. task[e][s].pc = "none" /\ NewStream(e, s)
    BY <1>2, <2>1, AllCounts DEF Known, TaskInv
  <2> QED
    BY <1>2, <2>1, <2>2, NewStreamKept
<1>4. CASE GotDisconnect(e) \/ GotDataRefused(e)
  <2>1. Remove(e, s) /\ UNCHANGED reader
    BY <1>4 DEF GotDisconnect, GotDataRefused, s
  <2>2. Kept(e, s)
    BY <1>2, <2>1, RemoveKept
  <2> QED
    BY <1>1, <1>2, <2>2, KeptOne
<1>5. CASE GotPause(e) \/ GotResume(e)
  <2>1. PICK b : reader' = [reader EXCEPT ![e][s].paused = b]
    BY <1>5 DEF GotPause, GotResume, s
  <2>2. UNCHANGED <<tracked, task, writer>>
    BY <1>5 DEF GotPause, GotResume, muxVars
  <2>3. reader'[e][s].pc = reader[e][s].pc
    BY <1>2, <2>1 DEF RecordTypes, ReaderType
  <2>4. Kept(e, s)
    BY <2>2, <2>3 DEF Kept
  <2> QED
    BY <1>1, <1>2, <2>4, KeptOne
<1>6. CASE GotDataUnknown(e)
  <2>1. UNCHANGED <<tracked, task, reader, writer>>
    BY <1>6 DEF GotDataUnknown, muxVars, taskVars
  <2> QED
    BY <2>1, KeptAll
<1>7. CASE GotData(e)
  <2>1. Receiving(e, s) /\ UNCHANGED <<tracked, task, reader>>
    BY <1>7 DEF GotData, s
  <2>2. writer[e][s].pc # "ended"
    BY <2>1 DEF Receiving
  <2>3. Kept(e, s)
    BY <2>1, <2>2 DEF Kept
  <2> QED
    BY <1>1, <1>2, <2>3, KeptOne
<1> QED
  BY <1>3, <1>4, <1>5, <1>6, <1>7 DEF Receive

\* A run loop starts the stream whose Connect it has sent, which nobody knew.
LEMMA SendsKept ==
    ASSUME MuxInv, NEW e \in Ends, MuxSends(e)
    PROVE  \A d \in Ends, r \in Streams : Kept(d, r)
<1> DEFINE m == held[e]
<1>1. /\ m.s \in Streams
      /\ m.type = "Connect" => e = "client" /\ m.s \notin Known("client")
  BY SendsEffect
<1>2. CASE m.type = "Connect"
  <2>1. NewStream(e, m.s) /\ task[e][m.s].pc = "none"
    BY <1>1, <1>2 DEF MuxSends, Known
  <2> QED
    BY <1>1, <2>1, NewStreamKept
<1>3. CASE m.type # "Connect"
  <2>1. UNCHANGED <<tracked, task, reader, writer>>
    BY <1>3 DEF MuxSends, taskVars
  <2> QED
    BY <2>1, KeptAll
<1> QED
  BY <1>2, <1>3

\* Every other step moves no task, and only a multiplexer that is dropped forgets.
LEMMA OtherKept ==
    ASSUME MuxInv, NEW e \in Ends,
           \/ Accept \/ AcceptFails \/ LinkFails \/ UNCHANGED vars
           \/ Backpressure(e) \/ Forward(e) \/ MuxCancelled(e) \/ MuxFails(e) \/ Drop(e) \/ Link(e) \/ Cancel(e)
    PROVE  \A d \in Ends, r \in Streams : Kept(d, r)
<1>0. tracked \in [Ends -> SUBSET Streams]
  BY AllCounts DEF MuxInv, TypeOK
<1>1. CASE Drop(e) \/ AcceptFails
  <2>1. PICK d \in Ends : tracked' = [tracked EXCEPT ![d] = {}]
    BY <1>1 DEF Drop, AcceptFails, Dropped, Ends
  <2>2. UNCHANGED <<task, reader, writer>>
    BY <1>1 DEF Drop, AcceptFails, Dropped, taskVars
  <2> QED
    BY <1>0, <2>1, <2>2, KeptAll
<1>2. CASE ~(Drop(e) \/ AcceptFails)
  <2>1. UNCHANGED <<tracked, task, reader, writer>>
    BY <1>2 DEF Accept, LinkFails, vars, Forward, MuxCancelled, MuxFails, Link, Deliver, LinkEnds,
                Cancel, muxVars, taskVars, Backpressure, DataCount, DataSwap, TrySendPause
  <2> QED
    BY <2>1, KeptAll
<1> QED
  BY <1>1, <1>2

\* No task of a stream runs again when it has ended, nothing more is written then, and
\* no late message, and no Connect, makes the tracker track again what it has forgotten.
THEOREM EndedStays == Spec => StaysEnded
<1>1. ASSUME MuxInv, [Next]_vars PROVE \A d \in Ends, r \in Streams : Kept(d, r)
  <2>0. "client" \in Ends
    BY DEF Ends
  <2>1. CASE Accept \/ AcceptFails \/ LinkFails \/ UNCHANGED vars
    BY <1>1, <2>0, <2>1, OtherKept
  <2>2. ASSUME NEW e \in Ends, Run(e) \/ Link(e) \/ Cancel(e)
        PROVE  \A d \in Ends, r \in Streams : Kept(d, r)
    BY <1>1, <2>2, ReceiveKept, SendsKept, OtherKept DEF Run
  <2>3. ASSUME NEW e \in Ends, NEW s \in Streams,
               \/ ReadTask(e, s) \/ WriteTask(e, s) \/ StreamTask(e, s)
               \/ Connects(e, s) \/ Sockets(e, s) \/ WriteDone(e, s)
        PROVE  \A d \in Ends, r \in Streams : Kept(d, r)
    BY <1>1, <2>3, TaskStep, LocalKept
  <2> QED
    BY <1>1, <2>1, <2>2, <2>3 DEF Next
<1>2. MuxInv /\ [Next]_vars =>
        [\A e \in Ends, s \in Streams :
            /\ task[e][s].pc = "ended" => task'[e][s].pc = "ended"
            /\ reader[e][s].pc = "ended" => reader'[e][s].pc = "ended"
            /\ writer[e][s].pc = "ended" =>
                  writer'[e][s].pc = "ended" /\ writer'[e][s].written = writer[e][s].written
            /\ s \in tracked'[e] => s \in tracked[e] \/ task[e][s].pc = "none"]_vars
  BY <1>1 DEF Kept
<1> QED
  BY <1>2, MuxInvariance, PTL DEF Spec, StaysEnded
-----------------------------------------------------------------------------
(* The multiplexers implement the pipes.                                   *)

\* What a step may make of an end e of a stream, from p to q, where the client's half
\* is in phase first and the other end has taken n messages.
Goes(p, q, from, to) ==
    /\ p.input = from /\ p.output = from
    /\ q = [p EXCEPT !.input = to, !.output = to]

EndMoves(e, p, q, first, n) ==
    \/ e = "client" /\ Goes(p, q, "none", "open")
    \/ e = "server" /\ first # "none" /\ Goes(p, q, "none", "opening")
    \/ Goes(p, q, "opening", "open") \/ Goes(p, q, "opening", "ended")
    \/ p.input = "open" /\ q = [p EXCEPT !.taken = @ + 1]
    \/ p.output = "open" /\ Len(p.given) < n /\ q = [p EXCEPT !.given = Append(@, Len(@) + 1)]
    \/ p.input = "open" /\ q = [p EXCEPT !.input = "ended"]
    \/ p.output = "open" /\ q = [p EXCEPT !.output = "ended"]

Observed(e, s) ==
    \/ EndOf(e, s)' = EndOf(e, s)
    \/ EndMoves(e, EndOf(e, s), EndOf(e, s)', EndOf("client", s).input, EndOf(Peer(e), s).taken)

LEMMA ViewSame ==
    ASSUME \A d \in Ends, r \in Streams : EndOf(d, r)' = EndOf(d, r) PROVE View' = View
BY DEF View

\* A step that changes one end of one stream at most is a step of the pipes, or no
\* socket sees it.
LEMMA ViewMoves ==
    ASSUME NEW e \in Ends, NEW s \in Streams, Observed(e, s),
           \A d \in Ends, r \in Streams : d # e \/ r # s => SameStream(d, r)
    PROVE  [Pipes!Next]_View
<1>1. ASSUME NEW d \in Ends, NEW r \in Streams, d # e \/ r # s PROVE EndOf(d, r)' = EndOf(d, r)
  BY <1>1 DEF SameStream, EndOf
<1>2. CASE EndOf(e, s)' = EndOf(e, s)
  <2>1. \A d \in Ends, r \in Streams : EndOf(d, r)' = EndOf(d, r)
    BY <1>1, <1>2
  <2> QED
    BY <2>1, ViewSame
<1>3. CASE EndOf(e, s)' # EndOf(e, s)
  <2>1. /\ \A d \in Ends, r \in Streams : View[d][r] = EndOf(d, r) /\ View'[d][r] = EndOf(d, r)'
        /\ "client" \in Ends /\ Peer(e) \in Ends
    BY DEF View, Ends, Peer
  <2>2. View' = [View EXCEPT ![e][s] = View'[e][s]]
    <3> DEFINE f == [View EXCEPT ![e][s] = View'[e][s]]
    <3>1. /\ View' = [d \in Ends |-> View'[d]] /\ f = [d \in Ends |-> f[d]]
          /\ \A d \in Ends : /\ View'[d] = [r \in Streams |-> View'[d][r]]
                             /\ f[d] = [r \in Streams |-> f[d][r]]
      BY DEF View
    <3>2. \A d \in Ends, r \in Streams : f[d][r] = IF d = e /\ r = s THEN View'[e][s] ELSE View[d][r]
      BY DEF View
    <3>3. \A d \in Ends, r \in Streams : f[d][r] = View'[d][r]
      BY <1>1, <2>1, <3>2
    <3> HIDE DEF f
    <3>4. \A d \in Ends : f[d] = View'[d]
      BY <3>1, <3>3
    <3> QED
      BY <3>1, <3>4 DEF f
  <2> DEFINE p == View[e][s]
             q == View'[e][s]
  <2>3. /\ q # p /\ e \in Pipes!Ends
        /\ EndMoves(e, p, q, View["client"][s].input, View[Pipes!Peer(e)][s].taken)
    <3>1. Pipes!Peer(e) = Peer(e) /\ Pipes!Ends = Ends
      BY DEF Pipes!Peer, Peer, Pipes!Ends, Ends
    <3> QED
      BY <1>3, <2>1, <3>1, Zenon DEF Observed
  <2>4. \/ Pipes!Accept(e, s) \/ Pipes!Ask(e, s) \/ Pipes!Connect(e, s) \/ Pipes!GiveUp(e, s)
        \/ Pipes!Take(e, s) \/ Pipes!Give(e, s) \/ Pipes!EndInput(e, s) \/ Pipes!EndOutput(e, s)
    BY <2>3, Zenon DEF EndMoves, Goes, Pipes!Goes, Pipes!Accept, Pipes!Ask, Pipes!Connect, Pipes!GiveUp,
                 Pipes!Take, Pipes!Give, Pipes!EndInput, Pipes!EndOutput
  <2> QED
    BY <2>2, <2>3, <2>4, Zenon DEF Pipes!Next
<1> QED
  BY <1>2, <1>3

\* What is seen of an end, in both states, by its fields.
LEMMA Sees ==
    ASSUME NEW e \in Ends, NEW s \in Streams
    PROVE  LET p == EndOf(e, s)
               q == EndOf(e, s)'
               i == PhaseOf(task'[e][s].pc, reader'[e][s].pc)
               o == PhaseOf(task'[e][s].pc, writer'[e][s].pc)
               n == reader'[e][s].n
               w == writer'[e][s].written
           IN
           /\ p.input = i /\ p.output = o /\ p.taken = n /\ p.given = w => q = p
           /\ p.output = o /\ p.taken = n /\ p.given = w => q = [p EXCEPT !.input = i]
           /\ p.input = i /\ p.taken = n /\ p.given = w => q = [p EXCEPT !.output = o]
           /\ p.input = i /\ p.output = o /\ p.given = w /\ n = p.taken + 1 =>
                 q = [p EXCEPT !.taken = @ + 1]
           /\ p.input = i /\ p.output = o /\ p.taken = n /\ w = Append(p.given, Len(p.given) + 1) =>
                 q = [p EXCEPT !.given = Append(@, Len(@) + 1)]
           /\ i = o /\ p.taken = n /\ p.given = w => q = [p EXCEPT !.input = i, !.output = i]
<1> DEFINE p == EndOf(e, s)
           q == EndOf(e, s)'
           i == PhaseOf(task'[e][s].pc, reader'[e][s].pc)
           o == PhaseOf(task'[e][s].pc, writer'[e][s].pc)
           n == reader'[e][s].n
           w == writer'[e][s].written
<1>1. /\ p = [input |-> p.input, output |-> p.output, taken |-> p.taken, given |-> p.given]
      /\ q = [input |-> i, output |-> o, taken |-> n, given |-> w]
  BY DEF EndOf
<1> HIDE DEF p, q, i, o, n, w
<1> SUFFICES
      /\ p.input = i /\ p.output = o /\ p.taken = n /\ p.given = w => q = p
      /\ p.output = o /\ p.taken = n /\ p.given = w => q = [p EXCEPT !.input = i]
      /\ p.input = i /\ p.taken = n /\ p.given = w => q = [p EXCEPT !.output = o]
      /\ p.input = i /\ p.output = o /\ p.given = w /\ n = p.taken + 1 =>
            q = [p EXCEPT !.taken = @ + 1]
      /\ p.input = i /\ p.output = o /\ p.taken = n /\ w = Append(p.given, Len(p.given) + 1) =>
            q = [p EXCEPT !.given = Append(@, Len(@) + 1)]
      /\ i = o /\ p.taken = n /\ p.given = w => q = [p EXCEPT !.input = i, !.output = i]
  BY DEF p, q, i, o, n, w
<1>2. /\ [p EXCEPT !.input = i] =
           [input |-> i, output |-> p.output, taken |-> p.taken, given |-> p.given]
      /\ [p EXCEPT !.output = o] =
           [input |-> p.input, output |-> o, taken |-> p.taken, given |-> p.given]
      /\ [p EXCEPT !.taken = @ + 1] =
           [input |-> p.input, output |-> p.output, taken |-> p.taken + 1, given |-> p.given]
  BY <1>1
<1>3. [p EXCEPT !.given = Append(@, Len(@) + 1)] =
        [input |-> p.input, output |-> p.output, taken |-> p.taken,
         given |-> Append(p.given, Len(p.given) + 1)]
  BY <1>1
<1>4. [p EXCEPT !.input = i, !.output = i] =
        [input |-> i, output |-> i, taken |-> p.taken, given |-> p.given]
  <2> DEFINE a == p.input
             b == p.output
             c == p.taken
             d == p.given
  <2>1. p = [input |-> a, output |-> b, taken |-> c, given |-> d]
    BY <1>1
  <2> HIDE DEF a, b, c, d
  <2>2. [[input |-> a, output |-> b, taken |-> c, given |-> d] EXCEPT !.input = i, !.output = i] =
          [input |-> i, output |-> i, taken |-> c, given |-> d]
    <3> DEFINE f == [input |-> a, output |-> b, taken |-> c, given |-> d]
               r == [input |-> i, output |-> b, taken |-> c, given |-> d]
    <3>1. [f EXCEPT !.input = i] = r
      OBVIOUS
    <3>2. [f EXCEPT !.input = i, !.output = i] = [[f EXCEPT !.input = i] EXCEPT !.output = i]
      OBVIOUS
    <3>3. [r EXCEPT !.output = i] = [input |-> i, output |-> i, taken |-> c, given |-> d]
      OBVIOUS
    <3> QED
      BY <3>1, <3>2, <3>3
  <2> QED
    BY <2>1, <2>2, Zenon DEF c, d
<1> QED
  BY <1>1, <1>2, <1>3, <1>4

\* A read task takes what it reads, and ends.
LEMMA ReadObserved ==
    ASSUME MuxInv, NEW e \in Ends, NEW s \in Streams,
           ReadTask(e, s) \/ ReadData(e, s) \/ ReadEnds(e, s)
    PROVE  Observed(e, s)
<1> DEFINE p == EndOf(e, s)
           q == EndOf(e, s)'
           i == PhaseOf(task'[e][s].pc, reader'[e][s].pc)
<1>0. TypeOK /\ TaskInv(e, s)
  BY AllCounts DEF MuxInv
<1>1. UNCHANGED <<task, writer>>
  BY <1>0, ReadTypes
<1>2. /\ p.output = PhaseOf(task'[e][s].pc, writer'[e][s].pc) /\ p.given = writer'[e][s].written
      /\ p.taken = reader[e][s].n /\ p.input = PhaseOf(task[e][s].pc, reader[e][s].pc)
  BY <1>1 DEF EndOf
<1>3. /\ reader[e][s].pc \in {"reading", "paused", "sending"} /\ task[e][s].pc \notin {"none", "connecting"}
      /\ \/ reader'[e][s].n = reader[e][s].n /\ reader'[e][s].pc # "none"
         \/ reader'[e][s].n = reader[e][s].n + 1 /\ reader'[e][s].pc = "sending"
  BY <1>0, ReadTypes DEF TaskInv
<1>4. p.input = "open" /\ i \in {"open", "ended"}
  BY <1>1, <1>2, <1>3 DEF PhaseOf
<1>5. CASE reader'[e][s].n = reader[e][s].n
  <2>1. q = p \/ q = [p EXCEPT !.input = "ended"]
    BY <1>2, <1>4, <1>5, Sees
  <2> QED
    BY <1>4, <2>1 DEF Observed, EndMoves
<1>6. CASE reader'[e][s].n = reader[e][s].n + 1 /\ reader'[e][s].pc = "sending"
  <2>1. i = "open"
    BY <1>1, <1>3, <1>6 DEF PhaseOf
  <2>2. q = [p EXCEPT !.taken = @ + 1]
    BY <1>2, <1>4, <1>6, <2>1, Sees
  <2> QED
    BY <1>4, <2>2 DEF Observed, EndMoves
<1> QED
  BY <1>3, <1>5, <1>6

\* What a write task writes is the next message that the other end took.
LEMMA WriteObserved ==
    ASSUME MuxInv, NEW e \in Ends, NEW s \in Streams,
           WriteTask(e, s) \/ WriteDone(e, s) \/ WriteFails(e, s)
    PROVE  Observed(e, s)
<1> DEFINE p == EndOf(e, s)
           q == EndOf(e, s)'
           w == writer[e][s]
           v == writer'[e][s]
           o == PhaseOf(task'[e][s].pc, v.pc)
<1>0. TypeOK /\ TaskInv(e, s) /\ Orderly(w) /\ RecordTypes
  BY AllCounts DEF MuxInv
<1>1. /\ UNCHANGED <<task, reader>>
      /\ w.pc \in {"recv", "writing", "swap", "resume"} /\ v.pc \in {"recv", "writing", "swap", "resume", "ended"}
      /\ \/ v.written = w.written
         \/ w.queue # <<>> /\ v.written = Append(w.written, Head(w.queue)) /\ v.pc # "ended"
  BY <1>0, WriteTypes
<1>2. /\ p.input = PhaseOf(task'[e][s].pc, reader'[e][s].pc) /\ p.taken = reader'[e][s].n
      /\ p.given = w.written /\ p.output = PhaseOf(task[e][s].pc, w.pc)
  BY <1>1 DEF EndOf
<1>3. task[e][s].pc \notin {"none", "connecting"}
  BY <1>0, <1>1 DEF TaskInv
<1>4. p.output = "open" /\ o \in {"open", "ended"} /\ (v.pc # "ended" => o = "open")
  BY <1>1, <1>2, <1>3 DEF PhaseOf
<1>5. CASE v.written = w.written
  <2>1. q = p \/ q = [p EXCEPT !.output = "ended"]
    BY <1>2, <1>4, <1>5, Sees
  <2> QED
    BY <1>4, <2>1 DEF Observed, EndMoves
<1>6. CASE w.queue # <<>> /\ v.written = Append(w.written, Head(w.queue)) /\ v.pc # "ended"
  <2>1. w.queue \in Seq(Nat) /\ w.written \in Seq(Nat)
    BY <1>0 DEF RecordTypes, WriterType
  <2>2. Head(w.queue) = Len(w.written) + 1
    BY <1>0, <1>6, <2>1 DEF Orderly, Counted
  <2>3. q = [p EXCEPT !.given = Append(@, Len(@) + 1)]
    BY <1>2, <1>4, <1>6, <2>2, Sees
  <2>4. Len(w.written) < EndOf(Peer(e), s).taken
    <3>1. Peer(e) \in Ends /\ Peer(Peer(e)) = e
      BY PeerProperties
    <3>2. Given(e, s) <= Sent(Peer(e), s) /\ Sent(Peer(e), s) \in Nat
      BY <3>1, AllCounts DEF Flow
    <3>3. reader[Peer(e)][s] \in ReaderType
      BY <1>0, <3>1 DEF RecordTypes
    <3>4. Sent(Peer(e), s) <= reader[Peer(e)][s].n
      BY <3>3 DEF Sent, ReaderType
    <3>5. Len(w.written) < Given(e, s)
      <4>1. Len(w.queue) > 0 /\ Len(w.queue) \in Nat /\ Len(w.written) \in Nat
        BY <1>6, <2>1
      <4>2. \A i, j \in Nat : j > 0 => i < i + j
        OBVIOUS
      <4> QED
        BY <4>1, <4>2, Zenon DEF Given
    <3>6. Given(e, s) \in Nat /\ Len(w.written) \in Nat /\ reader[Peer(e)][s].n \in Nat
      BY <2>1, <3>3, AllCounts DEF ReaderType
    <3>7. Len(w.written) < reader[Peer(e)][s].n
      BY <3>2, <3>4, <3>5, <3>6
    <3> QED
      BY <3>7 DEF EndOf
  <2> QED
    BY <1>2, <1>4, <2>3, <2>4 DEF Observed, EndMoves
<1> QED
  BY <1>1, <1>5, <1>6

\* The phase of a half, from the two records.
LEMMA Phases ==
    ASSUME NEW t, NEW pc
    PROVE  /\ t = "none" <=> PhaseOf(t, pc) = "none"
           /\ t = "connecting" => PhaseOf(t, pc) = "opening"
           /\ t \notin {"none", "connecting"} =>
                 PhaseOf(t, pc) = IF pc \in {"none", "ended"} THEN "ended" ELSE "open"
BY DEF PhaseOf

\* Both halves of an end go on together, and nothing is taken or given.
LEMMA BothObserved ==
    ASSUME NEW e \in Ends, NEW s \in Streams, NEW from, NEW to,
           /\ PhaseOf(task[e][s].pc, reader[e][s].pc) = from
           /\ PhaseOf(task[e][s].pc, writer[e][s].pc) = from
           /\ PhaseOf(task'[e][s].pc, reader'[e][s].pc) = to
           /\ PhaseOf(task'[e][s].pc, writer'[e][s].pc) = to
           /\ reader'[e][s].n = reader[e][s].n /\ writer'[e][s].written = writer[e][s].written
    PROVE  Goes(EndOf(e, s), EndOf(e, s)', from, to)
<1>1. /\ EndOf(e, s).input = from /\ EndOf(e, s).output = from
      /\ EndOf(e, s).taken = reader'[e][s].n /\ EndOf(e, s).given = writer'[e][s].written
  BY DEF EndOf
<1> DEFINE p == EndOf(e, s)
           q == EndOf(e, s)'
           i == PhaseOf(task'[e][s].pc, reader'[e][s].pc)
           o == PhaseOf(task'[e][s].pc, writer'[e][s].pc)
<1>2. i = o /\ p.taken = reader'[e][s].n /\ p.given = writer'[e][s].written =>
         q = [p EXCEPT !.input = i, !.output = i]
  BY Sees
<1>3. i = to /\ o = to
  OBVIOUS
<1> HIDE DEF p, q, i, o
<1>4. q = [p EXCEPT !.input = to, !.output = to]
  BY <1>1, <1>2, <1>3 DEF p
<1> QED
  BY <1>1, <1>4 DEF Goes, p, q

\* No socket sees a step of a stream that is past connecting and whose halves stay.
LEMMA StaysObserved ==
    ASSUME NEW e \in Ends, NEW s \in Streams,
           task[e][s].pc \notin {"none", "connecting"}, task'[e][s].pc \notin {"none", "connecting"},
           reader'[e][s].pc = reader[e][s].pc, reader'[e][s].n = reader[e][s].n,
           writer'[e][s].pc = writer[e][s].pc, writer'[e][s].written = writer[e][s].written
    PROVE  Observed(e, s)
BY Phases DEF Observed, EndOf

\* A stream's task gives up when it cannot connect, and ends unseen when it has run.
LEMMA TaskObserved ==
    ASSUME MuxInv, NEW e \in Ends, NEW s \in Streams, StreamTask(e, s) \/ TaskConnectFails(e, s)
    PROVE  Observed(e, s)
<1>0. TypeOK /\ TaskInv(e, s)
  BY AllCounts DEF MuxInv
<1> DEFINE t == task[e][s].pc
           u == task'[e][s].pc
<1>1. /\ writer'[e][s].written = writer[e][s].written /\ writer'[e][s].pc = writer[e][s].pc
      /\ UNCHANGED reader
      /\ \/ t = "connecting" /\ u = "ending"
         \/ t \in {"running", "ending", "waiting"} /\ u \in {"ending", "waiting", "ended"}
  BY <1>0, TaskTypes
<1>2. CASE t = "connecting" /\ u = "ending"
  <2>1. reader[e][s].pc = "none" /\ writer[e][s].pc = "none"
    BY <1>0, <1>2 DEF TaskInv
  <2>2. Goes(EndOf(e, s), EndOf(e, s)', "opening", "ended")
    BY <1>1, <1>2, <2>1, Phases, BothObserved
  <2> QED
    BY <2>2 DEF Observed, EndMoves
<1>3. CASE t \in {"running", "ending", "waiting"} /\ u \in {"ending", "waiting", "ended"}
  BY <1>1, <1>3, StaysObserved
<1> QED
  BY <1>1, <1>2, <1>3

\* The tasks that run_internal_stream spawns open the stream.
LEMMA RunObserved ==
    ASSUME MuxInv, NEW e \in Ends, NEW s \in Streams, RunStream(e, s),
           task[e][s].pc = "connecting" \/ (e = "client" /\ task[e][s].pc = "none")
    PROVE  Observed(e, s)
<1>0. TypeOK /\ TaskInv(e, s)
  BY AllCounts DEF MuxInv
<1>1. /\ task'[e][s].pc = "running" /\ reader'[e][s].pc = "reading" /\ writer'[e][s].pc = "recv"
      /\ reader'[e][s].n = reader[e][s].n /\ writer'[e][s].written = writer[e][s].written
  BY <1>0, RunTypes
<1>2. PICK from : /\ from = "opening" \/ (e = "client" /\ from = "none")
                  /\ PhaseOf(task[e][s].pc, reader[e][s].pc) = from
                  /\ PhaseOf(task[e][s].pc, writer[e][s].pc) = from
  BY Phases
<1>3. Goes(EndOf(e, s), EndOf(e, s)', from, "open")
  BY <1>1, <1>2, Phases, BothObserved
<1> QED
  BY <1>2, <1>3 DEF Observed, EndMoves

\* A stream is opened at the client when its Connect is sent, and its opening begins at
\* the server with the Connect of a stream that the client has.
LEMMA NewStreamObserved ==
    ASSUME MuxInv, NEW e \in Ends, NEW s \in Streams, task[e][s].pc = "none", NewStream(e, s),
           e = "server" => task["client"][s].pc # "none"
    PROVE  Observed(e, s)
<1>0. RecordTypes
  BY AllCounts
<1>1. CASE e = "client"
  BY <1>1, RunObserved DEF NewStream
<1>2. CASE e = "server"
  <2>1. task' = [task EXCEPT ![e][s].pc = "connecting"] /\ UNCHANGED <<reader, writer>>
    BY <1>2 DEF NewStream
  <2>2. task'[e][s].pc = "connecting"
    BY <1>0, <2>1 DEF RecordTypes, TaskType
  <2>3. Goes(EndOf(e, s), EndOf(e, s)', "none", "opening")
    BY <2>1, <2>2, Phases, BothObserved
  <2>4. EndOf("client", s).input # "none"
    BY <1>2, Phases DEF EndOf
  <2> QED
    BY <1>2, <2>3, <2>4 DEF Observed, EndMoves
<1> QED
  BY <1>1, <1>2 DEF Ends

\* A task that is aborted gives up connecting; the halves of a stream end by themselves.
LEMMA RemoveObserved ==
    ASSUME MuxInv, NEW e \in Ends, NEW s \in Streams, Remove(e, s), UNCHANGED reader
    PROVE  Observed(e, s)
<1> DEFINE t == task[e][s]
           w == writer[e][s]
<1>0. RecordTypes /\ TaskInv(e, s)
  BY AllCounts
<1>1. CASE s \in tracked[e] /\ t.pc \in {"connecting", "running", "waiting"}
  <2>1. /\ writer' = [writer EXCEPT ![e][s] = Emptied(w)]
        /\ task' = [task EXCEPT ![e][s] = [pc |-> "ended", done |-> @.done \/ @.pc = "running"]]
    BY <1>0, <1>1 DEF Remove, RecordTypes, Emptied
  <2>2. w \in WriterType
    BY <1>0 DEF RecordTypes
  <2>3. writer'[e][s] = Emptied(w) /\ task'[e][s].pc = "ended"
    BY <1>0, <2>1 DEF RecordTypes
  <2>4. writer'[e][s].pc = w.pc /\ writer'[e][s].written = w.written
    BY <2>2, <2>3, EmptiedFields
  <2>5. CASE t.pc = "connecting"
    <3>1. reader[e][s].pc = "none" /\ w.pc = "none"
      BY <1>0, <2>5 DEF TaskInv
    <3>2. Goes(EndOf(e, s), EndOf(e, s)', "opening", "ended")
      BY <2>3, <2>4, <2>5, <3>1, Phases, BothObserved
    <3> QED
      BY <3>2 DEF Observed, EndMoves
  <2>6. CASE t.pc # "connecting"
    BY <1>1, <2>3, <2>4, <2>6, StaysObserved
  <2> QED
    BY <2>5, <2>6
<1>2. CASE ~(s \in tracked[e] /\ t.pc \in {"connecting", "running", "waiting"})
  <2>1. UNCHANGED <<task, writer>>
    BY <1>2 DEF Remove
  <2> QED
    BY <2>1 DEF Observed, EndOf
<1> QED
  BY <1>1, <1>2

\* What a run loop receives may start a stream, or abort a task that connects.
LEMMA ReceiveObserved ==
    ASSUME MuxInv, NEW e \in Ends, Receive(e)
    PROVE  \E s \in Streams : /\ Observed(e, s)
                              /\ \A d \in Ends, r \in Streams : d # e \/ r # s => SameStream(d, r)
<1> PICK m : m = Head(rx[e])
  OBVIOUS
<1> DEFINE s == m.s
<1>0. Taking(e, m)
  BY ReceiveTakes
<1>1. /\ \A d \in Ends, r \in Streams : d # e \/ r # s => SameStream(d, r)
      /\ rx[e] # <<>> /\ mux[e] = "select"
  BY <1>0 DEF Taking, SameAt
<1>2. /\ s \in Streams /\ RecordTypes /\ (m.type = "Connect" <=> s \notin Known(e))
  BY <1>1, FirstIs, TypesByPart DEF MuxInv
<1> HIDE DEF s
<1> SUFFICES Observed(e, s)
  BY <1>1, <1>2
<1>3. CASE e = "server" /\ GotConnect
  <2>1. m.type = "Connect" /\ (s \notin tracked[e] => NewStream(e, s))
    BY <1>3 DEF GotConnect, Takes, s
  <2>2. task[e][s].pc = "none" /\ NewStream(e, s)
    BY <1>2, <2>1, AllCounts DEF Known, TaskInv
  <2>3. s \in Known("client")
    <3>1. /\ ChanTypes /\ Introduced /\ "client" \in Ends /\ Peer("client") = "server"
      BY AllCounts, <1>2 DEF MuxInv, Ends, Peer
    <3>2. /\ rx["server"] \in Seq(ChannelMessage) /\ into["client"] \in Seq(ChannelMessage)
          /\ Way("client") = rx["server"] \o into["client"] /\ rx["server"] # <<>>
      BY <1>1, <1>3, <3>1 DEF ChanTypes, Way, Ends
    <3>3. 1 \in 1 .. Len(Way("client")) /\ Way("client")[1] = m
      <4>1. /\ Way("client") \in Seq(ChannelMessage) /\ Way("client") # <<>>
            /\ Head(Way("client")) = m
        BY <1>1, <1>3, <3>1, HeadOfWay DEF Ends, Peer
      <4> QED
        BY <4>1
    <3>4. s \in Named(Way("client"))
      BY <3>3 DEF Named, s
    <3> QED
      BY <3>1, <3>4 DEF Introduced
  <2> QED
    BY <1>2, <2>1, <2>2, <2>3, NewStreamObserved DEF Known
<1>4. CASE GotDisconnect(e) \/ GotDataRefused(e)
  <2>1. Remove(e, s) /\ UNCHANGED reader
    BY <1>4 DEF GotDisconnect, GotDataRefused, s
  <2> QED
    BY <1>2, <2>1, RemoveObserved
<1>5. CASE GotPause(e) \/ GotResume(e)
  <2>1. PICK b : reader' = [reader EXCEPT ![e][s].paused = b]
    BY <1>5 DEF GotPause, GotResume, s
  <2>2. UNCHANGED <<task, writer>>
    BY <1>5 DEF GotPause, GotResume
  <2>3. reader'[e][s].pc = reader[e][s].pc /\ reader'[e][s].n = reader[e][s].n
    BY <1>2, <2>1 DEF RecordTypes, ReaderType
  <2> QED
    BY <2>2, <2>3 DEF Observed, EndOf
<1>6. CASE GotDataUnknown(e)
  BY <1>6 DEF GotDataUnknown, taskVars, Observed, EndOf
<1>7. CASE GotData(e)
  <2>1. UNCHANGED <<task, reader>>
    BY <1>7 DEF GotData
  <2>2. PICK q : writer' = [writer EXCEPT ![e][s].queue = q]
    BY <1>7 DEF GotData, s
  <2>3. writer'[e][s].pc = writer[e][s].pc /\ writer'[e][s].written = writer[e][s].written
    BY <1>2, <2>2 DEF RecordTypes, WriterType
  <2> QED
    BY <2>1, <2>3 DEF Observed, EndOf
<1> QED
  BY <1>3, <1>4, <1>5, <1>6, <1>7 DEF Receive

\* A run loop opens the stream whose Connect it has sent.
LEMMA SendsObserved ==
    ASSUME MuxInv, NEW e \in Ends, MuxSends(e)
    PROVE  [Pipes!Next]_View
<1> DEFINE m == held[e]
<1>1. /\ m.s \in Streams
      /\ m.type = "Connect" => e = "client" /\ m.s \notin Known("client")
  BY SendsEffect
<1>2. CASE m.type = "Connect"
  <2>1. NewStream(e, m.s) /\ task[e][m.s].pc = "none" /\ e = "client"
    BY <1>1, <1>2 DEF MuxSends, Known
  <2>2. Observed(e, m.s)
    BY <1>1, <2>1, NewStreamObserved
  <2>3. \A d \in Ends, r \in Streams : d # e \/ r # m.s => SameStream(d, r)
    BY <1>1, <2>1, AllCounts, NewStreamEffect DEF MuxInv, SameAt
  <2> QED
    BY <1>1, <2>2, <2>3, ViewMoves
<1>3. CASE m.type # "Connect"
  <2>1. UNCHANGED taskVars
    BY <1>3 DEF MuxSends
  <2> QED
    BY <2>1 DEF taskVars, View, EndOf
<1> QED
  BY <1>2, <1>3

\* A step of a stream's own tasks is seen at that stream only.
LEMMA LocalObserved ==
    ASSUME MuxInv, NEW e \in Ends, NEW s \in Streams,
           \/ ReadTask(e, s) \/ WriteTask(e, s) \/ StreamTask(e, s)
           \/ Connects(e, s) \/ Sockets(e, s) \/ WriteDone(e, s)
    PROVE  [Pipes!Next]_View
<1>1. \A d \in Ends, r \in Streams : d # e \/ r # s => SameStream(d, r)
  BY TaskStep DEF LocalStep
<1>2. TaskConnects(e, s) => Observed(e, s)
  BY RunObserved DEF TaskConnects
<1>3. Observed(e, s)
  BY <1>2, ReadObserved, WriteObserved, TaskObserved DEF Sockets, Connects
<1> QED
  BY <1>1, <1>3, ViewMoves

\* No socket sees any other step.
LEMMA OtherObserved ==
    ASSUME NEW e \in Ends,
           \/ Accept \/ AcceptFails \/ LinkFails \/ UNCHANGED vars
           \/ Backpressure(e) \/ Forward(e) \/ MuxCancelled(e) \/ MuxFails(e) \/ Drop(e) \/ Link(e) \/ Cancel(e)
    PROVE  View' = View
<1>1. UNCHANGED <<task, reader, writer>>
  BY DEF Accept, AcceptFails, LinkFails, vars, Forward, MuxCancelled, MuxFails, Drop, Dropped,
         Link, Deliver, LinkEnds, Cancel, taskVars, Backpressure, DataCount, DataSwap, TrySendPause
<1> QED
  BY <1>1 DEF View, EndOf

\* Each stream is opened once at the server, and only when the client has it, and is a
\* pipe in each direction from then on; nothing else that the multiplexers do is seen.
THEOREM PipesImplemented == Spec => PipesSpec
<1>1. ASSUME Init PROVE Pipes!Init
  <2>1. \A e \in Ends, s \in Streams :
          EndOf(e, s) = [input |-> "none", output |-> "none", taken |-> 0, given |-> <<>>]
    BY <1>1 DEF Init, PerStream, EndOf, PhaseOf
  <2> QED
    BY <2>1 DEF View, Pipes!Init, Pipes!Ends, Ends
<1>2. ASSUME MuxInv, [Next]_vars PROVE [Pipes!Next]_View
  <2>0. "client" \in Ends
    BY DEF Ends
  <2>1. CASE Accept \/ AcceptFails \/ LinkFails \/ UNCHANGED vars
    BY <2>0, <2>1, OtherObserved
  <2>2. ASSUME NEW e \in Ends, Run(e) \/ Link(e) \/ Cancel(e) PROVE [Pipes!Next]_View
    <3>1. CASE Receive(e)
      BY <1>2, <3>1, ReceiveObserved, ViewMoves
    <3>2. CASE MuxSends(e)
      BY <1>2, <3>2, SendsObserved
    <3>3. CASE Backpressure(e) \/ Forward(e) \/ MuxCancelled(e) \/ MuxFails(e) \/ Drop(e) \/ Link(e) \/ Cancel(e)
      BY <3>3, OtherObserved
    <3> QED
      BY <2>2, <3>1, <3>2, <3>3 DEF Run
  <2>3. ASSUME NEW e \in Ends, NEW s \in Streams,
               \/ ReadTask(e, s) \/ WriteTask(e, s) \/ StreamTask(e, s)
               \/ Connects(e, s) \/ Sockets(e, s) \/ WriteDone(e, s)
        PROVE  [Pipes!Next]_View
    BY <1>2, <2>3, LocalObserved
  <2> QED
    BY <1>2, <2>1, <2>2, <2>3 DEF Next
<1> QED
  BY <1>1, <1>2, MuxInvariance, PTL DEF Spec, PipesSpec, Pipes!Spec
=============================================================================
