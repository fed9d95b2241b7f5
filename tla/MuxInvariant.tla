----------------------------- MODULE MuxInvariant -----------------------------
(***************************************************************************)
(* The inductive invariant of MuxStreams: where a stream's tasks are, what *)
(* the run loops hold, what is said of a stream before and after the other *)
(* end knows it, and where its data is on the way.  InOrder and            *)
(* ConnectedFirst follow from it.                                          *)
(***************************************************************************)
EXTENDS MuxStreams

\* A stream's tasks are spawned in order, and a reader that sends has read.
TaskInv(e, s) ==
    LET t == task[e][s].pc
        r == reader[e][s]
        w == writer[e][s]
    IN /\ t = "none" => s \notin tracked[e] /\ w.queue = <<>> /\ w.written = <<>>
       /\ t \in {"none", "connecting"} => r.pc = "none" /\ r.n = 0 /\ w.pc = "none"
       /\ t = "running" => w.pc # "none"
       /\ r.pc = "sending" => r.n > 0
       /\ w.pc = "writing" => w.queue # <<>>
TasksInv == \A e \in Ends, s \in Streams : TaskInv(e, s)

\* In the handler of a Data message.
Handling == {"count", "swap", "pause"}

\* A run loop that selects holds no message, one in that handler the PAUSE that it may
\* come to, and one that was dropped nothing at all.
LoopsInv ==
    \A e \in Ends :
        /\ mux[e] = "select" => held[e] = NoMsg
        /\ mux[e] \in Handling => held[e].type = "Pause"
        /\ mux[e] = "dropped" => /\ held[e] = NoMsg /\ tracked[e] = {}
                                 /\ from_stream[e] = <<>> /\ rx[e] = <<>>

-----------------------------------------------------------------------------
(* Introductions.                                                          *)

\* The streams that an end was told of.
Known(e) == {s \in Streams : task[e][s].pc # "none"}

\* What is between the multiplexers on the way from e.
Way(e) == rx[Peer(e)] \o into[e]

\* The streams that q speaks of.
Named(q) == {q[k].s : k \in 1 .. Len(q)}

\* Nothing in q is a Connect, and everything is about streams of K.
Talk(q, K) == \A k \in 1 .. Len(q) : q[k].type # "Connect" /\ q[k].s \in K

\* What q says first of a stream that is not of K is a Connect, and nothing else is.
Introduces(q, K) ==
    \A k \in 1 .. Len(q) :
        q[k].type = "Connect" <=> q[k].s \notin K \cup {q[j].s : j \in 1 .. k - 1}

Introduced ==
    /\ \A s \in Known("client") : s < next_id
    /\ Known("server") \cup Named(Way("client")) \subseteq Known("client")
    /\ mux["server"] # "dropped" =>
          /\ Known("client") \subseteq Known("server") \cup Named(Way("client"))
          /\ Introduces(Way("client"), Known("server"))
    /\ Talk(Way("server"), Known("client"))
    /\ \A e \in Ends :
          /\ Talk(from_stream[e], Known("client"))
          /\ held[e] # NoMsg =>
                IF held[e].type = "Connect"
                   THEN e = "client" /\ held[e].s < next_id /\ held[e].s \notin Known("client")
                   ELSE held[e].s \in Known("client")

-----------------------------------------------------------------------------
(* The data of a stream.                                                   *)

\* The Data of s in q are the messages lo + 1 .. hi, in order.
Carries(q, s, lo, hi) ==
    /\ \A k \in 1 .. Len(q) :
          q[k].type = "Data" /\ q[k].s = s => lo < q[k].n /\ q[k].n <= hi
    /\ \A n \in lo + 1 .. hi : \E k \in 1 .. Len(q) : q[k] = Data(s, n)
    /\ \A j, k \in 1 .. Len(q) :
          j < k /\ q[j].type = "Data" /\ q[j].s = s /\ q[k].type = "Data" /\ q[k].s = s
             => q[j].n < q[k].n

\* How many messages the read task has sent and the write task was given.
Sent(e, s) == reader[e][s].n - (IF reader[e][s].pc = "sending" THEN 1 ELSE 0)
Given(e, s) == Len(writer[e][s].written) + Len(writer[e][s].queue)

\* Data for s that reaches e goes to its write task, or will once e is told of s.
Accepts(e, s) ==
    /\ mux[e] # "dropped"
    /\ s \in Known(e) => s \in tracked[e] /\ Receiving(e, s)

\* What a run loop is about to send, come what may.
Holding(e) == IF held[e] = NoMsg \/ mux[e] \in Handling THEN <<>> ELSE <<held[e]>>

\* What was written, and what is to be, are the numbers from 1 on.
Counted(q, after) == \A k \in 1 .. Len(q) : q[k] = after + k
Orderly(w) == Counted(w.written, 0) /\ Counted(w.queue, Len(w.written))

\* The way and what is held carry the messages lo + 1 .. hi, in this order.
Underway(way, holding, s, lo, hi) ==
    \E a \in lo .. hi : Carries(way, s, lo, a) /\ Carries(holding, s, a, hi)

\* What the read task sent is at the write task, on the way, held by the run loop or
\* in its channel, in this order and nothing left out, unless the data of the stream
\* goes nowhere any more or the run loop that would send it is gone.
Flow(e, s) ==
    LET f == Peer(e) IN
    /\ Given(f, s) <= Sent(e, s)
    /\ Accepts(f, s) =>
          \E b \in Given(f, s) .. Sent(e, s) :
             /\ Underway(Way(e), Holding(e), s, Given(f, s), b)
             /\ mux[e] # "dropped" => Carries(from_stream[e], s, b, Sent(e, s))

Ordered == \A e \in Ends, s \in Streams : Orderly(writer[e][s]) /\ Flow(e, s)

-----------------------------------------------------------------------------

MuxInv == TypeOK /\ TasksInv /\ LoopsInv /\ Introduced /\ Ordered
=============================================================================
