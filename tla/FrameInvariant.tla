---------------------------- MODULE FrameInvariant ----------------------------
(***************************************************************************)
(* The inductive invariant of FrameCodec: what the bytes under way, and    *)
(* those in the buffers, consist of.  DecodedIsGiven, NothingHeldBack and  *)
(* NeverFails follow from it.                                              *)
(***************************************************************************)
EXTENDS FrameCodec

\* What the messages of each layer start with.
StreamTypes == {"Hello", "Ack", "StreamData"}
FrameTypes == {"Control", "Data", "Error"}

\* The places in q where a message of the layer starts.
Heads(q, types) == {p \in 1 .. Len(q) : q[p].type \in types /\ q[p].at = 1}

\* x lies in q from place p on, and after it q ends or the next message starts.
Lies(q, types, p, x) ==
    /\ p + Len(x) \in Heads(q, types) \cup {Len(q) + 1}
    /\ \A k \in 1 .. Len(x) : q[p + k - 1] = x[k]

\* q consists of body[lo + 1] .. body[hi], each once and in order, with some of the
\* others before, between and after them.
Consists(q, types, others, body, lo, hi) ==
    /\ q # <<>> => 1 \in Heads(q, types)
    /\ \E place \in [lo + 1 .. hi -> Heads(q, types)] :
          /\ \A i, j \in lo + 1 .. hi : i < j => place[i] < place[j]
          /\ \A n \in lo + 1 .. hi : Lies(q, types, place[n], body[n])
          /\ \A p \in Heads(q, types) :
                \/ \E n \in lo + 1 .. hi : place[n] = p
                \/ \E x \in others : Lies(q, types, p, x)

-----------------------------------------------------------------------------

\* The frames of the messages given, and the Data messages that carry them.
Frames(ms) == [n \in 1 .. Len(ms) |-> Frame(ms[n])]
Datas(ms) == [n \in 1 .. Len(ms) |-> Data(Frame(ms[n]))]

\* The messages written and not received are in FramedRead's buffer or under way,
\* cut wherever it may be.
UnderWay == Consists(buf \o wire, StreamTypes, {Hello, Ack}, Datas(given), received, written)

\* What was received and not decoded is in the other parser's buffer, frame by frame.
Buffered == Consists(buffer, FrameTypes, {}, Frames(given), Len(decoded), received)

\* What came out is what the encoder made of what was given.
DecodedSeen == \A k \in 1 .. Len(decoded) : decoded[k] = Seen(given[k])

CodecInv ==
    /\ TypeOK /\ ~failed
    /\ Len(decoded) <= received /\ received <= written
    /\ DecodedSeen /\ UnderWay /\ Buffered
=============================================================================
