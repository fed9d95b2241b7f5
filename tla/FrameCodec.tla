------------------------------ MODULE FrameCodec ------------------------------
(***************************************************************************)
(* The two codecs of a tunnel and the buffers around them, in one          *)
(* direction.  A message of the multiplexer is encoded to a frame          *)
(* (ChannelMessage::encode), the frame is the payload of a Data message of *)
(* the reconnecting stream (StreamCodecMessage::encode), and a connection  *)
(* carries those as bytes, after a Hello and among Acks.  TCP cuts the     *)
(* bytes where it likes; FramedRead collects them until a message is whole *)
(* (StreamCodecMessage::parse), and ChannelMessageParser does the same     *)
(* with the payloads.  A connection may break after any byte; the next one *)
(* starts with the first message that was not received.                    *)
(*                                                                         *)
(* A byte is the type and the length field of what it belongs to, and its  *)
(* place in that.  A parser that starts in the middle of something would   *)
(* take a byte for a type that is none; that is an error here, and no      *)
(* other content is looked at.  Lengths are counted as in the code, but    *)
(* for the largest number that four bytes hold.                            *)
(***************************************************************************)
EXTENDS Naturals, Sequences

CONSTANTS
    LenMod,     \* lengths are written modulo this number (2^32)
    Sizes,      \* lengths of the data and of the error texts
    MaxMsgs,    \* bound: messages of the multiplexer
    MaxAcks,    \* bound: Acks on a connection
    MaxBreaks   \* bound: connections that break

\* The longest of the texts that stand for a message that is too long fits.
ASSUME LenAssumption   == LenMod \in Nat /\ LenMod > 13 + 19
ASSUME BoundAssumption == /\ Sizes \subseteq Nat
                          /\ MaxMsgs \in Nat /\ MaxAcks \in Nat /\ MaxBreaks \in Nat

\* Connect, Disconnect, Pause and Resume are a header of 13 bytes each.
ChannelMessage == [type : {"Control"}, n : {0}] \cup [type : {"Data", "Error"}, n : Sizes]

Bytes(type, len, size) == [k \in 1 .. size |-> [type |-> type, len |-> len, at |-> k]]

-----------------------------------------------------------------------------
(* ChannelMessage::encode: the length counts the header.                   *)

\* try_into::<u32>() of the length; mutant: the header is forgotten.
fits_bare(n) == n < LenMod
fits(n) == 13 + n < LenMod

\* What the peer is to see of a message: itself, or an Error in its place, whose
\* text is "Bad data size" or "Bad error data size".
Seen(m) ==
    IF m.type = "Control" \/ fits(m.n) THEN m
    ELSE [type |-> "Error", n |-> IF m.type = "Data" THEN 13 ELSE 19]

Frame(m) ==
    LET seen == Seen(m) IN Bytes(seen.type, (13 + seen.n) % LenMod, 13 + seen.n)

\* StreamCodecMessage::encode, which panics at a payload that is too long.
Hello == Bytes("Hello", 0, 17)
Ack == Bytes("Ack", 0, 9)
Data(payload) == Bytes("StreamData", Len(payload) % LenMod, 5) \o payload
Panics(payload) == Len(payload) >= LenMod

-----------------------------------------------------------------------------
(* The parsers: what they find at the beginning of a buffer, and how many  *)
(* bytes of it that is.                                                    *)

None == [found |-> "none", used |-> 0]
Error == [found |-> "error", used |-> 0]
Some(used) == [found |-> "some", used |-> used]

\* The bytes a parser takes for a header are one.
Aligned(buf, header) == SubSeq(buf, 1, header) = Bytes(buf[1].type, buf[1].len, header)

\* ChannelMessage::parse; mutant: a frame that ends the buffer is not whole.
whole_late(len, buf) == len < Len(buf)
whole(len, buf) == len <= Len(buf)

parse(buf) ==
    IF Len(buf) < 13 THEN None
    ELSE IF ~Aligned(buf, 13) THEN Error
    ELSE IF buf[1].len < 13 THEN Error
    ELSE IF ~whole(buf[1].len, buf) THEN None
    ELSE IF buf[1].type \notin {"Control", "Data", "Error"} THEN Error
    ELSE IF buf[1].type = "Control" /\ buf[1].len # 13 THEN Error
    ELSE Some(buf[1].len)

\* StreamCodecMessage::parse: consumed_size; mutant: it is that of the payload.
consumed_payload(len) == len
consumed(len) == 5 + len

Needed(type) == CASE type = "Hello" -> 17 [] type = "Ack" -> 9 [] type = "StreamData" -> 5

stream_parse(buf) ==
    IF buf = <<>> THEN None
    ELSE IF buf[1].type \notin {"Hello", "Ack", "StreamData"} \/ buf[1].at # 1 THEN Error
    ELSE IF Len(buf) < Needed(buf[1].type) THEN None
    ELSE IF ~Aligned(buf, Needed(buf[1].type)) THEN Error
    ELSE IF buf[1].type # "StreamData" THEN Some(Needed(buf[1].type))
    ELSE IF Len(buf) - 5 < buf[1].len THEN None
    ELSE Some(consumed(buf[1].len))

-----------------------------------------------------------------------------

VARIABLES
    given,     \* what the multiplexer gave to encode
    written,   \* how many of them this connection or an earlier one carries
    wire,      \* bytes under way
    buf,       \* the buffer of FramedRead
    received,  \* Data messages the receiving stream has counted
    buffer,    \* the buffer of ChannelMessageParser
    decoded,   \* what came out of it
    failed,    \* a parser failed, or the encoder of Data panicked
    acks, breaks

vars == <<given, written, wire, buf, received, buffer, decoded, failed, acks, breaks>>

Init ==
    /\ given = <<>> /\ written = 0
    /\ wire = Hello /\ buf = <<>> /\ received = 0
    /\ buffer = <<>> /\ decoded = <<>>
    /\ failed = FALSE
    /\ acks = 0 /\ breaks = 0

\* The multiplexer's run loop encodes a message for its link.
Give(m) ==
    /\ Len(given) < MaxMsgs
    /\ given' = Append(given, m)
    /\ UNCHANGED <<written, wire, buf, received, buffer, decoded, failed, acks, breaks>>

\* run_stream encodes the next Data message and writes it.
WriteData ==
    /\ written < Len(given)
    /\ LET payload == Frame(given[written + 1]) IN
          /\ wire' = wire \o Data(payload)
          /\ failed' = (failed \/ Panics(payload))
    /\ written' = written + 1
    /\ UNCHANGED <<given, buf, received, buffer, decoded, acks, breaks>>

WriteAck ==
    /\ acks < MaxAcks
    /\ acks' = acks + 1
    /\ wire' = wire \o Ack
    /\ UNCHANGED <<given, written, buf, received, buffer, decoded, failed, breaks>>

\* FramedRead reads what has arrived, when the buffer holds nothing whole.
ReadChunk(n) ==
    /\ stream_parse(buf) = None
    /\ buf' = buf \o SubSeq(wire, 1, n)
    /\ wire' = SubSeq(wire, n + 1, Len(wire))
    /\ failed' = (failed \/ stream_parse(buf') = Error)
    /\ UNCHANGED <<given, written, received, buffer, decoded, acks, breaks>>

\* StreamCodec::decode; a payload goes on to the multiplexer's parser.
Decode ==
    LET p == stream_parse(buf) IN
    /\ p.found = "some"
    /\ buf' = SubSeq(buf, p.used + 1, Len(buf))
    /\ IF buf[1].type = "StreamData"
          THEN /\ received' = received + 1
               /\ buffer' = buffer \o SubSeq(buf, 6, 5 + buf[1].len)
          ELSE UNCHANGED <<received, buffer>>
    /\ failed' = (failed \/ Error \in {stream_parse(buf'), parse(buffer')})
    /\ UNCHANGED <<given, written, wire, decoded, acks, breaks>>

\* ChannelMessageParser::next.
NextMessage ==
    LET p == parse(buffer) IN
    /\ p.found = "some"
    /\ decoded' = Append(decoded, [type |-> buffer[1].type, n |-> buffer[1].len - 13])
    /\ buffer' = SubSeq(buffer, p.used + 1, Len(buffer))
    /\ failed' = (failed \/ parse(buffer') = Error)
    /\ UNCHANGED <<given, written, wire, buf, received, acks, breaks>>

\* The next connection has a FramedRead of its own, and resends what was not
\* received; mutant: the buffer is kept.
BreakKeepsBuffer ==
    /\ breaks < MaxBreaks
    /\ breaks' = breaks + 1
    /\ written' = received
    /\ wire' = Hello /\ acks' = 0
    /\ UNCHANGED <<given, buf, received, buffer, decoded, failed>>
Break ==
    /\ breaks < MaxBreaks
    /\ breaks' = breaks + 1
    /\ written' = received
    /\ wire' = Hello /\ acks' = 0
    /\ buf' = <<>>
    /\ UNCHANGED <<given, received, buffer, decoded, failed>>

Next ==
    \/ \E m \in ChannelMessage : Give(m)
    \/ WriteData \/ WriteAck
    \/ \E n \in 1 .. Len(wire) : ReadChunk(n)
    \/ Decode \/ NextMessage \/ Break

Spec == Init /\ [][Next]_vars

-----------------------------------------------------------------------------
(* Properties.                                                             *)

Byte == [type : {"Hello", "Ack", "StreamData", "Control", "Data", "Error"},
         len : 0 .. LenMod - 1, at : 1 .. LenMod]

\* Type correctness.
TypeOK ==
    /\ given \in Seq(ChannelMessage)
    /\ written \in 0 .. Len(given) /\ received \in 0 .. Len(given)
    /\ wire \in Seq(Byte) /\ buf \in Seq(Byte) /\ buffer \in Seq(Byte)
    /\ decoded \in Seq(ChannelMessage \cup [type : {"Error"}, n : {13, 19}])
    /\ failed \in BOOLEAN
    /\ acks \in 0 .. MaxAcks /\ breaks \in 0 .. MaxBreaks

\* However the bytes are cut and wherever a connection breaks, the multiplexer gets
\* the messages that the other one gave, each once and in order, one that is too
\* long for its length replaced by an Error.
DecodedIsGiven ==
    /\ Len(decoded) <= received /\ received <= Len(given)
    /\ \A k \in 1 .. Len(decoded) :
          \/ decoded[k] = given[k]
          \/ decoded[k].type = "Error" /\ 13 + given[k].n >= LenMod

\* No parser waits for the next message to finish the last one: when the bytes
\* written have arrived and the parsers have had their turn, all is decoded.
NothingHeldBack ==
    wire = <<>> /\ stream_parse(buf) = None /\ parse(buffer) = None
        => buf = <<>> /\ buffer = <<>> /\ Len(decoded) = written

\* No length overflows its four bytes on either layer, no encoder panics and no
\* parser meets a byte it does not expect: what ends a connection or a multiplexer
\* as an error of the codec never comes from the tunnel itself.
NeverFails == ~failed
=============================================================================
