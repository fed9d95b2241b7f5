--------------------------- MODULE FrameCodecProofs ---------------------------
(***************************************************************************)
(* What the encoders make is parsed again, whole and no earlier, for every *)
(* length of a message and every largest length; what lies in the buffers  *)
(* and on the wire consists of messages, wherever it is cut (CodecInv); so *)
(* every message comes out once and in order, and no parser fails.         *)
(***************************************************************************)
EXTENDS FrameInvariant, SequenceTheorems, TLAPS

\* What Bytes makes: as many bytes as said, each with its place.
LEMMA BytesFacts ==
    ASSUME NEW type \in {"Hello", "Ack", "StreamData", "Control", "Data", "Error"},
           NEW len \in 0 .. LenMod - 1, NEW size \in 0 .. LenMod
    PROVE  /\ Bytes(type, len, size) \in Seq(Byte)
           /\ Len(Bytes(type, len, size)) = size
           /\ \A k \in 1 .. size :
                 Bytes(type, len, size)[k] = [type |-> type, len |-> len, at |-> k]
  <1>1. \A k \in 1 .. size : [type |-> type, len |-> len, at |-> k] \in Byte
    BY LenAssumption DEF Byte
  <1> QED
    BY <1>1, LenAssumption DEF Bytes

\* The bytes of two sequences in a row.
LEMMA ConcatAt ==
    ASSUME NEW p \in Seq(Byte), NEW q \in Seq(Byte)
    PROVE  /\ p \o q \in Seq(Byte) /\ Len(p) \in Nat /\ Len(q) \in Nat
           /\ Len(p \o q) = Len(p) + Len(q)
           /\ \A k \in 1 .. Len(p) : (p \o q)[k] = p[k]
           /\ \A k \in 1 .. Len(q) : (p \o q)[Len(p) + k] = q[k]
           /\ \A k \in 1 .. Len(p) + Len(q) :
                 \/ k \in 1 .. Len(p)
                 \/ k - Len(p) \in 1 .. Len(q) /\ (p \o q)[k] = q[k - Len(p)]
  OBVIOUS

\* Three sequences in a row.
LEMMA ConcatThree ==
    ASSUME NEW p \in Seq(Byte), NEW q \in Seq(Byte), NEW r \in Seq(Byte)
    PROVE  (p \o q) \o r = p \o (q \o r)
  BY ConcatAssociative, SMTT(60)

\* A buffer that starts with a header is aligned.
LEMMA HeaderAligned ==
    ASSUME NEW b \in Seq(Byte), NEW size \in 1 .. LenMod, size <= Len(b),
           b[1].type \in {"Hello", "Ack", "StreamData", "Control", "Data", "Error"},
           b[1].len \in 0 .. LenMod - 1,
           \A k \in 1 .. size : b[k] = [type |-> b[1].type, len |-> b[1].len, at |-> k]
    PROVE  Aligned(b, size)
  <1> DEFINE header == Bytes(b[1].type, b[1].len, size)
  <1>1. size \in 0 .. LenMod /\ size \in Nat
    BY LenAssumption
  <1>2. header \in Seq(Byte) /\ Len(header) = size
        /\ \A k \in 1 .. size : header[k] = b[k]
    <2>1. /\ header \in Seq(Byte) /\ Len(header) = size
          /\ \A k \in 1 .. size : header[k] = [type |-> b[1].type, len |-> b[1].len, at |-> k]
      BY <1>1, BytesFacts
    <2> HIDE DEF header
    <2> QED
      BY <2>1
  <1>3. /\ SubSeq(b, 1, size) \in Seq(Byte)
        /\ Len(SubSeq(b, 1, size)) = size
        /\ \A k \in 1 .. size : SubSeq(b, 1, size)[k] = b[k]
    BY <1>1
  <1>4. SubSeq(b, 1, size) = header
    BY <1>2, <1>3, SeqEqual
  <1> QED
    BY <1>4 DEF Aligned

-----------------------------------------------------------------------------
(* The multiplexer's frames.                                               *)

\* An encoded message always fits its length, the header being counted.
LEMMA SeenFits ==
    ASSUME NEW m \in ChannelMessage
    PROVE  /\ Seen(m).n \in Nat /\ 13 + Seen(m).n < LenMod
           /\ Seen(m).type \in {"Control", "Data", "Error"}
           /\ Seen(m).type = "Control" => Seen(m).n = 0
  <1>1. CASE m \in [type : {"Control"}, n : {0}]
    BY <1>1, LenAssumption DEF Seen, fits
  <1>2. CASE m \in [type : {"Data", "Error"}, n : Sizes]
    <2>1. m.n \in Nat /\ m.type \in {"Data", "Error"}
      BY <1>2, BoundAssumption
    <2> QED
      BY <2>1, LenAssumption DEF Seen, fits
  <1> QED
    BY <1>1, <1>2 DEF ChannelMessage

\* An encoded message is as long as its header says.
LEMMA FrameFacts ==
    ASSUME NEW m \in ChannelMessage
    PROVE  /\ Frame(m) \in Seq(Byte)
           /\ Len(Frame(m)) = 13 + Seen(m).n
           /\ \A k \in 1 .. Len(Frame(m)) :
                 Frame(m)[k] = [type |-> Seen(m).type, len |-> 13 + Seen(m).n, at |-> k]
  <1> DEFINE size == 13 + Seen(m).n
  <1>1. size \in 0 .. LenMod - 1
    BY SeenFits, LenAssumption
  <1>2. size % LenMod = size
    BY <1>1, LenAssumption
  <1>3. Frame(m) = Bytes(Seen(m).type, size, size)
    BY <1>2 DEF Frame
  <1>4. size \in 0 .. LenMod /\ Seen(m).type \in {"Control", "Data", "Error"}
    BY <1>1, SeenFits, LenAssumption
  <1>5. /\ Bytes(Seen(m).type, size, size) \in Seq(Byte)
        /\ Len(Bytes(Seen(m).type, size, size)) = size
        /\ \A k \in 1 .. size : Bytes(Seen(m).type, size, size)[k]
                                 = [type |-> Seen(m).type, len |-> size, at |-> k]
    BY <1>1, <1>4, BytesFacts
  <1> QED
    BY <1>3, <1>5

\* The parser cuts out of a buffer the frame that it starts with, whatever follows,
\* and it is the message that was given or the Error in its place.
THEOREM FrameIsParsed ==
    ASSUME NEW m \in ChannelMessage, NEW rest \in Seq(Byte)
    PROVE  LET b == Frame(m) \o rest IN
           /\ parse(b) = Some(Len(Frame(m)))
           /\ [type |-> b[1].type, n |-> b[1].len - 13] = Seen(m)
  <1> DEFINE b == Frame(m) \o rest
             size == 13 + Seen(m).n
  <1>1. size \in 13 .. LenMod - 1
    BY SeenFits, LenAssumption
  <1>2. /\ b \in Seq(Byte) /\ Len(b) = size + Len(rest)
        /\ \A k \in 1 .. size :
              b[k] = [type |-> Seen(m).type, len |-> size, at |-> k]
    <2> DEFINE frame == Frame(m)
    <2>1. /\ frame \in Seq(Byte) /\ Len(frame) = size
          /\ \A k \in 1 .. size : frame[k] = [type |-> Seen(m).type, len |-> size, at |-> k]
      BY FrameFacts
    <2> HIDE DEF frame, size
    <2>2. /\ frame \o rest \in Seq(Byte) /\ Len(frame \o rest) = size + Len(rest)
          /\ \A k \in 1 .. size : (frame \o rest)[k] = frame[k]
      <3>1. /\ frame \o rest \in Seq(Byte) /\ Len(frame \o rest) = Len(frame) + Len(rest)
            /\ \A k \in 1 .. Len(frame) : (frame \o rest)[k] = frame[k]
        BY <2>1, ConcatAt
      <3> QED
        BY <2>1, <3>1
    <2>3. b = frame \o rest
      BY DEF frame
    <2> HIDE DEF b
    <2> QED
      BY <2>1, <2>2, <2>3
  <1>3. Len(b) >= size /\ Len(b) >= 13
    BY <1>1, <1>2
  <1>4. b[1].type = Seen(m).type /\ b[1].len = size /\ Aligned(b, 13)
    <2>1. 13 \in 1 .. LenMod /\ size \in 0 .. LenMod - 1
      BY <1>1, LenAssumption
    <2>2. \A k \in 1 .. 13 : b[k] = [type |-> Seen(m).type, len |-> size, at |-> k]
      BY <1>1, <1>2
    <2> HIDE DEF b, size
    <2>3. b[1] = [type |-> Seen(m).type, len |-> size, at |-> 1]
      BY <2>2
    <2>4. b[1].type \in {"Hello", "Ack", "StreamData", "Control", "Data", "Error"}
      BY <2>3, SeenFits
    <2>5. b[1].type = Seen(m).type /\ b[1].len = size
      BY <2>3
    <2>6. \A k \in 1 .. 13 : b[k] = [type |-> b[1].type, len |-> b[1].len, at |-> k]
      BY <2>2, <2>5
    <2>7. Aligned(b, 13)
      BY <1>2, <1>3, <2>1, <2>4, <2>5, <2>6, HeaderAligned
    <2> QED
      BY <2>5, <2>7
  <1>5. Seen(m).type \in {"Control", "Data", "Error"}
        /\ (Seen(m).type = "Control" => size = 13)
    BY SeenFits
  <1>6. parse(b) = Some(size)
    <2> HIDE DEF b, size
    <2> QED
      BY <1>1, <1>3, <1>4, <1>5 DEF parse, whole
  <1>7. Seen(m) = [type |-> Seen(m).type, n |-> Seen(m).n]
    BY DEF Seen, ChannelMessage
  <1> QED
    BY <1>1, <1>4, <1>6, <1>7, FrameFacts, SeenFits

\* Of a frame that has not arrived whole the parser takes nothing.
THEOREM PartOfFrameIsKept ==
    ASSUME NEW m \in ChannelMessage, NEW n \in 0 .. Len(Frame(m)) - 1
    PROVE  parse(SubSeq(Frame(m), 1, n)) = None
  <1> DEFINE b == SubSeq(Frame(m), 1, n)
             size == 13 + Seen(m).n
  <1>1. size \in 13 .. LenMod - 1 /\ Len(Frame(m)) = size
    BY SeenFits, FrameFacts, LenAssumption
  <1>2. n \in Nat /\ n < size
    BY <1>1
  <1>3. b \in Seq(Byte) /\ Len(b) = n /\ \A k \in 1 .. n : b[k] = Frame(m)[k]
    BY <1>1, <1>2, FrameFacts
  <1>4. CASE n < 13
    BY <1>3, <1>4 DEF parse
  <1>5. CASE n >= 13
    <2>1. \A k \in 1 .. 13 : b[k] = [type |-> Seen(m).type, len |-> size, at |-> k]
      BY <1>1, <1>2, <1>3, <1>5, FrameFacts
    <2>2. b[1].type = Seen(m).type /\ b[1].len = size /\ Aligned(b, 13)
      <3>1. 13 \in 1 .. LenMod /\ size \in 0 .. LenMod - 1
        BY <1>1, LenAssumption
      <3>2. 13 <= Len(b)
        BY <1>2, <1>3, <1>5
      <3> HIDE DEF b, size
      <3>3. b[1] = [type |-> Seen(m).type, len |-> size, at |-> 1]
        BY <2>1
      <3>4. b[1].type \in {"Hello", "Ack", "StreamData", "Control", "Data", "Error"}
        BY <3>3, SeenFits
      <3>5. b[1].type = Seen(m).type /\ b[1].len = size
        BY <3>3
      <3>6. \A k \in 1 .. 13 : b[k] = [type |-> b[1].type, len |-> b[1].len, at |-> k]
        BY <2>1, <3>5
      <3>7. Aligned(b, 13)
        BY <1>3, <3>1, <3>2, <3>4, <3>5, <3>6, HeaderAligned
      <3> QED
        BY <3>5, <3>7
    <2>3. ~(Len(b) < 13) /\ size >= 13 /\ ~(size <= Len(b))
      BY <1>1, <1>2, <1>3, <1>5
    <2>4. parse(b) = None
      <3> HIDE DEF b, size
      <3> QED
        BY <1>1, <2>2, <2>3 DEF parse, whole
    <2> QED
      BY <2>4
  <1> QED
    BY <1>2, <1>4, <1>5

-----------------------------------------------------------------------------
(* What a sequence of bytes consists of.                                   *)

\* What is left of q after its first n bytes.
Rest(q, n) == SubSeq(q, n + 1, Len(q))

\* x is one message of the layer.
Single(x, types) == x \in Seq(Byte) /\ x # <<>> /\ Heads(x, types) = {1}

\* The bytes of what is left.
LEMMA RestAt ==
    ASSUME NEW q \in Seq(Byte), NEW n \in 0 .. Len(q)
    PROVE  /\ Rest(q, n) \in Seq(Byte) /\ Len(q) \in Nat
           /\ Len(Rest(q, n)) = Len(q) - n
           /\ \A k \in 1 .. Len(q) - n : Rest(q, n)[k] = q[n + k]
  <1>1. Len(q) \in Nat
    OBVIOUS
  <1>2. \A k \in n + 1 .. Len(q) : q[k] \in Byte
    OBVIOUS
  <1>3. SubSeq(q, n + 1, Len(q)) \in Seq(Byte)
    OBVIOUS
  <1>4. Len(SubSeq(q, n + 1, Len(q))) = Len(q) - n
    OBVIOUS
  <1>5. \A k \in 1 .. Len(q) - n : SubSeq(q, n + 1, Len(q))[k] = q[n + k]
    OBVIOUS
  <1> QED
    BY <1>1, <1>3, <1>4, <1>5 DEF Rest

\* The messages that start in two sequences in a row.
LEMMA HeadsConcat ==
    ASSUME NEW q \in Seq(Byte), NEW x \in Seq(Byte), NEW types
    PROVE  /\ Heads(q, types) \subseteq Heads(q \o x, types)
           /\ \A p \in Heads(x, types) : Len(q) + p \in Heads(q \o x, types)
           /\ \A p \in Heads(q \o x, types) :
                 p \in Heads(q, types) \/ p - Len(q) \in Heads(x, types)
  <1> DEFINE r == q \o x
  <1>1. /\ r \in Seq(Byte) /\ Len(q) \in Nat /\ Len(x) \in Nat /\ Len(r) = Len(q) + Len(x)
        /\ \A k \in 1 .. Len(q) : r[k] = q[k]
        /\ \A k \in 1 .. Len(x) : r[Len(q) + k] = x[k]
        /\ \A k \in 1 .. Len(q) + Len(x) :
              k \in 1 .. Len(q) \/ (k - Len(q) \in 1 .. Len(x) /\ r[k] = x[k - Len(q)])
    BY ConcatAt
  <1> HIDE DEF r
  <1>2. ASSUME NEW p \in Heads(q, types) PROVE p \in Heads(r, types)
    BY <1>1 DEF Heads
  <1>3. ASSUME NEW p \in Heads(x, types) PROVE Len(q) + p \in Heads(r, types)
    BY <1>1 DEF Heads
  <1>4. ASSUME NEW p \in Heads(r, types)
        PROVE  p \in Heads(q, types) \/ p - Len(q) \in Heads(x, types)
    BY <1>1 DEF Heads
  <1> QED
    BY <1>2, <1>3, <1>4 DEF r

\* The messages that start in what is left.
LEMMA HeadsRest ==
    ASSUME NEW q \in Seq(Byte), NEW n \in 0 .. Len(q), NEW types
    PROVE  /\ \A p \in Heads(q, types) : p > n => p - n \in Heads(Rest(q, n), types)
           /\ \A p \in Heads(Rest(q, n), types) : p + n \in Heads(q, types)
  <1> DEFINE r == Rest(q, n)
  <1>1. /\ r \in Seq(Byte) /\ Len(q) \in Nat /\ Len(r) = Len(q) - n
        /\ \A k \in 1 .. Len(q) - n : r[k] = q[n + k]
    BY RestAt
  <1> HIDE DEF r
  <1>2. ASSUME NEW p \in Heads(q, types), p > n PROVE p - n \in Heads(r, types)
    <2>1. p - n \in 1 .. Len(q) - n /\ n + (p - n) = p
      BY <1>1, <1>2 DEF Heads
    <2> QED
      BY <1>1, <2>1 DEF Heads
  <1>3. ASSUME NEW p \in Heads(r, types) PROVE p + n \in Heads(q, types)
    <2>1. p \in 1 .. Len(q) - n /\ n + p = p + n /\ p + n \in 1 .. Len(q)
      BY <1>1 DEF Heads
    <2> QED
      BY <1>1, <2>1 DEF Heads
  <1> QED
    BY <1>2, <1>3 DEF r

\* What lies in q lies there still when one more message follows.
LEMMA LiesMore ==
    ASSUME NEW q \in Seq(Byte), NEW types, NEW x, Single(x, types), NEW p \in 1 .. Len(q),
           NEW y \in Seq(Byte), Lies(q, types, p, y)
    PROVE  Lies(q \o x, types, p, y)
  <1> DEFINE r == q \o x
  <1>1. x \in Seq(Byte) /\ Heads(x, types) = {1} /\ Len(x) \in Nat
    BY DEF Single
  <1>2. /\ r \in Seq(Byte) /\ Len(q) \in Nat /\ Len(r) = Len(q) + Len(x)
        /\ \A k \in 1 .. Len(q) : r[k] = q[k]
    BY <1>1, ConcatAt
  <1>3. Heads(q, types) \subseteq Heads(r, types) /\ Len(q) + 1 \in Heads(r, types)
    BY <1>1, HeadsConcat
  <1> HIDE DEF r
  <1>4. Len(y) \in Nat /\ p + Len(y) \in Heads(q, types) \cup {Len(q) + 1}
        /\ \A k \in 1 .. Len(y) : q[p + k - 1] = y[k]
    BY DEF Lies
  <1>5. p + Len(y) <= Len(q) + 1
    BY <1>2, <1>4 DEF Heads
  <1>6. \A k \in 1 .. Len(y) : p + k - 1 \in 1 .. Len(q)
    BY <1>2, <1>4, <1>5
  <1> QED
    BY <1>2, <1>3, <1>4, <1>6 DEF Lies, r

\* What lies in q behind its first n bytes lies in what is left of it.
LEMMA LiesRest ==
    ASSUME NEW q \in Seq(Byte), NEW types, NEW n \in 0 .. Len(q), NEW p \in 1 .. Len(q), p > n,
           NEW y \in Seq(Byte), Lies(q, types, p, y)
    PROVE  Lies(Rest(q, n), types, p - n, y)
  <1> DEFINE r == Rest(q, n)
  <1>1. /\ r \in Seq(Byte) /\ Len(q) \in Nat /\ Len(r) = Len(q) - n
        /\ \A k \in 1 .. Len(q) - n : r[k] = q[n + k]
    BY RestAt
  <1>2. \A h \in Heads(q, types) : h > n => h - n \in Heads(r, types)
    BY HeadsRest
  <1> HIDE DEF r
  <1>3. Len(y) \in Nat /\ p + Len(y) \in Heads(q, types) \cup {Len(q) + 1}
        /\ \A k \in 1 .. Len(y) : q[p + k - 1] = y[k]
    BY DEF Lies
  <1>4. p + Len(y) <= Len(q) + 1
    BY <1>1, <1>3 DEF Heads
  <1>5. p - n + Len(y) = p + Len(y) - n /\ p + Len(y) > n
    BY <1>3
  <1>6. p - n + Len(y) \in Heads(r, types) \cup {Len(r) + 1}
    BY <1>1, <1>2, <1>3, <1>5
  <1>7. ASSUME NEW k \in 1 .. Len(y) PROVE r[(p - n) + k - 1] = y[k]
    <2>1. (p - n) + k - 1 \in 1 .. Len(q) - n /\ n + ((p - n) + k - 1) = p + k - 1
      BY <1>1, <1>3, <1>4
    <2> QED
      BY <1>1, <1>3, <2>1
  <1> QED
    BY <1>6, <1>7 DEF Lies, r

\* The message that was appended lies at the end.
LEMMA LiesLast ==
    ASSUME NEW q \in Seq(Byte), NEW types, NEW x, Single(x, types)
    PROVE  /\ Len(q) + 1 \in Heads(q \o x, types) /\ Lies(q \o x, types, Len(q) + 1, x)
           /\ \A p \in Heads(q \o x, types) : p \in Heads(q, types) \/ p = Len(q) + 1
  <1> DEFINE r == q \o x
  <1>1. x \in Seq(Byte) /\ Heads(x, types) = {1} /\ Len(x) \in Nat
    BY DEF Single
  <1>2. /\ r \in Seq(Byte) /\ Len(q) \in Nat /\ Len(r) = Len(q) + Len(x)
        /\ \A k \in 1 .. Len(x) : r[Len(q) + k] = x[k]
    BY <1>1, ConcatAt
  <1>3. /\ Len(q) + 1 \in Heads(r, types)
        /\ \A p \in Heads(r, types) : p \in Heads(q, types) \/ p - Len(q) \in Heads(x, types)
    BY <1>1, HeadsConcat
  <1> HIDE DEF r
  <1>4. \A p \in Heads(r, types) : p \in Heads(q, types) \/ p = Len(q) + 1
    <2>1. \A p \in Heads(r, types) : p \in Nat
      BY <1>2 DEF Heads
    <2> QED
      BY <1>1, <1>2, <1>3, <2>1
  <1>5. Len(q) + 1 + Len(x) = Len(r) + 1 /\ \A k \in 1 .. Len(x) : Len(q) + 1 + k - 1 = Len(q) + k
    BY <1>1, <1>2
  <1>6. Lies(r, types, Len(q) + 1, x)
    BY <1>2, <1>5 DEF Lies
  <1> QED
    BY <1>3, <1>4, <1>6 DEF r

\* One more message, of the others or the next one.
LEMMA ConsistsMore ==
    ASSUME NEW q \in Seq(Byte), NEW types, NEW others, \A y \in others : y \in Seq(Byte),
           NEW body, NEW lo \in Nat, NEW hi \in Nat, lo <= hi,
           \A n \in lo + 1 .. hi : body[n] \in Seq(Byte),
           Consists(q, types, others, body, lo, hi),
           NEW x, Single(x, types)
    PROVE  /\ x \in others => Consists(q \o x, types, others, body, lo, hi)
           /\ body[hi + 1] = x => Consists(q \o x, types, others, body, lo, hi + 1)
  <1> DEFINE r == q \o x
             last == Len(q) + 1
  <1>0. Len(q) \in Nat /\ x \in Seq(Byte) /\ x # <<>>
    BY DEF Single
  <1>1. PICK place \in [lo + 1 .. hi -> Heads(q, types)] :
           /\ \A i, j \in lo + 1 .. hi : i < j => place[i] < place[j]
           /\ \A n \in lo + 1 .. hi : Lies(q, types, place[n], body[n])
           /\ \A p \in Heads(q, types) :
                 \/ \E n \in lo + 1 .. hi : place[n] = p
                 \/ \E y \in others : Lies(q, types, p, y)
    BY DEF Consists
  <1>2. /\ last \in Heads(r, types) /\ Lies(r, types, last, x)
        /\ \A p \in Heads(r, types) : p \in Heads(q, types) \/ p = last
    BY LiesLast
  <1>3. Heads(q, types) \subseteq Heads(r, types)
    BY <1>0, HeadsConcat
  <1>4. Heads(q, types) \subseteq 1 .. Len(q)
    BY DEF Heads
  <1>5. r # <<>> => 1 \in Heads(r, types)
    <2>1. CASE q = <<>>
      BY <1>2, <2>1
    <2>2. CASE q # <<>>
      BY <1>3, <2>2 DEF Consists
    <2> QED
      BY <2>1, <2>2
  <1>6. \A p \in 1 .. Len(q), y \in Seq(Byte) : Lies(q, types, p, y) => Lies(r, types, p, y)
    BY LiesMore
  <1> HIDE DEF r, last
  <1>7. \A n \in lo + 1 .. hi : place[n] \in Heads(r, types) /\ Lies(r, types, place[n], body[n])
    BY <1>1, <1>3, <1>4, <1>6
  <1>8. \A p \in Heads(q, types) :
           \/ \E n \in lo + 1 .. hi : place[n] = p
           \/ \E y \in others : Lies(r, types, p, y)
    BY <1>1, <1>4, <1>6
  <1>9. ASSUME x \in others PROVE Consists(r, types, others, body, lo, hi)
    <2>1. place \in [lo + 1 .. hi -> Heads(r, types)]
      BY <1>3
    <2>2. \A p \in Heads(r, types) :
             \/ \E n \in lo + 1 .. hi : place[n] = p
             \/ \E y \in others : Lies(r, types, p, y)
      BY <1>2, <1>8, <1>9
    <2> QED
      BY <1>1, <1>5, <1>7, <2>1, <2>2 DEF Consists
  <1>10. ASSUME body[hi + 1] = x PROVE Consists(r, types, others, body, lo, hi + 1)
    <2> DEFINE at == [n \in lo + 1 .. hi + 1 |-> IF n = hi + 1 THEN last ELSE place[n]]
    <2>1. \A n \in lo + 1 .. hi + 1 : n \in lo + 1 .. hi \/ n = hi + 1
      OBVIOUS
    <2>2. \A n \in lo + 1 .. hi : n \in lo + 1 .. hi + 1 /\ n # hi + 1 /\ at[n] = place[n]
      OBVIOUS
    <2>3. hi + 1 \in lo + 1 .. hi + 1 /\ at[hi + 1] = last
      OBVIOUS
    <2>4. at \in [lo + 1 .. hi + 1 -> Heads(r, types)]
      BY <1>2, <1>7, <2>1
    <2> HIDE DEF at
    <2>5. ASSUME NEW i \in lo + 1 .. hi + 1, NEW j \in lo + 1 .. hi + 1, i < j PROVE at[i] < at[j]
      <3>1. i \in lo + 1 .. hi
        BY <2>5
      <3>2. CASE j \in lo + 1 .. hi
        BY <1>1, <2>2, <2>5, <3>1, <3>2
      <3>3. CASE j = hi + 1
        <4>1. place[i] \in 1 .. Len(q)
          BY <1>1, <1>4, <3>1
        <4> QED
          BY <1>0, <2>2, <2>3, <3>1, <3>3, <4>1 DEF last
      <3> QED
        BY <2>1, <3>2, <3>3
    <2>6. \A n \in lo + 1 .. hi + 1 : Lies(r, types, at[n], body[n])
      BY <1>2, <1>7, <1>10, <2>1, <2>2, <2>3
    <2>7. \A p \in Heads(r, types) :
             \/ \E n \in lo + 1 .. hi + 1 : at[n] = p
             \/ \E y \in others : Lies(r, types, p, y)
      BY <1>2, <1>8, <2>2, <2>3
    <2> QED
      BY <1>5, <2>4, <2>5, <2>6, <2>7 DEF Consists
  <1> QED
    BY <1>9, <1>10 DEF r

\* What comes first, and what the rest consists of.
LEMMA ConsistsRest ==
    ASSUME NEW q \in Seq(Byte), q # <<>>, NEW types, NEW others,
           \A y \in others : Single(y, types),
           NEW body, NEW lo \in Nat, NEW hi \in Nat,
           \A n \in lo + 1 .. hi : Single(body[n], types),
           Consists(q, types, others, body, lo, hi)
    PROVE  \E x : /\ Lies(q, types, 1, x) /\ Single(x, types)
                  /\ \/ x \in others /\ Consists(Rest(q, Len(x)), types, others, body, lo, hi)
                     \/ /\ lo + 1 <= hi /\ x = body[lo + 1]
                        /\ Consists(Rest(q, Len(x)), types, others, body, lo + 1, hi)
  <1>0. Len(q) \in Nat /\ 1 \in Heads(q, types) /\ Heads(q, types) \subseteq 1 .. Len(q)
    BY DEF Heads, Consists
  <1>1. PICK place \in [lo + 1 .. hi -> Heads(q, types)] :
           /\ \A i, j \in lo + 1 .. hi : i < j => place[i] < place[j]
           /\ \A n \in lo + 1 .. hi : Lies(q, types, place[n], body[n])
           /\ \A p \in Heads(q, types) :
                 \/ \E n \in lo + 1 .. hi : place[n] = p
                 \/ \E y \in others : Lies(q, types, p, y)
    BY DEF Consists
  <1>2. \A n \in lo + 1 .. hi : place[n] \in Heads(q, types) /\ place[n] \in 1 .. Len(q)
    BY <1>0, <1>1
  \* Behind the first message, what is left consists of what was behind it.
  <1>3. ASSUME NEW x, Single(x, types), Lies(q, types, 1, x), NEW k \in {lo, lo + 1},
               \A n \in k + 1 .. hi : place[n] # 1,
               \A n \in lo + 1 .. hi : n \in k + 1 .. hi \/ place[n] = 1
        PROVE  Consists(Rest(q, Len(x)), types, others, body, k, hi)
    <2> DEFINE l == Len(x)
               r == Rest(q, l)
    <2>1. x \in Seq(Byte) /\ l \in Nat /\ l > 0 /\ l <= Len(q) /\ 1 + l \in Heads(q, types) \cup {Len(q) + 1}
          /\ \A i \in 1 .. l : q[i] = x[i]
      <3>1. x \in Seq(Byte) /\ l \in Nat /\ l > 0
        BY <1>3 DEF Single
      <3>2. 1 + l \in Heads(q, types) \cup {Len(q) + 1} /\ \A i \in 1 .. l : q[1 + i - 1] = x[i]
        BY <1>3 DEF Lies
      <3>3. l <= Len(q) /\ \A i \in 1 .. l : 1 + i - 1 = i
        BY <1>0, <3>1, <3>2
      <3> QED
        BY <3>1, <3>2, <3>3
    <2>2. ASSUME NEW p \in Heads(q, types), p # 1 PROVE p > l
      <3>1. CASE p \in 1 .. l
        <4>1. q[p] = x[p]
          BY <2>1, <3>1
        <4>2. p \in Heads(x, types)
          BY <2>1, <2>2, <3>1, <4>1 DEF Heads
        <4> QED
          BY <1>3, <2>2, <4>2 DEF Single
      <3> QED
        BY <1>0, <2>1, <3>1
    <2>3. l \in 0 .. Len(q)
      BY <1>0, <2>1
    <2>4. /\ \A p \in Heads(q, types) : p > l => p - l \in Heads(r, types)
          /\ \A p \in Heads(r, types) : p + l \in Heads(q, types)
      BY <2>3, HeadsRest
    <2>5. r \in Seq(Byte) /\ Len(r) = Len(q) - l
      BY <2>3, RestAt
    <2>6. \A p \in 1 .. Len(q), y \in Seq(Byte) :
             p > l /\ Lies(q, types, p, y) => Lies(r, types, p - l, y)
      BY <2>3, LiesRest
    <2> HIDE DEF r, l
    <2>7. r # <<>> => 1 \in Heads(r, types)
      <3>1. r # <<>> => 1 + l # Len(q) + 1
        BY <1>0, <2>1, <2>5
      <3>2. 1 + l > l /\ (1 + l) - l = 1
        BY <2>1
      <3> QED
        BY <2>1, <2>4, <3>1, <3>2
    <2> DEFINE at == [n \in k + 1 .. hi |-> place[n] - l]
    <2>8. \A n \in k + 1 .. hi :
             /\ n \in lo + 1 .. hi /\ place[n] > l /\ at[n] = place[n] - l
             /\ place[n] \in 1 .. Len(q)
      <3>1. \A n \in k + 1 .. hi : n \in lo + 1 .. hi
        BY <1>3
      <3> QED
        BY <1>2, <1>3, <2>2, <3>1
    <2>9. at \in [k + 1 .. hi -> Heads(r, types)]
      BY <1>2, <2>4, <2>8
    <2> HIDE DEF at
    <2>10. \A i, j \in k + 1 .. hi : i < j => at[i] < at[j]
      <3>1. ASSUME NEW i \in k + 1 .. hi, NEW j \in k + 1 .. hi, i < j PROVE at[i] < at[j]
        <4>1. place[i] < place[j]
          BY <1>1, <2>8, <3>1
        <4> QED
          BY <2>1, <2>8, <4>1
      <3> QED
        BY <3>1
    <2>11. \A n \in k + 1 .. hi : Lies(r, types, at[n], body[n])
      <3>1. \A n \in k + 1 .. hi : body[n] \in Seq(Byte) /\ Lies(q, types, place[n], body[n])
        BY <1>1, <2>8 DEF Single
      <3> QED
        BY <2>6, <2>8, <3>1
    <2>12. ASSUME NEW p \in Heads(r, types)
           PROVE  \/ \E n \in k + 1 .. hi : at[n] = p
                  \/ \E y \in others : Lies(r, types, p, y)
      <3>1. p \in Nat /\ p > 0 /\ p + l \in Heads(q, types) /\ p + l # 1 /\ p + l > l /\ (p + l) - l = p
        BY <2>1, <2>4, <2>5 DEF Heads
      <3>2. CASE \E n \in lo + 1 .. hi : place[n] = p + l
        <4>1. PICK n \in lo + 1 .. hi : place[n] = p + l
          BY <3>2
        <4>2. n \in k + 1 .. hi
          BY <1>3, <3>1, <4>1
        <4> QED
          BY <2>8, <3>1, <4>1, <4>2
      <3>3. CASE \E y \in others : Lies(q, types, p + l, y)
        <4>1. PICK y \in others : Lies(q, types, p + l, y)
          BY <3>3
        <4>2. y \in Seq(Byte) /\ p + l \in 1 .. Len(q)
          BY <1>0, <3>1 DEF Single
        <4>3. Lies(r, types, (p + l) - l, y)
          BY <2>6, <3>1, <4>1, <4>2
        <4> QED
          BY <3>1, <4>3
      <3> QED
        BY <1>1, <3>1, <3>2, <3>3
    <2> QED
      BY <2>7, <2>9, <2>10, <2>11, <2>12 DEF Consists, r, l
  <1>4. CASE \E n \in lo + 1 .. hi : place[n] = 1
    <2>1. PICK n \in lo + 1 .. hi : place[n] = 1
      BY <1>4
    <2>2. \A j \in lo + 1 .. hi : j < n => FALSE
      BY <1>1, <1>2, <2>1
    <2>3. n = lo + 1 /\ lo + 1 \in lo + 1 .. hi
      BY <2>1, <2>2
    <2>4. \A j \in lo + 1 + 1 .. hi : place[j] # 1
      <3>1. \A j \in lo + 1 + 1 .. hi : j \in lo + 1 .. hi /\ n < j
        BY <2>3
      <3> QED
        BY <1>1, <1>2, <2>1, <3>1
    <2>5. \A j \in lo + 1 .. hi : j \in lo + 1 + 1 .. hi \/ place[j] = 1
      BY <2>1, <2>3
    <2>6. Single(body[lo + 1], types) /\ Lies(q, types, 1, body[lo + 1])
      BY <1>1, <2>1, <2>3
    <2>7. Consists(Rest(q, Len(body[lo + 1])), types, others, body, lo + 1, hi)
      BY <1>3, <2>4, <2>5, <2>6
    <2> QED
      BY <2>3, <2>6, <2>7
  <1>5. CASE ~\E n \in lo + 1 .. hi : place[n] = 1
    <2>1. PICK x \in others : Lies(q, types, 1, x)
      BY <1>0, <1>1, <1>5
    <2>2. Single(x, types)
      BY <2>1
    <2>3. Consists(Rest(q, Len(x)), types, others, body, lo, hi)
      BY <1>3, <1>5, <2>1, <2>2
    <2> QED
      BY <2>1, <2>2, <2>3
  <1> QED
    BY <1>4, <1>5

\* Bodies beyond the last one do not matter.
LEMMA ConsistsSame ==
    ASSUME NEW q, NEW types, NEW others, NEW body, NEW other, NEW lo \in Nat, NEW hi \in Nat,
           \A n \in lo + 1 .. hi : body[n] = other[n],
           Consists(q, types, others, body, lo, hi)
    PROVE  Consists(q, types, others, other, lo, hi)
  BY DEF Consists

\* Where nothing is, all is behind.
LEMMA ConsistsNothing ==
    ASSUME NEW types, NEW others, NEW body, NEW lo \in Nat, NEW hi \in Nat, lo <= hi
    PROVE  /\ Consists(<<>>, types, others, body, lo, hi) => lo = hi
           /\ Consists(<<>>, types, others, body, lo, lo)
  <1>1. Heads(<<>>, types) = {}
    BY DEF Heads
  <1>2. ASSUME Consists(<<>>, types, others, body, lo, hi) PROVE lo = hi
    <2>1. PICK place \in [lo + 1 .. hi -> Heads(<<>>, types)] : TRUE
      BY <1>2 DEF Consists
    <2>2. \A n \in lo + 1 .. hi : FALSE
      BY <1>1, <2>1
    <2>3. lo < hi => lo + 1 \in lo + 1 .. hi
      OBVIOUS
    <2> QED
      BY <2>2, <2>3
  <1>3. Consists(<<>>, types, others, body, lo, lo)
    <2>1. lo + 1 .. lo = {}
      OBVIOUS
    <2>2. [n \in lo + 1 .. lo |-> 1] \in [lo + 1 .. lo -> Heads(<<>>, types)]
      BY <2>1
    <2>3. \A n \in lo + 1 .. lo : FALSE
      BY <2>1
    <2> QED
      BY <1>1, <2>2, <2>3 DEF Consists
  <1> QED
    BY <1>2, <1>3

-----------------------------------------------------------------------------
(* The messages of the reconnecting stream.                                *)

\* What a stream carries: a Hello, an Ack, or Data with a frame.
StreamMessages == {Hello, Ack} \cup {Data(Frame(m)) : m \in ChannelMessage}

\* A message of the stream has a header that says how long it is, and after it
\* bytes of the other layer.
LEMMA StreamMessageFacts ==
    ASSUME NEW x \in StreamMessages
    PROVE  \E type \in StreamTypes, len \in 0 .. LenMod - 1 :
              /\ x \in Seq(Byte) /\ Needed(type) \in 1 .. 17
              /\ type = "StreamData" => Needed(type) = 5 /\ Len(x) = 5 + len
              /\ type # "StreamData" => Len(x) = Needed(type)
              /\ \A k \in 1 .. Needed(type) : x[k] = [type |-> type, len |-> len, at |-> k]
              /\ \A k \in 1 .. Len(x) : k \in 1 .. Needed(type) \/ x[k].type \in FrameTypes
  <1>1. 17 \in 0 .. LenMod /\ 9 \in 0 .. LenMod /\ 5 \in 0 .. LenMod /\ 0 \in 0 .. LenMod - 1
    BY LenAssumption
  <1>2. Needed("Hello") = 17 /\ Needed("Ack") = 9 /\ Needed("StreamData") = 5
    BY DEF Needed
  <1>3. CASE x = Hello
    <2>1. /\ x \in Seq(Byte) /\ Len(x) = 17
          /\ \A k \in 1 .. 17 : x[k] = [type |-> "Hello", len |-> 0, at |-> k]
      <3>1. x = Bytes("Hello", 0, 17)
        BY <1>3 DEF Hello
      <3>2. PICK n \in 0 .. LenMod : n = 17
        BY <1>1
      <3>3. PICK len \in 0 .. LenMod - 1 : len = 0
        BY <1>1
      <3>4. /\ Bytes("Hello", len, n) \in Seq(Byte) /\ Len(Bytes("Hello", len, n)) = n
            /\ \A k \in 1 .. n : Bytes("Hello", len, n)[k] = [type |-> "Hello", len |-> len, at |-> k]
        BY BytesFacts
      <3> QED
        BY <3>1, <3>2, <3>3, <3>4
    <2>2. "Hello" \in StreamTypes /\ "Hello" # "StreamData" /\ 17 \in 1 .. 17
      BY DEF StreamTypes
    <2> QED
      BY <1>1, <1>2, <2>1, <2>2
  <1>4. CASE x = Ack
    <2>1. /\ x \in Seq(Byte) /\ Len(x) = 9
          /\ \A k \in 1 .. 9 : x[k] = [type |-> "Ack", len |-> 0, at |-> k]
      <3>1. x = Bytes("Ack", 0, 9)
        BY <1>4 DEF Ack
      <3>2. PICK n \in 0 .. LenMod : n = 9
        BY <1>1
      <3>3. PICK len \in 0 .. LenMod - 1 : len = 0
        BY <1>1
      <3>4. /\ Bytes("Ack", len, n) \in Seq(Byte) /\ Len(Bytes("Ack", len, n)) = n
            /\ \A k \in 1 .. n : Bytes("Ack", len, n)[k] = [type |-> "Ack", len |-> len, at |-> k]
        BY BytesFacts
      <3> QED
        BY <3>1, <3>2, <3>3, <3>4
    <2>2. "Ack" \in StreamTypes /\ "Ack" # "StreamData" /\ 9 \in 1 .. 17
      BY DEF StreamTypes
    <2> QED
      BY <1>1, <1>2, <2>1, <2>2
  <1>5. ASSUME NEW m \in ChannelMessage, x = Data(Frame(m))
        PROVE  \E type \in StreamTypes, len \in 0 .. LenMod - 1 :
                  /\ x \in Seq(Byte) /\ Needed(type) \in 1 .. 17
                  /\ type = "StreamData" => Needed(type) = 5 /\ Len(x) = 5 + len
                  /\ type # "StreamData" => Len(x) = Needed(type)
                  /\ \A k \in 1 .. Needed(type) : x[k] = [type |-> type, len |-> len, at |-> k]
                  /\ \A k \in 1 .. Len(x) : k \in 1 .. Needed(type) \/ x[k].type \in FrameTypes
    <2> DEFINE f == Frame(m)
               len == Len(f)
               h == Bytes("StreamData", len, 5)
    <2>1. f \in Seq(Byte) /\ len \in 0 .. LenMod - 1 /\ \A k \in 1 .. len : f[k].type \in FrameTypes
      <3> DEFINE t == Seen(m).type
                 n == Seen(m).n
      <3>1. /\ f \in Seq(Byte) /\ len = 13 + n
            /\ \A k \in 1 .. len : f[k] = [type |-> t, len |-> 13 + n, at |-> k]
        BY FrameFacts
      <3>2. n \in Nat /\ 13 + n < LenMod /\ t \in FrameTypes
        BY SeenFits DEF FrameTypes
      <3> HIDE DEF f, len, t, n
      <3>3. \A k \in 1 .. len : f[k].type \in FrameTypes
        <4>1. ASSUME NEW k \in 1 .. len PROVE f[k].type = t
          <5>1. f[k] = [type |-> t, len |-> 13 + n, at |-> k]
            BY <3>1
          <5> QED
            BY <5>1
        <4> QED
          BY <3>2, <4>1
      <3> QED
        BY <3>1, <3>2, <3>3, LenAssumption
    <2>2. len % LenMod = len
      BY <2>1, LenAssumption
    <2>3. x = h \o f
      BY <1>5, <2>2 DEF Data
    <2> HIDE DEF f, len
    <2>4. /\ h \in Seq(Byte) /\ Len(h) = 5
          /\ \A k \in 1 .. 5 : h[k] = [type |-> "StreamData", len |-> len, at |-> k]
      <3>1. PICK n \in 0 .. LenMod : n = 5
        BY <1>1
      <3>2. /\ Bytes("StreamData", len, n) \in Seq(Byte) /\ Len(Bytes("StreamData", len, n)) = n
            /\ \A k \in 1 .. n :
                  Bytes("StreamData", len, n)[k] = [type |-> "StreamData", len |-> len, at |-> k]
        BY <2>1, BytesFacts
      <3> QED
        BY <3>1, <3>2
    <2> HIDE DEF h
    <2>5. /\ x \in Seq(Byte) /\ Len(x) = 5 + len
          /\ \A k \in 1 .. 5 : x[k] = h[k]
          /\ \A k \in 1 .. 5 + len : k \in 1 .. 5 \/ (k - 5 \in 1 .. len /\ x[k] = f[k - 5])
      <3>1. len = Len(f)
        BY DEF len
      <3>2. /\ h \o f \in Seq(Byte) /\ Len(h \o f) = Len(h) + Len(f)
            /\ \A k \in 1 .. Len(h) : (h \o f)[k] = h[k]
            /\ \A k \in 1 .. Len(h) + Len(f) :
                  \/ k \in 1 .. Len(h)
                  \/ k - Len(h) \in 1 .. Len(f) /\ (h \o f)[k] = f[k - Len(h)]
        BY <2>1, <2>4, ConcatAt
      <3> QED
        BY <2>3, <2>4, <3>1, <3>2
    <2>6. \A k \in 1 .. Len(x) : k \in 1 .. 5 \/ x[k].type \in FrameTypes
      BY <2>1, <2>5
    <2>7. "StreamData" \in StreamTypes /\ 5 \in 1 .. 17
      BY DEF StreamTypes
    <2>8. \A k \in 1 .. 5 : x[k] = [type |-> "StreamData", len |-> len, at |-> k]
      BY <2>4, <2>5
    <2>9. PICK type \in StreamTypes : type = "StreamData"
      BY <2>7
    <2>10. /\ Needed(type) \in 1 .. 17 /\ Needed(type) = 5 /\ Len(x) = 5 + len
           /\ \A k \in 1 .. Needed(type) : x[k] = [type |-> type, len |-> len, at |-> k]
           /\ \A k \in 1 .. Len(x) : k \in 1 .. Needed(type) \/ x[k].type \in FrameTypes
      BY <1>2, <2>5, <2>6, <2>7, <2>8, <2>9
    <2> QED
      BY <2>1, <2>5, <2>9, <2>10
  <1> QED
    BY <1>3, <1>4, <1>5 DEF StreamMessages

\* It is one message of its layer.
LEMMA StreamMessageSingle ==
    ASSUME NEW x \in StreamMessages
    PROVE  Single(x, StreamTypes)
  <1>1. PICK type \in StreamTypes, len \in 0 .. LenMod - 1 :
              /\ x \in Seq(Byte) /\ Needed(type) \in 1 .. 17
              /\ type = "StreamData" => Needed(type) = 5 /\ Len(x) = 5 + len
              /\ type # "StreamData" => Len(x) = Needed(type)
              /\ \A k \in 1 .. Needed(type) : x[k] = [type |-> type, len |-> len, at |-> k]
              /\ \A k \in 1 .. Len(x) : k \in 1 .. Needed(type) \/ x[k].type \in FrameTypes
    BY StreamMessageFacts
  <1>2. Len(x) \in Nat /\ Len(x) >= Needed(type) /\ Len(x) > 0
    <2>1. CASE type = "StreamData"
      BY <1>1, <2>1, LenAssumption
    <2>2. CASE type # "StreamData"
      BY <1>1, <2>2
    <2> QED
      BY <2>1, <2>2
  <1>3. 1 \in Heads(x, StreamTypes)
    <2>1. 1 \in 1 .. Needed(type) /\ 1 \in 1 .. Len(x)
      BY <1>1, <1>2
    <2>2. x[1] = [type |-> type, len |-> len, at |-> 1]
      BY <1>1, <2>1
    <2> QED
      BY <2>1, <2>2 DEF Heads
  <1>4. ASSUME NEW p \in Heads(x, StreamTypes) PROVE p = 1
    <2>1. p \in 1 .. Len(x) /\ x[p].type \in StreamTypes /\ x[p].at = 1
      BY DEF Heads
    <2>2. p \in 1 .. Needed(type)
      BY <1>1, <2>1 DEF StreamTypes, FrameTypes
    <2>3. x[p] = [type |-> type, len |-> len, at |-> p]
      BY <1>1, <2>2
    <2> QED
      BY <2>1, <2>3
  <1> QED
    BY <1>1, <1>2, <1>3, <1>4 DEF Single

\* A frame is one message of its layer.
LEMMA FrameSingle ==
    ASSUME NEW m \in ChannelMessage
    PROVE  Single(Frame(m), FrameTypes)
  <1> DEFINE x == Frame(m)
             t == Seen(m).type
             size == 13 + Seen(m).n
  <1>1. /\ x \in Seq(Byte) /\ Len(x) = size /\ t \in FrameTypes /\ size \in Nat /\ size > 0
        /\ \A k \in 1 .. size : x[k] = [type |-> t, len |-> size, at |-> k]
    BY FrameFacts, SeenFits DEF FrameTypes
  <1> HIDE DEF x, t, size
  <1>2. 1 \in Heads(x, FrameTypes)
    BY <1>1 DEF Heads
  <1>3. \A p \in Heads(x, FrameTypes) : p = 1
    BY <1>1 DEF Heads
  <1> QED
    BY <1>1, <1>2, <1>3 DEF Single, x

\* Of a buffer that starts with a message of the stream, or with a part of one, the
\* parser takes the message or nothing, and finds no fault with it.
THEOREM StreamMessageParsed ==
    ASSUME NEW x \in StreamMessages, NEW b \in Seq(Byte), b # <<>>,
           \A k \in 1 .. Len(b) : k <= Len(x) => b[k] = x[k]
    PROVE  /\ Len(b) < Len(x) => stream_parse(b) = None
           /\ Len(b) >= Len(x) => stream_parse(b) = Some(Len(x))
           /\ b[1] = x[1]
  <1>1. PICK type \in StreamTypes, len \in 0 .. LenMod - 1 :
              /\ x \in Seq(Byte) /\ Needed(type) \in 1 .. 17
              /\ type = "StreamData" => Needed(type) = 5 /\ Len(x) = 5 + len
              /\ type # "StreamData" => Len(x) = Needed(type)
              /\ \A k \in 1 .. Needed(type) : x[k] = [type |-> type, len |-> len, at |-> k]
              /\ \A k \in 1 .. Len(x) : k \in 1 .. Needed(type) \/ x[k].type \in FrameTypes
    BY StreamMessageFacts
  <1>2. len \in Nat /\ Len(b) \in Nat /\ Len(b) > 0 /\ Len(x) \in Nat /\ Len(x) >= Needed(type)
    <2>1. len \in Nat /\ Len(b) \in Nat /\ Len(b) > 0
      BY LenAssumption
    <2>2. CASE type = "StreamData"
      BY <1>1, <2>1, <2>2
    <2>3. CASE type # "StreamData"
      BY <1>1, <2>1, <2>3
    <2> QED
      BY <2>1, <2>2, <2>3
  <1>3. b[1] = x[1] /\ b[1] = [type |-> type, len |-> len, at |-> 1]
    <2>1. 1 \in 1 .. Needed(type) /\ 1 \in 1 .. Len(b) /\ 1 <= Len(x)
      <3>1. Needed(type) >= 1
        BY <1>1
      <3> QED
        BY <1>1, <1>2, <3>1
    <2>2. b[1] = x[1]
      BY <2>1
    <2>3. x[1] = [type |-> type, len |-> len, at |-> 1]
      BY <1>1, <2>1
    <2> QED
      BY <2>2, <2>3
  <1>4. b[1].type = type /\ b[1].len = len /\ b[1].at = 1
    BY <1>3
  <1>5. CASE Len(b) < Needed(type)
    <2>1. stream_parse(b) = None
      BY <1>4, <1>5 DEF stream_parse, StreamTypes
    <2>2. Len(b) < Len(x)
      BY <1>1, <1>2, <1>5
    <2> QED
      BY <1>2, <1>3, <2>1, <2>2
  <1>6. CASE Len(b) >= Needed(type)
    <2>1. \A k \in 1 .. Needed(type) : b[k] = [type |-> b[1].type, len |-> b[1].len, at |-> k]
      <3>1. Needed(type) \in Nat
        BY <1>1
      <3>2. \A k \in 1 .. Needed(type) : k \in 1 .. Len(b) /\ k <= Len(x)
        BY <1>2, <1>6, <3>1
      <3>3. \A k \in 1 .. Needed(type) : b[k] = x[k]
        BY <3>2
      <3>4. \A k \in 1 .. Needed(type) : x[k] = [type |-> type, len |-> len, at |-> k]
        BY <1>1
      <3> QED
        BY <1>4, <3>3, <3>4, Zenon
    <2>2. Needed(type) \in 1 .. LenMod
      <3>1. Needed(type) \in 1 .. 17
        BY <1>1
      <3> QED
        BY <3>1, LenAssumption
    <2>3. Aligned(b, Needed(type))
      BY <1>4, <1>6, <2>1, <2>2, HeaderAligned DEF StreamTypes
    <2>4. CASE type # "StreamData"
      <3>1. stream_parse(b) = Some(Needed(type))
        <4>1. ~(Len(b) < Needed(type)) /\ b[1].type \in {"Hello", "Ack", "StreamData"}
          BY <1>1, <1>2, <1>4, <1>6 DEF StreamTypes
        <4> HIDE DEF Some
        <4> QED
          BY <1>4, <2>3, <2>4, <4>1 DEF stream_parse
      <3> QED
        BY <1>1, <1>2, <1>3, <1>6, <2>4, <3>1
    <2>5. CASE type = "StreamData"
      <3>1. stream_parse(b) = IF Len(b) - 5 < len THEN None ELSE Some(5 + len)
        BY <1>1, <1>2, <1>4, <1>6, <2>3, <2>5 DEF stream_parse, StreamTypes, consumed
      <3> QED
        BY <1>1, <1>2, <1>3, <2>5, <3>1
    <2> QED
      BY <2>4, <2>5
  <1> QED
    BY <1>1, <1>2, <1>5, <1>6

-----------------------------------------------------------------------------
(* What the parsers do with a buffer that consists of messages.            *)

\* Of two sequences in a row the first may lose bytes, or get some of the second.
LEMMA Cuts ==
    ASSUME NEW b \in Seq(Byte), NEW w \in Seq(Byte)
    PROVE  /\ \A n \in 0 .. Len(b) : Rest(b, n) \o w = Rest(b \o w, n)
           /\ \A n \in 0 .. Len(w) :
                 /\ SubSeq(w, 1, n) \in Seq(Byte) /\ Rest(w, n) \in Seq(Byte)
                 /\ Len(SubSeq(w, 1, n)) = n
                 /\ (b \o SubSeq(w, 1, n)) \o Rest(w, n) = b \o w
  <1>0. Len(b) \in Nat /\ Len(w) \in Nat
    OBVIOUS
  <1>1. ASSUME NEW n \in 0 .. Len(b) PROVE Rest(b, n) \o w = Rest(b \o w, n)
    <2> DEFINE c == b \o w
               r == Rest(b, n)
    <2>1. /\ c \in Seq(Byte) /\ Len(c) = Len(b) + Len(w)
          /\ \A k \in 1 .. Len(b) : c[k] = b[k]
          /\ \A k \in 1 .. Len(w) : c[Len(b) + k] = w[k]
      BY ConcatAt
    <2>2. /\ r \in Seq(Byte) /\ Len(r) = Len(b) - n
          /\ \A k \in 1 .. Len(b) - n : r[k] = b[n + k]
      BY RestAt
    <2> HIDE DEF c, r
    <2>3. n \in 0 .. Len(c)
      BY <1>0, <2>1
    <2>4. /\ Rest(c, n) \in Seq(Byte) /\ Len(Rest(c, n)) = Len(c) - n
          /\ \A k \in 1 .. Len(c) - n : Rest(c, n)[k] = c[n + k]
      BY <2>1, <2>3, RestAt
    <2>5. /\ r \o w \in Seq(Byte) /\ Len(r \o w) = Len(r) + Len(w)
          /\ \A k \in 1 .. Len(r) : (r \o w)[k] = r[k]
          /\ \A k \in 1 .. Len(r) + Len(w) :
                \/ k \in 1 .. Len(r)
                \/ k - Len(r) \in 1 .. Len(w) /\ (r \o w)[k] = w[k - Len(r)]
      BY <2>2, ConcatAt
    <2>6. Len(r \o w) = Len(Rest(c, n))
      BY <1>0, <2>1, <2>2, <2>4, <2>5
    <2>7. ASSUME NEW k \in 1 .. Len(r \o w) PROVE (r \o w)[k] = Rest(c, n)[k]
      <3>1. k \in 1 .. Len(r) + Len(w) /\ Rest(c, n)[k] = c[n + k]
        BY <2>4, <2>5, <2>6
      <3>2. CASE k \in 1 .. Len(r)
        <4>1. n + k \in 1 .. Len(b) /\ k \in 1 .. Len(b) - n
          BY <1>0, <2>2, <3>2
        <4> QED
          BY <2>1, <2>2, <2>5, <3>1, <3>2, <4>1
      <3>3. CASE k - Len(r) \in 1 .. Len(w) /\ (r \o w)[k] = w[k - Len(r)]
        <4>1. n + k = Len(b) + (k - Len(r))
          BY <1>0, <2>2
        <4> QED
          BY <2>1, <3>1, <3>3, <4>1
      <3> QED
        BY <2>5, <3>1, <3>2, <3>3
    <2>8. r \o w = Rest(c, n)
      BY <2>4, <2>5, <2>6, <2>7, SeqEqual
    <2> QED
      BY <2>8 DEF r, c
  <1>2. ASSUME NEW n \in 0 .. Len(w)
        PROVE  /\ SubSeq(w, 1, n) \in Seq(Byte) /\ Rest(w, n) \in Seq(Byte)
               /\ Len(SubSeq(w, 1, n)) = n
               /\ (b \o SubSeq(w, 1, n)) \o Rest(w, n) = b \o w
    <2> DEFINE s == SubSeq(w, 1, n)
               r == Rest(w, n)
    <2>1. s \in Seq(Byte) /\ Len(s) = n /\ \A k \in 1 .. n : s[k] = w[k]
      BY <1>0
    <2>2. /\ r \in Seq(Byte) /\ Len(r) = Len(w) - n
          /\ \A k \in 1 .. Len(w) - n : r[k] = w[n + k]
      BY RestAt
    <2> HIDE DEF s, r
    <2>3. s \o r \in Seq(Byte) /\ Len(s \o r) = Len(w)
      <3>1. s \o r \in Seq(Byte) /\ Len(s \o r) = Len(s) + Len(r)
        BY <2>1, <2>2, ConcatAt
      <3> QED
        BY <1>0, <2>1, <2>2, <3>1
    <2>4. ASSUME NEW k \in 1 .. Len(w) PROVE (s \o r)[k] = w[k]
      <3>1. CASE k \in 1 .. n
        BY <2>1, <2>2, <3>1
      <3>2. CASE k \notin 1 .. n
        <4>1. k - n \in 1 .. Len(r) /\ n + (k - n) = k /\ k - n \in 1 .. Len(w) - n
          BY <1>0, <2>2, <3>2
        <4>2. \A i \in 1 .. Len(r) : (s \o r)[Len(s) + i] = r[i]
          BY <2>1, <2>2, ConcatAt
        <4>3. (s \o r)[n + (k - n)] = r[k - n]
          BY <2>1, <4>1, <4>2
        <4>4. r[k - n] = w[n + (k - n)]
          BY <2>2, <4>1
        <4> QED
          BY <4>1, <4>3, <4>4
      <3> QED
        BY <3>1, <3>2
    <2>5. s \o r = w
      BY <2>3, <2>4, SeqEqual
    <2>6. (b \o s) \o r = b \o (s \o r)
      <3>1. s \in Seq(Byte) /\ r \in Seq(Byte)
        BY <2>1, <2>2
      <3> QED
        BY <3>1, ConcatThree, Zenon
    <2> QED
      BY <2>1, <2>2, <2>5, <2>6 DEF s, r
  <1> QED
    BY <1>1, <1>2

\* The buffer of FramedRead starts with a message or with a part of one, and behind
\* that message everything consists of the others.
LEMMA FirstOfStream ==
    ASSUME NEW b \in Seq(Byte), NEW w \in Seq(Byte), b # <<>>,
           NEW body, NEW lo \in Nat, NEW hi \in Nat,
           \A n \in lo + 1 .. hi : body[n] \in StreamMessages,
           Consists(b \o w, StreamTypes, {Hello, Ack}, body, lo, hi)
    PROVE  \E x \in StreamMessages :
              /\ x \in Seq(Byte) /\ Len(x) <= Len(b \o w)
              /\ \A k \in 1 .. Len(b) : k <= Len(x) => b[k] = x[k]
              /\ Len(b) < Len(x) => stream_parse(b) = None
              /\ Len(b) >= Len(x) => stream_parse(b) = Some(Len(x))
              /\ \/ /\ x \in {Hello, Ack}
                    /\ Consists(Rest(b \o w, Len(x)), StreamTypes, {Hello, Ack}, body, lo, hi)
                 \/ /\ lo + 1 <= hi /\ x = body[lo + 1]
                    /\ Consists(Rest(b \o w, Len(x)), StreamTypes, {Hello, Ack}, body, lo + 1, hi)
  <1> DEFINE q == b \o w
             others == {Hello, Ack}
  <1>1. /\ q \in Seq(Byte) /\ Len(b) \in Nat /\ Len(w) \in Nat /\ Len(q) = Len(b) + Len(w)
        /\ \A k \in 1 .. Len(b) : q[k] = b[k]
    BY ConcatAt
  <1>2. Len(b) > 0 /\ q # <<>>
    BY <1>1
  <1>3. others \subseteq StreamMessages
    BY DEF StreamMessages
  <1>4. (\A y \in others : Single(y, StreamTypes))
        /\ (\A n \in lo + 1 .. hi : Single(body[n], StreamTypes))
    BY <1>3, StreamMessageSingle
  <1> HIDE DEF q
  <1>5. Consists(q, StreamTypes, others, body, lo, hi)
    BY DEF q
  <1> HIDE DEF others
  <1>6. PICK x : /\ Lies(q, StreamTypes, 1, x) /\ Single(x, StreamTypes)
                 /\ \/ x \in others /\ Consists(Rest(q, Len(x)), StreamTypes, others, body, lo, hi)
                    \/ /\ lo + 1 <= hi /\ x = body[lo + 1]
                       /\ Consists(Rest(q, Len(x)), StreamTypes, others, body, lo + 1, hi)
    BY <1>1, <1>2, <1>4, <1>5, ConsistsRest
  <1>7. x \in StreamMessages
    <2>1. lo + 1 <= hi => lo + 1 \in lo + 1 .. hi
      OBVIOUS
    <2> QED
      BY <1>3, <1>6, <2>1
  <1>8. x \in Seq(Byte) /\ Len(x) \in Nat /\ \A k \in 1 .. Len(x) : q[1 + k - 1] = x[k]
    BY <1>6 DEF Lies, Single
  <1>9. \A k \in 1 .. Len(b) : k <= Len(x) => b[k] = x[k]
    <2>1. \A k \in 1 .. Len(x) : 1 + k - 1 = k
      BY <1>8
    <2>2. \A k \in 1 .. Len(b) : k <= Len(x) => k \in 1 .. Len(x)
      BY <1>8, <1>1
    <2> QED
      BY <1>1, <1>8, <2>1, <2>2
  <1>10. /\ Len(b) < Len(x) => stream_parse(b) = None
         /\ Len(b) >= Len(x) => stream_parse(b) = Some(Len(x))
    BY <1>7, <1>9, StreamMessageParsed
  <1>11. Len(x) <= Len(q)
    <2>1. 1 + Len(x) \in Heads(q, StreamTypes) \cup {Len(q) + 1}
      BY <1>6 DEF Lies
    <2> QED
      BY <1>1, <1>8, <2>1 DEF Heads
  <1> QED
    BY <1>6, <1>7, <1>8, <1>9, <1>10, <1>11 DEF q, others

\* So the parser of the stream never fails.
LEMMA StreamNoError ==
    ASSUME NEW b \in Seq(Byte), NEW w \in Seq(Byte),
           NEW body, NEW lo \in Nat, NEW hi \in Nat,
           \A n \in lo + 1 .. hi : body[n] \in StreamMessages,
           Consists(b \o w, StreamTypes, {Hello, Ack}, body, lo, hi)
    PROVE  stream_parse(b) # Error
  <1>1. None # Error /\ \A k : Some(k) # Error
    <2>1. None.found # Error.found /\ \A k : Some(k).found # Error.found
      BY DEF None, Error, Some
    <2> QED
      BY <2>1
  <1>2. CASE b = <<>>
    BY <1>1, <1>2 DEF stream_parse
  <1>3. CASE b # <<>>
    <2>1. PICK x \in StreamMessages :
              /\ x \in Seq(Byte)
              /\ Len(b) < Len(x) => stream_parse(b) = None
              /\ Len(b) >= Len(x) => stream_parse(b) = Some(Len(x))
      BY <1>3, FirstOfStream
    <2>2. Len(b) < Len(x) \/ Len(b) >= Len(x)
      BY <2>1
    <2> QED
      BY <1>1, <2>1, <2>2
  <1> QED
    BY <1>2, <1>3

\* A buffer that starts with the Data of a frame gives that frame.
LEMMA PayloadIsFrame ==
    ASSUME NEW m \in ChannelMessage, NEW b \in Seq(Byte), NEW x, x = Data(Frame(m)),
           Len(b) >= Len(x), \A k \in 1 .. Len(b) : k <= Len(x) => b[k] = x[k]
    PROVE  b[1].type = "StreamData" /\ SubSeq(b, 6, 5 + b[1].len) = Frame(m)
  <1> DEFINE f == Frame(m)
             len == Len(f)
             h == Bytes("StreamData", len, 5)
  <1>1. f \in Seq(Byte) /\ len \in 0 .. LenMod - 1 /\ len \in Nat
    <2>1. f \in Seq(Byte) /\ len = 13 + Seen(m).n
      BY FrameFacts
    <2>2. Seen(m).n \in Nat /\ 13 + Seen(m).n < LenMod
      BY SeenFits
    <2> HIDE DEF f, len
    <2> QED
      BY <2>1, <2>2, LenAssumption
  <1>2. x = h \o f
    <2>1. len % LenMod = len
      BY <1>1, LenAssumption
    <2> QED
      BY <2>1 DEF Data
  <1> HIDE DEF len
  <1>3. /\ h \in Seq(Byte) /\ Len(h) = 5
        /\ \A k \in 1 .. 5 : h[k] = [type |-> "StreamData", len |-> len, at |-> k]
    <2>1. PICK n \in 0 .. LenMod : n = 5
      BY LenAssumption
    <2>2. /\ Bytes("StreamData", len, n) \in Seq(Byte) /\ Len(Bytes("StreamData", len, n)) = n
          /\ \A k \in 1 .. n :
                Bytes("StreamData", len, n)[k] = [type |-> "StreamData", len |-> len, at |-> k]
      BY <1>1, BytesFacts
    <2> QED
      BY <2>1, <2>2
  <1> HIDE DEF f, h
  <1>4. len = Len(f)
    BY DEF len, f
  <1>5. /\ x \in Seq(Byte) /\ Len(x) = 5 + len
        /\ \A k \in 1 .. 5 : x[k] = h[k]
        /\ \A k \in 1 .. len : x[5 + k] = f[k]
    <2>1. /\ h \o f \in Seq(Byte) /\ Len(h \o f) = Len(h) + Len(f)
          /\ \A k \in 1 .. Len(h) : (h \o f)[k] = h[k]
          /\ \A k \in 1 .. Len(f) : (h \o f)[Len(h) + k] = f[k]
      BY <1>1, <1>3, ConcatAt
    <2> QED
      BY <1>2, <1>3, <1>4, <2>1
  <1>6. \A k \in 1 .. 5 + len : b[k] = x[k]
    BY <1>1, <1>5
  <1>7. b[1].type = "StreamData" /\ b[1].len = len
    <2>1. b[1] = [type |-> "StreamData", len |-> len, at |-> 1]
      BY <1>1, <1>3, <1>5, <1>6
    <2> QED
      BY <2>1
  <1>8. SubSeq(b, 6, 5 + len) = f
    <2>1. /\ SubSeq(b, 6, 5 + len) \in Seq(Byte)
          /\ Len(SubSeq(b, 6, 5 + len)) = len
          /\ \A k \in 1 .. len : SubSeq(b, 6, 5 + len)[k] = b[5 + k]
      <3>1. Len(b) \in Nat /\ 5 + len <= Len(b)
        BY <1>5
      <3>2. \A k \in 6 .. 5 + len : b[k] \in Byte
        BY <1>1, <3>1
      <3> QED
        BY <1>1, <3>1, <3>2
    <2>2. \A k \in 1 .. len : b[5 + k] = f[k]
      <3>1. \A k \in 1 .. len : 5 + k \in 1 .. 5 + len
        BY <1>1
      <3> QED
        BY <1>5, <1>6, <3>1
    <2> QED
      BY <1>1, <1>4, <2>1, <2>2, SeqEqual
  <1> QED
    BY <1>7, <1>8 DEF f

\* The Hello and the Ack are no Data.
LEMMA OthersAreNoData ==
    /\ Hello \in Seq(Byte) /\ Ack \in Seq(Byte) /\ Hello # <<>> /\ Ack # <<>>
    /\ Hello[1].type # "StreamData" /\ Ack[1].type # "StreamData"
  <1>1. PICK zero \in 0 .. LenMod - 1 : zero = 0
    BY LenAssumption
  <1>2. PICK n \in 0 .. LenMod : n = 17
    BY LenAssumption
  <1>3. PICK k \in 0 .. LenMod : k = 9
    BY LenAssumption
  <1>4. /\ Bytes("Hello", zero, n) \in Seq(Byte) /\ Len(Bytes("Hello", zero, n)) = n
        /\ \A i \in 1 .. n : Bytes("Hello", zero, n)[i] = [type |-> "Hello", len |-> zero, at |-> i]
    BY BytesFacts
  <1>5. /\ Bytes("Ack", zero, k) \in Seq(Byte) /\ Len(Bytes("Ack", zero, k)) = k
        /\ \A i \in 1 .. k : Bytes("Ack", zero, k)[i] = [type |-> "Ack", len |-> zero, at |-> i]
    BY BytesFacts
  <1>6. /\ Hello \in Seq(Byte) /\ Len(Hello) = 17
        /\ Hello[1] = [type |-> "Hello", len |-> 0, at |-> 1]
    <2>1. Hello = Bytes("Hello", zero, n)
      BY <1>1, <1>2 DEF Hello
    <2>2. 1 \in 1 .. n
      BY <1>2
    <2> QED
      BY <1>1, <1>2, <1>4, <2>1, <2>2
  <1>7. /\ Ack \in Seq(Byte) /\ Len(Ack) = 9
        /\ Ack[1] = [type |-> "Ack", len |-> 0, at |-> 1]
    <2>1. Ack = Bytes("Ack", zero, k)
      BY <1>1, <1>3 DEF Ack
    <2>2. 1 \in 1 .. k
      BY <1>3
    <2> QED
      BY <1>1, <1>3, <1>5, <2>1, <2>2
  <1>8. Hello[1].type = "Hello" /\ Ack[1].type = "Ack"
    BY <1>6, <1>7
  <1>9. Hello # <<>> /\ Ack # <<>>
    <2>1. \A q : q = <<>> => Len(q) = 0
      OBVIOUS
    <2>2. Len(Hello) # 0 /\ Len(Ack) # 0
      <3>1. Len(Hello) = 17 /\ Len(Ack) = 9
        BY <1>6, <1>7
      <3> QED
        BY <3>1
    <2> QED
      BY <2>1, <2>2, Zenon
  <1> QED
    BY <1>6, <1>7, <1>8, <1>9

\* The buffer of the multiplexer's parser starts with the frame of the next message,
\* and behind it consists of the others.
LEMMA FirstOfFrames ==
    ASSUME NEW ms \in Seq(ChannelMessage), NEW q \in Seq(Byte), q # <<>>,
           NEW lo \in Nat, NEW hi \in Nat, hi <= Len(ms),
           Consists(q, FrameTypes, {}, Frames(ms), lo, hi)
    PROVE  LET f == Frame(ms[lo + 1]) IN
           /\ lo + 1 \in 1 .. Len(ms) /\ lo + 1 <= hi
           /\ parse(q) = Some(Len(f)) /\ Len(f) \in 0 .. Len(q)
           /\ [type |-> q[1].type, n |-> q[1].len - 13] = Seen(ms[lo + 1])
           /\ Consists(Rest(q, Len(f)), FrameTypes, {}, Frames(ms), lo + 1, hi)
  <1>0. Len(ms) \in Nat /\ Len(q) \in Nat
    OBVIOUS
  <1>1. \A n \in lo + 1 .. hi : n \in 1 .. Len(ms) /\ ms[n] \in ChannelMessage
                                /\ Frames(ms)[n] = Frame(ms[n])
    <2>1. \A n \in lo + 1 .. hi : n \in 1 .. Len(ms)
      BY <1>0
    <2> QED
      BY <2>1 DEF Frames
  <1>2. \A n \in lo + 1 .. hi : Single(Frames(ms)[n], FrameTypes)
    BY <1>1, FrameSingle
  <1> DEFINE body == Frames(ms)
             none == {}
  <1>3. \A y \in none : Single(y, FrameTypes)
    OBVIOUS
  <1> HIDE DEF body
  <1>4. Consists(q, FrameTypes, none, body, lo, hi)
        /\ \A n \in lo + 1 .. hi : Single(body[n], FrameTypes)
    BY <1>2 DEF body
  <1> HIDE DEF none
  <1>5. PICK x : /\ Lies(q, FrameTypes, 1, x) /\ Single(x, FrameTypes)
                 /\ \/ x \in none /\ Consists(Rest(q, Len(x)), FrameTypes, none, body, lo, hi)
                    \/ /\ lo + 1 <= hi /\ x = body[lo + 1]
                       /\ Consists(Rest(q, Len(x)), FrameTypes, none, body, lo + 1, hi)
    BY <1>3, <1>4, ConsistsRest
  <1>6. /\ lo + 1 <= hi /\ x = body[lo + 1]
        /\ Consists(Rest(q, Len(x)), FrameTypes, none, body, lo + 1, hi)
    BY <1>5 DEF none
  <1>7. lo + 1 \in lo + 1 .. hi
    BY <1>6
  <1>8. lo + 1 \in 1 .. Len(ms) /\ ms[lo + 1] \in ChannelMessage /\ x = Frame(ms[lo + 1])
    BY <1>1, <1>6, <1>7 DEF body
  <1>9. /\ x \in Seq(Byte) /\ Len(x) \in Nat /\ 1 + Len(x) \in Heads(q, FrameTypes) \cup {Len(q) + 1}
        /\ \A k \in 1 .. Len(x) : q[1 + k - 1] = x[k]
    BY <1>5 DEF Lies, Single
  <1>10. Len(x) <= Len(q) /\ \A k \in 1 .. Len(x) : q[k] = x[k]
    <2>1. \A k \in 1 .. Len(x) : 1 + k - 1 = k
      BY <1>9
    <2> QED
      BY <1>0, <1>9, <2>1 DEF Heads
  <1> DEFINE rest == Rest(q, Len(x))
  <1>11. rest \in Seq(Byte) /\ q = x \o rest
    <2>1. Len(x) \in 0 .. Len(q)
      BY <1>0, <1>9, <1>10
    <2>2. /\ rest \in Seq(Byte) /\ Len(rest) = Len(q) - Len(x)
          /\ \A k \in 1 .. Len(q) - Len(x) : rest[k] = q[Len(x) + k]
      BY <2>1, RestAt
    <2> HIDE DEF rest
    <2>3. /\ x \o rest \in Seq(Byte) /\ Len(x \o rest) = Len(x) + Len(rest)
          /\ \A k \in 1 .. Len(x) : (x \o rest)[k] = x[k]
          /\ \A k \in 1 .. Len(x) + Len(rest) :
                \/ k \in 1 .. Len(x)
                \/ k - Len(x) \in 1 .. Len(rest) /\ (x \o rest)[k] = rest[k - Len(x)]
      BY <1>9, <2>2, ConcatAt
    <2>4. Len(x \o rest) = Len(q)
      BY <1>0, <1>9, <2>2, <2>3
    <2>5. ASSUME NEW k \in 1 .. Len(q) PROVE (x \o rest)[k] = q[k]
      <3>1. CASE k \in 1 .. Len(x)
        BY <1>10, <2>3, <3>1
      <3>2. CASE k - Len(x) \in 1 .. Len(rest) /\ (x \o rest)[k] = rest[k - Len(x)]
        <4>1. Len(x) + (k - Len(x)) = k /\ k - Len(x) \in 1 .. Len(q) - Len(x)
          BY <1>0, <1>9, <2>2, <3>2
        <4> QED
          BY <2>2, <3>2, <4>1
      <3>3. k \in 1 .. Len(x) + Len(rest)
        BY <1>0, <1>9, <2>2
      <3> QED
        BY <2>3, <3>1, <3>2, <3>3
    <2> QED
      BY <2>2, <2>3, <2>4, <2>5, SeqEqual
  <1> HIDE DEF rest
  <1>12. /\ parse(Frame(ms[lo + 1]) \o rest) = Some(Len(Frame(ms[lo + 1])))
         /\ [type |-> (Frame(ms[lo + 1]) \o rest)[1].type,
             n |-> (Frame(ms[lo + 1]) \o rest)[1].len - 13] = Seen(ms[lo + 1])
    BY <1>8, <1>11, FrameIsParsed
  <1>13. parse(q) = Some(Len(x)) /\ [type |-> q[1].type, n |-> q[1].len - 13] = Seen(ms[lo + 1])
    BY <1>8, <1>11, <1>12
  <1>14. Len(x) \in 0 .. Len(q)
    BY <1>0, <1>9, <1>10
  <1> QED
    BY <1>6, <1>8, <1>13, <1>14 DEF none, body

\* So the multiplexer's parser never fails.
LEMMA FramesNoError ==
    ASSUME NEW ms \in Seq(ChannelMessage), NEW q \in Seq(Byte),
           NEW lo \in Nat, NEW hi \in Nat, hi <= Len(ms),
           Consists(q, FrameTypes, {}, Frames(ms), lo, hi)
    PROVE  parse(q) # Error
  <1>1. None # Error /\ \A k : Some(k) # Error
    <2>1. None.found # Error.found /\ \A k : Some(k).found # Error.found
      BY DEF None, Error, Some
    <2> QED
      BY <2>1
  <1>2. CASE q = <<>>
    BY <1>1, <1>2 DEF parse
  <1>3. CASE q # <<>>
    <2>1. parse(q) = Some(Len(Frame(ms[lo + 1])))
      BY <1>3, FirstOfFrames
    <2> QED
      BY <1>1, <2>1
  <1> QED
    BY <1>2, <1>3

-----------------------------------------------------------------------------
(* The invariant, step by step.                                            *)

\* The messages that were given, and what carries them.
LEMMA Carried ==
    ASSUME NEW ms \in Seq(ChannelMessage), NEW n \in 1 .. Len(ms)
    PROVE  /\ ms[n] \in ChannelMessage
           /\ Frames(ms)[n] = Frame(ms[n]) /\ Frame(ms[n]) \in Seq(Byte)
           /\ Datas(ms)[n] = Data(Frame(ms[n])) /\ Datas(ms)[n] \in StreamMessages
           /\ Datas(ms)[n] \in Seq(Byte)
  <1>1. ms[n] \in ChannelMessage
    OBVIOUS
  <1>2. Frames(ms)[n] = Frame(ms[n]) /\ Frame(ms[n]) \in Seq(Byte)
    BY <1>1, FrameFacts DEF Frames
  <1>3. Datas(ms)[n] = Data(Frame(ms[n])) /\ Datas(ms)[n] \in StreamMessages
    BY <1>1 DEF Datas, StreamMessages
  <1> QED
    BY <1>1, <1>2, <1>3, StreamMessageFacts

\* A new connection carries a Hello and none of the messages.
LEMMA OnlyHello ==
    ASSUME NEW body, NEW n \in Nat
    PROVE  Consists(<<>> \o Hello, StreamTypes, {Hello, Ack}, body, n, n)
  <1> DEFINE others == {Hello, Ack}
  <1>1. Consists(<<>>, StreamTypes, others, body, n, n)
    BY ConsistsNothing
  <1>2. Hello \in StreamMessages
    BY DEF StreamMessages
  <1>3. Single(Hello, StreamTypes)
    BY <1>2, StreamMessageSingle
  <1>4. \A y \in others : y \in Seq(Byte)
    BY OthersAreNoData
  <1>5. \A k \in n + 1 .. n : body[k] \in Seq(Byte)
    OBVIOUS
  <1>6. <<>> \in Seq(Byte) /\ n <= n /\ Hello \in others
    OBVIOUS
  <1> HIDE DEF others
  <1>7. Consists(<<>> \o Hello, StreamTypes, others, body, n, n)
    BY <1>1, <1>3, <1>4, <1>5, <1>6, ConsistsMore
  <1> QED
    BY <1>7 DEF others

\* The numbers and sequences of a state.
LEMMA StateFacts ==
    ASSUME CodecInv
    PROVE  /\ given \in Seq(ChannelMessage) /\ Len(given) \in Nat
           /\ wire \in Seq(Byte) /\ buf \in Seq(Byte) /\ buffer \in Seq(Byte)
           /\ written \in Nat /\ received \in Nat /\ Len(decoded) \in Nat
           /\ Len(decoded) <= received /\ received <= written /\ written <= Len(given)
           /\ \A n \in received + 1 .. written :
                 /\ n \in 1 .. Len(given)
                 /\ Datas(given)[n] \in StreamMessages /\ Datas(given)[n] \in Seq(Byte)
           /\ \A n \in Len(decoded) + 1 .. received :
                 n \in 1 .. Len(given) /\ Frames(given)[n] \in Seq(Byte)
  <1>1. /\ given \in Seq(ChannelMessage) /\ Len(given) \in Nat
        /\ wire \in Seq(Byte) /\ buf \in Seq(Byte) /\ buffer \in Seq(Byte)
        /\ written \in Nat /\ received \in Nat /\ Len(decoded) \in Nat
        /\ Len(decoded) <= received /\ received <= written /\ written <= Len(given)
    BY DEF CodecInv, TypeOK
  <1>2. (\A n \in received + 1 .. written : n \in 1 .. Len(given))
        /\ (\A n \in Len(decoded) + 1 .. received : n \in 1 .. Len(given))
    BY <1>1
  <1>3. \A n \in 1 .. Len(given) :
           /\ Datas(given)[n] \in StreamMessages /\ Datas(given)[n] \in Seq(Byte)
           /\ Frames(given)[n] \in Seq(Byte)
    BY <1>1, Carried
  <1> QED
    BY <1>1, <1>2, <1>3

\* It holds in the beginning, when only a Hello is under way.
LEMMA InitInv == Init => CodecInv
  <1> SUFFICES ASSUME Init PROVE CodecInv
    OBVIOUS
  <1>1. /\ given = <<>> /\ written = 0 /\ wire = Hello /\ buf = <<>> /\ received = 0
        /\ buffer = <<>> /\ decoded = <<>> /\ failed = FALSE /\ acks = 0 /\ breaks = 0
    BY DEF Init
  <1>2. TypeOK
    <2>1. wire \in Seq(Byte) /\ buf \in Seq(Byte) /\ buffer \in Seq(Byte)
      BY <1>1, OthersAreNoData
    <2>2. \A S : <<>> \in Seq(S) /\ Len(<<>>) = 0
      OBVIOUS
    <2>3. written \in 0 .. Len(given) /\ received \in 0 .. Len(given)
          /\ given \in Seq(ChannelMessage)
          /\ decoded \in Seq(ChannelMessage \cup [type : {"Error"}, n : {13, 19}])
      BY <1>1, <2>2
    <2>4. failed \in BOOLEAN
      BY <1>1, Zenon
    <2>5. acks \in 0 .. MaxAcks /\ breaks \in 0 .. MaxBreaks
      <3>1. acks = 0 /\ breaks = 0
        BY <1>1
      <3> QED
        BY <3>1, BoundAssumption
    <2> QED
      BY <2>1, <2>3, <2>4, <2>5 DEF TypeOK
  <1>3. Len(decoded) = 0 /\ 0 \in Nat
    BY <1>1
  <1>4. DecodedSeen
    BY <1>3 DEF DecodedSeen
  <1>5. UnderWay
    BY <1>1, <1>3, OnlyHello DEF UnderWay
  <1>6. Buffered
    BY <1>1, <1>3, ConsistsNothing DEF Buffered
  <1> QED
    BY <1>1, <1>2, <1>3, <1>4, <1>5, <1>6 DEF CodecInv

\* A message that is given changes nothing for those before it.
LEMMA GiveInv ==
    ASSUME CodecInv, NEW m \in ChannelMessage, Give(m)
    PROVE  CodecInv'
  <1>1. /\ given' = Append(given, m)
        /\ UNCHANGED <<written, wire, buf, received, buffer, decoded, failed, acks, breaks>>
    BY DEF Give
  <1>2. /\ given' \in Seq(ChannelMessage) /\ Len(given') = Len(given) + 1
        /\ \A n \in 1 .. Len(given) : given'[n] = given[n] /\ n \in 1 .. Len(given')
    BY <1>1, StateFacts
  <1>3. \A n \in 1 .. Len(given) : Datas(given')[n] = Datas(given)[n] /\ Frames(given')[n] = Frames(given)[n]
    BY <1>2 DEF Datas, Frames
  <1>4. TypeOK'
    BY <1>1, <1>2, StateFacts DEF CodecInv, TypeOK
  <1>5. DecodedSeen'
    BY <1>1, <1>2, StateFacts DEF CodecInv, DecodedSeen
  <1>6. UnderWay'
    <2>1. Consists(buf \o wire, StreamTypes, {Hello, Ack}, Datas(given), received, written)
      BY DEF CodecInv, UnderWay
    <2>2. \A n \in received + 1 .. written : Datas(given)[n] = Datas(given')[n]
      BY <1>3, StateFacts
    <2>3. Consists(buf \o wire, StreamTypes, {Hello, Ack}, Datas(given'), received, written)
      BY <2>1, <2>2, StateFacts, ConsistsSame
    <2> QED
      BY <1>1, <2>3 DEF UnderWay
  <1>7. Buffered'
    <2>1. Consists(buffer, FrameTypes, {}, Frames(given), Len(decoded), received)
      BY DEF CodecInv, Buffered
    <2>2. \A n \in Len(decoded) + 1 .. received : Frames(given)[n] = Frames(given')[n]
      BY <1>3, StateFacts
    <2>3. Consists(buffer, FrameTypes, {}, Frames(given'), Len(decoded), received)
      BY <2>1, <2>2, StateFacts, ConsistsSame
    <2> QED
      BY <1>1, <2>3 DEF Buffered
  <1> QED
    BY <1>1, <1>4, <1>5, <1>6, <1>7 DEF CodecInv

\* One more message of the stream behind what is under way.
LEMMA WireMore ==
    ASSUME CodecInv, NEW x \in StreamMessages
    PROVE  /\ wire \o x \in Seq(Byte)
           /\ x \in {Hello, Ack} =>
                 Consists(buf \o (wire \o x), StreamTypes, {Hello, Ack}, Datas(given), received, written)
           /\ Datas(given)[written + 1] = x =>
                 Consists(buf \o (wire \o x), StreamTypes, {Hello, Ack}, Datas(given), received, written + 1)
  <1> DEFINE q == buf \o wire
             others == {Hello, Ack}
             body == Datas(given)
  <1>1. Single(x, StreamTypes) /\ x \in Seq(Byte)
    BY StreamMessageSingle DEF Single
  <1>2. wire \in Seq(Byte) /\ buf \in Seq(Byte) /\ q \in Seq(Byte)
    BY StateFacts, ConcatAt
  <1>3. q \o x = buf \o (wire \o x) /\ wire \o x \in Seq(Byte)
    BY <1>1, <1>2, ConcatThree, ConcatAt
  <1>4. \A y \in others : y \in Seq(Byte)
    BY OthersAreNoData
  <1>5. /\ received \in Nat /\ written \in Nat /\ received <= written
        /\ \A n \in received + 1 .. written : body[n] \in Seq(Byte)
    BY StateFacts
  <1>6. Consists(q, StreamTypes, others, body, received, written)
    BY DEF CodecInv, UnderWay
  <1> HIDE DEF q, others, body
  <1>7. /\ x \in others => Consists(q \o x, StreamTypes, others, body, received, written)
        /\ body[written + 1] = x =>
              Consists(q \o x, StreamTypes, others, body, received, written + 1)
    BY <1>1, <1>2, <1>4, <1>5, <1>6, ConsistsMore
  <1> QED
    BY <1>3, <1>7 DEF others, body

\* What the stream writes is the next message, and its length fits.
LEMMA WriteDataInv ==
    ASSUME CodecInv, WriteData
    PROVE  CodecInv'
  <1> DEFINE payload == Frame(given[written + 1])
  <1>1. /\ written < Len(given) /\ wire' = wire \o Data(payload)
        /\ failed' = (failed \/ Panics(payload)) /\ written' = written + 1
        /\ UNCHANGED <<given, buf, received, buffer, decoded, acks, breaks>>
    BY DEF WriteData
  <1>2. written + 1 \in 1 .. Len(given)
    BY <1>1, StateFacts
  <1>3. /\ given[written + 1] \in ChannelMessage /\ Datas(given)[written + 1] = Data(payload)
        /\ Data(payload) \in StreamMessages
    BY <1>2, StateFacts, Carried
  <1>4. Panics(payload) = FALSE
    <2>1. Len(payload) = 13 + Seen(given[written + 1]).n
      BY <1>3, FrameFacts
    <2>2. Seen(given[written + 1]).n \in Nat /\ 13 + Seen(given[written + 1]).n < LenMod
      BY <1>3, SeenFits
    <2> HIDE DEF payload
    <2> QED
      BY <2>1, <2>2, LenAssumption DEF Panics
  <1> DEFINE x == Data(payload)
  <1>5. x \in StreamMessages /\ Datas(given)[written + 1] = x
    BY <1>3
  <1>6. wire' = wire \o x
    BY <1>1
  <1> HIDE DEF payload, x
  <1>7. /\ wire \o x \in Seq(Byte)
        /\ Consists(buf \o (wire \o x), StreamTypes, {Hello, Ack}, Datas(given), received, written + 1)
    BY <1>5, WireMore
  <1>8. UnderWay'
    BY <1>1, <1>6, <1>7 DEF UnderWay
  <1>9. TypeOK'
    BY <1>1, <1>2, <1>4, <1>6, <1>7, StateFacts DEF CodecInv, TypeOK
  <1>10. DecodedSeen' /\ Buffered'
    BY <1>1 DEF CodecInv, DecodedSeen, Buffered
  <1>11. ~failed'
    BY <1>1, <1>4 DEF CodecInv
  <1>12. Len(decoded') <= received' /\ received' <= written'
    BY <1>1, StateFacts
  <1> QED
    BY <1>8, <1>9, <1>10, <1>11, <1>12 DEF CodecInv

\* An Ack may stand between the messages.
LEMMA WriteAckInv ==
    ASSUME CodecInv, WriteAck
    PROVE  CodecInv'
  <1>1. /\ acks < MaxAcks /\ acks' = acks + 1 /\ wire' = wire \o Ack
        /\ UNCHANGED <<given, written, buf, received, buffer, decoded, failed, breaks>>
    BY DEF WriteAck
  <1>2. Ack \in StreamMessages /\ Ack \in {Hello, Ack}
    BY DEF StreamMessages
  <1>3. /\ wire \o Ack \in Seq(Byte)
        /\ Consists(buf \o (wire \o Ack), StreamTypes, {Hello, Ack}, Datas(given), received, written)
    BY <1>2, WireMore
  <1>4. UnderWay'
    BY <1>1, <1>3 DEF UnderWay
  <1>5. TypeOK'
    <2>1. acks' \in 0 .. MaxAcks
      BY <1>1, BoundAssumption DEF CodecInv, TypeOK
    <2> QED
      BY <1>1, <1>3, <2>1 DEF CodecInv, TypeOK
  <1>6. DecodedSeen' /\ Buffered'
    BY <1>1 DEF CodecInv, DecodedSeen, Buffered
  <1> QED
    BY <1>1, <1>4, <1>5, <1>6 DEF CodecInv

\* Reading moves bytes from the wire to the buffer, wherever it cuts them.
LEMMA ReadChunkInv ==
    ASSUME CodecInv, NEW n \in 1 .. Len(wire), ReadChunk(n)
    PROVE  CodecInv'
  <1>1. /\ buf' = buf \o SubSeq(wire, 1, n) /\ wire' = Rest(wire, n)
        /\ failed' = (failed \/ stream_parse(buf') = Error)
        /\ UNCHANGED <<given, written, received, buffer, decoded, acks, breaks>>
    BY DEF ReadChunk, Rest
  <1>2. n \in 0 .. Len(wire)
    BY StateFacts
  <1>3. /\ SubSeq(wire, 1, n) \in Seq(Byte) /\ Rest(wire, n) \in Seq(Byte)
        /\ (buf \o SubSeq(wire, 1, n)) \o Rest(wire, n) = buf \o wire
    BY <1>2, StateFacts, Cuts
  <1>4. buf' \in Seq(Byte) /\ wire' \in Seq(Byte) /\ buf' \o wire' = buf \o wire
    BY <1>1, <1>3, StateFacts, ConcatAt
  <1>5. Consists(buf' \o wire', StreamTypes, {Hello, Ack}, Datas(given), received, written)
    BY <1>4 DEF CodecInv, UnderWay
  <1>6. stream_parse(buf') # Error
    BY <1>4, <1>5, StateFacts, StreamNoError
  <1>7. ~failed'
    BY <1>1, <1>6 DEF CodecInv
  <1>8. UnderWay'
    BY <1>1, <1>5 DEF UnderWay
  <1>9. TypeOK'
    BY <1>1, <1>4, <1>7 DEF CodecInv, TypeOK
  <1>10. DecodedSeen' /\ Buffered'
    BY <1>1 DEF CodecInv, DecodedSeen, Buffered
  <1> QED
    BY <1>1, <1>7, <1>8, <1>9, <1>10 DEF CodecInv

\* A connection that breaks takes the bytes with it, and the next one starts with
\* the first message that was not received.
LEMMA BreakInv ==
    ASSUME CodecInv, Break
    PROVE  CodecInv'
  <1>1. /\ breaks < MaxBreaks /\ breaks' = breaks + 1
        /\ written' = received /\ wire' = Hello /\ acks' = 0 /\ buf' = <<>>
        /\ UNCHANGED <<given, received, buffer, decoded, failed>>
    BY DEF Break
  <1>2. UnderWay'
    BY <1>1, StateFacts, OnlyHello DEF UnderWay
  <1>3. TypeOK'
    <2>1. breaks' \in 0 .. MaxBreaks /\ acks' \in 0 .. MaxAcks
      BY <1>1, BoundAssumption DEF CodecInv, TypeOK
    <2>2. wire' \in Seq(Byte) /\ buf' \in Seq(Byte)
      BY <1>1, OthersAreNoData
    <2> QED
      BY <1>1, <2>1, <2>2 DEF CodecInv, TypeOK
  <1>4. DecodedSeen' /\ Buffered'
    BY <1>1 DEF CodecInv, DecodedSeen, Buffered
  <1>5. Len(decoded') <= received' /\ received' <= written'
    BY <1>1, StateFacts
  <1> QED
    BY <1>1, <1>2, <1>3, <1>4, <1>5 DEF CodecInv

\* The multiplexer's parser takes the frame of the next message.
LEMMA NextMessageInv ==
    ASSUME CodecInv, NextMessage
    PROVE  CodecInv'
  <1> DEFINE k == Len(decoded) + 1
             f == Frame(given[k])
             new == [type |-> buffer[1].type, n |-> buffer[1].len - 13]
  <1>0. /\ parse(buffer).found = "some"
        /\ decoded' = Append(decoded, new)
        /\ buffer' = Rest(buffer, parse(buffer).used)
        /\ failed' = (failed \/ parse(buffer') = Error)
        /\ UNCHANGED <<given, written, wire, buf, received, acks, breaks>>
    BY DEF NextMessage, Rest
  <1>1. buffer # <<>>
    <2>1. CASE buffer = <<>>
      <3>1. parse(buffer) = None
        BY <2>1 DEF parse
      <3> QED
        BY <1>0, <3>1 DEF None
    <2> QED
      BY <2>1
  <1>2. Consists(buffer, FrameTypes, {}, Frames(given), Len(decoded), received)
    BY DEF CodecInv, Buffered
  <1>3. received <= Len(given)
    BY StateFacts
  <1>4. /\ k \in 1 .. Len(given) /\ k <= received
        /\ parse(buffer) = Some(Len(f)) /\ Len(f) \in 0 .. Len(buffer)
        /\ new = Seen(given[k])
        /\ Consists(Rest(buffer, Len(f)), FrameTypes, {}, Frames(given), k, received)
    BY <1>1, <1>2, <1>3, StateFacts, FirstOfFrames
  <1>5. buffer' = Rest(buffer, Len(f))
    BY <1>0, <1>4 DEF Some
  <1> HIDE DEF f, new
  <1>6. buffer' \in Seq(Byte)
    BY <1>4, <1>5, StateFacts, RestAt
  <1>7. Len(decoded') = k /\ k \in Nat /\ decoded'[k] = new
        /\ \A i \in 1 .. Len(decoded) : decoded'[i] = decoded[i]
    BY <1>0 DEF CodecInv, TypeOK
  <1>8. Consists(buffer', FrameTypes, {}, Frames(given), k, received)
    BY <1>4, <1>5
  <1>9. Buffered'
    BY <1>0, <1>7, <1>8 DEF Buffered
  <1>10. DecodedSeen'
    <2>1. \A i \in 1 .. k : i \in 1 .. Len(decoded) \/ i = k
      BY StateFacts
    <2> QED
      BY <1>0, <1>4, <1>7, <2>1 DEF CodecInv, DecodedSeen
  <1>11. parse(buffer') # Error
    BY <1>3, <1>6, <1>7, <1>8, StateFacts, FramesNoError
  <1>12. ~failed'
    BY <1>0, <1>11 DEF CodecInv
  <1>13. new \in ChannelMessage \cup [type : {"Error"}, n : {13, 19}]
    <2>1. given[k] \in ChannelMessage
      BY <1>4, StateFacts
    <2> QED
      BY <1>4, <2>1 DEF Seen
  <1>14. TypeOK'
    <2>1. decoded' \in Seq(ChannelMessage \cup [type : {"Error"}, n : {13, 19}])
      BY <1>0, <1>13 DEF CodecInv, TypeOK
    <2> QED
      BY <1>0, <1>6, <1>12, <2>1 DEF CodecInv, TypeOK
  <1>15. UnderWay'
    BY <1>0 DEF CodecInv, UnderWay
  <1>16. Len(decoded') <= received' /\ received' <= written'
    BY <1>0, <1>4, <1>7, StateFacts
  <1> QED
    BY <1>9, <1>10, <1>12, <1>14, <1>15, <1>16 DEF CodecInv

\* The stream takes the first message, and gives what the next Data carries to the
\* multiplexer's parser.
LEMMA DecodeInv ==
    ASSUME CodecInv, Decode
    PROVE  CodecInv'
  <1>0. /\ stream_parse(buf).found = "some"
        /\ buf' = Rest(buf, stream_parse(buf).used)
        /\ buf[1].type = "StreamData" =>
              received' = received + 1 /\ buffer' = buffer \o SubSeq(buf, 6, 5 + buf[1].len)
        /\ buf[1].type # "StreamData" => received' = received /\ buffer' = buffer
        /\ failed' = (failed \/ Error \in {stream_parse(buf'), parse(buffer')})
        /\ UNCHANGED <<given, written, wire, decoded, acks, breaks>>
    BY DEF Decode, Rest
  <1>1. buf # <<>>
    <2>1. CASE buf = <<>>
      <3>1. stream_parse(buf) = None
        BY <2>1 DEF stream_parse
      <3> QED
        BY <1>0, <3>1 DEF None
    <2> QED
      BY <2>1
  <1>2. Consists(buf \o wire, StreamTypes, {Hello, Ack}, Datas(given), received, written)
    BY DEF CodecInv, UnderWay
  <1>3. PICK x \in StreamMessages :
              /\ x \in Seq(Byte)
              /\ \A k \in 1 .. Len(buf) : k <= Len(x) => buf[k] = x[k]
              /\ Len(buf) < Len(x) => stream_parse(buf) = None
              /\ Len(buf) >= Len(x) => stream_parse(buf) = Some(Len(x))
              /\ \/ /\ x \in {Hello, Ack}
                    /\ Consists(Rest(buf \o wire, Len(x)), StreamTypes, {Hello, Ack},
                                Datas(given), received, written)
                 \/ /\ received + 1 <= written /\ x = Datas(given)[received + 1]
                    /\ Consists(Rest(buf \o wire, Len(x)), StreamTypes, {Hello, Ack},
                                Datas(given), received + 1, written)
    BY <1>1, <1>2, StateFacts, FirstOfStream
  <1>4. Len(buf) \in Nat /\ Len(x) \in Nat /\ Len(buf) >= Len(x) /\ Len(x) \in 0 .. Len(buf)
    <2>1. Len(buf) \in Nat /\ Len(x) \in Nat
      BY <1>3, StateFacts
    <2>2. ~(Len(buf) < Len(x))
      BY <1>0, <1>3 DEF None
    <2> QED
      BY <2>1, <2>2
  <1>5. buf' = Rest(buf, Len(x))
    BY <1>0, <1>3, <1>4 DEF Some
  <1>6. buf' \in Seq(Byte) /\ buf' \o wire = Rest(buf \o wire, Len(x))
    BY <1>4, <1>5, StateFacts, RestAt, Cuts
  <1>7. CASE /\ x \in {Hello, Ack}
             /\ Consists(Rest(buf \o wire, Len(x)), StreamTypes, {Hello, Ack},
                         Datas(given), received, written)
    <2>1. buf[1] = x[1] /\ x[1].type # "StreamData"
      <3>1. x # <<>> /\ x[1].type # "StreamData"
        BY <1>7, OthersAreNoData
      <3>2. Len(x) >= 1
        BY <1>3, <1>4, <3>1
      <3> QED
        BY <1>3, <1>4, <3>1, <3>2
    <2>2. received' = received /\ buffer' = buffer
      BY <1>0, <2>1
    <2>3. Consists(buf' \o wire, StreamTypes, {Hello, Ack}, Datas(given), received, written)
      BY <1>6, <1>7
    <2>4. stream_parse(buf') # Error
      BY <1>6, <2>3, StateFacts, StreamNoError
    <2>5. parse(buffer') # Error
      BY <2>2, StateFacts, FramesNoError DEF CodecInv, Buffered
    <2>6. ~failed'
      BY <1>0, <2>4, <2>5 DEF CodecInv
    <2>7. UnderWay'
      BY <1>0, <2>2, <2>3 DEF UnderWay
    <2>8. Buffered' /\ DecodedSeen'
      BY <1>0, <2>2 DEF CodecInv, Buffered, DecodedSeen
    <2>9. TypeOK'
      BY <1>0, <1>6, <2>2, <2>6 DEF CodecInv, TypeOK
    <2>10. Len(decoded') <= received' /\ received' <= written'
      BY <1>0, <2>2, StateFacts
    <2> QED
      BY <2>6, <2>7, <2>8, <2>9, <2>10 DEF CodecInv
  <1>8. CASE /\ received + 1 <= written /\ x = Datas(given)[received + 1]
             /\ Consists(Rest(buf \o wire, Len(x)), StreamTypes, {Hello, Ack},
                         Datas(given), received + 1, written)
    <2> DEFINE m == given[received + 1]
               f == Frame(m)
    <2>1. received + 1 \in 1 .. Len(given)
      BY <1>8, StateFacts
    <2>2. /\ m \in ChannelMessage /\ x = Data(f) /\ f \in Seq(Byte)
          /\ Frames(given)[received + 1] = f /\ Single(f, FrameTypes)
      BY <1>8, <2>1, StateFacts, Carried, FrameSingle
    <2>3. buf[1].type = "StreamData" /\ SubSeq(buf, 6, 5 + buf[1].len) = f
      BY <1>3, <1>4, <2>2, StateFacts, PayloadIsFrame
    <2> HIDE DEF m, f
    <2>4. received' = received + 1 /\ buffer' = buffer \o f
      BY <1>0, <2>3
    <2>5. buffer' \in Seq(Byte)
      BY <2>2, <2>4, StateFacts, ConcatAt
    <2>6. Consists(buf' \o wire, StreamTypes, {Hello, Ack}, Datas(given), received + 1, written)
      BY <1>6, <1>8
    <2>7. received + 1 \in Nat /\ \A n \in received + 1 + 1 .. written : n \in received + 1 .. written
      BY StateFacts
    <2>8. stream_parse(buf') # Error
      BY <1>6, <2>6, <2>7, StateFacts, StreamNoError
    <2>9. Consists(buffer', FrameTypes, {}, Frames(given), Len(decoded), received + 1)
      <3> DEFINE body == Frames(given)
                 none == {}
      <3>1. \A y \in none : y \in Seq(Byte)
        OBVIOUS
      <3>2. Consists(buffer, FrameTypes, none, body, Len(decoded), received)
        BY DEF CodecInv, Buffered
      <3>3. /\ buffer \in Seq(Byte) /\ Len(decoded) \in Nat /\ received \in Nat
            /\ Len(decoded) <= received
            /\ \A n \in Len(decoded) + 1 .. received : body[n] \in Seq(Byte)
        BY StateFacts
      <3>4. body[received + 1] = f
        BY <2>2
      <3> HIDE DEF body, none
      <3>5. Consists(buffer \o f, FrameTypes, none, body, Len(decoded), received + 1)
        BY <2>2, <3>1, <3>2, <3>3, <3>4, ConsistsMore
      <3> QED
        BY <2>4, <3>5 DEF body, none
    <2>10. parse(buffer') # Error
      <3>1. received + 1 <= Len(given)
        BY <2>1, StateFacts
      <3> QED
        BY <2>5, <2>7, <2>9, <3>1, StateFacts, FramesNoError
    <2>11. ~failed'
      BY <1>0, <2>8, <2>10 DEF CodecInv
    <2>12. UnderWay'
      BY <1>0, <2>4, <2>6 DEF UnderWay
    <2>13. Buffered'
      BY <1>0, <2>4, <2>9 DEF Buffered
    <2>14. DecodedSeen'
      BY <1>0 DEF CodecInv, DecodedSeen
    <2>15. TypeOK'
      <3>1. received' \in 0 .. Len(given')
        BY <1>0, <2>1, <2>4, StateFacts
      <3> QED
        BY <1>0, <1>6, <2>5, <2>11, <3>1 DEF CodecInv, TypeOK
    <2>16. Len(decoded') <= received' /\ received' <= written'
      BY <1>0, <1>8, <2>4, StateFacts
    <2> QED
      BY <2>11, <2>12, <2>13, <2>14, <2>15, <2>16 DEF CodecInv
  <1> QED
    BY <1>3, <1>7, <1>8

\* No step of the encoders, the connection or the parsers breaks the invariant.
LEMMA CodecStep == CodecInv /\ [Next]_vars => CodecInv'
  <1> SUFFICES ASSUME CodecInv, [Next]_vars PROVE CodecInv'
    OBVIOUS
  <1>1. CASE \E m \in ChannelMessage : Give(m)
    BY <1>1, GiveInv
  <1>2. CASE WriteData
    BY <1>2, WriteDataInv
  <1>3. CASE WriteAck
    BY <1>3, WriteAckInv
  <1>4. CASE \E n \in 1 .. Len(wire) : ReadChunk(n)
    BY <1>4, ReadChunkInv
  <1>5. CASE Decode
    BY <1>5, DecodeInv
  <1>6. CASE NextMessage
    BY <1>6, NextMessageInv
  <1>7. CASE Break
    BY <1>7, BreakInv
  <1>8. CASE UNCHANGED vars
    BY <1>8 DEF vars, CodecInv, TypeOK, DecodedSeen, UnderWay, Buffered
  <1> QED
    BY <1>1, <1>2, <1>3, <1>4, <1>5, <1>6, <1>7, <1>8 DEF Next

\* Whatever the bytes are cut into and wherever connections break, what is under way
\* and what the buffers hold are the messages not yet received and not yet decoded,
\* each once and in order, cut at no wrong place.
THEOREM CodecInvariance == Spec => []CodecInv
  <1> QED
    BY InitInv, CodecStep, PTL DEF Spec

\* The variables of the codecs have their types, and no byte a larger length or place
\* than a field of it holds.
THEOREM TypeCorrect == Spec => []TypeOK
  <1>1. CodecInv => TypeOK
    BY DEF CodecInv
  <1> QED
    BY <1>1, CodecInvariance, PTL

\* No length overflows its field, the encoder of Data never panics and no parser meets
\* bytes it does not expect.
THEOREM CodecNeverFails == Spec => []NeverFails
  <1>1. CodecInv => NeverFails
    BY DEF CodecInv, NeverFails
  <1> QED
    BY <1>1, CodecInvariance, PTL

\* The multiplexer gets the messages that the other one gave, each once and in order,
\* one that is too long replaced by an Error.
THEOREM DecodedInOrder == Spec => []DecodedIsGiven
  <1>1. ASSUME CodecInv PROVE DecodedIsGiven
    <2>1. Len(decoded) <= received /\ received <= Len(given)
      BY <1>1, StateFacts
    <2>2. ASSUME NEW k \in 1 .. Len(decoded)
          PROVE  \/ decoded[k] = given[k]
                 \/ decoded[k].type = "Error" /\ 13 + given[k].n >= LenMod
      <3>1. decoded[k] = Seen(given[k])
        BY <1>1 DEF CodecInv, DecodedSeen
      <3>2. k \in 1 .. Len(given) /\ given[k] \in ChannelMessage
        BY <1>1, <2>1, StateFacts
      <3>3. CASE given[k].type = "Control" \/ fits(given[k].n)
        BY <3>1, <3>3 DEF Seen
      <3>4. CASE ~(given[k].type = "Control" \/ fits(given[k].n))
        <4>1. decoded[k].type = "Error" /\ ~fits(given[k].n)
          BY <3>1, <3>4 DEF Seen
        <4>2. given[k].n \in Nat
          <5>1. CASE given[k] \in [type : {"Control"}, n : {0}]
            BY <5>1
          <5>2. CASE given[k] \in [type : {"Data", "Error"}, n : Sizes]
            BY <5>2, BoundAssumption
          <5> QED
            BY <3>2, <5>1, <5>2 DEF ChannelMessage
        <4> QED
          BY <4>1, <4>2, LenAssumption DEF fits
      <3> QED
        BY <3>3, <3>4
    <2> QED
      BY <2>1, <2>2 DEF DecodedIsGiven
  <1> QED
    BY <1>1, CodecInvariance, PTL

\* No parser holds back what is whole: when the bytes written have arrived and the
\* parsers have had their turn, every message written is decoded.
THEOREM NothingIsHeldBack == Spec => []NothingHeldBack
  <1>1. ASSUME CodecInv, wire = <<>>, stream_parse(buf) = None, parse(buffer) = None
        PROVE  buf = <<>> /\ buffer = <<>> /\ Len(decoded) = written
    <2>0. \A k : Some(k) # None
      <3>1. \A k : Some(k).found # None.found
        BY DEF Some, None
      <3> QED
        BY <3>1
    <2>1. Consists(buf \o wire, StreamTypes, {Hello, Ack}, Datas(given), received, written)
          /\ buf \o wire = buf
      BY <1>1, StateFacts DEF CodecInv, UnderWay
    <2>2. CASE buf # <<>>
      <3>0. Consists(buf \o wire, StreamTypes, {Hello, Ack}, Datas(given), received, written)
        BY <2>1
      <3>1. wire \in Seq(Byte) /\ buf \in Seq(Byte) /\ received \in Nat /\ written \in Nat
            /\ \A n \in received + 1 .. written : Datas(given)[n] \in StreamMessages
        BY <1>1, StateFacts
      <3>2. PICK x \in StreamMessages :
              /\ x \in Seq(Byte) /\ Len(x) <= Len(buf \o wire)
              /\ \A k \in 1 .. Len(buf) : k <= Len(x) => buf[k] = x[k]
              /\ Len(buf) < Len(x) => stream_parse(buf) = None
              /\ Len(buf) >= Len(x) => stream_parse(buf) = Some(Len(x))
              /\ \/ /\ x \in {Hello, Ack}
                    /\ Consists(Rest(buf \o wire, Len(x)), StreamTypes, {Hello, Ack},
                                Datas(given), received, written)
                 \/ /\ received + 1 <= written /\ x = Datas(given)[received + 1]
                    /\ Consists(Rest(buf \o wire, Len(x)), StreamTypes, {Hello, Ack},
                                Datas(given), received + 1, written)
        BY <2>2, <3>0, <3>1, FirstOfStream
      <3> QED
        BY <1>1, <2>0, <2>1, <3>2
    <2>3. buf = <<>>
      BY <2>2
    <2>4. received = written
      <3>1. Consists(<<>>, StreamTypes, {Hello, Ack}, Datas(given), received, written)
        BY <2>1, <2>3
      <3> QED
        BY <1>1, <3>1, StateFacts, ConsistsNothing
    <2>5. buffer = <<>>
      <3>1. CASE buffer # <<>>
        <4>1. Consists(buffer, FrameTypes, {}, Frames(given), Len(decoded), received)
          BY <1>1 DEF CodecInv, Buffered
        <4>2. /\ given \in Seq(ChannelMessage) /\ buffer \in Seq(Byte)
              /\ Len(decoded) \in Nat /\ received \in Nat /\ received <= Len(given)
          BY <1>1, StateFacts
        <4>3. parse(buffer) = Some(Len(Frame(given[Len(decoded) + 1])))
          BY <3>1, <4>1, <4>2, FirstOfFrames
        <4> QED
          BY <1>1, <2>0, <4>3
      <3> QED
        BY <3>1
    <2>6. Len(decoded) = received
      <3>1. Consists(<<>>, FrameTypes, {}, Frames(given), Len(decoded), received)
        BY <1>1, <2>5 DEF CodecInv, Buffered
      <3> QED
        BY <1>1, <3>1, StateFacts, ConsistsNothing
    <2> QED
      BY <2>3, <2>4, <2>5, <2>6
  <1>2. CodecInv => NothingHeldBack
    BY <1>1 DEF NothingHeldBack
  <1> QED
    BY <1>2, CodecInvariance, PTL
=============================================================================
