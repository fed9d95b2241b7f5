------------------------- MODULE StreamEventProofs -------------------------
(***************************************************************************)
(* The steps of ReconnectingStream as events: what a step does to the ends *)
(* and to the pipes of the connections.  Lemmas about the sequences in     *)
(* flight, and the proof that the events keep what ConnInv says of the ends*)
(* and of the kinds of messages.                                           *)
(***************************************************************************)
EXTENDS StreamInvariant, ReconnectingStreamProofs

-----------------------------------------------------------------------------
(* Sequences of messages: what taking the first, appending, and losing the *)
(* last ones does to them.                                                 *)

\* Without its first message each of the others comes one place earlier.
LEMMA TailAt ==
    ASSUME NEW S, NEW s \in Seq(S), s # <<>>
    PROVE  /\ Tail(s) \in Seq(S) /\ Len(s) \in Nat \ {0} /\ Head(s) = s[1] /\ s[1] \in S
           /\ Len(Tail(s)) = Len(s) - 1
           /\ \A k \in 1 .. Len(s) - 1 : Tail(s)[k] = s[k + 1]
<1>1. /\ Head(s) \in S /\ Tail(s) \in Seq(S) /\ Len(Tail(s)) = Len(s) - 1
      /\ \A k \in 1 .. Len(Tail(s)) : Tail(s)[k] = s[k + 1]
  BY HeadTailProperties
<1>2. Len(s) \in Nat \ {0}
  BY EmptySeq
<1> QED
  BY <1>1, <1>2

\* Two sequences one after the other.
LEMMA ConcatAt ==
    ASSUME NEW S, NEW s \in Seq(S), NEW t \in Seq(S)
    PROVE  /\ s \o t \in Seq(S) /\ Len(s) \in Nat /\ Len(t) \in Nat
           /\ Len(s \o t) = Len(s) + Len(t)
           /\ \A k \in 1 .. Len(s) : (s \o t)[k] = s[k]
           /\ \A k \in 1 .. Len(t) : (s \o t)[Len(s) + k] = t[k]
<1>1. /\ s \o t \in Seq(S) /\ Len(s \o t) = Len(s) + Len(t)
      /\ \A k \in 1 .. Len(s) + Len(t) :
            (s \o t)[k] = IF k <= Len(s) THEN s[k] ELSE t[k - Len(s)]
  BY ConcatProperties
<1>2. Len(s) \in Nat /\ Len(t) \in Nat
  BY LenProperties
<1>3. \A k \in 1 .. Len(t) : Len(s) + k \in 1 .. Len(s) + Len(t) /\ ~(Len(s) + k <= Len(s))
                             /\ (Len(s) + k) - Len(s) = k
  BY <1>2
<1>4. \A k \in 1 .. Len(s) : k \in 1 .. Len(s) + Len(t) /\ k <= Len(s)
  BY <1>2
<1> QED
  BY <1>1, <1>2, <1>3, <1>4

\* A prefix.
LEMMA PrefixAt ==
    ASSUME NEW S, NEW s \in Seq(S), NEW t \in Prefixes(s)
    PROVE  /\ t \in Seq(S) /\ Len(t) \in Nat /\ Len(s) \in Nat /\ Len(t) <= Len(s)
           /\ \A k \in 1 .. Len(t) : t[k] = s[k]
<1>1. PICK m \in 0 .. Len(s) : t = SubSeq(s, 1, m)
  BY DEF Prefixes
<1>2. Len(s) \in Nat
  BY LenProperties
<1>3. \A k \in 1 .. m : s[k] \in S
  BY <1>1, <1>2, ElementOfSeq
<1>4. /\ t \in Seq(S) /\ Len(t) = IF 1 <= m THEN m - 1 + 1 ELSE 0
      /\ \A k \in 1 .. m - 1 + 1 : t[k] = s[1 + k - 1]
  BY <1>1, <1>2, <1>3, SubSeqProperties
<1> QED
  BY <1>1, <1>2, <1>4

\* Where the Data of s continue, they go on continuing without the first message:
\* it is not Data, or it is the next one.
LEMMA ContinuesTail ==
    ASSUME NEW s \in Seq(Message), s # <<>>, NEW i, NEW lo \in Nat, Continues(s, i, lo)
    PROVE  /\ s[1].type # "Data" => Continues(Tail(s), i, lo)
           /\ s[1].type = "Data" => /\ s[1].data = [from |-> i, n |-> lo + 1]
                                    /\ Continues(Tail(s), i, lo + 1)
<1> DEFINE t == Tail(s)
<1>1. /\ t \in Seq(Message) /\ Len(s) \in Nat \ {0} /\ s[1] \in Message
      /\ Len(t) = Len(s) - 1 /\ \A k \in 1 .. Len(s) - 1 : t[k] = s[k + 1]
  BY TailAt
<1>2. \A k \in 1 .. Len(s) : s[k].type = "Data" => s[k].data \in Payload
  BY ElementOfSeq, MessageFields
<1>3. \A p \in Payload : p = [from |-> p.from, n |-> p.n] /\ p.n \in Nat
  BY DEF Payload
<1> HIDE DEF t
<1>4. ASSUME s[1].type # "Data" PROVE Continues(t, i, lo)
  <2> SUFFICES ASSUME NEW k \in 1 .. Len(t), t[k].type = "Data"
               PROVE  /\ t[k].data.from = i /\ lo < t[k].data.n
                      /\ \A n \in lo + 1 .. t[k].data.n - 1 :
                            \E j \in 1 .. k - 1 : t[j] = Data([from |-> i, n |-> n])
                      /\ \A j \in 1 .. k - 1 : t[j].type = "Data" => t[j].data.n < t[k].data.n
    BY DEF Continues
  <2>1. k + 1 \in 1 .. Len(s) /\ t[k] = s[k + 1]
    BY <1>1
  <2>2. /\ s[k + 1].data.from = i /\ lo < s[k + 1].data.n
        /\ \A n \in lo + 1 .. s[k + 1].data.n - 1 :
              \E j \in 1 .. k : s[j] = Data([from |-> i, n |-> n])
        /\ \A j \in 1 .. k : s[j].type = "Data" => s[j].data.n < s[k + 1].data.n
    BY <2>1 DEF Continues
  <2>3. \A j \in 1 .. k - 1 : t[j] = s[j + 1] /\ j + 1 \in 1 .. k
    BY <1>1
  <2>4. ASSUME NEW n \in lo + 1 .. s[k + 1].data.n - 1
        PROVE  \E j \in 1 .. k - 1 : t[j] = Data([from |-> i, n |-> n])
    <3>1. PICK j \in 1 .. k : s[j] = Data([from |-> i, n |-> n])
      BY <2>2
    <3>2. j # 1
      BY <1>4, <3>1 DEF Data
    <3>3. j - 1 \in 1 .. k - 1 /\ j - 1 \in 1 .. Len(s) - 1 /\ (j - 1) + 1 = j
      BY <1>1, <2>1, <3>2
    <3>4. t[j - 1] = s[j]
      BY <1>1, <3>3
    <3> QED
      BY <3>1, <3>3, <3>4
  <2> QED
    BY <2>1, <2>2, <2>3, <2>4
<1>5. ASSUME s[1].type = "Data" PROVE s[1].data = [from |-> i, n |-> lo + 1]
  <2>1. 1 \in 1 .. Len(s) /\ s[1].data \in Payload
    BY <1>1, <1>2, <1>5
  <2>2. /\ s[1].data.from = i /\ lo < s[1].data.n
        /\ \A n \in lo + 1 .. s[1].data.n - 1 :
              \E j \in 1 .. 1 - 1 : s[j] = Data([from |-> i, n |-> n])
    BY <1>5, <2>1 DEF Continues
  <2>3. s[1].data.n \in Nat
    BY <1>3, <2>1
  <2>4. lo + 1 \notin lo + 1 .. s[1].data.n - 1
    BY <2>2
  <2>5. s[1].data.n = lo + 1
    BY <2>2, <2>3, <2>4
  <2> QED
    BY <1>3, <2>1, <2>2, <2>5
<1>6. ASSUME s[1].type = "Data" PROVE Continues(t, i, lo + 1)
  <2> SUFFICES ASSUME NEW k \in 1 .. Len(t), t[k].type = "Data"
               PROVE  /\ t[k].data.from = i /\ lo + 1 < t[k].data.n
                      /\ \A n \in lo + 1 + 1 .. t[k].data.n - 1 :
                            \E j \in 1 .. k - 1 : t[j] = Data([from |-> i, n |-> n])
                      /\ \A j \in 1 .. k - 1 : t[j].type = "Data" => t[j].data.n < t[k].data.n
    BY DEF Continues
  <2>1. k + 1 \in 1 .. Len(s) /\ t[k] = s[k + 1]
    BY <1>1
  <2>2. /\ s[k + 1].data.from = i /\ lo < s[k + 1].data.n
        /\ \A n \in lo + 1 .. s[k + 1].data.n - 1 :
              \E j \in 1 .. k : s[j] = Data([from |-> i, n |-> n])
        /\ \A j \in 1 .. k : s[j].type = "Data" => s[j].data.n < s[k + 1].data.n
    BY <2>1 DEF Continues
  <2>3. \A j \in 1 .. k - 1 : t[j] = s[j + 1] /\ j + 1 \in 1 .. k
    BY <1>1
  <2>4. ASSUME NEW n \in lo + 1 + 1 .. s[k + 1].data.n - 1
        PROVE  \E j \in 1 .. k - 1 : t[j] = Data([from |-> i, n |-> n])
    <3>0. n \in lo + 1 .. s[k + 1].data.n - 1 /\ n # lo + 1
      OBVIOUS
    <3>1. PICK j \in 1 .. k : s[j] = Data([from |-> i, n |-> n])
      BY <2>2, <3>0
    <3>2. j # 1
      BY <1>5, <1>6, <3>0, <3>1 DEF Data
    <3>3. j - 1 \in 1 .. k - 1 /\ j - 1 \in 1 .. Len(s) - 1 /\ (j - 1) + 1 = j
      BY <1>1, <2>1, <3>2
    <3>4. t[j - 1] = s[j]
      BY <1>1, <3>3
    <3> QED
      BY <3>1, <3>3, <3>4
  <2>5. lo + 1 < s[k + 1].data.n
    BY <1>5, <1>6, <2>2
  <2> QED
    BY <2>1, <2>2, <2>3, <2>4, <2>5
<1> QED
  BY <1>4, <1>5, <1>6 DEF t

\* A lost end changes nothing in what is before it.
LEMMA ContinuesPrefix ==
    ASSUME NEW s \in Seq(Message), NEW t \in Prefixes(s), NEW i, NEW lo \in Nat,
           Continues(s, i, lo)
    PROVE  Continues(t, i, lo)
<1>1. /\ Len(t) \in Nat /\ Len(s) \in Nat /\ Len(t) <= Len(s)
      /\ \A k \in 1 .. Len(t) : t[k] = s[k]
  BY PrefixAt
<1> SUFFICES ASSUME NEW k \in 1 .. Len(t), t[k].type = "Data"
             PROVE  /\ t[k].data.from = i /\ lo < t[k].data.n
                    /\ \A n \in lo + 1 .. t[k].data.n - 1 :
                          \E j \in 1 .. k - 1 : t[j] = Data([from |-> i, n |-> n])
                    /\ \A j \in 1 .. k - 1 : t[j].type = "Data" => t[j].data.n < t[k].data.n
  BY DEF Continues
<1>2. k \in 1 .. Len(s) /\ t[k] = s[k] /\ \A j \in 1 .. k - 1 : t[j] = s[j]
  BY <1>1
<1>3. /\ s[k].data.from = i /\ lo < s[k].data.n
      /\ \A n \in lo + 1 .. s[k].data.n - 1 :
            \E j \in 1 .. k - 1 : s[j] = Data([from |-> i, n |-> n])
      /\ \A j \in 1 .. k - 1 : s[j].type = "Data" => s[j].data.n < s[k].data.n
  BY <1>2 DEF Continues
<1> QED
  BY <1>2, <1>3

\* Messages that are not Data change nothing either.
LEMMA ContinuesOther ==
    ASSUME NEW s \in Seq(Message), NEW t \in Seq(Message), Kinds(t, {"Hello", "Ack"}),
           NEW i, NEW lo \in Nat, NEW hi \in Nat
    PROVE  /\ Continues(s, i, lo) => Continues(s \o t, i, lo)
           /\ EndsAt(s, i, lo, hi) => EndsAt(s \o t, i, lo, hi)
<1> DEFINE st == s \o t
<1>1. /\ Len(s) \in Nat /\ Len(t) \in Nat /\ Len(st) = Len(s) + Len(t)
      /\ \A k \in 1 .. Len(s) : st[k] = s[k]
      /\ \A k \in 1 .. Len(t) : st[Len(s) + k] = t[k]
  BY ConcatAt
<1> HIDE DEF st
<1>2. ASSUME NEW k \in 1 .. Len(st), st[k].type = "Data" PROVE k \in 1 .. Len(s)
  <2> SUFFICES ASSUME k \notin 1 .. Len(s) PROVE FALSE
    OBVIOUS
  <2>1. k - Len(s) \in 1 .. Len(t) /\ Len(s) + (k - Len(s)) = k
    BY <1>1
  <2>2. st[k] = t[k - Len(s)]
    BY <1>1, <2>1
  <2> QED
    BY <1>2, <2>1, <2>2 DEF Kinds
<1>3. Continues(s, i, lo) => Continues(st, i, lo)
  <2> SUFFICES ASSUME Continues(s, i, lo), NEW k \in 1 .. Len(st), st[k].type = "Data"
               PROVE  /\ st[k].data.from = i /\ lo < st[k].data.n
                      /\ \A n \in lo + 1 .. st[k].data.n - 1 :
                            \E j \in 1 .. k - 1 : st[j] = Data([from |-> i, n |-> n])
                      /\ \A j \in 1 .. k - 1 : st[j].type = "Data" => st[j].data.n < st[k].data.n
    BY DEF Continues
  <2>1. k \in 1 .. Len(s) /\ st[k] = s[k] /\ \A j \in 1 .. k - 1 : st[j] = s[j]
    BY <1>1, <1>2
  <2>2. /\ s[k].data.from = i /\ lo < s[k].data.n
        /\ \A n \in lo + 1 .. s[k].data.n - 1 :
              \E j \in 1 .. k - 1 : s[j] = Data([from |-> i, n |-> n])
        /\ \A j \in 1 .. k - 1 : s[j].type = "Data" => s[j].data.n < s[k].data.n
    BY <2>1 DEF Continues
  <2> QED
    BY <2>1, <2>2
<1>4. EndsAt(s, i, lo, hi) => EndsAt(st, i, lo, hi)
  <2>1. \A k \in 1 .. Len(s) : k \in 1 .. Len(st)
    BY <1>1
  <2> QED
    BY <1>1, <1>2, <2>1 DEF EndsAt
<1> QED
  BY <1>3, <1>4 DEF st

\* Appended after the last of s, the messages that follow it continue s.
LEMMA ContinuesResend ==
    ASSUME NEW s \in Seq(Message), NEW u \in Seq(Payload), NEW i,
           NEW lo \in Nat, NEW hi \in Nat,
           Continues(s, i, lo), EndsAt(s, i, lo, hi), Numbered(u, i, hi)
    PROVE  /\ Continues(s \o resend(u), i, lo)
           /\ EndsAt(s \o resend(u), i, lo, hi + Len(u))
<1>0. PICK r \in Seq(Message) : r = resend(u) /\ Len(r) = Len(u)
  BY ResendType
<1> DEFINE st == s \o r
<1>a. /\ Len(s) \in Nat /\ Len(r) \in Nat /\ Len(st) = Len(s) + Len(r)
      /\ \A k \in 1 .. Len(s) : st[k] = s[k]
      /\ \A k \in 1 .. Len(r) : st[Len(s) + k] = r[k]
  BY ConcatAt
<1>1. /\ Len(s) \in Nat /\ Len(u) \in Nat /\ Len(st) = Len(s) + Len(u)
      /\ \A k \in 1 .. Len(s) : st[k] = s[k]
      /\ \A k \in 1 .. Len(u) : st[Len(s) + k] = r[k]
  BY <1>0, <1>a
<1>2. \A k \in 1 .. Len(u) : r[k] = Data([from |-> i, n |-> hi + k])
  BY <1>0 DEF resend, Numbered
<1> HIDE DEF st
<1>3. \A k \in 1 .. Len(u) : st[Len(s) + k] = Data([from |-> i, n |-> hi + k])
  BY <1>1, <1>2
<1>4. \A n : /\ Data([from |-> i, n |-> n]).type = "Data"
             /\ Data([from |-> i, n |-> n]).data.from = i
             /\ Data([from |-> i, n |-> n]).data.n = n
  BY DEF Data
<1>5. \A k \in 1 .. Len(s) : s[k].type = "Data" => s[k].data.n \in Nat
  BY ElementOfSeq, MessageFields DEF Payload
<1>6. ASSUME NEW n \in lo + 1 .. hi
      PROVE  \E j \in 1 .. Len(s) : s[j] = Data([from |-> i, n |-> n])
  <2>1. PICK k \in 1 .. Len(s) : s[k] = Data([from |-> i, n |-> hi])
    BY <1>6 DEF EndsAt
  <2>2. CASE n = hi
    BY <2>1, <2>2
  <2>3. CASE n # hi
    <3>1. s[k].type = "Data" /\ s[k].data.n = hi
      BY <1>4, <2>1
    <3>2. n \in lo + 1 .. s[k].data.n - 1
      BY <2>3, <3>1
    <3>3. \E j \in 1 .. k - 1 : s[j] = Data([from |-> i, n |-> n])
      BY <3>1, <3>2 DEF Continues
    <3> QED
      BY <1>1, <3>3
  <2> QED
    BY <2>2, <2>3
<1>7. ASSUME NEW k \in 1 .. Len(st)
      PROVE  \/ k \in 1 .. Len(s)
             \/ \E h \in 1 .. Len(u) : k = Len(s) + h
  <2>1. k \notin 1 .. Len(s) => k - Len(s) \in 1 .. Len(u) /\ k = Len(s) + (k - Len(s))
    BY <1>1
  <2> QED
    BY <2>1
<1>8. Continues(st, i, lo)
  <2> SUFFICES ASSUME NEW k \in 1 .. Len(st), st[k].type = "Data"
               PROVE  /\ st[k].data.from = i /\ lo < st[k].data.n
                      /\ \A n \in lo + 1 .. st[k].data.n - 1 :
                            \E j \in 1 .. k - 1 : st[j] = Data([from |-> i, n |-> n])
                      /\ \A j \in 1 .. k - 1 : st[j].type = "Data" => st[j].data.n < st[k].data.n
    BY DEF Continues
  <2>1. CASE k \in 1 .. Len(s)
    <3>0. st[k] = s[k] /\ \A j \in 1 .. k - 1 : j \in 1 .. Len(s)
      BY <1>1, <2>1
    <3>1. st[k] = s[k] /\ \A j \in 1 .. k - 1 : st[j] = s[j]
      BY <1>1, <3>0
    <3>2. /\ s[k].data.from = i /\ lo < s[k].data.n
          /\ \A n \in lo + 1 .. s[k].data.n - 1 :
                \E j \in 1 .. k - 1 : s[j] = Data([from |-> i, n |-> n])
          /\ \A j \in 1 .. k - 1 : s[j].type = "Data" => s[j].data.n < s[k].data.n
      BY <2>1, <3>1 DEF Continues
    <3> QED
      BY <3>1, <3>2
  <2>2. ASSUME NEW h \in 1 .. Len(u), k = Len(s) + h
        PROVE  /\ st[k].data.from = i /\ lo < st[k].data.n
               /\ \A n \in lo + 1 .. st[k].data.n - 1 :
                     \E j \in 1 .. k - 1 : st[j] = Data([from |-> i, n |-> n])
               /\ \A j \in 1 .. k - 1 : st[j].type = "Data" => st[j].data.n < st[k].data.n
    <3>1. st[k].data.from = i /\ st[k].data.n = hi + h
      BY <1>3, <1>4, <2>2
    <3>2. lo <= hi
      BY DEF EndsAt
    <3>3. ASSUME NEW n \in lo + 1 .. hi + h - 1
          PROVE  \E j \in 1 .. k - 1 : st[j] = Data([from |-> i, n |-> n])
      <4>1. CASE n <= hi
        <5>1. PICK j \in 1 .. Len(s) : s[j] = Data([from |-> i, n |-> n])
          BY <1>6, <4>1
        <5>2. j \in 1 .. k - 1 /\ st[j] = s[j]
          BY <1>1, <2>2
        <5> QED
          BY <5>1, <5>2
      <4>2. CASE ~(n <= hi)
        <5>1. n - hi \in 1 .. Len(u) /\ Len(s) + (n - hi) \in 1 .. k - 1 /\ hi + (n - hi) = n
          BY <1>1, <2>2, <4>2
        <5>2. st[Len(s) + (n - hi)] = Data([from |-> i, n |-> n])
          BY <1>3, <5>1
        <5> QED
          BY <5>1, <5>2
      <4> QED
        BY <4>1, <4>2
    <3>4. ASSUME NEW j \in 1 .. k - 1, st[j].type = "Data"
          PROVE  st[j].data.n < hi + h
      <4>1. CASE j \in 1 .. Len(s)
        BY <1>1, <1>5, <3>4, <4>1 DEF EndsAt
      <4>2. CASE j \notin 1 .. Len(s)
        <5>1. j - Len(s) \in 1 .. Len(u) /\ Len(s) + (j - Len(s)) = j /\ j - Len(s) < h
          BY <1>1, <2>2, <4>2
        <5>2. st[j] = Data([from |-> i, n |-> hi + (j - Len(s))])
          BY <1>3, <5>1
        <5>3. st[j].data.n = hi + (j - Len(s))
          BY <1>4, <5>2
        <5> QED
          BY <1>1, <5>1, <5>3
      <4> QED
        BY <4>1, <4>2
    <3> QED
      BY <3>1, <3>2, <3>3, <3>4
  <2> QED
    BY <1>7, <2>1, <2>2
<1>9. EndsAt(st, i, lo, hi + Len(u))
  <2>1. lo <= hi + Len(u)
    BY <1>1 DEF EndsAt
  <2>2. ASSUME NEW k \in 1 .. Len(st), st[k].type = "Data"
        PROVE  st[k].data.n <= hi + Len(u)
    <3>1. CASE k \in 1 .. Len(s)
      BY <1>1, <1>5, <2>2, <3>1 DEF EndsAt
    <3>2. ASSUME NEW h \in 1 .. Len(u), k = Len(s) + h PROVE st[k].data.n <= hi + Len(u)
      <4>1. st[k].data.n = hi + h
        BY <1>3, <1>4, <3>2
      <4> QED
        BY <1>1, <4>1
    <3> QED
      BY <1>7, <3>1, <3>2
  <2>3. ASSUME lo < hi + Len(u)
        PROVE  \E k \in 1 .. Len(st) : st[k] = Data([from |-> i, n |-> hi + Len(u)])
    <3>1. CASE Len(u) = 0
      <4>1. PICK k \in 1 .. Len(s) : s[k] = Data([from |-> i, n |-> hi])
        BY <2>3, <3>1 DEF EndsAt
      <4>2. k \in 1 .. Len(st) /\ st[k] = s[k] /\ hi + Len(u) = hi
        BY <1>1, <3>1
      <4> QED
        BY <4>1, <4>2
    <3>2. CASE Len(u) # 0
      <4>1. Len(u) \in 1 .. Len(u) /\ Len(s) + Len(u) \in 1 .. Len(st)
        BY <1>1, <3>2
      <4> QED
        BY <1>3, <4>1
    <3> QED
      BY <3>1, <3>2
  <2> QED
    BY <2>1, <2>2, <2>3 DEF EndsAt
<1> QED
  BY <1>0, <1>8, <1>9 DEF st

\* The last message stays the last while the ones before it are taken.
LEMMA EndsAtTail ==
    ASSUME NEW s \in Seq(Message), s # <<>>, NEW i, NEW lo \in Nat, NEW hi \in Nat,
           Continues(s, i, lo), EndsAt(s, i, lo, hi)
    PROVE  /\ s[1].type # "Data" => EndsAt(Tail(s), i, lo, hi)
           /\ s[1].type = "Data" => EndsAt(Tail(s), i, lo + 1, hi)
<1> DEFINE t == Tail(s)
<1>1. /\ Len(s) \in Nat \ {0} /\ Len(t) = Len(s) - 1
      /\ \A k \in 1 .. Len(s) - 1 : t[k] = s[k + 1]
  BY TailAt
<1>2. s[1].type = "Data" => s[1].data = [from |-> i, n |-> lo + 1]
  BY ContinuesTail
<1> HIDE DEF t
<1>3. \A k \in 1 .. Len(t) : k + 1 \in 1 .. Len(s) /\ t[k] = s[k + 1]
  BY <1>1
<1>4. \A k \in 1 .. Len(t) : t[k].type = "Data" => t[k].data.n <= hi
  BY <1>3 DEF EndsAt
<1>5. ASSUME lo < hi, s[1].type = "Data" => lo + 1 < hi
      PROVE  \E k \in 1 .. Len(t) : t[k] = Data([from |-> i, n |-> hi])
  <2>1. PICK k \in 1 .. Len(s) : s[k] = Data([from |-> i, n |-> hi])
    BY <1>5 DEF EndsAt
  <2>2. k # 1
    BY <1>2, <1>5, <2>1 DEF Data
  <2>3. k - 1 \in 1 .. Len(t) /\ (k - 1) + 1 = k
    BY <1>1, <2>2
  <2>4. t[k - 1] = s[k]
    BY <1>3, <2>3
  <2> QED
    BY <2>1, <2>3, <2>4
<1>6. s[1].type = "Data" => lo + 1 <= hi
  <2>1. 1 \in 1 .. Len(s)
    BY <1>1
  <2> QED
    BY <1>2, <2>1 DEF EndsAt
<1>7. lo <= hi
  BY DEF EndsAt
<1>8. s[1].type # "Data" => EndsAt(t, i, lo, hi)
  BY <1>4, <1>5, <1>7 DEF EndsAt
<1>9. s[1].type = "Data" => EndsAt(t, i, lo + 1, hi)
  BY <1>4, <1>5, <1>6, <1>7 DEF EndsAt
<1> QED
  BY <1>8, <1>9 DEF t

\* Where there is no Data, anything is continued.
LEMMA ContinuesNothing ==
    ASSUME NEW s \in Seq(Message), \A k \in 1 .. Len(s) : s[k].type # "Data",
           NEW i, NEW lo \in Nat
    PROVE  Continues(s, i, lo) /\ EndsAt(s, i, lo, lo)
BY DEF Continues, EndsAt

-----------------------------------------------------------------------------
(* What a step may do to the connections.  An event is what several actions *)
(* have in common here; each of them is one of these events.               *)

SameEnd(e, c) ==
    /\ Using(e, c)' <=> Using(e, c)
    /\ Started(e, c)' <=> Started(e, c)
    /\ Pending(e, c)' <=> Pending(e, c)

\* Nothing that another end could notice.
Quiet ==
    /\ UNCHANGED <<pipe, closed, broken, nconns>>
    /\ \A d \in Endpoints, b \in Conns : SameEnd(d, b)

\* e drops connections cs, whatever it had them for.
Leaves(e, cs) ==
    /\ cs \subseteq 1 .. nconns
    /\ Close(e, cs)
    /\ UNCHANGED <<broken, nconns>>
    /\ \A b \in cs : ~Using(e, b)' /\ ~Started(e, b)' /\ ~Pending(e, b)'
    /\ \A d \in Endpoints, b \in Conns : ~(d = e /\ b \in cs) => SameEnd(d, b)

\* The client makes connection c.
Makes(c) ==
    /\ c = nconns + 1 /\ nconns' = c
    /\ Send("client", c, <<make_hello("client")>>)
    /\ UNCHANGED <<broken, closed>>
    /\ Using("client", c)' /\ ~Started("client", c)' /\ ~Pending("client", c)'
    /\ ~Using("server", c)' /\ ~Started("server", c)' /\ Pending("server", c)'
    /\ \A d \in Endpoints, b \in Conns : b # c => SameEnd(d, b)

\* The server takes connection c up, and drops cs.
Takes(c, cs) ==
    /\ Pending("server", c) /\ c \notin cs /\ \A b \in cs : Pending("server", b)
    /\ closed' = [b \in Conns |-> IF b \in cs THEN closed[b] \cup {"server"} ELSE closed[b]]
    /\ pipe' = [e \in Endpoints |-> [b \in Conns |->
                  CASE e = "client" /\ b \in cs -> <<>>
                    [] e = "server" /\ b = c -> Sent(e, c, <<make_hello(e)>>)
                    [] OTHER -> pipe[e][b]]]
    /\ UNCHANGED <<broken, nconns>>
    /\ Using("server", c)' /\ ~Started("server", c)' /\ ~Pending("server", c)'
    /\ \A b \in cs : ~Using("server", b)' /\ ~Started("server", b)' /\ ~Pending("server", b)'
    /\ \A d \in Endpoints, b \in Conns : ~(d = "server" /\ b \in cs \cup {c}) => SameEnd(d, b)

\* e sends a message of its application.
Writes(e, c, p) ==
    /\ Started(e, c)
    /\ p \in Payload /\ Send(e, c, <<Data(p)>>)
    /\ UNCHANGED <<broken, closed, nconns>>
    /\ \A d \in Endpoints, b \in Conns : SameEnd(d, b)

\* e takes the first message m of its peer, and answers with ms: to the hello with
\* what it has to send, to Data with an acknowledgement.
Reads(e, c, m, ms) ==
    /\ Using(e, c) /\ pipe[Peer(e)][c] # <<>> /\ m = pipe[Peer(e)][c][1]
    /\ ms \in Seq(Message) /\ Answer(e, c, ms)
    /\ \/ ~Started(e, c) /\ m.type = "Hello" /\ Kinds(ms, {"Data"})
       \/ Started(e, c) /\ m.type = "Ack" /\ ms = <<>>
       \/ Started(e, c) /\ m.type = "Data" /\ Kinds(ms, {"Ack"})
    /\ UNCHANGED <<broken, closed, nconns>>
    /\ Using(e, c)' /\ Started(e, c)' /\ ~Pending(e, c)'
    /\ \A d \in Endpoints, b \in Conns : ~(d = e /\ b = c) => SameEnd(d, b)

\* The network loses connection c.
Loses(c) ==
    /\ broken' = broken \cup {c}
    /\ \A d \in Endpoints, b \in Conns :
          IF b = c THEN pipe'[d][b] \in Prefixes(pipe[d][b]) ELSE pipe'[d][b] = pipe[d][b]
    /\ UNCHANGED <<closed, nconns>>
    /\ \A d \in Endpoints, b \in Conns : SameEnd(d, b)

-----------------------------------------------------------------------------
(* What an event does to each pipe.                                        *)

\* Every pipe is a sequence of messages, and stays one.
LEMMA PipeType ==
    ASSUME TypeOK, NEW e \in Endpoints, NEW c \in Conns
    PROVE  /\ pipe[e][c] \in Seq(Message) /\ Len(pipe[e][c]) \in Nat
           /\ pipe[e][c] # <<>> => Len(pipe[e][c]) \in Nat \ {0} /\ pipe[e][c][1] \in Message
           /\ pipe[e][c] = <<>> => Len(pipe[e][c]) = 0
<1>1. pipe[e][c] \in Seq(Message)
  BY DEF TypeOK
<1> QED
  BY <1>1, EmptySeq, LenProperties, ElementOfSeq

\* Sending appends to one pipe, unless the connection is dead.
LEMMA SendPipe ==
    ASSUME TypeOK, NEW e \in Endpoints, NEW c \in Conns, NEW ms, Send(e, c, ms),
           NEW d \in Endpoints, NEW b \in Conns
    PROVE  pipe'[d][b] = IF d = e /\ b = c /\ ~Dead(e, c) THEN pipe[e][c] \o ms ELSE pipe[d][b]
BY DEF TypeOK, Send, Sent

\* Answering takes one message and appends others in the other direction.
LEMMA AnswerPipe ==
    ASSUME TypeOK, NEW e \in Endpoints, NEW c \in Conns, NEW ms, Answer(e, c, ms),
           NEW d \in Endpoints, NEW b \in Conns
    PROVE  /\ d = Peer(e) /\ b = c => pipe'[d][b] = Tail(pipe[d][b])
           /\ d = e /\ b = c => pipe'[d][b] = IF Dead(e, c) THEN pipe[d][b] ELSE pipe[d][b] \o ms
           /\ b # c => pipe'[d][b] = pipe[d][b]
BY PeerProperties DEF TypeOK, Answer, Sent

\* Taking a connection up sends the server's hello on it.
LEMMA TakesPipe ==
    ASSUME TypeOK, NEW c \in Conns, NEW cs, Takes(c, cs), NEW d \in Endpoints, NEW b \in Conns
    PROVE  /\ d = "client" => pipe'[d][b] = IF b \in cs THEN <<>> ELSE pipe[d][b]
           /\ d = "server" /\ b = c => pipe'[d][b] = Sent("server", c, <<make_hello("server")>>)
           /\ d = "server" /\ b # c => pipe'[d][b] = pipe[d][b]
           /\ closed'[b] = IF b \in cs THEN closed[b] \cup {"server"} ELSE closed[b]
BY DEF TypeOK, Takes, Endpoints

-----------------------------------------------------------------------------
(* The events keep what ConnInv says of the ends and the kinds of messages.*)

EndsInv == EndsOwned /\ HelloFirst /\ HelloKept /\ HelloOnly

\* Only its first message can be a hello.
LEMMA EmptyKinds == \A types : Kinds(<<>>, types) /\ Len(<<>>) = 0
BY EmptySeq DEF Kinds

\* A step that no end can notice keeps everything.
LEMMA QuietEnds ==
    ASSUME TypeOK, EndsInv, Quiet PROVE EndsInv'
<1> USE DEF EndsInv, Quiet, SameEnd
<1>1. EndsOwned'
  BY PeerProperties DEF EndsOwned
<1>2. HelloFirst'
  BY PeerProperties DEF HelloFirst
<1>3. HelloKept'
  BY PeerProperties DEF HelloKept, Dead
<1>4. HelloOnly'
  BY PeerProperties DEF HelloOnly
<1> QED
  BY <1>1, <1>2, <1>3, <1>4

\* Dropping connections empties what would reach the end.
LEMMA LeavesEnds ==
    ASSUME TypeOK, EndsInv, NEW e \in Endpoints, NEW cs, Leaves(e, cs) PROVE EndsInv'
<1> USE DEF EndsInv
<1>0. Close(e, cs) /\ broken' = broken /\ nconns' = nconns /\ cs \subseteq 1 .. nconns
  BY DEF Leaves
<1>1. ASSUME NEW d \in Endpoints, NEW b \in Conns
      PROVE  /\ pipe'[d][b] = IF d = Peer(e) /\ b \in cs THEN <<>> ELSE pipe[d][b]
             /\ closed'[b] = IF b \in cs THEN closed[b] \cup {e} ELSE closed[b]
  BY <1>0, PeerProperties DEF TypeOK, Close
<1>a. \A b \in Conns : b > nconns => b \notin cs
  BY <1>0 DEF TypeOK, Conns
<1>2. ASSUME NEW d \in Endpoints, NEW b \in Conns
      PROVE  /\ d = e /\ b \in cs => ~Using(d, b)' /\ ~Started(d, b)' /\ ~Pending(d, b)'
             /\ ~(d = e /\ b \in cs) => SameEnd(d, b)
  BY DEF Leaves
<1>3. EndsOwned'
  <2> SUFFICES ASSUME NEW d \in Endpoints, NEW b \in Conns
               PROVE  /\ Using(d, b)' \/ Pending(d, b)' <=> b <= nconns' /\ d \notin closed'[b]
                      /\ ~(Using(d, b)' /\ Pending(d, b)')
                      /\ b > nconns' \/ Peer(d) \in closed'[b] => pipe'[d][b] = <<>>
                      /\ b > nconns' => closed'[b] = {}
    BY DEF EndsOwned
  <2>0. /\ Using(d, b) \/ Pending(d, b) <=> b <= nconns /\ d \notin closed[b]
        /\ ~(Using(d, b) /\ Pending(d, b))
        /\ b > nconns \/ Peer(d) \in closed[b] => pipe[d][b] = <<>>
        /\ b > nconns => closed[b] = {}
    BY DEF EndsOwned
  <2>1. CASE d = e /\ b \in cs
    <3>1. d # Peer(d) /\ pipe'[d][b] = pipe[d][b] /\ closed'[b] = closed[b] \cup {d}
      BY <1>1, <2>1, PeerProperties
    <3>2. ~Using(d, b)' /\ ~Pending(d, b)'
      BY <1>2, <2>1
    <3>3. ~(b > nconns)
      BY <1>a, <2>1
    <3> QED
      BY <1>0, <2>0, <3>1, <3>2, <3>3
  <2>2. CASE ~(d = e /\ b \in cs)
    <3>1. SameEnd(d, b)
      BY <1>2, <2>2
    <3>2. d \in closed'[b] <=> d \in closed[b]
      BY <1>1, <2>2
    <3>3. b > nconns \/ Peer(d) \in closed'[b] => pipe'[d][b] = <<>>
      <4>1. CASE d = Peer(e) /\ b \in cs
        BY <1>1, <4>1
      <4>2. CASE ~(d = Peer(e) /\ b \in cs)
        <5>1. pipe'[d][b] = pipe[d][b]
          BY <1>1, <4>2
        <5>2. Peer(d) \in closed'[b] => Peer(d) \in closed[b]
          BY <1>1, <4>2, PeerProperties
        <5> QED
          BY <2>0, <5>1, <5>2
      <4> QED
        BY <4>1, <4>2
    <3>4. b > nconns => closed'[b] = {}
      BY <1>1, <1>a, <2>0
    <3> QED
      BY <1>0, <2>0, <3>1, <3>2, <3>3, <3>4 DEF SameEnd
  <2> QED
    BY <2>1, <2>2
<1>4. HelloFirst'
  <2> SUFFICES ASSUME NEW d \in Endpoints, NEW b \in Conns, NEW k \in 1 .. Len(pipe'[Peer(d)][b])
               PROVE  pipe'[Peer(d)][b][k].type = "Hello" <=> k = 1 /\ ~Started(d, b)'
    BY DEF HelloFirst
  <2>0. Peer(d) \in Endpoints /\ (Peer(d) = Peer(e) <=> d = e)
    BY PeerProperties
  <2>1. ~(d = e /\ b \in cs)
    <3> SUFFICES ASSUME d = e, b \in cs PROVE FALSE
      OBVIOUS
    <3>1. pipe'[Peer(d)][b] = <<>>
      BY <1>1, <2>0
    <3> QED
      BY <3>1, EmptyKinds
  <2>2. pipe'[Peer(d)][b] = pipe[Peer(d)][b] /\ SameEnd(d, b)
    BY <1>1, <1>2, <2>0, <2>1
  <2> QED
    BY <2>2 DEF HelloFirst, SameEnd
<1>5. HelloKept'
  <2> SUFFICES ASSUME NEW d \in Endpoints, NEW b \in Conns,
                      Using(d, b)', ~Dead(d, b)', ~Started(Peer(d), b)'
               PROVE  pipe'[d][b] # <<>>
    BY DEF HelloKept
  <2>1. ~(Peer(d) = e /\ b \in cs) /\ ~(d = e /\ b \in cs)
    BY <1>1, <1>2, PeerProperties DEF Dead
  <2>2. SameEnd(d, b) /\ SameEnd(Peer(d), b) /\ pipe'[d][b] = pipe[d][b]
    BY <1>1, <1>2, <2>1, PeerProperties
  <2>3. ~Dead(d, b)
    BY <1>0, <1>1 DEF Dead
  <2> QED
    BY <2>2, <2>3 DEF HelloKept, SameEnd
<1>6. HelloOnly'
  <2> SUFFICES ASSUME NEW d \in Endpoints, NEW b \in Conns
               PROVE  /\ Using(d, b)' /\ ~Started(d, b)' => Kinds(pipe'[d][b], {"Hello"})
                      /\ Pending(d, b)' => /\ pipe'[d][b] = <<>> /\ ~Started(Peer(d), b)'
                                           /\ Kinds(pipe'[Peer(d)][b], {"Hello"})
                      /\ ~Started(d, b)' => Kinds(pipe'[Peer(d)][b], {"Hello", "Data"})
    BY DEF HelloOnly
  <2>0. /\ Using(d, b) /\ ~Started(d, b) => Kinds(pipe[d][b], {"Hello"})
        /\ Pending(d, b) => /\ pipe[d][b] = <<>> /\ ~Started(Peer(d), b)
                            /\ Kinds(pipe[Peer(d)][b], {"Hello"})
        /\ ~Started(d, b) => Kinds(pipe[Peer(d)][b], {"Hello", "Data"})
    BY DEF HelloOnly
  <2>1. /\ pipe'[d][b] = pipe[d][b] \/ pipe'[d][b] = <<>>
        /\ pipe'[Peer(d)][b] = pipe[Peer(d)][b] \/ pipe'[Peer(d)][b] = <<>>
    BY <1>1, PeerProperties
  <2>2. CASE d = e /\ b \in cs
    <3>1. pipe'[Peer(d)][b] = <<>>
      BY <1>1, <2>2, PeerProperties
    <3> QED
      BY <1>2, <2>2, <3>1, EmptyKinds
  <2>3. CASE ~(d = e /\ b \in cs)
    <3>1. SameEnd(d, b) /\ (Started(Peer(d), b)' => Started(Peer(d), b))
      BY <1>2, <2>3, PeerProperties DEF SameEnd
    <3> QED
      BY <2>0, <2>1, <3>1, EmptyKinds DEF SameEnd
  <2> QED
    BY <2>2, <2>3
<1> QED
  BY <1>3, <1>4, <1>5, <1>6

\* What EndsInv says of one end of one connection.
EndInv(e, c) ==
    /\ Using(e, c) \/ Pending(e, c) <=> c <= nconns /\ e \notin closed[c]
    /\ ~(Using(e, c) /\ Pending(e, c))
    /\ c > nconns \/ Peer(e) \in closed[c] => pipe[e][c] = <<>>
    /\ c > nconns => closed[c] = {}
    /\ \A k \in 1 .. Len(pipe[Peer(e)][c]) :
          pipe[Peer(e)][c][k].type = "Hello" <=> k = 1 /\ ~Started(e, c)
    /\ Using(e, c) /\ ~Dead(e, c) /\ ~Started(Peer(e), c) => pipe[e][c] # <<>>
    /\ Using(e, c) /\ ~Started(e, c) => Kinds(pipe[e][c], {"Hello"})
    /\ Pending(e, c) => /\ pipe[e][c] = <<>> /\ ~Started(Peer(e), c)
                        /\ Kinds(pipe[Peer(e)][c], {"Hello"})
    /\ ~Started(e, c) => Kinds(pipe[Peer(e)][c], {"Hello", "Data"})

\* EndsInv end by end, now and in the next state.
LEMMA EndsInvByEnd == EndsInv <=> \A e \in Endpoints, c \in Conns : EndInv(e, c)
BY DEF EndsInv, EndsOwned, HelloFirst, HelloKept, HelloOnly, EndInv

\* The same after a step.
LEMMA EndsInvByEndNext == EndsInv' <=> \A e \in Endpoints, c \in Conns : EndInv(e, c)'
BY DEF EndsInv, EndsOwned, HelloFirst, HelloKept, HelloOnly, EndInv

\* A connection that the step does not touch.
LEMMA UntouchedEnd ==
    ASSUME NEW d \in Endpoints, NEW b \in Conns, EndInv(d, b),
           SameEnd(d, b), SameEnd(Peer(d), b),
           pipe'[d][b] = pipe[d][b], pipe'[Peer(d)][b] = pipe[Peer(d)][b],
           closed'[b] = closed[b], b \in broken' <=> b \in broken,
           b <= nconns' <=> b <= nconns, b > nconns' <=> b > nconns
    PROVE  EndInv(d, b)'
BY DEF EndInv, SameEnd, Dead

\* Two messages of the kinds that an end sends.
LEMMA OneMessage ==
    ASSUME NEW m \in Message
    PROVE  <<m>> \in Seq(Message) /\ Len(<<m>>) = 1 /\ <<m>>[1] = m /\ <<m>> # <<>>
OBVIOUS

\* A hello is a message, and one alone a sequence of them.
LEMMA HelloMessage ==
    ASSUME TypeOK, NEW e \in Endpoints
    PROVE  /\ make_hello(e) \in Message /\ make_hello(e).type = "Hello"
           /\ <<make_hello(e)>> \in Seq(Message)
BY MessageConstructors DEF TypeOK, make_hello, Hello

\* A pipe that holds one hello or nothing.
LEMMA OnlyHello ==
    ASSUME TypeOK, NEW e \in Endpoints, NEW s, s = <<make_hello(e)>> \/ s = <<>>
    PROVE  /\ Kinds(s, {"Hello"}) /\ Kinds(s, {"Hello", "Data"})
           /\ \A k \in 1 .. Len(s) : k = 1 /\ s[k].type = "Hello" /\ s[k] = make_hello(e)
<1>1. make_hello(e) \in Message /\ make_hello(e).type = "Hello"
  BY HelloMessage
<1>2. CASE s = <<make_hello(e)>>
  <2>1. Len(s) = 1 /\ s[1] = make_hello(e)
    BY <1>1, <1>2, OneMessage
  <2> QED
    BY <1>1, <2>1 DEF Kinds
<1>3. CASE s = <<>>
  <2>1. Len(s) = 0
    BY <1>3, EmptyKinds
  <2> QED
    BY <2>1 DEF Kinds
<1> QED
  BY <1>2, <1>3

\* A new connection, on which the client's hello is all there is.
LEMMA MakesEnds ==
    ASSUME TypeOK, EndsInv, NEW c \in Conns, Makes(c) PROVE EndsInv'
<1>0. "client" \in Endpoints /\ "server" \in Endpoints
      /\ Peer("client") = "server" /\ Peer("server") = "client"
  BY DEF Endpoints, Peer
<1>1. /\ Send("client", c, <<make_hello("client")>>) /\ closed' = closed /\ broken' = broken
      /\ c = nconns + 1 /\ nconns' = c /\ nconns \in Nat /\ c > nconns
  BY DEF Makes, TypeOK
<1>2. \A e \in Endpoints : EndInv(e, c)
  BY EndsInvByEnd
<1>3. closed[c] = {} /\ pipe["client"][c] = <<>> /\ pipe["server"][c] = <<>>
  BY <1>0, <1>1, <1>2 DEF EndInv
<1>4. pipe'["server"][c] = <<>>
  BY <1>0, <1>1, <1>3, SendPipe
<1>5. \/ pipe'["client"][c] = <<make_hello("client")>>
      \/ pipe'["client"][c] = <<>> /\ Dead("client", c)'
  <2>1. CASE Dead("client", c)
    BY <1>0, <1>1, <1>3, <2>1, SendPipe DEF Dead
  <2>2. CASE ~Dead("client", c)
    <3>0. pipe'["client"][c] = IF ~Dead("client", c) THEN pipe["client"][c] \o <<make_hello("client")>>
                               ELSE pipe["client"][c]
      BY <1>0, <1>1, SendPipe
    <3>1. pipe'["client"][c] = <<>> \o <<make_hello("client")>>
      BY <1>3, <2>2, <3>0
    <3>2. <<make_hello("client")>> \in Seq(Message)
      BY <1>0, OneMessage, HelloMessage
    <3> QED
      BY <3>1, <3>2, ConcatEmptySeq
  <2> QED
    BY <2>1, <2>2
<1>6. /\ Kinds(pipe'["client"][c], {"Hello"}) /\ Kinds(pipe'["client"][c], {"Hello", "Data"})
      /\ \A k \in 1 .. Len(pipe'["client"][c]) : k = 1 /\ pipe'["client"][c][k].type = "Hello"
  BY <1>0, <1>5, OnlyHello
<1>7. /\ Using("client", c)' /\ ~Started("client", c)' /\ ~Pending("client", c)'
      /\ ~Using("server", c)' /\ ~Started("server", c)' /\ Pending("server", c)'
  BY DEF Makes
<1>8. EndInv("client", c)'
  <2>1. c <= nconns' /\ ~(c > nconns') /\ "client" \notin closed'[c] /\ "server" \notin closed'[c]
    BY <1>1, <1>3 DEF Conns
  <2>2. ~Dead("client", c)' => pipe'["client"][c] # <<>>
    BY <1>0, <1>5, HelloMessage, OneMessage
  <2>3. Len(pipe'["server"][c]) = 0 /\ Kinds(pipe'["server"][c], {"Hello", "Data"})
    BY <1>4, EmptyKinds
  <2> QED
    BY <1>0, <1>6, <1>7, <2>1, <2>2, <2>3 DEF EndInv
<1>9. EndInv("server", c)'
  BY <1>0, <1>1, <1>3, <1>4, <1>5, <1>6, <1>7, OneMessage, HelloMessage, EmptyKinds DEF EndInv, Kinds
<1>10. ASSUME NEW d \in Endpoints, NEW b \in Conns, b # c PROVE EndInv(d, b)'
  <2>1. EndInv(d, b) /\ SameEnd(d, b) /\ SameEnd(Peer(d), b)
    BY <1>10, EndsInvByEnd, PeerProperties DEF Makes
  <2>2. pipe'[d][b] = pipe[d][b] /\ pipe'[Peer(d)][b] = pipe[Peer(d)][b]
    BY <1>0, <1>1, <1>10, SendPipe, PeerProperties
  <2>3. (b <= nconns' <=> b <= nconns) /\ (b > nconns' <=> b > nconns)
    BY <1>1, <1>10 DEF Conns
  <2> QED
    BY <1>1, <2>1, <2>2, <2>3, UntouchedEnd
<1> QED
  BY <1>8, <1>9, <1>10, EndsInvByEndNext DEF Endpoints

\* The server takes a connection up: nothing of its own was on it.
LEMMA TakesEnds ==
    ASSUME TypeOK, EndsInv, NEW c \in Conns, NEW cs \in SUBSET Conns, Takes(c, cs) PROVE EndsInv'
<1>0. "client" \in Endpoints /\ "server" \in Endpoints /\ "client" # "server"
      /\ Peer("client") = "server" /\ Peer("server") = "client"
  BY DEF Endpoints, Peer
<1>1. /\ broken' = broken /\ nconns' = nconns /\ c \notin cs
      /\ Pending("server", c) /\ \A b \in cs : Pending("server", b)
  BY DEF Takes
<1>2. \A e \in Endpoints, b \in Conns : EndInv(e, b)
  BY EndsInvByEnd
<1>3. ASSUME NEW b \in Conns
      PROVE  /\ pipe'["client"][b] = IF b \in cs THEN <<>> ELSE pipe["client"][b]
             /\ b = c => pipe'["server"][b] = Sent("server", c, <<make_hello("server")>>)
             /\ b # c => pipe'["server"][b] = pipe["server"][b]
             /\ closed'[b] = IF b \in cs THEN closed[b] \cup {"server"} ELSE closed[b]
  <2>1. \A d \in Endpoints :
           /\ d = "client" => pipe'[d][b] = IF b \in cs THEN <<>> ELSE pipe[d][b]
           /\ d = "server" /\ b = c => pipe'[d][b] = Sent("server", c, <<make_hello("server")>>)
           /\ d = "server" /\ b # c => pipe'[d][b] = pipe[d][b]
           /\ closed'[b] = IF b \in cs THEN closed[b] \cup {"server"} ELSE closed[b]
    BY TakesPipe
  <2> QED
    BY <1>0, <2>1
<1>4. ASSUME NEW d \in Endpoints, NEW b \in Conns, b \notin cs \cup {c} PROVE EndInv(d, b)'
  <2>1. SameEnd(d, b) /\ SameEnd(Peer(d), b)
    BY <1>4, PeerProperties DEF Takes
  <2>2. pipe'[d][b] = pipe[d][b] /\ pipe'[Peer(d)][b] = pipe[Peer(d)][b] /\ closed'[b] = closed[b]
    BY <1>0, <1>3, <1>4 DEF Endpoints
  <2> QED
    BY <1>1, <1>2, <2>1, <2>2, UntouchedEnd
<1>5. ASSUME NEW b \in cs PROVE EndInv("client", b)' /\ EndInv("server", b)'
  <2>1. /\ pipe'["client"][b] = <<>> /\ pipe'["server"][b] = pipe["server"][b]
        /\ closed'[b] = closed[b] \cup {"server"}
    BY <1>0, <1>1, <1>3, <1>5
  <2>2. EndInv("client", b) /\ EndInv("server", b) /\ Pending("server", b)
    BY <1>0, <1>1, <1>2, <1>5
  <2>3. pipe["server"][b] = <<>> /\ ~Started("client", b)
    BY <1>0, <2>2 DEF EndInv
  <2>4. /\ SameEnd("client", b)
        /\ ~Using("server", b)' /\ ~Started("server", b)' /\ ~Pending("server", b)'
    BY <1>0, <1>5 DEF Takes
  <2>5. b <= nconns /\ ~(b > nconns)
    BY <2>2 DEF EndInv, TypeOK, Conns
  <2>6. EndInv("client", b)'
    BY <1>0, <1>1, <2>1, <2>2, <2>3, <2>4, <2>5, EmptyKinds DEF EndInv, SameEnd, Dead
  <2>7. EndInv("server", b)'
    BY <1>0, <1>1, <2>1, <2>2, <2>3, <2>4, <2>5, EmptyKinds DEF EndInv, SameEnd, Dead
  <2> QED
    BY <2>6, <2>7
<1>6. EndInv("client", c) /\ EndInv("server", c)
  BY <1>0, <1>2
<1>7. pipe["server"][c] = <<>> /\ ~Started("client", c) /\ Kinds(pipe["client"][c], {"Hello"})
  BY <1>0, <1>1, <1>6 DEF EndInv
<1>8. pipe'["client"][c] = pipe["client"][c] /\ closed'[c] = closed[c]
  BY <1>0, <1>1, <1>3
<1>9. \/ pipe'["server"][c] = <<make_hello("server")>>
      \/ pipe'["server"][c] = <<>> /\ Dead("server", c)'
  <2>1. pipe'["server"][c] = Sent("server", c, <<make_hello("server")>>)
    BY <1>3
  <2>2. CASE Dead("server", c)
    BY <1>1, <1>7, <1>8, <2>1, <2>2 DEF Dead, Sent
  <2>3. CASE ~Dead("server", c)
    <3>1. pipe'["server"][c] = <<>> \o <<make_hello("server")>>
      BY <1>7, <2>1, <2>3 DEF Sent
    <3>2. <<make_hello("server")>> \in Seq(Message)
      BY <1>0, OneMessage, HelloMessage
    <3> QED
      BY <3>1, <3>2, ConcatEmptySeq
  <2> QED
    BY <2>2, <2>3
<1>10. /\ Kinds(pipe'["server"][c], {"Hello"}) /\ Kinds(pipe'["server"][c], {"Hello", "Data"})
       /\ \A k \in 1 .. Len(pipe'["server"][c]) : k = 1 /\ pipe'["server"][c][k].type = "Hello"
  BY <1>0, <1>9, OnlyHello
<1>11. /\ SameEnd("client", c)
       /\ Using("server", c)' /\ ~Started("server", c)' /\ ~Pending("server", c)'
  BY <1>0, <1>1 DEF Takes
<1>12. c <= nconns /\ "server" \notin closed[c]
  BY <1>1, <1>6 DEF EndInv
<1>13. c <= nconns' /\ ~(c > nconns') /\ c <= nconns /\ ~(c > nconns)
  BY <1>1, <1>12 DEF TypeOK, Conns
<1>14. EndInv("client", c)'
  <2>1. ~Started("client", c)' /\ (Dead("client", c)' <=> Dead("client", c))
        /\ ~Pending("client", c)'
    BY <1>0, <1>1, <1>7, <1>8, <1>11 DEF SameEnd, Dead, Pending
  <2>2. Using("client", c)' /\ ~Dead("client", c)' => pipe'["client"][c] # <<>>
    <3>1. ~Started("server", c)
      BY <1>1, <1>6 DEF EndInv, Using, Started, InStream
    <3>2. Using("client", c) /\ ~Dead("client", c) => pipe["client"][c] # <<>>
      BY <1>0, <1>6, <3>1 DEF EndInv
    <3> QED
      BY <1>8, <1>11, <2>1, <3>2 DEF SameEnd
  <2> QED
    BY <1>0, <1>6, <1>7, <1>8, <1>10, <1>11, <1>13, <2>1, <2>2 DEF EndInv, SameEnd
<1>15. EndInv("server", c)'
  <2>1. Pending("server", c) /\ ~Using("server", c) /\ ~Started("server", c)
    BY <1>1, <1>6 DEF EndInv, Using, Started, InStream
  <2>2. \A k \in 1 .. Len(pipe["client"][c]) : pipe["client"][c][k].type = "Hello" <=> k = 1
    BY <1>0, <1>6, <2>1 DEF EndInv
  <2>3. ~Dead("server", c)' => pipe'["server"][c] # <<>>
    BY <1>0, <1>9, OneMessage, HelloMessage
  <2>4. Kinds(pipe["client"][c], {"Hello", "Data"})
    BY <1>7 DEF Kinds
  <2>5. "client" \in closed[c] => pipe'["server"][c] = <<>>
    BY <1>0, <1>1, <1>3, <1>7 DEF Sent, Dead
  <2> QED
    BY <1>0, <1>6, <1>7, <1>8, <1>10, <1>11, <1>12, <1>13, <2>2, <2>3, <2>4, <2>5 DEF EndInv, SameEnd
<1> QED
  BY <1>0, <1>4, <1>5, <1>14, <1>15, EndsInvByEndNext DEF Endpoints

\* The kinds of messages in what is left of a sequence, or added to it.
LEMMA KindsParts ==
    ASSUME NEW s \in Seq(Message), NEW types
    PROVE  /\ Kinds(s, types) /\ s # <<>> => Kinds(Tail(s), types)
           /\ \A t \in Seq(Message) : Kinds(s, types) /\ Kinds(t, types) => Kinds(s \o t, types)
           /\ \A t \in Prefixes(s) : Kinds(s, types) => Kinds(t, types)
<1>1. ASSUME Kinds(s, types), s # <<>> PROVE Kinds(Tail(s), types)
  <2>1. /\ Len(s) \in Nat \ {0} /\ Len(Tail(s)) = Len(s) - 1
        /\ \A k \in 1 .. Len(s) - 1 : Tail(s)[k] = s[k + 1]
    BY <1>1, TailAt
  <2>2. \A k \in 1 .. Len(Tail(s)) : k + 1 \in 1 .. Len(s) /\ Tail(s)[k] = s[k + 1]
    BY <2>1
  <2> QED
    BY <1>1, <2>2 DEF Kinds
<1>2. ASSUME NEW t \in Seq(Message), Kinds(s, types), Kinds(t, types) PROVE Kinds(s \o t, types)
  <2>1. /\ Len(s) \in Nat /\ Len(t) \in Nat /\ Len(s \o t) = Len(s) + Len(t)
        /\ \A k \in 1 .. Len(s) : (s \o t)[k] = s[k]
        /\ \A k \in 1 .. Len(t) : (s \o t)[Len(s) + k] = t[k]
    BY ConcatAt
  <2> SUFFICES ASSUME NEW k \in 1 .. Len(s \o t) PROVE (s \o t)[k].type \in types
    BY DEF Kinds
  <2>2. CASE k \in 1 .. Len(s)
    BY <1>2, <2>1, <2>2 DEF Kinds
  <2>3. CASE k \notin 1 .. Len(s)
    <3>1. k - Len(s) \in 1 .. Len(t) /\ Len(s) + (k - Len(s)) = k
      BY <2>1, <2>3
    <3>2. (s \o t)[k] = t[k - Len(s)]
      BY <2>1, <3>1
    <3> QED
      BY <1>2, <3>1, <3>2 DEF Kinds
  <2> QED
    BY <2>2, <2>3
<1>3. ASSUME NEW t \in Prefixes(s), Kinds(s, types) PROVE Kinds(t, types)
  <2>1. Len(t) \in Nat /\ Len(s) \in Nat /\ Len(t) <= Len(s) /\ \A k \in 1 .. Len(t) : t[k] = s[k]
    BY PrefixAt
  <2> QED
    BY <1>3, <2>1 DEF Kinds
<1> QED
  BY <1>1, <1>2, <1>3

\* An end that is up sends another message: its hello is before it, or was taken.
LEMMA WritesEnds ==
    ASSUME TypeOK, EndsInv, NEW e \in Endpoints, NEW c \in Conns, NEW p, Writes(e, c, p)
    PROVE  EndsInv'
<1> DEFINE f == Peer(e)
           s == pipe[e][c]
           t == <<Data(p)>>
<1>0. f \in Endpoints /\ f # e /\ Peer(f) = e
  BY PeerProperties
<1>1. /\ Started(e, c) /\ Using(e, c) /\ p \in Payload /\ Send(e, c, t)
      /\ broken' = broken /\ closed' = closed /\ nconns' = nconns
  BY DEF Writes, Using, Started, InStream
<1>2. ASSUME NEW d \in Endpoints, NEW b \in Conns PROVE EndInv(d, b) /\ SameEnd(d, b)
  BY EndsInvByEnd DEF Writes
<1>3. ASSUME NEW d \in Endpoints, NEW b \in Conns
      PROVE  pipe'[d][b] = IF d = e /\ b = c /\ ~Dead(e, c) THEN s \o t ELSE pipe[d][b]
  BY <1>1, SendPipe
<1>4. Data(p) \in Message /\ t \in Seq(Message) /\ Len(t) = 1 /\ t[1].type = "Data"
  BY <1>1, MessageConstructors, OneMessage DEF Data
<1>5. ASSUME NEW d \in Endpoints, NEW b \in Conns, b # c \/ Dead(e, c) PROVE EndInv(d, b)'
  <2>1. pipe'[d][b] = pipe[d][b] /\ pipe'[Peer(d)][b] = pipe[Peer(d)][b]
    BY <1>3, <1>5, PeerProperties
  <2> QED
    BY <1>1, <1>2, <2>1, PeerProperties, UntouchedEnd
<1>6. ASSUME ~Dead(e, c) PROVE EndInv(e, c)' /\ EndInv(f, c)'
  <2>1. EndInv(e, c) /\ EndInv(f, c) /\ SameEnd(e, c) /\ SameEnd(f, c)
    BY <1>0, <1>2
  <2>2. /\ s \in Seq(Message) /\ Len(s) \in Nat /\ Len(s \o t) = Len(s) + 1
        /\ \A k \in 1 .. Len(s) : (s \o t)[k] = s[k]
        /\ (s \o t)[Len(s) + 1] = t[1]
    BY <1>4, PipeType, ConcatAt
  <2>3. s \o t # <<>>
    BY <2>2, EmptyKinds
  <2>4. pipe'[e][c] = s \o t /\ pipe'[f][c] = pipe[f][c]
    BY <1>0, <1>3, <1>6
  <2>5. c <= nconns /\ ~(c > nconns) /\ f \notin closed[c] /\ ~Pending(e, c) /\ ~Pending(f, c)
    BY <1>0, <1>1, <1>6, <2>1 DEF EndInv, Dead, TypeOK, Conns
  <2>6. EndInv(e, c)'
    BY <1>0, <1>1, <2>1, <2>3, <2>4, <2>5 DEF EndInv, SameEnd, Dead
  <2>7. ~Started(f, c) => s # <<>>
    BY <1>0, <1>1, <1>6, <2>1 DEF EndInv
  <2>8. ASSUME NEW k \in 1 .. Len(s \o t)
        PROVE  (s \o t)[k].type = "Hello" <=> k = 1 /\ ~Started(f, c)
    <3>1. CASE k \in 1 .. Len(s)
      BY <1>0, <2>1, <2>2, <3>1 DEF EndInv
    <3>2. CASE k \notin 1 .. Len(s)
      <4>1. k = Len(s) + 1
        BY <2>2, <3>2
      <4>2. s # <<>> => Len(s) # 0
        BY <2>2, EmptySeq
      <4> QED
        BY <1>4, <2>2, <2>7, <4>1, <4>2
    <3> QED
      BY <3>1, <3>2
  <2>9. ~Started(f, c) => Kinds(s \o t, {"Hello", "Data"})
    <3>1. ~Started(f, c) => Kinds(s, {"Hello", "Data"})
      BY <1>0, <2>1 DEF EndInv
    <3>2. Kinds(t, {"Hello", "Data"})
      BY <1>4 DEF Kinds
    <3> QED
      BY <1>4, <2>2, <3>1, <3>2, KindsParts
  <2> HIDE DEF s, t, f
  <2>10. EndInv(f, c)'
    BY <1>0, <1>1, <2>1, <2>4, <2>5, <2>8, <2>9 DEF EndInv, SameEnd, Dead
  <2> QED
    BY <2>6, <2>10
<1>7. \A d \in Endpoints : d = e \/ d = f
  BY DEF Endpoints, Peer
<1> QED
  BY <1>5, <1>6, <1>7, EndsInvByEndNext

\* An end takes its peer's first message and answers it.
LEMMA ReadsEnds ==
    ASSUME TypeOK, EndsInv, NEW e \in Endpoints, NEW c \in Conns, NEW m, NEW ms,
           Reads(e, c, m, ms)
    PROVE  EndsInv'
<1> DEFINE f == Peer(e)
           s == pipe[e][c]
           u == pipe[f][c]
<1>0. f \in Endpoints /\ f # e /\ Peer(f) = e
  BY PeerProperties
<1>1. /\ Using(e, c) /\ u # <<>> /\ m = u[1] /\ ms \in Seq(Message) /\ Answer(e, c, ms)
      /\ Using(e, c)' /\ Started(e, c)' /\ ~Pending(e, c)'
      /\ broken' = broken /\ closed' = closed /\ nconns' = nconns
  BY DEF Reads
<1>2. ASSUME NEW d \in Endpoints, NEW b \in Conns
      PROVE  EndInv(d, b) /\ (~(d = e /\ b = c) => SameEnd(d, b))
  BY EndsInvByEnd DEF Reads
<1>3. ASSUME NEW d \in Endpoints, NEW b \in Conns
      PROVE  /\ d = f /\ b = c => pipe'[d][b] = Tail(pipe[d][b])
             /\ d = e /\ b = c => pipe'[d][b] = IF Dead(e, c) THEN pipe[d][b] ELSE pipe[d][b] \o ms
             /\ b # c => pipe'[d][b] = pipe[d][b]
  BY <1>1, AnswerPipe
<1>4. ASSUME NEW d \in Endpoints, NEW b \in Conns, b # c PROVE EndInv(d, b)'
  <2>1. pipe'[d][b] = pipe[d][b] /\ pipe'[Peer(d)][b] = pipe[Peer(d)][b]
    BY <1>3, <1>4, PeerProperties
  <2> QED
    BY <1>1, <1>2, <1>4, <2>1, PeerProperties, UntouchedEnd
<1>5. /\ pipe'[f][c] = Tail(u)
      /\ Dead(e, c) => pipe'[e][c] = s
      /\ ~Dead(e, c) => pipe'[e][c] = s \o ms
  BY <1>0, <1>3
<1>6. EndInv(e, c) /\ EndInv(f, c) /\ SameEnd(f, c)
  BY <1>0, <1>2
<1>7. c <= nconns /\ ~(c > nconns) /\ e \notin closed[c] /\ ~Pending(e, c) /\ ~Pending(f, c)
  BY <1>0, <1>1, <1>6 DEF EndInv, TypeOK, Conns
<1>8. /\ u \in Seq(Message) /\ Len(u) \in Nat \ {0} /\ Len(Tail(u)) = Len(u) - 1
      /\ \A k \in 1 .. Len(u) - 1 : Tail(u)[k] = u[k + 1]
  BY <1>0, <1>1, PipeType, TailAt
<1>9. /\ s \in Seq(Message) /\ Len(s) \in Nat /\ Len(ms) \in Nat /\ Len(s \o ms) = Len(s) + Len(ms)
      /\ \A k \in 1 .. Len(s) : (s \o ms)[k] = s[k]
      /\ \A k \in 1 .. Len(ms) : (s \o ms)[Len(s) + k] = ms[k]
  BY <1>1, PipeType, ConcatAt
<1>10. s # <<>> => Len(s) # 0 /\ s \o ms # <<>>
  <2>1. s # <<>> => Len(s) # 0
    BY <1>9, EmptySeq
  <2> QED
    BY <1>9, <2>1, EmptyKinds
<1>11. Kinds(ms, {"Data", "Ack"})
  <2>1. Kinds(ms, {"Data"}) \/ ms = <<>> \/ Kinds(ms, {"Ack"})
    BY DEF Reads
  <2> QED
    BY <2>1, EmptyKinds DEF Kinds
<1>12. EndInv(e, c)'
  <2>1. \A k \in 1 .. Len(Tail(u)) : Tail(u)[k].type # "Hello"
    <3> SUFFICES ASSUME NEW k \in 1 .. Len(Tail(u)) PROVE Tail(u)[k].type # "Hello"
      OBVIOUS
    <3>1. k + 1 \in 1 .. Len(u) /\ k + 1 # 1 /\ Tail(u)[k] = u[k + 1]
      BY <1>8
    <3> QED
      BY <1>6, <3>1 DEF EndInv
  <2>2. ~Dead(e, c) /\ ~Started(f, c) => s \o ms # <<>>
    BY <1>1, <1>6, <1>10 DEF EndInv
  <2>3. f \in closed[c] => Dead(e, c) /\ s = <<>>
    BY <1>6 DEF EndInv, Dead
  <2> HIDE DEF s, u, f
  <2>4. (Dead(e, c)' <=> Dead(e, c)) /\ (Started(f, c)' <=> Started(f, c)) /\ (f \in closed'[c] <=> f \in closed[c])
    BY <1>1, <1>6 DEF Dead, SameEnd
  <2>5. f \in closed'[c] => pipe'[e][c] = <<>>
    BY <1>5, <2>3, <2>4
  <2>6. ~Dead(e, c)' /\ ~Started(f, c)' => pipe'[e][c] # <<>>
    BY <1>5, <2>2, <2>4
  <2> QED
    BY <1>0, <1>1, <1>5, <1>7, <2>1, <2>5, <2>6 DEF EndInv, f
<1>13. EndInv(f, c)'
  <2>1. ASSUME NEW k \in 1 .. Len(s \o ms), ~Dead(e, c)
        PROVE  (s \o ms)[k].type = "Hello" <=> k = 1 /\ ~Started(f, c)
    <3>1. CASE k \in 1 .. Len(s)
      BY <1>0, <1>6, <1>9, <3>1 DEF EndInv
    <3>2. CASE k \notin 1 .. Len(s)
      <4>0. k \in 1 .. Len(s) + Len(ms) /\ Len(s) \in Nat /\ Len(ms) \in Nat
        BY <1>9
      <4>1. k - Len(s) \in 1 .. Len(ms) /\ Len(s) + (k - Len(s)) = k
        BY <3>2, <4>0
      <4>2. (s \o ms)[k].type # "Hello"
        BY <1>9, <1>11, <4>1 DEF Kinds
      <4>3. ~Started(f, c) => s # <<>>
        BY <1>1, <1>6, <2>1 DEF EndInv
      <4>4. ~Started(f, c) => k # 1
        BY <1>9, <1>10, <3>2, <4>3
      <4> QED
        BY <4>2, <4>4
    <3> QED
      BY <3>1, <3>2
  <2>2. ASSUME NEW k \in 1 .. Len(s)
        PROVE  s[k].type = "Hello" <=> k = 1 /\ ~Started(f, c)
    BY <1>0, <1>6 DEF EndInv
  <2>3. Using(f, c) /\ ~Started(f, c) => Kinds(Tail(u), {"Hello"})
    BY <1>1, <1>6, <1>8, KindsParts DEF EndInv
  <2>4. ~Started(f, c) => Kinds(s, {"Hello", "Data"})
    BY <1>0, <1>6 DEF EndInv
  <2>5. ~Started(f, c) /\ ~Dead(e, c) => Kinds(s \o ms, {"Hello", "Data"})
    <3> SUFFICES ASSUME ~Started(f, c), ~Dead(e, c) PROVE Kinds(s \o ms, {"Hello", "Data"})
      OBVIOUS
    <3>1. Using(f, c)
      BY <1>0, <1>6, <1>7 DEF EndInv, Dead
    <3>2. Kinds(u, {"Hello"})
      BY <1>6, <3>1 DEF EndInv
    <3>3. m.type = "Hello"
      BY <1>1, <1>8, <3>2 DEF Kinds
    <3>4. Kinds(ms, {"Data"}) \/ ms = <<>>
      BY <3>3 DEF Reads
    <3>5. Kinds(ms, {"Hello", "Data"})
      BY <3>4, EmptyKinds DEF Kinds
    <3> QED
      BY <1>1, <1>9, <2>4, <3>5, KindsParts
  <2> HIDE DEF s, u, f
  <2>6. pipe'[e][c] = s \/ (~Dead(e, c) /\ pipe'[e][c] = s \o ms)
    BY <1>5
  <2>7. \A k \in 1 .. Len(pipe'[e][c]) : pipe'[e][c][k].type = "Hello" <=> k = 1 /\ ~Started(f, c)
    BY <2>1, <2>2, <2>6
  <2>8. ~Started(f, c) => Kinds(pipe'[e][c], {"Hello", "Data"})
    BY <2>4, <2>5, <2>6
  <2> QED
    BY <1>0, <1>1, <1>5, <1>6, <1>7, <2>3, <2>7, <2>8 DEF EndInv, SameEnd
<1>14. \A d \in Endpoints : d = e \/ d = f
  BY DEF Endpoints, Peer
<1> QED
  BY <1>4, <1>12, <1>13, <1>14, EndsInvByEndNext

\* What is left of a pipe of a lost connection starts as it did.
LEMMA LosesEnds ==
    ASSUME TypeOK, EndsInv, NEW c \in Conns, Loses(c) PROVE EndsInv'
<1> SUFFICES ASSUME NEW d \in Endpoints, NEW b \in Conns PROVE EndInv(d, b)'
  BY EndsInvByEndNext
<1> DEFINE f == Peer(d)
<1>0. f \in Endpoints /\ Peer(f) = d
  BY PeerProperties
<1>1. EndInv(d, b) /\ SameEnd(d, b) /\ SameEnd(f, b) /\ closed' = closed /\ nconns' = nconns
  BY <1>0, EndsInvByEnd DEF Loses
<1>2. CASE b # c
  BY <1>0, <1>1, <1>2, UntouchedEnd DEF Loses
<1>3. CASE b = c
  <2>1. pipe'[d][b] \in Prefixes(pipe[d][b]) /\ pipe'[f][b] \in Prefixes(pipe[f][b]) /\ Dead(d, b)'
    BY <1>0, <1>3 DEF Loses, Dead
  <2>2. pipe[d][b] \in Seq(Message) /\ pipe[f][b] \in Seq(Message)
    BY <1>0, PipeType
  <2>3. /\ pipe'[d][b] \in Seq(Message) /\ Len(pipe'[d][b]) \in Nat
        /\ Len(pipe'[d][b]) <= Len(pipe[d][b]) /\ Len(pipe[d][b]) \in Nat
    BY <2>1, <2>2, PrefixAt
  <2>4. pipe[d][b] = <<>> => pipe'[d][b] = <<>>
    BY <2>3, EmptyKinds, EmptySeq
  <2>5. /\ Len(pipe'[f][b]) \in Nat /\ Len(pipe[f][b]) \in Nat /\ Len(pipe'[f][b]) <= Len(pipe[f][b])
        /\ \A k \in 1 .. Len(pipe'[f][b]) : pipe'[f][b][k] = pipe[f][b][k]
    BY <2>1, <2>2, PrefixAt
  <2>6. \A k \in 1 .. Len(pipe'[f][b]) :
           pipe'[f][b][k].type = "Hello" <=> k = 1 /\ ~Started(d, b)
    BY <1>1, <2>5 DEF EndInv
  <2>7. \A types : /\ Kinds(pipe[d][b], types) => Kinds(pipe'[d][b], types)
                   /\ Kinds(pipe[f][b], types) => Kinds(pipe'[f][b], types)
    BY <2>1, <2>2, KindsParts
  <2>8. /\ Using(d, b)' \/ Pending(d, b)' <=> b <= nconns' /\ d \notin closed'[b]
        /\ ~(Using(d, b)' /\ Pending(d, b)')
        /\ b > nconns' => closed'[b] = {}
    BY <1>1 DEF EndInv, SameEnd
  <2>9. b > nconns' \/ f \in closed'[b] => pipe'[d][b] = <<>>
    BY <1>1, <2>4 DEF EndInv
  <2>10. Using(d, b)' /\ ~Started(d, b)' => Kinds(pipe'[d][b], {"Hello"})
    <3>1. Using(d, b) /\ ~Started(d, b) => Kinds(pipe[d][b], {"Hello"})
      BY <1>1 DEF EndInv
    <3> QED
      BY <1>1, <2>7, <3>1, Zenon DEF SameEnd
  <2>11. Pending(d, b)' => /\ pipe'[d][b] = <<>> /\ ~Started(f, b)'
                           /\ Kinds(pipe'[f][b], {"Hello"})
    <3>1. Pending(d, b) => /\ pipe[d][b] = <<>> /\ ~Started(f, b)
                           /\ Kinds(pipe[f][b], {"Hello"})
      BY <1>1 DEF EndInv
    <3> QED
      BY <1>1, <2>4, <2>7, <3>1, Zenon DEF SameEnd
  <2>12. ~Started(d, b)' => Kinds(pipe'[f][b], {"Hello", "Data"})
    <3>1. ~Started(d, b) => Kinds(pipe[f][b], {"Hello", "Data"})
      BY <1>1 DEF EndInv
    <3> QED
      BY <1>1, <2>7, <3>1, Zenon DEF SameEnd
  <2>13. \A k \in 1 .. Len(pipe'[f][b]) :
            pipe'[f][b][k].type = "Hello" <=> k = 1 /\ ~Started(d, b)'
    BY <1>1, <2>6, Zenon DEF SameEnd
  <2> QED
    BY <2>1, <2>8, <2>9, <2>10, <2>11, <2>12, <2>13 DEF EndInv
<1> QED
  BY <1>2, <1>3

-----------------------------------------------------------------------------
(* What a step may do to the state of the streams.                         *)

SameStreams == UNCHANGED <<produced, app_queue, delivered, streamVars>>

\* e's application sends its next message.
Produces(e) ==
    /\ produced[id[e]] < MsgLimit[e]
    /\ produced' = [produced EXCEPT ![id[e]] = @ + 1]
    /\ app_queue' = [app_queue EXCEPT
                        ![e] = Append(@, [from |-> id[e], n |-> produced[id[e]] + 1])]
    /\ UNCHANGED <<delivered, streamVars>>

\* e's task takes the next message of its application.
Enqueues(e) ==
    /\ ~is_full(e) /\ app_queue[e] # <<>>
    /\ app_queue' = [app_queue EXCEPT ![e] = Tail(@)]
    /\ sent_unacked' = [sent_unacked EXCEPT ![e] = Append(@, Head(app_queue[e]))]
    /\ UNCHANGED <<produced, delivered, id, remote_id, base_offset, received_seq>>

\* A new process in e's place.
Renews(e) ==
    /\ nids < MaxIds /\ nids' = nids + 1
    /\ id' = [id EXCEPT ![e] = nids + 1]
    /\ remote_id' = [remote_id EXCEPT ![e] = NoId]
    /\ sent_unacked' = [sent_unacked EXCEPT ![e] = <<>>]
    /\ base_offset' = [base_offset EXCEPT ![e] = 0]
    /\ received_seq' = [received_seq EXCEPT ![e] = 0]
    /\ app_queue' = [app_queue EXCEPT ![e] = <<>>]
    /\ UNCHANGED <<produced, delivered>>

\* e learns who its peer is.
Binds(e, m) ==
    /\ m.type = "Hello" /\ known_sender(e, m.sender_id)
    /\ remote_id' = [remote_id EXCEPT ![e] = m.sender_id]
    /\ UNCHANGED <<produced, app_queue, delivered, id, received_seq>>

\* e releases what its peer has received up to seq.
Releases(e, seq) ==
    /\ ack_accepted(e, seq) /\ ack(e, seq)
    /\ UNCHANGED <<produced, app_queue, delivered, id, received_seq>>

\* e hands its peer's next message to its application.
Delivers(e, p) ==
    /\ delivered' = [delivered EXCEPT ![id[e]] = Append(@, p)]
    /\ received_seq' = [received_seq EXCEPT ![e] = @ + 1]
    /\ UNCHANGED <<produced, app_queue, id, remote_id, sent_unacked, base_offset>>

\* m is the hello that e waits for on c.
Greeted(e, c, m) ==
    /\ Using(e, c) /\ ~Started(e, c)
    /\ pipe[Peer(e)][c] # <<>> /\ m = pipe[Peer(e)][c][1] /\ m.type = "Hello"

\* The events, with what they do to the streams.
Idle      == (Quiet \/ \E e \in Endpoints : \E cs \in SUBSET Conns : Leaves(e, cs)) /\ SameStreams
Opening   == SameStreams /\ \/ \E c \in Conns : Makes(c)
                            \/ \E c \in Conns, cs \in SUBSET Conns : Takes(c, cs)
Breaking  == SameStreams /\ \E c \in Conns : Loses(c)
Producing == Quiet /\ \E e \in Endpoints : Produces(e)
\* A message is kept for the next connection.
Keeping   == \E e \in Endpoints :
                /\ Enqueues(e)
                /\ Quiet \/ \E c \in Conns : Leaves(e, {c})
                /\ \A c \in Conns : ~Started(e, c)'
Writing   == \E e \in Endpoints, c \in Conns :
                Enqueues(e) /\ Writes(e, c, Head(app_queue[e]))
Renewing  == \E e \in Endpoints : Renews(e) /\ Leaves(e, 1 .. nconns)
\* The hello is read, and the connection given up for it.
Refusing  == \E e \in Endpoints, c \in Conns, m \in Message :
                /\ Greeted(e, c, m) /\ Binds(e, m) /\ Leaves(e, {c})
                /\ Releases(e, m.sender_last_rx) \/ UNCHANGED <<sent_unacked, base_offset>>
Greeting  == \E e \in Endpoints, c \in Conns, m \in Message :
                /\ Greeted(e, c, m) /\ Binds(e, m) /\ Releases(e, m.sender_last_rx)
                /\ Reads(e, c, m, resend(unacked_after(e, m.sender_last_rx)))
Releasing == \E e \in Endpoints, c \in Conns, m \in Message :
                /\ m.type = "Ack" /\ Reads(e, c, m, <<>>)
                /\ Releases(e, m.seq) /\ UNCHANGED remote_id
Receiving == \E e \in Endpoints, c \in Conns, m \in Message :
                /\ m.type = "Data" /\ Reads(e, c, m, <<Ack(received_seq[e] + 1)>>)
                /\ Delivers(e, m.data)

Event ==
    \/ (Idle \/ Opening \/ Breaking \/ Producing \/ Keeping \/ Writing
          \/ Refusing \/ Greeting \/ Releasing \/ Receiving) /\ nids' = nids
    \/ Renewing

-----------------------------------------------------------------------------
(* Every step is one of the events.                                        *)

\* An end that keeps its control state and its place in the queues is as before.
LEMMA SameEndByState ==
    ASSUME NEW d \in Endpoints, conn'[d] = conn[d],
           InStream(d)' <=> InStream(d), pc'[d] = "running" <=> pc[d] = "running",
           NEW b, Pending(d, b)' <=> Pending(d, b)
    PROVE  SameEnd(d, b)
BY DEF SameEnd, Using, Started

\* A task that returns from run_stream, or leaves its loop, drops its connection.
LEMMA LeavesStream ==
    ASSUME TypeOK, EndsInv, NEW e \in Endpoints, InStream(e), Return(e) \/ BreakLoop(e),
           UNCHANGED <<srvVars, broken, nconns>>
    PROVE  /\ conn[e] \in Conns /\ Leaves(e, {conn[e]})
           /\ \A c \in Conns : ~Started(e, c)'
<1> DEFINE c == conn[e]
<1>1. c \in Conns /\ Using(e, c)
  BY DEF TypeOK, InStream, Using
<1>a. EndInv(e, c)
  BY <1>1, EndsInvByEnd
<1>b. c \in Nat \ {0} /\ nconns \in Nat
  <2>1. nconns \in 0 .. MaxConns
    BY DEF TypeOK
  <2>2. c \in 1 .. MaxConns
    BY <1>1 DEF Conns
  <2> QED
    BY <2>1, <2>2
<1>2. c \in 1 .. nconns /\ ~Pending(e, c)
  BY <1>1, <1>a, <1>b DEF EndInv
<1>3. Close(e, {c}) /\ ~InStream(e)' /\ pc'[e] # "running"
      /\ \A d \in Endpoints : d # e => pc'[d] = pc[d] /\ conn'[d] = conn[d]
  BY DEF Return, BreakLoop, InStream, TypeOK, LeavePC
<1>4. \A d \in Endpoints, b \in Conns : Pending(d, b)' <=> Pending(d, b)
  BY DEF Pending, srvVars
<1>5. \A b \in Conns : ~Using(e, b)' /\ ~Started(e, b)'
  BY <1>3 DEF Using, Started
<1>6. ASSUME NEW d \in Endpoints, NEW b \in Conns, ~(d = e /\ b = c) PROVE SameEnd(d, b)
  <2>1. CASE d = e
    <3>1. ~Using(d, b) /\ ~Started(d, b)
      BY <1>6, <2>1 DEF Using, Started
    <3> QED
      BY <1>4, <1>5, <2>1, <3>1 DEF SameEnd
  <2>2. CASE d # e
    BY <1>3, <1>4, <2>2, SameEndByState DEF InStream
  <2> QED
    BY <2>1, <2>2
<1> QED
  BY <1>1, <1>2, <1>3, <1>4, <1>5, <1>6 DEF Leaves

\* A step that changes no pipe, no connection and no queue, and no end's hold on its
\* connection, is quiet.
LEMMA QuietByState ==
    ASSUME UNCHANGED <<pipe, closed, broken, nconns, conn, backlog, socket_queue>>,
           \A d \in Endpoints : (InStream(d)' <=> InStream(d))
                                /\ (pc'[d] = "running" <=> pc[d] = "running")
    PROVE  Quiet
<1>1. \A d \in Endpoints, b \in Conns : Pending(d, b)' <=> Pending(d, b)
  BY DEF Pending
<1>2. \A d \in Endpoints, b \in Conns : SameEnd(d, b)
  BY <1>1, SameEndByState
<1> QED
  BY <1>2 DEF Quiet

\* The elements of a sequence, of one with an element more, and of its tail.
LEMMA RangeParts ==
    ASSUME NEW s \in Seq(Conns)
    PROVE  /\ Range(s) = {s[k] : k \in 1 .. Len(s)} /\ Range(s) \subseteq Conns
           /\ Range(<<>>) = {}
           /\ \A x \in Conns : Range(Append(s, x)) = Range(s) \cup {x}
           /\ s # <<>> => Range(s) = Range(Tail(s)) \cup {Head(s)}
<1>1. \A t \in Seq(Conns) : /\ Range(t) = {t[k] : k \in 1 .. Len(t)} /\ Len(t) \in Nat
                            /\ \A k \in 1 .. Len(t) : t[k] \in Conns
  BY LenProperties, ElementOfSeq DEF Range
<1>2. Range(<<>>) = {}
  <2>1. <<>> \in Seq(Conns) /\ Len(<<>>) = 0
    BY EmptySeq
  <2>2. 1 .. 0 = {}
    OBVIOUS
  <2>3. \A t \in Seq(Conns) : Len(t) = 0 => Range(t) = {}
    BY <1>1, <2>2
  <2> QED
    BY <2>1, <2>3
<1>3. ASSUME NEW x \in Conns PROVE Range(Append(s, x)) = Range(s) \cup {x}
  <2>1. /\ Append(s, x) \in Seq(Conns) /\ Len(Append(s, x)) = Len(s) + 1
        /\ \A k \in 1 .. Len(s) : Append(s, x)[k] = s[k]
        /\ Append(s, x)[Len(s) + 1] = x
    BY AppendProperties
  <2>2. 1 .. Len(s) + 1 = (1 .. Len(s)) \cup {Len(s) + 1}
    BY <1>1
  <2>3. Range(Append(s, x)) = {Append(s, x)[k] : k \in 1 .. Len(s) + 1}
    BY <1>1, <2>1
  <2>4. Range(s) = {s[k] : k \in 1 .. Len(s)}
    BY <1>1
  <2> QED
    BY <2>1, <2>2, <2>3, <2>4
<1>4. ASSUME s # <<>> PROVE Range(s) = Range(Tail(s)) \cup {Head(s)}
  <2>1. /\ Tail(s) \in Seq(Conns) /\ Len(s) \in Nat \ {0} /\ Head(s) = s[1]
        /\ Len(Tail(s)) = Len(s) - 1
        /\ \A k \in 1 .. Len(s) - 1 : Tail(s)[k] = s[k + 1]
    BY <1>4, TailAt
  <2>2. \A k \in 1 .. Len(s) : k = 1 \/ (k - 1 \in 1 .. Len(s) - 1 /\ (k - 1) + 1 = k)
    BY <2>1
  <2>3. \A k \in 1 .. Len(s) - 1 : k + 1 \in 1 .. Len(s)
    BY <2>1
  <2>4. 1 \in 1 .. Len(s)
    BY <2>1
  <2>5. \A x : x \in Range(s) => x \in Range(Tail(s)) \cup {Head(s)}
    <3> SUFFICES ASSUME NEW k \in 1 .. Len(s) PROVE s[k] \in Range(Tail(s)) \cup {Head(s)}
      BY <1>1
    <3>1. CASE k = 1
      BY <2>1, <3>1
    <3>2. CASE k # 1
      <4>1. k - 1 \in 1 .. Len(Tail(s)) /\ Tail(s)[k - 1] = s[k]
        BY <2>1, <2>2, <3>2
      <4> QED
        BY <1>1, <2>1, <4>1
    <3> QED
      BY <3>1, <3>2
  <2>6. \A x : x \in Range(Tail(s)) => x \in Range(s)
    <3>0. Range(Tail(s)) = {Tail(s)[k] : k \in 1 .. Len(Tail(s))}
      BY <1>1, <2>1
    <3> SUFFICES ASSUME NEW k \in 1 .. Len(Tail(s)) PROVE Tail(s)[k] \in Range(s)
      BY <3>0
    <3>1. k + 1 \in 1 .. Len(s) /\ Tail(s)[k] = s[k + 1]
      BY <2>1, <2>3
    <3> QED
      BY <1>1, <3>1
  <2>7. Head(s) \in Range(s)
    BY <1>1, <2>1, <2>4
  <2> QED
    BY <2>5, <2>6, <2>7
<1> QED
  BY <1>1, <1>2, <1>3, <1>4

\* A sorted queue cut at its k-th element.
LEMMA CutSorted ==
    ASSUME NEW s \in Seq(Conns), Sorted(s), NEW k \in 1 .. Len(s)
    PROVE  LET before == SubSeq(s, 1, k - 1)
               after  == SubSeq(s, k + 1, Len(s))
           IN /\ before \in Seq(Conns) /\ after \in Seq(Conns) /\ s[k] \in Conns
              /\ Sorted(after)
              /\ Range(s) = Range(before) \cup {s[k]} \cup Range(after)
              /\ \A x \in Range(before) : x < s[k]
              /\ \A x \in Range(after) : s[k] < x
              /\ \A x \in Range(before), y \in Range(after) : x < y
<1> DEFINE before == SubSeq(s, 1, k - 1)
           after  == SubSeq(s, k + 1, Len(s))
<1>1. Len(s) \in Nat /\ \A j \in 1 .. Len(s) : s[j] \in Conns
  BY LenProperties, ElementOfSeq
<1>2. /\ before \in Seq(Conns) /\ Len(before) = k - 1
      /\ \A j \in 1 .. k - 1 : before[j] = s[j]
  <2>1. \A j \in 1 .. k - 1 : s[j] \in Conns
    BY <1>1
  <2>2. /\ before \in Seq(Conns) /\ Len(before) = IF 1 <= k - 1 THEN (k - 1) - 1 + 1 ELSE 0
        /\ \A j \in 1 .. (k - 1) - 1 + 1 : before[j] = s[1 + j - 1]
    BY <1>1, <2>1, SubSeqProperties
  <2> QED
    BY <1>1, <2>2
<1>3. /\ after \in Seq(Conns) /\ Len(after) = Len(s) - k
      /\ \A j \in 1 .. Len(s) - k : after[j] = s[k + j]
  <2>1. \A j \in k + 1 .. Len(s) : s[j] \in Conns
    BY <1>1
  <2>2. /\ after \in Seq(Conns)
        /\ Len(after) = IF k + 1 <= Len(s) THEN Len(s) - (k + 1) + 1 ELSE 0
        /\ \A j \in 1 .. Len(s) - (k + 1) + 1 : after[j] = s[(k + 1) + j - 1]
    BY <1>1, <2>1, SubSeqProperties
  <2> QED
    BY <1>1, <2>2
<1> HIDE DEF before, after
<1>4. /\ Range(before) = {before[j] : j \in 1 .. k - 1}
      /\ Range(after) = {after[j] : j \in 1 .. Len(s) - k}
      /\ Range(s) = {s[j] : j \in 1 .. Len(s)}
  BY <1>2, <1>3, RangeParts
<1>5. /\ Range(before) = {s[j] : j \in 1 .. k - 1}
      /\ \A x \in Range(after) : \E j \in k + 1 .. Len(s) : x = s[j]
      /\ \A j \in k + 1 .. Len(s) : s[j] \in Range(after)
  <2>1. Range(before) = {s[j] : j \in 1 .. k - 1}
    BY <1>2, <1>4
  <2>2. ASSUME NEW x \in Range(after) PROVE \E j \in k + 1 .. Len(s) : x = s[j]
    <3>1. PICK j \in 1 .. Len(s) - k : x = s[k + j]
      BY <1>3, <1>4
    <3>2. k + j \in k + 1 .. Len(s)
      BY <1>1
    <3> QED
      BY <3>1, <3>2
  <2>3. ASSUME NEW j \in k + 1 .. Len(s) PROVE s[j] \in Range(after)
    <3>1. j - k \in 1 .. Len(s) - k /\ k + (j - k) = j
      BY <1>1
    <3> QED
      BY <1>3, <1>4, <3>1
  <2> QED
    BY <2>1, <2>2, <2>3
<1>6. \A i, j \in 1 .. Len(s) : i < j => s[i] < s[j]
  BY DEF Sorted
<1>7. Sorted(after)
  <2> SUFFICES ASSUME NEW i \in 1 .. Len(after), NEW j \in 1 .. Len(after), i < j
               PROVE  after[i] < after[j]
    BY DEF Sorted
  <2>1. k + i \in 1 .. Len(s) /\ k + j \in 1 .. Len(s) /\ k + i < k + j
    BY <1>1, <1>3
  <2>2. s[k + i] < s[k + j]
    BY <1>6, <2>1
  <2>3. after[i] = s[k + i] /\ after[j] = s[k + j]
    BY <1>3
  <2> QED
    BY <2>2, <2>3
<1>8. Range(s) = Range(before) \cup {s[k]} \cup Range(after)
  <2>1. \A j \in 1 .. Len(s) : j \in 1 .. k - 1 \/ j = k \/ j \in k + 1 .. Len(s)
    BY <1>1
  <2>2. \A j \in 1 .. k - 1 : j \in 1 .. Len(s)
    BY <1>1
  <2>3. \A j \in k + 1 .. Len(s) : j \in 1 .. Len(s)
    BY <1>1
  <2>4. ASSUME NEW j \in 1 .. Len(s) PROVE s[j] \in Range(before) \cup {s[k]} \cup Range(after)
    BY <1>5, <2>1
  <2>5. Range(before) \subseteq Range(s) /\ s[k] \in Range(s)
    BY <1>4, <1>5, <2>2
  <2>6. Range(after) \subseteq Range(s)
    BY <1>4, <1>5, <2>3
  <2> QED
    BY <1>4, <2>4, <2>5, <2>6
<1>9. \A x \in Range(before) : x < s[k]
  <2>1. \A j \in 1 .. k - 1 : j \in 1 .. Len(s) /\ j < k
    BY <1>1
  <2> QED
    BY <1>5, <1>6, <2>1
<1>10. \A x \in Range(after) : s[k] < x
  <2>1. \A j \in k + 1 .. Len(s) : j \in 1 .. Len(s) /\ k < j
    BY <1>1
  <2> QED
    BY <1>5, <1>6, <2>1
<1>11. \A x \in Range(before), y \in Range(after) : x < y
  <2>1. \A i \in 1 .. k - 1, j \in k + 1 .. Len(s) :
           i \in 1 .. Len(s) /\ j \in 1 .. Len(s) /\ i < j
    BY <1>1
  <2> QED
    BY <1>5, <1>6, <2>1
<1> QED
  BY <1>1, <1>2, <1>3, <1>7, <1>8, <1>9, <1>10, <1>11 DEF before, after

\* The steps that touch no connection.
LEMMA QuietSteps ==
    ASSUME TypeOK
    PROVE  /\ \A e \in Endpoints : AppSend(e) => Quiet /\ Produces(e)
           /\ \A e \in Endpoints : AppDropsSender(e) \/ AppDropsReceiver(e) \/ Cancel(e)
                                   \/ JoinDone(e) => Quiet /\ SameStreams
           /\ ClientTop \/ ConnectFails \/ UnconnectedEnds => Quiet /\ SameStreams
           /\ UnconnectedTakesFromApp =>
                 Quiet /\ Enqueues("client") /\ \A c \in Conns : ~Started("client", c)'
           /\ UNCHANGED vars => Quiet /\ SameStreams
<1> USE DEF appVars, streamVars, ctlVars, srvVars, netVars
<1>1. ASSUME NEW e \in Endpoints, AppSend(e) PROVE Quiet /\ Produces(e)
  <2>1. Quiet
    BY <1>1, QuietByState DEF AppSend, InStream
  <2> QED
    BY <1>1, <2>1 DEF AppSend, Produces
<1>2. ASSUME NEW e \in Endpoints, AppDropsSender(e) \/ AppDropsReceiver(e) \/ Cancel(e)
      PROVE  Quiet /\ SameStreams
  <2>1. Quiet
    BY <1>2, QuietByState DEF AppDropsSender, AppDropsReceiver, Cancel, InStream
  <2> QED
    BY <1>2, <2>1 DEF AppDropsSender, AppDropsReceiver, Cancel, SameStreams
<1>3. ASSUME NEW e \in Endpoints, JoinDone(e) PROVE Quiet /\ SameStreams
  <2>1. /\ ~InStream(e) /\ ~InStream(e)' /\ pc[e] # "running" /\ pc'[e] # "running"
        /\ \A d \in Endpoints : d # e => pc'[d] = pc[d] /\ conn'[d] = conn[d]
    BY <1>3 DEF TypeOK, JoinDone, InStream, LeavePC
  <2>2. \A d \in Endpoints, b \in Conns : Pending(d, b)' <=> Pending(d, b)
    BY <1>3 DEF JoinDone, Pending
  <2>3. \A d \in Endpoints, b \in Conns : SameEnd(d, b)
    <3> SUFFICES ASSUME NEW d \in Endpoints, NEW b \in Conns PROVE SameEnd(d, b)
      OBVIOUS
    <3>1. CASE d = e
      BY <2>1, <2>2, <3>1 DEF SameEnd, Using, Started
    <3>2. CASE d # e
      BY <2>1, <2>2, <3>2, SameEndByState DEF InStream
    <3> QED
      BY <3>1, <3>2
  <2> QED
    BY <1>3, <2>3 DEF JoinDone, Quiet, SameStreams
<1>4. ASSUME ClientTop \/ ConnectFails \/ UnconnectedEnds PROVE Quiet /\ SameStreams
  <2>1. \A d \in Endpoints : /\ InStream(d)' <=> InStream(d)
                             /\ pc'[d] = "running" <=> pc[d] = "running"
    BY <1>4 DEF TypeOK, ClientTop, ConnectFails, UnconnectedEnds, InStream
  <2>2. Quiet
    BY <1>4, <2>1, QuietByState DEF ClientTop, ConnectFails, UnconnectedEnds
  <2> QED
    BY <1>4, <2>2 DEF ClientTop, ConnectFails, UnconnectedEnds, SameStreams
<1>5. ASSUME UnconnectedTakesFromApp
      PROVE  Quiet /\ Enqueues("client") /\ \A c \in Conns : ~Started("client", c)'
  <2>1. Quiet
    BY <1>5, QuietByState DEF UnconnectedTakesFromApp, TakeFromApp, InStream
  <2> QED
    BY <1>5, <2>1 DEF UnconnectedTakesFromApp, TakeFromApp, Enqueues, Started
<1>6. ASSUME UNCHANGED vars PROVE Quiet /\ SameStreams
  <2>1. Quiet
    BY <1>6, QuietByState DEF vars, InStream
  <2> QED
    BY <1>6, <2>1 DEF vars, SameStreams
<1> QED
  BY <1>1, <1>2, <1>3, <1>4, <1>5, <1>6

\* The steps in which a task gives its connection up.
LEMMA LeavingSteps ==
    ASSUME TypeOK, EndsInv, NEW e \in Endpoints
    PROVE  /\ Killed(e) \/ HelloBadSender(e) \/ HelloMissing(e) \/ AppChannelClosed(e)
                \/ StreamEnds(e) => Idle
           /\ HelloBadLastRx(e) => Refusing
<1> USE DEF appVars, streamVars, ctlVars, srvVars, netVars
<1>1. ASSUME Killed(e) \/ HelloBadSender(e) \/ HelloMissing(e) \/ AppChannelClosed(e)
                \/ StreamEnds(e)
      PROVE  Idle
  <2>1. InStream(e) /\ (Return(e) \/ BreakLoop(e)) /\ UNCHANGED <<srvVars, broken, nconns>>
    BY <1>1 DEF Killed, HelloBadSender, HelloMissing, AppChannelClosed, StreamEnds, InStream
  <2>2. conn[e] \in Conns /\ Leaves(e, {conn[e]})
    BY <2>1, LeavesStream
  <2>3. {conn[e]} \in SUBSET Conns
    BY <2>2
  <2>4. SameStreams
    BY <1>1 DEF Killed, HelloBadSender, HelloMissing, AppChannelClosed, StreamEnds, SameStreams
  <2> QED
    BY <2>2, <2>3, <2>4 DEF Idle
<1>2. ASSUME HelloBadLastRx(e) PROVE Refusing
  <2> DEFINE m == Head(Incoming(e))
  <2>1. InStream(e) /\ Return(e) /\ UNCHANGED <<srvVars, broken, nconns>>
        /\ pc[e] = "hello" /\ HasMsg(e, "Hello") /\ known_sender(e, m.sender_id)
        /\ remote_id' = [remote_id EXCEPT ![e] = m.sender_id]
    BY <1>2 DEF HelloBadLastRx, InStream
  <2>2. conn[e] \in Conns /\ Leaves(e, {conn[e]})
    BY <2>1, LeavesStream
  <2>3. /\ pipe[Peer(e)][conn[e]] # <<>> /\ m = pipe[Peer(e)][conn[e]][1]
        /\ m \in Message /\ m.type = "Hello"
    <3>1. pipe[Peer(e)][conn[e]] \in Seq(Message) /\ pipe[Peer(e)][conn[e]] # <<>>
      BY <2>1, <2>2, PipeType, PeerProperties DEF HasMsg, Incoming
    <3>2. Head(pipe[Peer(e)][conn[e]]) = pipe[Peer(e)][conn[e]][1]
          /\ pipe[Peer(e)][conn[e]][1] \in Message
      BY <3>1, TailAt
    <3> QED
      BY <2>1, <3>1, <3>2 DEF HasMsg, Incoming
  <2> HIDE DEF m
  <2>4. Greeted(e, conn[e], m)
    BY <2>1, <2>3 DEF Greeted, Using, Started
  <2>5. Binds(e, m) /\ UNCHANGED <<sent_unacked, base_offset>>
    BY <1>2, <2>1, <2>3 DEF Binds, HelloBadLastRx, m
  <2> QED
    BY <2>2, <2>3, <2>4, <2>5 DEF Refusing
<1> QED
  BY <1>1, <1>2

\* What an end that waits for, or has, a message knows of it.
LEMMA NextMessage ==
    ASSUME TypeOK, NEW e \in Endpoints, InStream(e), NEW type, HasMsg(e, type)
    PROVE  \E c \in Conns, m \in Message :
              /\ conn[e] = c /\ Head(Incoming(e)) = m
              /\ pipe[Peer(e)][c] # <<>> /\ m = pipe[Peer(e)][c][1] /\ m.type = type
<1>1. conn[e] \in Conns
  BY DEF TypeOK, InStream
<1>2. pipe[Peer(e)][conn[e]] \in Seq(Message) /\ pipe[Peer(e)][conn[e]] # <<>>
  BY <1>1, PipeType, PeerProperties DEF HasMsg, Incoming
<1>3. Head(pipe[Peer(e)][conn[e]]) = pipe[Peer(e)][conn[e]][1]
      /\ pipe[Peer(e)][conn[e]][1] \in Message
  BY <1>2, TailAt
<1> QED
  BY <1>1, <1>2, <1>3 DEF HasMsg, Incoming

\* An end that goes on with its connection after a message.
LEMMA ReadsStream ==
    ASSUME TypeOK, EndsInv, NEW e \in Endpoints, InStream(e), NEW c \in Conns, conn[e] = c,
           NEW m, NEW ms \in Seq(Message),
           pipe[Peer(e)][c] # <<>>, m = pipe[Peer(e)][c][1],
           Answer(e, c, ms), UNCHANGED <<conn, closed, srvVars, broken, nconns>>,
           pc' = [pc EXCEPT ![e] = "running"],
           \/ pc[e] # "running" /\ m.type = "Hello" /\ Kinds(ms, {"Data"})
           \/ pc[e] = "running" /\ m.type = "Ack" /\ ms = <<>>
           \/ pc[e] = "running" /\ m.type = "Data" /\ Kinds(ms, {"Ack"})
    PROVE  Reads(e, c, m, ms)
<1>1. Using(e, c) /\ (Started(e, c) <=> pc[e] = "running")
  BY DEF TypeOK, InStream, Using, Started
<1>2. EndInv(e, c)
  BY <1>1, EndsInvByEnd
<1>3. \A d \in Endpoints, b \in Conns : Pending(d, b)' <=> Pending(d, b)
  BY DEF Pending, srvVars
<1>4. pc'[e] = "running" /\ conn'[e] = c
      /\ \A d \in Endpoints : d # e => pc'[d] = pc[d] /\ conn'[d] = conn[d]
  BY DEF TypeOK
<1>5. Using(e, c)' /\ Started(e, c)' /\ ~Pending(e, c)'
  BY <1>1, <1>2, <1>3, <1>4 DEF EndInv, Using, Started, InStream
<1>6. ASSUME NEW d \in Endpoints, NEW b \in Conns, ~(d = e /\ b = c) PROVE SameEnd(d, b)
  <2>1. CASE d = e
    <3>1. ~Using(d, b) /\ ~Started(d, b) /\ ~Using(d, b)' /\ ~Started(d, b)'
      BY <1>4, <1>6, <2>1 DEF Using, Started
    <3> QED
      BY <1>3, <3>1 DEF SameEnd
  <2>2. CASE d # e
    BY <1>3, <1>4, <2>2, SameEndByState DEF InStream
  <2> QED
    BY <2>1, <2>2
<1> QED
  BY <1>1, <1>5, <1>6 DEF Reads

\* The steps that take a message of the peer.
LEMMA ReadingSteps ==
    ASSUME TypeOK, EndsInv, NEW e \in Endpoints
    PROVE  /\ HelloAccepted(e) => Refusing \/ Greeting
           /\ ReceiveAck(e) => Releasing \/ Idle
           /\ ReceiveData(e) => Receiving \/ Idle
<1> USE DEF appVars, streamVars, ctlVars, srvVars, netVars
<1>1. ASSUME HelloAccepted(e) PROVE Refusing \/ Greeting
  <2>2. PICK c \in Conns, m \in Message :
           /\ conn[e] = c /\ Head(Incoming(e)) = m
           /\ pipe[Peer(e)][c] # <<>> /\ m = pipe[Peer(e)][c][1] /\ m.type = "Hello"
    BY <1>1, NextMessage DEF HelloAccepted, InStream
  <2> DEFINE left == unacked_after(e, m.sender_last_rx)
  <2>1. /\ InStream(e) /\ pc[e] = "hello"
        /\ known_sender(e, m.sender_id) /\ ack_accepted(e, m.sender_last_rx)
        /\ remote_id' = [remote_id EXCEPT ![e] = m.sender_id] /\ ack(e, m.sender_last_rx)
        /\ UNCHANGED <<srvVars, broken, nconns>>
        /\ UNCHANGED <<produced, app_queue, delivered, id, received_seq>>
        /\ \/ /\ Answer(e, c, resend(left))
              /\ pc' = [pc EXCEPT ![e] = "running"]
              /\ UNCHANGED <<closed, conn>>
           \/ Return(e)
    BY <1>1, <2>2 DEF HelloAccepted, InStream
  <2>3. m.sender_last_rx \in Nat
    BY <2>2, MessageFields
  <2>4. PICK r \in Seq(Message) : r = resend(left) /\ Kinds(r, {"Data"})
    <3>1. left \in Seq(Payload)
      BY <2>1, <2>3, UnackedAfterType
    <3>2. resend(left) \in Seq(Message) /\ Len(resend(left)) = Len(left)
      BY <3>1, ResendType
    <3>3. \A k \in 1 .. Len(left) : resend(left)[k].type = "Data"
      BY DEF resend, Data
    <3>4. Kinds(resend(left), {"Data"})
      BY <3>2, <3>3 DEF Kinds
    <3> QED
      BY <3>2, <3>4
  <2>5. Greeted(e, c, m)
    BY <2>1, <2>2 DEF Greeted, Using, Started
  <2>6. Binds(e, m) /\ Releases(e, m.sender_last_rx)
    BY <2>1, <2>2 DEF Binds, Releases
  <2> HIDE DEF left
  <2>7. CASE Return(e)
    <3>1. Leaves(e, {c})
      BY <2>1, <2>2, <2>7, LeavesStream
    <3> QED
      BY <2>2, <2>5, <2>6, <3>1 DEF Refusing
  <2>8. CASE /\ Answer(e, c, resend(left))
             /\ pc' = [pc EXCEPT ![e] = "running"]
             /\ UNCHANGED <<closed, conn>>
    <3>1. Reads(e, c, m, r)
      BY <2>1, <2>2, <2>4, <2>8, ReadsStream
    <3>2. Reads(e, c, m, resend(unacked_after(e, m.sender_last_rx)))
      BY <2>4, <3>1 DEF left
    <3> QED
      BY <2>2, <2>5, <2>6, <3>2 DEF Greeting
  <2> QED
    BY <2>1, <2>7, <2>8
<1>2. ASSUME ReceiveAck(e) PROVE Releasing \/ Idle
  <2>2. PICK c \in Conns, m \in Message :
           /\ conn[e] = c /\ Head(Incoming(e)) = m
           /\ pipe[Peer(e)][c] # <<>> /\ m = pipe[Peer(e)][c][1] /\ m.type = "Ack"
    BY <1>2, NextMessage DEF ReceiveAck, InStream
  <2>1. /\ InStream(e) /\ pc[e] = "running"
        /\ UNCHANGED <<srvVars, broken, nconns>>
        /\ UNCHANGED <<produced, app_queue, delivered, id, remote_id, received_seq>>
        /\ IF ack_accepted(e, m.seq)
             THEN ack(e, m.seq) /\ Answer(e, c, <<>>) /\ UNCHANGED <<pc, conn, closed>>
             ELSE Return(e) /\ UNCHANGED <<sent_unacked, base_offset>>
    BY <1>2, <2>2 DEF ReceiveAck, InStream
  <2>3. CASE ~ack_accepted(e, m.seq)
    <3>1. Leaves(e, {c})
      BY <2>1, <2>2, <2>3, LeavesStream
    <3>2. {c} \in SUBSET Conns
      BY <2>2
    <3> QED
      BY <2>1, <2>3, <3>1, <3>2 DEF Idle, SameStreams
  <2>4. CASE ack_accepted(e, m.seq)
    <3>1. <<>> \in Seq(Message)
      BY EmptySeq
    <3>2. pc' = [pc EXCEPT ![e] = "running"]
      BY <2>1, <2>4 DEF TypeOK
    <3>3. Reads(e, c, m, <<>>)
      BY <2>1, <2>2, <2>4, <3>1, <3>2, ReadsStream
    <3>4. Releases(e, m.seq) /\ UNCHANGED remote_id
      BY <2>1, <2>4 DEF Releases
    <3> QED
      BY <2>2, <3>3, <3>4 DEF Releasing
  <2> QED
    BY <2>3, <2>4
<1>3. ASSUME ReceiveData(e) PROVE Receiving \/ Idle
  <2>2. PICK c \in Conns, m \in Message :
           /\ conn[e] = c /\ Head(Incoming(e)) = m
           /\ pipe[Peer(e)][c] # <<>> /\ m = pipe[Peer(e)][c][1] /\ m.type = "Data"
    BY <1>3, NextMessage DEF ReceiveData, InStream
  <2>1. /\ InStream(e) /\ pc[e] = "running"
        /\ UNCHANGED <<srvVars, broken, nconns>>
        /\ UNCHANGED <<produced, app_queue, id, remote_id, sent_unacked, base_offset>>
        /\ IF rx_open[e]
             THEN /\ delivered' = [delivered EXCEPT ![id[e]] = Append(@, m.data)]
                  /\ received_seq' = [received_seq EXCEPT ![e] = @ + 1]
                  /\ Answer(e, c, <<Ack(received_seq[e] + 1)>>)
                  /\ UNCHANGED <<pc, conn, closed>>
             ELSE BreakLoop(e) /\ UNCHANGED <<delivered, received_seq>>
    BY <1>3, <2>2 DEF ReceiveData, InStream
  <2>3. CASE ~rx_open[e]
    <3>1. Leaves(e, {c})
      BY <2>1, <2>2, <2>3, LeavesStream
    <3>2. {c} \in SUBSET Conns
      BY <2>2
    <3> QED
      BY <2>1, <2>3, <3>1, <3>2 DEF Idle, SameStreams
  <2>4. CASE rx_open[e]
    <3>0. received_seq[e] \in Nat
      BY DEF TypeOK
    <3>1. received_seq[e] + 1 \in Nat
      BY <3>0
    <3>2. Ack(received_seq[e] + 1) \in Message /\ Ack(received_seq[e] + 1).type = "Ack"
      BY <3>1, MessageConstructors DEF Ack
    <3>3. <<Ack(received_seq[e] + 1)>> \in Seq(Message) /\ Kinds(<<Ack(received_seq[e] + 1)>>, {"Ack"})
      BY <3>2, OneMessage DEF Kinds
    <3>4. pc' = [pc EXCEPT ![e] = "running"]
      BY <2>1, <2>4 DEF TypeOK
    <3>5. Reads(e, c, m, <<Ack(received_seq[e] + 1)>>)
      BY <2>1, <2>2, <2>4, <3>3, <3>4, ReadsStream
    <3>6. Delivers(e, m.data)
      BY <2>1, <2>4 DEF Delivers
    <3> QED
      BY <2>2, <3>5, <3>6 DEF Receiving
  <2> QED
    BY <2>3, <2>4
<1> QED
  BY <1>1, <1>2, <1>3

\* The step that sends a message of the application.
LEMMA WritingStep ==
    ASSUME TypeOK, EndsInv, NEW e \in Endpoints, AppMessage(e)
    PROVE  Writing \/ Keeping
<1> DEFINE p == Head(app_queue[e])
<1> USE DEF srvVars
<1>1. /\ InStream(e) /\ pc[e] = "running" /\ TakeFromApp(e)
      /\ UNCHANGED <<srvVars, broken, nconns>>
      /\ \/ Send(e, conn[e], <<Data(p)>>) /\ UNCHANGED <<pc, conn, closed>>
         \/ BreakLoop(e)
  BY DEF AppMessage, InStream
<1>2. conn[e] \in Conns /\ Started(e, conn[e])
  BY <1>1 DEF TypeOK, Started
<1>3. Enqueues(e)
  BY <1>1 DEF TakeFromApp, Enqueues
<1>4. p \in Payload
  <2>1. app_queue[e] \in Seq(Payload) /\ app_queue[e] # <<>>
    BY <1>3 DEF TypeOK, Enqueues
  <2> QED
    BY <2>1, TailAt
<1> HIDE DEF p
<1>5. CASE BreakLoop(e)
  <2>1. Leaves(e, {conn[e]}) /\ \A c \in Conns : ~Started(e, c)'
    BY <1>1, <1>5, LeavesStream
  <2> QED
    BY <1>2, <1>3, <2>1 DEF Keeping
<1>6. CASE Send(e, conn[e], <<Data(p)>>) /\ UNCHANGED <<pc, conn, closed>>
  <2>1. \A d \in Endpoints, b \in Conns : Pending(d, b)' <=> Pending(d, b)
    BY <1>1 DEF Pending
  <2>2. \A d \in Endpoints, b \in Conns : SameEnd(d, b)
    BY <1>6, <2>1, SameEndByState DEF InStream
  <2>3. Writes(e, conn[e], p)
    BY <1>1, <1>2, <1>4, <1>6, <2>2 DEF Writes
  <2> QED
    BY <1>2, <1>3, <2>3 DEF Writing, p
<1> QED
  BY <1>1, <1>5, <1>6

\* The client connects: the connection waits at the server from then on.
LEMMA ConnectStep ==
    ASSUME TypeOK, EndsInv, Connect PROVE Opening
<1>d. PICK c \in Conns : c = nconns + 1
  BY DEF Connect
<1> USE DEF appVars, streamVars, ctlVars, srvVars, netVars
<1>0. "client" \in Endpoints /\ "server" \in Endpoints /\ "client" # "server"
      /\ \A d \in Endpoints : d = "client" \/ d = "server"
  BY DEF Endpoints
<1>1. /\ pc["client"] = "connecting" /\ nconns' = c /\ backlog' = Append(backlog, c)
      /\ conn'["client"] = c /\ pc'["client"] = "hello"
      /\ conn'["server"] = conn["server"] /\ pc'["server"] = pc["server"]
      /\ Send("client", c, <<make_hello("client")>>)
      /\ UNCHANGED <<socket_queue, broken, closed>> /\ SameStreams
  BY <1>0, <1>d DEF Connect, TypeOK, SameStreams
<1>2. backlog \in Seq(Conns) /\ Range(backlog') = Range(backlog) \cup {c}
  BY <1>1, RangeParts DEF TypeOK
<1>3. EndInv("server", c)
  BY <1>0, <1>1, EndsInvByEnd
<1>4. ~(c <= nconns)
  <2>1. nconns \in Nat
    BY DEF TypeOK
  <2> QED
    BY <1>d, <2>1
<1>5. ~Using("server", c)
  BY <1>3, <1>4 DEF EndInv
<1>a. Using("client", c)' /\ ~Started("client", c)' /\ ~Pending("client", c)'
  BY <1>0, <1>1 DEF Using, Started, InStream, Pending
<1>b. ~Using("server", c)' /\ ~Started("server", c)'
  BY <1>1, <1>5 DEF Using, Started, InStream
<1>c. Pending("server", c)'
  BY <1>2 DEF Pending
<1>6. /\ Using("client", c)' /\ ~Started("client", c)' /\ ~Pending("client", c)'
      /\ ~Using("server", c)' /\ ~Started("server", c)' /\ Pending("server", c)'
  BY <1>a, <1>b, <1>c
<1>7. ASSUME NEW b \in Conns, b # c PROVE SameEnd("client", b) /\ SameEnd("server", b)
  <2>1. SameEnd("client", b)
    BY <1>1, <1>7 DEF SameEnd, Using, Started, InStream, Pending
  <2>2. Pending("server", b)' <=> Pending("server", b)
    BY <1>1, <1>2, <1>7 DEF Pending
  <2>3. SameEnd("server", b)
    BY <1>1, <2>2 DEF SameEnd, Using, Started, InStream
  <2> QED
    BY <2>1, <2>3
<1>8. Makes(c)
  BY <1>0, <1>d, <1>1, <1>6, <1>7 DEF Makes
<1> QED
  BY <1>1, <1>8 DEF Opening

\* The server's queues lose connections that it drops.
LEMMA LeavesQueue ==
    ASSUME TypeOK, EndsInv, NEW cs \in SUBSET Conns,
           \A c \in cs : Pending("server", c),
           \A c \in Conns : Pending("server", c)' <=> Pending("server", c) /\ c \notin cs,
           Close("server", cs), UNCHANGED <<conn, broken, nconns>>,
           \A d \in Endpoints : (InStream(d)' <=> InStream(d))
                                /\ (pc'[d] = "running" <=> pc[d] = "running")
    PROVE  Leaves("server", cs)
<1>0. "server" \in Endpoints
  BY DEF Endpoints
<1>1. ASSUME NEW c \in cs
      PROVE c \in 1 .. nconns /\ ~Using("server", c)' /\ ~Started("server", c)' /\ ~Pending("server", c)'
  <2>1. EndInv("server", c) /\ c \in Conns /\ Pending("server", c)
    BY <1>0, <1>1, EndsInvByEnd
  <2>2. c <= nconns /\ ~Using("server", c)
    BY <2>1 DEF EndInv
  <2>3. c \in 1 .. nconns
    <3>1. nconns \in Nat /\ c \in Nat \ {0}
      BY <2>1 DEF TypeOK, Conns
    <3> QED
      BY <2>2, <3>1
  <2>4. ~Using("server", c)' /\ ~Started("server", c)'
    BY <1>0, <2>2 DEF Using, Started, InStream
  <2> QED
    BY <1>1, <2>1, <2>3, <2>4
<1>2. ASSUME NEW d \in Endpoints, NEW b \in Conns, ~(d = "server" /\ b \in cs) PROVE SameEnd(d, b)
  <2>1. Pending(d, b)' <=> Pending(d, b)
    BY <1>2 DEF Pending
  <2> QED
    BY <2>1, SameEndByState
<1> QED
  BY <1>1, <1>2 DEF Leaves

\* The steps of the listener, and the end of the runner.
LEMMA ListenerSteps ==
    ASSUME TypeOK, EndsInv, ConnsInOrder
    PROVE  ListenerAccepts \/ ListenerEnds \/ RunnerEnds => Idle
<1> USE DEF appVars, streamVars, ctlVars, srvVars, netVars
<1>0. "server" \in Endpoints /\ backlog \in Seq(Conns) /\ socket_queue \in Seq(Conns)
      /\ \A c \in Range(socket_queue), d \in Range(backlog) : c < d
  BY DEF Endpoints, TypeOK, ConnsInOrder
<1>1. Range(<<>>) = {} /\ Range(backlog) \subseteq Conns /\ Range(socket_queue) \subseteq Conns
  BY <1>0, RangeParts
<1>a. \A c \in Conns : ~(c \in Range(backlog) /\ c \in Range(socket_queue))
  <2> SUFFICES ASSUME NEW c \in Conns, c \in Range(backlog), c \in Range(socket_queue) PROVE FALSE
    OBVIOUS
  <2>1. c < c /\ c \in Nat
    BY <1>0 DEF Conns
  <2> QED
    BY <2>1
<1>2. ASSUME ListenerAccepts PROVE Idle
  <2> DEFINE c == Head(backlog)
  <2>0. backlog # <<>> /\ backlog' = Tail(backlog)
    BY <1>2 DEF ListenerAccepts
  <2>1. c \in Conns /\ Range(backlog) = Range(Tail(backlog)) \cup {c}
    BY <1>0, <2>0, RangeParts, TailAt
  <2>2. c \notin Range(Tail(backlog))
    <3>1. Sorted(backlog)
      BY DEF ConnsInOrder
    <3>2. /\ Tail(backlog) \in Seq(Conns) /\ Len(backlog) \in Nat \ {0} /\ c = backlog[1]
          /\ Len(Tail(backlog)) = Len(backlog) - 1
          /\ \A k \in 1 .. Len(backlog) - 1 : Tail(backlog)[k] = backlog[k + 1]
      BY <1>0, <2>0, TailAt
    <3>3. Range(Tail(backlog)) = {Tail(backlog)[k] : k \in 1 .. Len(Tail(backlog))}
      BY <3>2, RangeParts
    <3>4. ASSUME NEW k \in 1 .. Len(Tail(backlog)) PROVE Tail(backlog)[k] # c
      <4>1. 1 \in 1 .. Len(backlog) /\ k + 1 \in 1 .. Len(backlog) /\ 1 < k + 1
            /\ Tail(backlog)[k] = backlog[k + 1]
        BY <3>2
      <4>2. backlog[1] < backlog[k + 1] /\ backlog[1] \in Nat
        BY <2>1, <3>1, <3>2, <4>1 DEF Sorted, Conns
      <4> QED
        BY <3>2, <4>1, <4>2
    <3> QED
      BY <3>3, <3>4
  <2>3. SameStreams /\ UNCHANGED <<conn, pc, broken, nconns>>
    BY <1>2 DEF ListenerAccepts, SameStreams
  <2> HIDE DEF c
  <2>4. CASE pc["server"] = "stopped"
    <3>1. Close("server", {c}) /\ socket_queue' = socket_queue
      BY <1>2, <2>4 DEF ListenerAccepts, c
    <3>2. Pending("server", c)
      BY <2>1 DEF Pending
    <3>3. \A b \in Conns : Pending("server", b)' <=> Pending("server", b) /\ b \notin {c}
      BY <1>a, <2>0, <2>1, <2>2, <3>1 DEF Pending
    <3>4. {c} \in SUBSET Conns
      BY <2>1
    <3>5. Leaves("server", {c})
      BY <2>3, <3>1, <3>2, <3>3, <3>4, LeavesQueue DEF InStream
    <3> QED
      BY <1>0, <2>3, <3>4, <3>5 DEF Idle
  <2>5. CASE pc["server"] # "stopped"
    <3>1. socket_queue' = Append(socket_queue, c) /\ UNCHANGED <<pipe, closed>>
      BY <1>2, <2>5 DEF ListenerAccepts, c
    <3>2. Range(socket_queue') = Range(socket_queue) \cup {c}
      BY <1>0, <2>1, <3>1, RangeParts
    <3>3. \A d \in Endpoints, b \in Conns : Pending(d, b)' <=> Pending(d, b)
      BY <2>0, <2>1, <3>2 DEF Pending
    <3>4. \A d \in Endpoints, b \in Conns : SameEnd(d, b)
      BY <2>3, <3>3, SameEndByState DEF InStream
    <3>5. Quiet
      BY <2>3, <3>1, <3>4 DEF Quiet
    <3> QED
      BY <2>3, <3>5 DEF Idle
  <2> QED
    BY <2>4, <2>5
<1>3. ASSUME ListenerEnds PROVE Idle
  <2>1. backlog' = <<>> /\ socket_queue' = socket_queue /\ Close("server", Range(backlog))
        /\ SameStreams /\ UNCHANGED <<conn, pc, broken, nconns>>
    BY <1>3 DEF ListenerEnds, SameStreams
  <2>2. Range(backlog') = {}
    BY <1>1, <2>1
  <2>3. \A b \in Conns : Pending("server", b)' <=> Pending("server", b) /\ b \notin Range(backlog)
    BY <1>a, <2>1, <2>2 DEF Pending
  <2>a. Range(backlog) \in SUBSET Conns /\ \A b \in Range(backlog) : Pending("server", b)
    BY <1>1 DEF Pending
  <2>b. \A d \in Endpoints : /\ InStream(d)' <=> InStream(d)
                             /\ pc'[d] = "running" <=> pc[d] = "running"
    BY <2>1 DEF InStream
  <2>4. Leaves("server", Range(backlog))
    BY <2>1, <2>3, <2>a, <2>b, LeavesQueue
  <2> QED
    BY <1>0, <1>1, <2>1, <2>4 DEF Idle
<1>4. ASSUME RunnerEnds PROVE Idle
  <2>1. /\ socket_queue' = <<>> /\ backlog' = backlog /\ Close("server", Range(socket_queue))
        /\ pc["server"] = "accept" /\ pc' = [pc EXCEPT !["server"] = "stopped"]
        /\ SameStreams /\ UNCHANGED <<conn, broken, nconns>>
    BY <1>4 DEF RunnerEnds, SameStreams
  <2>2. Range(socket_queue') = {}
    BY <1>1, <2>1
  <2>3. \A b \in Conns : Pending("server", b)' <=> Pending("server", b) /\ b \notin Range(socket_queue)
    BY <1>a, <2>1, <2>2 DEF Pending
  <2>4. \A d \in Endpoints : /\ InStream(d)' <=> InStream(d)
                             /\ pc'[d] = "running" <=> pc[d] = "running"
    BY <2>1 DEF InStream, TypeOK
  <2>a. Range(socket_queue) \in SUBSET Conns /\ \A b \in Range(socket_queue) : Pending("server", b)
    BY <1>1 DEF Pending
  <2>5. Leaves("server", Range(socket_queue))
    BY <2>1, <2>3, <2>4, <2>a, LeavesQueue
  <2> QED
    BY <1>0, <1>1, <2>1, <2>5 DEF Idle
<1> QED
  BY <1>2, <1>3, <1>4

\* The runner takes the newest connection of the channel, and drops those before.
LEMMA RunnerStep ==
    ASSUME TypeOK, EndsInv, ConnsInOrder, RunnerTakesSocket PROVE Opening \/ Idle
<1> USE DEF appVars, streamVars, ctlVars, srvVars, netVars
<1>0. "server" \in Endpoints /\ backlog \in Seq(Conns) /\ socket_queue \in Seq(Conns)
      /\ Sorted(socket_queue) /\ \A x \in Range(socket_queue), y \in Range(backlog) : x < y
  BY DEF Endpoints, TypeOK, ConnsInOrder
<1>1. PICK k \in 1 .. Len(socket_queue) :
         LET c == socket_queue[k]
             unused == Range(SubSeq(socket_queue, 1, k - 1))
         IN /\ socket_queue' = SubSeq(socket_queue, k + 1, Len(socket_queue))
            /\ \/ /\ closed' = [d \in Conns |->
                        IF d \in unused THEN closed[d] \cup {"server"} ELSE closed[d]]
                  /\ pipe' = [e \in Endpoints |-> [d \in Conns |->
                        CASE e = "client" /\ d \in unused -> <<>>
                          [] e = "server" /\ d = c -> Sent(e, c, <<make_hello(e)>>)
                          [] OTHER -> pipe[e][d]]]
                  /\ pc' = [pc EXCEPT !["server"] = "hello"]
                  /\ conn' = [conn EXCEPT !["server"] = c]
               \/ /\ Close("server", unused \cup {c})
                  /\ UNCHANGED <<pc, conn>>
  BY DEF RunnerTakesSocket
<1> DEFINE before == SubSeq(socket_queue, 1, k - 1)
           after == SubSeq(socket_queue, k + 1, Len(socket_queue))
<1>a. PICK c \in Conns, cs \in SUBSET Conns : c = socket_queue[k] /\ cs = Range(before)
  BY <1>0, CutSorted, RangeParts
<1>2. /\ before \in Seq(Conns) /\ after \in Seq(Conns)
      /\ Range(socket_queue) = Range(before) \cup {c} \cup Range(after)
      /\ \A x \in Range(before) : x < c
      /\ \A x \in Range(after) : c < x
      /\ \A x \in Range(before), y \in Range(after) : x < y
  BY <1>0, <1>a, CutSorted
<1>3. /\ socket_queue' = after
      /\ \/ /\ closed' = [d \in Conns |-> IF d \in cs THEN closed[d] \cup {"server"} ELSE closed[d]]
            /\ pipe' = [e \in Endpoints |-> [d \in Conns |->
                          CASE e = "client" /\ d \in cs -> <<>>
                            [] e = "server" /\ d = c -> Sent(e, c, <<make_hello(e)>>)
                            [] OTHER -> pipe[e][d]]]
            /\ pc' = [pc EXCEPT !["server"] = "hello"]
            /\ conn' = [conn EXCEPT !["server"] = c]
         \/ /\ Close("server", cs \cup {c})
            /\ UNCHANGED <<pc, conn>>
  BY <1>1, <1>a
<1>4. SameStreams /\ pc["server"] = "accept" /\ UNCHANGED <<backlog, broken, nconns>>
  BY DEF RunnerTakesSocket, SameStreams
<1>5. Range(after) \subseteq Conns /\ Range(backlog) \subseteq Conns
  BY <1>0, <1>2, RangeParts
<1> HIDE DEF before, after
<1>6. /\ \A x \in cs : x < c /\ x \in Nat /\ \A y \in Range(after) : x < y
      /\ \A y \in Range(after) : c < y /\ y \in Nat
      /\ c \in Nat /\ c \in Range(socket_queue) /\ cs \subseteq Range(socket_queue)
      /\ Range(after) \subseteq Range(socket_queue)
      /\ \A x \in Range(socket_queue) : x \in Nat
  BY <1>2, <1>5, <1>a DEF Conns
<1>7. c \notin cs
  BY <1>6
<1>8. \A b \in cs \cup {c} : b \notin Range(after)
  BY <1>6
<1>9. \A b \in cs \cup {c} : b \notin Range(backlog)
  BY <1>0, <1>6
<1>10. \A b \in Conns : Pending("server", b)' <=> Pending("server", b) /\ b \notin cs \cup {c}
  <2>1. Range(socket_queue') = Range(after) /\ Range(backlog') = Range(backlog)
    BY <1>3, <1>4
  <2>2. Range(socket_queue) = cs \cup {c} \cup Range(after)
    BY <1>2, <1>a
  <2> QED
    BY <1>8, <1>9, <2>1, <2>2 DEF Pending
<1>11. \A b \in cs \cup {c} : Pending("server", b)
  BY <1>6 DEF Pending
<1>12. CASE Close("server", cs \cup {c}) /\ UNCHANGED <<pc, conn>>
  <2>1. \A d \in Endpoints : /\ InStream(d)' <=> InStream(d)
                             /\ pc'[d] = "running" <=> pc[d] = "running"
    BY <1>12 DEF InStream
  <2>2. cs \cup {c} \in SUBSET Conns
    BY <1>2, <1>5
  <2>3. Leaves("server", cs \cup {c})
    BY <1>4, <1>10, <1>11, <1>12, <2>1, <2>2, LeavesQueue
  <2> QED
    BY <1>0, <1>4, <2>2, <2>3 DEF Idle
<1>13. CASE /\ closed' = [d \in Conns |-> IF d \in cs THEN closed[d] \cup {"server"} ELSE closed[d]]
            /\ pipe' = [e \in Endpoints |-> [d \in Conns |->
                          CASE e = "client" /\ d \in cs -> <<>>
                            [] e = "server" /\ d = c -> Sent(e, c, <<make_hello(e)>>)
                            [] OTHER -> pipe[e][d]]]
            /\ pc' = [pc EXCEPT !["server"] = "hello"]
            /\ conn' = [conn EXCEPT !["server"] = c]
  <2>1. /\ pc'["server"] = "hello" /\ conn'["server"] = c
        /\ pc'["client"] = pc["client"] /\ conn'["client"] = conn["client"]
    BY <1>0, <1>13 DEF TypeOK, Endpoints
  <2>2. Using("server", c)' /\ ~Started("server", c)' /\ ~Pending("server", c)'
    BY <1>2, <1>10, <2>1 DEF Using, Started, InStream
  <2>3. ASSUME NEW b \in cs PROVE ~Using("server", b)' /\ ~Started("server", b)' /\ ~Pending("server", b)'
    BY <1>5, <1>7, <1>10, <2>1, <2>3 DEF Using, Started, InStream
  <2>4. ASSUME NEW b \in Conns PROVE SameEnd("client", b)
    BY <2>1 DEF SameEnd, Using, Started, InStream, Pending
  <2>5. ASSUME NEW b \in Conns, b \notin cs \cup {c} PROVE SameEnd("server", b)
    BY <1>4, <1>10, <2>1, <2>5 DEF SameEnd, Using, Started, InStream
  <2>6. \A d \in Endpoints, b \in Conns : ~(d = "server" /\ b \in cs \cup {c}) => SameEnd(d, b)
    BY <2>4, <2>5 DEF Endpoints
  <2>7. Takes(c, cs)
    BY <1>4, <1>7, <1>11, <1>13, <2>2, <2>3, <2>6 DEF Takes
  <2> QED
    BY <1>2, <1>4, <1>5, <2>7 DEF Opening
<1> QED
  BY <1>3, <1>12, <1>13

\* A new process: its predecessor's connections are closed.
LEMMA RestartStep ==
    ASSUME TypeOK, EndsInv, NEW e \in Endpoints, Restart(e) PROVE Renewing
<1>1. Renews(e) /\ Close(e, 1 .. nconns) /\ UNCHANGED <<broken, nconns>>
  BY DEF Restart, Renews
<1>2. /\ ~InStream(e)' /\ pc'[e] # "running"
      /\ \A d \in Endpoints : d # e => pc'[d] = pc[d] /\ conn'[d] = conn[d]
  BY DEF Restart, TypeOK, InStream, StartPC
<1>3. \A b \in Conns : ~Pending(e, b)'
  BY RangeParts, EmptySeq DEF Restart, Pending
<1>4. \A b \in Conns : ~Using(e, b)' /\ ~Started(e, b)'
  BY <1>2 DEF Using, Started
<1>5. ASSUME NEW b \in Conns, b \notin 1 .. nconns PROVE SameEnd(e, b)
  <2>1. EndInv(e, b) /\ ~(b <= nconns)
    <3>1. b \in Nat \ {0} /\ nconns \in Nat
      BY DEF TypeOK, Conns
    <3> QED
      BY <1>5, <3>1, EndsInvByEnd
  <2>2. ~Using(e, b) /\ ~Pending(e, b) /\ ~Started(e, b)
    BY <2>1 DEF EndInv, Using, Started, InStream
  <2> QED
    BY <1>3, <1>4, <2>2 DEF SameEnd
<1>6. ASSUME NEW d \in Endpoints, NEW b \in Conns, d # e PROVE SameEnd(d, b)
  <2>1. Pending(d, b)' <=> Pending(d, b)
    BY <1>6 DEF Restart, srvVars, Pending, Endpoints
  <2>2. InStream(d)' <=> InStream(d)
    BY <1>2, <1>6 DEF InStream
  <2> QED
    BY <1>2, <1>6, <2>1, <2>2, SameEndByState
<1>8. Leaves(e, 1 .. nconns)
  <2>1. \A b \in 1 .. nconns : b \in Conns
    <3>1. nconns \in 0 .. MaxConns /\ MaxConns \in Nat
      BY BoundAssumption DEF TypeOK
    <3> QED
      BY <3>1 DEF Conns
  <2> QED
    BY <1>1, <1>3, <1>4, <1>5, <1>6, <2>1 DEF Leaves
<1> QED
  BY <1>1, <1>8 DEF Renewing

\* The network loses a connection.
LEMMA BreakStep ==
    ASSUME TypeOK, NEW c \in Conns, Break(c) PROVE Breaking
<1>1. PICK s \in Prefixes(pipe["server"][c]), t \in Prefixes(pipe["client"][c]) :
         pipe' = [pipe EXCEPT !["server"][c] = s, !["client"][c] = t]
  BY DEF Break
<1>2. broken' = broken \cup {c} /\ UNCHANGED <<pc, conn, socket_queue, backlog, closed, nconns>>
      /\ SameStreams
  BY DEF Break, appVars, streamVars, ctlVars, srvVars, SameStreams
<1>3. \A d \in Endpoints, b \in Conns :
         IF b = c THEN pipe'[d][b] \in Prefixes(pipe[d][b]) ELSE pipe'[d][b] = pipe[d][b]
  BY <1>1 DEF TypeOK, Endpoints
<1>4. \A d \in Endpoints, b \in Conns : SameEnd(d, b)
  BY <1>2 DEF SameEnd, Using, Started, InStream, Pending
<1>5. Loses(c)
  BY <1>2, <1>3, <1>4 DEF Loses
<1> QED
  BY <1>2, <1>5 DEF Breaking

\* Every step is one of the events.
LEMMA StepIsEvent == TypeOK /\ EndsInv /\ ConnsInOrder /\ [Next]_vars => Event
<1> SUFFICES ASSUME TypeOK, EndsInv, ConnsInOrder, [Next]_vars PROVE Event
  OBVIOUS
<1>0. "client" \in Endpoints
  BY DEF Endpoints
<1> USE DEF appVars, streamVars, ctlVars, srvVars, netVars
<1>1. ASSUME NEW e \in Endpoints, AppStep(e) PROVE Event
  <2>1. CASE AppSend(e)
    BY <2>1, QuietSteps DEF Event, Producing, AppSend
  <2>2. CASE AppDropsSender(e) \/ AppDropsReceiver(e) \/ Cancel(e)
    BY <2>2, QuietSteps DEF Event, Idle, AppDropsSender, AppDropsReceiver, Cancel
  <2> QED
    BY <1>1, <2>1, <2>2 DEF AppStep
<1>2. ASSUME NEW e \in Endpoints, StreamStep(e) PROVE Event
  <2>0. nids' = nids
    BY <1>2 DEF StreamStep, Killed, HelloAccepted, HelloBadSender, HelloBadLastRx, HelloMissing,
                AppMessage, AppChannelClosed, ReceiveAck, ReceiveData, StreamEnds, JoinDone
  <2>1. CASE Killed(e) \/ HelloBadSender(e) \/ HelloMissing(e) \/ AppChannelClosed(e)
                \/ StreamEnds(e) \/ HelloBadLastRx(e)
    BY <2>0, <2>1, LeavingSteps DEF Event
  <2>2. CASE HelloAccepted(e) \/ ReceiveAck(e) \/ ReceiveData(e)
    BY <2>0, <2>2, ReadingSteps DEF Event
  <2>3. CASE AppMessage(e)
    BY <2>0, <2>3, WritingStep DEF Event
  <2>4. CASE JoinDone(e)
    BY <2>0, <2>4, QuietSteps DEF Event, Idle
  <2> QED
    BY <1>2, <2>1, <2>2, <2>3, <2>4 DEF StreamStep
<1>3. ASSUME NEW e \in Endpoints, Restart(e) PROVE Event
  BY <1>3, RestartStep DEF Event
<1>4. CASE ClientStep
  <2>1. CASE ClientTop \/ ConnectFails \/ UnconnectedEnds
    BY <2>1, QuietSteps DEF Event, Idle, ClientTop, ConnectFails, UnconnectedEnds
  <2>2. CASE UnconnectedTakesFromApp
    BY <1>0, <2>2, QuietSteps DEF Event, Keeping, UnconnectedTakesFromApp
  <2>3. CASE Connect
    BY <2>3, ConnectStep DEF Event, Connect
  <2> QED
    BY <1>4, <2>1, <2>2, <2>3 DEF ClientStep
<1>5. CASE ServerStep
  <2>0. nids' = nids
    BY <1>5 DEF ServerStep, ListenerAccepts, ListenerEnds, RunnerTakesSocket, RunnerEnds
  <2>1. CASE RunnerTakesSocket
    BY <2>0, <2>1, RunnerStep DEF Event
  <2>2. CASE ListenerAccepts \/ ListenerEnds \/ RunnerEnds
    BY <2>0, <2>2, ListenerSteps DEF Event
  <2> QED
    BY <1>5, <2>1, <2>2 DEF ServerStep
<1>6. ASSUME NEW c \in Conns, Break(c) PROVE Event
  BY <1>6, BreakStep DEF Event, Break
<1>7. CASE UNCHANGED vars
  BY <1>7, QuietSteps DEF Event, Idle, vars
<1> QED
  BY <1>1, <1>2, <1>3, <1>4, <1>5, <1>6, <1>7 DEF Next

-----------------------------------------------------------------------------
(* ConnInv is an invariant.                                                *)

\* A queue stays sorted when its first element leaves, or a larger one enters.
LEMMA SortedParts ==
    ASSUME NEW s \in Seq(Conns), Sorted(s)
    PROVE  /\ s # <<>> => Sorted(Tail(s)) /\ \A x \in Range(Tail(s)) : Head(s) < x
           /\ \A c \in Conns : (\A x \in Range(s) : x < c) => Sorted(Append(s, c))
           /\ Sorted(<<>>)
<1>1. Len(s) \in Nat /\ \A i, j \in 1 .. Len(s) : i < j => s[i] < s[j]
  BY LenProperties DEF Sorted
<1>2. ASSUME s # <<>> PROVE Sorted(Tail(s)) /\ \A x \in Range(Tail(s)) : Head(s) < x
  <2>1. /\ Tail(s) \in Seq(Conns) /\ Len(s) \in Nat \ {0} /\ Head(s) = s[1]
        /\ Len(Tail(s)) = Len(s) - 1
        /\ \A k \in 1 .. Len(s) - 1 : Tail(s)[k] = s[k + 1]
    BY <1>2, TailAt
  <2>2. ASSUME NEW i \in 1 .. Len(Tail(s)), NEW j \in 1 .. Len(Tail(s)), i < j
        PROVE  Tail(s)[i] < Tail(s)[j]
    <3>1. i + 1 \in 1 .. Len(s) /\ j + 1 \in 1 .. Len(s) /\ i + 1 < j + 1
      BY <2>1, <2>2
    <3>2. s[i + 1] < s[j + 1]
      BY <1>1, <3>1
    <3> QED
      BY <2>1, <3>2
  <2>3. ASSUME NEW k \in 1 .. Len(Tail(s)) PROVE Head(s) < Tail(s)[k]
    <3>1. 1 \in 1 .. Len(s) /\ k + 1 \in 1 .. Len(s) /\ 1 < k + 1
      BY <2>1
    <3>2. s[1] < s[k + 1]
      BY <1>1, <3>1
    <3> QED
      BY <2>1, <3>2
  <2>4. Range(Tail(s)) = {Tail(s)[k] : k \in 1 .. Len(Tail(s))}
    BY <2>1, RangeParts
  <2> QED
    BY <2>2, <2>3, <2>4 DEF Sorted
<1>3. ASSUME NEW c \in Conns, \A x \in Range(s) : x < c PROVE Sorted(Append(s, c))
  <2>1. /\ Len(Append(s, c)) = Len(s) + 1 /\ Append(s, c)[Len(s) + 1] = c
        /\ \A k \in 1 .. Len(s) : Append(s, c)[k] = s[k]
    BY AppendProperties
  <2>2. \A k \in 1 .. Len(s) : s[k] < c
    BY <1>3, RangeParts
  <2> SUFFICES ASSUME NEW i \in 1 .. Len(s) + 1, NEW j \in 1 .. Len(s) + 1, i < j
               PROVE  Append(s, c)[i] < Append(s, c)[j]
    BY <2>1 DEF Sorted
  <2>3. i \in 1 .. Len(s)
    BY <1>1
  <2>4. CASE j \in 1 .. Len(s)
    BY <1>1, <2>1, <2>3, <2>4
  <2>5. CASE j = Len(s) + 1
    BY <2>1, <2>2, <2>3, <2>5
  <2> QED
    BY <1>1, <2>4, <2>5
<1>4. Sorted(<<>>)
  <2>1. Len(<<>>) = 0
    BY EmptySeq
  <2> QED
    BY <2>1 DEF Sorted
<1> QED
  BY <1>2, <1>3, <1>4

\* What waits at the server was made by the client.
LEMMA QueuesMade ==
    ASSUME TypeOK, EndsInv
    PROVE  /\ Range(socket_queue) \cup Range(backlog) \subseteq Conns
           /\ \A c \in Range(socket_queue) \cup Range(backlog) :
                 c \in Nat \ {0} /\ c <= nconns /\ c < nconns + 1
           /\ nconns \in Nat /\ \A d \in Endpoints : conn[d] \in Nat
<1>1. Range(socket_queue) \subseteq Conns /\ Range(backlog) \subseteq Conns
  BY RangeParts DEF TypeOK
<1>2. nconns \in Nat /\ (\A d \in Endpoints : conn[d] \in Nat) /\ Conns \subseteq Nat \ {0}
  <2>1. Conns \subseteq Nat \ {0} /\ NoConn \in Nat
    BY DEF Conns, NoConn
  <2>2. nconns \in Nat
    BY DEF TypeOK
  <2>3. \A d \in Endpoints : conn[d] \in Conns \cup {NoConn}
    BY DEF TypeOK
  <2> QED
    BY <2>1, <2>2, <2>3
<1>3. ASSUME NEW c \in Range(socket_queue) \cup Range(backlog) PROVE c <= nconns
  <2>1. EndInv("server", c) /\ Pending("server", c)
    BY <1>1, EndsInvByEnd DEF Pending, Endpoints
  <2> QED
    BY <2>1 DEF EndInv
<1>4. \A c \in Nat : c <= nconns => c < nconns + 1
  BY <1>2
<1> QED
  BY <1>1, <1>2, <1>3, <1>4

\* Connections enter the queues in the order in which they are made.
LEMMA OrderStep ==
    ASSUME TypeOK, EndsInv, ConnsInOrder, [Next]_vars PROVE ConnsInOrder'
<1> USE DEF appVars, streamVars, ctlVars, srvVars, netVars
<1>0. "client" \in Endpoints /\ "server" \in Endpoints
  BY DEF Endpoints
<1>1. /\ Sorted(socket_queue) /\ Sorted(backlog)
      /\ \A c \in Range(socket_queue), d \in Range(backlog) : c < d
      /\ \A c \in Range(socket_queue) \cup Range(backlog) : conn["server"] < c
      /\ conn["client"] \in {NoConn, nconns} /\ conn["server"] <= nconns
      /\ socket_queue \in Seq(Conns) /\ backlog \in Seq(Conns)
  BY DEF ConnsInOrder, TypeOK
<1>2. /\ Range(socket_queue) \cup Range(backlog) \subseteq Conns
      /\ \A c \in Range(socket_queue) \cup Range(backlog) :
            c \in Nat \ {0} /\ c <= nconns /\ c < nconns + 1
      /\ nconns \in Nat /\ \A d \in Endpoints : conn[d] \in Nat
  BY QueuesMade
<1>3. Range(<<>>) = {} /\ Sorted(<<>>)
  BY RangeParts, SortedParts, <1>1
\* The queues stay, and a task may leave its connection.
<1>4. ASSUME UNCHANGED <<socket_queue, backlog, nconns>>, NEW e \in Endpoints,
             conn' = conn \/ conn' = [conn EXCEPT ![e] = NoConn]
      PROVE  ConnsInOrder'
  <2>1. /\ conn'["client"] \in {NoConn, conn["client"]}
        /\ conn'["server"] \in {NoConn, conn["server"]}
    BY <1>0, <1>4 DEF TypeOK
  <2>2. \A c \in Range(socket_queue) \cup Range(backlog) : conn'["server"] < c
    BY <1>1, <1>2, <2>1 DEF NoConn
  <2>3. conn'["client"] \in {NoConn, nconns} /\ conn'["server"] <= nconns
    BY <1>1, <1>2, <2>1 DEF NoConn
  <2> QED
    BY <1>1, <1>4, <2>2, <2>3 DEF ConnsInOrder
<1>5. ASSUME Connect PROVE ConnsInOrder'
  <2>1. PICK c \in Conns : c = nconns + 1
    BY <1>5 DEF Connect
  <2>2. /\ backlog' = Append(backlog, c) /\ socket_queue' = socket_queue /\ nconns' = c
        /\ conn'["client"] = c /\ conn'["server"] = conn["server"]
    BY <1>0, <1>5, <2>1 DEF Connect, TypeOK
  <2>3. Range(backlog') = Range(backlog) \cup {c}
    BY <1>1, <2>2, RangeParts
  <2>4. Sorted(backlog')
    BY <1>1, <1>2, <2>1, <2>2, SortedParts
  <2>5. conn["server"] < c /\ conn["server"] <= c
    BY <1>0, <1>1, <1>2, <2>1
  <2>6. \A x \in Range(socket_queue) : x < c
    BY <1>2, <2>1
  <2> QED
    BY <1>1, <2>2, <2>3, <2>4, <2>5, <2>6 DEF ConnsInOrder
<1>6. ASSUME ListenerAccepts PROVE ConnsInOrder'
  <2>1. /\ backlog # <<>> /\ backlog' = Tail(backlog) /\ UNCHANGED <<conn, nconns>>
        /\ socket_queue' \in {socket_queue, Append(socket_queue, Head(backlog))}
    BY <1>6 DEF ListenerAccepts
  <2>2. /\ Sorted(backlog') /\ (\A x \in Range(backlog') : Head(backlog) < x)
        /\ Range(backlog) = Range(backlog') \cup {Head(backlog)}
    BY <1>1, <2>1, SortedParts, RangeParts
  <2>3. Head(backlog) \in Range(backlog) /\ Head(backlog) \in Conns
    BY <1>2, <2>2
  <2>4. \A x \in Range(socket_queue) : x < Head(backlog)
    BY <1>1, <2>3
  <2>5. Sorted(socket_queue') /\ Range(socket_queue') \subseteq Range(socket_queue) \cup {Head(backlog)}
    <3>1. Range(Append(socket_queue, Head(backlog))) = Range(socket_queue) \cup {Head(backlog)}
      BY <1>1, <2>3, RangeParts
    <3>2. Sorted(Append(socket_queue, Head(backlog)))
      BY <1>1, <2>3, <2>4, SortedParts
    <3> QED
      BY <1>1, <2>1, <3>1, <3>2
  <2>6. \A x \in Range(socket_queue'), y \in Range(backlog') : x < y
    BY <1>1, <2>2, <2>5
  <2>7. \A x \in Range(socket_queue') \cup Range(backlog') : conn["server"] < x
    BY <1>1, <2>2, <2>5
  <2> QED
    BY <1>1, <2>1, <2>2, <2>5, <2>6, <2>7 DEF ConnsInOrder
<1>7. ASSUME ListenerEnds \/ RunnerEnds PROVE ConnsInOrder'
  <2>1. /\ \/ backlog' = <<>> /\ socket_queue' = socket_queue
           \/ backlog' = backlog /\ socket_queue' = <<>>
        /\ UNCHANGED <<conn, nconns>>
    BY <1>7 DEF ListenerEnds, RunnerEnds
  <2> QED
    BY <1>1, <1>3, <2>1 DEF ConnsInOrder
<1>8. ASSUME RunnerTakesSocket PROVE ConnsInOrder'
  <2>1. PICK k \in 1 .. Len(socket_queue) :
           /\ socket_queue' = SubSeq(socket_queue, k + 1, Len(socket_queue))
           /\ conn' = conn \/ conn' = [conn EXCEPT !["server"] = socket_queue[k]]
    BY <1>8 DEF RunnerTakesSocket
  <2>2. UNCHANGED <<backlog, nconns>>
    BY <1>8 DEF RunnerTakesSocket
  <2>3. /\ Sorted(socket_queue') /\ Range(socket_queue') \subseteq Range(socket_queue)
        /\ socket_queue[k] \in Range(socket_queue)
        /\ \A x \in Range(socket_queue') : socket_queue[k] < x
    BY <1>1, <2>1, CutSorted
  <2>4. \A x \in Range(backlog) : socket_queue[k] < x
    BY <1>1, <2>3
  <2>5. /\ conn'["client"] = conn["client"]
        /\ conn'["server"] \in {conn["server"], socket_queue[k]}
    BY <1>0, <2>1 DEF TypeOK
  <2>6. \A x \in Range(socket_queue') \cup Range(backlog') : conn'["server"] < x
    BY <1>1, <2>2, <2>3, <2>4, <2>5
  <2>7. conn'["server"] <= nconns
    BY <1>1, <1>2, <2>3, <2>5
  <2> QED
    BY <1>1, <2>2, <2>3, <2>5, <2>6, <2>7 DEF ConnsInOrder
<1>9. ASSUME NEW e \in Endpoints, Restart(e) PROVE ConnsInOrder'
  <2>1. conn' = [conn EXCEPT ![e] = NoConn] /\ nconns' = nconns
    BY <1>9 DEF Restart
  <2>2. CASE e # "server"
    BY <1>4, <1>9, <2>1, <2>2 DEF Restart
  <2>3. CASE e = "server"
    <3>1. backlog' = <<>> /\ socket_queue' = <<>>
      BY <1>9, <2>3 DEF Restart
    <3>2. conn'["server"] = NoConn /\ conn'["client"] = conn["client"]
      BY <1>0, <2>1, <2>3 DEF TypeOK
    <3>3. NoConn <= nconns
      BY <1>2 DEF NoConn
    <3> QED
      BY <1>1, <1>3, <2>1, <3>1, <3>2, <3>3 DEF ConnsInOrder
  <2> QED
    BY <2>2, <2>3
<1>10. ASSUME NEW e \in Endpoints, AppStep(e) \/ StreamStep(e) PROVE ConnsInOrder'
  <2>1. /\ UNCHANGED <<socket_queue, backlog, nconns>>
        /\ conn' = conn \/ conn' = [conn EXCEPT ![e] = NoConn]
    <3>1. CASE AppStep(e)
      BY <3>1 DEF AppStep, AppSend, AppDropsSender, AppDropsReceiver, Cancel
    <3>2. CASE Killed(e) \/ HelloAccepted(e) \/ HelloBadSender(e) \/ HelloBadLastRx(e) \/ HelloMissing(e)
      BY <3>2 DEF Killed, HelloAccepted, HelloBadSender, HelloBadLastRx, HelloMissing, Return
    <3>3. CASE AppMessage(e) \/ AppChannelClosed(e) \/ StreamEnds(e) \/ JoinDone(e)
      BY <3>3 DEF AppMessage, AppChannelClosed, StreamEnds, JoinDone, BreakLoop
    <3>4. CASE ReceiveAck(e) \/ ReceiveData(e)
      BY <3>4 DEF ReceiveAck, ReceiveData, BreakLoop, Return
    <3> QED
      BY <1>10, <3>1, <3>2, <3>3, <3>4 DEF StreamStep
  <2> QED
    BY <1>4, <2>1
<1>11. ASSUME ClientTop \/ ConnectFails \/ UnconnectedTakesFromApp \/ UnconnectedEnds
       PROVE  ConnsInOrder'
  <2>1. UNCHANGED <<socket_queue, backlog, nconns, conn>>
    BY <1>11 DEF ClientTop, ConnectFails, UnconnectedTakesFromApp, UnconnectedEnds
  <2> QED
    BY <1>0, <1>4, <2>1
<1>12. ASSUME NEW c \in Conns, Break(c) PROVE ConnsInOrder'
  BY <1>0, <1>4, <1>12 DEF Break
<1>13. CASE UNCHANGED vars
  BY <1>0, <1>4, <1>13 DEF vars
<1> QED
  BY <1>5, <1>6, <1>7, <1>8, <1>9, <1>10, <1>11, <1>12, <1>13 DEF Next, ClientStep, ServerStep

\* Every event keeps what EndsInv says of the ends.
LEMMA EventEnds ==
    ASSUME TypeOK, EndsInv, Event PROVE EndsInv'
<1>1. CASE Idle \/ Producing
  BY <1>1, QuietEnds, LeavesEnds DEF Idle, Producing
<1>2. CASE Opening
  BY <1>2, MakesEnds, TakesEnds DEF Opening
<1>3. CASE Breaking
  BY <1>3, LosesEnds DEF Breaking
<1>4. CASE Keeping
  BY <1>4, QuietEnds, LeavesEnds DEF Keeping
<1>5. CASE Writing
  BY <1>5, WritesEnds DEF Writing
<1>6. CASE Renewing
  BY <1>6, LeavesEnds DEF Renewing
<1>7. CASE Refusing
  BY <1>7, LeavesEnds DEF Refusing
<1>8. CASE Greeting \/ Releasing \/ Receiving
  BY <1>8, ReadsEnds DEF Greeting, Releasing, Receiving
<1> QED
  BY <1>1, <1>2, <1>3, <1>4, <1>5, <1>6, <1>7, <1>8 DEF Event

\* There are no connections at first.
LEMMA ConnInit == Init => ConnInv
<1> SUFFICES ASSUME Init PROVE ConnInv
  OBVIOUS
<1>1. /\ \A e \in Endpoints : conn[e] = NoConn /\ ~InStream(e)
      /\ \A e \in Endpoints, c \in Conns : pipe[e][c] = <<>> /\ closed[c] = {}
      /\ backlog = <<>> /\ socket_queue = <<>> /\ nconns = 0
  BY DEF Init, InStream, StartPC
<1>2. Range(<<>>) = {} /\ Sorted(<<>>) /\ Len(<<>>) = 0 /\ <<>> \in Seq(Conns)
  <2>1. <<>> \in Seq(Conns)
    BY EmptySeq
  <2>2. Sorted(<<>>)
    BY EmptySeq DEF Sorted
  <2> QED
    BY <2>1, <2>2, RangeParts, EmptySeq
<1>3. ASSUME NEW e \in Endpoints, NEW c \in Conns PROVE EndInv(e, c)
  <2>1. c > nconns /\ ~(c <= nconns) /\ c # NoConn
    BY <1>1 DEF Conns, NoConn
  <2>2. ~Using(e, c) /\ ~Started(e, c) /\ ~Pending(e, c)
    BY <1>1, <1>2, <2>1 DEF Using, Started, Pending
  <2> QED
    BY <1>1, <1>2, <2>1, <2>2, PeerProperties, EmptyKinds DEF EndInv
<1>4. EndsInv
  BY <1>3, EndsInvByEnd
<1>5. ConnsInOrder
  BY <1>1, <1>2 DEF ConnsInOrder, Endpoints, NoConn
<1> QED
  BY <1>4, <1>5 DEF ConnInv, EndsInv

\* Each connection has one life: the client makes it, the server takes it up or
\* drops it in the order in which the client made them, each end drops it once;
\* and on it the hello comes first, once, before anything its sender says next.
THEOREM Connections == Spec => []ConnInv
<1>1. TypeOK /\ ConnInv /\ [Next]_vars => ConnInv'
  <2> SUFFICES ASSUME TypeOK, ConnInv, [Next]_vars PROVE ConnInv'
    OBVIOUS
  <2>1. EndsInv /\ ConnsInOrder
    BY DEF ConnInv, EndsInv
  <2>2. EndsInv'
    BY <2>1, StepIsEvent, EventEnds
  <2>3. ConnsInOrder'
    BY <2>1, OrderStep
  <2> QED
    BY <2>2, <2>3 DEF ConnInv, EndsInv
<1> QED
  BY <1>1, ConnInit, TypeCorrect, PTL DEF Spec
=============================================================================
