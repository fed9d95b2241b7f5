----------------------- MODULE StreamInvariantProofs -----------------------
(***************************************************************************)
(* Each part of StreamInv is kept by every step of ReconnectingStream      *)
(* (AckedWasReceived and HellosInOrder: see StreamTheorems).               *)
(***************************************************************************)
EXTENDS StreamEventProofs

-----------------------------------------------------------------------------
(* Windows.                                                                *)

\* A numbered sequence without its first elements, or with the next one.
LEMMA NumberedParts ==
    ASSUME NEW s \in Seq(Payload), NEW i \in Ids, NEW after \in Nat, Numbered(s, i, after)
    PROVE  /\ s # <<>> => Head(s) = [from |-> i, n |-> after + 1] /\ Numbered(Tail(s), i, after + 1)
           /\ Numbered(Append(s, [from |-> i, n |-> after + Len(s) + 1]), i, after)
           /\ \A m \in 0 .. Len(s) :
                 LET t == SubSeq(s, m + 1, Len(s))
                 IN t \in Seq(Payload) /\ Len(t) = Len(s) - m /\ Numbered(t, i, after + m)
<1>1. Len(s) \in Nat /\ \A k \in 1 .. Len(s) : s[k] = [from |-> i, n |-> after + k]
  BY LenProperties DEF Numbered
<1>2. ASSUME s # <<>>
      PROVE  Head(s) = [from |-> i, n |-> after + 1] /\ Numbered(Tail(s), i, after + 1)
  <2>1. /\ Len(s) \in Nat \ {0} /\ Head(s) = s[1] /\ Len(Tail(s)) = Len(s) - 1
        /\ \A k \in 1 .. Len(s) - 1 : Tail(s)[k] = s[k + 1]
    BY <1>2, TailAt
  <2>2. 1 \in 1 .. Len(s)
    BY <2>1
  <2>3. ASSUME NEW k \in 1 .. Len(s) - 1
        PROVE  Tail(s)[k] = [from |-> i, n |-> (after + 1) + k]
    <3>1. k + 1 \in 1 .. Len(s) /\ after + (k + 1) = (after + 1) + k
      BY <2>1
    <3>2. s[k + 1] = [from |-> i, n |-> after + (k + 1)]
      BY <1>1, <3>1
    <3> QED
      BY <2>1, <3>1, <3>2
  <2> QED
    BY <1>1, <2>1, <2>2, <2>3 DEF Numbered
<1>3. Numbered(Append(s, [from |-> i, n |-> after + Len(s) + 1]), i, after)
  <2> DEFINE p == [from |-> i, n |-> after + Len(s) + 1]
             t == Append(s, p)
  <2>1. p \in Payload
    BY <1>1 DEF Payload
  <2>2. /\ Len(t) = Len(s) + 1 /\ t[Len(s) + 1] = p
        /\ \A k \in 1 .. Len(s) : t[k] = s[k]
    BY <2>1, AppendProperties
  <2>3. p = [from |-> i, n |-> after + (Len(s) + 1)]
    BY <1>1
  <2> HIDE DEF t, p
  <2>4. \A k \in 1 .. Len(s) + 1 : k \in 1 .. Len(s) \/ k = Len(s) + 1
    BY <1>1
  <2>5. Numbered(t, i, after)
    BY <1>1, <2>2, <2>3, <2>4 DEF Numbered
  <2> QED
    BY <2>5 DEF t, p
<1>4. ASSUME NEW m \in 0 .. Len(s)
      PROVE  LET t == SubSeq(s, m + 1, Len(s))
             IN t \in Seq(Payload) /\ Len(t) = Len(s) - m /\ Numbered(t, i, after + m)
  <2> DEFINE t == SubSeq(s, m + 1, Len(s))
  <2>1. \A k \in m + 1 .. Len(s) : s[k] \in Payload
    BY <1>1, ElementOfSeq
  <2>2. m + 1 \in 1 .. Len(s) + 1
    BY <1>1
  <2>3. /\ t \in Seq(Payload)
        /\ Len(t) = IF m + 1 <= Len(s) THEN Len(s) - (m + 1) + 1 ELSE 0
        /\ \A k \in 1 .. Len(s) - (m + 1) + 1 : t[k] = s[(m + 1) + k - 1]
    BY <1>1, <2>1, <2>2, SubSeqProperties
  <2> HIDE DEF t
  <2>4. Len(t) = Len(s) - m /\ \A k \in 1 .. Len(s) - m : t[k] = s[m + k]
    BY <1>1, <2>3
  <2>5. ASSUME NEW k \in 1 .. Len(t) PROVE t[k] = [from |-> i, n |-> (after + m) + k]
    <3>1. m + k \in 1 .. Len(s) /\ after + (m + k) = (after + m) + k
      BY <1>1, <2>4
    <3>2. s[m + k] = [from |-> i, n |-> after + (m + k)]
      BY <1>1, <3>1
    <3> QED
      BY <2>4, <3>1, <3>2
  <2> QED
    BY <2>3, <2>4, <2>5 DEF Numbered, t
<1> QED
  BY <1>2, <1>3, <1>4

\* The numbers of an endpoint are natural numbers.
LEMMA StreamTypes ==
    ASSUME TypeOK, NEW e \in Endpoints
    PROVE  /\ base_offset[e] \in Nat /\ received_seq[e] \in Nat /\ nids \in Nat \ {0}
           /\ sent_unacked[e] \in Seq(Payload) /\ Len(sent_unacked[e]) \in Nat
           /\ app_queue[e] \in Seq(Payload) /\ Len(app_queue[e]) \in Nat
           /\ Newest(e) \in Nat /\ base_offset[e] <= Newest(e)
           /\ id[e] \in Ids /\ id[e] \in Nat \ {0} /\ remote_id[e] \in Nat
           /\ produced[id[e]] \in Nat
<1>1. /\ base_offset[e] \in Nat /\ received_seq[e] \in Nat /\ nids \in 2 .. MaxIds
      /\ sent_unacked[e] \in Seq(Payload) /\ app_queue[e] \in Seq(Payload)
      /\ id[e] \in Ids /\ remote_id[e] \in Ids \cup {NoId} /\ produced[id[e]] \in Nat
  BY DEF TypeOK
<1>2. Len(sent_unacked[e]) \in Nat /\ Len(app_queue[e]) \in Nat
  BY <1>1, LenProperties
<1>3. Newest(e) \in Nat /\ base_offset[e] <= Newest(e)
  BY <1>1, <1>2 DEF Newest
<1>4. id[e] \in Nat \ {0} /\ remote_id[e] \in Nat /\ nids \in Nat \ {0}
  BY <1>1, BoundAssumption DEF Ids, NoId
<1> QED
  BY <1>1, <1>2, <1>3, <1>4

\* Releasing moves the beginning of the window, and not its end.
LEMMA ReleasesWindow ==
    ASSUME TypeOK, WindowNumbered, NEW e \in Endpoints, NEW seq \in Nat, Releases(e, seq)
    PROVE  /\ base_offset[e] <= seq /\ seq <= Newest(e)
           /\ base_offset'[e] = seq /\ Newest(e)' = Newest(e)
           /\ Numbered(unacked_after(e, seq), id[e], seq)
           /\ Numbered(sent_unacked'[e], id[e], seq)
           /\ Len(unacked_after(e, seq)) = Newest(e) - seq
           /\ sent_unacked'[e] = unacked_after(e, seq)
           /\ unacked_after(e, seq) \in Seq(Payload)
           /\ \A d \in Endpoints : d # e => /\ base_offset'[d] = base_offset[d]
                                            /\ sent_unacked'[d] = sent_unacked[d]
<1> DEFINE s == sent_unacked[e]
           m == seq - base_offset[e]
           t == SubSeq(s, m + 1, Len(s))
<1>1. /\ base_offset[e] <= seq /\ m <= Len(s)
      /\ base_offset' = [base_offset EXCEPT ![e] = seq]
      /\ sent_unacked' = [sent_unacked EXCEPT ![e] = unacked_after(e, seq)]
  BY DEF Releases, ack, ack_accepted
<1>2. base_offset[e] \in Nat /\ s \in Seq(Payload) /\ Len(s) \in Nat /\ id[e] \in Ids
  BY StreamTypes
<1>3. m \in 0 .. Len(s) /\ base_offset[e] + m = seq
  BY <1>1, <1>2
<1>4. Numbered(s, id[e], base_offset[e])
  BY DEF WindowNumbered
<1>5. t \in Seq(Payload) /\ Len(t) = Len(s) - m /\ Numbered(t, id[e], base_offset[e] + m)
  BY <1>2, <1>3, <1>4, NumberedParts
<1>6. unacked_after(e, seq) = t
  BY DEF unacked_after
<1>7. base_offset'[e] = seq /\ sent_unacked'[e] = t
      /\ \A d \in Endpoints : d # e => /\ base_offset'[d] = base_offset[d]
                                       /\ sent_unacked'[d] = sent_unacked[d]
  BY <1>1, <1>6 DEF TypeOK
<1>8. Numbered(t, id[e], seq)
  BY <1>3, <1>5
<1>9. Len(t) = Newest(e) - seq /\ seq <= Newest(e) /\ seq + Len(t) = Newest(e)
  <2>1. Newest(e) = base_offset[e] + Len(s) /\ Len(t) = Len(s) - m /\ m = seq - base_offset[e]
    BY <1>5 DEF Newest
  <2> HIDE DEF t, s, m
  <2> QED
    BY <1>1, <1>2, <2>1
<1>10. Newest(e)' = seq + Len(t)
  BY <1>7 DEF Newest
<1> HIDE DEF t, m, s
<1> QED
  BY <1>1, <1>5, <1>6, <1>7, <1>8, <1>9, <1>10

-----------------------------------------------------------------------------
(* What an event does to an endpoint's stream, other than that it goes on. *)

\* The endpoint is the same, and further; or it is a new one.
Further(e) ==
    /\ id'[e] = id[e]
    /\ base_offset[e] <= base_offset'[e] /\ Newest(e) <= Newest(e)'
    /\ received_seq[e] <= received_seq'[e]
    /\ remote_id[e] # NoId => remote_id'[e] = remote_id[e]
Renewed(e) ==
    /\ nids' = nids + 1 /\ id'[e] = nids' /\ remote_id'[e] = NoId
    /\ sent_unacked'[e] = <<>> /\ base_offset'[e] = 0 /\ received_seq'[e] = 0

\* An event takes an endpoint further in its streams, or begins a new incarnation.
LEMMA EventProgress ==
    ASSUME TypeOK, WindowNumbered, Event
    PROVE  /\ \A e \in Endpoints : Further(e) \/ (Renewed(e) /\ Renewing)
           /\ \A i \in Ids : produced[i] <= produced'[i]
           /\ nids <= nids' /\ nids' \in Nat
           /\ ~Renewing => nids' = nids /\ id' = id
<1> USE DEF streamVars
<1>0. \A e \in Endpoints : /\ base_offset[e] \in Nat /\ received_seq[e] \in Nat /\ nids \in Nat
                           /\ Newest(e) \in Nat /\ id[e] \in Ids
                           /\ \A i \in Ids : produced[i] \in Nat
  BY StreamTypes DEF TypeOK
<1>a. nids \in Nat /\ nids <= nids /\ nids <= nids + 1 /\ nids + 1 \in Nat /\ nids + 1 # nids
  <2>1. "client" \in Endpoints
    BY DEF Endpoints
  <2> QED
    BY <1>0, <2>1
<1>1. ASSUME SameStreams PROVE /\ \A e \in Endpoints : Further(e)
                               /\ \A i \in Ids : produced[i] <= produced'[i]
                               /\ id' = id
  <2>1. \A e \in Endpoints : Newest(e)' = Newest(e)
    BY <1>1 DEF SameStreams, Newest
  <2>2. \A e \in Endpoints : Further(e)
    BY <1>0, <1>1, <2>1 DEF SameStreams, Further
  <2>3. \A i \in Ids : produced[i] \in Nat
    BY DEF TypeOK
  <2>4. produced' = produced /\ id' = id
    BY <1>1 DEF SameStreams
  <2> QED
    BY <2>2, <2>3, <2>4
<1>2. ASSUME NEW e \in Endpoints, Produces(e)
      PROVE  (\A d \in Endpoints : Further(d)) /\ (\A i \in Ids : produced[i] <= produced'[i]) /\ id' = id
  <2>1. \A i \in Ids : produced'[i] = produced[i] \/ produced'[i] = produced[i] + 1
    BY <1>0, <1>2 DEF Produces, TypeOK
  <2> QED
    BY <1>0, <1>2, <2>1 DEF Produces, Further, Newest
<1>3. ASSUME NEW e \in Endpoints, Enqueues(e)
      PROVE  (\A d \in Endpoints : Further(d)) /\ (\A i \in Ids : produced[i] <= produced'[i]) /\ id' = id
  <2>1. ASSUME NEW d \in Endpoints PROVE Newest(d) <= Newest(d)'
    <3>1. CASE d # e
      <4>1. sent_unacked'[d] = sent_unacked[d] /\ base_offset'[d] = base_offset[d]
        BY <1>3, <3>1 DEF Enqueues, TypeOK
      <4> QED
        BY <1>0, <4>1 DEF Newest
    <3>2. CASE d = e
      <4>0. sent_unacked[e] \in Seq(Payload) /\ app_queue[e] \in Seq(Payload) /\ app_queue[e] # <<>>
        BY <1>3, StreamTypes DEF Enqueues
      <4>1. /\ sent_unacked'[e] = Append(sent_unacked[e], Head(app_queue[e]))
            /\ base_offset'[e] = base_offset[e]
        BY <1>3 DEF Enqueues, TypeOK
      <4>2. Len(sent_unacked'[e]) = Len(sent_unacked[e]) + 1 /\ Len(sent_unacked[e]) \in Nat
        BY <4>0, <4>1, TailAt, AppendProperties, LenProperties
      <4>3. base_offset[e] \in Nat
        BY <1>0
      <4> QED
        BY <3>2, <4>1, <4>2, <4>3 DEF Newest
    <3> QED
      BY <3>1, <3>2
  <2> QED
    BY <1>0, <1>3, <2>1 DEF Enqueues, Further
<1>4. ASSUME NEW e \in Endpoints, NEW m \in Message, Binds(e, m),
             Releases(e, m.sender_last_rx) \/ UNCHANGED <<sent_unacked, base_offset>>
      PROVE  (\A d \in Endpoints : Further(d)) /\ (\A i \in Ids : produced[i] <= produced'[i]) /\ id' = id
  <2>1. m.sender_last_rx \in Nat
    BY <1>4, MessageFields DEF Binds
  <2>2. ASSUME NEW d \in Endpoints PROVE base_offset[d] <= base_offset'[d] /\ Newest(d) <= Newest(d)'
    <3>1. CASE UNCHANGED <<sent_unacked, base_offset>>
      BY <1>0, <3>1 DEF Newest
    <3>2. CASE Releases(e, m.sender_last_rx)
      <4>1. CASE d = e
        BY <1>0, <2>1, <3>2, <4>1, ReleasesWindow
      <4>2. CASE d # e
        <5>1. base_offset'[d] = base_offset[d] /\ sent_unacked'[d] = sent_unacked[d]
          BY <2>1, <3>2, <4>2, ReleasesWindow
        <5> QED
          BY <1>0, <5>1 DEF Newest
      <4> QED
        BY <4>1, <4>2
    <3> QED
      BY <1>4, <3>1, <3>2
  <2>3. \A d \in Endpoints : remote_id[d] # NoId => remote_id'[d] = remote_id[d]
    BY <1>4 DEF Binds, known_sender, TypeOK
  <2> QED
    BY <1>0, <1>4, <2>2, <2>3 DEF Binds, Further
<1>5. ASSUME NEW e \in Endpoints, NEW m \in Message, m.type = "Ack",
             Releases(e, m.seq), UNCHANGED remote_id
      PROVE  (\A d \in Endpoints : Further(d)) /\ (\A i \in Ids : produced[i] <= produced'[i]) /\ id' = id
  <2>1. m.seq \in Nat
    BY <1>5, MessageFields
  <2>2. ASSUME NEW d \in Endpoints PROVE base_offset[d] <= base_offset'[d] /\ Newest(d) <= Newest(d)'
    <3>1. CASE d = e
      BY <1>0, <1>5, <2>1, <3>1, ReleasesWindow
    <3>2. CASE d # e
      <4>1. base_offset'[d] = base_offset[d] /\ sent_unacked'[d] = sent_unacked[d]
        BY <1>5, <2>1, <3>2, ReleasesWindow
      <4> QED
        BY <1>0, <4>1 DEF Newest
    <3> QED
      BY <3>1, <3>2
  <2> QED
    BY <1>0, <1>5, <2>2 DEF Releases, Further
<1>6. ASSUME NEW e \in Endpoints, NEW p, Delivers(e, p)
      PROVE  (\A d \in Endpoints : Further(d)) /\ (\A i \in Ids : produced[i] <= produced'[i]) /\ id' = id
  <2>1. \A d \in Endpoints : received_seq'[d] = received_seq[d] \/ received_seq'[d] = received_seq[d] + 1
    BY <1>6 DEF Delivers, TypeOK
  <2> QED
    BY <1>0, <1>6, <2>1 DEF Delivers, Further, Newest
<1>7. ASSUME NEW e \in Endpoints, Renews(e)
      PROVE  /\ \A d \in Endpoints : Further(d) \/ Renewed(d)
             /\ \A i \in Ids : produced[i] <= produced'[i]
             /\ nids' = nids + 1
  <2>1. Renewed(e)
    BY <1>7 DEF Renews, Renewed, TypeOK
  <2>2. ASSUME NEW d \in Endpoints, d # e PROVE Further(d)
    <3>1. /\ id'[d] = id[d] /\ base_offset'[d] = base_offset[d] /\ received_seq'[d] = received_seq[d]
          /\ remote_id'[d] = remote_id[d] /\ sent_unacked'[d] = sent_unacked[d]
      BY <1>7, <2>2 DEF Renews, TypeOK
    <3> QED
      BY <1>0, <3>1 DEF Further, Newest
  <2> QED
    BY <1>0, <1>7, <2>1, <2>2 DEF Renews
<1> DEFINE Q == /\ \A e \in Endpoints : Further(e)
                /\ \A i \in Ids : produced[i] <= produced'[i]
                /\ id' = id
<1>8. Idle \/ Opening \/ Breaking => Q
  BY <1>1 DEF Idle, Opening, Breaking
<1>9. Producing => Q
  BY <1>2 DEF Producing
<1>10. Keeping \/ Writing => Q
  BY <1>3 DEF Keeping, Writing
<1>11. Refusing \/ Greeting => Q
  BY <1>4 DEF Refusing, Greeting
<1>12. Releasing => Q
  BY <1>5 DEF Releasing
<1>13. Receiving => Q
  BY <1>6 DEF Receiving
<1>14. CASE Renewing
  BY <1>7, <1>14, <1>a DEF Renewing
<1>15. CASE ~Renewing
  <2>1. nids' = nids
    BY <1>15 DEF Event
  <2>2. Q
    BY <1>8, <1>9, <1>10, <1>11, <1>12, <1>13, <1>15 DEF Event
  <2> QED
    BY <1>15, <1>a, <2>1, <2>2
<1> QED
  BY <1>14, <1>15

-----------------------------------------------------------------------------
(* Each part of StreamInv is kept by every event.                          *)

\* Every event keeps the window and the channel numbered.
LEMMA WindowStep == ASSUME StreamInv, Event PROVE WindowNumbered'
<1> USE DEF streamVars
<1>0. TypeOK /\ WindowNumbered /\ IdsInOrder
  BY DEF StreamInv
<1> DEFINE W(d) == /\ Numbered(sent_unacked[d], id[d], base_offset[d])
                   /\ Numbered(app_queue[d], id[d], Newest(d))
                   /\ produced[id[d]] = Newest(d) + Len(app_queue[d])
<1>1. \A d \in Endpoints : W(d)
  BY <1>0 DEF WindowNumbered
<1>a. WindowNumbered' <=> \A d \in Endpoints : W(d)'
  BY DEF WindowNumbered
\* An endpoint that the event does not concern.
<1>2. ASSUME NEW d \in Endpoints, sent_unacked'[d] = sent_unacked[d], id'[d] = id[d],
             base_offset'[d] = base_offset[d], app_queue'[d] = app_queue[d],
             produced'[id[d]] = produced[id[d]]
      PROVE  W(d)'
  <2>1. Newest(d)' = Newest(d)
    BY <1>2 DEF Newest
  <2> QED
    BY <1>1, <1>2, <2>1
<1> HIDE DEF W
<1>3. ASSUME UNCHANGED <<produced, app_queue, id, sent_unacked, base_offset>>
      PROVE  \A d \in Endpoints : W(d)'
  BY <1>2, <1>3
<1>4. ASSUME NEW e \in Endpoints, Produces(e) PROVE \A d \in Endpoints : W(d)'
  <2>0. /\ id[e] \in Ids /\ app_queue[e] \in Seq(Payload) /\ Len(app_queue[e]) \in Nat
        /\ Newest(e) \in Nat
    BY <1>0, StreamTypes
  <2>1. W(e)
    BY <1>1
  <2>2. /\ Numbered(sent_unacked[e], id[e], base_offset[e]) /\ Numbered(app_queue[e], id[e], Newest(e))
        /\ produced[id[e]] = Newest(e) + Len(app_queue[e])
    BY <2>1 DEF W
  <2>3. /\ produced'[id[e]] = produced[id[e]] + 1 /\ id' = id /\ sent_unacked' = sent_unacked
        /\ base_offset' = base_offset /\ Newest(e)' = Newest(e)
        /\ app_queue'[e] = Append(app_queue[e], [from |-> id[e], n |-> Newest(e) + Len(app_queue[e]) + 1])
    BY <1>0, <1>4, <2>0, <2>2 DEF Produces, TypeOK, Newest
  <2>4. Numbered(app_queue'[e], id[e], Newest(e))
    BY <2>0, <2>2, <2>3, NumberedParts
  <2>5. [from |-> id[e], n |-> Newest(e) + Len(app_queue[e]) + 1] \in Payload
    BY <2>0 DEF Payload
  <2>6. Len(app_queue'[e]) = Len(app_queue[e]) + 1
    BY <2>0, <2>3, <2>5, AppendProperties
  <2>7. produced'[id[e]] = Newest(e) + Len(app_queue'[e])
    BY <2>0, <2>2, <2>3, <2>6
  <2>8. W(e)'
    BY <2>2, <2>3, <2>4, <2>7 DEF W
  <2>9. ASSUME NEW d \in Endpoints, d # e PROVE W(d)'
    <3>1. id[d] # id[e]
      BY <1>0, <2>9 DEF IdsInOrder, Endpoints
    <3>2. produced'[id[d]] = produced[id[d]] /\ app_queue'[d] = app_queue[d]
      BY <1>0, <1>4, <2>9, <3>1 DEF Produces, TypeOK
    <3> QED
      BY <1>2, <2>3, <3>2
  <2> QED
    BY <2>8, <2>9
<1>5. ASSUME NEW e \in Endpoints, Enqueues(e) PROVE \A d \in Endpoints : W(d)'
  <2>0. /\ id[e] \in Ids /\ app_queue[e] \in Seq(Payload) /\ sent_unacked[e] \in Seq(Payload)
        /\ Newest(e) \in Nat /\ base_offset[e] \in Nat /\ app_queue[e] # <<>>
        /\ Len(sent_unacked[e]) \in Nat
    BY <1>0, <1>5, StreamTypes DEF Enqueues
  <2>1. W(e)
    BY <1>1
  <2>2. /\ Numbered(sent_unacked[e], id[e], base_offset[e]) /\ Numbered(app_queue[e], id[e], Newest(e))
        /\ produced[id[e]] = Newest(e) + Len(app_queue[e])
    BY <2>1 DEF W
  <2>3. /\ Head(app_queue[e]) = [from |-> id[e], n |-> Newest(e) + 1]
        /\ Numbered(Tail(app_queue[e]), id[e], Newest(e) + 1)
    BY <2>0, <2>2, NumberedParts
  <2>4. /\ produced' = produced /\ id' = id /\ base_offset' = base_offset
        /\ app_queue'[e] = Tail(app_queue[e])
        /\ sent_unacked'[e] = Append(sent_unacked[e], Head(app_queue[e]))
    BY <1>0, <1>5 DEF Enqueues, TypeOK
  <2>5. Head(app_queue[e]) = [from |-> id[e], n |-> base_offset[e] + Len(sent_unacked[e]) + 1]
    BY <2>3 DEF Newest
  <2>6. Numbered(sent_unacked'[e], id[e], base_offset[e])
    <3>1. Numbered(Append(sent_unacked[e], [from |-> id[e], n |-> base_offset[e] + Len(sent_unacked[e]) + 1]),
                   id[e], base_offset[e])
      BY <2>0, <2>2, NumberedParts
    <3> QED
      BY <2>4, <2>5, <3>1
  <2>7. Head(app_queue[e]) \in Payload
    BY <2>0, TailAt
  <2>8. Len(sent_unacked'[e]) = Len(sent_unacked[e]) + 1
    BY <2>0, <2>4, <2>7, AppendProperties
  <2>9. Newest(e)' = Newest(e) + 1
    BY <2>0, <2>4, <2>8 DEF Newest
  <2>10. Len(app_queue'[e]) = Len(app_queue[e]) - 1 /\ Len(app_queue[e]) \in Nat \ {0}
    BY <2>0, <2>4, TailAt
  <2>11. produced[id[e]] = (Newest(e) + 1) + Len(app_queue'[e])
    BY <2>0, <2>2, <2>10
  <2>12. W(e)'
    BY <2>3, <2>4, <2>6, <2>9, <2>11 DEF W
  <2>13. ASSUME NEW d \in Endpoints, d # e PROVE W(d)'
    <3>1. app_queue'[d] = app_queue[d] /\ sent_unacked'[d] = sent_unacked[d]
      BY <1>0, <1>5, <2>13 DEF Enqueues, TypeOK
    <3> QED
      BY <1>2, <2>4, <3>1
  <2> QED
    BY <2>12, <2>13
<1>6. ASSUME NEW e \in Endpoints, NEW seq \in Nat, Releases(e, seq)
      PROVE  \A d \in Endpoints : W(d)'
  <2>1. /\ base_offset'[e] = seq /\ Newest(e)' = Newest(e) /\ Numbered(sent_unacked'[e], id[e], seq)
        /\ \A d \in Endpoints : d # e => /\ base_offset'[d] = base_offset[d]
                                         /\ sent_unacked'[d] = sent_unacked[d]
    BY <1>0, <1>6, ReleasesWindow
  <2>2. UNCHANGED <<produced, app_queue, id>>
    BY <1>6 DEF Releases
  <2>3. W(e)'
    BY <1>1, <2>1, <2>2 DEF W
  <2>4. \A d \in Endpoints : d # e => W(d)'
    BY <1>2, <2>1, <2>2
  <2> QED
    BY <2>3, <2>4
<1>7. ASSUME NEW e \in Endpoints, Renews(e) PROVE \A d \in Endpoints : W(d)'
  <2>1. /\ id'[e] = nids + 1 /\ sent_unacked'[e] = <<>> /\ base_offset'[e] = 0 /\ app_queue'[e] = <<>>
        /\ produced' = produced /\ nids + 1 \in Ids /\ nids + 1 > nids
    <3>1. nids \in 2 .. MaxIds /\ nids < MaxIds
      BY <1>0, <1>7 DEF Renews, TypeOK
    <3>2. nids + 1 \in Ids /\ nids + 1 > nids
      BY <3>1, BoundAssumption DEF Ids
    <3> QED
      BY <1>0, <1>7, <3>2 DEF Renews, TypeOK
  <2>2. produced[nids + 1] = 0
    BY <1>0, <2>1 DEF IdsInOrder
  <2>3. Len(<<>>) = 0
    BY EmptyKinds
  <2>4. Newest(e)' = 0
    BY <2>1, <2>3 DEF Newest
  <2>5. W(e)'
    BY <2>1, <2>2, <2>3, <2>4 DEF W, Numbered
  <2>6. ASSUME NEW d \in Endpoints, d # e PROVE W(d)'
    <3>1. /\ app_queue'[d] = app_queue[d] /\ sent_unacked'[d] = sent_unacked[d]
          /\ id'[d] = id[d] /\ base_offset'[d] = base_offset[d]
      BY <1>0, <1>7, <2>6 DEF Renews, TypeOK
    <3> QED
      BY <1>2, <2>1, <3>1
  <2> QED
    BY <2>5, <2>6
<1>8. CASE Idle \/ Opening \/ Breaking
  BY <1>a, <1>3, <1>8 DEF Idle, Opening, Breaking, SameStreams
<1>9. CASE Producing
  BY <1>a, <1>4, <1>9 DEF Producing
<1>10. CASE Keeping \/ Writing
  BY <1>a, <1>5, <1>10 DEF Keeping, Writing
<1>11. CASE Refusing \/ Greeting
  <2>1. PICK e \in Endpoints, m \in Message :
           /\ Binds(e, m)
           /\ Releases(e, m.sender_last_rx) \/ UNCHANGED <<sent_unacked, base_offset>>
    BY <1>11 DEF Refusing, Greeting
  <2>2. m.sender_last_rx \in Nat
    BY <2>1, MessageFields DEF Binds
  <2> QED
    BY <1>a, <1>3, <1>6, <2>1, <2>2 DEF Binds
<1>12. CASE Releasing
  BY <1>a, <1>6, <1>12, MessageFields DEF Releasing
<1>13. CASE Receiving
  BY <1>a, <1>3, <1>13 DEF Receiving, Delivers
<1>14. CASE Renewing
  BY <1>a, <1>7, <1>14 DEF Renewing
<1> QED
  BY <1>8, <1>9, <1>10, <1>11, <1>12, <1>13, <1>14 DEF Event

\* Every message that waits, in the window or in the channel, has a size.
LEMMA WaitingSized ==
    ASSUME TypeOK, WindowNumbered, Limited, NEW e \in Endpoints
    PROVE  Sized(sent_unacked[e]) /\ Sized(app_queue[e])
<1>0. /\ sent_unacked[e] \in Seq(Payload) /\ Len(sent_unacked[e]) \in Nat
      /\ app_queue[e] \in Seq(Payload) /\ Len(app_queue[e]) \in Nat
      /\ base_offset[e] \in Nat /\ Newest(e) \in Nat /\ produced[id[e]] \in Nat
      /\ MsgLimit[e] \in Nat /\ \A n \in 1 .. MsgLimit[e] : MsgSize[n] \in Nat
  BY StreamTypes, LimitAssumption, SizeAssumption
<1>1. /\ Numbered(sent_unacked[e], id[e], base_offset[e])
      /\ Numbered(app_queue[e], id[e], Newest(e))
      /\ Newest(e) = base_offset[e] + Len(sent_unacked[e])
      /\ Newest(e) + Len(app_queue[e]) <= MsgLimit[e]
  BY DEF WindowNumbered, Limited, Newest
<1>2. ASSUME NEW k \in 1 .. Len(sent_unacked[e]) PROVE MsgSize[sent_unacked[e][k].n] \in Nat
  <2>1. base_offset[e] + k \in 1 .. MsgLimit[e]
    BY <1>0, <1>1
  <2>2. sent_unacked[e][k] = [from |-> id[e], n |-> base_offset[e] + k]
    BY <1>1 DEF Numbered
  <2> QED
    BY <1>0, <2>1, <2>2
<1>3. ASSUME NEW k \in 1 .. Len(app_queue[e]) PROVE MsgSize[app_queue[e][k].n] \in Nat
  <2>1. Newest(e) + k \in 1 .. MsgLimit[e]
    BY <1>0, <1>1
  <2>2. app_queue[e][k] = [from |-> id[e], n |-> Newest(e) + k]
    BY <1>1 DEF Numbered
  <2> QED
    BY <1>0, <2>1, <2>2
<1> QED
  BY <1>0, <1>2, <1>3 DEF Sized

\* A message is taken while the window is below its bound, and an acknowledgement
\* makes the window smaller but for its newest message.
LEMMA BoundStep == ASSUME StreamInv, Event PROVE Limited' /\ WindowBound'
<1> USE DEF streamVars
<1>0. TypeOK /\ WindowNumbered /\ Limited /\ WindowBound /\ IdsInOrder
  BY DEF StreamInv
<1> DEFINE Below(s) == s # <<>> => size_of(s) - MsgSize[s[Len(s)].n] < MaxWindow
           B(d) == produced[id[d]] <= MsgLimit[d] /\ Below(sent_unacked[d])
<1>1. \A d \in Endpoints : B(d)
  BY <1>0 DEF Limited, WindowBound, unacked_size
<1>a. Limited' /\ WindowBound' <=> \A d \in Endpoints : B(d)'
  BY DEF Limited, WindowBound, unacked_size
\* An endpoint that the event does not concern.
<1>2. ASSUME NEW d \in Endpoints, sent_unacked'[d] = sent_unacked[d], id'[d] = id[d],
             produced'[id[d]] = produced[id[d]]
      PROVE  B(d)'
  BY <1>1, <1>2
<1>t. \A d \in Endpoints : Sized(sent_unacked[d]) /\ Sized(app_queue[d])
                           /\ MsgLimit[d] \in Nat /\ MaxWindow \in Nat
  BY <1>0, WaitingSized, LimitAssumption, CapAssumption
<1> HIDE DEF B
<1>3. ASSUME UNCHANGED <<produced, id, sent_unacked>> PROVE \A d \in Endpoints : B(d)'
  BY <1>2, <1>3
<1>4. ASSUME NEW e \in Endpoints, Produces(e) PROVE \A d \in Endpoints : B(d)'
  <2>1. /\ produced'[id[e]] = produced[id[e]] + 1 /\ id' = id /\ sent_unacked' = sent_unacked
        /\ produced[id[e]] < MsgLimit[e] /\ produced[id[e]] \in Nat
    BY <1>0, <1>4 DEF Produces, TypeOK
  <2>2. produced'[id[e]] <= MsgLimit[e]
    BY <1>t, <2>1
  <2>3. B(e)'
    BY <1>1, <2>1, <2>2 DEF B
  <2>4. ASSUME NEW d \in Endpoints, d # e PROVE B(d)'
    <3>1. id[d] # id[e]
      BY <1>0, <2>4 DEF IdsInOrder, Endpoints
    <3>2. produced'[id[d]] = produced[id[d]]
      BY <1>0, <1>4, <2>4, <3>1 DEF Produces, TypeOK
    <3> QED
      BY <1>2, <2>1, <3>2
  <2> QED
    BY <2>3, <2>4
<1>5. ASSUME NEW e \in Endpoints, Enqueues(e) PROVE \A d \in Endpoints : B(d)'
  <2> DEFINE s == sent_unacked[e]
             p == Head(app_queue[e])
  <2>1. /\ produced' = produced /\ id' = id /\ sent_unacked'[e] = Append(s, p)
        /\ ~(size_of(s) >= MaxWindow)
    BY <1>0, <1>5 DEF Enqueues, TypeOK, is_full, unacked_size
  <2>2. s \in Seq(Payload) /\ p \in Payload /\ MsgSize[p.n] \in Nat
    <3>1. app_queue[e] \in Seq(Payload) /\ app_queue[e] # <<>> /\ s \in Seq(Payload)
      BY <1>0, <1>5, StreamTypes DEF Enqueues
    <3>2. Len(app_queue[e]) \in Nat \ {0} /\ p = app_queue[e][1] /\ p \in Payload
      BY <3>1, TailAt
    <3> QED
      BY <1>t, <3>1, <3>2 DEF Sized
  <2> HIDE DEF s, p
  <2>3. size_of(s) \in Nat /\ size_of(Append(s, p)) = size_of(s) + MsgSize[p.n]
    BY <1>t, <2>2, SizeParts DEF s
  <2>4. Append(s, p)[Len(Append(s, p))] = p
    BY <2>2, AppendProperties, LenProperties
  <2>5. Below(Append(s, p))
    BY <1>t, <2>1, <2>2, <2>3, <2>4
  <2>6. B(e)'
    BY <1>1, <2>1, <2>5 DEF B
  <2>7. ASSUME NEW d \in Endpoints, d # e PROVE B(d)'
    <3>1. sent_unacked'[d] = sent_unacked[d]
      BY <1>0, <1>5, <2>7 DEF Enqueues, TypeOK
    <3> QED
      BY <1>2, <2>1, <3>1
  <2> QED
    BY <2>6, <2>7
<1>6. ASSUME NEW e \in Endpoints, NEW seq \in Nat, Releases(e, seq)
      PROVE  \A d \in Endpoints : B(d)'
  <2> DEFINE s == sent_unacked[e]
             m == seq - base_offset[e]
             t == SubSeq(s, m + 1, Len(s))
  <2>1. /\ base_offset[e] <= seq /\ seq <= Newest(e) /\ sent_unacked'[e] = unacked_after(e, seq)
        /\ \A d \in Endpoints : d # e => sent_unacked'[d] = sent_unacked[d]
        /\ Len(unacked_after(e, seq)) = Newest(e) - seq
    BY <1>0, <1>6, ReleasesWindow
  <2>2. s \in Seq(Payload) /\ Len(s) \in Nat /\ base_offset[e] \in Nat
        /\ Newest(e) = base_offset[e] + Len(s)
    BY <1>0, StreamTypes DEF Newest
  <2>3. m \in 0 .. Len(s)
    BY <2>1, <2>2
  <2>4. t = unacked_after(e, seq) /\ sent_unacked'[e] = t /\ Len(t) = Len(s) - m
    BY <2>1, <2>2 DEF unacked_after
  <2>5. size_of(t) <= size_of(s) /\ size_of(s) \in Nat
    BY <1>t, <2>3, SizeParts
  <2>6. t \in Seq(Payload) /\ \A k \in 1 .. Len(s) - m : t[k] = s[m + k]
    <3>1. \A k \in m + 1 .. Len(s) : s[k] \in Payload
      BY <2>2, <2>3, ElementOfSeq
    <3>2. m + 1 \in 1 .. Len(s) + 1
      BY <2>2, <2>3
    <3>3. t \in Seq(Payload) /\ \A k \in 1 .. Len(s) - (m + 1) + 1 : t[k] = s[(m + 1) + k - 1]
      <4> HIDE DEF m, s
      <4> QED
        BY <2>2, <3>1, <3>2, SubSeqProperties
    <3> HIDE DEF t, m
    <3> QED
      BY <2>2, <2>3, <3>3
  <2> HIDE DEF t, m, s
  <2>7. ASSUME t # <<>> PROVE s # <<>> /\ t[Len(t)] = s[Len(s)] /\ MsgSize[s[Len(s)].n] \in Nat
    <3>1. Len(t) \in 1 .. Len(s) - m /\ m + Len(t) = Len(s) /\ Len(s) \in 1 .. Len(s)
      <4>1. Len(t) \in Nat \ {0}
        BY <2>6, <2>7, TailAt
      <4> QED
        BY <2>2, <2>3, <2>4, <4>1
    <3>2. s # <<>>
      BY <3>1, EmptyKinds
    <3>3. MsgSize[s[Len(s)].n] \in Nat
      BY <1>t, <3>1 DEF Sized, s
    <3> QED
      BY <2>6, <3>1, <3>2, <3>3
  <2>8. size_of(t) \in Nat
    <3>1. Sized(t)
      <4>1. \A k \in 1 .. Len(t) : t[k] = s[m + k] /\ m + k \in 1 .. Len(s)
        BY <2>2, <2>3, <2>4, <2>6
      <4> QED
        BY <1>t, <2>6, <4>1 DEF Sized, s
    <3> QED
      BY <3>1, SizeParts
  <2>9. Below(s)
    BY <1>1 DEF B, s
  <2>10. Below(t)
    BY <1>t, <2>5, <2>7, <2>8, <2>9
  <2>11. UNCHANGED <<produced, id>>
    BY <1>6 DEF Releases
  <2>12. B(e)'
    BY <1>1, <2>4, <2>10, <2>11 DEF B
  <2>13. \A d \in Endpoints : d # e => B(d)'
    BY <1>2, <2>1, <2>11
  <2> QED
    BY <2>12, <2>13
<1>7. ASSUME NEW e \in Endpoints, Renews(e) PROVE \A d \in Endpoints : B(d)'
  <2>1. /\ id'[e] = nids + 1 /\ sent_unacked'[e] = <<>> /\ produced' = produced
        /\ nids + 1 \in Ids /\ nids + 1 > nids
    <3>1. nids \in 2 .. MaxIds /\ nids < MaxIds
      BY <1>0, <1>7 DEF Renews, TypeOK
    <3>2. nids + 1 \in Ids /\ nids + 1 > nids
      BY <3>1, BoundAssumption DEF Ids
    <3> QED
      BY <1>0, <1>7, <3>2 DEF Renews, TypeOK
  <2>2. produced[nids + 1] = 0
    BY <1>0, <2>1 DEF IdsInOrder
  <2>3. B(e)'
    BY <1>t, <2>1, <2>2 DEF B
  <2>4. ASSUME NEW d \in Endpoints, d # e PROVE B(d)'
    <3>1. sent_unacked'[d] = sent_unacked[d] /\ id'[d] = id[d]
      BY <1>0, <1>7, <2>4 DEF Renews, TypeOK
    <3> QED
      BY <1>2, <2>1, <3>1
  <2> QED
    BY <2>3, <2>4
<1>8. CASE Idle \/ Opening \/ Breaking
  BY <1>a, <1>3, <1>8 DEF Idle, Opening, Breaking, SameStreams
<1>9. CASE Producing
  BY <1>a, <1>4, <1>9 DEF Producing
<1>10. CASE Keeping \/ Writing
  BY <1>a, <1>5, <1>10 DEF Keeping, Writing
<1>11. CASE Refusing \/ Greeting
  <2>1. PICK e \in Endpoints, m \in Message :
           /\ Binds(e, m)
           /\ Releases(e, m.sender_last_rx) \/ UNCHANGED <<sent_unacked, base_offset>>
    BY <1>11 DEF Refusing, Greeting
  <2>2. m.sender_last_rx \in Nat
    BY <2>1, MessageFields DEF Binds
  <2> QED
    BY <1>a, <1>3, <1>6, <2>1, <2>2 DEF Binds
<1>12. CASE Releasing
  BY <1>a, <1>6, <1>12, MessageFields DEF Releasing
<1>13. CASE Receiving
  BY <1>a, <1>3, <1>13 DEF Receiving, Delivers
<1>14. CASE Renewing
  BY <1>a, <1>7, <1>14 DEF Renewing
<1> QED
  BY <1>8, <1>9, <1>10, <1>11, <1>12, <1>13, <1>14 DEF Event

-----------------------------------------------------------------------------
(* Where the messages of a pipe come from.                                 *)

Holds(s, m) == \E j \in 1 .. Len(s) : s[j] = m

\* A part of a sequence holds nothing else than the sequence, and a sequence that
\* continues another holds what either does.
LEMMA HoldsParts ==
    ASSUME NEW s \in Seq(Message), NEW m
    PROVE  /\ s # <<>> /\ Holds(Tail(s), m) => Holds(s, m)
           /\ \A t \in Prefixes(s) : Holds(t, m) => Holds(s, m)
           /\ \A t \in Seq(Message) : Holds(s \o t, m) => Holds(s, m) \/ Holds(t, m)
           /\ ~Holds(<<>>, m)
<1>1. ASSUME s # <<>>, Holds(Tail(s), m) PROVE Holds(s, m)
  <2>1. /\ Len(s) \in Nat \ {0} /\ Len(Tail(s)) = Len(s) - 1
        /\ \A k \in 1 .. Len(s) - 1 : Tail(s)[k] = s[k + 1]
    BY <1>1, TailAt
  <2>2. PICK k \in 1 .. Len(Tail(s)) : Tail(s)[k] = m
    BY <1>1 DEF Holds
  <2>3. k + 1 \in 1 .. Len(s) /\ s[k + 1] = m
    BY <2>1, <2>2
  <2> QED
    BY <2>3 DEF Holds
<1>2. ASSUME NEW t \in Prefixes(s), Holds(t, m) PROVE Holds(s, m)
  <2>1. Len(t) \in Nat /\ Len(s) \in Nat /\ Len(t) <= Len(s) /\ \A k \in 1 .. Len(t) : t[k] = s[k]
    BY PrefixAt
  <2>2. PICK k \in 1 .. Len(t) : t[k] = m
    BY <1>2 DEF Holds
  <2>3. k \in 1 .. Len(s) /\ s[k] = m
    BY <2>1, <2>2
  <2> QED
    BY <2>3 DEF Holds
<1>3. ASSUME NEW t \in Seq(Message), Holds(s \o t, m) PROVE Holds(s, m) \/ Holds(t, m)
  <2>1. /\ Len(s) \in Nat /\ Len(t) \in Nat /\ Len(s \o t) = Len(s) + Len(t)
        /\ \A k \in 1 .. Len(s) : (s \o t)[k] = s[k]
        /\ \A k \in 1 .. Len(t) : (s \o t)[Len(s) + k] = t[k]
    BY ConcatAt
  <2>2. PICK k \in 1 .. Len(s \o t) : (s \o t)[k] = m
    BY <1>3 DEF Holds
  <2>3. CASE k \in 1 .. Len(s)
    BY <2>1, <2>2, <2>3 DEF Holds
  <2>4. CASE k \notin 1 .. Len(s)
    <3>1. k - Len(s) \in 1 .. Len(t) /\ Len(s) + (k - Len(s)) = k
      BY <2>1, <2>4
    <3>2. t[k - Len(s)] = m
      BY <2>1, <2>2, <3>1
    <3> QED
      BY <3>1, <3>2 DEF Holds
  <2> QED
    BY <2>3, <2>4
<1>4. ~Holds(<<>>, m)
  BY EmptyKinds DEF Holds
<1> QED
  BY <1>1, <1>2, <1>3, <1>4

\* What is new in d's pipe on b.
Fresh(d, b, m) ==
    /\ Using(d, b)'
    /\ \/ m = make_hello(d) /\ UNCHANGED streamVars
       \/ /\ m.type = "Data" /\ UNCHANGED <<id, produced>>
          /\ \E j \in 1 .. Len(sent_unacked'[d]) : m.data = sent_unacked'[d][j]
       \/ m.type = "Ack" /\ m.seq = received_seq'[d] /\ UNCHANGED <<id, remote_id>>

\* A pipe holds what it held, or what is new.
LEMMA EventOrigin ==
    ASSUME StreamInv, Event, NEW d \in Endpoints, NEW b \in Conns, NEW m, Holds(pipe'[d][b], m)
    PROVE  Holds(pipe[d][b], m) \/ Fresh(d, b, m)
<1>t. TypeOK
  BY DEF StreamInv
<1>0. TypeOK /\ WindowNumbered /\ pipe[d][b] \in Seq(Message)
  BY PipeType DEF StreamInv
<1>a. \A t \in Seq(Message) : Holds(pipe[d][b] \o t, m) => Holds(pipe[d][b], m) \/ Holds(t, m)
  BY <1>0, HoldsParts
<1>b. \A x \in Message : Holds(<<x>>, m) => m = x
  BY OneMessage DEF Holds
<1>1. CASE Quiet
  BY <1>1 DEF Quiet
<1>2. ASSUME NEW e \in Endpoints, NEW cs, Leaves(e, cs) PROVE Holds(pipe[d][b], m)
  <2>0. Close(e, cs)
    BY <1>2 DEF Leaves
  <2>1. /\ pipe'[d][b] = IF d = Peer(e) /\ b \in cs THEN <<>> ELSE pipe[d][b]
        /\ closed'[b] = IF b \in cs THEN closed[b] \cup {e} ELSE closed[b]
    BY <1>t, <2>0, PeerProperties DEF TypeOK, Close
  <2>2. pipe'[d][b] = <<>> \/ pipe'[d][b] = pipe[d][b]
    BY <2>1
  <2> QED
    BY <1>0, <2>2, HoldsParts
<1>3. CASE Opening
  <2>0. make_hello(d) \in Message /\ <<make_hello(d)>> \in Seq(Message) /\ UNCHANGED streamVars
    BY <1>0, <1>3, HelloMessage DEF Opening, SameStreams
  <2>1. \/ pipe'[d][b] = <<>> \/ pipe'[d][b] = pipe[d][b]
        \/ pipe'[d][b] = pipe[d][b] \o <<make_hello(d)>> /\ Using(d, b)'
    <3>1. ASSUME NEW c \in Conns, Makes(c)
          PROVE  \/ pipe'[d][b] = pipe[d][b]
                 \/ pipe'[d][b] = pipe[d][b] \o <<make_hello(d)>> /\ Using(d, b)'
      <4>1. "client" \in Endpoints
        BY DEF Endpoints
      <4>2. Send("client", c, <<make_hello("client")>>)
        BY <3>1 DEF Makes
      <4>3. pipe'[d][b] = IF d = "client" /\ b = c /\ ~Dead("client", c)
                          THEN pipe["client"][c] \o <<make_hello("client")>> ELSE pipe[d][b]
        BY <1>0, <4>1, <4>2, SendPipe
      <4>4. Using("client", c)'
        BY <3>1 DEF Makes
      <4>5. CASE d = "client" /\ b = c /\ ~Dead("client", c)
        BY <4>3, <4>4, <4>5
      <4>6. CASE ~(d = "client" /\ b = c /\ ~Dead("client", c))
        BY <4>3, <4>6
      <4> QED
        BY <4>5, <4>6
    <3>2. ASSUME NEW c \in Conns, NEW cs \in SUBSET Conns, Takes(c, cs)
          PROVE  \/ pipe'[d][b] = <<>> \/ pipe'[d][b] = pipe[d][b]
                 \/ pipe'[d][b] = pipe[d][b] \o <<make_hello(d)>> /\ Using(d, b)'
      <4>0. /\ d = "client" => pipe'[d][b] = IF b \in cs THEN <<>> ELSE pipe[d][b]
            /\ d = "server" /\ b = c => pipe'[d][b] = Sent("server", c, <<make_hello("server")>>)
            /\ d = "server" /\ b # c => pipe'[d][b] = pipe[d][b]
            /\ closed'[b] = IF b \in cs THEN closed[b] \cup {"server"} ELSE closed[b]
        BY <1>t, <3>2, TakesPipe
      <4>1. /\ d = "client" => pipe'[d][b] = <<>> \/ pipe'[d][b] = pipe[d][b]
            /\ d = "server" /\ b = c => pipe'[d][b] = Sent("server", c, <<make_hello("server")>>)
            /\ d = "server" /\ b # c => pipe'[d][b] = pipe[d][b]
        BY <4>0
      <4>2. Using("server", c)'
        BY <3>2 DEF Takes
      <4>3. CASE d = "server" /\ b = c
        <5>1. pipe'[d][b] = pipe[d][b] \/ pipe'[d][b] = pipe[d][b] \o <<make_hello(d)>>
          BY <4>1, <4>3 DEF Sent
        <5> QED
          BY <4>2, <4>3, <5>1
      <4>4. CASE ~(d = "server" /\ b = c)
        BY <4>1, <4>4 DEF Endpoints
      <4> QED
        BY <4>3, <4>4
    <3> QED
      BY <1>3, <3>1, <3>2 DEF Opening
  <2>2. CASE pipe'[d][b] = <<>> \/ pipe'[d][b] = pipe[d][b]
    BY <1>0, <2>2, HoldsParts
  <2>3. CASE pipe'[d][b] = pipe[d][b] \o <<make_hello(d)>> /\ Using(d, b)'
    <3>1. Holds(pipe[d][b], m) \/ Holds(<<make_hello(d)>>, m)
      BY <1>a, <2>0, <2>3
    <3> QED
      BY <1>b, <2>0, <2>3, <3>1 DEF Fresh
  <2> QED
    BY <2>1, <2>2, <2>3
<1>4. CASE Breaking
  <2>1. pipe'[d][b] \in Prefixes(pipe[d][b]) \/ pipe'[d][b] = pipe[d][b]
    BY <1>4 DEF Breaking, Loses
  <2> QED
    BY <1>0, <2>1, HoldsParts
<1>5. CASE Writing
  <2>1. PICK e \in Endpoints, c \in Conns : Enqueues(e) /\ Writes(e, c, Head(app_queue[e]))
    BY <1>5 DEF Writing
  <2> DEFINE p == Head(app_queue[e])
  <2>2. /\ p \in Payload /\ Send(e, c, <<Data(p)>>) /\ Started(e, c) /\ Using(e, c) /\ Using(e, c)'
    BY <2>1 DEF Writes, Using, Started, InStream, SameEnd
  <2>3. sent_unacked[e] \in Seq(Payload) /\ Len(sent_unacked[e]) \in Nat
    BY <1>0, StreamTypes
  <2>4. sent_unacked'[e] = Append(sent_unacked[e], p) /\ UNCHANGED <<id, produced>>
    BY <1>0, <2>1 DEF Enqueues, TypeOK
  <2>5. /\ Len(sent_unacked'[e]) = Len(sent_unacked[e]) + 1
        /\ sent_unacked'[e][Len(sent_unacked[e]) + 1] = p
    BY <2>2, <2>3, <2>4, AppendProperties
  <2>6. \E j \in 1 .. Len(sent_unacked'[e]) : p = sent_unacked'[e][j]
    BY <2>3, <2>5
  <2>7. pipe'[d][b] = IF d = e /\ b = c /\ ~Dead(e, c) THEN pipe[e][c] \o <<Data(p)>> ELSE pipe[d][b]
    BY <1>0, <2>2, SendPipe
  <2>8. Data(p) \in Message /\ <<Data(p)>> \in Seq(Message) /\ Data(p).type = "Data" /\ Data(p).data = p
    BY <2>2, MessageConstructors, OneMessage DEF Data
  <2> HIDE DEF p
  <2>9. CASE d = e /\ b = c /\ ~Dead(e, c)
    <3>1. Holds(pipe[d][b], m) \/ Holds(<<Data(p)>>, m)
      BY <1>a, <2>7, <2>8, <2>9
    <3>2. Holds(<<Data(p)>>, m) => m = Data(p)
      BY <1>b, <2>8
    <3> QED
      BY <2>2, <2>4, <2>6, <2>8, <2>9, <3>1, <3>2 DEF Fresh
  <2>10. CASE ~(d = e /\ b = c /\ ~Dead(e, c))
    BY <2>7, <2>10
  <2> QED
    BY <2>9, <2>10
\* Reading: what the answer holds is new.
<1>6. ASSUME NEW e \in Endpoints, NEW c \in Conns, NEW x, NEW ms \in Seq(Message), Reads(e, c, x, ms)
      PROVE  Holds(pipe[d][b], m) \/ (d = e /\ b = c /\ Holds(ms, m))
  <2>1. /\ d = Peer(e) /\ b = c => pipe'[d][b] = Tail(pipe[d][b]) /\ pipe[d][b] # <<>>
        /\ d = e /\ b = c => pipe'[d][b] = IF Dead(e, c) THEN pipe[d][b] ELSE pipe[d][b] \o ms
        /\ b # c => pipe'[d][b] = pipe[d][b]
    BY <1>0, <1>6, AnswerPipe DEF Reads
  <2>2. CASE d = Peer(e) /\ b = c
    BY <1>0, <2>1, <2>2, HoldsParts
  <2>3. CASE d = e /\ b = c
    BY <1>a, <1>6, <2>1, <2>3
  <2>4. d = e \/ d = Peer(e)
    BY DEF Endpoints, Peer
  <2> QED
    BY <2>1, <2>2, <2>3, <2>4
<1>7. CASE Greeting
  <2>1. PICK e \in Endpoints, c \in Conns, x \in Message :
           /\ Greeted(e, c, x) /\ Binds(e, x) /\ Releases(e, x.sender_last_rx)
           /\ Reads(e, c, x, resend(unacked_after(e, x.sender_last_rx)))
    BY <1>7 DEF Greeting
  <2>2. x.sender_last_rx \in Nat
    BY <2>1, MessageFields DEF Binds
  <2>3. PICK u \in Seq(Payload) : u = unacked_after(e, x.sender_last_rx) /\ u = sent_unacked'[e]
    BY <1>0, <2>1, <2>2, ReleasesWindow
  <2>4. PICK r \in Seq(Message) : r = resend(u) /\ Len(r) = Len(u)
    BY ResendType
  <2>5. Holds(pipe[d][b], m) \/ (d = e /\ b = c /\ Holds(r, m))
    BY <1>6, <2>1, <2>3, <2>4
  <2>6. ASSUME Holds(r, m) PROVE m.type = "Data" /\ \E j \in 1 .. Len(u) : m.data = u[j]
    <3>1. PICK j \in 1 .. Len(u) : r[j] = m
      BY <2>4, <2>6 DEF Holds
    <3>2. m = Data(u[j])
      BY <2>4, <3>1 DEF resend
    <3> QED
      BY <3>2 DEF Data
  <2>7. Using(e, c)' /\ UNCHANGED <<id, produced>>
    BY <2>1 DEF Reads, Binds
  <2> QED
    BY <2>3, <2>5, <2>6, <2>7 DEF Fresh
<1>8. CASE Releasing
  <2>1. PICK e \in Endpoints, c \in Conns, x \in Message : Reads(e, c, x, <<>>)
    BY <1>8 DEF Releasing
  <2>2. <<>> \in Seq(Message)
    BY EmptySeq
  <2> QED
    BY <1>0, <1>6, <2>1, <2>2, HoldsParts
<1>9. CASE Receiving
  <2>1. PICK e \in Endpoints, c \in Conns, x \in Message :
           x.type = "Data" /\ Reads(e, c, x, <<Ack(received_seq[e] + 1)>>) /\ Delivers(e, x.data)
    BY <1>9 DEF Receiving
  <2>2. received_seq[e] \in Nat /\ received_seq[e] + 1 \in Nat
    BY <1>0, StreamTypes
  <2>3. /\ Ack(received_seq[e] + 1) \in Message /\ <<Ack(received_seq[e] + 1)>> \in Seq(Message)
        /\ Ack(received_seq[e] + 1).type = "Ack" /\ Ack(received_seq[e] + 1).seq = received_seq[e] + 1
    BY <2>2, MessageConstructors, OneMessage DEF Ack
  <2>4. Holds(pipe[d][b], m) \/ (d = e /\ b = c /\ Holds(<<Ack(received_seq[e] + 1)>>, m))
    BY <1>6, <2>1, <2>3
  <2>5. Holds(<<Ack(received_seq[e] + 1)>>, m) => m = Ack(received_seq[e] + 1)
    BY <1>b, <2>3
  <2>6. received_seq'[e] = received_seq[e] + 1 /\ UNCHANGED <<id, remote_id>>
    BY <1>0, <2>1 DEF Delivers, TypeOK
  <2>7. Using(e, c)'
    BY <2>1 DEF Reads
  <2> QED
    BY <2>3, <2>4, <2>5, <2>6, <2>7 DEF Fresh
<1>10. CASE Idle \/ Producing \/ Keeping \/ Refusing \/ Renewing
  BY <1>1, <1>2, <1>10 DEF Idle, Producing, Keeping, Refusing, Renewing
<1> QED
  BY <1>3, <1>4, <1>5, <1>7, <1>8, <1>9, <1>10 DEF Event

-----------------------------------------------------------------------------
(* Who goes on, who begins.                                                *)

\* Who uses a connection after an event is who it was.
LEMMA UsingFurther ==
    ASSUME StreamInv, Event, NEW e \in Endpoints, NEW c \in Conns, Using(e, c)'
    PROVE  Further(e)
<1>0. TypeOK /\ WindowNumbered /\ EndsOwned /\ IdsInOrder
  BY DEF StreamInv, ConnInv
<1>1. Further(e) \/ (Renewed(e) /\ Renewing)
  BY <1>0, EventProgress
<1>2. ASSUME NEW d \in Endpoints, Renews(d), Leaves(d, 1 .. nconns) PROVE Further(e)
  <2>1. CASE d = e
    <3>1. c \in 1 .. nconns => ~Using(e, c)'
      BY <1>2, <2>1 DEF Leaves
    <3>2. c \notin 1 .. nconns => (Using(e, c)' <=> Using(e, c))
      BY <1>2, <2>1 DEF Leaves, SameEnd
    <3>3. c \in Nat \ {0} /\ nconns \in Nat
      BY <1>0 DEF TypeOK, Conns
    <3>4. c \notin 1 .. nconns => ~(c <= nconns)
      BY <3>3
    <3>5. c \notin 1 .. nconns => ~Using(e, c)
      BY <1>0, <3>4 DEF EndsOwned
    <3> QED
      BY <3>1, <3>2, <3>5
  <2>2. CASE d # e
    <3>1. id'[e] = id[e] /\ nids' = nids + 1
      BY <1>0, <1>2, <2>2 DEF Renews, TypeOK
    <3>2. id[e] <= nids /\ nids \in Nat /\ id[e] \in Nat
      BY <1>0, StreamTypes DEF IdsInOrder
    <3>3. id'[e] # nids'
      BY <3>1, <3>2
    <3> QED
      BY <1>1, <3>3 DEF Renewed
  <2> QED
    BY <2>1, <2>2
<1> QED
  BY <1>1, <1>2 DEF Renewing

\* Who begins to use a connection finds nothing on it but a hello, and changes
\* nothing else.
LEMMA NewUse ==
    ASSUME StreamInv, Event, NEW e \in Endpoints, NEW c \in Conns, Using(e, c)', ~Using(e, c)
    PROVE  /\ SameStreams /\ ~Started(e, c)' /\ ~Started(Peer(e), c)'
           /\ pipe[e][c] = <<>>
           /\ Kinds(pipe'[Peer(e)][c], {"Hello"})
<1>0. TypeOK /\ EndsOwned /\ HelloOnly
  BY DEF StreamInv, ConnInv
<1>p. Peer("client") = "server" /\ Peer("server") = "client" /\ "client" \in Endpoints /\ "server" \in Endpoints
  BY DEF Peer, Endpoints
<1>1. ~(Quiet \/ \E d \in Endpoints, b \in Conns : Writes(d, b, Head(app_queue[d])))
  BY DEF Quiet, Writes, SameEnd
<1>2. ~(\E b \in Conns : Loses(b))
  BY DEF Loses, SameEnd
<1>3. ASSUME NEW d \in Endpoints, NEW cs, Leaves(d, cs) PROVE FALSE
  BY <1>3 DEF Leaves, SameEnd
<1>4. ASSUME NEW d \in Endpoints, NEW b \in Conns, NEW m, NEW ms, Reads(d, b, m, ms) PROVE FALSE
  BY <1>4 DEF Reads, SameEnd
<1>5. Opening
  BY <1>1, <1>2, <1>3, <1>4
     DEF Event, Idle, Breaking, Producing, Keeping, Writing, Renewing, Refusing, Greeting,
         Releasing, Receiving
<1>6. ASSUME NEW b \in Conns, Makes(b)
      PROVE  /\ ~Started(e, c)' /\ ~Started(Peer(e), c)' /\ pipe[e][c] = <<>>
             /\ Kinds(pipe'[Peer(e)][c], {"Hello"})
  <2>1. e = "client" /\ c = b
    <3>1. c = b
      BY <1>6 DEF Makes, SameEnd
    <3> QED
      BY <1>6, <3>1 DEF Makes, Endpoints
  <2>2. ~Started("client", b)' /\ ~Started("server", b)' /\ Send("client", b, <<make_hello("client")>>)
    BY <1>6 DEF Makes
  <2>3. b > nconns
    <3>1. b = nconns + 1 /\ nconns \in Nat
      BY <1>0, <1>6 DEF Makes, TypeOK
    <3> QED
      BY <3>1
  <2>4. pipe["client"][b] = <<>> /\ pipe["server"][b] = <<>>
    BY <1>0, <1>p, <2>3 DEF EndsOwned
  <2>5. pipe'["server"][b] = <<>>
    BY <1>0, <1>p, <2>2, <2>4 DEF Send, TypeOK
  <2> QED
    BY <1>p, <2>1, <2>2, <2>4, <2>5, EmptyKinds
<1>7. ASSUME NEW b \in Conns, NEW cs \in SUBSET Conns, Takes(b, cs)
      PROVE  /\ ~Started(e, c)' /\ ~Started(Peer(e), c)' /\ pipe[e][c] = <<>>
             /\ Kinds(pipe'[Peer(e)][c], {"Hello"})
  <2>1. e = "server" /\ c = b
    <3>1. ~(~(e = "server" /\ c \in cs \cup {b}))
      BY <1>7 DEF Takes, SameEnd
    <3>2. c \in cs => ~Using("server", c)'
      BY <1>7 DEF Takes
    <3> QED
      BY <3>1, <3>2
  <2>2. /\ ~Started("server", b)' /\ Pending("server", b) /\ b \notin cs
        /\ Started("client", b)' <=> Started("client", b)
    BY <1>7, <1>p DEF Takes, SameEnd
  <2>3. pipe["server"][b] = <<>> /\ ~Started("client", b) /\ Kinds(pipe["client"][b], {"Hello"})
    BY <1>0, <1>p, <2>2 DEF HelloOnly
  <2>4. pipe'["client"][b] = pipe["client"][b]
    BY <1>p, <1>7, <2>2 DEF Takes
  <2> QED
    BY <1>p, <2>1, <2>2, <2>3, <2>4
<1> QED
  BY <1>5, <1>6, <1>7 DEF Opening

\* Who begins to run a connection has read its hello.
LEMMA NewStart ==
    ASSUME StreamInv, Event, NEW e \in Endpoints, NEW c \in Conns, Started(e, c)', ~Started(e, c)
    PROVE  \E m \in Message :
              /\ Greeted(e, c, m) /\ Binds(e, m) /\ Releases(e, m.sender_last_rx)
              /\ Reads(e, c, m, resend(unacked_after(e, m.sender_last_rx)))
<1>1. ~(Quiet \/ \E d \in Endpoints, b \in Conns : Writes(d, b, Head(app_queue[d])))
  BY DEF Quiet, Writes, SameEnd
<1>2. ~(\E b \in Conns : Loses(b))
  BY DEF Loses, SameEnd
<1>3. ASSUME NEW d \in Endpoints, NEW cs, Leaves(d, cs) PROVE FALSE
  BY <1>3 DEF Leaves, SameEnd
<1>4. ASSUME NEW d \in Endpoints, NEW b \in Conns, NEW m, NEW ms, Reads(d, b, m, ms)
      PROVE  d = e /\ b = c /\ m.type = "Hello"
  <2>1. d = e /\ b = c
    BY <1>4 DEF Reads, SameEnd
  <2> QED
    BY <1>4, <2>1 DEF Reads
<1>5. ASSUME Opening PROVE FALSE
  <2>1. ASSUME NEW b \in Conns, Makes(b) PROVE FALSE
    <3>1. c = b
      BY <2>1 DEF Makes, SameEnd
    <3> QED
      BY <2>1, <3>1 DEF Makes, Endpoints
  <2>2. ASSUME NEW b \in Conns, NEW cs \in SUBSET Conns, Takes(b, cs) PROVE FALSE
    <3>1. e = "server" /\ c \in cs \cup {b}
      BY <2>2 DEF Takes, SameEnd
    <3> QED
      BY <2>2, <3>1 DEF Takes
  <2> QED
    BY <1>5, <2>1, <2>2 DEF Opening
<1>6. ~(Releasing \/ Receiving)
  BY <1>4 DEF Releasing, Receiving
<1>7. Greeting
  BY <1>1, <1>2, <1>3, <1>5, <1>6
     DEF Event, Idle, Breaking, Producing, Keeping, Writing, Renewing, Refusing
<1>8. PICK d \in Endpoints, b \in Conns, m \in Message :
         /\ Greeted(d, b, m) /\ Binds(d, m) /\ Releases(d, m.sender_last_rx)
         /\ Reads(d, b, m, resend(unacked_after(d, m.sender_last_rx)))
  BY <1>7 DEF Greeting
<1>9. d = e /\ b = c
  BY <1>4, <1>8
<1> QED
  BY <1>8, <1>9

\* What e knows of its peer, and the beginning of its window, change when e is
\* replaced, when it reads a hello and when it reads an acknowledgement.
GreetedBy(e, c, m) ==
    /\ Greeted(e, c, m)
    /\ remote_id[e] \in {NoId, m.sender_id} /\ remote_id'[e] = m.sender_id
    /\ base_offset'[e] \in {m.sender_last_rx, base_offset[e]}
    /\ UNCHANGED <<produced, delivered, id, received_seq>>
    /\ Leaves(e, {c}) \/ Started(e, c)'
AckedBy(e, c, m) ==
    /\ Started(e, c) /\ pipe[Peer(e)][c] # <<>> /\ m = pipe[Peer(e)][c][1] /\ m.type = "Ack"
    /\ remote_id'[e] = remote_id[e] /\ base_offset'[e] = m.seq
    /\ UNCHANGED <<id, received_seq>>

\* An endpoint learns its peer from a hello, and its window moves with one or an Ack.
LEMMA EventBinding ==
    ASSUME StreamInv, Event, NEW e \in Endpoints
    PROVE  \/ remote_id'[e] = remote_id[e] /\ base_offset'[e] = base_offset[e]
           \/ Renewed(e) /\ Renewing
           \/ \E c \in Conns, m \in Message : GreetedBy(e, c, m) \/ AckedBy(e, c, m)
<1> USE DEF streamVars
<1>0. TypeOK
  BY DEF StreamInv
<1>w. WindowNumbered
  BY DEF StreamInv
<1>1. CASE Idle \/ Opening \/ Breaking
  BY <1>1 DEF Idle, Opening, Breaking, SameStreams
<1>2. CASE Producing
  BY <1>2 DEF Producing, Produces
<1>3. CASE Keeping \/ Writing
  BY <1>3 DEF Keeping, Writing, Enqueues
<1>4. CASE Receiving
  BY <1>4 DEF Receiving, Delivers
<1>5. CASE Renewing
  <2>1. PICK d \in Endpoints : Renews(d)
    BY <1>5 DEF Renewing
  <2>2. d # e => remote_id'[e] = remote_id[e] /\ base_offset'[e] = base_offset[e]
    BY <1>0, <2>1 DEF Renews, TypeOK
  <2>3. d = e => Renewed(e)
    BY <1>0, <2>1 DEF Renews, Renewed, TypeOK
  <2> QED
    BY <1>5, <2>2, <2>3
<1>6. ASSUME NEW d \in Endpoints, NEW seq \in Nat, Releases(d, seq)
      PROVE  /\ base_offset'[d] = seq
             /\ d # e => base_offset'[e] = base_offset[e]
  BY <1>0, <1>w, <1>6, ReleasesWindow
<1>7. CASE Refusing \/ Greeting
  <2>1. PICK d \in Endpoints, c \in Conns, m \in Message :
           /\ Greeted(d, c, m) /\ Binds(d, m)
           /\ Releases(d, m.sender_last_rx) \/ UNCHANGED <<sent_unacked, base_offset>>
           /\ Leaves(d, {c}) \/ Started(d, c)'
    BY <1>7 DEF Refusing, Greeting, Reads
  <2>2. m.sender_last_rx \in Nat
    BY <2>1, MessageFields DEF Greeted
  <2>3. base_offset'[d] \in {m.sender_last_rx, base_offset[d]}
    BY <1>6, <2>1, <2>2
  <2>4. d # e => remote_id'[e] = remote_id[e] /\ base_offset'[e] = base_offset[e]
    BY <1>0, <1>6, <2>1, <2>2 DEF Binds, TypeOK
  <2>5. remote_id[d] \in {NoId, m.sender_id} /\ remote_id'[d] = m.sender_id
        /\ UNCHANGED <<produced, delivered, id, received_seq>>
    BY <1>0, <2>1 DEF Binds, known_sender, TypeOK
  <2>6. GreetedBy(d, c, m)
    BY <2>1, <2>3, <2>5 DEF GreetedBy
  <2> QED
    BY <2>4, <2>6
<1>8. CASE Releasing
  <2>1. PICK d \in Endpoints, c \in Conns, m \in Message :
           m.type = "Ack" /\ Reads(d, c, m, <<>>) /\ Releases(d, m.seq) /\ UNCHANGED remote_id
    BY <1>8 DEF Releasing
  <2>2. m.seq \in Nat
    BY <2>1, MessageFields
  <2>3. base_offset'[d] = m.seq /\ (d # e => base_offset'[e] = base_offset[e])
    BY <1>6, <2>1, <2>2
  <2>4. AckedBy(d, c, m)
    BY <2>1, <2>3 DEF AckedBy, Reads, Releases
  <2> QED
    BY <2>1, <2>3, <2>4
<1> QED
  BY <1>1, <1>2, <1>3, <1>4, <1>5, <1>7, <1>8 DEF Event

-----------------------------------------------------------------------------
(* IdsInOrder is kept.                                                     *)

\* Every event keeps the incarnations in order.
LEMMA IdsStep == ASSUME StreamInv, Event PROVE IdsInOrder'
<1>0. TypeOK /\ WindowNumbered /\ IdsInOrder
  BY DEF StreamInv
<1>p. /\ Peer("client") = "server" /\ Peer("server") = "client"
      /\ "client" \in Endpoints /\ "server" \in Endpoints /\ "client" # "server"
  BY DEF Peer, Endpoints
<1>q. \A e \in Endpoints : Peer(e) \in Endpoints /\ Peer(e) # e
  BY PeerProperties
<1>1. /\ nids \in Nat /\ nids' \in Nat /\ nids <= nids'
      /\ ~Renewing => nids' = nids /\ id' = id
      /\ \A e \in Endpoints : Further(e) \/ (Renewed(e) /\ Renewing)
  BY <1>0, <1>p, EventProgress, StreamTypes
<1>2. \A e \in Endpoints : id[e] \in Nat /\ id[e] <= nids /\ remote_id[e] \in Nat /\ remote_id[e] <= nids
                           /\ remote_id[e] # id[e] /\ id[e] # id[Peer(e)]
  <2>1. \A e \in Endpoints : id[e] # id[Peer(e)]
    BY <1>0, <1>p DEF IdsInOrder, Endpoints
  <2> QED
    BY <1>0, <2>1, StreamTypes DEF IdsInOrder
\* The newer of two is another one.
<1>3. \A e \in Endpoints : id'[e] = id[e] \/ (id'[e] = nids + 1 /\ nids' = nids + 1)
  BY <1>1 DEF Further, Renewed
<1>4. ASSUME NEW e \in Endpoints, Renewed(e), Renewing PROVE id'[Peer(e)] = id[Peer(e)]
  <2>1. PICK d \in Endpoints : Renews(d)
    BY <1>4 DEF Renewing
  <2>2. d = e
    <3>1. d # e => id'[e] = id[e]
      BY <1>0, <2>1 DEF Renews, TypeOK
    <3>2. id'[e] = nids + 1
      BY <1>4 DEF Renewed
    <3> QED
      BY <1>1, <1>2, <3>1, <3>2
  <2> QED
    BY <1>0, <1>q, <2>1, <2>2 DEF Renews, TypeOK
<1>5. ASSUME NEW e \in Endpoints
      PROVE  id'[e] # id'[Peer(e)] /\ id'[e] \in Nat /\ id'[e] <= nids' /\ id[e] <= id'[e]
  <2>1. Peer(e) \in Endpoints /\ Peer(Peer(e)) = e
    BY PeerProperties
  <2>2. CASE Further(e) /\ Further(Peer(e))
    BY <1>1, <1>2, <2>2 DEF Further
  <2>3. CASE Renewed(e) /\ Renewing
    <3>1. id'[e] = nids + 1 /\ nids' = nids + 1 /\ id'[Peer(e)] = id[Peer(e)]
      BY <1>4, <2>3 DEF Renewed
    <3> QED
      BY <1>1, <1>2, <2>1, <3>1
  <2>4. CASE Renewed(Peer(e)) /\ Renewing
    <3>1. id'[Peer(e)] = nids + 1 /\ nids' = nids + 1 /\ id'[e] = id[e]
      BY <1>4, <2>1, <2>4 DEF Renewed
    <3> QED
      BY <1>1, <1>2, <2>1, <3>1
  <2> QED
    BY <1>1, <2>1, <2>2, <2>3, <2>4
<1>6. ASSUME NEW e \in Endpoints
      PROVE  /\ remote_id'[e] \in Nat /\ remote_id'[e] <= nids' /\ remote_id'[e] # id'[e]
             /\ \A c \in Conns : Started(e, c)' => remote_id'[e] # NoId
  <2>1. CASE Renewed(e) /\ Renewing
    <3>1. remote_id'[e] = NoId /\ id'[e] = nids + 1
      BY <2>1 DEF Renewed
    <3>2. \A c \in Conns : ~Using(e, c)'
      <4>1. SUFFICES ASSUME NEW c \in Conns, Using(e, c)' PROVE FALSE
        OBVIOUS
      <4>2. Further(e)
        BY <4>1, UsingFurther
      <4> QED
        BY <1>1, <1>2, <3>1, <4>2 DEF Further
    <3>3. \A c \in Conns : ~Started(e, c)'
      BY <3>2 DEF Started, Using, InStream
    <3> QED
      BY <1>1, <1>2, <3>1, <3>3 DEF NoId
  <2>2. ASSUME NEW c \in Conns, NEW m \in Message, GreetedBy(e, c, m)
        PROVE  remote_id'[e] \in Nat /\ remote_id'[e] <= nids' /\ remote_id'[e] # id'[e] /\ remote_id'[e] # NoId
    <3>1. m.type = "Hello" /\ pipe[Peer(e)][c] # <<>> /\ m = pipe[Peer(e)][c][1]
      BY <2>2 DEF GreetedBy, Greeted
    <3>2. m.sender_id \in Ids /\ m.sender_id \in Nat \ {0}
      BY <3>1, MessageFields, BoundAssumption DEF Ids
    <3>3. 1 \in 1 .. Len(pipe[Peer(e)][c])
      BY <1>0, <1>q, <3>1, PipeType
    <3>4. m.sender_id <= id[Peer(e)] /\ m.sender_id # id[e]
      <4>1. Peer(Peer(e)) = e
        BY PeerProperties
      <4> QED
        BY <1>0, <1>q, <3>1, <3>3, <4>1 DEF IdsInOrder
    <3>5. remote_id'[e] = m.sender_id /\ id' = id
      BY <2>2 DEF GreetedBy
    <3> QED
      BY <1>1, <1>2, <1>q, <3>2, <3>4, <3>5 DEF NoId
  <2>3. CASE remote_id'[e] = remote_id[e] /\ ~(\E c \in Conns, m \in Message : GreetedBy(e, c, m))
    <3>1. \A c \in Conns : Started(e, c)' => Started(e, c)
      <4>1. SUFFICES ASSUME NEW c \in Conns, Started(e, c)', ~Started(e, c) PROVE FALSE
        OBVIOUS
      <4>2. PICK m \in Message : Greeted(e, c, m) /\ Binds(e, m) /\ Releases(e, m.sender_last_rx)
        BY <4>1, NewStart
      <4>3. m.sender_last_rx \in Nat
        BY <4>2, MessageFields DEF Greeted
      <4>4. base_offset'[e] = m.sender_last_rx
        BY <1>0, <4>2, <4>3, ReleasesWindow
      <4>5. remote_id[e] \in {NoId, m.sender_id} /\ remote_id'[e] = m.sender_id
            /\ UNCHANGED <<produced, delivered, id, received_seq>>
        BY <1>0, <4>2 DEF Binds, known_sender, TypeOK
      <4>6. GreetedBy(e, c, m)
        BY <4>1, <4>2, <4>4, <4>5 DEF GreetedBy
      <4> QED
        BY <2>3, <4>6
    <3>2. remote_id[e] # id'[e]
      BY <1>1, <1>2, <1>3
    <3> QED
      BY <1>0, <1>1, <1>2, <2>3, <3>1, <3>2 DEF IdsInOrder
  <2>4. \/ remote_id'[e] = remote_id[e]
        \/ Renewed(e) /\ Renewing
        \/ \E c \in Conns, m \in Message : GreetedBy(e, c, m)
    BY EventBinding DEF AckedBy
  <2> QED
    BY <2>1, <2>2, <2>3, <2>4
<1>7. ASSUME NEW i \in Ids, i > nids' PROVE produced'[i] = 0 /\ delivered'[i] = <<>>
  <2>1. i > nids /\ i \in Nat
    BY <1>1, <1>7, BoundAssumption DEF Ids
  <2>2. produced[i] = 0 /\ delivered[i] = <<>>
    BY <1>0, <2>1 DEF IdsInOrder
  <2>3. \A e \in Endpoints : id[e] # i
    BY <1>1, <1>2, <2>1
  <2>4. ASSUME NEW e \in Endpoints, Produces(e) PROVE produced'[i] = produced[i] /\ delivered' = delivered
    BY <1>0, <2>3, <2>4 DEF Produces, TypeOK
  <2>5. ASSUME NEW e \in Endpoints, NEW p, Delivers(e, p) PROVE produced' = produced /\ delivered'[i] = delivered[i]
    BY <1>0, <2>3, <2>5 DEF Delivers, TypeOK
  <2>6. produced'[i] = produced[i] /\ delivered'[i] = delivered[i]
    BY <2>4, <2>5
       DEF Event, Idle, Opening, Breaking, Producing, Keeping, Writing, Renewing, Refusing, Greeting,
           Releasing, Receiving, SameStreams, Enqueues, Renews, Binds, Releases
  <2> QED
    BY <2>2, <2>6
<1>8. ASSUME NEW e \in Endpoints, NEW c \in Conns, NEW k \in 1 .. Len(pipe'[e][c]),
             pipe'[e][c][k].type = "Hello"
      PROVE  pipe'[e][c][k].sender_id <= id'[e] /\ pipe'[e][c][k].sender_id # id'[Peer(e)]
  <2> DEFINE m == pipe'[e][c][k]
  <2>1. Holds(pipe'[e][c], m)
    BY DEF Holds
  <2>2. m.type = "Hello"
    BY <1>8
  <2> HIDE DEF m
  <2>3. Holds(pipe[e][c], m) \/ Fresh(e, c, m)
    BY <2>1, EventOrigin
  <2>4. CASE Holds(pipe[e][c], m)
    <3>1. PICK j \in 1 .. Len(pipe[e][c]) : pipe[e][c][j] = m
      BY <2>4 DEF Holds
    <3>2. m.sender_id <= id[e] /\ m.sender_id # id[Peer(e)]
      BY <1>0, <2>2, <3>1 DEF IdsInOrder
    <3>3. m \in Message
      BY <1>0, <3>1, PipeType, ElementOfSeq
    <3>4. m.sender_id \in Nat
      BY <2>2, <3>3, MessageFields, BoundAssumption DEF Ids
    <3>5. m.sender_id <= nids
      BY <1>1, <1>2, <3>2, <3>4
    <3>6. m.sender_id # id'[Peer(e)]
      BY <1>1, <1>3, <1>q, <3>2, <3>4, <3>5
    <3>7. m.sender_id <= id'[e]
      BY <1>2, <1>5, <3>2, <3>4
    <3> QED
      BY <3>6, <3>7 DEF m
  <2>5. CASE Fresh(e, c, m)
    <3>1. m = make_hello(e) /\ id' = id
      BY <2>2, <2>5 DEF Fresh, streamVars
    <3>2. m.sender_id = id[e]
      BY <3>1 DEF make_hello, Hello
    <3>3. m.sender_id <= id'[e] /\ m.sender_id # id'[Peer(e)]
      BY <1>2, <3>1, <3>2
    <3> QED
      BY <3>3 DEF m
  <2> QED
    BY <2>3, <2>4, <2>5
<1>9. id'["client"] # id'["server"]
  BY <1>p, <1>5
<1> QED
  BY <1>5, <1>6, <1>7, <1>8, <1>9 DEF IdsInOrder

\* Nobody is bound to a new incarnation.
LEMMA BoundGoesOn ==
    ASSUME StreamInv, Event, NEW e \in Endpoints, remote_id'[e] = id'[Peer(e)]
    PROVE  Further(e) /\ Further(Peer(e))
<1>0. TypeOK /\ WindowNumbered /\ IdsInOrder
  BY DEF StreamInv
<1>q. Peer(e) \in Endpoints /\ Peer(Peer(e)) = e
  BY PeerProperties
<1>1. /\ \A d \in Endpoints : Further(d) \/ Renewed(d)
      /\ ~Renewing => nids' = nids /\ id' = id
  BY <1>0, EventProgress
<1>2. /\ nids \in Nat /\ id[e] \in Nat /\ id[e] <= nids /\ remote_id[e] \in Nat /\ remote_id[e] <= nids
      /\ id'[Peer(e)] \in Nat \ {0}
  <2>1. Peer(e) \in Endpoints /\ (id'[Peer(e)] = id[Peer(e)] \/ id'[Peer(e)] = nids + 1)
    BY <1>1, <1>q DEF Further, Renewed
  <2> QED
    BY <1>0, <1>q, <2>1, StreamTypes DEF IdsInOrder
<1>3. Further(e)
  <2>1. Renewed(e) => remote_id'[e] = 0
    BY DEF Renewed, NoId
  <2> QED
    BY <1>1, <1>2, <2>1
<1>4. ASSUME Renewed(Peer(e)) PROVE FALSE
  <2>1. id'[Peer(e)] = nids + 1
    BY <1>4 DEF Renewed
  <2>2. remote_id'[e] = remote_id[e] => FALSE
    BY <1>2, <2>1
  <2>3. Renewed(e) => FALSE
    BY <1>2 DEF Renewed, NoId
  <2>4. ASSUME NEW c \in Conns, NEW m \in Message, GreetedBy(e, c, m) PROVE FALSE
    <3>1. id'[Peer(e)] = id[Peer(e)] /\ id[Peer(e)] <= nids /\ id[Peer(e)] \in Nat
      BY <1>0, <1>q, <2>4, StreamTypes DEF GreetedBy, IdsInOrder
    <3> QED
      BY <1>2, <2>1, <3>1
  <2> QED
    BY <2>2, <2>3, <2>4, EventBinding DEF AckedBy
<1> QED
  BY <1>1, <1>3, <1>4, <1>q

-----------------------------------------------------------------------------
(* HelloFresh is kept.                                                     *)

\* The hello of an end that goes on stays the same while the peer has not read it.
LEMMA SameHello ==
    ASSUME StreamInv, Event, NEW e \in Endpoints, NEW c \in Conns, Using(e, c), Using(e, c)',
           NEW k \in 1 .. Len(pipe[e][c]), pipe[e][c][k].type = "Hello"
    PROVE  make_hello(e)' = make_hello(e)
<1>0. TypeOK /\ EndsOwned /\ HelloFirst /\ HelloOnly
  BY DEF StreamInv, ConnInv
<1> DEFINE f == Peer(e)
<1>q. f \in Endpoints /\ f # e /\ Peer(f) = e
  BY PeerProperties
<1> HIDE DEF f
<1>1. id'[e] = id[e]
  BY UsingFurther DEF Further
<1>2. ~Started(f, c)
  BY <1>0, <1>q DEF HelloFirst
<1>3. pipe[e][c] # <<>>
  BY EmptyKinds
<1>4. Kinds(pipe[f][c], {"Hello"})
  <2>1. Using(f, c) => Kinds(pipe[f][c], {"Hello"})
    BY <1>0, <1>q, <1>2 DEF HelloOnly
  <2>2. Pending(f, c) => pipe[f][c] = <<>>
    BY <1>0, <1>q DEF HelloOnly
  <2>3. c \in Nat /\ nconns \in Nat
    BY <1>0 DEF TypeOK, Conns
  <2>4. c <= nconns /\ f \notin closed[c]
    <3>1. ~(c > nconns \/ f \in closed[c])
      BY <1>0, <1>3, <1>q DEF EndsOwned, f
    <3> QED
      BY <2>3, <3>1
  <2>5. Using(f, c) \/ Pending(f, c)
    BY <1>0, <1>q, <2>4 DEF EndsOwned
  <2> QED
    BY <2>1, <2>2, <2>5, EmptyKinds
<1>5. ASSUME NEW d \in Endpoints, NEW b \in Conns, NEW m \in Message,
             m.type = "Data", Reads(d, b, m, <<Ack(received_seq[d] + 1)>>), Delivers(d, m.data)
      PROVE  received_seq'[e] = received_seq[e]
  <2>1. CASE d = e
    <3>1. Using(e, b) /\ pipe[f][b] # <<>> /\ m = pipe[f][b][1]
      BY <1>5, <2>1 DEF Reads, f
    <3>2. b = c
      BY <3>1 DEF Using
    <3>3. 1 \in 1 .. Len(pipe[f][c])
      BY <1>0, <1>q, <3>1, <3>2, PipeType
    <3>4. m.type = "Hello"
      BY <1>4, <3>1, <3>2, <3>3 DEF Kinds
    <3> QED
      BY <1>5, <3>4
  <2>2. CASE d # e
    BY <1>0, <1>5, <2>2 DEF Delivers, TypeOK
  <2> QED
    BY <2>1, <2>2
<1>6. ASSUME NEW d \in Endpoints, Renews(d) PROVE received_seq'[e] = received_seq[e]
  <2>1. d # e
    <3>1. d = e => id'[e] = nids + 1
      BY <1>0, <1>6 DEF Renews, TypeOK
    <3>2. id[e] <= nids /\ id[e] \in Nat /\ nids \in Nat
      BY <1>0, StreamTypes DEF StreamInv, IdsInOrder
    <3> QED
      BY <1>1, <3>1, <3>2
  <2> QED
    BY <1>0, <1>6, <2>1 DEF Renews, TypeOK
<1>7. received_seq'[e] = received_seq[e]
  BY <1>5, <1>6
     DEF Event, Idle, Opening, Breaking, Producing, Keeping, Writing, Renewing, Refusing, Greeting,
         Releasing, Receiving, SameStreams, streamVars, Produces, Enqueues, Binds, Releases
<1> QED
  BY <1>1, <1>7 DEF make_hello

\* Every event keeps the hellos what their senders would say.
LEMMA HelloFreshStep == ASSUME StreamInv, Event PROVE HelloFresh'
<1>0. TypeOK /\ EndsOwned /\ HelloFirst /\ HelloFresh
  BY DEF StreamInv, ConnInv
<1> SUFFICES ASSUME NEW e \in Endpoints, NEW c \in Conns, Using(e, c)'
             PROVE  /\ \A k \in 1 .. Len(pipe'[e][c]) :
                          pipe'[e][c][k].type = "Hello" => pipe'[e][c][k] = make_hello(e)'
                    /\ Started(Peer(e), c)' => remote_id'[Peer(e)] = id'[e]
  BY DEF HelloFresh
<1>q. Peer(e) \in Endpoints /\ Peer(Peer(e)) = e
  BY PeerProperties
<1>1. Further(e)
  BY UsingFurther
<1>2. ASSUME NEW k \in 1 .. Len(pipe'[e][c]), pipe'[e][c][k].type = "Hello"
      PROVE  pipe'[e][c][k] = make_hello(e)'
  <2> DEFINE m == pipe'[e][c][k]
  <2>1. Holds(pipe'[e][c], m)
    BY DEF Holds
  <2>2. m.type = "Hello"
    BY <1>2
  <2> HIDE DEF m
  <2>3. Holds(pipe[e][c], m) \/ Fresh(e, c, m)
    BY <2>1, EventOrigin
  <2>4. CASE Holds(pipe[e][c], m)
    <3>1. PICK j \in 1 .. Len(pipe[e][c]) : pipe[e][c][j] = m
      BY <2>4 DEF Holds
    <3>2. Using(e, c)
      <4>1. pipe[e][c] # <<>>
        BY <3>1, EmptyKinds
      <4> QED
        BY <4>1, NewUse
    <3>3. m = make_hello(e)
      BY <1>0, <2>2, <3>1, <3>2 DEF HelloFresh
    <3>4. make_hello(e)' = make_hello(e)
      BY <2>2, <3>1, <3>2, SameHello
    <3> QED
      BY <3>3, <3>4 DEF m
  <2>5. CASE Fresh(e, c, m)
    <3>1. m = make_hello(e) /\ UNCHANGED streamVars
      BY <2>2, <2>5 DEF Fresh
    <3>2. make_hello(e)' = make_hello(e)
      BY <3>1 DEF make_hello, streamVars
    <3> QED
      BY <3>1, <3>2 DEF m
  <2> QED
    BY <2>3, <2>4, <2>5
<1>3. ASSUME Started(Peer(e), c)' PROVE remote_id'[Peer(e)] = id'[e]
  <2>1. Using(e, c)
    BY <1>3, NewUse
  <2>2. Using(Peer(e), c)'
    BY <1>3 DEF Started, Using, InStream
  <2>3. Further(Peer(e))
    BY <1>q, <2>2, UsingFurther
  <2>4. CASE Started(Peer(e), c)
    <3>1. remote_id[Peer(e)] = id[e]
      BY <1>0, <2>1, <2>4 DEF HelloFresh
    <3>2. id[e] # NoId
      BY <1>0, StreamTypes DEF NoId
    <3> QED
      BY <1>1, <2>3, <3>1, <3>2 DEF Further
  <2>5. CASE ~Started(Peer(e), c)
    <3>1. PICK m \in Message : Greeted(Peer(e), c, m) /\ Binds(Peer(e), m)
      BY <1>3, <1>q, <2>5, NewStart
    <3>2. pipe[e][c] # <<>> /\ m = pipe[e][c][1] /\ m.type = "Hello"
      BY <1>q, <3>1 DEF Greeted
    <3>3. 1 \in 1 .. Len(pipe[e][c])
      BY <1>0, <3>2, PipeType
    <3>4. m = make_hello(e)
      BY <1>0, <2>1, <3>2, <3>3 DEF HelloFresh
    <3>5. m.sender_id = id[e]
      BY <3>4 DEF make_hello, Hello
    <3>6. remote_id'[Peer(e)] = m.sender_id
      BY <1>0, <1>q, <3>1 DEF Binds, TypeOK
    <3> QED
      BY <1>1, <3>5, <3>6 DEF Further
  <2> QED
    BY <2>4, <2>5
<1> QED
  BY <1>2, <1>3

-----------------------------------------------------------------------------
(* Received is kept.                                                       *)

\* StreamTypes, of the next state.
LEMMA NextTypes ==
    ASSUME TypeOK', NEW e \in Endpoints
    PROVE  /\ base_offset'[e] \in Nat /\ received_seq'[e] \in Nat /\ nids' \in Nat
           /\ sent_unacked'[e] \in Seq(Payload) /\ Len(sent_unacked'[e]) \in Nat
           /\ Len(app_queue'[e]) \in Nat
           /\ Newest(e)' \in Nat /\ base_offset'[e] <= Newest(e)'
           /\ id'[e] \in Ids /\ remote_id'[e] \in Ids \cup {NoId} /\ remote_id'[e] \in Nat
           /\ \A i \in Ids : produced'[i] \in Nat
<1>1. /\ base_offset'[e] \in Nat /\ received_seq'[e] \in Nat /\ nids' \in 2 .. MaxIds
      /\ sent_unacked'[e] \in Seq(Payload) /\ app_queue'[e] \in Seq(Payload)
      /\ id'[e] \in Ids /\ remote_id'[e] \in Ids \cup {NoId}
      /\ \A i \in Ids : produced'[i] \in Nat
  BY DEF TypeOK
<1>2. Len(sent_unacked'[e]) \in Nat /\ Len(app_queue'[e]) \in Nat
  BY <1>1, LenProperties
<1>3. Newest(e)' = base_offset'[e] + Len(sent_unacked'[e])
  BY DEF Newest
<1>4. Newest(e)' \in Nat /\ base_offset'[e] <= Newest(e)'
  BY <1>1, <1>2, <1>3
<1>5. remote_id'[e] \in Nat /\ nids' \in Nat
  BY <1>1, BoundAssumption DEF Ids, NoId
<1> QED
  BY <1>1, <1>2, <1>4, <1>5

\* What the next Data of a connection is.
LEMMA NextData ==
    ASSUME StreamInv, NEW e \in Endpoints, NEW c \in Conns, Started(e, c),
           pipe[Peer(e)][c] # <<>>, NEW m, m = pipe[Peer(e)][c][1], m.type = "Data"
    PROVE  /\ remote_id[e] \in Ids /\ m.data = [from |-> remote_id[e], n |-> received_seq[e] + 1]
           /\ received_seq[e] + 1 <= produced[remote_id[e]]
           /\ remote_id[e] = id[Peer(e)] => received_seq[e] + 1 <= Newest(Peer(e))
<1>0. TypeOK /\ IdsInOrder /\ DataContinues /\ DataWasSent
  BY DEF StreamInv
<1>q. Peer(e) \in Endpoints
  BY PeerProperties
<1>1. remote_id[e] \in Ids
  BY <1>0 DEF IdsInOrder, TypeOK
<1>2. PICK s \in Seq(Message) : s = pipe[Peer(e)][c]
  BY <1>0, <1>q, PipeType
<1>3. Using(e, c) /\ Source(e, c) = remote_id[e]
  BY DEF Using, Started, InStream, Source
<1>4. Continues(s, remote_id[e], received_seq[e])
  BY <1>0, <1>2, <1>3 DEF DataContinues
<1>5. received_seq[e] \in Nat
  BY <1>0, StreamTypes
<1>6. s[1].data = [from |-> remote_id[e], n |-> received_seq[e] + 1]
  BY <1>2, <1>4, <1>5, ContinuesTail
<1>7. 1 \in 1 .. Len(pipe[Peer(e)][c])
  BY <1>0, <1>q, PipeType
<1>8. LET p == m.data
      IN p.n <= produced[p.from] /\ (p.from = id[Peer(e)] => p.n <= Newest(Peer(e)))
  BY <1>0, <1>q, <1>7 DEF DataWasSent
<1>9. m.data = [from |-> remote_id[e], n |-> received_seq[e] + 1]
  BY <1>2, <1>6
<1> QED
  BY <1>1, <1>8, <1>9

\* Every event keeps what was delivered a beginning of what was sent.
LEMMA ReceivedStep == ASSUME StreamInv, Event, TypeOK' PROVE Received'
<1> USE DEF streamVars
<1>0. TypeOK /\ WindowNumbered /\ IdsInOrder /\ Received
  BY DEF StreamInv
<1> DEFINE R(d) ==
      /\ Numbered(delivered[id[d]], remote_id[d], 0)
      /\ Len(delivered[id[d]]) = received_seq[d]
      /\ IF remote_id[d] = NoId THEN received_seq[d] = 0 /\ base_offset[d] = 0
         ELSE received_seq[d] <= produced[remote_id[d]]
      /\ remote_id[d] = id[Peer(d)] => received_seq[d] <= Newest(Peer(d))
<1>a. Received' <=> \A d \in Endpoints : R(d)'
  BY DEF Received
<1>b. \A d \in Endpoints : R(d)
  BY <1>0 DEF Received
<1>q. \A d \in Endpoints : Peer(d) \in Endpoints /\ Peer(d) # d /\ id[d] # id[Peer(d)]
  BY <1>0, PeerProperties DEF IdsInOrder, Endpoints
<1>t. \A d \in Endpoints : /\ received_seq[d] \in Nat /\ Newest(d) \in Nat /\ Newest(d)' \in Nat
                           /\ id[d] \in Ids /\ remote_id[d] \in Ids \cup {NoId}
                           /\ \A i \in Ids : produced[i] \in Nat /\ produced'[i] \in Nat
                                             /\ produced[i] <= produced'[i]
  BY <1>0, StreamTypes, NextTypes, EventProgress DEF TypeOK
\* Where nothing has happened.
<1>1. ASSUME NEW d \in Endpoints, delivered'[id'[d]] = delivered[id[d]],
             received_seq'[d] = received_seq[d], remote_id'[d] = remote_id[d],
             remote_id[d] = NoId => base_offset'[d] = base_offset[d]
      PROVE  R(d)'
  <2>1. R(d)
    BY <1>b
  <2>2. Numbered(delivered'[id'[d]], remote_id'[d], 0) /\ Len(delivered'[id'[d]]) = received_seq'[d]
    BY <1>1, <2>1
  <2>3. IF remote_id'[d] = NoId THEN received_seq'[d] = 0 /\ base_offset'[d] = 0
        ELSE received_seq'[d] <= produced'[remote_id'[d]]
    <3>1. CASE remote_id[d] = NoId
      BY <1>1, <2>1, <3>1
    <3>2. CASE remote_id[d] # NoId
      <4>1. remote_id[d] \in Ids /\ received_seq[d] <= produced[remote_id[d]]
        BY <1>t, <2>1, <3>2
      <4> HIDE DEF R
      <4>2. received_seq[d] <= produced'[remote_id[d]]
        BY <1>t, <4>1
      <4> QED
        BY <1>1, <3>2, <4>2
    <3> QED
      BY <3>1, <3>2
  <2>4. ASSUME remote_id'[d] = id'[Peer(d)] PROVE received_seq'[d] <= Newest(Peer(d))'
    <3>1. Further(Peer(d))
      BY <2>4, BoundGoesOn
    <3>2. received_seq[d] <= Newest(Peer(d)) /\ Newest(Peer(d)) <= Newest(Peer(d))'
      BY <1>1, <2>1, <2>4, <3>1 DEF Further
    <3> HIDE DEF R
    <3> QED
      BY <1>1, <1>q, <1>t, <3>2
  <2> QED
    BY <2>2, <2>3, <2>4
<1> HIDE DEF R
<1>2. ASSUME UNCHANGED <<delivered, id, received_seq, remote_id, base_offset>>
      PROVE  \A d \in Endpoints : R(d)'
  BY <1>1, <1>2
<1>3. CASE Idle \/ Opening \/ Breaking
  BY <1>a, <1>2, <1>3 DEF Idle, Opening, Breaking, SameStreams
<1>4. CASE Producing
  BY <1>a, <1>2, <1>4 DEF Producing, Produces
<1>5. CASE Keeping \/ Writing
  BY <1>a, <1>2, <1>5 DEF Keeping, Writing, Enqueues
<1>6. CASE Refusing \/ Greeting
  <2>1. PICK e \in Endpoints, c \in Conns, m \in Message :
           /\ Binds(e, m)
           /\ Releases(e, m.sender_last_rx) \/ UNCHANGED <<sent_unacked, base_offset>>
    BY <1>6 DEF Refusing, Greeting
  <2>2. m.sender_last_rx \in Nat /\ m.sender_id \in Ids
    BY <2>1, MessageFields DEF Binds
  <2>3. UNCHANGED <<produced, delivered, id, received_seq>> /\ remote_id'[e] = m.sender_id
        /\ remote_id[e] \in {NoId, m.sender_id}
    BY <1>0, <2>1 DEF Binds, known_sender, TypeOK
  <2>4. ASSUME NEW d \in Endpoints, d # e PROVE R(d)'
    <3>1. remote_id'[d] = remote_id[d]
      BY <1>0, <2>1, <2>4 DEF Binds, TypeOK
    <3>2. base_offset'[d] = base_offset[d]
      BY <1>0, <2>1, <2>2, <2>4, ReleasesWindow
    <3> QED
      BY <1>1, <2>3, <3>1, <3>2
  <2>5. R(e)'
    <3>1. CASE remote_id[e] # NoId
      BY <1>1, <2>3, <3>1
    <3>2. CASE remote_id[e] = NoId
      <4>1. received_seq[e] = 0 /\ Len(delivered[id[e]]) = 0
        BY <1>b, <3>2 DEF R
      <4>2. Numbered(delivered'[id'[e]], remote_id'[e], 0) /\ Len(delivered'[id'[e]]) = received_seq'[e]
        BY <2>3, <4>1 DEF Numbered
      <4>3. remote_id'[e] # NoId /\ remote_id'[e] \in Ids
        BY <2>2, <2>3, BoundAssumption DEF Ids, NoId
      <4>4. received_seq'[e] <= produced'[remote_id'[e]]
        BY <1>t, <2>3, <4>1, <4>3
      <4>5. received_seq'[e] <= Newest(Peer(e))'
        BY <1>t, <1>q, <2>3, <4>1
      <4> QED
        BY <4>2, <4>3, <4>4, <4>5 DEF R
    <3> QED
      BY <3>1, <3>2
  <2> QED
    BY <1>a, <2>4, <2>5
<1>7. CASE Releasing
  <2>1. PICK e \in Endpoints, c \in Conns, m \in Message :
           m.type = "Ack" /\ Reads(e, c, m, <<>>) /\ Releases(e, m.seq) /\ UNCHANGED remote_id
    BY <1>7 DEF Releasing
  <2>2. m.seq \in Nat
    BY <2>1, MessageFields
  <2>3. UNCHANGED <<delivered, id, received_seq, remote_id>>
    BY <2>1 DEF Releases
  <2>4. Started(e, c)
    BY <2>1 DEF Reads
  <2>5. remote_id[e] # NoId
    BY <1>0, <2>4 DEF IdsInOrder
  <2>6. \A d \in Endpoints : d # e => base_offset'[d] = base_offset[d]
    BY <1>0, <2>1, <2>2, ReleasesWindow
  <2>7. \A d \in Endpoints : remote_id[d] = NoId => base_offset'[d] = base_offset[d]
    BY <2>5, <2>6
  <2> QED
    BY <1>a, <1>1, <2>3, <2>7
<1>8. CASE Receiving
  <2>1. PICK e \in Endpoints, c \in Conns, m \in Message :
           m.type = "Data" /\ Reads(e, c, m, <<Ack(received_seq[e] + 1)>>) /\ Delivers(e, m.data)
    BY <1>8 DEF Receiving
  <2>2. Started(e, c) /\ pipe[Peer(e)][c] # <<>> /\ m = pipe[Peer(e)][c][1]
    BY <2>1 DEF Reads
  <2>3. /\ remote_id[e] \in Ids /\ m.data = [from |-> remote_id[e], n |-> received_seq[e] + 1]
        /\ received_seq[e] + 1 <= produced[remote_id[e]]
        /\ remote_id[e] = id[Peer(e)] => received_seq[e] + 1 <= Newest(Peer(e))
    BY <2>1, <2>2, NextData
  <2>4. /\ delivered'[id[e]] = Append(delivered[id[e]], m.data) /\ id' = id /\ remote_id' = remote_id
        /\ received_seq'[e] = received_seq[e] + 1 /\ base_offset' = base_offset
        /\ produced' = produced /\ sent_unacked' = sent_unacked
        /\ delivered[id[e]] \in Seq(Payload)
    BY <1>0, <2>1 DEF Delivers, TypeOK
  <2>5. R(e)
    BY <1>b
  <2>6. Numbered(delivered[id[e]], remote_id[e], 0) /\ Len(delivered[id[e]]) = received_seq[e]
    BY <2>5 DEF R
  <2>7. m.data = [from |-> remote_id[e], n |-> 0 + Len(delivered[id[e]]) + 1]
    BY <1>t, <2>3, <2>6
  <2>8. Numbered(delivered'[id[e]], remote_id[e], 0)
    BY <2>3, <2>4, <2>6, <2>7, NumberedParts
  <2>9. m.data \in Payload
    BY <2>1, MessageFields
  <2>10. Len(delivered'[id[e]]) = received_seq[e] + 1
    BY <2>4, <2>6, <2>9, AppendProperties
  <2>11. Newest(Peer(e))' = Newest(Peer(e))
    BY <2>4 DEF Newest
  <2>12. remote_id[e] # NoId
    BY <2>3, BoundAssumption DEF Ids, NoId
  <2>13. R(e)'
    BY <2>3, <2>4, <2>8, <2>10, <2>11, <2>12 DEF R
  <2>14. ASSUME NEW d \in Endpoints, d # e PROVE R(d)'
    <3>1. id[d] # id[e]
      BY <1>q, <2>14 DEF Endpoints, Peer
    <3>2. delivered'[id[d]] = delivered[id[d]] /\ received_seq'[d] = received_seq[d]
      BY <1>0, <2>1, <2>14, <3>1 DEF Delivers, TypeOK
    <3> QED
      BY <1>1, <2>4, <3>2
  <2> QED
    BY <1>a, <2>13, <2>14
<1>9. CASE Renewing
  <2>1. PICK e \in Endpoints : Renews(e)
    BY <1>9 DEF Renewing
  <2>2. /\ id'[e] = nids + 1 /\ remote_id'[e] = NoId /\ received_seq'[e] = 0 /\ base_offset'[e] = 0
        /\ delivered' = delivered
    BY <1>0, <2>1 DEF Renews, TypeOK
  <2>3. nids + 1 \in Ids /\ nids + 1 > nids
    <3>1. nids \in 2 .. MaxIds /\ nids < MaxIds
      BY <1>0, <2>1 DEF Renews, TypeOK
    <3> QED
      BY <3>1, BoundAssumption DEF Ids
  <2>4. delivered[nids + 1] = <<>>
    BY <1>0, <2>3 DEF IdsInOrder
  <2>5. Len(delivered'[id'[e]]) = 0
    BY <2>2, <2>4, EmptySeq
  <2>6. id'[Peer(e)] # NoId
    BY <1>q, NextTypes, BoundAssumption DEF Ids, NoId
  <2>7. R(e)'
    BY <2>2, <2>5, <2>6 DEF R, Numbered
  <2>8. ASSUME NEW d \in Endpoints, d # e PROVE R(d)'
    <3>1. /\ id'[d] = id[d] /\ remote_id'[d] = remote_id[d] /\ received_seq'[d] = received_seq[d]
          /\ base_offset'[d] = base_offset[d]
      BY <1>0, <2>1, <2>8 DEF Renews, TypeOK
    <3> QED
      BY <1>1, <2>2, <3>1
  <2> QED
    BY <1>a, <2>7, <2>8
<1> QED
  BY <1>3, <1>4, <1>5, <1>6, <1>7, <1>8, <1>9 DEF Event

-----------------------------------------------------------------------------
(* DataWasSent is kept.                                                    *)

\* Every event sends only what was taken from the application.
LEMMA SentStep == ASSUME StreamInv, Event, TypeOK', WindowNumbered' PROVE DataWasSent'
<1>0. TypeOK /\ WindowNumbered /\ IdsInOrder /\ DataWasSent
  BY DEF StreamInv
<1> SUFFICES ASSUME NEW e \in Endpoints, NEW c \in Conns, NEW m, Holds(pipe'[e][c], m), m.type = "Data"
             PROVE  m.data.n <= produced'[m.data.from] /\ (m.data.from = id'[e] => m.data.n <= Newest(e)')
  BY DEF DataWasSent, Holds
<1>1. CASE Holds(pipe[e][c], m)
  <2>1. PICK j \in 1 .. Len(pipe[e][c]) : pipe[e][c][j] = m
    BY <1>1 DEF Holds
  <2>2. m \in Message
    BY <1>0, <2>1, PipeType, ElementOfSeq
  <2>3. m.data \in Payload
    BY <2>2, MessageFields
  <2>4. m.data.from \in Ids /\ m.data.n \in Nat \ {0}
    BY <2>3 DEF Payload
  <2>5. m.data.n <= produced[m.data.from] /\ (m.data.from = id[e] => m.data.n <= Newest(e))
    BY <1>0, <2>1 DEF DataWasSent
  <2>6. produced[m.data.from] <= produced'[m.data.from] /\ produced'[m.data.from] \in Nat
        /\ produced[m.data.from] \in Nat
    BY <1>0, <2>4, EventProgress, NextTypes DEF TypeOK
  <2>7. CASE Further(e)
    <3>1. id'[e] = id[e] /\ Newest(e) <= Newest(e)' /\ Newest(e) \in Nat /\ Newest(e)' \in Nat
      BY <1>0, <2>7, StreamTypes, NextTypes DEF Further
    <3> QED
      BY <2>4, <2>5, <2>6, <3>1
  <2>8. CASE Renewed(e)
    <3>1. id'[e] = nids + 1 /\ nids \in Nat /\ nids + 1 > nids
      BY <1>0, <2>8, StreamTypes DEF Renewed
    <3>2. m.data.from = id'[e] => produced[m.data.from] = 0
      BY <1>0, <2>4, <3>1 DEF IdsInOrder
    <3> QED
      BY <2>4, <2>5, <2>6, <3>2
  <2> QED
    BY <1>0, <2>7, <2>8, EventProgress
<1>2. CASE Fresh(e, c, m)
  <2>1. PICK j \in 1 .. Len(sent_unacked'[e]) : m.data = sent_unacked'[e][j]
    BY <1>2 DEF Fresh, make_hello, Hello
  <2>2. Numbered(sent_unacked'[e], id'[e], base_offset'[e])
        /\ produced'[id'[e]] = Newest(e)' + Len(app_queue'[e])
    BY DEF WindowNumbered
  <2>3. m.data = [from |-> id'[e], n |-> base_offset'[e] + j]
    BY <2>1, <2>2 DEF Numbered
  <2>4. Newest(e)' = base_offset'[e] + Len(sent_unacked'[e])
    BY DEF Newest
  <2>5. /\ base_offset'[e] \in Nat /\ Len(sent_unacked'[e]) \in Nat /\ Len(app_queue'[e]) \in Nat
        /\ Newest(e)' \in Nat
    BY NextTypes
  <2>6. base_offset'[e] + j <= Newest(e)' /\ base_offset'[e] + j <= produced'[id'[e]]
    BY <2>2, <2>4, <2>5
  <2> QED
    BY <2>3, <2>6
<1> QED
  BY <1>1, <1>2, EventOrigin

-----------------------------------------------------------------------------
(* What an event does to the messages of d on b, and to their reader, who  *)
(* uses b before and after.                                                *)

\* The reader is where it was.
Steady(f, b) ==
    /\ Started(f, b)' <=> Started(f, b)
    /\ remote_id'[f] = remote_id[f] /\ received_seq'[f] = received_seq[f]
    /\ base_offset'[f] = base_offset[f]
\* The writer has nothing more to say.
SameWriter(d, b) == Started(d, b)' /\ ~Dead(d, b) => Started(d, b) /\ Newest(d)' = Newest(d)

Stays(d, b)   == Steady(Peer(d), b) /\ SameWriter(d, b) /\ pipe'[d][b] = pipe[d][b]
Shrinks(d, b) == Steady(Peer(d), b) /\ b \in broken' /\ pipe'[d][b] \in Prefixes(pipe[d][b])
Begins(d, b)  == /\ Steady(Peer(d), b) /\ ~Started(d, b)'
                 /\ pipe[d][b] = <<>> /\ pipe'[d][b] = <<make_hello(d)>>
Adds(d, b, ms) == /\ Steady(Peer(d), b) /\ Using(d, b)
                  /\ ~Dead(d, b) /\ ms \in Seq(Message) /\ pipe'[d][b] = pipe[d][b] \o ms
Sends(d, b) ==
    Enqueues(d) /\ Started(d, b) /\ Adds(d, b, <<Data(Head(app_queue[d]))>>)
Resends(d, b) == \E m \in Message :
    /\ Greeted(d, b, m) /\ Releases(d, m.sender_last_rx)
    /\ Adds(d, b, resend(unacked_after(d, m.sender_last_rx)))
Acknowledges(d, b) ==
    /\ Started(d, b) /\ SameWriter(d, b) /\ Adds(d, b, <<Ack(received_seq[d] + 1)>>)
    /\ received_seq'[d] = received_seq[d] + 1
    /\ pipe[Peer(d)][b] # <<>> /\ pipe[Peer(d)][b][1].type = "Data"
Consumes(d, b) ==
    LET f == Peer(d)
        m == pipe[d][b][1]
    IN /\ pipe[d][b] # <<>> /\ pipe'[d][b] = Tail(pipe[d][b])
       /\ SameWriter(d, b) /\ Started(f, b)'
       /\ \/ /\ m.type = "Hello" /\ ~Started(f, b)
             /\ remote_id'[f] = m.sender_id /\ received_seq'[f] = received_seq[f]
          \/ /\ m.type = "Ack" /\ Started(f, b) /\ base_offset'[f] = m.seq
             /\ remote_id'[f] = remote_id[f] /\ received_seq'[f] = received_seq[f]
          \/ /\ m.type = "Data" /\ Started(f, b) /\ base_offset'[f] = base_offset[f]
             /\ remote_id'[f] = remote_id[f] /\ received_seq'[f] = received_seq[f] + 1

PipeCase(d, b) ==
    \/ Stays(d, b) \/ Shrinks(d, b) \/ Begins(d, b)
    \/ Sends(d, b) \/ Resends(d, b) \/ Acknowledges(d, b)
    \/ Consumes(d, b)

\* An endpoint works on one connection.
LEMMA OneConn ==
    ASSUME NEW e \in Endpoints, NEW b \in Conns, NEW c \in Conns, b # c
    PROVE  Using(e, b) \/ Started(e, b) => ~Using(e, c) /\ ~Started(e, c)
BY DEF Using, Started

\* What reading, by either end, does to the messages of d on b.
LEMMA ReadsOne ==
    ASSUME StreamInv, NEW d \in Endpoints, NEW b \in Conns, Using(Peer(d), b),
           NEW a \in Endpoints, NEW c \in Conns, NEW m, NEW ms, Reads(a, c, m, ms)
    PROVE  /\ a = Peer(d) => /\ c = b /\ pipe[d][b] # <<>> /\ m = pipe[d][b][1]
                             /\ pipe'[d][b] = Tail(pipe[d][b]) /\ Started(a, b)'
                             /\ SameEnd(d, b)
           /\ a = d /\ c = b => /\ pipe'[d][b] = IF Dead(d, b) THEN pipe[d][b] ELSE pipe[d][b] \o ms
                                /\ SameEnd(Peer(d), b) /\ Using(d, b)
           /\ a = d /\ c # b => /\ pipe'[d][b] = pipe[d][b]
                                /\ SameEnd(Peer(d), b) /\ ~Started(d, b)'
<1>0. TypeOK
  BY DEF StreamInv
<1>q. Peer(d) \in Endpoints /\ Peer(d) # d /\ Peer(Peer(d)) = d
  BY PeerProperties
<1>1. Answer(a, c, ms) /\ Using(a, c) /\ pipe[Peer(a)][c] # <<>> /\ m = pipe[Peer(a)][c][1]
      /\ Using(a, c)' /\ Started(a, c)'
      /\ \A x \in Endpoints, y \in Conns : ~(x = a /\ y = c) => SameEnd(x, y)
  BY DEF Reads
<1>2. /\ d = Peer(a) /\ b = c => pipe'[d][b] = Tail(pipe[d][b])
      /\ d = a /\ b = c => pipe'[d][b] = IF Dead(a, c) THEN pipe[d][b] ELSE pipe[d][b] \o ms
      /\ b # c => pipe'[d][b] = pipe[d][b]
  BY <1>0, <1>1, AnswerPipe
<1>3. a = Peer(d) => c = b
  BY <1>1, OneConn
<1>4. ASSUME a = d, c # b PROVE ~Started(d, b)'
  <2>1. ~Started(d, b)
    BY <1>1, <1>4, OneConn
  <2> QED
    BY <1>1, <1>4, <2>1 DEF SameEnd
<1> QED
  BY <1>1, <1>2, <1>3, <1>4, <1>q

\* What an event does to a connection whose reading end goes on using it.
LEMMA EventPipe ==
    ASSUME StreamInv, Event, NEW d \in Endpoints, NEW b \in Conns,
           Using(Peer(d), b), Using(Peer(d), b)'
    PROVE  PipeCase(d, b)
<1> USE DEF streamVars
<1> DEFINE f == Peer(d)
<1>0. TypeOK
  BY DEF StreamInv
<1>w. WindowNumbered
  BY DEF StreamInv
<1>v. EndsOwned /\ HelloOnly
  BY DEF StreamInv, ConnInv
<1>q. f \in Endpoints /\ f # d /\ Peer(f) = d /\ Using(f, b) /\ Using(f, b)'
  BY PeerProperties
<1>b. b <= nconns /\ b \in Nat /\ nconns \in Nat
  BY <1>0, <1>v, <1>q DEF EndsOwned, TypeOK, Conns
<1> HIDE DEF f
<1>d. /\ Stays(d, b) <=> Steady(f, b) /\ SameWriter(d, b) /\ pipe'[d][b] = pipe[d][b]
      /\ \A a \in Endpoints : a = d \/ a = f
  BY DEF Stays, f, Endpoints, Peer
\* What the reader does not notice.
<1>s. ASSUME remote_id'[f] = remote_id[f], received_seq'[f] = received_seq[f],
             base_offset'[f] = base_offset[f], SameEnd(f, b)
      PROVE  Steady(f, b)
  BY <1>s DEF Steady, SameEnd
<1>1. ASSUME NEW a \in Endpoints, NEW cs, Leaves(a, cs)
      PROVE  pipe'[d][b] = pipe[d][b] /\ SameEnd(f, b) /\ (Started(d, b)' => Started(d, b))
  <2>1. ~(a = f /\ b \in cs)
    BY <1>1, <1>q DEF Leaves
  <2>2. SameEnd(f, b)
    BY <1>1, <1>q, <2>1 DEF Leaves
  <2>3. Started(d, b)' => Started(d, b)
    BY <1>1 DEF Leaves, SameEnd
  <2>4. Close(a, cs)
    BY <1>1 DEF Leaves
  <2>5. pipe'[d][b] = IF d = Peer(a) /\ b \in cs THEN <<>> ELSE pipe[d][b]
    BY <1>0, <2>4, PeerProperties DEF TypeOK, Close
  <2>6. d = Peer(a) => a = f
    BY PeerProperties DEF f
  <2> QED
    BY <2>1, <2>2, <2>3, <2>5, <2>6
<1>2. ASSUME Quiet PROVE pipe'[d][b] = pipe[d][b] /\ SameEnd(f, b) /\ (Started(d, b)' => Started(d, b))
  BY <1>2, <1>q DEF Quiet, SameEnd
<1>3. ASSUME NEW a \in Endpoints, NEW seq \in Nat, Releases(a, seq)
      PROVE  /\ received_seq' = received_seq /\ \A x \in Endpoints : Newest(x)' = Newest(x)
             /\ a # f => base_offset'[f] = base_offset[f]
             /\ base_offset'[a] = seq
  <2>1. /\ base_offset'[a] = seq /\ Newest(a)' = Newest(a)
        /\ \A x \in Endpoints : x # a => /\ base_offset'[x] = base_offset[x]
                                         /\ sent_unacked'[x] = sent_unacked[x]
    BY <1>0, <1>w, <1>3, ReleasesWindow
  <2>2. \A x \in Endpoints : x # a => Newest(x)' = Newest(x)
    BY <2>1 DEF Newest
  <2> QED
    BY <1>3, <1>q, <2>1, <2>2 DEF Releases
<1>4. SameStreams => /\ remote_id'[f] = remote_id[f] /\ received_seq'[f] = received_seq[f]
                     /\ base_offset'[f] = base_offset[f] /\ Newest(d)' = Newest(d)
  BY DEF SameStreams, Newest
<1>5. CASE Idle
  <2>1. pipe'[d][b] = pipe[d][b] /\ SameEnd(f, b) /\ (Started(d, b)' => Started(d, b)) /\ SameStreams
    BY <1>1, <1>2, <1>5 DEF Idle
  <2> QED
    BY <1>4, <1>d, <1>s, <2>1 DEF PipeCase, SameWriter
<1>6. CASE Opening
  <2>0. SameStreams
    BY <1>6 DEF Opening
  <2>1. ASSUME NEW c \in Conns, Makes(c) PROVE Stays(d, b)
    <3>1. c # b
      BY <1>b, <2>1 DEF Makes
    <3>2. SameEnd(f, b) /\ SameEnd(d, b) /\ Send("client", c, <<make_hello("client")>>)
      BY <1>q, <2>1, <3>1 DEF Makes
    <3>3. pipe'[d][b] = pipe[d][b]
      BY <1>0, <3>1, <3>2 DEF Send, TypeOK
    <3> QED
      BY <1>4, <1>d, <1>s, <2>0, <3>2, <3>3 DEF SameWriter, SameEnd
  <2>2. ASSUME NEW c \in Conns, NEW cs \in SUBSET Conns, Takes(c, cs) PROVE Stays(d, b) \/ Begins(d, b)
    <3>1. /\ d = "client" => pipe'[d][b] = IF b \in cs THEN <<>> ELSE pipe[d][b]
          /\ d = "server" /\ b = c => pipe'[d][b] = Sent("server", c, <<make_hello("server")>>)
          /\ d = "server" /\ b # c => pipe'[d][b] = pipe[d][b]
          /\ closed'[b] = IF b \in cs THEN closed[b] \cup {"server"} ELSE closed[b]
      BY <1>0, <2>2 DEF TypeOK, Takes, Endpoints
    <3>2. /\ Pending("server", c) /\ \A x \in cs : Pending("server", x)
          /\ ~Started("server", c)' /\ \A x \in cs : ~Started("server", x)'
          /\ \A x \in Endpoints, y \in Conns : ~(x = "server" /\ y \in cs \cup {c}) => SameEnd(x, y)
      BY <2>2 DEF Takes
    <3>3. CASE f = "server"
      <4>1. d = "client"
        BY <1>q, <3>3 DEF Endpoints
      <4>2. ~Pending("server", b)
        BY <1>q, <1>v, <3>3 DEF EndsOwned
      <4>3. b # c /\ b \notin cs
        BY <3>2, <4>2
      <4>4. pipe'[d][b] = pipe[d][b] /\ SameEnd(f, b) /\ SameEnd(d, b)
        BY <1>q, <3>1, <3>2, <4>1, <4>3
      <4> QED
        BY <1>4, <1>d, <1>s, <2>0, <4>4 DEF SameWriter, SameEnd
    <3>4. CASE f = "client"
      <4>1. d = "server"
        BY <1>q, <3>4 DEF Endpoints
      <4>2. SameEnd(f, b)
        BY <1>q, <3>2, <3>4
      <4>3. Steady(f, b)
        BY <1>4, <1>s, <2>0, <4>2
      <4>4. CASE b = c /\ ~Dead("server", c)
        <5>1. pipe["server"][b] = <<>>
          BY <1>v, <3>2, <4>1, <4>4 DEF HelloOnly
        <5>2. pipe'[d][b] = pipe[d][b] \o <<make_hello(d)>>
          BY <3>1, <4>1, <4>4 DEF Sent
        <5>3. <<make_hello(d)>> \in Seq(Message)
          BY <1>0, HelloMessage
        <5>4. PICK s \in Seq(Message) : s = <<make_hello(d)>>
          BY <5>3
        <5>5. <<>> \o s = s
          BY <5>4
        <5>6. pipe'[d][b] = <<make_hello(d)>>
          BY <4>1, <5>1, <5>2, <5>4, <5>5
        <5> QED
          BY <3>2, <4>1, <4>3, <4>4, <5>1, <5>6 DEF Begins, f
      <4>5. CASE ~(b = c /\ ~Dead("server", c))
        <5>1. pipe'[d][b] = pipe[d][b]
          BY <3>1, <4>1, <4>5 DEF Sent
        <5>2. Started(d, b)' => Started(d, b)
          <6>1. b \in cs \cup {c} => ~Started(d, b)'
            BY <3>2, <4>1
          <6>2. b \notin cs \cup {c} => SameEnd(d, b)
            BY <3>2
          <6> QED
            BY <6>1, <6>2 DEF SameEnd
        <5> QED
          BY <1>4, <1>d, <2>0, <4>3, <5>1, <5>2 DEF SameWriter
      <4> QED
        BY <4>4, <4>5
    <3> QED
      BY <1>q, <3>3, <3>4 DEF Endpoints
  <2> QED
    BY <1>6, <2>1, <2>2 DEF Opening, PipeCase
<1>7. CASE Breaking
  <2>1. PICK c \in Conns : Loses(c) /\ SameStreams
    BY <1>7 DEF Breaking
  <2>2. SameEnd(f, b) /\ SameEnd(d, b)
    BY <1>q, <2>1 DEF Loses
  <2>3. Steady(f, b)
    BY <1>4, <1>s, <2>1, <2>2
  <2>4. CASE b = c
    BY <2>1, <2>3, <2>4 DEF Loses, Shrinks, PipeCase, f
  <2>5. CASE b # c
    <3>1. pipe'[d][b] = pipe[d][b]
      BY <2>1, <2>5 DEF Loses
    <3> QED
      BY <1>4, <1>d, <2>1, <2>2, <2>3, <3>1 DEF SameWriter, SameEnd, PipeCase
  <2> QED
    BY <2>4, <2>5
<1>8. CASE Producing
  <2>1. Quiet /\ UNCHANGED streamVars
    BY <1>8 DEF Producing, Produces
  <2>2. Newest(d)' = Newest(d)
    BY <2>1 DEF Newest
  <2> QED
    BY <1>2, <1>d, <1>s, <2>1, <2>2 DEF PipeCase, SameWriter
<1>9. CASE Keeping
  <2>1. PICK a \in Endpoints :
           /\ Enqueues(a)
           /\ Quiet \/ \E c \in Conns : Leaves(a, {c})
           /\ \A c \in Conns : ~Started(a, c)'
    BY <1>9 DEF Keeping
  <2>2. pipe'[d][b] = pipe[d][b] /\ SameEnd(f, b) /\ (Started(d, b)' => Started(d, b))
    BY <1>1, <1>2, <2>1
  <2>3. UNCHANGED <<remote_id, received_seq, base_offset>>
    BY <2>1 DEF Enqueues
  <2>4. a # d => Newest(d)' = Newest(d)
    BY <1>0, <2>1 DEF Newest, Enqueues, TypeOK
  <2>5. SameWriter(d, b)
    BY <2>1, <2>2, <2>4 DEF SameWriter
  <2> QED
    BY <1>d, <1>s, <2>2, <2>3, <2>5 DEF PipeCase
<1>10. CASE Writing
  <2>1. PICK a \in Endpoints, c \in Conns : Enqueues(a) /\ Writes(a, c, Head(app_queue[a]))
    BY <1>10 DEF Writing
  <2> DEFINE p == Head(app_queue[a])
  <2>2. /\ Started(a, c) /\ p \in Payload /\ Send(a, c, <<Data(p)>>)
        /\ SameEnd(f, b) /\ SameEnd(d, b)
    BY <1>q, <2>1 DEF Writes
  <2> HIDE DEF p
  <2>3. Steady(f, b)
    BY <1>s, <2>1, <2>2 DEF Enqueues
  <2>4. pipe'[d][b] = IF d = a /\ b = c /\ ~Dead(a, c) THEN pipe[a][c] \o <<Data(p)>> ELSE pipe[d][b]
    BY <1>0, <2>2, SendPipe
  <2>5. CASE d = a /\ b = c /\ ~Dead(a, c)
    <3>1. Data(p) \in Message /\ <<Data(p)>> \in Seq(Message) /\ Using(d, b)
      BY <2>2, <2>5, MessageConstructors, OneMessage DEF Started, Using, InStream
    <3>2. Adds(d, b, <<Data(p)>>)
      BY <2>3, <2>4, <2>5, <3>1 DEF Adds, f
    <3> QED
      BY <2>1, <2>2, <2>5, <3>2 DEF Sends, PipeCase, p
  <2>6. CASE ~(d = a /\ b = c /\ ~Dead(a, c))
    <3>1. pipe'[d][b] = pipe[d][b]
      BY <2>4, <2>6
    <3>2. SameWriter(d, b)
      <4>1. CASE a # d
        <5>1. Newest(d)' = Newest(d)
          BY <1>0, <2>1, <4>1 DEF Newest, Enqueues, TypeOK
        <5> QED
          BY <2>2, <5>1 DEF SameWriter, SameEnd
      <4>2. CASE a = d /\ b # c
        <5>1. ~Started(d, b)
          BY <2>2, <4>2, OneConn
        <5> QED
          BY <2>2, <5>1 DEF SameWriter, SameEnd
      <4>3. CASE a = d /\ b = c
        BY <2>6, <4>3 DEF SameWriter
      <4> QED
        BY <4>1, <4>2, <4>3
    <3> QED
      BY <1>d, <2>3, <3>1, <3>2 DEF PipeCase
  <2> QED
    BY <2>5, <2>6
<1>11. CASE Renewing
  <2>1. PICK a \in Endpoints : Renews(a) /\ Leaves(a, 1 .. nconns)
    BY <1>11 DEF Renewing
  <2>2. a = d
    <3>1. a = f => ~Using(f, b)'
      BY <1>b, <2>1 DEF Leaves, Conns
    <3> QED
      BY <1>d, <1>q, <3>1
  <2>3. pipe'[d][b] = pipe[d][b] /\ SameEnd(f, b)
    BY <1>1, <2>1
  <2>4. ~Started(d, b)'
    BY <1>b, <2>1, <2>2 DEF Leaves, Conns
  <2>5. remote_id'[f] = remote_id[f] /\ received_seq'[f] = received_seq[f] /\ base_offset'[f] = base_offset[f]
    BY <1>0, <1>q, <2>1, <2>2 DEF Renews, TypeOK
  <2> QED
    BY <1>d, <1>s, <2>3, <2>4, <2>5 DEF PipeCase, SameWriter
<1>12. CASE Refusing
  <2>1. PICK a \in Endpoints, c \in Conns, m \in Message :
           /\ Greeted(a, c, m) /\ Binds(a, m) /\ Leaves(a, {c})
           /\ Releases(a, m.sender_last_rx) \/ UNCHANGED <<sent_unacked, base_offset>>
    BY <1>12 DEF Refusing
  <2>2. Using(a, c) /\ ~Started(a, c) /\ m.sender_last_rx \in Nat
    BY <2>1, MessageFields DEF Greeted
  <2>3. a = d
    <3>1. a = f => c = b
      BY <1>q, <2>2, OneConn
    <3>2. a = f => ~Using(f, b)'
      BY <2>1, <3>1 DEF Leaves
    <3> QED
      BY <1>d, <1>q, <3>2
  <2>4. pipe'[d][b] = pipe[d][b] /\ SameEnd(f, b) /\ (Started(d, b)' => Started(d, b))
    BY <1>1, <2>1
  <2>5. ~Started(d, b)
    BY <2>2, <2>3, OneConn
  <2>6. base_offset'[f] = base_offset[f]
    BY <1>3, <1>q, <2>1, <2>2, <2>3
  <2>7. remote_id'[f] = remote_id[f] /\ received_seq'[f] = received_seq[f]
    BY <1>0, <1>q, <2>1, <2>3 DEF Binds, TypeOK
  <2> QED
    BY <1>d, <1>s, <2>4, <2>5, <2>6, <2>7 DEF PipeCase, SameWriter
<1>13. CASE Greeting
  <2>1. PICK a \in Endpoints, c \in Conns, m \in Message :
           /\ Greeted(a, c, m) /\ Binds(a, m) /\ Releases(a, m.sender_last_rx)
           /\ Reads(a, c, m, resend(unacked_after(a, m.sender_last_rx)))
    BY <1>13 DEF Greeting
  <2> DEFINE ms == resend(unacked_after(a, m.sender_last_rx))
  <2>2. Using(a, c) /\ ~Started(a, c) /\ m.sender_last_rx \in Nat /\ m.type = "Hello" /\ ms \in Seq(Message)
    BY <2>1, MessageFields DEF Greeted, Reads
  <2>3. /\ received_seq' = received_seq /\ Newest(d)' = Newest(d)
        /\ a # f => base_offset'[f] = base_offset[f]
    BY <1>3, <2>1, <2>2
  <2>4. remote_id'[a] = m.sender_id /\ (a # f => remote_id'[f] = remote_id[f])
    BY <1>0, <1>q, <2>1 DEF Binds, TypeOK
  <2>r. Reads(a, c, m, ms)
    BY <2>1
  <2> HIDE DEF ms
  <2>5. /\ a = f => /\ c = b /\ pipe[d][b] # <<>> /\ m = pipe[d][b][1]
                    /\ pipe'[d][b] = Tail(pipe[d][b]) /\ Started(a, b)'
                    /\ SameEnd(d, b)
        /\ a = d /\ c = b => /\ pipe'[d][b] = IF Dead(d, b) THEN pipe[d][b] ELSE pipe[d][b] \o ms
                             /\ SameEnd(f, b) /\ Using(d, b)
        /\ a = d /\ c # b => /\ pipe'[d][b] = pipe[d][b]
                             /\ SameEnd(f, b) /\ ~Started(d, b)'
    BY <2>r, ReadsOne DEF f
  <2>6. CASE a = f
    <3>1. SameWriter(d, b)
      BY <2>3, <2>5, <2>6 DEF SameWriter, SameEnd
    <3>2. ~Started(f, b) /\ remote_id'[f] = m.sender_id /\ received_seq'[f] = received_seq[f]
      BY <2>2, <2>3, <2>4, <2>5, <2>6
    <3> QED
      BY <2>2, <2>5, <2>6, <3>1, <3>2 DEF Consumes, PipeCase, f
  <2>7. CASE a = d
    <3>1. Steady(f, b)
      BY <1>q, <1>s, <2>3, <2>4, <2>5, <2>7
    <3>2. CASE c = b /\ ~Dead(d, b)
      <4>1. Adds(d, b, ms)
        BY <2>2, <2>5, <2>7, <3>1, <3>2 DEF Adds, f
      <4> QED
        BY <2>1, <2>7, <3>2, <4>1 DEF Resends, PipeCase, ms
    <3>3. CASE ~(c = b /\ ~Dead(d, b))
      BY <1>d, <2>5, <2>7, <3>1, <3>3 DEF SameWriter, PipeCase
    <3> QED
      BY <3>2, <3>3
  <2> QED
    BY <1>d, <2>6, <2>7
<1>14. CASE Releasing
  <2>1. PICK a \in Endpoints, c \in Conns, m \in Message :
           m.type = "Ack" /\ Reads(a, c, m, <<>>) /\ Releases(a, m.seq) /\ UNCHANGED remote_id
    BY <1>14 DEF Releasing
  <2>2. m.seq \in Nat /\ Started(a, c)
    BY <2>1, MessageFields DEF Reads
  <2>3. /\ received_seq' = received_seq /\ Newest(d)' = Newest(d)
        /\ a # f => base_offset'[f] = base_offset[f]
        /\ base_offset'[a] = m.seq
    BY <1>3, <2>1, <2>2
  <2> DEFINE ms == <<>>
  <2>r. Reads(a, c, m, ms)
    BY <2>1
  <2> HIDE DEF ms
  <2>5. /\ a = f => /\ c = b /\ pipe[d][b] # <<>> /\ m = pipe[d][b][1]
                    /\ pipe'[d][b] = Tail(pipe[d][b]) /\ Started(a, b)'
                    /\ SameEnd(d, b)
        /\ a = d /\ c = b => /\ pipe'[d][b] = IF Dead(d, b) THEN pipe[d][b] ELSE pipe[d][b] \o ms
                             /\ SameEnd(f, b) /\ Using(d, b)
        /\ a = d /\ c # b => /\ pipe'[d][b] = pipe[d][b]
                             /\ SameEnd(f, b) /\ ~Started(d, b)'
    BY <2>r, ReadsOne DEF f
  <2>6. CASE a = f
    <3>1. SameWriter(d, b)
      BY <2>3, <2>5, <2>6 DEF SameWriter, SameEnd
    <3>2. Started(f, b) /\ remote_id'[f] = remote_id[f] /\ received_seq'[f] = received_seq[f]
          /\ base_offset'[f] = m.seq
      BY <2>1, <2>2, <2>3, <2>5, <2>6
    <3> QED
      BY <2>1, <2>5, <2>6, <3>1, <3>2 DEF Consumes, PipeCase, f
  <2>7. CASE a = d
    <3>1. Steady(f, b)
      BY <1>q, <1>s, <2>1, <2>3, <2>5, <2>7
    <3>2. PICK s \in Seq(Message) : s = pipe[d][b]
      BY <1>0, PipeType
    <3>3. s \o <<>> = s
      OBVIOUS
    <3>4. pipe'[d][b] = pipe[d][b]
      BY <2>5, <2>7, <3>2, <3>3 DEF ms
    <3>5. c = b => Started(d, b)
      BY <2>2, <2>7
    <3>6. SameWriter(d, b)
      BY <2>3, <2>5, <2>7, <3>5 DEF SameWriter
    <3> QED
      BY <1>d, <3>1, <3>4, <3>6 DEF PipeCase
  <2> QED
    BY <1>d, <2>6, <2>7
<1>15. CASE Receiving
  <2>1. PICK a \in Endpoints, c \in Conns, m \in Message :
           m.type = "Data" /\ Reads(a, c, m, <<Ack(received_seq[a] + 1)>>) /\ Delivers(a, m.data)
    BY <1>15 DEF Receiving
  <2> DEFINE ms == <<Ack(received_seq[a] + 1)>>
  <2>2. Started(a, c) /\ ms \in Seq(Message) /\ Using(a, c) /\ pipe[Peer(a)][c] # <<>> /\ m = pipe[Peer(a)][c][1]
    BY <2>1 DEF Reads
  <2>3. /\ received_seq'[a] = received_seq[a] + 1 /\ UNCHANGED <<remote_id, base_offset, sent_unacked>>
        /\ a # f => received_seq'[f] = received_seq[f]
    BY <1>0, <1>q, <2>1 DEF Delivers, TypeOK
  <2>4. Newest(d)' = Newest(d)
    BY <2>3 DEF Newest
  <2>r. Reads(a, c, m, ms)
    BY <2>1
  <2> HIDE DEF ms
  <2>5. /\ a = f => /\ c = b /\ pipe[d][b] # <<>> /\ m = pipe[d][b][1]
                    /\ pipe'[d][b] = Tail(pipe[d][b]) /\ Started(a, b)'
                    /\ SameEnd(d, b)
        /\ a = d /\ c = b => /\ pipe'[d][b] = IF Dead(d, b) THEN pipe[d][b] ELSE pipe[d][b] \o ms
                             /\ SameEnd(f, b) /\ Using(d, b)
        /\ a = d /\ c # b => /\ pipe'[d][b] = pipe[d][b]
                             /\ SameEnd(f, b) /\ ~Started(d, b)'
    BY <2>r, ReadsOne DEF f
  <2>6. CASE a = f
    <3>1. SameWriter(d, b)
      BY <2>4, <2>5, <2>6 DEF SameWriter, SameEnd
    <3>2. Started(f, b) /\ remote_id'[f] = remote_id[f] /\ received_seq'[f] = received_seq[f] + 1
          /\ base_offset'[f] = base_offset[f]
      BY <2>2, <2>3, <2>5, <2>6
    <3> QED
      BY <2>1, <2>5, <2>6, <3>1, <3>2 DEF Consumes, PipeCase, f
  <2>7. CASE a = d
    <3>1. Steady(f, b)
      BY <1>q, <1>s, <2>3, <2>5, <2>7
    <3>w. SameWriter(d, b)
      <4>1. c = b => Started(d, b)
        BY <2>2, <2>7
      <4> QED
        BY <2>4, <2>5, <2>7, <4>1 DEF SameWriter
    <3>2. CASE c = b /\ ~Dead(d, b)
      <4>1. Adds(d, b, ms)
        BY <2>2, <2>5, <2>7, <3>1, <3>2 DEF Adds, f
      <4>2. pipe[Peer(d)][b] # <<>> /\ pipe[Peer(d)][b][1].type = "Data"
        BY <2>1, <2>2, <2>7, <3>2
      <4>3. Adds(d, b, <<Ack(received_seq[d] + 1)>>)
        BY <2>7, <4>1 DEF ms
      <4>4. Started(d, b) /\ received_seq'[d] = received_seq[d] + 1
        BY <2>2, <2>3, <2>7, <3>2
      <4> QED
        BY <3>w, <4>2, <4>3, <4>4 DEF Acknowledges, PipeCase
    <3>3. CASE ~(c = b /\ ~Dead(d, b))
      BY <1>d, <2>5, <2>7, <3>1, <3>w, <3>3 DEF PipeCase
    <3> QED
      BY <3>2, <3>3
  <2> QED
    BY <1>d, <2>6, <2>7
<1> QED
  BY <1>5, <1>6, <1>7, <1>8, <1>9, <1>10, <1>11, <1>12, <1>13, <1>14, <1>15 DEF Event

-----------------------------------------------------------------------------
(* DataContinues and DataComplete are kept.                                *)

\* The Data that e sends to a peer that uses the connection is taken for e's.
LEMMA SourceIs ==
    ASSUME StreamInv, NEW e \in Endpoints, NEW c \in Conns, Using(e, c), Using(Peer(e), c),
           Started(Peer(e), c) \/ pipe[e][c] # <<>>
    PROVE  Source(Peer(e), c) = id[e]
<1>0. TypeOK /\ HelloFirst /\ HelloFresh
  BY DEF StreamInv, ConnInv
<1>q. Peer(e) \in Endpoints /\ Peer(Peer(e)) = e
  BY PeerProperties
<1>1. CASE Started(Peer(e), c)
  BY <1>0, <1>1 DEF HelloFresh, Source
<1>2. CASE ~Started(Peer(e), c)
  <2>1. 1 \in 1 .. Len(pipe[e][c])
    BY <1>0, <1>2, PipeType
  <2>2. pipe[e][c][1].type = "Hello"
    BY <1>0, <1>2, <1>q, <2>1 DEF HelloFirst
  <2>3. pipe[e][c][1] = make_hello(e)
    BY <1>0, <2>1, <2>2 DEF HelloFresh
  <2> QED
    BY <1>2, <1>q, <2>3 DEF Source, make_hello, Hello
<1> QED
  BY <1>1, <1>2

\* The Data on such a connection goes on from where its reader is, to the newest.
LEMMA FlowStep ==
    ASSUME StreamInv, Event, TypeOK', NEW d \in Endpoints, NEW b \in Conns,
           Using(Peer(d), b), Using(Peer(d), b)'
    PROVE  /\ pipe'[d][b] # <<>> =>
                Continues(pipe'[d][b], Source(Peer(d), b)', received_seq'[Peer(d)])
           /\ Started(d, b)' /\ ~Dead(d, b) /\ b \notin broken' =>
                EndsAt(pipe'[d][b], id'[d], received_seq'[Peer(d)], Newest(d)')
<1> DEFINE f == Peer(d)
<1>0. TypeOK
  BY DEF StreamInv
<1>w. WindowNumbered
  BY DEF StreamInv
<1>v. HelloFirst /\ HelloKept /\ HelloOnly /\ HelloFresh /\ DataContinues /\ DataComplete
  BY DEF StreamInv, ConnInv
<1>q. f \in Endpoints /\ f # d /\ Peer(f) = d /\ Using(f, b) /\ Using(f, b)'
  BY PeerProperties
<1>p. PICK s \in Seq(Message) : s = pipe[d][b]
  BY <1>0, PipeType
<1>l. PICK lo \in Nat : lo = received_seq[f]
  BY <1>0, <1>q, StreamTypes
<1>t. /\ pipe'[d][b] \in Seq(Message) /\ received_seq'[f] \in Nat
      /\ Newest(d) \in Nat /\ id[d] \in Ids
  <2>1. pipe'[d][b] \in Seq(Message)
    BY DEF TypeOK
  <2>2. received_seq'[f] \in Nat
    BY <1>q, NextTypes
  <2>3. Newest(d) \in Nat /\ id[d] \in Ids
    BY <1>0, StreamTypes
  <2> QED
    BY <2>1, <2>2, <2>3
<1> DEFINE Goal == /\ pipe'[d][b] # <<>> =>
                        Continues(pipe'[d][b], Source(f, b)', received_seq'[f])
                   /\ Started(d, b)' /\ ~Dead(d, b) /\ b \notin broken' =>
                        EndsAt(pipe'[d][b], id'[d], received_seq'[f], Newest(d)')
<1> SUFFICES Goal
  OBVIOUS
<1> HIDE DEF f
<1>c. s # <<>> => Continues(s, Source(f, b), lo)
  BY <1>p, <1>l, <1>q, <1>v DEF DataContinues
<1>n. ASSUME NEW i, s = <<>> PROVE Continues(s, i, lo)
  <2>1. \A k \in 1 .. Len(s) : s[k].type # "Data"
    BY <1>n, EmptyKinds
  <2> QED
    BY <2>1, ContinuesNothing
<1>e. Started(d, b) /\ ~Dead(d, b) => EndsAt(s, id[d], lo, Newest(d))
  BY <1>p, <1>l, <1>v DEF DataComplete, f
<1>s. ASSUME Steady(f, b), Started(f, b) \/ (s # <<>> /\ pipe'[d][b][1] = s[1])
      PROVE  Source(f, b)' = Source(f, b) /\ received_seq'[f] = lo
  BY <1>s, <1>p, <1>l, <1>q DEF Steady, Source
<1>i. Started(d, b)' => id'[d] = id[d]
  <2>1. Started(d, b)' => Using(d, b)'
    BY DEF Started, Using, InStream
  <2> QED
    BY <2>1, UsingFurther DEF Further
\* Something new goes after what is d's.
<1>a. ASSUME NEW ms, Adds(d, b, ms)
      PROVE  /\ Source(f, b)' = id[d] /\ received_seq'[f] = lo
             /\ Continues(s, id[d], lo) /\ pipe'[d][b] = s \o ms /\ ms \in Seq(Message)
             /\ ~Dead(d, b) /\ Using(d, b)
  <2>1. /\ Steady(f, b) /\ ~Dead(d, b) /\ Using(d, b) /\ ms \in Seq(Message)
        /\ pipe'[d][b] = s \o ms
    BY <1>a, <1>p DEF Adds, f
  <2>2. Started(f, b) \/ s # <<>>
    BY <1>p, <1>v, <2>1 DEF HelloKept, f
  <2>3. Source(f, b) = id[d]
    BY <1>p, <1>q, <2>1, <2>2, SourceIs DEF f
  <2>4. s # <<>> => pipe'[d][b][1] = s[1]
    <3>1. s # <<>> => 1 \in 1 .. Len(s)
      BY LenProperties, EmptySeq
    <3> QED
      BY <2>1, <3>1, ConcatAt
  <2>5. Source(f, b)' = Source(f, b) /\ received_seq'[f] = lo
    BY <1>s, <2>1, <2>2, <2>4
  <2> QED
    BY <1>c, <1>n, <2>1, <2>3, <2>5
<1>1. CASE Stays(d, b)
  <2>1. Steady(f, b) /\ SameWriter(d, b) /\ pipe'[d][b] = s
    BY <1>1, <1>p DEF Stays, f
  <2>2. received_seq'[f] = lo
    BY <1>l, <2>1 DEF Steady
  <2>3. s # <<>> => Source(f, b)' = Source(f, b)
    BY <1>s, <2>1
  <2> QED
    BY <1>c, <1>e, <1>i, <2>1, <2>2, <2>3 DEF SameWriter
<1>2. CASE Shrinks(d, b)
  <2>1. Steady(f, b) /\ b \in broken'
    BY <1>2 DEF Shrinks, f
  <2>2. PICK t \in Prefixes(s) : t = pipe'[d][b]
    BY <1>2, <1>p DEF Shrinks
  <2>3. t \in Seq(Message) /\ Len(t) \in Nat /\ Len(s) \in Nat /\ Len(t) <= Len(s)
        /\ \A k \in 1 .. Len(t) : t[k] = s[k]
    BY PrefixAt
  <2>4. t # <<>> => s # <<>> /\ t[1] = s[1]
    <3>1. t # <<>> => 1 \in 1 .. Len(t) /\ 1 \in 1 .. Len(s)
      BY <2>3, EmptySeq
    <3> QED
      BY <2>3, <3>1, EmptyKinds
  <2>5. t # <<>> => Source(f, b)' = Source(f, b) /\ received_seq'[f] = lo
    BY <1>s, <2>1, <2>2, <2>4
  <2>6. t # <<>> => Continues(t, Source(f, b), lo)
    BY <1>c, <2>4, ContinuesPrefix
  <2> QED
    BY <2>1, <2>2, <2>5, <2>6
<1>3. CASE Begins(d, b)
  <2>1. pipe'[d][b] = <<make_hello(d)>> /\ ~Started(d, b)'
    BY <1>3 DEF Begins
  <2>2. PICK t \in Seq(Message) : t = pipe'[d][b]
    BY <1>t
  <2>3. \A k \in 1 .. Len(t) : t[k].type # "Data"
    BY <1>0, <2>1, <2>2, OnlyHello
  <2>4. Continues(t, Source(f, b)', received_seq'[f])
    BY <1>t, <2>3, ContinuesNothing
  <2> QED
    BY <2>1, <2>2, <2>4
<1>4. CASE Sends(d, b)
  <2> DEFINE p == Head(app_queue[d])
  <2>1. Enqueues(d) /\ Started(d, b) /\ Adds(d, b, <<Data(p)>>)
    BY <1>4 DEF Sends
  <2>2. app_queue[d] \in Seq(Payload) /\ app_queue[d] # <<>> /\ Numbered(app_queue[d], id[d], Newest(d))
    BY <1>0, <1>w, <2>1, StreamTypes DEF Enqueues, WindowNumbered
  <2>3. p = [from |-> id[d], n |-> Newest(d) + 1] /\ p \in Payload
    <3>1. p \in Payload
      BY <2>2, TailAt
    <3>2. p = [from |-> id[d], n |-> Newest(d) + 1]
      BY <1>t, <2>2, NumberedParts
    <3> QED
      BY <3>1, <3>2
  <2>4. <<p>> \in Seq(Payload) /\ Len(<<p>>) = 1 /\ <<p>>[1] = p
    BY <2>3
  <2>5. Numbered(<<p>>, id[d], Newest(d))
    BY <2>3, <2>4 DEF Numbered
  <2>6. resend(<<p>>) = <<Data(p)>>
    BY <2>4 DEF resend
  <2>7. /\ Source(f, b)' = id[d] /\ received_seq'[f] = lo
        /\ Continues(s, id[d], lo) /\ pipe'[d][b] = s \o <<Data(p)>> /\ ~Dead(d, b)
    BY <1>a, <2>1
  <2>8. EndsAt(s, id[d], lo, Newest(d))
    BY <1>e, <2>1, <2>7
  <2>9. Newest(d)' = Newest(d) + 1
    <3>1. sent_unacked'[d] = Append(sent_unacked[d], p) /\ base_offset'[d] = base_offset[d]
      BY <1>0, <2>1 DEF Enqueues, TypeOK
    <3>2. sent_unacked[d] \in Seq(Payload) /\ Len(sent_unacked[d]) \in Nat /\ base_offset[d] \in Nat
      BY <1>0, StreamTypes
    <3>3. Len(sent_unacked'[d]) = Len(sent_unacked[d]) + 1
      BY <2>3, <3>1, <3>2, AppendProperties
    <3> QED
      BY <3>1, <3>2, <3>3 DEF Newest
  <2> HIDE DEF p
  <2>10. /\ Continues(s \o resend(<<p>>), id[d], lo)
         /\ EndsAt(s \o resend(<<p>>), id[d], lo, Newest(d) + Len(<<p>>))
    BY <1>t, <2>4, <2>5, <2>7, <2>8, ContinuesResend
  <2> QED
    BY <1>i, <2>4, <2>6, <2>7, <2>9, <2>10
<1>5. CASE Resends(d, b)
  <2>1. PICK m \in Message :
           /\ Greeted(d, b, m) /\ Releases(d, m.sender_last_rx)
           /\ Adds(d, b, resend(unacked_after(d, m.sender_last_rx)))
    BY <1>5 DEF Resends
  <2>2. /\ m.sender_last_rx \in Nat /\ m.type = "Hello" /\ ~Started(d, b) /\ Using(d, b)
        /\ pipe[f][b] # <<>> /\ m = pipe[f][b][1]
    BY <2>1, MessageFields DEF Greeted, f
  <2>3. m.sender_last_rx = lo
    <3>1. 1 \in 1 .. Len(pipe[f][b])
      BY <1>0, <1>q, <2>2, PipeType
    <3>2. m = make_hello(f)
      BY <1>q, <1>v, <2>2, <3>1 DEF HelloFresh
    <3> QED
      BY <1>l, <3>2 DEF make_hello, Hello
  <2>4. Releases(d, lo) /\ Adds(d, b, resend(unacked_after(d, lo)))
    BY <2>1, <2>3
  <2>5. /\ lo <= Newest(d) /\ Newest(d)' = Newest(d)
        /\ Numbered(unacked_after(d, lo), id[d], lo) /\ unacked_after(d, lo) \in Seq(Payload)
        /\ Len(unacked_after(d, lo)) = Newest(d) - lo
    BY <1>0, <1>w, <2>4, ReleasesWindow
  <2>6. PICK u \in Seq(Payload) : u = unacked_after(d, lo)
    BY <2>5
  <2>7. Numbered(u, id[d], lo) /\ Adds(d, b, resend(u)) /\ lo + Len(u) = Newest(d)
    BY <1>t, <2>4, <2>5, <2>6
  <2>8. \A k \in 1 .. Len(s) : s[k].type # "Data"
    BY <1>p, <1>v, <2>2 DEF HelloOnly, Kinds
  <2>9. Continues(s, id[d], lo) /\ EndsAt(s, id[d], lo, lo)
    BY <2>8, ContinuesNothing
  <2>10. /\ Continues(s \o resend(u), id[d], lo)
         /\ EndsAt(s \o resend(u), id[d], lo, lo + Len(u))
    BY <2>7, <2>9, ContinuesResend
  <2>11. Source(f, b)' = id[d] /\ received_seq'[f] = lo /\ pipe'[d][b] = s \o resend(u)
    BY <1>a, <2>7
  <2> QED
    BY <1>i, <2>5, <2>7, <2>10, <2>11
<1>6. CASE Acknowledges(d, b)
  <2> DEFINE a == received_seq[d] + 1
  <2>1. Started(d, b) /\ SameWriter(d, b) /\ Adds(d, b, <<Ack(a)>>)
    BY <1>6 DEF Acknowledges
  <2>2. a \in Nat
    BY <1>0, StreamTypes
  <2> HIDE DEF a
  <2>3. Ack(a) \in Message /\ Ack(a).type = "Ack" /\ <<Ack(a)>> \in Seq(Message)
    BY <2>2, MessageConstructors, OneMessage DEF Ack
  <2>4. Kinds(<<Ack(a)>>, {"Hello", "Ack"})
    BY <2>3, OneMessage DEF Kinds
  <2>5. /\ Source(f, b)' = id[d] /\ received_seq'[f] = lo
        /\ Continues(s, id[d], lo) /\ pipe'[d][b] = s \o <<Ack(a)>> /\ ~Dead(d, b)
    BY <1>a, <2>1
  <2>6. /\ Continues(s \o <<Ack(a)>>, id[d], lo)
        /\ EndsAt(s, id[d], lo, Newest(d)) => EndsAt(s \o <<Ack(a)>>, id[d], lo, Newest(d))
    BY <1>t, <2>3, <2>4, <2>5, ContinuesOther
  <2> QED
    BY <1>e, <1>i, <2>1, <2>5, <2>6 DEF SameWriter
<1>7. CASE Consumes(d, b)
  <2>1. /\ s # <<>> /\ pipe'[d][b] = Tail(s) /\ SameWriter(d, b) /\ Started(f, b)'
        /\ \/ /\ s[1].type = "Hello" /\ ~Started(f, b)
              /\ remote_id'[f] = s[1].sender_id /\ received_seq'[f] = received_seq[f]
           \/ /\ s[1].type = "Ack" /\ Started(f, b)
              /\ remote_id'[f] = remote_id[f] /\ received_seq'[f] = received_seq[f]
           \/ /\ s[1].type = "Data" /\ Started(f, b)
              /\ remote_id'[f] = remote_id[f] /\ received_seq'[f] = received_seq[f] + 1
    BY <1>7, <1>p DEF Consumes, f
  <2>2. Source(f, b)' = Source(f, b)
    BY <1>p, <1>q, <2>1 DEF Source
  <2>3. Continues(s, Source(f, b), lo)
    BY <1>c, <2>1
  <2>4. received_seq'[f] = IF s[1].type = "Data" THEN lo + 1 ELSE lo
    BY <1>l, <2>1
  <2>5. Continues(Tail(s), Source(f, b), received_seq'[f])
    BY <2>1, <2>3, <2>4, ContinuesTail
  <2>6. ASSUME Started(d, b)', ~Dead(d, b)
        PROVE  EndsAt(Tail(s), id[d], received_seq'[f], Newest(d))
    <3>1. Started(d, b)
      BY <2>1, <2>6 DEF SameWriter
    <3>2. Using(d, b)
      BY <3>1 DEF Started, Using, InStream
    <3>3. Source(f, b) = id[d]
      BY <1>p, <1>q, <2>1, <3>2, SourceIs DEF f
    <3>4. EndsAt(s, id[d], lo, Newest(d)) /\ Continues(s, id[d], lo)
      BY <1>e, <2>3, <2>6, <3>1, <3>3
    <3> QED
      BY <1>t, <2>1, <2>4, <3>4, EndsAtTail
  <2> QED
    BY <1>i, <2>1, <2>2, <2>5, <2>6 DEF SameWriter
<1>8. PipeCase(d, b)
  BY <1>q, EventPipe DEF f
<1> QED
  BY <1>1, <1>2, <1>3, <1>4, <1>5, <1>6, <1>7, <1>8 DEF PipeCase

\* Every event keeps the Data in flight in order and without a gap.
LEMMA ContinuesStep == ASSUME StreamInv, Event, TypeOK' PROVE DataContinues'
<1> SUFFICES ASSUME NEW e \in Endpoints, NEW c \in Conns, Using(e, c)', pipe'[Peer(e)][c] # <<>>
             PROVE  Continues(pipe'[Peer(e)][c], Source(e, c)', received_seq'[e])
  BY DEF DataContinues
<1>q. Peer(e) \in Endpoints /\ Peer(Peer(e)) = e
  BY PeerProperties
<1>1. CASE Using(e, c)
  BY <1>1, <1>q, FlowStep
<1>2. CASE ~Using(e, c)
  <2>1. Kinds(pipe'[Peer(e)][c], {"Hello"})
    BY <1>2, NewUse
  <2>2. PICK t \in Seq(Message) : t = pipe'[Peer(e)][c]
    BY <1>q DEF TypeOK
  <2>3. \A k \in 1 .. Len(t) : t[k].type # "Data"
    BY <2>1, <2>2 DEF Kinds
  <2>4. received_seq'[e] \in Nat
    BY NextTypes
  <2> QED
    BY <2>2, <2>3, <2>4, ContinuesNothing
<1> QED
  BY <1>1, <1>2

\* A connection that is of no use stays so.
LEMMA DeadStays ==
    ASSUME StreamInv, Event, NEW e \in Endpoints, NEW c \in Conns, Dead(e, c)
    PROVE  Dead(e, c)'
<1>0. TypeOK
  BY DEF StreamInv
<1>a. /\ Quiet => broken' = broken
      /\ \A a \in Endpoints : \A cs : Leaves(a, cs) => broken' = broken
      /\ \A b \in Conns : Makes(b) => broken' = broken
      /\ \A b \in Conns : \A cs : Takes(b, cs) => broken' = broken
      /\ \A b \in Conns : Loses(b) => broken' = broken \cup {b}
      /\ \A a \in Endpoints, b \in Conns : \A p : Writes(a, b, p) => broken' = broken
      /\ \A a \in Endpoints, b \in Conns : \A m, ms : Reads(a, b, m, ms) => broken' = broken
  BY DEF Quiet, Leaves, Makes, Takes, Writes, Reads, Loses
<1>b. Idle \/ Opening \/ Breaking \/ Producing \/ Keeping => broken \subseteq broken'
  BY <1>a DEF Idle, Opening, Breaking, Producing, Keeping
<1>c. Writing \/ Renewing \/ Refusing => broken \subseteq broken'
  BY <1>a DEF Writing, Renewing, Refusing
<1>d. Greeting \/ Releasing \/ Receiving => broken \subseteq broken'
  BY <1>a DEF Greeting, Releasing, Receiving
<1>1. broken \subseteq broken'
  BY <1>b, <1>c, <1>d DEF Event
<1>2. ASSUME NEW a \in Endpoints, NEW cs, Leaves(a, cs) PROVE closed[c] \subseteq closed'[c]
  <2>1. Close(a, cs)
    BY <1>2 DEF Leaves
  <2>2. closed'[c] = IF c \in cs THEN closed[c] \cup {a} ELSE closed[c]
    BY <1>0, <2>1 DEF TypeOK, Close
  <2> QED
    BY <2>2
<1>3. ASSUME NEW b \in Conns, NEW cs, Takes(b, cs) PROVE closed[c] \subseteq closed'[c]
  BY <1>3 DEF Takes
<1>4. closed' = closed => closed[c] \subseteq closed'[c]
  OBVIOUS
<1>e. /\ Quiet => closed' = closed
      /\ \A b \in Conns : Makes(b) \/ Loses(b) => closed' = closed
      /\ \A a \in Endpoints, b \in Conns : \A p : Writes(a, b, p) => closed' = closed
      /\ \A a \in Endpoints, b \in Conns : \A m, ms : Reads(a, b, m, ms) => closed' = closed
  BY DEF Quiet, Makes, Writes, Reads, Loses
<1>f. Idle \/ Opening \/ Breaking \/ Producing \/ Keeping => closed[c] \subseteq closed'[c]
  BY <1>2, <1>3, <1>4, <1>e DEF Idle, Opening, Breaking, Producing, Keeping
<1>g. Writing \/ Renewing \/ Refusing => closed[c] \subseteq closed'[c]
  BY <1>2, <1>4, <1>e DEF Writing, Renewing, Refusing
<1>h. Greeting \/ Releasing \/ Receiving => closed[c] \subseteq closed'[c]
  BY <1>4, <1>e DEF Greeting, Releasing, Receiving
<1>5. closed[c] \subseteq closed'[c]
  BY <1>f, <1>g, <1>h DEF Event
<1> QED
  BY <1>1, <1>5 DEF Dead

\* Every event keeps the Data in flight complete, where a connection works.
LEMMA CompleteStep == ASSUME StreamInv, Event, TypeOK', EndsInv' PROVE DataComplete'
<1> SUFFICES ASSUME NEW e \in Endpoints, NEW c \in Conns, Started(e, c)', ~Dead(e, c)'
             PROVE  EndsAt(pipe'[e][c], id'[e], received_seq'[Peer(e)], Newest(e)')
  BY DEF DataComplete
<1>q. Peer(e) \in Endpoints /\ Peer(Peer(e)) = e
  BY PeerProperties
<1>1. Using(e, c)'
  BY DEF Started, Using, InStream
<1>2. c <= nconns' /\ Peer(e) \notin closed'[c] /\ c \notin broken'
  BY <1>1 DEF EndsInv, EndsOwned, Dead
<1>3. Using(Peer(e), c)' \/ Pending(Peer(e), c)'
  BY <1>2, <1>q DEF EndsInv, EndsOwned
<1>4. ~Pending(Peer(e), c)'
  BY <1>q DEF EndsInv, HelloOnly
<1>5. Using(Peer(e), c)
  BY <1>3, <1>4, <1>q, NewUse
<1>6. ~Dead(e, c)
  BY DeadStays
<1> QED
  BY <1>2, <1>3, <1>4, <1>5, <1>6, FlowStep

-----------------------------------------------------------------------------
(* AcksInWindow is kept.                                                   *)

\* The acknowledgements in s rise, from lo or more to hi or less.
Rises(s, lo, hi) ==
    \A k \in 1 .. Len(s) : s[k].type = "Ack" =>
        /\ lo <= s[k].seq /\ s[k].seq <= hi
        /\ \A j \in 1 .. k : s[j].type = "Ack" => s[j].seq <= s[k].seq

\* Rising acknowledgements rise without the first, in a beginning, and with another.
LEMMA RisesParts ==
    ASSUME NEW s \in Seq(Message), NEW lo \in Nat, NEW hi \in Nat, Rises(s, lo, hi)
    PROVE  /\ s # <<>> => Rises(Tail(s), lo, hi)
           /\ s # <<>> /\ s[1].type = "Ack" => Rises(Tail(s), s[1].seq, hi)
           /\ \A t \in Prefixes(s) : Rises(t, lo, hi)
           /\ \A t \in Seq(Message) : Kinds(t, {"Hello", "Data"}) => Rises(s \o t, lo, hi)
           /\ \A a \in Nat : lo <= a /\ hi <= a => Rises(s \o <<Ack(a)>>, lo, a)
           /\ \A y \in Nat : hi <= y => Rises(s, lo, y)
<1>t. \A k \in 1 .. Len(s) : s[k].type = "Ack" => s[k].seq \in Nat
  BY ElementOfSeq, MessageFields
<1>1. ASSUME s # <<>>
      PROVE  /\ Rises(Tail(s), lo, hi)
             /\ s[1].type = "Ack" => Rises(Tail(s), s[1].seq, hi)
  <2>1. /\ Len(s) \in Nat \ {0} /\ Len(Tail(s)) = Len(s) - 1
        /\ \A k \in 1 .. Len(s) - 1 : Tail(s)[k] = s[k + 1]
    BY <1>1, TailAt
  <2>2. ASSUME NEW k \in 1 .. Len(Tail(s)), Tail(s)[k].type = "Ack"
        PROVE  /\ lo <= Tail(s)[k].seq /\ Tail(s)[k].seq <= hi
               /\ s[1].type = "Ack" => s[1].seq <= Tail(s)[k].seq
               /\ \A j \in 1 .. k : Tail(s)[j].type = "Ack" => Tail(s)[j].seq <= Tail(s)[k].seq
    <3>1. k + 1 \in 1 .. Len(s) /\ Tail(s)[k] = s[k + 1] /\ 1 \in 1 .. k + 1
      BY <2>1
    <3>2. /\ lo <= s[k + 1].seq /\ s[k + 1].seq <= hi
          /\ \A j \in 1 .. k + 1 : s[j].type = "Ack" => s[j].seq <= s[k + 1].seq
      BY <2>2, <3>1 DEF Rises
    <3>3. \A j \in 1 .. k : j + 1 \in 1 .. k + 1 /\ Tail(s)[j] = s[j + 1]
      BY <2>1
    <3> QED
      BY <3>1, <3>2, <3>3
  <2> QED
    BY <2>2 DEF Rises
<1>2. ASSUME NEW t \in Prefixes(s) PROVE Rises(t, lo, hi)
  <2>1. Len(t) \in Nat /\ Len(s) \in Nat /\ Len(t) <= Len(s) /\ \A k \in 1 .. Len(t) : t[k] = s[k]
    BY PrefixAt
  <2>2. ASSUME NEW k \in 1 .. Len(t) PROVE k \in 1 .. Len(s) /\ \A j \in 1 .. k : j \in 1 .. Len(t)
    BY <2>1
  <2> QED
    BY <2>1, <2>2 DEF Rises
<1>3. ASSUME NEW t \in Seq(Message), Kinds(t, {"Hello", "Data"}) PROVE Rises(s \o t, lo, hi)
  <2>1. /\ Len(s) \in Nat /\ Len(t) \in Nat /\ Len(s \o t) = Len(s) + Len(t)
        /\ \A k \in 1 .. Len(s) : (s \o t)[k] = s[k]
        /\ \A k \in 1 .. Len(t) : (s \o t)[Len(s) + k] = t[k]
    BY ConcatAt
  <2>2. ASSUME NEW k \in 1 .. Len(s \o t), (s \o t)[k].type = "Ack" PROVE k \in 1 .. Len(s)
    <3>1. CASE k \notin 1 .. Len(s)
      <4>1. k - Len(s) \in 1 .. Len(t) /\ Len(s) + (k - Len(s)) = k
        BY <2>1, <3>1
      <4>2. (s \o t)[k] = t[k - Len(s)]
        BY <2>1, <4>1
      <4> QED
        BY <1>3, <2>2, <4>1, <4>2 DEF Kinds
    <3> QED
      BY <3>1
  <2>3. \A k \in 1 .. Len(s) : \A j \in 1 .. k : j \in 1 .. Len(s)
    BY <2>1
  <2> QED
    BY <2>1, <2>2, <2>3 DEF Rises
<1>4. ASSUME NEW a \in Nat, lo <= a, hi <= a PROVE Rises(s \o <<Ack(a)>>, lo, a)
  <2>1. Ack(a) \in Message /\ Ack(a).type = "Ack" /\ Ack(a).seq = a
    BY MessageConstructors DEF Ack
  <2>2. PICK t \in Seq(Message) : t = <<Ack(a)>> /\ Len(t) = 1 /\ t[1] = Ack(a)
    BY <2>1, OneMessage
  <2>3. /\ Len(s) \in Nat /\ Len(s \o t) = Len(s) + 1
        /\ \A k \in 1 .. Len(s) : (s \o t)[k] = s[k]
        /\ (s \o t)[Len(s) + 1] = Ack(a)
    BY <2>2, ConcatAt
  <2>4. \A k \in 1 .. Len(s \o t) : k \in 1 .. Len(s) \/ k = Len(s) + 1
    BY <2>3
  <2>5. ASSUME NEW k \in 1 .. Len(s), s[k].type = "Ack"
        PROVE  lo <= s[k].seq /\ s[k].seq <= a /\ \A j \in 1 .. k : j \in 1 .. Len(s)
    <3>1. lo <= s[k].seq /\ s[k].seq <= hi /\ s[k].seq \in Nat
      BY <1>t, <2>5 DEF Rises
    <3> QED
      BY <1>4, <2>3, <3>1
  <2>6. ASSUME NEW k \in 1 .. Len(s \o t), (s \o t)[k].type = "Ack"
        PROVE  /\ lo <= (s \o t)[k].seq /\ (s \o t)[k].seq <= a
               /\ \A j \in 1 .. k : (s \o t)[j].type = "Ack" => (s \o t)[j].seq <= (s \o t)[k].seq
    <3>1. CASE k \in 1 .. Len(s)
      BY <2>3, <2>5, <2>6, <3>1 DEF Rises
    <3>2. CASE k = Len(s) + 1
      <4>1. (s \o t)[k].seq = a
        BY <2>1, <2>3, <3>2
      <4>2. \A j \in 1 .. k : j \in 1 .. Len(s) \/ j = Len(s) + 1
        BY <2>3, <3>2
      <4>3. \A j \in 1 .. k : (s \o t)[j].type = "Ack" => (s \o t)[j].seq <= a
        BY <2>1, <2>3, <2>5, <4>2
      <4> QED
        BY <1>4, <4>1, <4>3
    <3> QED
      BY <2>4, <3>1, <3>2
  <2> QED
    BY <2>2, <2>6 DEF Rises
<1>5. ASSUME NEW y \in Nat, hi <= y PROVE Rises(s, lo, y)
  BY <1>t, <1>5 DEF Rises
<1> QED
  BY <1>1, <1>2, <1>3, <1>4, <1>5

\* AcksInWindow, of one connection.
AcksRise(e, c) ==
    /\ Rises(pipe[Peer(e)][c], base_offset[e], Newest(e))
    /\ remote_id[e] = id[Peer(e)] =>
          Rises(pipe[Peer(e)][c], base_offset[e], received_seq[Peer(e)])

\* AcksInWindow connection by connection, now and in the next state.
LEMMA AcksByConn ==
    /\ AcksInWindow <=> \A e \in Endpoints, c \in Conns : Started(e, c) => AcksRise(e, c)
    /\ AcksInWindow' <=> \A e \in Endpoints, c \in Conns : Started(e, c)' => AcksRise(e, c)'
BY DEF AcksInWindow, AcksRise, Rises

\* Every event keeps the acknowledgements in flight within the window.
LEMMA AcksStep == ASSUME StreamInv, Event, TypeOK' PROVE AcksInWindow'
<1> SUFFICES ASSUME NEW e \in Endpoints, NEW c \in Conns, Started(e, c)'
             PROVE  AcksRise(e, c)'
  BY AcksByConn
<1> DEFINE d == Peer(e)
<1>0. TypeOK /\ IdsInOrder
  BY DEF StreamInv
<1>v. HelloOnly /\ HelloFresh /\ AckedWasReceived
  BY DEF StreamInv, ConnInv
<1>q. d \in Endpoints /\ Peer(d) = e
  BY PeerProperties
<1>u. Using(e, c)'
  BY DEF Started, Using, InStream
<1>p. PICK s \in Seq(Message) : s = pipe[d][c]
  BY <1>0, <1>q, PipeType
<1>g. AcksRise(e, c)' <=> /\ Rises(pipe'[d][c], base_offset'[e], Newest(e)')
                          /\ remote_id'[e] = id'[d] =>
                                Rises(pipe'[d][c], base_offset'[e], received_seq'[d])
  BY DEF AcksRise
<1> HIDE DEF d
\* Nothing is acknowledged before the hello is read.
<1>n. ASSUME Kinds(pipe'[d][c], {"Hello", "Data"}) PROVE AcksRise(e, c)'
  BY <1>g, <1>n DEF Kinds, Rises
<1>1. CASE ~Started(e, c)
  <2>1. PICK m \in Message : /\ Greeted(e, c, m)
                             /\ Reads(e, c, m, resend(unacked_after(e, m.sender_last_rx)))
    BY <1>1, NewStart
  <2>2. Using(e, c)
    BY <2>1 DEF Greeted
  <2>3. pipe'[d][c] = Tail(s) /\ s # <<>>
    BY <1>p, <1>q, <2>1, <2>2, ReadsOne
  <2>4. Kinds(s, {"Hello", "Data"})
    BY <1>1, <1>p, <1>v DEF HelloOnly, d
  <2> QED
    BY <1>n, <2>3, <2>4, KindsParts
<1>2. CASE Started(e, c)
  <2>1. Using(e, c)
    BY <1>2 DEF Started, Using, InStream
  <2>2. PipeCase(d, c)
    BY <1>q, <1>u, <2>1, EventPipe
  <2>3. /\ base_offset[e] \in Nat /\ Newest(e) \in Nat /\ Newest(e)' \in Nat
        /\ received_seq[d] \in Nat /\ received_seq'[d] \in Nat /\ base_offset'[e] \in Nat
    BY <1>0, <1>q, StreamTypes, NextTypes
  <2>4. Newest(e) <= Newest(e)'
    BY <1>u, UsingFurther DEF Further
  <2>5. ASSUME remote_id'[e] = id'[d] PROVE remote_id[e] = id[d] /\ received_seq[d] <= received_seq'[d]
    <3>1. Further(e) /\ Further(d)
      BY <2>5, BoundGoesOn DEF d
    <3>2. remote_id[e] # NoId
      BY <1>0, <1>2 DEF IdsInOrder
    <3> QED
      BY <2>5, <3>1, <3>2 DEF Further
  <2>6. AcksRise(e, c)
    BY <1>2, AcksByConn DEF StreamInv
  <2>7. /\ Rises(s, base_offset[e], Newest(e))
        /\ remote_id[e] = id[d] => Rises(s, base_offset[e], received_seq[d])
    BY <1>p, <2>6 DEF AcksRise, d
  \* It is enough that the next messages rise to where the last ones did.
  <2>8. ASSUME NEW t \in Seq(Message), t = pipe'[d][c],
               Rises(t, base_offset'[e], Newest(e)),
               remote_id[e] = id[d] => Rises(t, base_offset'[e], received_seq[d])
        PROVE  AcksRise(e, c)'
    <3>1. Rises(t, base_offset'[e], Newest(e)')
      BY <2>3, <2>4, <2>8, RisesParts
    <3>2. remote_id'[e] = id'[d] => Rises(t, base_offset'[e], received_seq'[d])
      BY <2>3, <2>5, <2>8, RisesParts
    <3> QED
      BY <1>g, <2>8, <3>1, <3>2
  <2>t. pipe'[d][c] \in Seq(Message)
    BY <1>q DEF TypeOK
  <2>9. CASE Stays(d, c)
    <3>1. base_offset'[e] = base_offset[e] /\ s = pipe'[d][c]
      BY <1>p, <1>q, <2>9 DEF Stays, Steady
    <3> QED
      BY <2>7, <2>8, <3>1
  <2>10. CASE Shrinks(d, c)
    <3>1. base_offset'[e] = base_offset[e]
      BY <1>q, <2>10 DEF Shrinks, Steady
    <3>2. PICK t \in Prefixes(s) : t = pipe'[d][c]
      BY <1>p, <2>10 DEF Shrinks
    <3>3. t \in Seq(Message)
      BY <2>t, <3>2
    <3>4. Rises(t, base_offset[e], Newest(e))
      BY <2>3, <2>7, RisesParts
    <3>5. remote_id[e] = id[d] => Rises(t, base_offset[e], received_seq[d])
      BY <2>3, <2>7, RisesParts
    <3> QED
      BY <2>8, <3>1, <3>2, <3>3, <3>4, <3>5
  <2>11. CASE Begins(d, c)
    <3>1. pipe'[d][c] = <<make_hello(d)>>
      BY <2>11 DEF Begins
    <3>2. Kinds(pipe'[d][c], {"Hello", "Data"})
      BY <1>0, <1>q, <3>1, OnlyHello
    <3> QED
      BY <1>n, <3>2
  <2>12. ASSUME NEW ms, Adds(d, c, ms), Kinds(ms, {"Hello", "Data"}) PROVE AcksRise(e, c)'
    <3>1. base_offset'[e] = base_offset[e] /\ pipe'[d][c] = s \o ms /\ ms \in Seq(Message)
      BY <1>p, <1>q, <2>12 DEF Adds, Steady
    <3>2. PICK t \in Seq(Message) : t = s \o ms
      BY <2>t, <3>1
    <3>3. Rises(s \o ms, base_offset[e], Newest(e))
      BY <2>3, <2>7, <2>12, <3>1, RisesParts
    <3>4. remote_id[e] = id[d] => Rises(s \o ms, base_offset[e], received_seq[d])
      BY <2>3, <2>7, <2>12, <3>1, RisesParts
    <3> QED
      BY <2>8, <3>1, <3>2, <3>3, <3>4
  <2>13. CASE Sends(d, c)
    <3>1. Adds(d, c, <<Data(Head(app_queue[d]))>>)
      BY <2>13 DEF Sends
    <3>2. Kinds(<<Data(Head(app_queue[d]))>>, {"Hello", "Data"})
      <4>1. Data(Head(app_queue[d])).type = "Data"
        BY DEF Data
      <4>2. \A x : Len(<<x>>) = 1 /\ <<x>>[1] = x
        OBVIOUS
      <4>3. \A k \in 1 .. 1 : k = 1
        OBVIOUS
      <4> QED
        BY <4>1, <4>2, <4>3 DEF Kinds
    <3> QED
      BY <2>12, <3>1, <3>2
  <2>14. CASE Resends(d, c)
    <3>1. PICK m \in Message : /\ Greeted(d, c, m) /\ Releases(d, m.sender_last_rx)
                               /\ Adds(d, c, resend(unacked_after(d, m.sender_last_rx)))
      BY <2>14 DEF Resends
    <3>2. m.sender_last_rx \in Nat
      BY <3>1, MessageFields DEF Greeted
    <3>3. PICK u \in Seq(Payload) : u = unacked_after(d, m.sender_last_rx)
      BY <1>0, <1>q, <3>1, <3>2, ReleasesWindow DEF StreamInv
    <3>4. Kinds(resend(u), {"Hello", "Data"})
      <4>1. \A k \in 1 .. Len(u) : resend(u)[k].type = "Data"
        BY DEF resend, Data
      <4>2. Len(resend(u)) = Len(u)
        BY ResendType
      <4> QED
        BY <4>1, <4>2 DEF Kinds
    <3> QED
      BY <2>12, <3>1, <3>3, <3>4
  <2>15. CASE Acknowledges(d, c)
    <3> DEFINE a == received_seq[d] + 1
    <3>1. /\ Started(d, c) /\ Adds(d, c, <<Ack(a)>>) /\ received_seq'[d] = a
          /\ pipe[e][c] # <<>> /\ pipe[e][c][1].type = "Data" /\ Using(d, c)
      BY <1>q, <2>15 DEF Acknowledges, Adds
    <3>2. remote_id[e] = id[d] /\ remote_id[d] = id[e]
      <4>1. \A g \in Endpoints : Using(g, c) /\ Started(Peer(g), c) => remote_id[Peer(g)] = id[g]
        BY <1>v DEF HelloFresh
      <4>2. remote_id[d] = id[e]
        BY <2>1, <3>1, <4>1 DEF d
      <4> QED
        BY <1>2, <1>q, <3>1, <4>1, <4>2
    <3>3. a <= Newest(e)
      BY <1>q, <3>1, <3>2, NextData
    <3>4. base_offset[e] <= received_seq[d]
      BY <1>v, <3>2 DEF AckedWasReceived, d
    <3>5. a \in Nat /\ base_offset[e] <= a /\ received_seq[d] <= a
      BY <2>3, <3>4
    <3>6. base_offset'[e] = base_offset[e] /\ pipe'[d][c] = s \o <<Ack(a)>>
      BY <1>p, <1>q, <3>1 DEF Adds, Steady
    <3> HIDE DEF a
    <3>7. Rises(s \o <<Ack(a)>>, base_offset[e], a)
      BY <2>3, <2>7, <3>2, <3>5, RisesParts
    <3>8. PICK t \in Seq(Message) : t = s \o <<Ack(a)>>
      BY <2>t, <3>6
    <3>9. Rises(t, base_offset'[e], a)
      BY <3>6, <3>7, <3>8
    <3>10. Rises(t, base_offset'[e], Newest(e)')
      <4>1. a <= Newest(e)'
        BY <2>3, <2>4, <3>3, <3>5
      <4> QED
        BY <2>3, <3>5, <3>9, <4>1, RisesParts
    <3> QED
      BY <1>g, <3>1, <3>6, <3>8, <3>9, <3>10
  <2>16. CASE Consumes(d, c)
    <3>1. /\ s # <<>> /\ pipe'[d][c] = Tail(s)
          /\ \/ s[1].type = "Ack" /\ base_offset'[e] = s[1].seq
             \/ base_offset'[e] = base_offset[e]
      BY <1>2, <1>p, <1>q, <2>16 DEF Consumes
    <3>2. PICK t \in Seq(Message) : t = Tail(s)
      BY <2>t, <3>1
    <3>3. Rises(Tail(s), base_offset'[e], Newest(e))
      BY <2>3, <2>7, <3>1, RisesParts
    <3>4. remote_id[e] = id[d] => Rises(Tail(s), base_offset'[e], received_seq[d])
      BY <2>3, <2>7, <3>1, RisesParts
    <3> QED
      BY <2>8, <3>1, <3>2, <3>3, <3>4
  <2> QED
    BY <2>2, <2>9, <2>10, <2>11, <2>13, <2>14, <2>15, <2>16 DEF PipeCase
<1> QED
  BY <1>1, <1>2
=============================================================================
