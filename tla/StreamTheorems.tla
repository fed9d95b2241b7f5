--------------------------- MODULE StreamTheorems ---------------------------
(***************************************************************************)
(* What holds of ReconnectingStream for every value of the constants: that *)
(* StreamInv is an invariant, the safety properties that follow from it,   *)
(* and the refinement of ReliableLink.                                     *)
(***************************************************************************)
EXTENDS StreamInvariantProofs

-----------------------------------------------------------------------------
(* AckedWasReceived is kept.                                               *)

\* What e may still be told on other connections than its own: nothing if it is the
\* client, and what waits on a later one if it is the server.
LEMMA LaterPipes ==
    ASSUME TypeOK, ConnInv, NEW e \in Endpoints, NEW b \in Conns, Using(e, b),
           NEW c \in Conns, c # b, pipe[Peer(e)][c] # <<>>
    PROVE  e = "server" /\ b < c
<1>0. EndsOwned /\ ConnsInOrder /\ nconns \in Nat /\ b \in Nat /\ c \in Nat
  BY DEF ConnInv, TypeOK, Conns
<1>1. Peer(e) \in Endpoints /\ Peer(Peer(e)) = e
  BY PeerProperties
<1>2. ~(c > nconns \/ e \in closed[c])
  BY <1>0, <1>1 DEF EndsOwned
<1>3. Using(e, c) \/ Pending(e, c)
  BY <1>0, <1>2 DEF EndsOwned
<1>4. Pending(e, c) /\ conn[e] = b
  BY <1>3 DEF Using
<1>5. e = "server" /\ conn["server"] < c
  BY <1>0, <1>4 DEF Pending, ConnsInOrder
<1> QED
  BY <1>4, <1>5

\* The hello that the next pipe holds, if the last one held it.
LEMMA OldHello ==
    ASSUME StreamInv, NEW e \in Endpoints, NEW c \in Conns, NEW m,
           Holds(pipe[Peer(e)][c], m), m.type = "Hello"
    PROVE  /\ m = pipe[Peer(e)][c][1] /\ pipe[Peer(e)][c] # <<>> /\ ~Started(e, c)
           /\ m.sender_id \in Nat \ {0} /\ m.sender_last_rx \in Nat
           /\ m.sender_id <= id[Peer(e)] /\ m.sender_id # id[e]
           /\ m.sender_id = id[Peer(e)] => m.sender_last_rx <= received_seq[Peer(e)]
           /\ m.sender_id = remote_id[e] => base_offset[e] <= m.sender_last_rx
           /\ remote_id[e] = id[Peer(e)] => m.sender_id = id[Peer(e)]
<1> DEFINE f == Peer(e)
<1>0. TypeOK /\ HelloFirst /\ IdsInOrder /\ AckedWasReceived
  BY DEF StreamInv, ConnInv
<1>q. f \in Endpoints /\ Peer(f) = e
  BY PeerProperties
<1>1. PICK j \in 1 .. Len(pipe[f][c]) : pipe[f][c][j] = m
  BY DEF Holds
<1>2. j = 1 /\ ~Started(e, c)
  BY <1>0, <1>1 DEF HelloFirst
<1>3. pipe[f][c] # <<>>
  BY <1>1, EmptyKinds
<1>4. m \in Message
  BY <1>0, <1>1, <1>q, PipeType, ElementOfSeq
<1>5. m.sender_id \in Nat \ {0} /\ m.sender_last_rx \in Nat
  BY <1>4, MessageFields, BoundAssumption DEF Ids
<1>6. m.sender_id <= id[f] /\ m.sender_id # id[e]
  BY <1>0, <1>1, <1>q DEF IdsInOrder
<1>7. /\ m.sender_id = id[f] => m.sender_last_rx <= received_seq[f]
      /\ m.sender_id = remote_id[e] => base_offset[e] <= m.sender_last_rx
      /\ remote_id[e] = id[f] => m.sender_id = id[f]
  BY <1>0, <1>1 DEF AckedWasReceived
<1> QED
  BY <1>1, <1>2, <1>3, <1>5, <1>6, <1>7

\* Of two hellos for the same end, the one that it reads was written first.
LEMMA ReadBefore ==
    ASSUME StreamInv, NEW e \in Endpoints, NEW b \in Conns, NEW c \in Conns, c # b,
           NEW m, Holds(pipe[Peer(e)][c], m), m.type = "Hello",
           Using(e, b), pipe[Peer(e)][b] # <<>>, NEW x, x = pipe[Peer(e)][b][1]
    PROVE  /\ x.type = "Hello" =>
                /\ x.sender_id <= m.sender_id
                /\ x.sender_id = m.sender_id => x.sender_last_rx <= m.sender_last_rx
           /\ x.type = "Ack" /\ Started(e, b) /\ m.sender_id = remote_id[e] =>
                x.seq <= m.sender_last_rx
<1>0. TypeOK /\ ConnInv /\ HellosInOrder
  BY DEF StreamInv
<1>1. m = pipe[Peer(e)][c][1] /\ pipe[Peer(e)][c] # <<>>
  BY OldHello
<1>2. e = "server" /\ b < c
  BY <1>0, <1>1, LaterPipes
<1>3. Peer(e) = "client" /\ "client" \in Endpoints
  BY <1>2 DEF Peer, Endpoints
<1>4. 1 \in 1 .. Len(pipe["client"][b])
  BY <1>0, <1>3, PipeType
<1> QED
  BY <1>0, <1>1, <1>2, <1>3, <1>4 DEF HellosInOrder

\* Every event keeps the window and the hellos behind what was received.
LEMMA AckedStep == ASSUME StreamInv, Event, TypeOK', EndsInv' PROVE AckedWasReceived'
<1> SUFFICES ASSUME NEW e \in Endpoints
             PROVE  /\ remote_id'[e] = id'[Peer(e)] => base_offset'[e] <= received_seq'[Peer(e)]
                    /\ \A c \in Conns : \A k \in 1 .. Len(pipe'[Peer(e)][c]) :
                          LET m == pipe'[Peer(e)][c][k] IN
                          m.type = "Hello" =>
                             /\ m.sender_id = id'[Peer(e)] => m.sender_last_rx <= received_seq'[Peer(e)]
                             /\ m.sender_id = remote_id'[e] => base_offset'[e] <= m.sender_last_rx
                             /\ remote_id'[e] = id'[Peer(e)] => m.sender_id = id'[Peer(e)]
  BY DEF AckedWasReceived
<1> DEFINE f == Peer(e)
<1>0. TypeOK /\ Received /\ AcksInWindow /\ AckedWasReceived /\ IdsInOrder /\ WindowNumbered
  BY DEF StreamInv
<1>q. f \in Endpoints /\ Peer(f) = e
  BY PeerProperties
<1>t. /\ base_offset[e] \in Nat /\ received_seq[f] \in Nat /\ received_seq'[f] \in Nat
      /\ id[f] \in Nat \ {0} /\ nids \in Nat /\ id[f] <= nids
  BY <1>0, <1>q, StreamTypes, NextTypes DEF IdsInOrder
<1>b. \/ remote_id'[e] = remote_id[e] /\ base_offset'[e] = base_offset[e]
      \/ Renewed(e) /\ Renewing
      \/ \E c \in Conns, m \in Message : GreetedBy(e, c, m) \/ AckedBy(e, c, m)
  BY EventBinding
<1>f. Further(f) \/ Renewed(f)
  BY <1>0, <1>q, EventProgress
<1>z. remote_id[e] = NoId => base_offset[e] = 0
  BY <1>0 DEF Received
<1>o. remote_id[e] = id[f] => base_offset[e] <= received_seq[f]
  BY <1>0 DEF AckedWasReceived
\* What a hello says that e reads.
<1>g. ASSUME NEW c \in Conns, NEW x \in Message, GreetedBy(e, c, x)
      PROVE  /\ Using(e, c) /\ x.type = "Hello" /\ x = pipe[f][c][1] /\ pipe[f][c] # <<>>
             /\ Holds(pipe[f][c], x)
             /\ remote_id[e] \in {NoId, x.sender_id} /\ remote_id'[e] = x.sender_id
             /\ base_offset'[e] \in {x.sender_last_rx, base_offset[e]} /\ id' = id
             /\ Leaves(e, {c}) \/ Started(e, c)'
             /\ x.sender_last_rx \in Nat
  <2>1. /\ Using(e, c) /\ x.type = "Hello" /\ x = pipe[f][c][1] /\ pipe[f][c] # <<>>
    BY <1>g DEF GreetedBy, Greeted
  <2>2. 1 \in 1 .. Len(pipe[f][c])
    BY <1>0, <1>q, <2>1, PipeType
  <2>3. Holds(pipe[f][c], x)
    BY <2>1, <2>2 DEF Holds
  <2>4. x.sender_last_rx \in Nat
    BY <2>1, MessageFields
  <2> QED
    BY <1>g, <2>1, <2>3, <2>4 DEF GreetedBy
<1>k. ASSUME NEW c \in Conns, NEW x \in Message, AckedBy(e, c, x)
      PROVE  /\ Started(e, c) /\ Using(e, c) /\ x.type = "Ack" /\ x = pipe[f][c][1] /\ pipe[f][c] # <<>>
             /\ remote_id'[e] = remote_id[e] /\ base_offset'[e] = x.seq /\ id' = id
             /\ remote_id[e] = id[f] => x.seq <= received_seq[f]
  <2>1. /\ Started(e, c) /\ x.type = "Ack" /\ x = pipe[f][c][1] /\ pipe[f][c] # <<>>
    BY <1>k DEF AckedBy
  <2>2. 1 \in 1 .. Len(pipe[f][c])
    BY <1>0, <1>q, <2>1, PipeType
  <2>3. remote_id[e] = id[f] => x.seq <= received_seq[f]
    BY <1>0, <2>1, <2>2 DEF AcksInWindow
  <2> QED
    BY <1>k, <2>1, <2>3 DEF AckedBy, Started, Using, InStream
<1>1. ASSUME remote_id'[e] = id'[f] PROVE base_offset'[e] <= received_seq'[f]
  <2>1. /\ Further(e) /\ Further(f)
    BY <1>1, BoundGoesOn
  <2>2. id'[f] = id[f] /\ received_seq[f] <= received_seq'[f]
    BY <2>1 DEF Further
  <2>3. CASE remote_id'[e] = remote_id[e] /\ base_offset'[e] = base_offset[e]
    BY <1>1, <1>o, <1>t, <2>2, <2>3
  <2>4. CASE Renewed(e)
    BY <1>t, <2>4 DEF Renewed
  <2>5. ASSUME NEW c \in Conns, NEW x \in Message, GreetedBy(e, c, x)
        PROVE  base_offset'[e] <= received_seq'[f]
    <3>1. /\ Holds(pipe[f][c], x) /\ x.type = "Hello" /\ remote_id[e] \in {NoId, x.sender_id}
          /\ remote_id'[e] = x.sender_id /\ base_offset'[e] \in {x.sender_last_rx, base_offset[e]}
          /\ x.sender_last_rx \in Nat
      BY <1>g, <2>5
    <3>2. x.sender_last_rx <= received_seq[f]
      BY <1>1, <2>2, <3>1, OldHello
    <3>3. base_offset[e] <= received_seq[f]
      BY <1>1, <1>o, <1>t, <1>z, <2>2, <3>1
    <3> QED
      BY <1>t, <2>2, <3>1, <3>2, <3>3
  <2>6. ASSUME NEW c \in Conns, NEW x \in Message, AckedBy(e, c, x)
        PROVE  base_offset'[e] <= received_seq'[f]
    <3>1. base_offset'[e] = x.seq /\ x.seq <= received_seq[f]
      BY <1>1, <1>k, <2>2, <2>6
    <3>2. base_offset'[e] \in Nat
      BY NextTypes
    <3> QED
      BY <1>t, <2>2, <3>1, <3>2
  <2> QED
    BY <1>b, <2>3, <2>4, <2>5, <2>6
<1>2. ASSUME NEW c \in Conns, NEW m, Holds(pipe'[f][c], m), m.type = "Hello"
      PROVE  /\ m.sender_id = id'[f] => m.sender_last_rx <= received_seq'[f]
             /\ m.sender_id = remote_id'[e] => base_offset'[e] <= m.sender_last_rx
             /\ remote_id'[e] = id'[f] => m.sender_id = id'[f]
  <2>1. Holds(pipe[f][c], m) \/ Fresh(f, c, m)
    BY <1>2, <1>q, EventOrigin
  <2>2. CASE Fresh(f, c, m)
    <3>1. m = make_hello(f) /\ UNCHANGED <<id, remote_id, base_offset, received_seq>>
      BY <1>2, <2>2 DEF Fresh, streamVars
    <3>2. m.sender_id = id[f] /\ m.sender_last_rx = received_seq[f]
      BY <3>1 DEF make_hello, Hello
    <3> QED
      BY <1>o, <1>t, <3>1, <3>2
  <2>3. CASE Holds(pipe[f][c], m)
    <3>0. /\ m = pipe[f][c][1] /\ pipe[f][c] # <<>> /\ ~Started(e, c)
          /\ m.sender_id \in Nat \ {0} /\ m.sender_last_rx \in Nat
          /\ m.sender_id <= id[f]
          /\ m.sender_id = id[f] => m.sender_last_rx <= received_seq[f]
          /\ m.sender_id = remote_id[e] => base_offset[e] <= m.sender_last_rx
          /\ remote_id[e] = id[f] => m.sender_id = id[f]
      BY <1>2, <2>3, OldHello
    <3>1. ASSUME m.sender_id = id'[f] PROVE m.sender_last_rx <= received_seq'[f]
      <4>1. Further(f)
        <5>1. Renewed(f) => id'[f] = nids + 1
          BY DEF Renewed
        <5> QED
          BY <1>f, <1>t, <3>0, <3>1, <5>1
      <4> QED
        BY <1>t, <3>0, <3>1, <4>1 DEF Further
    \* A hello that e reads was on another connection than m.
    <3>2. ASSUME NEW b \in Conns, NEW x \in Message, GreetedBy(e, b, x)
          PROVE  /\ c # b /\ x.sender_id <= m.sender_id
                 /\ x.sender_id = m.sender_id => x.sender_last_rx <= m.sender_last_rx
      <4>1. /\ Using(e, b) /\ x.type = "Hello" /\ x = pipe[f][b][1] /\ pipe[f][b] # <<>>
            /\ Leaves(e, {b}) \/ Started(e, b)'
        BY <1>g, <3>2
      <4>2. c # b
        <5>1. ASSUME Leaves(e, {c}) PROVE FALSE
          <6>1. Close(e, {c})
            BY <5>1 DEF Leaves
          <6>2. pipe'[f][c] = <<>>
            BY <1>0, <1>q, <6>1 DEF TypeOK, Close
          <6> QED
            BY <1>2, <6>2, EmptyKinds DEF Holds
        <5>2. ASSUME Started(e, c)' PROVE FALSE
          <6>1. HelloFirst'
            BY DEF EndsInv
          <6>2. PICK j \in 1 .. Len(pipe'[f][c]) : pipe'[f][c][j] = m
            BY <1>2 DEF Holds
          <6> QED
            BY <1>2, <5>2, <6>1, <6>2 DEF HelloFirst
        <5> QED
          BY <4>1, <5>1, <5>2
      <4> QED
        BY <1>2, <2>3, <4>1, <4>2, ReadBefore
    <3>3. ASSUME m.sender_id = remote_id'[e] PROVE base_offset'[e] <= m.sender_last_rx
      <4>1. CASE remote_id'[e] = remote_id[e] /\ base_offset'[e] = base_offset[e]
        BY <3>0, <3>3, <4>1
      <4>2. ~Renewed(e)
        BY <3>0, <3>3 DEF Renewed, NoId
      <4>3. ASSUME NEW b \in Conns, NEW x \in Message, GreetedBy(e, b, x)
            PROVE  base_offset'[e] <= m.sender_last_rx
        <5>1. /\ remote_id[e] \in {NoId, x.sender_id} /\ remote_id'[e] = x.sender_id
              /\ base_offset'[e] \in {x.sender_last_rx, base_offset[e]}
          BY <1>g, <4>3
        <5>2. x.sender_last_rx <= m.sender_last_rx
          BY <3>2, <3>3, <4>3, <5>1
        <5>3. base_offset[e] <= m.sender_last_rx
          BY <1>z, <3>0, <3>3, <5>1
        <5> QED
          BY <5>1, <5>2, <5>3
      <4>4. ASSUME NEW b \in Conns, NEW x \in Message, AckedBy(e, b, x)
            PROVE  base_offset'[e] <= m.sender_last_rx
        <5>1. /\ Started(e, b) /\ Using(e, b) /\ x.type = "Ack" /\ x = pipe[f][b][1] /\ pipe[f][b] # <<>>
              /\ remote_id'[e] = remote_id[e] /\ base_offset'[e] = x.seq
          BY <1>k, <4>4
        <5>2. c # b
          BY <3>0, <5>1
        <5> QED
          BY <1>2, <2>3, <3>3, <5>1, <5>2, ReadBefore
      <4> QED
        BY <1>b, <4>1, <4>2, <4>3, <4>4
    <3>4. ASSUME remote_id'[e] = id'[f] PROVE m.sender_id = id'[f]
      <4>1. Further(f) /\ Further(e)
        BY <3>4, BoundGoesOn
      <4>2. id'[f] = id[f]
        BY <4>1 DEF Further
      <4>3. CASE remote_id'[e] = remote_id[e]
        BY <3>0, <3>4, <4>2, <4>3
      <4>4. ~Renewed(e)
        BY <1>t, <3>4, <4>2 DEF Renewed, NoId
      <4>5. ASSUME NEW b \in Conns, NEW x \in Message, GreetedBy(e, b, x)
            PROVE  m.sender_id = id'[f]
        <5>1. x.sender_id = id[f] /\ x.sender_id <= m.sender_id
          BY <1>g, <3>2, <3>4, <4>2, <4>5
        <5> QED
          BY <1>t, <3>0, <4>2, <5>1
      <4> QED
        BY <1>b, <1>k, <4>3, <4>4, <4>5
    <3> QED
      BY <3>1, <3>3, <3>4
  <2> QED
    BY <2>1, <2>2, <2>3
<1>3. ASSUME NEW c \in Conns, NEW k \in 1 .. Len(pipe'[f][c]), pipe'[f][c][k].type = "Hello"
      PROVE  LET m == pipe'[f][c][k]
             IN /\ m.sender_id = id'[f] => m.sender_last_rx <= received_seq'[f]
                /\ m.sender_id = remote_id'[e] => base_offset'[e] <= m.sender_last_rx
                /\ remote_id'[e] = id'[f] => m.sender_id = id'[f]
  <2> DEFINE m == pipe'[f][c][k]
  <2>1. Holds(pipe'[f][c], m) /\ m.type = "Hello"
    BY <1>3 DEF Holds
  <2> HIDE DEF m
  <2>2. /\ m.sender_id = id'[f] => m.sender_last_rx <= received_seq'[f]
        /\ m.sender_id = remote_id'[e] => base_offset'[e] <= m.sender_last_rx
        /\ remote_id'[e] = id'[f] => m.sender_id = id'[f]
    BY <1>2, <2>1
  <2> QED
    BY <2>2 DEF m
<1> QED
  BY <1>1, <1>3

-----------------------------------------------------------------------------
(* Acknowledged is kept.                                                   *)

\* What an incarnation has been handed, it keeps: also one that was replaced.
LEMMA DeliveredGrows ==
    ASSUME TypeOK, Event, NEW i \in Ids
    PROVE  /\ Len(delivered[i]) \in Nat /\ Len(delivered'[i]) \in Nat
           /\ Len(delivered[i]) <= Len(delivered'[i])
<1> USE DEF streamVars
<1>0. delivered \in [Ids -> Seq(Payload)] /\ \A d \in Endpoints : id[d] \in Ids
  BY DEF TypeOK
<1>1. Len(delivered[i]) \in Nat
  BY <1>0
<1>2. CASE delivered' = delivered
  BY <1>1, <1>2
<1>3. ASSUME NEW e \in Endpoints, NEW p \in Payload,
             delivered' = [delivered EXCEPT ![id[e]] = Append(@, p)]
      PROVE  Len(delivered'[i]) \in Nat /\ Len(delivered[i]) <= Len(delivered'[i])
  <2>1. Len(Append(delivered[i], p)) = Len(delivered[i]) + 1
    BY <1>0, AppendProperties
  <2>2. delivered'[i] \in {delivered[i], Append(delivered[i], p)}
    BY <1>0, <1>3
  <2> QED
    BY <1>1, <2>1, <2>2
<1>4. CASE Receiving
  <2>1. PICK e \in Endpoints, m \in Message : m.type = "Data" /\ Delivers(e, m.data)
    BY <1>4 DEF Receiving
  <2>2. m.data \in Payload
    BY <2>1, MessageFields
  <2> QED
    BY <1>1, <1>3, <2>1, <2>2 DEF Delivers
<1>5. CASE Idle \/ Opening \/ Breaking \/ Producing \/ Keeping \/ Writing
  BY <1>2, <1>1, <1>5 DEF Idle, Opening, Breaking, SameStreams, Producing, Produces,
                          Keeping, Writing, Enqueues
<1>6. CASE Refusing \/ Greeting
  BY <1>2, <1>1, <1>6 DEF Refusing, Greeting, Binds
<1>7. CASE Releasing \/ Renewing
  BY <1>2, <1>1, <1>7 DEF Releasing, Releases, Renewing, Renews
<1> QED
  BY <1>4, <1>5, <1>6, <1>7 DEF Event

\* Every event keeps what is released, and what is about to be, behind what the peer
\* was handed, even where the peer is no longer there to ask.
LEMMA AcknowledgedStep ==
    ASSUME StreamInv, Event, EndsInv', IdsInOrder', HelloFresh', Received'
    PROVE  Acknowledged'
<1> SUFFICES ASSUME NEW e \in Endpoints
             PROVE  /\ remote_id'[e] # NoId => base_offset'[e] <= Len(delivered'[remote_id'[e]])
                    /\ \A c \in Conns : \A k \in 1 .. Len(pipe'[Peer(e)][c]) :
                          LET m == pipe'[Peer(e)][c][k] IN
                          /\ m.type = "Hello" => m.sender_last_rx <= Len(delivered'[m.sender_id])
                          /\ m.type = "Ack" /\ Started(e, c)' =>
                                m.seq <= Len(delivered'[remote_id'[e]])
  BY DEF Acknowledged
<1> DEFINE f == Peer(e)
<1>0. TypeOK /\ Received /\ Acknowledged /\ IdsInOrder /\ HelloOnly /\ WindowNumbered
  BY DEF StreamInv, ConnInv
<1>q. f \in Endpoints /\ Peer(f) = e
  BY PeerProperties
<1>g. \A i \in Ids, n \in Nat : n <= Len(delivered[i]) => n <= Len(delivered'[i])
  BY <1>0, DeliveredGrows
<1>r. remote_id[e] # NoId => remote_id[e] \in Ids
  BY <1>0 DEF TypeOK
<1>p. Further(e) \/ Renewed(e)
  BY <1>0, EventProgress
<1>b. base_offset[e] \in Nat
  BY <1>0, StreamTypes
<1>z. remote_id[e] = NoId => base_offset[e] = 0
  BY <1>0 DEF Received
<1>w. remote_id[e] # NoId => base_offset[e] <= Len(delivered[remote_id[e]])
  BY <1>0 DEF Acknowledged
\* What e has been sent.
<1>h. ASSUME NEW c \in Conns, NEW m, Holds(pipe[f][c], m)
      PROVE  /\ m.type = "Hello" => /\ m.sender_id \in Ids /\ m.sender_last_rx \in Nat
                                    /\ m.sender_last_rx <= Len(delivered[m.sender_id])
             /\ m.type = "Ack" => /\ Started(e, c) /\ m.seq \in Nat /\ remote_id[e] # NoId
                                  /\ m.seq <= Len(delivered[remote_id[e]])
  <2>1. PICK j \in 1 .. Len(pipe[f][c]) : pipe[f][c][j] = m
    BY <1>h DEF Holds
  <2>2. m \in Message
    BY <1>0, <1>q, <2>1, PipeType, ElementOfSeq
  <2>3. m.type = "Ack" => Started(e, c)
    BY <1>0, <2>1 DEF HelloOnly, Kinds
  <2>4. m.type = "Ack" => remote_id[e] # NoId
    BY <1>0, <2>3 DEF IdsInOrder
  <2> QED
    BY <1>0, <2>1, <2>2, <2>3, <2>4, MessageFields DEF Acknowledged
<1>1. ASSUME remote_id'[e] # NoId PROVE base_offset'[e] <= Len(delivered'[remote_id'[e]])
  <2>1. \/ remote_id'[e] = remote_id[e] /\ base_offset'[e] = base_offset[e]
        \/ \E c \in Conns, m \in Message : GreetedBy(e, c, m) \/ AckedBy(e, c, m)
    BY <1>1, EventBinding DEF Renewed
  <2>2. CASE remote_id'[e] = remote_id[e] /\ base_offset'[e] = base_offset[e]
    BY <1>1, <1>b, <1>g, <1>r, <1>w, <2>2
  <2>3. ASSUME NEW c \in Conns, NEW m \in Message, GreetedBy(e, c, m)
        PROVE  base_offset'[e] <= Len(delivered'[remote_id'[e]])
    <3>1. /\ pipe[f][c] # <<>> /\ m = pipe[f][c][1] /\ m.type = "Hello"
          /\ remote_id[e] \in {NoId, m.sender_id} /\ remote_id'[e] = m.sender_id
          /\ base_offset'[e] \in {m.sender_last_rx, base_offset[e]}
      BY <2>3 DEF GreetedBy, Greeted
    <3>2. Holds(pipe[f][c], m)
      <4>1. 1 \in 1 .. Len(pipe[f][c])
        BY <1>0, <1>q, <3>1, PipeType
      <4> QED
        BY <3>1, <4>1 DEF Holds
    <3>3. /\ m.sender_id \in Ids /\ m.sender_last_rx \in Nat
          /\ m.sender_last_rx <= Len(delivered[m.sender_id])
      BY <1>h, <3>1, <3>2
    <3>4. base_offset[e] <= Len(delivered[m.sender_id])
      <4>1. CASE remote_id[e] = NoId
        <5>1. Len(delivered[m.sender_id]) \in Nat
          BY <1>0, <3>3, DeliveredGrows
        <5> QED
          BY <1>z, <4>1, <5>1
      <4>2. CASE remote_id[e] = m.sender_id /\ remote_id[e] # NoId
        BY <1>w, <4>2
      <4> QED
        BY <3>1, <4>1, <4>2
    <3> QED
      BY <1>b, <1>g, <3>1, <3>3, <3>4
  <2>4. ASSUME NEW c \in Conns, NEW m \in Message, AckedBy(e, c, m)
        PROVE  base_offset'[e] <= Len(delivered'[remote_id'[e]])
    <3>1. /\ pipe[f][c] # <<>> /\ m = pipe[f][c][1] /\ m.type = "Ack"
          /\ remote_id'[e] = remote_id[e] /\ base_offset'[e] = m.seq
      BY <2>4 DEF AckedBy
    <3>2. Holds(pipe[f][c], m)
      <4>1. 1 \in 1 .. Len(pipe[f][c])
        BY <1>0, <1>q, <3>1, PipeType
      <4> QED
        BY <3>1, <4>1 DEF Holds
    <3>3. m.seq \in Nat /\ remote_id[e] # NoId /\ m.seq <= Len(delivered[remote_id[e]])
      BY <1>h, <3>1, <3>2
    <3> QED
      BY <1>g, <1>r, <3>1, <3>3
  <2> QED
    BY <2>1, <2>2, <2>3, <2>4
<1>2. ASSUME NEW c \in Conns, NEW m, Holds(pipe'[f][c], m), m.type = "Hello"
      PROVE  m.sender_last_rx <= Len(delivered'[m.sender_id])
  <2>1. CASE Holds(pipe[f][c], m)
    BY <1>2, <1>g, <1>h, <2>1
  <2>2. CASE Fresh(f, c, m)
    <3>1. m.sender_id = id[f] /\ m.sender_last_rx = received_seq[f]
      BY <1>2, <2>2 DEF Fresh, make_hello, Hello
    <3>2. Len(delivered[id[f]]) = received_seq[f]
      BY <1>0, <1>q DEF Received
    <3>3. id[f] \in Ids /\ received_seq[f] \in Nat
      BY <1>0, <1>q, StreamTypes
    <3>4. received_seq[f] <= Len(delivered[id[f]])
      BY <3>2, <3>3
    <3> QED
      BY <1>g, <3>1, <3>3, <3>4
  <2> QED
    BY <1>2, <1>q, <2>1, <2>2, EventOrigin
<1>3. ASSUME NEW c \in Conns, NEW m, Holds(pipe'[f][c], m), m.type = "Ack", Started(e, c)'
      PROVE  m.seq <= Len(delivered'[remote_id'[e]])
  <2>1. CASE Holds(pipe[f][c], m)
    <3>1. remote_id'[e] # NoId
      BY <1>3 DEF IdsInOrder
    <3>2. m.seq \in Nat /\ remote_id[e] # NoId /\ m.seq <= Len(delivered[remote_id[e]])
      BY <1>3, <1>h, <2>1
    <3>3. remote_id'[e] = remote_id[e]
      BY <1>p, <3>1, <3>2 DEF Further, Renewed
    <3> QED
      BY <1>g, <1>r, <3>2, <3>3
  <2>2. CASE Fresh(f, c, m)
    <3>1. Using(f, c)' /\ m.seq = received_seq'[f]
      BY <1>3, <2>2 DEF Fresh, make_hello, Hello
    <3>2. remote_id'[e] = id'[f]
      BY <1>3, <1>q, <3>1 DEF HelloFresh
    <3>3. Len(delivered'[id'[f]]) = received_seq'[f]
      BY <1>q DEF Received
    <3>4. UNCHANGED id /\ id[f] \in Ids
      BY <1>0, <1>3, <1>q, <2>2, StreamTypes DEF Fresh, make_hello, Hello
    <3>5. Len(delivered'[id'[f]]) \in Nat
      BY <1>0, <3>4, DeliveredGrows
    <3> QED
      BY <3>1, <3>2, <3>3, <3>5
  <2> QED
    BY <1>3, <1>q, <2>1, <2>2, EventOrigin
<1>4. ASSUME NEW c \in Conns, NEW k \in 1 .. Len(pipe'[f][c])
      PROVE  LET m == pipe'[f][c][k]
             IN /\ m.type = "Hello" => m.sender_last_rx <= Len(delivered'[m.sender_id])
                /\ m.type = "Ack" /\ Started(e, c)' => m.seq <= Len(delivered'[remote_id'[e]])
  <2> DEFINE m == pipe'[f][c][k]
  <2>1. Holds(pipe'[f][c], m)
    BY DEF Holds
  <2> HIDE DEF m
  <2>2. /\ m.type = "Hello" => m.sender_last_rx <= Len(delivered'[m.sender_id])
        /\ m.type = "Ack" /\ Started(e, c)' => m.seq <= Len(delivered'[remote_id'[e]])
    BY <1>2, <1>3, <2>1
  <2> QED
    BY <2>2 DEF m
<1> QED
  BY <1>1, <1>4

-----------------------------------------------------------------------------
(* HellosInOrder is kept.                                                  *)

\* Every event keeps the hellos that wait at the server in their order.
LEMMA HellosStep == ASSUME StreamInv, Event, TypeOK', EndsInv', ConnsInOrder' PROVE HellosInOrder'
<1> SUFFICES ASSUME NEW c \in Conns, NEW d \in Conns, c < d,
                    pipe'["client"][c] # <<>>, pipe'["client"][d] # <<>>
             PROVE  LET m == pipe'["client"][d][1]
                        s == pipe'["client"][c]
                    IN /\ s[1].type = "Hello" /\ m.type = "Hello" =>
                            /\ s[1].sender_id <= m.sender_id
                            /\ s[1].sender_id = m.sender_id => s[1].sender_last_rx <= m.sender_last_rx
                       /\ Started("server", c)' /\ m.type = "Hello" /\ m.sender_id = remote_id'["server"] =>
                            \A k \in 1 .. Len(s) : s[k].type = "Ack" => s[k].seq <= m.sender_last_rx
  BY DEF HellosInOrder
<1>0. TypeOK /\ HelloOnly /\ IdsInOrder /\ AcksInWindow /\ HellosInOrder
  BY DEF StreamInv, ConnInv
<1>p. /\ "client" \in Endpoints /\ "server" \in Endpoints
      /\ Peer("server") = "client" /\ Peer("client") = "server"
  BY DEF Endpoints, Peer
<1>1. PICK m : m = pipe'["client"][d][1]
  OBVIOUS
<1>2. PICK s \in Seq(Message) : s = pipe'["client"][c]
  BY <1>p DEF TypeOK
\* The client writes on its newest connection only.
<1>3. ~Using("client", c)'
  <2> SUFFICES ASSUME Using("client", c)' PROVE FALSE
    OBVIOUS
  <2>1. conn'["client"] = c /\ conn'["client"] \in {NoConn, nconns'}
    BY DEF Using, ConnsInOrder
  <2>2. c \in Nat \ {0} /\ d \in Nat /\ nconns' \in Nat
    BY DEF Conns, TypeOK
  <2>3. d > nconns'
    BY <2>1, <2>2 DEF NoConn
  <2> QED
    BY <1>p, <2>3 DEF EndsInv, EndsOwned
<1>4. ASSUME NEW k \in 1 .. Len(s) PROVE Holds(pipe["client"][c], s[k])
  <2>1. Holds(pipe'["client"][c], s[k])
    BY <1>2 DEF Holds
  <2>2. ~Fresh("client", c, s[k])
    BY <1>3 DEF Fresh
  <2> QED
    BY <1>p, <2>1, <2>2, EventOrigin
<1>5. Holds(pipe["client"][d], m) \/ Fresh("client", d, m)
  <2>1. 1 \in 1 .. Len(pipe'["client"][d])
    <3>1. pipe'["client"][d] \in Seq(Message)
      BY <1>p DEF TypeOK
    <3> QED
      BY <3>1, TailAt
  <2>2. Holds(pipe'["client"][d], m)
    BY <1>1, <2>1 DEF Holds
  <2> QED
    BY <1>p, <2>2, EventOrigin
<1>6. ASSUME m.type = "Hello", Holds(pipe["client"][d], m)
      PROVE  m = pipe["client"][d][1] /\ pipe["client"][d] # <<>>
  BY <1>6, <1>p, OldHello
<1>7. ASSUME m.type = "Hello", Fresh("client", d, m)
      PROVE  /\ m.sender_id = id["client"] /\ m.sender_last_rx = received_seq["client"]
             /\ id' = id /\ remote_id' = remote_id
  <2>1. m = make_hello("client") /\ id' = id /\ remote_id' = remote_id
    BY <1>7 DEF Fresh, streamVars
  <2> QED
    BY <2>1 DEF make_hello, Hello
<1>8. ASSUME s[1].type = "Hello", m.type = "Hello"
      PROVE  /\ s[1].sender_id <= m.sender_id
             /\ s[1].sender_id = m.sender_id => s[1].sender_last_rx <= m.sender_last_rx
  <2>1. 1 \in 1 .. Len(s)
    BY <1>2, TailAt
  <2>2. PICK x : x = s[1]
    OBVIOUS
  <2>3. Holds(pipe["client"][c], x) /\ x.type = "Hello"
    BY <1>4, <1>8, <2>1, <2>2
  <2>4. /\ x = pipe["client"][c][1] /\ pipe["client"][c] # <<>>
        /\ x.sender_id <= id["client"]
        /\ x.sender_id = id["client"] => x.sender_last_rx <= received_seq["client"]
    BY <1>p, <2>3, OldHello
  <2>5. CASE Holds(pipe["client"][d], m)
    BY <1>0, <1>6, <1>8, <2>2, <2>3, <2>4, <2>5 DEF HellosInOrder
  <2>6. CASE Fresh("client", d, m)
    BY <1>7, <1>8, <2>2, <2>4, <2>6
  <2> QED
    BY <1>5, <2>5, <2>6
<1>9. ASSUME Started("server", c)', m.type = "Hello", m.sender_id = remote_id'["server"],
             NEW k \in 1 .. Len(s), s[k].type = "Ack"
      PROVE  s[k].seq <= m.sender_last_rx
  <2>1. PICK j \in 1 .. Len(pipe["client"][c]) : pipe["client"][c][j] = s[k]
    BY <1>4 DEF Holds
  <2>2. Started("server", c)
    BY <1>0, <1>9, <1>p, <2>1 DEF HelloOnly, Kinds
  <2>3. Further("server")
    BY <1>9, <1>p, UsingFurther DEF Started, Using, InStream
  <2>4. remote_id'["server"] = remote_id["server"]
    BY <1>0, <1>p, <2>2, <2>3 DEF IdsInOrder, Further
  <2>5. pipe["client"][c] # <<>>
    BY <2>1, EmptyKinds
  <2>6. CASE Holds(pipe["client"][d], m)
    BY <1>0, <1>6, <1>9, <2>1, <2>2, <2>4, <2>5, <2>6 DEF HellosInOrder
  <2>7. CASE Fresh("client", d, m)
    <3>1. m.sender_last_rx = received_seq["client"] /\ remote_id["server"] = id["client"]
      BY <1>7, <1>9, <2>4, <2>7
    <3>2. remote_id["server"] = id[Peer("server")] =>
             pipe[Peer("server")][c][j].seq <= received_seq[Peer("server")]
      BY <1>0, <1>9, <1>p, <2>1, <2>2 DEF AcksInWindow
    <3> QED
      BY <1>p, <2>1, <3>1, <3>2
  <2> QED
    BY <1>5, <2>6, <2>7
<1> QED
  BY <1>1, <1>2, <1>8, <1>9

-----------------------------------------------------------------------------
(* StreamInv is an invariant.                                              *)

\* StreamInv holds at the start.
LEMMA InvariantInit == Init => StreamInv
<1> SUFFICES ASSUME Init PROVE StreamInv
  OBVIOUS
<1>0. TypeOK /\ ConnInv
  BY TypeInit, ConnInit
<1>1. /\ id["client"] = 1 /\ id["server"] = 2 /\ nids = 2
      /\ \A e \in Endpoints :
            /\ id[e] \in {1, 2} /\ remote_id[e] = NoId /\ base_offset[e] = 0 /\ received_seq[e] = 0
            /\ sent_unacked[e] = <<>> /\ app_queue[e] = <<>>
      /\ \A i \in Ids : produced[i] = 0 /\ delivered[i] = <<>>
      /\ \A e \in Endpoints, c \in Conns : pipe[e][c] = <<>> /\ ~Using(e, c) /\ ~Started(e, c)
  BY DEF Init, StartPC, Using, Started, InStream, Endpoints
<1>2. Len(<<>>) = 0 /\ 1 .. 0 = {}
  BY EmptyKinds
<1>3. \A e \in Endpoints : Newest(e) = 0 /\ id[e] \in Ids /\ Peer(e) \in Endpoints
  BY <1>0, <1>1, <1>2, PeerProperties DEF Newest, TypeOK
<1>4. IdsInOrder
  BY <1>1, <1>2 DEF IdsInOrder, NoId
<1>5. HelloFresh /\ DataContinues /\ DataComplete /\ AcksInWindow
  BY <1>1 DEF HelloFresh, DataContinues, DataComplete, AcksInWindow
<1>6. WindowNumbered /\ Received
  BY <1>1, <1>2, <1>3 DEF WindowNumbered, Received, Numbered
<1>w. Limited /\ WindowBound
  BY <1>1, <1>3, LimitAssumption DEF Limited, WindowBound
<1>7. DataWasSent /\ HellosInOrder
  BY <1>1, <1>2 DEF DataWasSent, HellosInOrder, Endpoints
<1>8. AckedWasReceived
  BY <1>1, <1>2, <1>3 DEF AckedWasReceived, NoId
<1>9. Acknowledged
  BY <1>1, <1>2, <1>3 DEF Acknowledged
<1> QED
  BY <1>0, <1>4, <1>5, <1>6, <1>w, <1>7, <1>8, <1>9 DEF StreamInv

\* StreamInv is inductive, and a step from where it holds is an event.
LEMMA InvariantStep == StreamInv /\ [Next]_vars => StreamInv' /\ Event
<1> SUFFICES ASSUME StreamInv, [Next]_vars PROVE StreamInv' /\ Event
  OBVIOUS
<1>0. TypeOK /\ EndsInv /\ ConnsInOrder
  BY DEF StreamInv, ConnInv, EndsInv
<1>1. TypeOK'
  BY <1>0, TypeStep
<1>2. Event
  BY <1>0, StepIsEvent
<1>3. EndsInv' /\ ConnsInOrder'
  BY <1>0, <1>2, EventEnds, OrderStep
<1>4. IdsInOrder' /\ HelloFresh'
  BY <1>2, IdsStep, HelloFreshStep
<1>5. WindowNumbered' /\ Received'
  BY <1>1, <1>2, WindowStep, ReceivedStep
<1>w. Limited' /\ WindowBound'
  BY <1>2, BoundStep
<1>6. DataContinues' /\ DataComplete' /\ DataWasSent'
  BY <1>1, <1>2, <1>3, <1>5, ContinuesStep, CompleteStep, SentStep
<1>7. AcksInWindow' /\ AckedWasReceived' /\ HellosInOrder'
  BY <1>1, <1>2, <1>3, AcksStep, AckedStep, HellosStep
<1>8. ConnInv'
  BY <1>3 DEF ConnInv, EndsInv
<1>9. Acknowledged'
  BY <1>2, <1>3, <1>4, <1>5, AcknowledgedStep
<1> QED
  BY <1>1, <1>2, <1>4, <1>5, <1>w, <1>6, <1>7, <1>8, <1>9 DEF StreamInv

\* The two endpoints, their connections and what is in flight always fit together as
\* StreamInv says, whatever run_stream, the listener, the network and the owners of
\* the processes do.
THEOREM StreamInvariance == Spec => []StreamInv
BY InvariantInit, InvariantStep, PTL DEF Spec

-----------------------------------------------------------------------------
(* What follows from it.                                                   *)

\* is_full keeps StreamState.sent_unacked within max_window and one message: what it
\* holds without its newest message is less than max_window, whatever the sizes of the
\* messages, whatever is acknowledged, resent and kept while there is no connection.
THEOREM WindowIsBounded == Spec => []WindowBound
<1>1. StreamInv => WindowBound
  BY DEF StreamInv
<1> QED
  BY <1>1, StreamInvariance, PTL

\* An element of a sequence is in its range.
LEMMA InRange ==
    ASSUME NEW S, NEW s \in Seq(S), NEW k \in 1 .. Len(s)
    PROVE  s[k] \in Range(s)
<1>1. DOMAIN s = 1 .. Len(s)
  BY LenProperties
<1> QED
  BY <1>1 DEF Range

\* NothingLost follows: the window goes on from what was delivered.
LEMMA LosesNothing == StreamInv => NothingLost
<1> SUFFICES ASSUME StreamInv, Paired, NEW e \in Endpoints, NEW k \in 1 .. produced[id[e]]
             PROVE  [from |-> id[e], n |-> k] \in Range(delivered[id[Peer(e)]])
                                                     \cup Range(sent_unacked[e]) \cup Range(app_queue[e])
  BY DEF NothingLost
<1> DEFINE f == Peer(e)
           p == [from |-> id[e], n |-> k]
<1>0. TypeOK /\ WindowNumbered /\ Received /\ AckedWasReceived
  BY DEF StreamInv
<1>q. f \in Endpoints /\ Peer(f) = e
  BY PeerProperties
<1>1. /\ base_offset[e] \in Nat /\ Newest(e) \in Nat /\ Len(sent_unacked[e]) \in Nat
      /\ Len(app_queue[e]) \in Nat /\ received_seq[f] \in Nat /\ k \in Nat \ {0}
      /\ sent_unacked[e] \in Seq(Payload) /\ app_queue[e] \in Seq(Payload)
      /\ Newest(e) = base_offset[e] + Len(sent_unacked[e])
      /\ produced[id[e]] = Newest(e) + Len(app_queue[e])
  BY <1>0, <1>q, StreamTypes DEF WindowNumbered, Newest
<1>2. CASE k <= base_offset[e]
  <2>1. remote_id[e] = id[f] /\ remote_id[f] = id[e]
    BY <1>q DEF Paired
  <2>2. base_offset[e] <= received_seq[f]
    BY <1>0, <2>1 DEF AckedWasReceived
  <2>3. Len(delivered[id[f]]) = received_seq[f] /\ Numbered(delivered[id[f]], id[e], 0)
    BY <1>0, <1>q, <2>1 DEF Received
  <2>4. k \in 1 .. Len(delivered[id[f]]) /\ delivered[id[f]] \in Seq(Payload)
    BY <1>0, <1>1, <1>2, <1>q, <2>2, <2>3 DEF TypeOK
  <2>5. delivered[id[f]][k] = p
    BY <1>1, <2>3, <2>4 DEF Numbered
  <2>6. delivered[id[f]][k] \in Range(delivered[id[f]])
    BY <2>4, InRange
  <2> QED
    BY <2>5, <2>6
<1>3. CASE base_offset[e] < k /\ k <= Newest(e)
  <2> DEFINE j == k - base_offset[e]
  <2>1. j \in 1 .. Len(sent_unacked[e]) /\ base_offset[e] + j = k
    BY <1>1, <1>3
  <2> HIDE DEF j
  <2>2. sent_unacked[e][j] = p
    BY <1>0, <2>1 DEF WindowNumbered, Numbered
  <2>3. sent_unacked[e][j] \in Range(sent_unacked[e])
    BY <1>1, <2>1, InRange
  <2> QED
    BY <2>2, <2>3
<1>4. CASE Newest(e) < k
  <2> DEFINE j == k - Newest(e)
  <2>1. j \in 1 .. Len(app_queue[e]) /\ Newest(e) + j = k
    BY <1>1, <1>4
  <2> HIDE DEF j
  <2>2. app_queue[e][j] = p
    BY <1>0, <2>1 DEF WindowNumbered, Numbered
  <2>3. app_queue[e][j] \in Range(app_queue[e])
    BY <1>1, <2>1, InRange
  <2> QED
    BY <2>2, <2>3
<1> QED
  BY <1>1, <1>2, <1>3, <1>4

\* Between two endpoints that are bound to each other no message disappears: an
\* acknowledgement, or a hello that was written long before it is read, never makes
\* StreamState::ack drain what the peer's application has not got.
THEOREM NothingIsLost == Spec => []NothingLost
BY StreamInvariance, LosesNothing, PTL

\* NoProtocolError follows from what a connection may carry.
LEMMA BreaksNoRule == StreamInv => NoProtocolError
<1> SUFFICES ASSUME StreamInv, NEW e \in Endpoints
             PROVE  /\ pc[e] = "hello" /\ Incoming(e) # <<>> => HasMsg(e, "Hello")
                    /\ pc[e] = "running" => ~HasMsg(e, "Hello")
                    /\ pc[e] = "running" /\ HasMsg(e, "Ack") =>
                          ack_accepted(e, Head(Incoming(e)).seq)
                    /\ pc[e] = "hello" /\ HasMsg(e, "Hello") /\ Paired =>
                          ack_accepted(e, Head(Incoming(e)).sender_last_rx)
  BY DEF NoProtocolError
<1> DEFINE f == Peer(e)
           c == conn[e]
           s == pipe[f][c]
           m == s[1]
<1>0. TypeOK /\ HelloFirst /\ AcksInWindow /\ AckedWasReceived /\ Received
  BY DEF StreamInv, ConnInv
<1>q. f \in Endpoints /\ Peer(f) = e
  BY PeerProperties
<1>1. ASSUME pc[e] \in {"hello", "running"}
      PROVE  /\ c \in Conns /\ Using(e, c) /\ (Started(e, c) <=> pc[e] = "running")
             /\ s \in Seq(Message)
             /\ s # <<>> => /\ Head(s) = m /\ m \in Message /\ 1 \in 1 .. Len(s)
                            /\ m.type = "Hello" <=> pc[e] = "hello"
  <2>1. c \in Conns
    BY <1>0, <1>1 DEF TypeOK, NoConn
  <2>2. s \in Seq(Message)
    BY <1>0, <1>q, <2>1, PipeType
  <2>3. Using(e, c) /\ (Started(e, c) <=> pc[e] = "running")
    BY <1>1 DEF Using, InStream, Started
  <2>4. s # <<>> => Head(s) = m /\ m \in Message /\ 1 \in 1 .. Len(s)
    BY <2>2, TailAt
  <2>5. s # <<>> => (m.type = "Hello" <=> pc[e] = "hello")
    BY <1>0, <1>1, <2>1, <2>3, <2>4 DEF HelloFirst
  <2> QED
    BY <2>1, <2>2, <2>3, <2>4, <2>5
<1>2. Incoming(e) = s
  BY DEF Incoming
<1>3. /\ base_offset[e] \in Nat /\ Newest(e) \in Nat /\ Len(sent_unacked[e]) \in Nat
      /\ Newest(e) = base_offset[e] + Len(sent_unacked[e]) /\ received_seq[f] \in Nat
  BY <1>0, <1>q, StreamTypes DEF Newest
<1>4. ASSUME NEW a \in Nat, base_offset[e] <= a, a <= Newest(e) PROVE ack_accepted(e, a)
  BY <1>3, <1>4 DEF ack_accepted
<1>5. ASSUME pc[e] = "running", s # <<>>, m.type = "Ack" PROVE ack_accepted(e, m.seq)
  <2>1. base_offset[e] <= m.seq /\ m.seq <= Newest(e)
    BY <1>0, <1>1, <1>5 DEF AcksInWindow
  <2>2. m.seq \in Nat
    BY <1>1, <1>5, MessageFields
  <2> QED
    BY <1>4, <2>1, <2>2
<1>6. ASSUME pc[e] = "hello", s # <<>>, m.type = "Hello", Paired
      PROVE  ack_accepted(e, m.sender_last_rx)
  <2>1. remote_id[e] = id[f] /\ remote_id[f] = id[e]
    BY <1>6, <1>q DEF Paired
  <2>2. Holds(s, m)
    BY <1>1, <1>6 DEF Holds
  <2>3. /\ m.sender_last_rx \in Nat /\ m.sender_last_rx <= received_seq[f]
        /\ base_offset[e] <= m.sender_last_rx
    <3>1. c \in Conns
      BY <1>1, <1>6
    <3>2. \A b \in Conns : \A x : Holds(pipe[f][b], x) /\ x.type = "Hello" =>
             /\ x.sender_last_rx \in Nat
             /\ x.sender_id = id[f] => x.sender_last_rx <= received_seq[f]
             /\ x.sender_id = remote_id[e] => base_offset[e] <= x.sender_last_rx
             /\ remote_id[e] = id[f] => x.sender_id = id[f]
      BY OldHello
    <3> QED
      BY <1>6, <2>1, <2>2, <3>1, <3>2
  <2>4. received_seq[f] <= Newest(e)
    BY <1>0, <1>q, <2>1 DEF Received
  <2> QED
    BY <1>3, <1>4, <2>3, <2>4
<1> HIDE DEF s, m
<1> QED
  BY <1>1, <1>2, <1>5, <1>6 DEF HasMsg

\* The error returns of run_stream and the bounds checks of StreamState::ack are never
\* reached: no second hello, no message before the hello, no acknowledgement that is
\* stale or too high, whatever was resent on however many connections.
THEOREM ProtocolIsKept == Spec => []NoProtocolError
BY StreamInvariance, BreaksNoRule, PTL

\* StreamIsWhole follows from where the Data continues and ends.
LEMMA KeepsWhole == StreamInv => StreamIsWhole
<1> SUFFICES ASSUME StreamInv, NEW e \in Endpoints,
                    pc[e] = "running", pc[Peer(e)] = "running",
                    conn[e] = conn[Peer(e)], conn[e] \notin broken
             PROVE  LET f == Peer(e)
                        flight == pipe[e][conn[e]]
                        at == {k \in 1 .. Len(flight) : flight[k].type = "Data"}
                        newest == base_offset[e] + Len(sent_unacked[e])
                    IN /\ received_seq[f] <= newest
                       /\ {flight[k].data : k \in at}
                             = {[from |-> id[e], n |-> n] : n \in received_seq[f] + 1 .. newest}
                       /\ \A j, k \in at : j < k => flight[j].data.n < flight[k].data.n
  BY DEF StreamIsWhole
<1> DEFINE f == Peer(e)
           c == conn[e]
           at == {k \in 1 .. Len(pipe[e][c]) : pipe[e][c][k].type = "Data"}
<1>0. TypeOK /\ EndsOwned /\ HelloFresh /\ DataContinues /\ DataComplete
  BY DEF StreamInv, ConnInv
<1>q. f \in Endpoints /\ Peer(f) = e
  BY PeerProperties
<1>1. c \in Conns
  BY <1>0 DEF TypeOK, NoConn
<1>2. Using(e, c) /\ Using(f, c) /\ Started(e, c) /\ Started(f, c)
  BY DEF Using, InStream, Started
<1>3. ~Dead(e, c)
  BY <1>0, <1>1, <1>2, <1>q DEF EndsOwned, Dead
<1>4. remote_id[f] = id[e]
  BY <1>0, <1>1, <1>2 DEF HelloFresh
<1>5. PICK s \in Seq(Message) : s = pipe[e][c]
  BY <1>0, <1>1, PipeType
<1>6. EndsAt(s, id[e], received_seq[f], Newest(e))
  BY <1>0, <1>1, <1>2, <1>3, <1>5 DEF DataComplete
<1>7. s # <<>> => Continues(s, id[e], received_seq[f])
  <2>1. s # <<>> => Continues(s, Source(f, c), received_seq[f])
    BY <1>0, <1>1, <1>2, <1>5, <1>q DEF DataContinues
  <2>2. Source(f, c) = id[e]
    BY <1>2, <1>4 DEF Source
  <2> QED
    BY <2>1, <2>2
<1>8. received_seq[f] \in Nat /\ Newest(e) \in Nat /\ id[e] \in Ids
  BY <1>0, <1>q, StreamTypes
<1>9. PICK lo \in Nat, hi \in Nat : lo = received_seq[f] /\ hi = Newest(e)
  BY <1>8
<1>10. /\ Len(s) \in Nat /\ lo <= hi
       /\ \A k \in 1 .. Len(s) : s[k].type = "Data" =>
             /\ s[k].data.from = id[e] /\ lo < s[k].data.n /\ s[k].data.n <= hi
             /\ s[k].data = [from |-> s[k].data.from, n |-> s[k].data.n] /\ s[k].data.n \in Nat
             /\ \A n \in lo + 1 .. s[k].data.n - 1 :
                   \E j \in 1 .. k - 1 : s[j] = Data([from |-> id[e], n |-> n])
             /\ \A j \in 1 .. k - 1 : s[j].type = "Data" => s[j].data.n < s[k].data.n
       /\ lo < hi => \E k \in 1 .. Len(s) : s[k] = Data([from |-> id[e], n |-> hi])
  <2>1. Len(s) \in Nat
    BY LenProperties
  <2>2. ASSUME NEW k \in 1 .. Len(s), s[k].type = "Data"
        PROVE  s[k].data = [from |-> s[k].data.from, n |-> s[k].data.n] /\ s[k].data.n \in Nat /\ s # <<>>
    <3>1. s[k].data \in Payload
      BY <2>2, ElementOfSeq, MessageFields
    <3> QED
      BY <3>1, EmptyKinds DEF Payload
  <2> QED
    BY <1>6, <1>7, <1>9, <2>1, <2>2 DEF EndsAt, Continues
<1>11. ASSUME NEW n \in lo + 1 .. hi
       PROVE  \E k \in 1 .. Len(s) : s[k] = Data([from |-> id[e], n |-> n])
  <2>1. PICK k \in 1 .. Len(s) : s[k] = Data([from |-> id[e], n |-> hi])
    BY <1>10, <1>11
  <2>2. CASE n = hi
    BY <2>1, <2>2
  <2>3. CASE n # hi
    <3>1. s[k].type = "Data" /\ s[k].data.n = hi
      BY <2>1 DEF Data
    <3>0. \A x \in lo + 1 .. s[k].data.n - 1 :
             \E j \in 1 .. k - 1 : s[j] = Data([from |-> id[e], n |-> x])
      BY <1>10, <3>1
    <3>a. n \in lo + 1 .. s[k].data.n - 1
      BY <2>3, <3>1
    <3>2. \E j \in 1 .. k - 1 : s[j] = Data([from |-> id[e], n |-> n])
      BY <3>0, <3>a
    <3> QED
      BY <1>10, <3>2
  <2> QED
    BY <2>2, <2>3
<1> DEFINE in == {k \in 1 .. Len(s) : s[k].type = "Data"}
<1>12. {s[k].data : k \in in} = {[from |-> id[e], n |-> n] : n \in lo + 1 .. hi}
  <2>1. ASSUME NEW k \in in PROVE \E n \in lo + 1 .. hi : s[k].data = [from |-> id[e], n |-> n]
    <3>0. lo < s[k].data.n /\ s[k].data.n <= hi /\ s[k].data.n \in Nat
          /\ s[k].data = [from |-> id[e], n |-> s[k].data.n]
      BY <1>10
    <3>1. s[k].data.n \in lo + 1 .. hi
      BY <3>0
    <3> QED
      BY <3>0, <3>1
  <2>2. ASSUME NEW n \in lo + 1 .. hi PROVE \E k \in in : s[k].data = [from |-> id[e], n |-> n]
    <3>1. PICK k \in 1 .. Len(s) : s[k] = Data([from |-> id[e], n |-> n])
      BY <1>11
    <3>2. s[k].type = "Data" /\ s[k].data = [from |-> id[e], n |-> n]
      BY <3>1 DEF Data
    <3> QED
      BY <3>2
  <2> DEFINE L == {s[k].data : k \in in}
             R == {[from |-> id[e], n |-> n] : n \in lo + 1 .. hi}
  <2> HIDE DEF in
  <2>3. L \subseteq R
    BY <2>1
  <2>4. R \subseteq L
    BY <2>2
  <2>5. L = R
    <3> HIDE DEF L, R
    <3> QED
      BY <2>3, <2>4
  <2> QED
    BY <2>5
<1>13. \A j, k \in in : j < k => s[j].data.n < s[k].data.n
  <2> SUFFICES ASSUME NEW j \in in, NEW k \in in, j < k PROVE s[j].data.n < s[k].data.n
    OBVIOUS
  <2>1. j \in 1 .. k - 1
    BY <1>10
  <2> QED
    BY <1>10, <2>1
<1>14. in = at /\ pipe[e][conn[e]] = s /\ lo <= hi
       /\ base_offset[e] + Len(sent_unacked[e]) = hi /\ received_seq[f] = lo
  BY <1>5, <1>9, <1>10 DEF Newest
<1> HIDE DEF in
<1> QED
  BY <1>5, <1>12, <1>13, <1>14

\* While both ends run a connection that works, it holds every message that the sender
\* took and the receiver has not got, once and in order: the resend and what follows it
\* leave no gap and repeat nothing.
THEOREM FlightIsWhole == Spec => []StreamIsWhole
BY StreamInvariance, KeepsWhole, PTL

\* DeliveredInOrder speaks of the replaced incarnations too: what they got stays, and
\* what was sent to them only grows.
LEMMA OrderInit == Init => DeliveredInOrder
<1> SUFFICES ASSUME Init, NEW i \in Ids
             PROVE  \E p \in Ids \ {i} :
                       /\ \A k \in 1 .. Len(delivered[i]) : delivered[i][k] = [from |-> p, n |-> k]
                       /\ Len(delivered[i]) <= produced[p]
                       /\ \A e \in Endpoints : id[e] = i =>
                             /\ received_seq[e] = Len(delivered[i])
                             /\ received_seq[e] > 0 => remote_id[e] = p
  BY DEF DeliveredInOrder
<1>1. PICK p \in Ids : p # i
  BY BoundAssumption DEF Ids
<1>2. delivered[i] = <<>> /\ produced[p] = 0 /\ \A e \in Endpoints : received_seq[e] = 0
  BY DEF Init
<1>3. Len(<<>>) = 0
  BY EmptyKinds
<1> QED
  BY <1>1, <1>2, <1>3

\* DeliveredInOrder, which also speaks of incarnations that are gone.
LEMMA OrderKept ==
    ASSUME StreamInv, Event, StreamInv', DeliveredInOrder PROVE DeliveredInOrder'
<1> SUFFICES ASSUME NEW i \in Ids
             PROVE  \E p \in Ids \ {i} :
                       /\ \A k \in 1 .. Len(delivered'[i]) : delivered'[i][k] = [from |-> p, n |-> k]
                       /\ Len(delivered'[i]) <= produced'[p]
                       /\ \A e \in Endpoints : id'[e] = i =>
                             /\ received_seq'[e] = Len(delivered'[i])
                             /\ received_seq'[e] > 0 => remote_id'[e] = p
  BY DEF DeliveredInOrder
<1>0. TypeOK /\ TypeOK' /\ IdsInOrder' /\ Received' /\ WindowNumbered
  BY DEF StreamInv
<1>1. ASSUME NEW e \in Endpoints, id'[e] = i
      PROVE  \E p \in Ids \ {i} :
                /\ \A k \in 1 .. Len(delivered'[i]) : delivered'[i][k] = [from |-> p, n |-> k]
                /\ Len(delivered'[i]) <= produced'[p]
                /\ received_seq'[e] = Len(delivered'[i])
                /\ received_seq'[e] > 0 => remote_id'[e] = p
  <2>1. /\ Numbered(delivered'[i], remote_id'[e], 0) /\ Len(delivered'[i]) = received_seq'[e]
        /\ remote_id'[e] = NoId => received_seq'[e] = 0
        /\ remote_id'[e] # NoId => received_seq'[e] <= produced'[remote_id'[e]]
    BY <1>0, <1>1 DEF Received
  <2>2. remote_id'[e] \in Ids \cup {NoId} /\ received_seq'[e] \in Nat /\ \A p \in Ids : produced'[p] \in Nat
    BY <1>0, NextTypes
  <2>3. CASE remote_id'[e] = NoId
    <3>1. PICK p \in Ids : p # i
      BY BoundAssumption DEF Ids
    <3>2. Len(delivered'[i]) = 0 /\ 0 <= produced'[p] /\ received_seq'[e] = 0
      BY <2>1, <2>2, <2>3
    <3> QED
      BY <3>1, <3>2
  <2>4. CASE remote_id'[e] # NoId
    <3>1. remote_id'[e] \in Ids \ {i}
      BY <1>0, <1>1, <2>2, <2>4 DEF IdsInOrder
    <3>2. \A k \in 1 .. Len(delivered'[i]) : delivered'[i][k] = [from |-> remote_id'[e], n |-> k]
      BY <2>1 DEF Numbered
    <3> QED
      BY <2>1, <2>4, <3>1, <3>2
  <2> QED
    BY <2>3, <2>4
<1>2. CASE \E e \in Endpoints : id'[e] = i
  <2>1. PICK e \in Endpoints : id'[e] = i
    BY <1>2
  <2>2. \A d \in Endpoints : id'[d] = i => d = e
    BY <1>0, <2>1 DEF IdsInOrder, Endpoints
  <2> QED
    BY <1>1, <2>1, <2>2
<1>3. CASE \A e \in Endpoints : id'[e] # i
  <2>1. PICK p \in Ids \ {i} :
           /\ \A k \in 1 .. Len(delivered[i]) : delivered[i][k] = [from |-> p, n |-> k]
           /\ Len(delivered[i]) <= produced[p]
    BY DEF DeliveredInOrder
  <2>2. ASSUME NEW e \in Endpoints, NEW x, Delivers(e, x) PROVE delivered'[i] = delivered[i]
    BY <1>0, <1>3, <2>2 DEF Delivers, TypeOK
  <2>3. delivered'[i] = delivered[i]
    BY <2>2
       DEF Event, Idle, Opening, Breaking, Producing, Keeping, Writing, Renewing, Refusing, Greeting,
           Releasing, Receiving, SameStreams, Produces, Enqueues, Renews, Binds, Releases
  <2>4. produced[p] <= produced'[p]
    BY <1>0, <2>1, EventProgress
  <2>5. /\ Len(delivered[i]) \in Nat /\ produced[p] \in Nat /\ produced'[p] \in Nat
    <3>1. delivered[i] \in Seq(Payload) /\ produced[p] \in Nat /\ produced'[p] \in Nat
      BY <1>0, <2>1 DEF TypeOK
    <3> QED
      BY <3>1, LenProperties
  <2>6. Len(delivered'[i]) <= produced'[p]
    BY <2>1, <2>3, <2>4, <2>5
  <2> QED
    BY <1>3, <2>1, <2>3, <2>6
<1> QED
  BY <1>2, <1>3

\* What an application receives is the beginning of what one incarnation of the peer's
\* application sent, each message once and in order, over however many connections the
\* stream was resent and whoever was replaced meanwhile.
THEOREM InOrderDelivery == Spec => []DeliveredInOrder
<1>1. Init => StreamInv /\ DeliveredInOrder
  BY InvariantInit, OrderInit
<1>2. StreamInv /\ DeliveredInOrder /\ [Next]_vars => (StreamInv /\ DeliveredInOrder)'
  BY InvariantStep, OrderKept
<1> QED
  BY <1>1, <1>2, PTL DEF Spec

\* Only a restart makes a new incarnation.
LEMMA IdsStay ==
    ASSUME MayRestart = {}, [Next]_vars PROVE UNCHANGED <<id, nids>>
<1> USE DEF appVars, streamVars, ctlVars, srvVars, netVars
<1>1. ASSUME NEW e \in Endpoints, AppStep(e) PROVE UNCHANGED <<id, nids>>
  BY <1>1 DEF AppStep, AppSend, AppDropsSender, AppDropsReceiver, Cancel
<1>2. ASSUME NEW e \in Endpoints, Killed(e) \/ HelloMissing(e) \/ HelloBadSender(e) \/ StreamEnds(e)
                                  \/ AppChannelClosed(e) \/ JoinDone(e)
      PROVE  UNCHANGED <<id, nids>>
  BY <1>2 DEF Killed, HelloMissing, HelloBadSender, StreamEnds, AppChannelClosed, JoinDone
<1>3. ASSUME NEW e \in Endpoints, HelloAccepted(e) \/ HelloBadLastRx(e) PROVE UNCHANGED <<id, nids>>
  BY <1>3 DEF HelloAccepted, HelloBadLastRx
<1>4. ASSUME NEW e \in Endpoints, AppMessage(e) \/ ReceiveAck(e) \/ ReceiveData(e)
      PROVE  UNCHANGED <<id, nids>>
  BY <1>4 DEF AppMessage, TakeFromApp, ReceiveAck, ReceiveData
<1>5. CASE ClientStep
  BY <1>5 DEF ClientStep, ClientTop, Connect, ConnectFails, UnconnectedTakesFromApp, TakeFromApp,
              UnconnectedEnds
<1>6. CASE ServerStep
  BY <1>6 DEF ServerStep, ListenerAccepts, ListenerEnds, RunnerTakesSocket, RunnerEnds
<1>7. ASSUME NEW c \in Conns, Break(c) PROVE UNCHANGED <<id, nids>>
  BY <1>7 DEF Break
<1>8. CASE UNCHANGED vars
  BY <1>8 DEF vars
<1>9. \A e \in Endpoints : ~Restart(e)
  BY DEF Restart
<1> QED
  BY <1>1, <1>2, <1>3, <1>4, <1>5, <1>6, <1>7, <1>8, <1>9 DEF Next, StreamStep

\* Nobody was replaced.
First == nids = 2 /\ \A e \in Endpoints : id[e] \in {1, 2}

\* Where no process is replaced each endpoint knows its only peer.
LEMMA DeliversAcked == StreamInv /\ First => AckedWasDelivered
<1> SUFFICES ASSUME StreamInv, First, NEW e \in Endpoints, NEW k \in 1 .. base_offset[e]
             PROVE  \E i \in Ids : [from |-> id[e], n |-> k] \in Range(delivered[i])
  BY DEF AckedWasDelivered
<1> DEFINE f == Peer(e)
<1>0. TypeOK /\ IdsInOrder /\ Received /\ AckedWasReceived
  BY DEF StreamInv
<1>q. f \in Endpoints /\ Peer(f) = e /\ f # e
  BY PeerProperties
<1>1. /\ base_offset[e] \in Nat /\ received_seq[f] \in Nat /\ k \in Nat \ {0}
      /\ remote_id[e] \in Nat /\ remote_id[f] \in Nat /\ id[f] \in Ids
  BY <1>0, <1>q, StreamTypes
\* Who knows its peer knows the only one there is.
<1>2. \A d \in Endpoints : remote_id[d] # NoId => remote_id[d] = id[Peer(d)]
  <2> SUFFICES ASSUME NEW d \in Endpoints, remote_id[d] # NoId PROVE remote_id[d] = id[Peer(d)]
    OBVIOUS
  <2>1. Peer(d) \in Endpoints /\ id[Peer(d)] # id[d]
    BY <1>0 DEF IdsInOrder, Peer, Endpoints
  <2>2. remote_id[d] \in Nat \ {0} /\ remote_id[d] <= 2 /\ remote_id[d] # id[d]
    BY <1>0, StreamTypes DEF IdsInOrder, First, NoId
  <2>3. id[d] \in {1, 2} /\ id[Peer(d)] \in {1, 2}
    BY <2>1 DEF First
  <2> QED
    BY <2>1, <2>2, <2>3
<1>3. remote_id[e] = id[f]
  <2>1. remote_id[e] # NoId
    BY <1>0, <1>1 DEF Received
  <2> QED
    BY <1>2, <2>1
<1>4. base_offset[e] <= received_seq[f]
  BY <1>0, <1>3 DEF AckedWasReceived
<1>5. remote_id[f] = id[e]
  <2>1. remote_id[f] # NoId
    BY <1>0, <1>1, <1>4, <1>q DEF Received
  <2> QED
    BY <1>2, <1>q, <2>1
<1>6. Len(delivered[id[f]]) = received_seq[f] /\ Numbered(delivered[id[f]], id[e], 0)
  BY <1>0, <1>5, <1>q DEF Received
<1>7. k \in 1 .. Len(delivered[id[f]]) /\ delivered[id[f]] \in Seq(Payload)
  BY <1>0, <1>1, <1>4, <1>6, <1>q DEF TypeOK
<1>8. delivered[id[f]][k] = [from |-> id[e], n |-> k]
  BY <1>1, <1>6, <1>7 DEF Numbered
<1>9. delivered[id[f]][k] \in Range(delivered[id[f]])
  BY <1>7, InRange
<1> QED
  BY <1>1, <1>8, <1>9

\* Where no process is replaced, an endpoint is never told that data was received, and
\* does not release it, when no application was handed that data.  With a restart this
\* fails: run rs_false_ack.
THEOREM AcksAreTrue == ASSUME MayRestart = {} PROVE Spec => []AckedWasDelivered
<1>1. Init => First
  BY DEF Init, First, Endpoints
<1>2. First /\ StreamInv /\ Event /\ [Next]_vars => First'
  <2> SUFFICES ASSUME First, StreamInv, Event, [Next]_vars PROVE First'
    OBVIOUS
  <2>1. UNCHANGED <<id, nids>>
    BY IdsStay
  <2> QED
    BY <2>1 DEF First
<1> QED
  BY <1>1, <1>2, StreamInvariance, InvariantStep, DeliversAcked, PTL DEF Spec

-----------------------------------------------------------------------------
(* The refinement of ReliableLink.                                         *)

\* The initial states are those of the link.
LEMMA LinkInit == Init => Link!Init
<1> SUFFICES ASSUME Init PROVE Link!Init
  OBVIOUS
<1>1. id \in [Endpoints -> Ids]
  BY TypeInit DEF TypeOK
<1> QED
  BY <1>1 DEF Init, Link!Init

\* What is released was sent.
LEMMA LinkWindow ==
    ASSUME StreamInv, NEW e \in Endpoints
    PROVE  /\ Newest(e) \in Nat /\ produced[id[e]] \in Nat
           /\ base_offset[e] <= produced[id[e]] /\ Newest(e) <= produced[id[e]]
<1>0. TypeOK /\ WindowNumbered
  BY DEF StreamInv
<1>1. /\ produced[id[e]] = Newest(e) + Len(app_queue[e]) /\ Len(app_queue[e]) \in Nat
      /\ base_offset[e] \in Nat /\ base_offset[e] <= Newest(e) /\ Newest(e) \in Nat
  BY <1>0, StreamTypes DEF WindowNumbered
<1> QED
  BY <1>1

\* An acknowledgement of what i received, which the window takes, is a release.
LEMMA LinkAcks ==
    ASSUME StreamInv, NEW e \in Endpoints, NEW i \in Ids, NEW seq \in Nat, Releases(e, seq),
           seq <= Len(delivered[i])
    PROVE  /\ base_offset[e] <= seq /\ Link!Releasable(e, i, seq)
           /\ base_offset' = [base_offset EXCEPT ![e] = seq]
<1>1. base_offset[e] <= seq /\ seq <= Newest(e)
  BY ReleasesWindow DEF StreamInv
<1>2. seq <= produced[id[e]]
  BY <1>1, LinkWindow
<1>3. base_offset' = [base_offset EXCEPT ![e] = seq]
  BY DEF Releases, ack
<1> QED
  BY <1>1, <1>2, <1>3 DEF Link!Releasable

\* Where e is bound to i, or binds itself to it, and releases n messages or keeps them
\* all, it takes a step of the link, or none.
LEMMA LinkReleases ==
    ASSUME StreamInv, NEW e \in Endpoints, NEW i \in Ids, NEW n \in Nat,
           base_offset[e] <= n, Link!Releasable(e, i, n),
           base_offset' = [base_offset EXCEPT ![e] = n],
           i # id[e], remote_id[e] \in {NoId, i}, remote_id' = [remote_id EXCEPT ![e] = i],
           UNCHANGED <<id, produced, delivered>>
    PROVE  Link!Next \/ UNCHANGED Link!vars
<1>0. TypeOK
  BY DEF StreamInv
<1>1. n \in 0 .. produced[id[e]]
  BY LinkWindow DEF Link!Releasable
<1>2. CASE remote_id[e] = NoId
  <2>1. Link!Bind(e, i, n)
    BY <1>2 DEF Link!Bind
  <2> QED
    BY <1>1, <2>1 DEF Link!Next
<1>3. CASE remote_id[e] = i
  <2>1. remote_id' = remote_id /\ i # NoId
    BY <1>0, <1>3, BoundAssumption DEF TypeOK, Ids, NoId
  <2>2. CASE base_offset[e] = n
    <3>1. base_offset' = base_offset
      BY <1>0, <2>2 DEF TypeOK
    <3> QED
      BY <2>1, <3>1 DEF Link!vars
  <2>3. CASE base_offset[e] # n
    <3>1. base_offset[e] < n
      BY <1>0, <2>3, StreamTypes
    <3>2. Link!Release(e, n)
      BY <1>3, <2>1, <3>1 DEF Link!Release
    <3> QED
      BY <1>1, <3>2 DEF Link!Next
  <2> QED
    BY <2>2, <2>3
<1> QED
  BY <1>2, <1>3

\* Each event is a step of the link, or one that its applications cannot observe.
LEMMA LinkStep == ASSUME StreamInv, Event PROVE Link!Next \/ UNCHANGED Link!vars
<1> USE DEF Link!vars
<1>0. TypeOK /\ IdsInOrder /\ Received /\ Acknowledged
  BY DEF StreamInv
<1>1. CASE Idle \/ Opening \/ Breaking
  BY <1>1 DEF Idle, Opening, Breaking, SameStreams, streamVars
<1>2. CASE Producing
  BY <1>2 DEF Producing, Produces, streamVars, Link!Next, Link!Produce
<1>3. CASE Keeping \/ Writing
  BY <1>3 DEF Keeping, Writing, Enqueues
<1>4. CASE Refusing \/ Greeting
  <2>1. PICK e \in Endpoints, c \in Conns, m \in Message :
           /\ Greeted(e, c, m) /\ Binds(e, m)
           /\ Releases(e, m.sender_last_rx) \/ UNCHANGED base_offset
    BY <1>4 DEF Refusing, Greeting
  <2>2. /\ UNCHANGED <<id, produced, delivered>> /\ remote_id[e] \in {NoId, m.sender_id}
        /\ remote_id' = [remote_id EXCEPT ![e] = m.sender_id]
    BY <2>1 DEF Binds, known_sender
  <2>3. pipe[Peer(e)][c] # <<>> /\ m = pipe[Peer(e)][c][1] /\ m.type = "Hello"
    BY <2>1 DEF Greeted
  <2>4. 1 \in 1 .. Len(pipe[Peer(e)][c]) /\ Holds(pipe[Peer(e)][c], m)
    <3>1. 1 \in 1 .. Len(pipe[Peer(e)][c])
      BY <1>0, <2>3, PeerProperties, PipeType
    <3> QED
      BY <2>3, <3>1 DEF Holds
  <2>5. m.sender_id \in Ids /\ m.sender_last_rx \in Nat
    BY <2>3, MessageFields
  <2>6. m.sender_id # id[e]
    BY <2>3, <2>4, OldHello
  <2>7. m.sender_last_rx <= Len(delivered[m.sender_id])
    BY <1>0, <2>3, <2>4 DEF Acknowledged
  <2>8. CASE Releases(e, m.sender_last_rx)
    BY <2>2, <2>5, <2>6, <2>7, <2>8, LinkAcks, LinkReleases
  <2>9. CASE UNCHANGED base_offset
    <3>1. base_offset' = [base_offset EXCEPT ![e] = base_offset[e]]
      BY <1>0, <2>9 DEF TypeOK
    <3>2. base_offset[e] \in Nat /\ base_offset[e] <= base_offset[e]
      BY <1>0, StreamTypes
    <3>3. base_offset[e] <= produced[id[e]]
      BY LinkWindow
    <3>4. base_offset[e] <= Len(delivered[m.sender_id])
      <4>1. Len(delivered[m.sender_id]) \in Nat
        BY <1>0, <2>5 DEF TypeOK
      <4>2. remote_id[e] = NoId => base_offset[e] = 0
        BY <1>0 DEF Received
      <4> QED
        BY <1>0, <2>2, <4>1, <4>2 DEF Acknowledged
    <3>5. Link!Releasable(e, m.sender_id, base_offset[e])
      BY <3>3, <3>4 DEF Link!Releasable
    <3> QED
      BY <2>2, <2>5, <2>6, <3>1, <3>2, <3>5, LinkReleases
  <2> QED
    BY <2>1, <2>8, <2>9
<1>5. CASE Releasing
  <2>1. PICK e \in Endpoints, c \in Conns, m \in Message :
           m.type = "Ack" /\ Reads(e, c, m, <<>>) /\ Releases(e, m.seq) /\ UNCHANGED remote_id
    BY <1>5 DEF Releasing
  <2>2. Started(e, c) /\ pipe[Peer(e)][c] # <<>> /\ m = pipe[Peer(e)][c][1]
    BY <2>1 DEF Reads
  <2>3. 1 \in 1 .. Len(pipe[Peer(e)][c])
    BY <1>0, <2>2, PeerProperties, PipeType
  <2>4. m.seq \in Nat /\ m.seq <= Len(delivered[remote_id[e]])
    BY <1>0, <2>1, <2>2, <2>3, MessageFields DEF Acknowledged
  <2>5. remote_id[e] \in Ids /\ remote_id[e] # id[e]
    BY <1>0, <2>2 DEF IdsInOrder, TypeOK
  <2>6. UNCHANGED <<id, produced, delivered>> /\ remote_id' = [remote_id EXCEPT ![e] = remote_id[e]]
    BY <1>0, <2>1 DEF Releases, TypeOK
  <2> QED
    BY <2>1, <2>4, <2>5, <2>6, LinkAcks, LinkReleases
<1>6. CASE Receiving
  <2>1. PICK e \in Endpoints, c \in Conns, m \in Message :
           m.type = "Data" /\ Reads(e, c, m, <<Ack(received_seq[e] + 1)>>) /\ Delivers(e, m.data)
    BY <1>6 DEF Receiving
  <2>2. Started(e, c) /\ pipe[Peer(e)][c] # <<>> /\ m = pipe[Peer(e)][c][1]
    BY <2>1 DEF Reads
  <2>3. /\ remote_id[e] \in Ids /\ m.data = [from |-> remote_id[e], n |-> received_seq[e] + 1]
        /\ received_seq[e] + 1 <= produced[remote_id[e]]
    BY <2>1, <2>2, NextData
  <2>4. Len(delivered[id[e]]) = received_seq[e] /\ received_seq[e] \in Nat
        /\ produced[remote_id[e]] \in Nat /\ id[e] \in Ids
    BY <1>0, <2>3, StreamTypes DEF Received, TypeOK
  <2>5. remote_id[e] # NoId /\ Len(delivered[id[e]]) < produced[remote_id[e]]
    BY <2>3, <2>4, BoundAssumption DEF Ids, NoId
  <2>6. delivered' = [delivered EXCEPT ![id[e]] =
                         Append(@, [from |-> remote_id[e], n |-> Len(@) + 1])]
    BY <2>1, <2>3, <2>4 DEF Delivers
  <2>7. UNCHANGED <<id, remote_id, produced>>
    BY <2>1 DEF Delivers
  <2>8. Link!Deliver(e)
    BY <2>1, <2>5, <2>6, <2>7 DEF Delivers, Link!Deliver
  <2> QED
    BY <2>8 DEF Link!Next
<1>7. CASE Renewing
  <2>1. PICK e \in Endpoints : Renews(e)
    BY <1>7 DEF Renewing
  <2>2. nids + 1 \in Ids /\ nids + 1 > nids /\ nids \in Nat
    <3>1. nids \in 2 .. MaxIds /\ nids < MaxIds /\ MaxIds \in Nat
      BY <1>0, <2>1, BoundAssumption DEF Renews, TypeOK
    <3> QED
      BY <3>1 DEF Ids
  <2>3. produced[nids + 1] = 0 /\ delivered[nids + 1] = <<>>
    BY <1>0, <2>2 DEF IdsInOrder
  <2>4. \A d \in Endpoints : id[d] # nids + 1 /\ remote_id[d] # nids + 1
    <3>1. \A d \in Endpoints : /\ id[d] \in Nat /\ remote_id[d] \in Nat
                               /\ id[d] <= nids /\ remote_id[d] <= nids
      BY <1>0, StreamTypes DEF IdsInOrder
    <3> QED
      BY <2>2, <3>1
  <2>5. Link!Replace(e, nids + 1)
    BY <2>1, <2>3, <2>4 DEF Renews, Link!Replace
  <2> QED
    BY <2>2, <2>5 DEF Link!Next
<1> QED
  BY <1>1, <1>2, <1>3, <1>4, <1>5, <1>6, <1>7 DEF Event

\* The reconnecting stream implements the reliable link: to its applications two
\* endpoints, their connections, windows, acknowledgements and resends are a channel
\* that binds each incarnation once, delivers its peer's messages once and in order, and
\* releases no more messages than that peer has received.
THEOREM Refinement == Spec => LinkSpec
<1>1. StreamInv /\ [Next]_vars => [Link!Next]_(Link!vars)
  BY InvariantStep, LinkStep
<1> QED
  BY <1>1, LinkInit, StreamInvariance, PTL DEF Spec, LinkSpec, Link!Spec
=============================================================================
