---------------------- MODULE ReconnectingStreamProofs ----------------------
(***************************************************************************)
(* Proofs about ReconnectingStream, for every value of its constants.      *)
(***************************************************************************)
EXTENDS ReconnectingStream, SequenceTheorems, WellFoundedInduction, TLAPS

-----------------------------------------------------------------------------
(* Lemmas about the operators of the model.                                *)

\* Peer is an involution without a fixed point.
LEMMA PeerProperties ==
    ASSUME NEW e \in Endpoints
    PROVE  Peer(e) \in Endpoints /\ Peer(e) # e /\ Peer(Peer(e)) = e
BY DEF Endpoints, Peer

\* The constructors build messages.
LEMMA MessageConstructors ==
    /\ \A i \in Ids, rx \in Nat : Hello(i, rx) \in Message
    /\ \A p \in Payload : Data(p) \in Message
    /\ \A s \in Nat : Ack(s) \in Message
BY DEF Message, Hello, Data, Ack, HelloMsg, DataMsg, AckMsg

\* The type of a message tells its fields.
LEMMA MessageFields ==
    ASSUME NEW m \in Message
    PROVE  /\ m.type = "Hello" => m.sender_id \in Ids /\ m.sender_last_rx \in Nat
           /\ m.type = "Data" => m.data \in Payload
           /\ m.type = "Ack" => m.seq \in Nat
BY DEF Message, HelloMsg, DataMsg, AckMsg

\* Sending types the pipes, whether or not the connection is dead.
LEMMA SentType ==
    ASSUME TypeOK, NEW e \in Endpoints, NEW c \in Conns, NEW ms \in Seq(Message)
    PROVE  Sent(e, c, ms) \in Seq(Message)
BY DEF TypeOK, Sent

\* Writing messages to a connection keeps the pipes typed.
LEMMA SendType ==
    ASSUME TypeOK, NEW e \in Endpoints, NEW c \in Conns, NEW ms \in Seq(Message),
           Send(e, c, ms)
    PROVE  pipe' \in [Endpoints -> [Conns -> Seq(Message)]]
BY SentType DEF TypeOK, Send

\* Taking a message and answering it keeps the pipes typed.
LEMMA AnswerType ==
    ASSUME TypeOK, NEW e \in Endpoints, NEW c \in Conns, NEW ms \in Seq(Message),
           pipe[Peer(e)][c] # <<>>, Answer(e, c, ms)
    PROVE  pipe' \in [Endpoints -> [Conns -> Seq(Message)]]
<1>1. Sent(e, c, ms) \in Seq(Message)
  BY SentType
<1>2. Tail(pipe[Peer(e)][c]) \in Seq(Message)
  BY PeerProperties, HeadTailProperties DEF TypeOK
<1> QED
  BY <1>1, <1>2, PeerProperties DEF TypeOK, Answer

\* Dropping connections keeps the pipes and the record of dropped ends typed.
LEMMA CloseType ==
    ASSUME TypeOK, NEW e \in Endpoints, NEW cs, Close(e, cs)
    PROVE  /\ closed' \in [Conns -> SUBSET Endpoints]
           /\ pipe' \in [Endpoints -> [Conns -> Seq(Message)]]
<1>1. <<>> \in Seq(Message)
  BY EmptySeq
<1>2. [c \in Conns |-> IF c \in cs THEN <<>> ELSE pipe[Peer(e)][c]]
        \in [Conns -> Seq(Message)]
  BY <1>1, PeerProperties DEF TypeOK
<1> QED
  BY <1>2, PeerProperties DEF TypeOK, Close

\* A prefix of a sequence has its type.
LEMMA PrefixType ==
    ASSUME NEW S, NEW s \in Seq(S), NEW t \in Prefixes(s)
    PROVE  t \in Seq(S)
<1>1. PICK k \in 0 .. Len(s) : t = SubSeq(s, 1, k)
  BY DEF Prefixes
<1> QED
  BY <1>1, SubSeqProperties, ElementOfSeq, LenProperties

\* What an accepted acknowledgement leaves in the window has its type.
LEMMA UnackedAfterType ==
    ASSUME TypeOK, NEW e \in Endpoints, NEW seq \in Nat, ack_accepted(e, seq)
    PROVE  unacked_after(e, seq) \in Seq(Payload)
<1> DEFINE s == sent_unacked[e]
           m == seq - base_offset[e] + 1
<1>0. s \in Seq(Payload) /\ base_offset[e] \in Nat
  BY DEF TypeOK
<1>1. /\ Len(s) \in Nat
      /\ m \in Nat \ {0} /\ m <= Len(s) + 1
  BY <1>0, LenProperties DEF ack_accepted
<1>2. \A i \in m .. Len(s) : s[i] \in Payload
  BY <1>0, <1>1, ElementOfSeq
<1> QED
  BY <1>0, <1>1, <1>2, SubSeqProperties DEF unacked_after

\* A resend is a sequence of messages.
LEMMA ResendType ==
    ASSUME NEW s \in Seq(Payload)
    PROVE  resend(s) \in Seq(Message) /\ Len(resend(s)) = Len(s)
BY MessageConstructors, LenProperties DEF resend

-----------------------------------------------------------------------------
(* Sizes: what the recursion of size_of computes.                          *)

\* Every set of numbers has a least element.
LEMMA LeastElement ==
    ASSUME NEW S, S \subseteq Nat, S # {}
    PROVE  \E x \in S : \A y \in S : x <= y
<1> DEFINE R == {ss \in Nat \X Nat : ss[1] < ss[2]}
<1>1. R = OpToRel(<, Nat)
  BY DEF OpToRel
<1>2. IsWellFoundedOn(R, Nat)
  BY <1>1, NatLessThanWellFounded
<1>3. PICK x \in S : \A y \in S : ~(<<y, x>> \in R)
  <2> HIDE DEF R
  <2> QED
    BY <1>2, WFMin
<1>4. ASSUME NEW y \in S PROVE x <= y
  <2>1. ~(<<y, x>> \in R)
    BY <1>3
  <2>2. ~(y < x)
    BY <2>1
  <2> QED
    BY <2>2
<1> QED
  BY <1>4

\* What holds of 0, and of k if of k - 1, holds up to N: the set of numbers of which
\* it holds takes the place of the predicate.
LEMMA UpTo ==
    ASSUME NEW N \in Nat, NEW S, 0 \in S,
           \A k \in 1 .. N : k - 1 \in S => k \in S
    PROVE  0 .. N \subseteq S
<1> DEFINE B == (0 .. N) \ S
<1> SUFFICES ASSUME B # {} PROVE FALSE
  OBVIOUS
<1>1. PICK x \in B : \A y \in B : x <= y
  <2>1. B \subseteq Nat
    OBVIOUS
  <2> QED
    BY <2>1, LeastElement
<1>2. x \in 1 .. N
  BY <1>1
<1>3. x - 1 \in S
  BY <1>1, <1>2
<1> QED
  BY <1>1, <1>2, <1>3

\* f[k] is the size of the first k messages of s, for k up to m.
Sums(f, s, m)  == f[0] = 0 /\ \A k \in 1 .. m : f[k] = f[k - 1] + MsgSize[s[k].n]
Sizes(f, s, m) == f \in [0 .. m -> Nat] /\ Sums(f, s, m)

\* A sequence of messages each of which has a size.
Sized(s) == s \in Seq(Payload) /\ \A k \in 1 .. Len(s) : MsgSize[s[k].n] \in Nat

\* What size_of chooses.
IsSize(f, s) ==
    f = [k \in 0 .. Len(s) |-> IF k = 0 THEN 0 ELSE f[k - 1] + MsgSize[s[k].n]]

\* There are such sizes: those up to k - 1 and one more are those up to k.
LEMMA SizesExist == ASSUME NEW s, Sized(s) PROVE \E f : Sizes(f, s, Len(s))
<1> DEFINE N == Len(s)
           S == {m \in 0 .. N : \E f : Sizes(f, s, m)}
<1>0. N \in Nat /\ \A k \in 1 .. N : MsgSize[s[k].n] \in Nat
  BY LenProperties DEF Sized
<1>1. 0 \in S
  <2>1. Sizes([k \in 0 .. 0 |-> 0], s, 0)
    BY DEF Sizes, Sums
  <2> QED
    BY <1>0, <2>1
<1>2. ASSUME NEW k \in 1 .. N, k - 1 \in S PROVE k \in S
  <2>1. PICK f : Sizes(f, s, k - 1)
    BY <1>2
  <2> DEFINE g == [j \in 0 .. k |-> IF j = k THEN f[k - 1] + MsgSize[s[k].n] ELSE f[j]]
  <2>2. f \in [0 .. k - 1 -> Nat] /\ f[0] = 0
        /\ \A j \in 1 .. k - 1 : f[j] = f[j - 1] + MsgSize[s[j].n]
    BY <2>1 DEF Sizes, Sums
  <2>3. f[k - 1] + MsgSize[s[k].n] \in Nat
    BY <1>0, <2>2
  <2>4. g \in [0 .. k -> Nat] /\ g[0] = 0
    BY <1>0, <2>2, <2>3
  <2>5. ASSUME NEW j \in 1 .. k PROVE g[j] = g[j - 1] + MsgSize[s[j].n]
    <3>1. g[j - 1] = f[j - 1]
      BY <1>0
    <3>2. CASE j = k
      BY <3>1, <3>2
    <3>3. CASE j # k
      <4>1. j \in 1 .. k - 1
        BY <1>0, <3>3
      <4> QED
        BY <2>2, <3>1, <4>1
    <3> QED
      BY <3>2, <3>3
  <2>6. Sizes(g, s, k)
    BY <2>4, <2>5 DEF Sizes, Sums
  <2> QED
    BY <1>0, <2>6
<1>3. 0 .. N \subseteq S
  <2> HIDE DEF S, N
  <2> QED
    BY <1>0, <1>1, <1>2, UpTo
<1> QED
  BY <1>0, <1>3

\* And no others.
LEMMA SameSizes ==
    ASSUME NEW s, NEW m \in Nat, NEW f, NEW g, Sums(f, s, m), Sums(g, s, m)
    PROVE  \A k \in 0 .. m : f[k] = g[k]
<1> DEFINE S == {k \in 0 .. m : f[k] = g[k]}
<1>1. 0 \in S /\ \A k \in 1 .. m : k - 1 \in S => k \in S
  BY DEF Sums
<1>2. 0 .. m \subseteq S
  <2> HIDE DEF S
  <2> QED
    BY <1>1, UpTo
<1> QED
  BY <1>2

\* The recursion of size_of is theirs.
LEMMA SizeIs ==
    ASSUME NEW s, Sized(s), NEW f, Sizes(f, s, Len(s))
    PROVE  size_of(s) = f[Len(s)] /\ size_of(s) \in Nat
<1> DEFINE g == CHOOSE h : IsSize(h, s)
<1>0. Len(s) \in Nat
  BY LenProperties DEF Sized
<1>1. IsSize(f, s)
  <2>1. \A k \in 0 .. Len(s) : f[k] = IF k = 0 THEN 0 ELSE f[k - 1] + MsgSize[s[k].n]
    BY <1>0 DEF Sizes, Sums
  <2>2. f = [k \in 0 .. Len(s) |-> f[k]]
    BY DEF Sizes, Sums
  <2> QED
    BY <2>1, <2>2 DEF IsSize
<1>2. IsSize(g, s)
  BY <1>1
<1>3. size_of(s) = g[Len(s)]
  BY DEF size_of, IsSize
<1> HIDE DEF g
<1>4. Sums(g, s, Len(s)) /\ Sums(f, s, Len(s))
  <2>1. \A k \in 0 .. Len(s) : g[k] = IF k = 0 THEN 0 ELSE g[k - 1] + MsgSize[s[k].n]
    BY <1>2 DEF IsSize
  <2>2. g[0] = 0 /\ \A k \in 1 .. Len(s) : g[k] = g[k - 1] + MsgSize[s[k].n]
    BY <1>0, <2>1
  <2> QED
    BY <2>2 DEF Sums, Sizes
<1>5. f[Len(s)] = g[Len(s)]
  BY <1>0, <1>4, SameSizes
<1>6. f[Len(s)] \in Nat
  BY <1>0 DEF Sizes
<1> QED
  BY <1>3, <1>5, <1>6

\* The size of no messages, of one more, and of what is left without the first m.
LEMMA SizeParts ==
    ASSUME NEW s, Sized(s)
    PROVE  /\ size_of(s) \in Nat
           /\ s = <<>> => size_of(s) = 0
           /\ \A p \in Payload : MsgSize[p.n] \in Nat =>
                 size_of(Append(s, p)) = size_of(s) + MsgSize[p.n]
           /\ \A m \in 0 .. Len(s) : size_of(SubSeq(s, m + 1, Len(s))) <= size_of(s)
<1>0. s \in Seq(Payload) /\ Len(s) \in Nat /\ \A k \in 1 .. Len(s) : MsgSize[s[k].n] \in Nat
  BY LenProperties DEF Sized
<1>1. PICK f : Sizes(f, s, Len(s))
  BY SizesExist
<1>2. size_of(s) = f[Len(s)] /\ size_of(s) \in Nat
  BY <1>1, SizeIs
<1>f. f \in [0 .. Len(s) -> Nat] /\ f[0] = 0
      /\ \A k \in 1 .. Len(s) : f[k] = f[k - 1] + MsgSize[s[k].n]
  BY <1>1 DEF Sizes, Sums
<1>3. s = <<>> => size_of(s) = 0
  <2>1. s = <<>> => Len(s) = 0
    BY <1>0, LenProperties
  <2> QED
    BY <1>2, <1>f, <2>1
<1>4. ASSUME NEW p \in Payload, MsgSize[p.n] \in Nat
      PROVE  size_of(Append(s, p)) = size_of(s) + MsgSize[p.n]
  <2> DEFINE t == Append(s, p)
  <2>1. /\ t \in Seq(Payload) /\ Len(t) = Len(s) + 1 /\ t[Len(s) + 1] = p
        /\ \A k \in 1 .. Len(s) : t[k] = s[k]
    BY <1>0, AppendProperties
  <2> HIDE DEF t
  <2>2. \A k \in 1 .. Len(t) : k \in 1 .. Len(s) \/ k = Len(s) + 1
    BY <1>0, <2>1
  <2>3. Sized(t)
    BY <1>0, <1>4, <2>1, <2>2 DEF Sized
  <2>4. PICK g : Sizes(g, t, Len(t))
    BY <2>3, SizesExist
  <2>5. g[Len(s) + 1] = g[Len(s)] + MsgSize[p.n] /\ Sums(g, s, Len(s))
    <3>1. g[0] = 0 /\ \A k \in 1 .. Len(s) + 1 : g[k] = g[k - 1] + MsgSize[t[k].n]
      BY <2>1, <2>4 DEF Sizes, Sums
    <3>2. g[Len(s) + 1] = g[(Len(s) + 1) - 1] + MsgSize[p.n]
      BY <1>0, <2>1, <3>1
    <3>3. \A k \in 1 .. Len(s) : k \in 1 .. Len(s) + 1
      BY <1>0
    <3>4. Sums(g, s, Len(s))
      BY <2>1, <3>1, <3>3 DEF Sums
    <3> QED
      BY <1>0, <3>2, <3>4
  <2>6. f[Len(s)] = g[Len(s)]
    <3>1. \A k \in 0 .. Len(s) : f[k] = g[k]
      BY <1>0, <1>1, <2>5, SameSizes DEF Sizes
    <3> QED
      BY <1>0, <3>1
  <2>7. size_of(t) = g[Len(t)]
    BY <2>3, <2>4, SizeIs
  <2>8. size_of(t) = size_of(s) + MsgSize[p.n]
    BY <1>2, <2>1, <2>5, <2>6, <2>7
  <2> QED
    BY <2>8 DEF t
<1>5. ASSUME NEW m \in 0 .. Len(s)
      PROVE  size_of(SubSeq(s, m + 1, Len(s))) <= size_of(s)
  <2> DEFINE t == SubSeq(s, m + 1, Len(s))
             n == Len(s) - m
  <2>1. \A k \in m + 1 .. Len(s) : s[k] \in Payload
    BY <1>0, ElementOfSeq
  <2>2. m + 1 \in 1 .. Len(s) + 1
    BY <1>0
  <2>3. /\ t \in Seq(Payload)
        /\ Len(t) = IF m + 1 <= Len(s) THEN Len(s) - (m + 1) + 1 ELSE 0
        /\ \A k \in 1 .. Len(s) - (m + 1) + 1 : t[k] = s[(m + 1) + k - 1]
    BY <1>0, <2>1, <2>2, SubSeqProperties
  <2> HIDE DEF t
  <2>4. n \in Nat /\ Len(t) = n /\ m + n = Len(s) /\ \A k \in 1 .. n : m + k \in 1 .. Len(s) /\ t[k] = s[m + k]
    BY <1>0, <2>3
  <2>5. Sized(t)
    BY <1>0, <2>3, <2>4 DEF Sized
  <2>6. PICK g : Sizes(g, t, n)
    BY <2>4, <2>5, SizesExist
  <2>g. /\ g \in [0 .. n -> Nat] /\ g[0] = 0
        /\ \A k \in 1 .. n : g[k] = g[k - 1] + MsgSize[s[m + k].n]
    BY <2>4, <2>6 DEF Sizes, Sums
  <2> DEFINE S == {k \in 0 .. n : f[m + k] = f[m] + g[k]}
  <2>7. 0 \in S
    BY <1>0, <1>f, <2>4, <2>g
  <2>8. ASSUME NEW k \in 1 .. n, k - 1 \in S PROVE k \in S
    <3>1. m + k \in 1 .. Len(s) /\ m + (k - 1) = (m + k) - 1 /\ k - 1 \in 0 .. n
      BY <2>4
    <3>2. f[m + k] = f[m + (k - 1)] + MsgSize[s[m + k].n]
      BY <1>f, <3>1
    <3>3. g[k] = g[k - 1] + MsgSize[s[m + k].n] /\ f[m + (k - 1)] = f[m] + g[k - 1]
      BY <2>8, <2>g
    <3>4. f[m] \in Nat /\ g[k - 1] \in Nat /\ MsgSize[s[m + k].n] \in Nat
      BY <1>0, <1>f, <2>g, <3>1
    <3>5. f[m + k] = f[m] + g[k]
      BY <3>2, <3>3, <3>4
    <3> QED
      BY <2>4, <3>5
  <2>9. 0 .. n \subseteq S
    <3> HIDE DEF S, n
    <3> QED
      BY <2>4, <2>7, <2>8, UpTo
  <2>10. f[Len(s)] = f[m] + g[n] /\ f[m] \in Nat /\ g[n] \in Nat
    <3>1. n \in S
      BY <2>4, <2>9
    <3>2. f[m + n] = f[m] + g[n]
      BY <3>1
    <3> QED
      BY <1>f, <2>4, <3>2, <2>g
  <2>11. size_of(t) = g[n]
    BY <2>4, <2>5, <2>6, SizeIs
  <2>12. size_of(t) <= size_of(s)
    BY <1>2, <2>10, <2>11
  <2> QED
    BY <2>12 DEF t
<1> QED
  BY <1>2, <1>3, <1>4, <1>5

-----------------------------------------------------------------------------
(* Type correctness.                                                       *)

\* The two endpoints start with typed variables.
LEMMA TypeInit == Init => TypeOK
<1> SUFFICES ASSUME Init PROVE TypeOK
  OBVIOUS
<1>1. /\ 1 \in Ids /\ 2 \in Ids /\ 2 \in 2 .. MaxIds /\ 0 \in 0 .. MaxConns
      /\ 0 \notin Conns
  BY BoundAssumption DEF Ids, Conns
<1>2. \A S : <<>> \in Seq(S)
  BY EmptySeq
<1>3. /\ StartPC("client") = "top" /\ StartPC("server") = "accept"
  BY DEF StartPC
<1> QED
  BY <1>1, <1>2, <1>3 DEF Init, TypeOK, Endpoints, ClientPC, ServerPC, NoId, NoConn

\* Returning from run_stream leads its task to a control state of its own.
LEMMA ReturnType ==
    ASSUME TypeOK, NEW e \in Endpoints, Return(e), conn[e] # NoConn
    PROVE  /\ closed' \in [Conns -> SUBSET Endpoints]
           /\ pipe' \in [Endpoints -> [Conns -> Seq(Message)]]
           /\ pc' \in [Endpoints -> ClientPC \cup ServerPC]
           /\ pc'["client"] \in ClientPC /\ pc'["server"] \in ServerPC
           /\ conn' \in [Endpoints -> Conns \cup {NoConn}]
           /\ \A d \in Endpoints : conn'[d] # NoConn <=> pc'[d] \in {"hello", "running", "joining"}
<1>1. /\ closed' \in [Conns -> SUBSET Endpoints]
      /\ pipe' \in [Endpoints -> [Conns -> Seq(Message)]]
  BY CloseType DEF Return
<1> QED
  BY <1>1 DEF TypeOK, Return, LeavePC, ClientPC, ServerPC, Endpoints

\* Leaving the loop of run_stream keeps the connection, for the join.
LEMMA BreakLoopType ==
    ASSUME TypeOK, NEW e \in Endpoints, BreakLoop(e), conn[e] # NoConn
    PROVE  /\ closed' \in [Conns -> SUBSET Endpoints]
           /\ pipe' \in [Endpoints -> [Conns -> Seq(Message)]]
           /\ pc' \in [Endpoints -> ClientPC \cup ServerPC]
           /\ pc'["client"] \in ClientPC /\ pc'["server"] \in ServerPC
           /\ conn' \in [Endpoints -> Conns \cup {NoConn}]
           /\ \A d \in Endpoints : conn'[d] # NoConn <=> pc'[d] \in {"hello", "running", "joining"}
<1>1. /\ closed' \in [Conns -> SUBSET Endpoints]
      /\ pipe' \in [Endpoints -> [Conns -> Seq(Message)]]
  BY CloseType DEF BreakLoop
<1> QED
  BY <1>1 DEF TypeOK, BreakLoop, ClientPC, ServerPC, Endpoints

\* Every step keeps the types: one case per action, for either endpoint.
LEMMA TypeStep == TypeOK /\ [Next]_vars => TypeOK'
<1> SUFFICES ASSUME TypeOK, [Next]_vars PROVE TypeOK'
  OBVIOUS
<1> USE DEF vars, appVars, streamVars, ctlVars, srvVars, netVars
<1>1. ASSUME NEW e \in Endpoints, AppSend(e) PROVE TypeOK'
  <2>0. id[e] \in Ids /\ produced[id[e]] \in Nat
    BY DEF TypeOK
  <2>1. produced[id[e]] + 1 \in Nat \ {0}
    BY <2>0
  <2>2. [from |-> id[e], n |-> produced[id[e]] + 1] \in Payload
    BY <2>0, <2>1 DEF Payload
  <2>3. app_queue' \in [Endpoints -> Seq(Payload)]
    BY <1>1, <2>2, AppendProperties DEF TypeOK, AppSend
  <2>4. produced' \in [Ids -> Nat]
    BY <1>1, <2>0, <2>1 DEF TypeOK, AppSend
  <2> QED
    BY <1>1, <2>3, <2>4 DEF TypeOK, AppSend
<1>2. ASSUME NEW e \in Endpoints, AppDropsSender(e) PROVE TypeOK'
  BY <1>2 DEF TypeOK, AppDropsSender
<1>3. ASSUME NEW e \in Endpoints, AppDropsReceiver(e) PROVE TypeOK'
  BY <1>3 DEF TypeOK, AppDropsReceiver
<1>4. ASSUME NEW e \in Endpoints, Cancel(e) PROVE TypeOK'
  BY <1>4 DEF TypeOK, Cancel
<1>5. ASSUME NEW e \in Endpoints, Restart(e) PROVE TypeOK'
  <2>1. /\ closed' \in [Conns -> SUBSET Endpoints]
        /\ pipe' \in [Endpoints -> [Conns -> Seq(Message)]]
    BY <1>5, CloseType DEF Restart
  <2>2. nids + 1 \in Ids /\ nids + 1 \in 2 .. MaxIds
    BY <1>5, BoundAssumption DEF TypeOK, Restart, Ids
  <2>3. \A S : <<>> \in Seq(S)
    BY EmptySeq
  <2>4. /\ pc' \in [Endpoints -> ClientPC \cup ServerPC]
        /\ pc'["client"] \in ClientPC /\ pc'["server"] \in ServerPC
        /\ conn' \in [Endpoints -> Conns \cup {NoConn}]
        /\ \A d \in Endpoints : conn'[d] # NoConn <=> pc'[d] \in {"hello", "running", "joining"}
    BY <1>5 DEF TypeOK, Restart, StartPC, ClientPC, ServerPC, Endpoints
  <2>5. backlog' \in Seq(Conns) /\ socket_queue' \in Seq(Conns) /\ listening' \in BOOLEAN
    BY <1>5, <2>3 DEF TypeOK, Restart
  <2> QED
    BY <1>5, <2>1, <2>2, <2>3, <2>4, <2>5 DEF TypeOK, Restart
<1>6. ASSUME ClientTop PROVE TypeOK'
  BY <1>6 DEF TypeOK, ClientTop, ClientPC, ServerPC, Endpoints
<1>7. ASSUME Connect PROVE TypeOK'
  <2>1. "client" \in Endpoints /\ nconns + 1 \in Conns /\ nconns + 1 \in 0 .. MaxConns
        /\ nconns + 1 # NoConn
    BY <1>7, BoundAssumption DEF TypeOK, Connect, Conns, Endpoints, NoConn
  <2>2. <<make_hello("client")>> \in Seq(Message)
    BY <2>1, MessageConstructors DEF TypeOK, make_hello
  <2>3. pipe' \in [Endpoints -> [Conns -> Seq(Message)]]
    BY <1>7, <2>1, <2>2, SendType DEF Connect
  <2>4. backlog' \in Seq(Conns)
    BY <1>7, <2>1, AppendProperties DEF TypeOK, Connect
  <2> QED
    BY <1>7, <2>1, <2>3, <2>4 DEF TypeOK, Connect, ClientPC, ServerPC, Endpoints
<1>8. ASSUME ConnectFails PROVE TypeOK'
  BY <1>8 DEF TypeOK, ConnectFails, ClientPC, ServerPC, Endpoints
<1>9. ASSUME NEW e \in Endpoints, TakeFromApp(e)
      PROVE  /\ app_queue' \in [Endpoints -> Seq(Payload)]
             /\ sent_unacked' \in [Endpoints -> Seq(Payload)]
             /\ Head(app_queue[e]) \in Payload
  <2>1. /\ app_queue[e] \in Seq(Payload) /\ app_queue[e] # <<>>
        /\ sent_unacked[e] \in Seq(Payload)
    BY <1>9 DEF TypeOK, TakeFromApp
  <2>2. Head(app_queue[e]) \in Payload /\ Tail(app_queue[e]) \in Seq(Payload)
    BY <2>1, HeadTailProperties
  <2>3. Append(sent_unacked[e], Head(app_queue[e])) \in Seq(Payload)
    BY <2>1, <2>2, AppendProperties
  <2> QED
    BY <1>9, <2>2, <2>3 DEF TypeOK, TakeFromApp
<1>10. ASSUME UnconnectedTakesFromApp PROVE TypeOK'
  <2>1. "client" \in Endpoints
    BY DEF Endpoints
  <2> QED
    BY <1>9, <1>10, <2>1 DEF TypeOK, UnconnectedTakesFromApp, TakeFromApp
<1>11. ASSUME UnconnectedEnds PROVE TypeOK'
  BY <1>11 DEF TypeOK, UnconnectedEnds, ClientPC, ServerPC, Endpoints
<1>12. ASSUME ListenerAccepts PROVE TypeOK'
  <2>1. "server" \in Endpoints
    BY DEF Endpoints
  <2>2. backlog \in Seq(Conns) /\ backlog # <<>> /\ socket_queue \in Seq(Conns)
    BY <1>12 DEF TypeOK, ListenerAccepts
  <2>3. Head(backlog) \in Conns /\ Tail(backlog) \in Seq(Conns)
    BY <2>2, HeadTailProperties
  <2>4. Append(socket_queue, Head(backlog)) \in Seq(Conns)
    BY <2>2, <2>3, AppendProperties
  <2>5. /\ closed' \in [Conns -> SUBSET Endpoints]
        /\ pipe' \in [Endpoints -> [Conns -> Seq(Message)]]
        /\ socket_queue' \in Seq(Conns)
    <3>1. CASE pc["server"] = "stopped"
      BY <1>12, <3>1, <2>1, CloseType DEF TypeOK, ListenerAccepts
    <3>2. CASE pc["server"] # "stopped"
      BY <1>12, <3>2, <2>4 DEF TypeOK, ListenerAccepts
    <3> QED
      BY <3>1, <3>2
  <2> QED
    BY <1>12, <2>3, <2>5 DEF TypeOK, ListenerAccepts
<1>13. ASSUME ListenerEnds PROVE TypeOK'
  <2>1. /\ closed' \in [Conns -> SUBSET Endpoints]
        /\ pipe' \in [Endpoints -> [Conns -> Seq(Message)]]
    BY <1>13, CloseType DEF ListenerEnds, Endpoints
  <2>2. <<>> \in Seq(Conns)
    BY EmptySeq
  <2> QED
    BY <1>13, <2>1, <2>2 DEF TypeOK, ListenerEnds
<1>14. ASSUME RunnerTakesSocket PROVE TypeOK'
  <2> DEFINE len == Len(socket_queue)
             rest(k) == SubSeq(socket_queue, k + 1, Len(socket_queue))
             unused(k) == Range(SubSeq(socket_queue, 1, k - 1))
  <2>1. "server" \in Endpoints /\ socket_queue \in Seq(Conns) /\ Len(socket_queue) \in Nat
    BY LenProperties DEF TypeOK, Endpoints
  <2>2. ASSUME NEW k \in 1 .. Len(socket_queue)
        PROVE  socket_queue[k] \in Conns /\ rest(k) \in Seq(Conns)
    BY <2>1, ElementOfSeq, SubSeqProperties
  <2>3. ASSUME NEW k \in 1 .. Len(socket_queue),
               closed' = [d \in Conns |->
                        IF d \in unused(k) THEN closed[d] \cup {"server"} ELSE closed[d]],
               pipe' = [e \in Endpoints |-> [d \in Conns |->
                        CASE e = "client" /\ d \in unused(k) -> <<>>
                          [] e = "server" /\ d = socket_queue[k] ->
                               Sent(e, socket_queue[k], <<make_hello(e)>>)
                          [] OTHER -> pipe[e][d]]]
        PROVE  /\ closed' \in [Conns -> SUBSET Endpoints]
               /\ pipe' \in [Endpoints -> [Conns -> Seq(Message)]]
    <3>1. \A e \in Endpoints : <<make_hello(e)>> \in Seq(Message)
      BY MessageConstructors DEF TypeOK, make_hello
    <3>2. \A e \in Endpoints : Sent(e, socket_queue[k], <<make_hello(e)>>) \in Seq(Message)
      BY <2>2, <3>1, SentType
    <3>3. <<>> \in Seq(Message)
      BY EmptySeq
    <3> QED
      BY <2>3, <2>1, <3>2, <3>3 DEF TypeOK
  <2>4. PICK k \in 1 .. Len(socket_queue) :
            /\ socket_queue' = rest(k)
            /\ \/ /\ closed' = [d \in Conns |->
                        IF d \in unused(k) THEN closed[d] \cup {"server"} ELSE closed[d]]
                  /\ pipe' = [e \in Endpoints |-> [d \in Conns |->
                        CASE e = "client" /\ d \in unused(k) -> <<>>
                          [] e = "server" /\ d = socket_queue[k] ->
                               Sent(e, socket_queue[k], <<make_hello(e)>>)
                          [] OTHER -> pipe[e][d]]]
                  /\ pc' = [pc EXCEPT !["server"] = "hello"]
                  /\ conn' = [conn EXCEPT !["server"] = socket_queue[k]]
               \/ /\ Close("server", unused(k) \cup {socket_queue[k]})
                  /\ UNCHANGED <<pc, conn>>
    BY <1>14 DEF RunnerTakesSocket
  <2>5. socket_queue' \in Seq(Conns) /\ socket_queue[k] \in Conns
    BY <2>2, <2>4
  <2> HIDE DEF rest, unused
  <2>6. /\ closed' \in [Conns -> SUBSET Endpoints]
        /\ pipe' \in [Endpoints -> [Conns -> Seq(Message)]]
    BY <2>1, <2>3, <2>4, CloseType
  <2>7. /\ pc' \in [Endpoints -> ClientPC \cup ServerPC]
        /\ pc'["client"] \in ClientPC /\ pc'["server"] \in ServerPC
        /\ conn' \in [Endpoints -> Conns \cup {NoConn}]
        /\ \A d \in Endpoints : conn'[d] # NoConn <=> pc'[d] \in {"hello", "running", "joining"}
    <3>1. socket_queue[k] # NoConn
      BY <2>5 DEF NoConn, Conns
    <3>2. CASE UNCHANGED <<pc, conn>>
      BY <3>2 DEF TypeOK
    <3>3. CASE /\ pc' = [pc EXCEPT !["server"] = "hello"]
               /\ conn' = [conn EXCEPT !["server"] = socket_queue[k]]
      BY <2>5, <3>1, <3>3 DEF TypeOK, ClientPC, ServerPC, Endpoints
    <3> QED
      BY <2>4, <3>2, <3>3
  <2> QED
    BY <1>14, <2>5, <2>6, <2>7 DEF TypeOK, RunnerTakesSocket
<1>15. ASSUME RunnerEnds PROVE TypeOK'
  <2>1. /\ closed' \in [Conns -> SUBSET Endpoints]
        /\ pipe' \in [Endpoints -> [Conns -> Seq(Message)]]
    BY <1>15, CloseType DEF RunnerEnds, Endpoints
  <2>2. <<>> \in Seq(Conns)
    BY EmptySeq
  <2> QED
    BY <1>15, <2>1, <2>2 DEF TypeOK, RunnerEnds, ClientPC, ServerPC, Endpoints
<1>16. ASSUME NEW e \in Endpoints
       PROVE  pc[e] \in {"hello", "running", "joining"} =>
                  conn[e] # NoConn /\ conn[e] \in Conns /\ Incoming(e) \in Seq(Message)
  BY PeerProperties DEF TypeOK, Incoming
<1>17. ASSUME NEW e \in Endpoints, pc[e] \in {"hello", "running"}, Incoming(e) # <<>>
       PROVE  Head(Incoming(e)) \in Message
  BY <1>16, <1>17, HeadTailProperties
<1>18. ASSUME NEW e \in Endpoints, Killed(e) PROVE TypeOK'
  BY <1>16, <1>18, ReturnType DEF TypeOK, Killed, InStream
<1>19. ASSUME NEW e \in Endpoints, HelloAccepted(e) PROVE TypeOK'
  <2> DEFINE hm == Head(Incoming(e))
             left == unacked_after(e, hm.sender_last_rx)
  <2>1. /\ pc[e] = "hello" /\ Incoming(e) # <<>> /\ conn[e] \in Conns /\ conn[e] # NoConn
        /\ pipe[Peer(e)][conn[e]] # <<>>
    BY <1>16, <1>19 DEF HelloAccepted, HasMsg, Incoming
  <2>2. hm.sender_id \in Ids /\ hm.sender_last_rx \in Nat
    BY <1>17, <1>19, <2>1, MessageFields DEF HelloAccepted, HasMsg
  <2>3. left \in Seq(Payload)
    BY <1>19, <2>2, UnackedAfterType DEF HelloAccepted
  <2>4. resend(left) \in Seq(Message)
    BY <2>3, ResendType
  <2>5. /\ remote_id' \in [Endpoints -> Ids \cup {NoId}]
        /\ sent_unacked' \in [Endpoints -> Seq(Payload)]
        /\ base_offset' \in [Endpoints -> Nat]
    BY <1>19, <2>2, <2>3 DEF TypeOK, HelloAccepted, ack
  <2>6. /\ closed' \in [Conns -> SUBSET Endpoints]
        /\ pipe' \in [Endpoints -> [Conns -> Seq(Message)]]
        /\ pc' \in [Endpoints -> ClientPC \cup ServerPC]
        /\ pc'["client"] \in ClientPC /\ pc'["server"] \in ServerPC
        /\ conn' \in [Endpoints -> Conns \cup {NoConn}]
        /\ \A d \in Endpoints : conn'[d] # NoConn <=> pc'[d] \in {"hello", "running", "joining"}
    <3>1. CASE Return(e)
      BY <2>1, <3>1, ReturnType
    <3>2. CASE /\ Answer(e, conn[e], resend(left))
               /\ pc' = [pc EXCEPT ![e] = "running"]
               /\ UNCHANGED <<closed, conn>>
      <4>1. pipe' \in [Endpoints -> [Conns -> Seq(Message)]]
        BY <2>1, <2>4, <3>2, AnswerType
      <4> QED
        BY <2>1, <3>2, <4>1 DEF TypeOK, ClientPC, ServerPC, Endpoints
    <3> QED
      BY <1>19, <3>1, <3>2 DEF HelloAccepted
  <2> QED
    BY <1>19, <2>5, <2>6 DEF TypeOK, HelloAccepted
<1>20. ASSUME NEW e \in Endpoints, HelloBadSender(e) PROVE TypeOK'
  BY <1>16, <1>20, ReturnType DEF TypeOK, HelloBadSender
<1>21. ASSUME NEW e \in Endpoints, HelloBadLastRx(e) PROVE TypeOK'
  <2>1. Head(Incoming(e)).sender_id \in Ids
    BY <1>17, <1>21, MessageFields DEF HelloBadLastRx, HasMsg
  <2>2. remote_id' \in [Endpoints -> Ids \cup {NoId}]
    BY <1>21, <2>1 DEF TypeOK, HelloBadLastRx
  <2> QED
    BY <1>16, <1>21, <2>2, ReturnType DEF TypeOK, HelloBadLastRx
<1>22. ASSUME NEW e \in Endpoints, HelloMissing(e) PROVE TypeOK'
  BY <1>16, <1>22, ReturnType DEF TypeOK, HelloMissing
<1>23. ASSUME NEW e \in Endpoints, AppMessage(e) PROVE TypeOK'
  <2>1. /\ app_queue' \in [Endpoints -> Seq(Payload)]
        /\ sent_unacked' \in [Endpoints -> Seq(Payload)]
        /\ Head(app_queue[e]) \in Payload
    BY <1>9, <1>23 DEF AppMessage
  <2>2. <<Data(Head(app_queue[e]))>> \in Seq(Message)
    BY <2>1, MessageConstructors
  <2>3. conn[e] \in Conns /\ conn[e] # NoConn
    BY <1>16, <1>23 DEF AppMessage
  <2>4. CASE BreakLoop(e)
    BY <1>23, <2>1, <2>3, <2>4, BreakLoopType DEF TypeOK, AppMessage, TakeFromApp
  <2>5. CASE Send(e, conn[e], <<Data(Head(app_queue[e]))>>) /\ UNCHANGED <<pc, conn, closed>>
    <3>1. pipe' \in [Endpoints -> [Conns -> Seq(Message)]]
      BY <2>2, <2>3, <2>5, SendType
    <3> QED
      BY <1>23, <2>1, <2>5, <3>1 DEF TypeOK, AppMessage, TakeFromApp
  <2> QED
    BY <1>23, <2>4, <2>5 DEF AppMessage
<1>24. ASSUME NEW e \in Endpoints, AppChannelClosed(e) PROVE TypeOK'
  BY <1>16, <1>24, BreakLoopType DEF TypeOK, AppChannelClosed
<1>25. ASSUME NEW e \in Endpoints, ReceiveAck(e) PROVE TypeOK'
  <2> DEFINE a == Head(Incoming(e)).seq
  <2>1. /\ a \in Nat /\ conn[e] \in Conns /\ conn[e] # NoConn /\ pipe[Peer(e)][conn[e]] # <<>>
    BY <1>16, <1>17, <1>25, MessageFields DEF ReceiveAck, HasMsg, Incoming
  <2> HIDE DEF a
  <2>2. CASE ack_accepted(e, a)
    <3>1. unacked_after(e, a) \in Seq(Payload)
      BY <2>1, <2>2, UnackedAfterType
    <3>2. ack(e, a) /\ Answer(e, conn[e], <<>>) /\ UNCHANGED <<pc, conn, closed>>
      BY <1>25, <2>2 DEF ReceiveAck, a
    <3>3. <<>> \in Seq(Message)
      BY EmptySeq
    <3>4. pipe' \in [Endpoints -> [Conns -> Seq(Message)]]
      BY <2>1, <3>2, <3>3, AnswerType
    <3>5. /\ sent_unacked' \in [Endpoints -> Seq(Payload)]
          /\ base_offset' \in [Endpoints -> Nat]
      BY <2>1, <3>1, <3>2 DEF TypeOK, ack
    <3> QED
      BY <1>25, <3>2, <3>4, <3>5 DEF TypeOK, ReceiveAck
  <2>3. CASE ~ack_accepted(e, a)
    <3>1. Return(e) /\ UNCHANGED <<sent_unacked, base_offset>>
      BY <1>25, <2>3 DEF ReceiveAck, a
    <3> QED
      BY <1>25, <2>1, <3>1, ReturnType DEF TypeOK, ReceiveAck
  <2> QED
    BY <2>2, <2>3
<1>26. ASSUME NEW e \in Endpoints, ReceiveData(e) PROVE TypeOK'
  <2> DEFINE p == Head(Incoming(e)).data
  <2>1. /\ p \in Payload /\ conn[e] \in Conns /\ conn[e] # NoConn
        /\ pipe[Peer(e)][conn[e]] # <<>>
    BY <1>16, <1>17, <1>26, MessageFields DEF ReceiveData, HasMsg, Incoming
  <2> HIDE DEF p
  <2>2. CASE rx_open[e]
    <3>1. /\ delivered' = [delivered EXCEPT ![id[e]] = Append(@, p)]
          /\ received_seq' = [received_seq EXCEPT ![e] = @ + 1]
          /\ Answer(e, conn[e], <<Ack(received_seq[e] + 1)>>)
          /\ UNCHANGED <<pc, conn, closed>>
      BY <1>26, <2>2 DEF ReceiveData, p
    <3>a. received_seq[e] \in Nat
      BY DEF TypeOK
    <3>2. received_seq[e] + 1 \in Nat
      BY <3>a
    <3>3. <<Ack(received_seq[e] + 1)>> \in Seq(Message)
      BY <3>2, MessageConstructors
    <3>4. pipe' \in [Endpoints -> [Conns -> Seq(Message)]]
      BY <2>1, <3>1, <3>3, AnswerType
    <3>5. /\ delivered' \in [Ids -> Seq(Payload)]
          /\ received_seq' \in [Endpoints -> Nat]
      BY <2>1, <3>1, <3>2, AppendProperties DEF TypeOK
    <3> QED
      BY <1>26, <3>1, <3>4, <3>5 DEF TypeOK, ReceiveData
  <2>3. CASE ~rx_open[e]
    <3>1. BreakLoop(e) /\ UNCHANGED <<delivered, received_seq>>
      BY <1>26, <2>3 DEF ReceiveData
    <3> QED
      BY <1>26, <2>1, <3>1, BreakLoopType DEF TypeOK, ReceiveData
  <2> QED
    BY <2>2, <2>3
<1>27. ASSUME NEW e \in Endpoints, StreamEnds(e) PROVE TypeOK'
  BY <1>16, <1>27, BreakLoopType DEF TypeOK, StreamEnds
<1>28. ASSUME NEW e \in Endpoints, JoinDone(e) PROVE TypeOK'
  BY <1>28 DEF TypeOK, JoinDone, LeavePC, ClientPC, ServerPC, Endpoints
<1>29. ASSUME NEW c \in Conns, Break(c) PROVE TypeOK'
  <2>1. PICK s \in Prefixes(pipe["server"][c]), t \in Prefixes(pipe["client"][c]) :
            pipe' = [pipe EXCEPT !["server"][c] = s, !["client"][c] = t]
    BY <1>29 DEF Break
  <2>2. s \in Seq(Message) /\ t \in Seq(Message)
    BY PrefixType DEF TypeOK, Endpoints
  <2>3. pipe' \in [Endpoints -> [Conns -> Seq(Message)]]
    BY <2>1, <2>2 DEF TypeOK, Endpoints
  <2> QED
    BY <1>29, <2>3 DEF TypeOK, Break
<1>30. CASE UNCHANGED vars
  BY <1>30 DEF TypeOK
<1> QED
  BY <1>1, <1>2, <1>3, <1>4, <1>5, <1>6, <1>7, <1>8, <1>10, <1>11, <1>12, <1>13, <1>14,
     <1>15, <1>18, <1>19, <1>20, <1>21, <1>22, <1>23, <1>24, <1>25, <1>26, <1>27, <1>28,
     <1>29, <1>30
  DEF Next, AppStep, ClientStep, ServerStep, StreamStep

\* Every variable keeps its type, and each endpoint the control states of its
\* own task.
THEOREM TypeCorrect == Spec => []TypeOK
BY TypeInit, TypeStep, PTL DEF Spec
=============================================================================
