-------------------------- MODULE StreamInvariant --------------------------
(***************************************************************************)
(* The inductive invariant of ReconnectingStream: what is true of the two  *)
(* endpoints, of every connection and of every message in flight, in every *)
(* state, and is strong enough to be kept by every step.  The properties   *)
(* of ReconnectingStream that speak of states follow from it.              *)
(***************************************************************************)
EXTENDS ReconnectingStream

-----------------------------------------------------------------------------
(* The ends of a connection.                                               *)

\* The server has c in its listener or in its socket channel.
Pending(e, c) == e = "server" /\ c \in Range(backlog) \cup Range(socket_queue)

\* e runs run_stream on c; it has the hello of its peer.
Using(e, c)   == conn[e] = c /\ InStream(e)
Started(e, c) == conn[e] = c /\ pc[e] = "running"

\* An end that did not drop a connection uses it or will, and not both.  Nothing
\* reaches an end that dropped the connection, or one that does not exist yet.
EndsOwned ==
    \A e \in Endpoints, c \in Conns :
        /\ Using(e, c) \/ Pending(e, c) <=> c <= nconns /\ e \notin closed[c]
        /\ ~(Using(e, c) /\ Pending(e, c))
        /\ c > nconns \/ Peer(e) \in closed[c] => pipe[e][c] = <<>>
        /\ c > nconns => closed[c] = {}

\* Connections are used in the order in which they were made.
Sorted(s) == \A j, k \in 1 .. Len(s) : j < k => s[j] < s[k]
ConnsInOrder ==
    /\ Sorted(socket_queue) /\ Sorted(backlog)
    /\ \A c \in Range(socket_queue), d \in Range(backlog) : c < d
    /\ \A c \in Range(socket_queue) \cup Range(backlog) : conn["server"] < c
    /\ conn["client"] \in {NoConn, nconns} /\ conn["server"] <= nconns

-----------------------------------------------------------------------------
(* Which kinds of messages a connection carries.                           *)

Kinds(s, types) == \A k \in 1 .. Len(s) : s[k].type \in types

\* The hello comes first, and once.
HelloFirst ==
    \A e \in Endpoints, c \in Conns : \A k \in 1 .. Len(pipe[Peer(e)][c]) :
        pipe[Peer(e)][c][k].type = "Hello" <=> k = 1 /\ ~Started(e, c)

\* It stays until the peer takes it, unless the connection is lost.
HelloKept ==
    \A e \in Endpoints, c \in Conns :
        Using(e, c) /\ ~Dead(e, c) /\ ~Started(Peer(e), c) => pipe[e][c] # <<>>

\* Before it has its peer's hello an end sends nothing but its own, nothing at all
\* before it takes the connection up, and is acknowledged nothing.
HelloOnly ==
    \A e \in Endpoints, c \in Conns :
        /\ Using(e, c) /\ ~Started(e, c) => Kinds(pipe[e][c], {"Hello"})
        /\ Pending(e, c) => /\ pipe[e][c] = <<>> /\ ~Started(Peer(e), c)
                            /\ Kinds(pipe[Peer(e)][c], {"Hello"})
        /\ ~Started(e, c) => Kinds(pipe[Peer(e)][c], {"Hello", "Data"})

ConnInv == EndsOwned /\ ConnsInOrder /\ HelloFirst /\ HelloKept /\ HelloOnly

-----------------------------------------------------------------------------
(* Incarnations.                                                           *)

\* Each is of one endpoint, and those of an endpoint are numbered upwards.  Who has
\* read a hello knows its peer.
IdsInOrder ==
    /\ id["client"] # id["server"]
    /\ \A e \in Endpoints :
          /\ id[e] <= nids /\ remote_id[e] <= nids /\ remote_id[e] # id[e]
          /\ \A c \in Conns : Started(e, c) => remote_id[e] # NoId
    /\ \A i \in Ids : i > nids => produced[i] = 0 /\ delivered[i] = <<>>
    /\ \A e \in Endpoints, c \in Conns : \A k \in 1 .. Len(pipe[e][c]) :
          LET m == pipe[e][c][k] IN
          m.type = "Hello" => m.sender_id <= id[e] /\ m.sender_id # id[Peer(e)]

\* A hello that its sender's connection still holds is what it would say now, and
\* who has read it is bound to its sender.
HelloFresh ==
    \A e \in Endpoints, c \in Conns : Using(e, c) =>
        /\ \A k \in 1 .. Len(pipe[e][c]) :
              pipe[e][c][k].type = "Hello" => pipe[e][c][k] = make_hello(e)
        /\ Started(Peer(e), c) => remote_id[Peer(e)] = id[e]

-----------------------------------------------------------------------------
(* The two ends of a stream.                                               *)

\* The number of the newest message that e's task has taken from its application.
Newest(e) == base_offset[e] + Len(sent_unacked[e])

\* The messages after the last acknowledged one are in the window, then in the
\* channel from the application.
Numbered(s, i, after) == \A k \in 1 .. Len(s) : s[k] = [from |-> i, n |-> after + k]
WindowNumbered ==
    \A e \in Endpoints :
        /\ Numbered(sent_unacked[e], id[e], base_offset[e])
        /\ Numbered(app_queue[e], id[e], Newest(e))
        /\ produced[id[e]] = Newest(e) + Len(app_queue[e])

\* No application sends more than it has, so that every message has a size.
Limited == \A e \in Endpoints : produced[id[e]] <= MsgLimit[e]

\* What was handed to the application is the beginning of what the application of
\* the incarnation that e is bound to has sent.  Who is not bound has neither
\* received anything nor been acknowledged anything.
Received ==
    \A e \in Endpoints :
        /\ Numbered(delivered[id[e]], remote_id[e], 0)
        /\ Len(delivered[id[e]]) = received_seq[e]
        /\ IF remote_id[e] = NoId THEN received_seq[e] = 0 /\ base_offset[e] = 0
           ELSE received_seq[e] <= produced[remote_id[e]]
        /\ remote_id[e] = id[Peer(e)] => received_seq[e] <= Newest(Peer(e))

-----------------------------------------------------------------------------
(* Data in flight.                                                         *)

\* The Data in s are the messages of i from lo + 1 on, in order and without a gap.
Continues(s, i, lo) ==
    \A k \in 1 .. Len(s) : s[k].type = "Data" =>
        /\ s[k].data.from = i /\ lo < s[k].data.n
        /\ \A n \in lo + 1 .. s[k].data.n - 1 :
              \E j \in 1 .. k - 1 : s[j] = Data([from |-> i, n |-> n])
        /\ \A j \in 1 .. k - 1 : s[j].type = "Data" => s[j].data.n < s[k].data.n

\* The last of them is hi.
EndsAt(s, i, lo, hi) ==
    /\ lo <= hi
    /\ \A k \in 1 .. Len(s) : s[k].type = "Data" => s[k].data.n <= hi
    /\ lo < hi => \E k \in 1 .. Len(s) : s[k] = Data([from |-> i, n |-> hi])

\* Whose messages e takes the Data on c for.
Source(e, c) ==
    IF Started(e, c) THEN remote_id[e] ELSE pipe[Peer(e)][c][1].sender_id

DataContinues ==
    \A e \in Endpoints, c \in Conns :
        Using(e, c) /\ pipe[Peer(e)][c] # <<>> =>
            Continues(pipe[Peer(e)][c], Source(e, c), received_seq[e])

DataComplete ==
    \A e \in Endpoints, c \in Conns :
        Started(e, c) /\ ~Dead(e, c) =>
            EndsAt(pipe[e][c], id[e], received_seq[Peer(e)], Newest(e))

\* Nothing is in flight that its sender's task did not take from the application.
DataWasSent ==
    \A e \in Endpoints, c \in Conns : \A k \in 1 .. Len(pipe[e][c]) :
        pipe[e][c][k].type = "Data" =>
            LET p == pipe[e][c][k].data IN
            p.n <= produced[p.from] /\ (p.from = id[e] => p.n <= Newest(e))

-----------------------------------------------------------------------------
(* Acknowledgements in flight.                                             *)

\* They rise from where the window begins, and stay within the window.
AcksInWindow ==
    \A e \in Endpoints, c \in Conns : Started(e, c) =>
        LET s == pipe[Peer(e)][c] IN
        \A k \in 1 .. Len(s) : s[k].type = "Ack" =>
            /\ base_offset[e] <= s[k].seq /\ s[k].seq <= Newest(e)
            /\ \A j \in 1 .. k : s[j].type = "Ack" => s[j].seq <= s[k].seq
            /\ remote_id[e] = id[Peer(e)] => s[k].seq <= received_seq[Peer(e)]

\* Neither the window nor a hello is ahead of the peer.
AckedWasReceived ==
    \A e \in Endpoints :
        LET f == Peer(e) IN
        /\ remote_id[e] = id[f] => base_offset[e] <= received_seq[f]
        /\ \A c \in Conns : \A k \in 1 .. Len(pipe[f][c]) :
              LET m == pipe[f][c][k] IN
              m.type = "Hello" =>
                 /\ m.sender_id = id[f] => m.sender_last_rx <= received_seq[f]
                 /\ m.sender_id = remote_id[e] => base_offset[e] <= m.sender_last_rx
                 /\ remote_id[e] = id[f] => m.sender_id = id[f]

\* Whoever e is bound to has received all that e has released, and so has the sender
\* of a hello, or of an acknowledgement that e will take: it may have been replaced.
Acknowledged ==
    \A e \in Endpoints :
        /\ remote_id[e] # NoId => base_offset[e] <= Len(delivered[remote_id[e]])
        /\ \A c \in Conns : \A k \in 1 .. Len(pipe[Peer(e)][c]) :
              LET m == pipe[Peer(e)][c][k] IN
              /\ m.type = "Hello" => m.sender_last_rx <= Len(delivered[m.sender_id])
              /\ m.type = "Ack" /\ Started(e, c) => m.seq <= Len(delivered[remote_id[e]])

\* The hellos that wait at the server were written in the order of their
\* connections, after the acknowledgements on the one it uses.
HellosInOrder ==
    \A c, d \in Conns : c < d /\ pipe["client"][c] # <<>> /\ pipe["client"][d] # <<>> =>
        LET m == pipe["client"][d][1]
            s == pipe["client"][c]
        IN /\ s[1].type = "Hello" /\ m.type = "Hello" =>
                /\ s[1].sender_id <= m.sender_id
                /\ s[1].sender_id = m.sender_id => s[1].sender_last_rx <= m.sender_last_rx
           /\ Started("server", c) /\ m.type = "Hello" /\ m.sender_id = remote_id["server"] =>
                \A k \in 1 .. Len(s) : s[k].type = "Ack" => s[k].seq <= m.sender_last_rx

-----------------------------------------------------------------------------

\* All of it.
StreamInv ==
    /\ TypeOK /\ ConnInv
    /\ IdsInOrder /\ HelloFresh
    /\ WindowNumbered /\ Limited /\ WindowBound /\ Received
    /\ DataContinues /\ DataComplete /\ DataWasSent
    /\ AcksInWindow /\ AckedWasReceived /\ Acknowledged /\ HellosInOrder
=============================================================================
