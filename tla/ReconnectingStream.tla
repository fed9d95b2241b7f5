------------------------- MODULE ReconnectingStream -------------------------
(***************************************************************************)
(* The reconnecting stream of src/src/lib/reconnecting_stream.rs: a client *)
(* and a server endpoint that keep one reliable, ordered, bidirectional    *)
(* message stream alive over a succession of TCP connections.              *)
(*                                                                         *)
(* Each endpoint runs one task (run_client, or the runner task of          *)
(* run_server) that executes run_stream on one connection at a time; the   *)
(* server also runs a listener task.  The reader and writer tasks that     *)
(* run_stream spawns only move messages between the task's queues and the  *)
(* socket, so writer queue, both kernel buffers, the wire and the joined   *)
(* queue of the receiver are one FIFO here, pipe[e][c]: what endpoint e    *)
(* sent on connection c and its peer has not processed.                    *)
(*                                                                         *)
(* A payload is abstracted to the incarnation of the endpoint whose        *)
(* application sent it and its place in that application's stream.  Neither*)
(* is on the wire: a Data message carries bytes only.                      *)
(***************************************************************************)
EXTENDS Naturals, Sequences, FiniteSets, Functions

CONSTANTS
    MsgLimit,        \* messages the application of each endpoint sends
    MsgSize,         \* size in bytes of the n-th message of an application
    MaxWindow,       \* StreamOptions.max_window
    AppCap,          \* capacity of the application's channel (16)
    SocketCap,       \* capacity of the server's socket channel (32)
    MaxConns,        \* bound: TCP connections the client opens
    MaxBreaks,       \* bound: connections the network breaks
    MaxIds,          \* bound: incarnations of the two endpoints together
    MayCancel,       \* endpoints whose cancellation token may fire
    MayDropReceiver, \* endpoints whose application may stop receiving
    MayDropSender,   \* endpoints whose application may stop sending
    MayRestart,      \* endpoints whose process may be replaced
    MayFailAccept    \* whether accept() may fail on the server

Endpoints == {"client", "server"}
Peer(e) == IF e = "client" THEN "server" ELSE "client"

NoId == 0      \* remote_id: None
NoConn == 0
Conns == 1 .. MaxConns
Ids == 1 .. MaxIds

ASSUME LimitAssumption == MsgLimit \in [Endpoints -> Nat]
ASSUME SizeAssumption  == \A e \in Endpoints : \A n \in 1 .. MsgLimit[e] : MsgSize[n] \in Nat
ASSUME CapAssumption   == /\ MaxWindow \in Nat
                          /\ AppCap \in Nat \ {0}
                          /\ SocketCap \in Nat \ {0}
ASSUME BoundAssumption == /\ MaxConns \in Nat
                          /\ MaxBreaks \in Nat
                          /\ MaxIds \in Nat \ {0, 1}
ASSUME MayAssumption   == /\ MayCancel \subseteq Endpoints
                          /\ MayDropReceiver \subseteq Endpoints
                          /\ MayDropSender \subseteq Endpoints
                          /\ MayRestart \subseteq Endpoints
                          /\ MayFailAccept \in BOOLEAN

Payload == [from : Ids, n : Nat \ {0}]
HelloMsg == [type : {"Hello"}, sender_id : Ids, sender_last_rx : Nat]
DataMsg == [type : {"Data"}, data : Payload]
AckMsg == [type : {"Ack"}, seq : Nat]
Message == HelloMsg \cup DataMsg \cup AckMsg

Hello(i, rx) == [type |-> "Hello", sender_id |-> i, sender_last_rx |-> rx]
Data(p) == [type |-> "Data", data |-> p]
Ack(s) == [type |-> "Ack", seq |-> s]

VARIABLES
    \* the applications and the channels between them and their endpoints
    produced,       \* [Ids -> Nat] messages sent by the application of an incarnation
    app_queue,      \* StreamState.receiver, the bounded channel from the application
    tx_open,        \* the application still holds StreamSender.sender
    rx_open,        \* the application still holds StreamSender.receiver
    delivered,      \* [Ids -> Seq(Payload)] what each incarnation handed to its application
    \* StreamState
    id,
    remote_id,
    sent_unacked,
    base_offset,
    received_seq,
    \* control of the endpoint's task
    pc,
    conn,           \* the connection run_stream works on
    cancelled,
    \* the server's listener
    listening,
    backlog,        \* connections the kernel accepted and the listener did not
    socket_queue,   \* the channel socket_tx/socket_rx, and a socket send() waits with
    \* the network
    pipe,           \* [Endpoints -> [Conns -> Seq(Message)]]
    broken,         \* connections that carry nothing any more
    closed,         \* [Conns -> SUBSET Endpoints] ends that dropped the connection
    nconns,
    nids

appVars    == <<produced, app_queue, tx_open, rx_open, delivered>>
streamVars == <<id, remote_id, sent_unacked, base_offset, received_seq>>
ctlVars    == <<pc, conn, cancelled>>
srvVars    == <<listening, backlog, socket_queue>>
netVars    == <<pipe, broken, closed, nconns, nids>>
vars == <<appVars, streamVars, ctlVars, srvVars, netVars>>

ClientPC == {"top", "connecting", "hello", "running", "joining", "unconnected", "stopped"}
ServerPC == {"accept", "hello", "running", "joining", "stopped"}

\* Where an endpoint's task is before it has, and after it gave up, a connection.
StartPC(e) == IF e = "client" THEN "top" ELSE "accept"
LeavePCSleeping(e) == "unconnected"   \* mutant: the server sleeps like the client
LeavePC(e) == IF e = "client" THEN "unconnected" ELSE "accept"

Prefixes(s) == {SubSeq(s, 1, k) : k \in 0 .. Len(s)}

Init ==
    /\ produced = [i \in Ids |-> 0]
    /\ app_queue = [e \in Endpoints |-> <<>>]
    /\ tx_open = [e \in Endpoints |-> TRUE]
    /\ rx_open = [e \in Endpoints |-> TRUE]
    /\ delivered = [i \in Ids |-> <<>>]
    /\ id = [e \in Endpoints |-> IF e = "client" THEN 1 ELSE 2]
    /\ remote_id = [e \in Endpoints |-> NoId]
    /\ sent_unacked = [e \in Endpoints |-> <<>>]
    /\ base_offset = [e \in Endpoints |-> 0]
    /\ received_seq = [e \in Endpoints |-> 0]
    /\ pc = [e \in Endpoints |-> StartPC(e)]
    /\ conn = [e \in Endpoints |-> NoConn]
    /\ cancelled = [e \in Endpoints |-> FALSE]
    /\ listening = TRUE
    /\ backlog = <<>>
    /\ socket_queue = <<>>
    /\ pipe = [e \in Endpoints |-> [c \in Conns |-> <<>>]]
    /\ broken = {}
    /\ closed = [c \in Conns |-> {}]
    /\ nconns = 0
    /\ nids = 2

-----------------------------------------------------------------------------
(* The methods of StreamState.                                             *)

size_of(s) ==
    LET size[k \in 0 .. Len(s)] == IF k = 0 THEN 0 ELSE size[k - 1] + MsgSize[s[k].n]
    IN size[Len(s)]
unacked_size(e) == size_of(sent_unacked[e])

is_full_late(e) == unacked_size(e) > MaxWindow   \* mutant: off by one
is_full(e) == unacked_size(e) >= MaxWindow

make_hello(e) == Hello(id[e], received_seq[e])

\* The two checks of ack(): nothing already released, nothing not yet sent.
ack_accepted(e, seq) ==
    /\ base_offset[e] <= seq
    /\ seq - base_offset[e] <= Len(sent_unacked[e])

\* What ack() leaves in sent_unacked; mutants: it drains nothing, or one too many.
unacked_not_drained(e, seq) == sent_unacked[e]
unacked_overdrained(e, seq) ==
    SubSeq(sent_unacked[e], seq - base_offset[e] + 2, Len(sent_unacked[e]))
unacked_after(e, seq) ==
    SubSeq(sent_unacked[e], seq - base_offset[e] + 1, Len(sent_unacked[e]))

\* mutant: base_offset stays behind
ack_in_place(e, seq) ==
    /\ sent_unacked' = [sent_unacked EXCEPT ![e] = unacked_after(e, seq)]
    /\ UNCHANGED base_offset
ack(e, seq) ==
    /\ sent_unacked' = [sent_unacked EXCEPT ![e] = unacked_after(e, seq)]
    /\ base_offset' = [base_offset EXCEPT ![e] = seq]

\* The check of the hello's sender: unknown yet, or the one already known;
\* mutant: any sender will do.
any_sender(e, i) == TRUE
known_sender(e, i) == remote_id[e] \in {NoId, i}

\* What is sent after the hello; mutants: nothing, or newest first.
resend_nothing(unacked) == <<>>
resend_backwards(unacked) ==
    [k \in 1 .. Len(unacked) |-> Data(unacked[Len(unacked) + 1 - k])]
resend(unacked) == [k \in 1 .. Len(unacked) |-> Data(unacked[k])]

-----------------------------------------------------------------------------
(* Sockets.                                                                *)

\* A connection that is of no more use to e: the network lost it or the peer
\* dropped it.  From then on e's reader or its writer task may fail.
Dead(e, c) == c \in broken \/ Peer(e) \in closed[c]

\* The messages ms of e enter connection c; on a dead one they go nowhere.
Sent(e, c, ms) == IF Dead(e, c) THEN pipe[e][c] ELSE pipe[e][c] \o ms

Send(e, c, ms) == pipe' = [pipe EXCEPT ![e][c] = Sent(e, c, ms)]

\* e takes the first message of its peer and answers with ms.
Answer(e, c, ms) ==
    pipe' = [pipe EXCEPT ![Peer(e)][c] = Tail(@), ![e][c] = Sent(e, c, ms)]

\* e drops connections cs: what its peer sent, or will send, is lost to it,
\* while what e wrote before is still flushed by its writer task.
Close(e, cs) ==
    /\ closed' = [c \in Conns |-> IF c \in cs THEN closed[c] \cup {e} ELSE closed[c]]
    /\ pipe' = [pipe EXCEPT ![Peer(e)] =
                   [c \in Conns |-> IF c \in cs THEN <<>> ELSE pipe[Peer(e)][c]]]

Incoming(e) == pipe[Peer(e)][conn[e]]
HasMsg(e, type) == Incoming(e) # <<>> /\ Head(Incoming(e)).type = type

\* `return` from run_stream: the two tasks it spawned are left to themselves.
Return(e) ==
    /\ Close(e, {conn[e]})
    /\ pc' = [pc EXCEPT ![e] = LeavePC(e)]
    /\ conn' = [conn EXCEPT ![e] = NoConn]

\* `break` from its loop: the writer is told to end and both tasks are joined;
\* mutant: the writer is not told.
BreakLoopOpen(e) ==
    /\ pc' = [pc EXCEPT ![e] = "joining"]
    /\ UNCHANGED <<conn, closed, pipe>>
BreakLoop(e) ==
    /\ Close(e, {conn[e]})
    /\ pc' = [pc EXCEPT ![e] = "joining"]
    /\ UNCHANGED conn

-----------------------------------------------------------------------------
(* The applications and the owner of the tasks.                            *)

\* StreamSender.send: waits while the channel is full, fails once the endpoint
\* has ended and its receiver is gone.
AppSend(e) ==
    /\ tx_open[e] /\ pc[e] # "stopped"
    /\ produced[id[e]] < MsgLimit[e]
    /\ Len(app_queue[e]) < AppCap
    /\ produced' = [produced EXCEPT ![id[e]] = @ + 1]
    /\ app_queue' = [app_queue EXCEPT
                        ![e] = Append(@, [from |-> id[e], n |-> produced[id[e]] + 1])]
    /\ UNCHANGED <<tx_open, rx_open, delivered, streamVars, ctlVars, srvVars, netVars>>

AppDropsSender(e) ==
    /\ e \in MayDropSender
    /\ tx_open[e]
    /\ tx_open' = [tx_open EXCEPT ![e] = FALSE]
    /\ UNCHANGED <<produced, app_queue, rx_open, delivered,
                   streamVars, ctlVars, srvVars, netVars>>

AppDropsReceiver(e) ==
    /\ e \in MayDropReceiver
    /\ rx_open[e]
    /\ rx_open' = [rx_open EXCEPT ![e] = FALSE]
    /\ UNCHANGED <<produced, app_queue, tx_open, delivered,
                   streamVars, ctlVars, srvVars, netVars>>

Cancel(e) ==
    /\ e \in MayCancel
    /\ ~cancelled[e]
    /\ cancelled' = [cancelled EXCEPT ![e] = TRUE]
    /\ UNCHANGED <<appVars, streamVars, pc, conn, srvVars, netVars>>

\* A crash or a kill, and a new process in its place: a new StreamState with a
\* fresh random id.  The kernel closes the old process's connections.
Restart(e) ==
    /\ e \in MayRestart
    /\ nids < MaxIds
    /\ nids' = nids + 1
    /\ id' = [id EXCEPT ![e] = nids + 1]
    /\ remote_id' = [remote_id EXCEPT ![e] = NoId]
    /\ sent_unacked' = [sent_unacked EXCEPT ![e] = <<>>]
    /\ base_offset' = [base_offset EXCEPT ![e] = 0]
    /\ received_seq' = [received_seq EXCEPT ![e] = 0]
    /\ app_queue' = [app_queue EXCEPT ![e] = <<>>]
    /\ tx_open' = [tx_open EXCEPT ![e] = TRUE]
    /\ rx_open' = [rx_open EXCEPT ![e] = TRUE]
    /\ pc' = [pc EXCEPT ![e] = StartPC(e)]
    /\ conn' = [conn EXCEPT ![e] = NoConn]
    /\ cancelled' = [cancelled EXCEPT ![e] = FALSE]
    /\ IF e = "server"
          THEN listening' = TRUE /\ backlog' = <<>> /\ socket_queue' = <<>>
          ELSE UNCHANGED srvVars
    /\ Close(e, 1 .. nconns)
    /\ UNCHANGED <<produced, delivered, broken, nconns>>

\* The endpoint's task takes the next message of its application: enqueue().
TakeFromApp(e) ==
    /\ ~is_full(e)
    /\ app_queue[e] # <<>>
    /\ app_queue' = [app_queue EXCEPT ![e] = Tail(@)]
    /\ sent_unacked' = [sent_unacked EXCEPT ![e] = Append(@, Head(app_queue[e]))]
    /\ UNCHANGED <<produced, tx_open, rx_open, delivered,
                   id, remote_id, base_offset, received_seq>>

\* recv() on the application's channel returns None.
AppClosed(e) == ~is_full(e) /\ ~tx_open[e] /\ app_queue[e] = <<>>

-----------------------------------------------------------------------------
(* run_client and run_unconnected_stream.                                  *)

ClientTop ==
    /\ pc["client"] = "top"
    /\ pc' = [pc EXCEPT !["client"] = IF cancelled["client"] THEN "stopped" ELSE "connecting"]
    /\ UNCHANGED <<appVars, streamVars, conn, cancelled, srvVars, netVars>>

\* connect() succeeds as soon as the kernel of the server completes the
\* handshake; run_stream then writes its hello.
Connect ==
    LET c == nconns + 1 IN
    /\ pc["client"] = "connecting"
    /\ listening /\ c \in Conns
    /\ nconns' = c
    /\ backlog' = Append(backlog, c)
    /\ conn' = [conn EXCEPT !["client"] = c]
    /\ pc' = [pc EXCEPT !["client"] = "hello"]
    /\ Send("client", c, <<make_hello("client")>>)
    /\ UNCHANGED <<appVars, streamVars, cancelled, listening, socket_queue,
                   broken, closed, nids>>

ConnectFails ==
    /\ pc["client"] = "connecting"
    /\ pc' = [pc EXCEPT !["client"] = "unconnected"]
    /\ UNCHANGED <<appVars, streamVars, conn, cancelled, srvVars, netVars>>

\* A second without a connection.  The timer, the cancellation and a closed
\* application channel all end it the same way.
UnconnectedTakesFromApp ==
    /\ pc["client"] = "unconnected"
    /\ TakeFromApp("client")
    /\ UNCHANGED <<ctlVars, srvVars, netVars>>

UnconnectedEnds ==
    /\ pc["client"] = "unconnected"
    /\ pc' = [pc EXCEPT !["client"] = "top"]
    /\ UNCHANGED <<appVars, streamVars, conn, cancelled, srvVars, netVars>>

-----------------------------------------------------------------------------
(* run_server: the listener task and the runner task.                      *)

\* The channel holds SocketCap sockets; with one more the listener waits in
\* send(), deaf to new connections and to its cancellation.
ListenerFree == listening /\ Len(socket_queue) <= SocketCap

ListenerAccepts ==
    /\ ListenerFree
    /\ backlog # <<>>
    /\ backlog' = Tail(backlog)
    /\ IF pc["server"] = "stopped"
          THEN Close("server", {Head(backlog)}) /\ UNCHANGED socket_queue
          ELSE /\ socket_queue' = Append(socket_queue, Head(backlog))
               /\ UNCHANGED <<pipe, closed>>
    /\ UNCHANGED <<appVars, streamVars, ctlVars, listening, broken, nconns, nids>>

ListenerEnds ==
    /\ ListenerFree
    /\ cancelled["server"] \/ MayFailAccept
    /\ listening' = FALSE
    /\ backlog' = <<>>
    /\ Close("server", Range(backlog))
    /\ UNCHANGED <<appVars, streamVars, ctlVars, socket_queue, broken, nconns, nids>>

\* recv() and the drain loop: the newest socket of the channel is used, those
\* before it are dropped.  A socket that still waits in the listener's send()
\* may be part of it or come too late.
RunnerTakesSocket ==
    /\ pc["server"] = "accept"
    /\ socket_queue # <<>>
    /\ \E k \in 1 .. Len(socket_queue) : k \in {Len(socket_queue), SocketCap} /\
         LET c == socket_queue[k]
             unused == Range(SubSeq(socket_queue, 1, k - 1))
         IN /\ socket_queue' = SubSeq(socket_queue, k + 1, Len(socket_queue))
            /\ \/ /\ closed' = [d \in Conns |->
                        IF d \in unused THEN closed[d] \cup {"server"} ELSE closed[d]]
                  /\ pipe' = [e \in Endpoints |-> [d \in Conns |->
                        CASE e = "client" /\ d \in unused -> <<>>
                          [] e = "server" /\ d = c -> Sent(e, c, <<make_hello(e)>>)
                          [] OTHER -> pipe[e][d]]]
                  /\ pc' = [pc EXCEPT !["server"] = "hello"]
                  /\ conn' = [conn EXCEPT !["server"] = c]
               \/ \* the hello cannot be written
                  /\ Dead("server", c)
                  /\ Close("server", unused \cup {c})
                  /\ UNCHANGED <<pc, conn>>
    /\ UNCHANGED <<appVars, streamVars, cancelled, listening, backlog,
                   broken, nconns, nids>>

RunnerEnds ==
    /\ pc["server"] = "accept"
    /\ cancelled["server"] \/ (~listening /\ socket_queue = <<>>)
    /\ pc' = [pc EXCEPT !["server"] = "stopped"]
    /\ socket_queue' = <<>>
    /\ Close("server", Range(socket_queue))
    /\ UNCHANGED <<appVars, streamVars, conn, cancelled, listening, backlog,
                   broken, nconns, nids>>

-----------------------------------------------------------------------------
(* run_stream.                                                             *)

InStream(e) == pc[e] \in {"hello", "running"}

\* The cancellation token fires.
Killed(e) ==
    /\ InStream(e)
    /\ cancelled[e]
    /\ Return(e)
    /\ UNCHANGED <<appVars, streamVars, cancelled, srvVars, broken, nconns, nids>>

\* The peer's hello: it must come from the peer the endpoint already knows, and
\* its sender_last_rx must be a legal acknowledgement.  The id is remembered
\* before that is known.  Then everything unacknowledged is sent again.
HelloAccepted(e) ==
    /\ pc[e] = "hello"
    /\ HasMsg(e, "Hello")
    /\ LET hm == Head(Incoming(e))
           left == unacked_after(e, hm.sender_last_rx)
       IN /\ known_sender(e, hm.sender_id)
          /\ ack_accepted(e, hm.sender_last_rx)
          /\ remote_id' = [remote_id EXCEPT ![e] = hm.sender_id]
          /\ ack(e, hm.sender_last_rx)
          /\ \/ /\ Answer(e, conn[e], resend(left))
                /\ pc' = [pc EXCEPT ![e] = "running"]
                /\ UNCHANGED <<closed, conn>>
             \/ \* the writer has already failed
                /\ Dead(e, conn[e]) /\ left # <<>>
                /\ Return(e)
    /\ UNCHANGED <<appVars, id, received_seq, cancelled, srvVars, broken, nconns, nids>>

HelloBadSender(e) ==
    /\ pc[e] = "hello"
    /\ HasMsg(e, "Hello")
    /\ ~known_sender(e, Head(Incoming(e)).sender_id)
    /\ Return(e)
    /\ UNCHANGED <<appVars, streamVars, cancelled, srvVars, broken, nconns, nids>>

HelloBadLastRx(e) ==
    /\ pc[e] = "hello"
    /\ HasMsg(e, "Hello")
    /\ LET hm == Head(Incoming(e))
       IN /\ known_sender(e, hm.sender_id)
          /\ ~ack_accepted(e, hm.sender_last_rx)
          /\ remote_id' = [remote_id EXCEPT ![e] = hm.sender_id]
    /\ Return(e)
    /\ UNCHANGED <<appVars, id, sent_unacked, base_offset, received_seq,
                   cancelled, srvVars, broken, nconns, nids>>

\* The connection ends before the hello, or starts with something else.
HelloMissing(e) ==
    /\ pc[e] = "hello"
    /\ Dead(e, conn[e]) \/ (Incoming(e) # <<>> /\ ~HasMsg(e, "Hello"))
    /\ Return(e)
    /\ UNCHANGED <<appVars, streamVars, cancelled, srvVars, broken, nconns, nids>>

\* A message of the application is kept, and sent; the send fails when the
\* writer task has failed.
AppMessage(e) ==
    /\ pc[e] = "running"
    /\ TakeFromApp(e)
    /\ \/ /\ Send(e, conn[e], <<Data(Head(app_queue[e]))>>)
          /\ UNCHANGED <<pc, conn, closed>>
       \/ Dead(e, conn[e]) /\ BreakLoop(e)
    /\ UNCHANGED <<cancelled, srvVars, broken, nconns, nids>>

AppChannelClosed(e) ==
    /\ pc[e] = "running"
    /\ AppClosed(e)
    /\ BreakLoop(e)
    /\ UNCHANGED <<appVars, streamVars, cancelled, srvVars, broken, nconns, nids>>

ReceiveAck(e) ==
    /\ pc[e] = "running"
    /\ HasMsg(e, "Ack")
    /\ LET a == Head(Incoming(e)).seq
       IN IF ack_accepted(e, a)
             THEN ack(e, a) /\ Answer(e, conn[e], <<>>) /\ UNCHANGED <<pc, conn, closed>>
             ELSE Return(e) /\ UNCHANGED <<sent_unacked, base_offset>>
    /\ UNCHANGED <<appVars, id, remote_id, received_seq, cancelled, srvVars,
                   broken, nconns, nids>>

\* A payload goes to the application and is acknowledged, unless the
\* application has gone; mutant: the failed send is ignored.
ReceiveDataUnchecked(e) ==
    /\ pc[e] = "running"
    /\ HasMsg(e, "Data")
    /\ delivered' = IF rx_open[e]
                       THEN [delivered EXCEPT ![id[e]] = Append(@, Head(Incoming(e)).data)]
                       ELSE delivered
    /\ received_seq' = [received_seq EXCEPT ![e] = @ + 1]
    /\ Answer(e, conn[e], <<Ack(received_seq[e] + 1)>>)
    /\ UNCHANGED <<produced, app_queue, tx_open, rx_open, id, remote_id, sent_unacked,
                   base_offset, ctlVars, srvVars, broken, closed, nconns, nids>>
ReceiveData(e) ==
    /\ pc[e] = "running"
    /\ HasMsg(e, "Data")
    /\ IF rx_open[e]
          THEN /\ delivered' = [delivered EXCEPT ![id[e]] = Append(@, Head(Incoming(e)).data)]
               /\ received_seq' = [received_seq EXCEPT ![e] = @ + 1]
               /\ Answer(e, conn[e], <<Ack(received_seq[e] + 1)>>)
               /\ UNCHANGED <<pc, conn, closed>>
          ELSE BreakLoop(e) /\ UNCHANGED <<delivered, received_seq>>
    /\ UNCHANGED <<produced, app_queue, tx_open, rx_open, id, remote_id, sent_unacked,
                   base_offset, cancelled, srvVars, broken, nconns, nids>>

\* The connection is seen to be closed, by the reader or by the writer task, or
\* a second hello arrives.
StreamEnds(e) ==
    /\ pc[e] = "running"
    /\ Dead(e, conn[e]) \/ HasMsg(e, "Hello")
    /\ BreakLoop(e)
    /\ UNCHANGED <<appVars, streamVars, cancelled, srvVars, broken, nconns, nids>>

\* The reader task ends only with the connection.
JoinDone(e) ==
    /\ pc[e] = "joining"
    /\ Dead(e, conn[e])
    /\ pc' = [pc EXCEPT ![e] = LeavePC(e)]
    /\ conn' = [conn EXCEPT ![e] = NoConn]
    /\ UNCHANGED <<appVars, streamVars, cancelled, srvVars, netVars>>

-----------------------------------------------------------------------------
(* The network loses a connection: of what is in flight only a prefix will *)
(* ever be read.  A connection that one end has dropped may always go this *)
(* way; breaking a connection in use is bounded.                           *)

Break(c) ==
    /\ c <= nconns /\ c \notin broken /\ closed[c] # Endpoints
    /\ closed[c] # {} \/ Cardinality(broken) < MaxBreaks
    /\ broken' = broken \cup {c}
    /\ \E s \in Prefixes(pipe["server"][c]), t \in Prefixes(pipe["client"][c]) :
         pipe' = [pipe EXCEPT !["server"][c] = s, !["client"][c] = t]
    /\ UNCHANGED <<appVars, streamVars, ctlVars, srvVars, closed, nconns, nids>>

-----------------------------------------------------------------------------

AppStep(e) == AppSend(e) \/ AppDropsSender(e) \/ AppDropsReceiver(e) \/ Cancel(e)

ClientStep ==
    \/ ClientTop \/ Connect \/ ConnectFails
    \/ UnconnectedTakesFromApp \/ UnconnectedEnds

ServerStep == ListenerAccepts \/ ListenerEnds \/ RunnerTakesSocket \/ RunnerEnds

StreamStep(e) ==
    \/ Killed(e)
    \/ HelloAccepted(e) \/ HelloBadSender(e) \/ HelloBadLastRx(e) \/ HelloMissing(e)
    \/ AppMessage(e) \/ AppChannelClosed(e)
    \/ ReceiveAck(e) \/ ReceiveData(e) \/ StreamEnds(e)
    \/ JoinDone(e)

Next ==
    \/ \E e \in Endpoints : AppStep(e) \/ StreamStep(e) \/ Restart(e)
    \/ ClientStep
    \/ ServerStep
    \/ \E c \in Conns : Break(c)

Spec == Init /\ [][Next]_vars

\* The runtime polls every task that can make progress, the kernel reports a
\* connection that is gone, and a client that keeps trying is let in at last.
\* Nothing obliges an application to send, a process to crash, the network to
\* break a connection, or accept() to fail.
FairSpec ==
    /\ Spec
    /\ WF_vars(ClientTop) /\ SF_vars(Connect) /\ WF_vars(ConnectFails)
    /\ WF_vars(UnconnectedEnds)
    /\ WF_vars(ListenerAccepts)
    /\ WF_vars(cancelled["server"] /\ ListenerEnds)
    /\ WF_vars(RunnerTakesSocket) /\ WF_vars(RunnerEnds)
    /\ \A e \in Endpoints :
         /\ WF_vars(HelloAccepted(e) \/ HelloBadSender(e)
                    \/ HelloBadLastRx(e) \/ HelloMissing(e))
         /\ WF_vars(Killed(e))
         /\ WF_vars(AppMessage(e))
         /\ WF_vars(ReceiveAck(e) \/ ReceiveData(e) \/ StreamEnds(e) \/ JoinDone(e))

-----------------------------------------------------------------------------
(* Properties.                                                             *)

\* Type correctness of every variable; in particular a client never has a
\* server's control state, nor the other way round.
TypeOK ==
    /\ produced \in [Ids -> Nat]
    /\ app_queue \in [Endpoints -> Seq(Payload)]
    /\ tx_open \in [Endpoints -> BOOLEAN]
    /\ rx_open \in [Endpoints -> BOOLEAN]
    /\ delivered \in [Ids -> Seq(Payload)]
    /\ id \in [Endpoints -> Ids]
    /\ remote_id \in [Endpoints -> Ids \cup {NoId}]
    /\ sent_unacked \in [Endpoints -> Seq(Payload)]
    /\ base_offset \in [Endpoints -> Nat]
    /\ received_seq \in [Endpoints -> Nat]
    /\ pc \in [Endpoints -> ClientPC \cup ServerPC]
    /\ pc["client"] \in ClientPC /\ pc["server"] \in ServerPC
    /\ conn \in [Endpoints -> Conns \cup {NoConn}]
    /\ \A e \in Endpoints : conn[e] # NoConn <=> pc[e] \in {"hello", "running", "joining"}
    /\ cancelled \in [Endpoints -> BOOLEAN]
    /\ listening \in BOOLEAN
    /\ backlog \in Seq(Conns)
    /\ socket_queue \in Seq(Conns)
    /\ pipe \in [Endpoints -> [Conns -> Seq(Message)]]
    /\ broken \subseteq Conns
    /\ closed \in [Conns -> SUBSET Endpoints]
    /\ nconns \in 0 .. MaxConns
    /\ nids \in 2 .. MaxIds

\* Each endpoint has bound itself to the other's present incarnation.
Paired == \A e \in Endpoints : remote_id[e] = id[Peer(e)]

\* What an application receives is one peer incarnation's stream from the first
\* message on: nothing lost, repeated, reordered, invented or mixed with the
\* stream of another incarnation, however often it was resent on however many
\* connections.
DeliveredInOrder ==
    \A i \in Ids : \E p \in Ids \ {i} :
        /\ \A k \in 1 .. Len(delivered[i]) : delivered[i][k] = [from |-> p, n |-> k]
        /\ Len(delivered[i]) <= produced[p]
        /\ \A e \in Endpoints : id[e] = i =>
              /\ received_seq[e] = Len(delivered[i])
              /\ received_seq[e] > 0 => remote_id[e] = p

\* No message of an application disappears between two paired endpoints: it was
\* delivered, or waits in the window, or waits to be taken.  It fails when an
\* acknowledgement, a hello among them, releases what was not delivered.
NothingLost ==
    Paired => \A e \in Endpoints : \A k \in 1 .. produced[id[e]] :
        [from |-> id[e], n |-> k] \in Range(delivered[id[Peer(e)]])
                                        \cup Range(sent_unacked[e])
                                        \cup Range(app_queue[e])

\* The window overshoots max_window by less than its newest message.
WindowBound ==
    \A e \in Endpoints : sent_unacked[e] # <<>> =>
        unacked_size(e) - MsgSize[sent_unacked[e][Len(sent_unacked[e])].n] < MaxWindow

\* The error branches of run_stream are for a peer that breaks the protocol and
\* never taken between two of these endpoints: a connection starts with the one
\* hello it carries, no acknowledgement is stale or too high, and a hello, even
\* one written long before it is read, agrees with the window of a paired peer.
NoProtocolError ==
    \A e \in Endpoints :
        /\ pc[e] = "hello" /\ Incoming(e) # <<>> => HasMsg(e, "Hello")
        /\ pc[e] = "running" => ~HasMsg(e, "Hello")
        /\ pc[e] = "running" /\ HasMsg(e, "Ack") =>
              ack_accepted(e, Head(Incoming(e)).seq)
        /\ pc[e] = "hello" /\ HasMsg(e, "Hello") /\ Paired =>
              ack_accepted(e, Head(Incoming(e)).sender_last_rx)

\* On a connection both ends use, what is in flight is, in order, every message
\* from where the receiver stands to the newest that the sender has taken.
StreamIsWhole ==
    \A e \in Endpoints :
        LET f == Peer(e)
            flight == pipe[e][conn[e]]
            at == {k \in 1 .. Len(flight) : flight[k].type = "Data"}
            newest == base_offset[e] + Len(sent_unacked[e])
        IN pc[e] = "running" /\ pc[f] = "running" /\ conn[e] = conn[f]
              /\ conn[e] \notin broken
           => /\ received_seq[f] <= newest
              /\ {flight[k].data : k \in at}
                    = {[from |-> id[e], n |-> n] : n \in received_seq[f] + 1 .. newest}
              /\ \A j, k \in at : j < k => flight[j].data.n < flight[k].data.n

\* Every message is delivered and acknowledged in the end, so that the window
\* opens again, although connections break, unless an endpoint is cancelled or its
\* application closes the channel.
EventuallyAcked ==
    \A e \in Endpoints : \A k \in 1 .. MsgLimit[e] :
        produced[id[e]] >= k ~>
            \/ base_offset[e] >= k /\ Len(delivered[id[Peer(e)]]) >= k
            \/ \E f \in Endpoints : cancelled[f] \/ ~tx_open[f]

\* A cancelled endpoint comes to an end, although run_stream joins its reader task
\* without looking at the token; so does the server's listener, although it does not
\* look at the token while it waits to send a socket to the runner.
Stopped(e) == pc[e] = "stopped" /\ (e = "server" => ~listening)
CancelledStops ==
    \A e \in Endpoints : cancelled[e] ~> (Stopped(e) \/ ~cancelled[e])

\* test_app_channel_close_no_false_ack: an endpoint is never told that data was
\* received, and does not release it, when no application was handed that data.
AckedWasDelivered ==
    \A e \in Endpoints : \A k \in 1 .. base_offset[e] :
        \E i \in Ids : [from |-> id[e], n |-> k] \in Range(delivered[i])

-----------------------------------------------------------------------------

\* The reconnecting stream implements the reliable link: a resend, a stale
\* acknowledgement, a reconnection or a broken connection is a step that no
\* application can observe.
Link == INSTANCE ReliableLink WITH bound <- remote_id, released <- base_offset
LinkSpec == Link!Spec
=============================================================================
