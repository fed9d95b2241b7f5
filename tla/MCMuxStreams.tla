---------------------------- MODULE MCMuxStreams ----------------------------
(* Model-checking instances of MuxStreams. *)
EXTENDS MuxInvariant

\* How many messages each end reads from the socket of each stream.
UpDown(up, down) == [e \in Ends |-> IF e = "client" THEN up ELSE down]
TwoUp      == UpDown(<<2>>, <<0>>)
OneEach    == UpDown(<<1>>, <<1>>)
\* The first stream sends enough to be paused, the other one both ways.
PausedAndBusy == UpDown(<<3, 1>>, <<0, 1>>)

\* Whose sockets may be closed.
NoSocket    == [e \in Ends |-> {}]
AnySocket   == [e \in Ends |-> Streams]
=============================================================================
