------------------------ MODULE MCReconnectingStream ------------------------
(***************************************************************************)
(* Instances of ReconnectingStream for TLC.                                *)
(***************************************************************************)
EXTENDS StreamInvariant, TLC

\* Both applications send, the client more than the server.
ThreeAndOne == "client" :> 3 @@ "server" :> 1
TwoUp       == "client" :> 2 @@ "server" :> 0
OneEach     == "client" :> 1 @@ "server" :> 1

\* The second message is larger than the first.
Sizes == <<1, 2, 3>>
=============================================================================
