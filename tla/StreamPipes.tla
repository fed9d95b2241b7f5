----------------------------- MODULE StreamPipes -----------------------------
(***************************************************************************)
(* What the two multiplexers promise to the sockets at their ends: each    *)
(* stream that the client accepts is opened once at the server, or not at  *)
(* all, and is then a pipe in each direction.  What comes out of a pipe is *)
(* what went in, in order, as far as it gets; either half of an end may be *)
(* cut at any time, and stays cut.  Identifiers, channels, PAUSE and       *)
(* RESUME, tasks, and the other streams do not appear.                     *)
(***************************************************************************)
EXTENDS Naturals, Sequences

CONSTANT Streams

Ends == {"client", "server"}
Peer(e) == IF e = "client" THEN "server" ELSE "client"

\* An end of a stream: the half that reads from the socket, the half that writes to
\* it, how many messages were taken from the socket, and which were given to it.
VARIABLE end

Init ==
    LET unknown == [input |-> "none", output |-> "none", taken |-> 0, given |-> <<>>] IN
    end = [e \in Ends |-> [s \in Streams |-> unknown]]

\* Both halves go on together.
Goes(e, s, from, to) ==
    LET p == end[e][s] IN
    /\ p.input = from /\ p.output = from
    /\ end'[e][s] = [p EXCEPT !.input = to, !.output = to]

Accept(e, s)  == e = "client" /\ Goes(e, s, "none", "open")
Ask(e, s)     == e = "server" /\ end["client"][s].input # "none" /\ Goes(e, s, "none", "opening")
Connect(e, s) == Goes(e, s, "opening", "open")
GiveUp(e, s)  == Goes(e, s, "opening", "ended")

Take(e, s) ==
    LET p == end[e][s] IN
    p.input = "open" /\ end'[e][s] = [p EXCEPT !.taken = @ + 1]

\* The next message that was taken at the other end.
Give(e, s) ==
    LET p == end[e][s] IN
    /\ p.output = "open" /\ Len(p.given) < end[Peer(e)][s].taken
    /\ end'[e][s] = [p EXCEPT !.given = Append(@, Len(@) + 1)]

EndInput(e, s) ==
    LET p == end[e][s] IN
    p.input = "open" /\ end'[e][s] = [p EXCEPT !.input = "ended"]

EndOutput(e, s) ==
    LET p == end[e][s] IN
    p.output = "open" /\ end'[e][s] = [p EXCEPT !.output = "ended"]

\* One end of one stream changes, and nothing else.
Next ==
    \E e \in Ends, s \in Streams :
        /\ end'[e][s] # end[e][s]
        /\ \/ Accept(e, s) \/ Ask(e, s) \/ Connect(e, s) \/ GiveUp(e, s)
           \/ Take(e, s) \/ Give(e, s) \/ EndInput(e, s) \/ EndOutput(e, s)
        /\ end' = [end EXCEPT ![e][s] = end'[e][s]]

Spec == Init /\ [][Next]_end
=============================================================================
