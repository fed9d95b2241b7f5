---------------------------- MODULE ReliableLink ----------------------------
(***************************************************************************)
(* What the reconnecting stream promises to the two applications: each     *)
(* endpoint binds itself once, to one incarnation of its peer, and from    *)
(* then on hands over that incarnation's messages, each once and in order; *)
(* and it gives up its own copies only of as many messages as that         *)
(* incarnation has received.  Connections, windows, acknowledgements and   *)
(* resends do not appear.                                                  *)
(***************************************************************************)
EXTENDS Naturals, Sequences

CONSTANTS Endpoints, Ids, NoId

VARIABLES
    id,        \* the incarnation of each endpoint
    bound,     \* the incarnation of the peer it is bound to, or NoId
    released,  \* how many of its messages it has no copy of any more
    produced,  \* [Ids -> Nat] messages sent by the application of an incarnation
    delivered  \* [Ids -> Seq] messages handed to the application of an incarnation

vars == <<id, bound, released, produced, delivered>>

Init ==
    /\ id \in [Endpoints -> Ids]
    /\ bound = [e \in Endpoints |-> NoId]
    /\ released = [e \in Endpoints |-> 0]
    /\ produced = [i \in Ids |-> 0]
    /\ delivered = [i \in Ids |-> <<>>]

Produce(e) ==
    /\ produced' = [produced EXCEPT ![id[e]] = @ + 1]
    /\ UNCHANGED <<id, bound, released, delivered>>

\* e may release its first n messages to i.  They are counted only: of whom i has
\* received them is not asked, and a peer that was replaced may have received them
\* of an incarnation before e.
Releasable(e, i, n) == n <= produced[id[e]] /\ n <= Len(delivered[i])

\* The first incarnation e hears of, not necessarily one that still runs, and what
\* it says that it has.
Bind(e, i, n) ==
    /\ bound[e] = NoId /\ i # id[e]
    /\ Releasable(e, i, n)
    /\ bound' = [bound EXCEPT ![e] = i]
    /\ released' = [released EXCEPT ![e] = n]
    /\ UNCHANGED <<id, produced, delivered>>

Release(e, n) ==
    /\ bound[e] # NoId
    /\ released[e] < n /\ Releasable(e, bound[e], n)
    /\ released' = [released EXCEPT ![e] = n]
    /\ UNCHANGED <<id, bound, produced, delivered>>

Deliver(e) ==
    /\ bound[e] # NoId
    /\ Len(delivered[id[e]]) < produced[bound[e]]
    /\ delivered' = [delivered EXCEPT
                        ![id[e]] = Append(@, [from |-> bound[e], n |-> Len(@) + 1])]
    /\ UNCHANGED <<id, bound, released, produced>>

\* A new process: nobody was bound to it and nothing came from it.
Replace(e, i) ==
    /\ i \notin {id[d] : d \in Endpoints} /\ \A d \in Endpoints : bound[d] # i
    /\ produced[i] = 0 /\ delivered[i] = <<>>
    /\ id' = [id EXCEPT ![e] = i]
    /\ bound' = [bound EXCEPT ![e] = NoId]
    /\ released' = [released EXCEPT ![e] = 0]
    /\ UNCHANGED <<produced, delivered>>

Next ==
    \E e \in Endpoints :
        \/ Produce(e) \/ Deliver(e)
        \/ \E i \in Ids : Replace(e, i)
        \/ \E n \in 0 .. produced[id[e]] :
              Release(e, n) \/ \E i \in Ids : Bind(e, i, n)

Spec == Init /\ [][Next]_vars
=============================================================================
