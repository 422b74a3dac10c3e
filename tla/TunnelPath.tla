------------------------------ MODULE TunnelPath ------------------------------
(***************************************************************************)
(* A tunnel from the subscriber to the published port: the sides that the  *)
(* broker's TunnelService keeps, composed with the connections that the    *)
(* publisher keeps for the same tunnel, as PublisherEnds promises them (and *)
(* ServiceSessions is shown to keep that promise).                         *)
(*                                                                         *)
(* The two meet in the NewTunnel message, which the publisher answers with *)
(* a connection to the broker, and in that connection: when one process    *)
(* closes its end, or ends itself, the other one reads the end of stream.  *)
(***************************************************************************)
EXTENDS TunnelService, Naturals

CONSTANT MaxSubscribers     \* bound: connections of subscribers the service accepts

VARIABLES made, open

Ends == INSTANCE PublisherEnds

publisherEnds == <<made, open>>

pathVars == <<vars, publisherEnds>>

PathInit == Init /\ Ends!Init

\* Bound: the publisher's connection succeeds only while the broker has an identifier
\* left to accept it under.
IdentifiersLast ==
    Cardinality(dialing') <= Cardinality({t \in Tunnel : phase[t] = "unused"})

\* createSession's connection to the broker is in the acceptor's backlog, or there
\* is none.
NewTunnelAnswered(c) ==
    /\ NewTunnelHandled(c) /\ Ends!Dial(c)
    /\ c \in dialing' <=> made'[c] = "half"
    /\ IdentifiersLast

BrokerAlone ==
    /\ Next /\ UNCHANGED publisherEnds
    /\ \A c \in requests : ~NewTunnelHandled(c)
    /\ Cardinality({t \in Tunnel : origin'[t] = Subscriber}) <= MaxSubscribers

PublisherAlone(c) ==
    /\ Ends!Complete(c) \/ Ends!Forget(c) \/ \E e \in {"in", "out"} : Ends!CloseEnd(c, e)
    /\ UNCHANGED vars

\* The publisher's process ends; the broker finds out connection by connection.
PublisherDies ==
    /\ \E c \in Tunnel : made[c] # "over"
    /\ Ends!Die
    /\ UNCHANGED vars

PathNext ==
    \/ \E c \in Tunnel : NewTunnelAnswered(c) \/ PublisherAlone(c)
    \/ BrokerAlone
    \/ PublisherDies

PathSpec == PathInit /\ [][PathNext]_pathVars

-----------------------------------------------------------------------------
(* What each process can see of the other's end of their connection         *)

\* p is the broker's end of a connection that the publisher has closed.
PublisherGone(p) == origin[p] \in Tunnel /\ "out" \notin open[origin[p]]

\* The connection that answers c has no end in the broker: never accepted and the
\* acceptor is closed, refused, or accepted as a side that is closed by now.
BrokerGone(c) ==
    \/ ~Up
    \/ c \in dialing /\ acceptor = "closed"
    \/ c \notin dialing /\ \A p \in Tunnel : origin[p] = c => p \in closed

\* What is still in flight on a connection whose other end is closed is finite:
\* reading it comes to its end and writing to it fails.  Behind a subscriber that
\* does not take what is written to it, the side's own timer expires.
BrokerFairness ==
    \A p \in Tunnel :
        /\ SF_pathVars(PublisherGone(p) /\ pipe[p] = "read" /\ PipeEnd(p)
                          /\ UNCHANGED publisherEnds)
        /\ SF_pathVars(PublisherGone(p)
                          /\ \E c \in Tunnel : peer[p] = c /\ pipe[c] = "write" /\ PipeEnd(c)
                          /\ UNCHANGED publisherEnds)
        /\ WF_pathVars(PublisherGone(p) /\ pipe[p] = "write" /\ DeadlinePasses(p)
                          /\ UNCHANGED publisherEnds)
        /\ WF_pathVars((\E t \in Tunnel : AcceptTunnel(t, p)) /\ UNCHANGED publisherEnds)

\* The dial to the published port returns, a connection whose other end is gone is
\* closed, and with one of a pair the other (ServiceSessions' EndsCloseTogether).
PublisherFollows(c) ==
    /\ \/ Ends!Complete(c) \/ Ends!Forget(c)
       \/ BrokerGone(c) /\ Ends!CloseEnd(c, "out")
       \/ \E e \in {"in", "out"} : open[c] = {e} /\ Ends!CloseEnd(c, e)
    /\ UNCHANGED vars

PublisherFairness == \A c \in Tunnel : WF_pathVars(PublisherFollows(c))

FairPathSpec == PathSpec /\ Fairness /\ BrokerFairness /\ PublisherFairness

-----------------------------------------------------------------------------
(* Properties                                                               *)

\* When the subscriber's side closes, the service goes or the broker ends, the
\* publisher lets go of its two connections for that tunnel, also when it dialled
\* for a subscriber that had left, and when its connection was never accepted.
HiddenEndFollows ==
    \A c \in Tunnel :
        (made[c] \in {"half", "pair"} /\ (c \in closed \/ service = "gone" \/ ~Up))
            ~> made[c] = "over"

\* When the publisher is through with a tunnel (its service hung up, its port could
\* not be reached, its process ended), the subscriber's side is closed.
SubscriberEndFollows ==
    \A c \in Tunnel : (made[c] = "over" /\ Live(c)) ~> (c \in closed \/ ~Up)
=============================================================================
