----------------------------- MODULE ControlLine -----------------------------
(***************************************************************************)
(* The control line from end to end: the publisher process (PublisherLine) *)
(* and the broker's control plane (ControlPlane) over the websockets that  *)
(* join them.  Session s is the control session of websocket s.            *)
(*                                                                         *)
(* A step is one of the broker, of the publisher or of the network; where  *)
(* they meet it is a step of both.  Either process may fail and be started *)
(* again, and the network may break any connection.  The broker may also   *)
(* serve a publisher of another make (there is one in TypeScript), of which *)
(* nothing is known but what ControlPlane says of it.                      *)
(***************************************************************************)
EXTENDS ControlPlane, Naturals, Sequences

CONSTANTS
    MaxLines,       \* bound: websockets the publisher creates
    MaxQueue,       \* bound: messages in the publisher's send queue
    MaxTransit,     \* bound: messages a connection holds that the broker has not read
    MaxExtra        \* bound: pings and failure reports the publisher sends in all

ASSUME ControlLineAssumption ==
    /\ Session = 1 .. MaxLines
    /\ MaxLines \in Nat \ {0}
    /\ MaxQueue \in Nat
    /\ MaxTransit \in Nat \ {0}
    /\ MaxExtra \in Nat

VARIABLES
    \* of the publisher, see PublisherLine
    ws, line, connects, greeting, reads, busy, reconnecting, backoff, aliveArmed,
    aliveFired, queue, sendInProgress, sending, sentOn, threw, sendFailed,
    extra,          \* pings and failure reports it has sent or is about to send
    \* of the network
    inTransit,      \* what each connection holds that the broker has not read
    other           \* is the publisher of another make?  (never changes)

\* The length of the pauses is PublisherLine's own matter.
P == INSTANCE PublisherLine WITH greeted <- sentOn, MaxBackoff <- 1

publisherVars == <<ws, line, connects, greeting, reads, busy, reconnecting, backoff,
                   aliveArmed, aliveFired, queue, sendInProgress, sending, sentOn, threw,
                   sendFailed>>

lineVars == <<vars, publisherVars, extra, inTransit, other>>

LineInit ==
    /\ Init /\ P!Init
    /\ other \in BOOLEAN
    /\ extra = 0
    /\ inTransit = [s \in Session |-> <<>>]

-----------------------------------------------------------------------------
(* Steps of one end                                                         *)

\* The broker takes step A.  What a session had not read goes with it.
Broker(A) ==
    /\ A
    /\ inTransit' = [s \in Session |-> IF stage'[s] = "destroyed" THEN <<>> ELSE inTransit[s]]
    /\ UNCHANGED <<publisherVars, extra, other>>

\* The publisher takes step A; a websocket it closes is down for the broker too.
Publisher(A) ==
    /\ ~other /\ A
    /\ link' = [s \in Session |-> IF line'[s] = "closed" THEN "down" ELSE link[s]]
    /\ UNCHANGED <<overlap, broker, stage, current, registered, tasks, reading, writing,
                   adding, greeted, services, failed, stranded, inTransit, other>>

\* The handlers of session s that are due, whoever the publisher is.
BrokerHandles(s) ==
    \/ Broker(Register(s)) \/ Broker(HandshakeHandled(s)) \/ Broker(EndSelf(s))
    \/ \E p \in Port : Broker(AddService(s, p))

BrokerStep ==
    \/ \E s \in Session :
          \/ BrokerHandles(s) \/ Broker(AddServicesThrows(s))
          \/ Broker(LinkDrops(s)) \/ Broker(ReadFails(s))
          \/ Broker(WriteDone(s)) \/ Broker(WriteFails(s))
    \/ \E p \in Port : Broker(Accept(p))
    \/ Broker(Restart) \/ Broker(Over)

\* What a publisher of another make does.
OtherStep ==
    /\ other
    /\ \E s \in Session :
          \/ Broker(Upgrade(s)) \/ Broker(ReadHandshake(s)) \/ Broker(Answer(s))
          \/ Broker(ConsumerThrows(s))

PublisherReadFails == \E w \in Session : Publisher(P!ReadFails(w)) /\ UNCHANGED extra

\* A message is handled that the session may have written.
PublisherStep ==
    \/ /\ \/ Publisher(P!Authenticate) \/ Publisher(P!Restart) \/ Publisher(P!AlivePing)
          \/ \E w \in Session : stage[w] # "unused" /\ Publisher(P!ReadMessage(w))
       /\ UNCHANGED extra
    \/ /\ extra < MaxExtra /\ extra' = extra + 1
       /\ Publisher(P!AliveExpires)

-----------------------------------------------------------------------------
(* Steps in which the ends meet                                             *)

\* The broker answers the upgrade request of the websocket that is connecting, which
\* the publisher may have given up by then.
UpgradeAnswered(w) ==
    /\ ~other /\ w = ws /\ line[w] \in {"connecting", "closed"}
    /\ Broker(UpgradeHandler(w))

\* The answer reaches the publisher.
ConnectSucceeds(w) ==
    /\ stage[w] # "unused"
    /\ Publisher(P!ConnectSucceeds(w))
    /\ UNCHANGED extra

\* A message leaves the publisher; a connection that is down loses it.
MessageSent(i) ==
    LET w == sending[i][1] IN
    /\ P!SendDone(i)
    /\ \/ /\ link[w] = "up" /\ Len(inTransit[w]) < MaxTransit
          /\ inTransit' = [inTransit EXCEPT ![w] = Append(@, sending[i][2])]
       \/ /\ link[w] = "down"
          /\ UNCHANGED inTransit
    /\ UNCHANGED <<vars, extra, other>>

\* The publisher's callbacks that are due.
PublisherHandles ==
    \/ \E w \in Session :
          \/ ConnectSucceeds(w)
          \/ (Publisher(P!ConnectFails(w)) \/ Publisher(P!Greet(w))) /\ UNCHANGED extra
    \/ Publisher(P!HandlerThrows) /\ UNCHANGED extra
    \/ /\ Publisher(P!MessageHandled)
       /\ extra' = IF <<queue, sending>>' = <<queue, sending>> THEN extra ELSE extra + 1
       /\ extra' <= MaxExtra

SendCompletes ==
    \E i \in DOMAIN sending :
        MessageSent(i) \/ (Publisher(P!SendFails(i)) /\ UNCHANGED extra)

\* Mutant of Dispatched: the subscription of the handshake has already expired.
DispatchedPings(s, m) ==
    \/ m = "Ping" /\ Answer(s)
    \/ m # "Ping" /\ Up /\ s \in reading /\ UNCHANGED vars

\* The dispatcher calls the subscriber of the message's type, of which there are
\* two, and which may throw; the report of a failed tunnel has none.
Dispatched(s, m) ==
    \/ m = "Handshake" /\ ReadHandshake(s)
    \/ m = "Ping" /\ Answer(s)
    \/ m \in {"Handshake", "Ping"} /\ ConsumerThrows(s)
    \/ m = "NewTunnelFailed" /\ Up /\ s \in reading /\ UNCHANGED vars

MessageRead(s) ==
    /\ inTransit[s] # <<>>
    /\ Dispatched(s, Head(inTransit[s]))
    /\ inTransit' = [inTransit EXCEPT ![s] = Tail(@)]
    /\ UNCHANGED <<publisherVars, extra, other>>

\* A connection that is down is lost for the publisher as well, in time.
LossArrives ==
    /\ ws \in Session /\ stage[ws] # "unused" /\ link[ws] = "down"
    /\ P!LineLost
    /\ UNCHANGED <<vars, extra, inTransit, other>>

LineNext ==
    \/ BrokerStep \/ OtherStep \/ PublisherStep \/ PublisherReadFails \/ PublisherHandles
    \/ SendCompletes
    \/ \E w \in Session : UpgradeAnswered(w) \/ MessageRead(w)
    \/ LossArrives

LineSpec == LineInit /\ [][LineNext]_lineVars

\* Both ends run their handlers, as their own specifications say; what a live
\* connection holds is read, and the publisher's pings uncover a dead one.
LineFairness ==
    /\ \A s \in Session :
        /\ WF_lineVars(BrokerHandles(s) \/ MessageRead(s))
        /\ SF_lineVars(Broker(ReadFails(s)))
    /\ WF_lineVars(PublisherHandles)
    /\ WF_lineVars(SendCompletes)
    /\ SF_lineVars(PublisherReadFails)
    /\ WF_lineVars(LossArrives)

FairLineSpec == LineSpec /\ LineFairness

-----------------------------------------------------------------------------
(* Properties                                                               *)

\* While a websocket is open at both ends, it is the one to which the broker sends
\* its requests for tunnels, and exactly one callback of the publisher reads there:
\* not none, or clients would wait for nothing, and not two, which websockets do not
\* allow.  None reads once a callback has thrown.  Of a publisher that is back before
\* the broker noticed, and after a send that failed, nothing is claimed.
RequestsAreRead ==
    ~other /\ ~overlap /\ ~sendFailed /\ line[ws] = "open" /\ link[ws] = "up"
        => /\ current = ws
           /\ reads[ws] + busy + Cardinality(greeting \intersect {ws})
                  = IF threw THEN 0 ELSE 1

\* A publisher whose line opens and stays open is served, after any loss of the line
\* or restart of either process: its handshake is sent and read, though a ping or a
\* report meant for the line before may come first, and every port it announced
\* accepts connections or could not be opened.  That is so of a publisher that is back
\* only after the broker noticed its loss, unless one of its sends failed since it
\* started or a subscriber threw before its session was registered.
OpenLineIsServed ==
    line[ws] = "open" ~>
        \/ overlap \/ sendFailed \/ ws \in stranded
        \/ line[ws] # "open" \/ \A p \in Port : services[p] = "accepting" \/ p \in failed
=============================================================================
