---------------------------- MODULE PublisherLine ----------------------------
(***************************************************************************)
(* The publisher process' control line: publisherpp's Publisher, which     *)
(* authenticates, connects a websocket to the broker, greets it, reads,    *)
(* pings it every second through a send queue, and connects again with a   *)
(* growing pause when anything fails.                                      *)
(*                                                                         *)
(* Every callback captures the Publisher and acts on ws_, the websocket of *)
(* the moment, not on the one it was started on.  The websocket itself     *)
(* (Roar, over boost beast) is not part of the repository: it completes a  *)
(* read or a send with a result or an error, in its own time.              *)
(***************************************************************************)
EXTENDS Naturals, Sequences, SequencesExt

CONSTANTS
    MaxLines,       \* bound: websockets created after the first
    MaxQueue,       \* bound: pings and failure reports are queued up to here
    MaxBackoff      \* the cap of the pause in seconds, 60 in the code

ASSUME PublisherLineAssumption ==
    /\ MaxLines \in Nat \ {0}
    /\ MaxQueue \in Nat
    /\ MaxBackoff \in Nat \ {0}

Line == 0 .. MaxLines       \* 0 is the client the constructor creates and never connects

VARIABLES
    ws,             \* ws_
    line,           \* what became of each websocket
    connects,       \* websockets whose connect has not completed
    greeting,       \* connect callbacks between the alive timer and the handshake
    reads,          \* reads outstanding on each websocket
    busy,           \* read callbacks still handling their message
    reconnecting,   \* isReconnecting_: the reconnect timer runs
    backoff,        \* reconnectTime_ in seconds
    aliveArmed,     \* the ping timer runs
    aliveFired,     \* its handler is queued
    queue,          \* controlSendOperations_
    sendInProgress, \* sendInProgress_
    sending,        \* sends outstanding: <<websocket, message>>
    greeted,        \* history: the websocket a handshake was sent on last
    threw,          \* history: a read callback threw since ws_ is the websocket it is
    sendFailed      \* history: a send failed since the process started

vars == <<ws, line, connects, greeting, reads, busy, reconnecting, backoff,
          aliveArmed, aliveFired, queue, sendInProgress, sending, greeted,
          threw, sendFailed>>

Message == {"Handshake", "Ping", "NewTunnelFailed"}

TypeOK ==
    /\ ws \in Line
    /\ line \in [Line -> {"unused", "connecting", "open", "lost", "closed"}]
    /\ connects \subseteq Line /\ greeting \subseteq Line /\ greeted \subseteq Line
    /\ reads \in [Line -> Nat]
    /\ busy \in Nat
    /\ reconnecting \in BOOLEAN
    /\ backoff \in 1 .. MaxBackoff
    /\ aliveArmed \in BOOLEAN /\ aliveFired \in BOOLEAN
    /\ queue \in Seq(Message)
    /\ sendInProgress \in BOOLEAN
    /\ sending \in Seq(Line \X Message)
    /\ threw \in BOOLEAN /\ sendFailed \in BOOLEAN

\* Before authenticate() is called the first time nothing is under way, which is
\* the state in which the reconnect timer's handler calls it.
Init ==
    /\ ws = 0
    /\ line = [w \in Line |-> "unused"]
    /\ connects = {} /\ greeting = {} /\ greeted = {}
    /\ reads = [w \in Line |-> 0]
    /\ busy = 0
    /\ reconnecting = TRUE
    /\ backoff = 1
    /\ aliveArmed = FALSE /\ aliveFired = FALSE
    /\ queue = <<>> /\ sendInProgress = FALSE /\ sending = <<>>
    /\ threw = FALSE /\ sendFailed = FALSE

lineVars == <<ws, line, connects, greeting, reads, busy, reconnecting, backoff, threw>>
sendVars == <<queue, sendInProgress, sending, greeted, sendFailed>>

-----------------------------------------------------------------------------
(* retryConnect and the send queue, called from the handlers below          *)

Doubled(n) == IF n * 2 > MaxBackoff THEN MaxBackoff ELSE n * 2

\* Mutant of RetryConnect: the websocket of the moment is left open.
RetryConnectOpen ==
    /\ aliveArmed' = FALSE
    /\ reconnecting' = TRUE
    /\ backoff' = IF reconnecting THEN backoff ELSE Doubled(backoff)
    /\ UNCHANGED line

\* The ping timer stops; unless a reconnect is under way the websocket of the
\* moment is closed, and the reconnect timer starts.
RetryConnect ==
    /\ aliveArmed' = FALSE
    /\ reconnecting' = TRUE
    /\ IF reconnecting
         THEN UNCHANGED <<line, backoff>>
         ELSE /\ line' = [line EXCEPT ![ws] = "closed"]
              /\ backoff' = Doubled(backoff)

\* Mutant of SendQueued: sendInProgress_ is not looked at.
SendAtOnce(m) ==
    /\ sendInProgress' = TRUE
    /\ queue' = Tail(Append(queue, m))
    /\ sending' = Append(sending, <<ws, Head(Append(queue, m))>>)

\* sendQueued(m): sendOnceFromQueue runs only if no send is in progress.
SendQueued(m) ==
    /\ sendInProgress' = TRUE
    /\ LET q == Append(queue, m) IN
       IF sendInProgress
         THEN /\ queue' = q
              /\ UNCHANGED sending
         ELSE /\ queue' = Tail(q)
              /\ sending' = Append(sending, <<ws, Head(q)>>)

-----------------------------------------------------------------------------
(* Authentication and connection                                            *)

\* authenticate(), from the reconnect timer: a curl request to the authority that
\* fails starts the timer again, else a new websocket replaces ws_ and connects.
Authenticate ==
    /\ reconnecting
    /\ \/ /\ backoff' = Doubled(backoff)
          /\ aliveArmed' = FALSE
          /\ line' = [line EXCEPT ![ws] = "closed"]
          /\ UNCHANGED <<ws, connects, reconnecting, threw>>
       \/ /\ ws < MaxLines
          /\ ws' = ws + 1
          /\ line' = [line EXCEPT ![ws + 1] = "connecting"]
          /\ connects' = connects \union {ws + 1}
          /\ reconnecting' = FALSE
          /\ threw' = FALSE
          /\ UNCHANGED <<backoff, aliveArmed>>
    /\ UNCHANGED <<greeting, reads, busy, aliveFired, sendVars>>

\* connect's callback, first half: the ping timer starts and the pause is reset.
ConnectSucceeds(w) ==
    /\ w \in connects /\ line[w] = "connecting"
    /\ connects' = connects \ {w}
    /\ line' = [line EXCEPT ![w] = "open"]
    /\ aliveArmed' = TRUE
    /\ backoff' = 1
    /\ greeting' = greeting \union {w}
    /\ UNCHANGED <<ws, reads, busy, reconnecting, aliveFired, threw, sendVars>>

ConnectFails(w) ==
    /\ w \in connects
    /\ connects' = connects \ {w}
    /\ RetryConnect
    /\ UNCHANGED <<ws, greeting, reads, busy, aliveFired, threw, sendVars>>

\* Second half, without the lock: read from ws_ and send the handshake.
Greet(w) ==
    /\ w \in greeting
    /\ greeting' = greeting \ {w}
    /\ reads' = [reads EXCEPT ![ws] = @ + 1]
    /\ SendQueued("Handshake")
    /\ UNCHANGED <<ws, line, connects, busy, reconnecting, backoff, aliveArmed,
                   aliveFired, greeted, threw, sendFailed>>

\* The network breaks the connection.
LineLost ==
    /\ line[ws] = "open"
    /\ line' = [line EXCEPT ![ws] = "lost"]
    /\ UNCHANGED <<ws, connects, greeting, reads, busy, reconnecting, backoff,
                   aliveArmed, aliveFired, threw, sendVars>>

\* The publisher's process ends, whatever it was doing, and is started again.
Restart ==
    /\ line[ws] # "unused"
    /\ line' = [line EXCEPT ![ws] = "closed"]
    /\ connects' = {} /\ greeting' = {}
    /\ reads' = [w \in Line |-> 0]
    /\ busy' = 0
    /\ reconnecting' = TRUE /\ backoff' = 1
    /\ aliveArmed' = FALSE /\ aliveFired' = FALSE
    /\ queue' = <<>> /\ sendInProgress' = FALSE /\ sending' = <<>>
    /\ threw' = FALSE /\ sendFailed' = FALSE
    /\ greeted' = {}
    /\ UNCHANGED ws

-----------------------------------------------------------------------------
(* Reading                                                                  *)

\* A message arrived; handling NewTunnel blocks on the authority and on connects.
ReadMessage(w) ==
    /\ reads[w] > 0 /\ line[w] \in {"open", "lost"}
    /\ reads' = [reads EXCEPT ![w] = @ - 1]
    /\ busy' = busy + 1
    /\ UNCHANGED <<ws, line, connects, greeting, reconnecting, backoff,
                   aliveArmed, aliveFired, threw, sendVars>>

\* Mutant of MessageHandled: a refused NewTunnel returns without reading again.
MessageRefused ==
    /\ busy > 0
    /\ busy' = busy - 1
    /\ \/ /\ UNCHANGED <<queue, sendInProgress, sending>>
          /\ reads' = [reads EXCEPT ![ws] = @ + 1]
       \/ /\ Len(queue) < MaxQueue /\ SendQueued("NewTunnelFailed")
          /\ UNCHANGED reads
    /\ UNCHANGED <<ws, line, connects, greeting, reconnecting, backoff,
                   aliveArmed, aliveFired, greeted, threw, sendFailed>>

\* The message was handled, possibly with a failure report; ws_ is read again.
MessageHandled ==
    /\ busy > 0
    /\ busy' = busy - 1
    /\ \/ UNCHANGED <<queue, sendInProgress, sending>>
       \/ Len(queue) < MaxQueue /\ SendQueued("NewTunnelFailed")
    /\ reads' = [reads EXCEPT ![ws] = @ + 1]
    /\ UNCHANGED <<ws, line, connects, greeting, reconnecting, backoff,
                   aliveArmed, aliveFired, greeted, threw, sendFailed>>

\* onControlRead throws: json::parse and get<> on what the broker or the authority
\* sent, and the outward createConnection under createSession.  The next read, which
\* the callback starts behind it, is not started.  The promise is rejected with an
\* exception, which is not the Error that the fail handler takes.
HandlerThrows ==
    /\ busy > 0
    /\ busy' = busy - 1
    /\ threw' = TRUE
    /\ UNCHANGED <<ws, line, connects, greeting, reads, reconnecting, backoff,
                   aliveArmed, aliveFired, sendVars>>

\* Mutant of ReadFails: the error is only logged.
ReadFailsSilently(w) ==
    /\ reads[w] > 0 /\ line[w] \in {"lost", "closed", "unused"}
    /\ reads' = [reads EXCEPT ![w] = @ - 1]
    /\ UNCHANGED <<ws, line, connects, greeting, busy, reconnecting, backoff,
                   aliveArmed, aliveFired, threw, sendVars>>

ReadFails(w) ==
    /\ reads[w] > 0 /\ line[w] \in {"lost", "closed", "unused"}
    /\ reads' = [reads EXCEPT ![w] = @ - 1]
    /\ RetryConnect
    /\ UNCHANGED <<ws, connects, greeting, busy, aliveFired, threw, sendVars>>

-----------------------------------------------------------------------------
(* The ping timer and the completion of sends                               *)

AliveExpires ==
    /\ aliveArmed
    /\ aliveArmed' = FALSE
    /\ aliveFired' = TRUE
    /\ UNCHANGED <<lineVars, sendVars>>

\* Mutant of AlivePing: the timer is not started again.
AlivePingOnce ==
    /\ aliveFired /\ Len(queue) < MaxQueue
    /\ aliveFired' = FALSE
    /\ SendQueued("Ping")
    /\ UNCHANGED <<lineVars, aliveArmed, greeted, sendFailed>>

\* The handler pings and starts the timer again, whatever happened since it fired.
AlivePing ==
    /\ aliveFired /\ Len(queue) < MaxQueue
    /\ aliveFired' = FALSE
    /\ aliveArmed' = TRUE
    /\ SendQueued("Ping")
    /\ UNCHANGED <<lineVars, greeted, sendFailed>>

\* Mutant of SendDone: the callback does not take the next message.
SendDoneAlone(i) ==
    /\ i \in DOMAIN sending
    /\ greeted' = IF sending[i][2] = "Handshake"
                    THEN {sending[i][1]} ELSE greeted
    /\ sending' = RemoveAt(sending, i)
    /\ UNCHANGED <<lineVars, aliveArmed, aliveFired, queue, sendInProgress,
                   sendFailed>>

\* A send completed: sendOnceFromQueue takes the next message, to the ws_ of now.
SendDone(i) ==
    /\ i \in DOMAIN sending
    /\ greeted' = IF sending[i][2] = "Handshake"
                    THEN {sending[i][1]} ELSE greeted
    /\ IF queue = <<>>
         THEN /\ sendInProgress' = FALSE
              /\ sending' = RemoveAt(sending, i)
              /\ UNCHANGED queue
         ELSE /\ sendInProgress' = TRUE
              /\ sending' = Append(RemoveAt(sending, i), <<ws, Head(queue)>>)
              /\ queue' = Tail(queue)
    /\ UNCHANGED <<lineVars, aliveArmed, aliveFired, sendFailed>>

\* A send failed: the callback reconnects and leaves sendInProgress_ set.
SendFails(i) ==
    /\ i \in DOMAIN sending /\ line[sending[i][1]] # "open"
    /\ sending' = RemoveAt(sending, i)
    /\ sendFailed' = TRUE
    /\ RetryConnect
    /\ UNCHANGED <<ws, connects, greeting, reads, busy, aliveFired, threw, queue,
                   sendInProgress, greeted>>

Next ==
    \/ Authenticate \/ LineLost \/ Restart \/ MessageHandled \/ HandlerThrows
    \/ AliveExpires \/ AlivePing
    \/ \E w \in Line :
          ConnectSucceeds(w) \/ ConnectFails(w) \/ Greet(w) \/ ReadMessage(w) \/ ReadFails(w)
    \/ \E i \in DOMAIN sending : SendDone(i) \/ SendFails(i)

Spec == Init /\ [][Next]_vars

\* Callbacks that are due run, and a send completes.  What a lost websocket has
\* still to deliver is finite, so reading it again and again ends in a failure
\* (strong fairness).  No message and no successful connection is promised.
Fairness ==
    /\ WF_vars(MessageHandled \/ HandlerThrows)
    /\ \A w \in Line :
          /\ WF_vars(ConnectSucceeds(w) \/ ConnectFails(w))
          /\ WF_vars(Greet(w))
          /\ SF_vars(ReadFails(w))
    /\ WF_vars(\E i \in DOMAIN sending : SendDone(i) \/ SendFails(i))

FairSpec == Spec /\ Fairness

-----------------------------------------------------------------------------
(* Properties                                                               *)

\* Only a read callback that throws leaves the publisher alone with its websocket:
\* until one does, the reconnect timer runs or some callback is outstanding that
\* will notice the loss, whatever stale callbacks of older websockets do.
LineIsWatched ==
    \/ reconnecting \/ connects # {} \/ greeting # {} \/ busy > 0
    \/ \E w \in Line : reads[w] > 0
    \/ threw

\* The publisher never has two websockets at once: when one connects every earlier
\* one is closed, whichever callbacks, timers and restarts came between.
OneLineOpen ==
    \A v, w \in Line :
        line[v] \notin {"unused", "closed"} /\ line[w] \notin {"unused", "closed"} => v = w

\* At most one send is outstanding, on any websocket.  sendInProgress_ is set while
\* one is, and from the first send that fails until the process ends, when none is
\* ever sent again: then what is queued waits for nobody.
OneSendAtATime ==
    /\ Len(sending) <= 1
    /\ sendInProgress <=> sending # <<>> \/ sendFailed
    /\ sendFailed => sending = <<>>
    /\ queue # <<>> => sendInProgress

\* While the line is open its pings are due: the timer runs or its handler is queued,
\* however a reconnect and a handler that had already fired interleave.
OpenLineIsPinged == line[ws] = "open" => aliveArmed \/ aliveFired

\* A lost line is given up and the reconnect timer started, unless a read callback
\* threw: then nobody reads the websocket, and the pings alone promise nothing.
LossLeadsToReconnect == line[ws] = "lost" ~> reconnecting \/ threw

\* A publisher publishes its ports (README, "Publisher"): on every websocket that
\* opens and stays open the handshake that announces them is sent, unless a send
\* failed since the process started.
LineIsGreetedUnlessSendsFail ==
    \A w \in Line : line[w] = "open" ~> line[w] # "open" \/ w \in greeted \/ sendFailed
=============================================================================
