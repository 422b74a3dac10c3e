---------------------------- MODULE NodePublisher ----------------------------
(***************************************************************************)
(* The publisher written in TypeScript: the control line to the broker,    *)
(* with its RetryContext, and the TcpSession behind each NewTunnel message. *)
(* One event loop runs every callback to its end, so an action is one      *)
(* callback.  What interleaves are the events of websockets and sockets,   *)
(* the answers of the authority, and timers.                               *)
(*                                                                         *)
(* A socket or websocket that fails, is closed or is destroyed is "ending"  *)
(* until its one 'close' event is delivered.                               *)
(***************************************************************************)
EXTENDS Naturals, FiniteSets

CONSTANTS
    Session,        \* tunnels the broker asks for
    MaxLines        \* bound: websockets created

ASSUME NodePublisherAssumption == MaxLines \in Nat \ {0}

Line == 1 .. MaxLines

MaxTime == 60       \* RetryContext: maxTime, in seconds

VARIABLES
    chunked,        \* may the authority's token arrive in two 'data' events?  (never changes)
    process,        \* "up", or how the process ended
    token,          \* the answer to the constructor's authentication request
    shallDie,
    ws,             \* the websocket this.ws refers to, 0 before the first
    line,           \* the state of each websocket
    retries,        \* timers of the RetryContext that are not due yet
    currentTime,    \* its delay
    parts,          \* history: the 'data' events of the authority's token
    thrown,         \* history: how often new WebSocket threw
    signing,        \* tunnels whose token the authority is asked to sign
    stray,          \* the same for a port that has no service
    sessions,       \* tcpSessions of the services
    remote, local,  \* the two sockets of each session
    written,        \* is the write of the token to the remote socket outstanding?
    remoteTimer,    \* sessions with the timer of their remote socket's close running
    localTimer,     \* and of the local one's
    anyCloseWasCalled

vars == <<chunked, process, token, shallDie, ws, line, retries, currentTime, parts, thrown,
          signing, stray, sessions, remote, local, written, remoteTimer, localTimer, anyCloseWasCalled>>

history == <<parts, thrown>>
lines   == <<ws, line, retries, currentTime, history>>
asked   == <<signing, stray>>
timers  == <<remoteTimer, localTimer>>
tunnels == <<sessions, remote, local, written, timers, anyCloseWasCalled>>

States == {"none", "connecting", "open", "ending", "closed"}
Alive  == {"connecting", "open"}

TypeOK ==
    /\ chunked \in BOOLEAN
    /\ process \in {"up", "exited", "threw"}
    /\ token \in {"asked", "partial", "received"}
    /\ shallDie \in BOOLEAN
    /\ ws \in 0 .. MaxLines
    /\ line \in [Line -> States]
    /\ retries \in 0 .. MaxLines
    /\ currentTime \in 1 .. MaxTime
    /\ parts \in 0 .. 2 /\ thrown \in 0 .. parts
    /\ signing \subseteq Session
    /\ stray \in BOOLEAN
    /\ sessions \subseteq Session
    /\ remote \in [Session -> States] /\ local \in [Session -> States]
    /\ written \in [Session -> {"no", "writing", "done"}]
    /\ remoteTimer \subseteq Session /\ localTimer \subseteq Session
    /\ anyCloseWasCalled \subseteq Session

Init ==
    /\ chunked \in BOOLEAN
    /\ process = "up"
    /\ token = "asked"
    /\ shallDie = FALSE
    /\ ws = 0
    /\ line = [w \in Line |-> "none"]
    /\ retries = 0 /\ currentTime = 1
    /\ parts = 0 /\ thrown = 0
    /\ signing = {} /\ stray = FALSE
    /\ sessions = {}
    /\ remote = [s \in Session |-> "none"] /\ local = [s \in Session |-> "none"]
    /\ written = [s \in Session |-> "no"]
    /\ remoteTimer = {} /\ localTimer = {}
    /\ anyCloseWasCalled = {}

Up == process = "up"

-----------------------------------------------------------------------------
(* The control line                                                         *)

\* A new websocket, unless the publisher is being stopped.  When its constructor
\* throws that is logged, and there is neither a websocket nor a retry.
Connect ==
    \/ /\ shallDie
       /\ UNCHANGED <<ws, line, thrown>>
    \/ /\ ~shallDie /\ ws < MaxLines
       /\ ws' = ws + 1
       /\ line' = [line EXCEPT ![ws + 1] = "connecting"]
       /\ UNCHANGED thrown
    \/ /\ ~shallDie
       /\ thrown' = thrown + 1
       /\ UNCHANGED <<ws, line>>

\* The authentication request fails or is refused.
AuthenticationFails ==
    /\ Up /\ token = "asked"
    /\ process' = "exited"
    /\ UNCHANGED <<chunked, token, shallDie, lines, asked, tunnels>>

\* A 'data' event of its answer, which may be one of two, starts a connection.
TokenReceived ==
    /\ Up /\ token # "received"
    /\ token' \in IF chunked /\ token = "asked" THEN {"partial", "received"} ELSE {"received"}
    /\ parts' = parts + 1
    /\ Connect
    /\ UNCHANGED <<chunked, process, shallDie, retries, currentTime, asked, tunnels>>

\* 'open': the delay is reset and the handshake sent, on this.ws.  Sending on a
\* websocket that is still connecting throws.
LineOpens(w) ==
    /\ Up /\ line[w] = "connecting"
    /\ line' = [line EXCEPT ![w] = "open"]
    /\ currentTime' = 1
    /\ process' = IF ws # w /\ line[ws] = "connecting" THEN "threw" ELSE "up"
    /\ UNCHANGED <<chunked, token, shallDie, ws, retries, history, asked, tunnels>>

\* Mutant of LineFails: the handler of 'error' retries as the one of 'close' does.
LineFailsAndRetries(w) ==
    /\ Up /\ line[w] \in Alive
    /\ line' = [line EXCEPT ![w] = "ending"]
    /\ retries' = IF shallDie THEN retries ELSE retries + 1
    /\ UNCHANGED <<chunked, process, token, shallDie, ws, currentTime, history, asked, tunnels>>

\* The connection is refused, lost or closed by the broker; 'error' only logs.
LineFails(w) ==
    /\ Up /\ line[w] \in Alive
    /\ line' = [line EXCEPT ![w] = "ending"]
    /\ UNCHANGED <<chunked, process, token, shallDie, ws, retries, currentTime, history, asked,
                   tunnels>>

\* 'close': RetryContext.retry, unless the publisher is being stopped.
LineCloses(w) ==
    /\ Up /\ line[w] = "ending"
    /\ line' = [line EXCEPT ![w] = "closed"]
    /\ IF shallDie
         THEN UNCHANGED <<retries, currentTime>>
         ELSE /\ retries' = retries + 1
              /\ currentTime' = IF 2 * currentTime > MaxTime THEN MaxTime ELSE 2 * currentTime
    /\ UNCHANGED <<chunked, process, token, shallDie, ws, history, asked, tunnels>>

\* The retry's timer expires.
Retry ==
    /\ Up /\ retries > 0
    /\ retries' = retries - 1
    /\ Connect
    /\ UNCHANGED <<chunked, process, token, shallDie, currentTime, parts, asked, tunnels>>

-----------------------------------------------------------------------------
(* TcpSession                                                               *)

\* socket?.end(); socket?.destroy()
Destroyed(sock) == IF sock \in Alive THEN "ending" ELSE sock

\* A NewTunnel message: the authority is asked to sign.  Messages arrive until the
\* websocket is closed.
NewTunnel(s) ==
    /\ Up /\ \E w \in Line : line[w] \in {"open", "ending"}
    /\ s \notin signing /\ remote[s] = "none"
    /\ signing' = signing \union {s}
    /\ UNCHANGED <<chunked, process, token, shallDie, lines, stray, tunnels>>

\* The same for a port without a service: a failure is sent on this.ws, and the
\* authority is asked all the same.
NewTunnelUnknown ==
    /\ Up /\ \E w \in Line : line[w] \in {"open", "ending"}
    /\ IF line[ws] = "connecting"
         THEN process' = "threw" /\ UNCHANGED stray
         ELSE stray' = TRUE /\ UNCHANGED process
    /\ UNCHANGED <<chunked, token, shallDie, lines, signing, tunnels>>

\* The authority refuses or cannot be reached.
SigningFails ==
    /\ Up /\ (signing # {} \/ stray)
    /\ process' = "exited"
    /\ UNCHANGED <<chunked, token, shallDie, lines, asked, tunnels>>

\* services[hiddenPort] is undefined.
StraySigned ==
    /\ Up /\ stray
    /\ process' = "threw"
    /\ UNCHANGED <<chunked, token, shallDie, lines, asked, tunnels>>

\* createSession connects to the broker.
CreateSession(s) ==
    /\ Up /\ s \in signing
    /\ signing' = signing \ {s}
    /\ sessions' = sessions \union {s}
    /\ remote' = [remote EXCEPT ![s] = "connecting"]
    /\ UNCHANGED <<chunked, process, token, shallDie, lines, stray, local, written, timers,
                   anyCloseWasCalled>>

RemoteConnects(s) ==
    /\ Up /\ remote[s] = "connecting"
    /\ remote' = [remote EXCEPT ![s] = "open"]
    /\ written' = [written EXCEPT ![s] = "writing"]
    /\ UNCHANGED <<chunked, process, token, shallDie, lines, asked, sessions, local, timers,
                   anyCloseWasCalled>>

\* The write's callback, which looks at no error, connects to the hidden service.
TokenWritten(s) ==
    /\ Up /\ written[s] = "writing"
    /\ written' = [written EXCEPT ![s] = "done"]
    /\ local' = [local EXCEPT ![s] = "connecting"]
    /\ UNCHANGED <<chunked, process, token, shallDie, lines, asked, sessions, remote, timers,
                   anyCloseWasCalled>>

\* Both ends are piped into each other.
LocalConnects(s) ==
    /\ Up /\ local[s] = "connecting"
    /\ local' = [local EXCEPT ![s] = "open"]
    /\ UNCHANGED <<chunked, process, token, shallDie, lines, asked, sessions, remote, written,
                   timers, anyCloseWasCalled>>

\* A socket fails, or its peer closes it.
SocketFails(s) ==
    /\ Up
    /\ \/ /\ remote[s] \in Alive
          /\ remote' = [remote EXCEPT ![s] = "ending"]
          /\ UNCHANGED local
       \/ /\ local[s] \in Alive
          /\ local' = [local EXCEPT ![s] = "ending"]
          /\ UNCHANGED remote
    /\ UNCHANGED <<chunked, process, token, shallDie, lines, asked, sessions, written, timers,
                   anyCloseWasCalled>>

\* Mutant of RemoteCloses: no timer, the local socket is left to close by itself.
RemoteClosesQuietly(s) ==
    /\ Up /\ remote[s] = "ending"
    /\ remote' = [remote EXCEPT ![s] = "closed"]
    /\ UNCHANGED <<chunked, process, token, shallDie, lines, asked, sessions, local, written,
                   timers, anyCloseWasCalled>>

\* 'close' of the remote socket.
RemoteCloses(s) ==
    /\ Up /\ remote[s] = "ending"
    /\ remote' = [remote EXCEPT ![s] = "closed"]
    /\ remoteTimer' = remoteTimer \union {s}
    /\ UNCHANGED <<chunked, process, token, shallDie, lines, asked, sessions, local, written,
                   localTimer, anyCloseWasCalled>>

\* 'close' of the local socket.
LocalCloses(s) ==
    /\ Up /\ local[s] = "ending"
    /\ local' = [local EXCEPT ![s] = "closed"]
    /\ localTimer' = localTimer \union {s}
    /\ UNCHANGED <<chunked, process, token, shallDie, lines, asked, sessions, remote, written,
                   remoteTimer, anyCloseWasCalled>>

\* onAnyClose frees the session when it is called for the first time.
OnAnyClose(s) ==
    /\ sessions' = sessions \ ({s} \ anyCloseWasCalled)
    /\ anyCloseWasCalled' = anyCloseWasCalled \union {s}

\* Eight seconds after the remote socket closed the local one is destroyed.  The
\* callback of a write on a destroyed socket has run by then.
RemoteTimeout(s) ==
    /\ Up /\ s \in remoteTimer /\ written[s] # "writing"
    /\ remoteTimer' = remoteTimer \ {s}
    /\ local' = [local EXCEPT ![s] = Destroyed(@)]
    /\ OnAnyClose(s)
    /\ UNCHANGED <<chunked, process, token, shallDie, lines, asked, remote, written, localTimer>>

\* Mutant of LocalTimeout: the session is freed of its record, not of its socket.
LocalTimeoutForgets(s) ==
    /\ Up /\ s \in localTimer
    /\ localTimer' = localTimer \ {s}
    /\ OnAnyClose(s)
    /\ UNCHANGED <<chunked, process, token, shallDie, lines, asked, remote, local, written,
                   remoteTimer>>

\* Eight seconds after the local socket closed the remote one is.
LocalTimeout(s) ==
    /\ Up /\ s \in localTimer
    /\ localTimer' = localTimer \ {s}
    /\ remote' = [remote EXCEPT ![s] = Destroyed(@)]
    /\ OnAnyClose(s)
    /\ UNCHANGED <<chunked, process, token, shallDie, lines, asked, local, written, remoteTimer>>

-----------------------------------------------------------------------------
(* The end                                                                  *)

\* freeAll: every registered session's sockets are destroyed.
FreeAll ==
    /\ sessions' = {}
    /\ remote' = [s \in Session |-> IF s \in sessions THEN Destroyed(remote[s]) ELSE remote[s]]
    /\ local' = [s \in Session |-> IF s \in sessions THEN Destroyed(local[s]) ELSE local[s]]

\* Mutant of Stop: the control line is not closed.
StopLeavesLine ==
    /\ Up /\ ~shallDie
    /\ shallDie' = TRUE
    /\ retries' \in IF chunked /\ retries > 0 THEN {retries - 1, retries} ELSE {0}
    /\ FreeAll
    /\ UNCHANGED <<chunked, process, token, ws, line, currentTime, history, asked, written,
                   timers, anyCloseWasCalled>>

\* stop() on SIGINT.  abort() clears the timer that was started last.  Without a
\* websocket yet, this.ws.close() throws.
Stop ==
    /\ Up /\ ~shallDie
    /\ shallDie' = TRUE
    /\ retries' \in IF chunked /\ retries > 0 THEN {retries - 1, retries} ELSE {0}
    /\ \/ /\ ws = 0
          /\ process' = "threw"
          /\ UNCHANGED <<line, sessions, remote, local>>
       \/ /\ ws # 0
          /\ line' = [line EXCEPT ![ws] = Destroyed(@)]
          /\ FreeAll
          /\ UNCHANGED process
    /\ UNCHANGED <<chunked, token, ws, currentTime, history, asked, written, timers,
                   anyCloseWasCalled>>

\* The process ended; or no websocket is left, all were used or stop was called.
Over ==
    /\ \/ ~Up
       \/ /\ shallDie \/ ws = MaxLines
          /\ \A w \in Line : line[w] \in {"none", "closed"}
    /\ UNCHANGED vars

Next ==
    \/ AuthenticationFails \/ TokenReceived \/ Retry
    \/ \E w \in Line : LineOpens(w) \/ LineFails(w) \/ LineCloses(w)
    \/ NewTunnelUnknown \/ SigningFails \/ StraySigned
    \/ \E s \in Session :
          \/ NewTunnel(s) \/ CreateSession(s)
          \/ RemoteConnects(s) \/ TokenWritten(s) \/ LocalConnects(s) \/ SocketFails(s)
          \/ RemoteCloses(s) \/ LocalCloses(s) \/ RemoteTimeout(s) \/ LocalTimeout(s)
    \/ Stop \/ Over

Spec == Init /\ [][Next]_vars

\* 'close' events, write callbacks and timers come.  Nothing connects or answers
\* that does not want to, and nobody has to stop the publisher.
Fairness ==
    /\ WF_vars(Retry)
    /\ \A w \in Line : WF_vars(LineCloses(w))
    /\ \A s \in Session :
          /\ WF_vars(TokenWritten(s))
          /\ WF_vars(RemoteCloses(s))
          /\ WF_vars(LocalCloses(s))
          /\ WF_vars(RemoteTimeout(s))
          /\ WF_vars(LocalTimeout(s))

FairSpec == Spec /\ Fairness

-----------------------------------------------------------------------------
(* Properties                                                               *)

Gone(sock) == sock \in {"none", "closed"}

\* Each 'data' event of the token keeps one control line going: one websocket that is
\* not closed, or one retry timer, never none and never two, whatever fails and closes
\* in between, until new WebSocket throws: that line is gone for good.  A token in one
\* piece starts one line.
OneLine ==
    Up /\ ~shallDie =>
        /\ Cardinality({w \in Line : ~Gone(line[w])}) + retries + thrown = parts
        /\ ~chunked => parts = IF token = "received" THEN 1 ELSE 0

\* Stopping the publisher ends the control line for good, though a close, a retry or
\* a connection attempt may be under way.
StopEndsLine ==
    ~chunked /\ shallDie ~> ~Up \/ \A w \in Line : Gone(line[w])

\* A session that is no longer registered leaves no socket open: nobody else knows
\* its sockets.  The local one may still be opened by a write callback that comes
\* late, and is then closed after the remote one.
FreedIsReleased ==
    \A s \in Session \ sessions :
        /\ remote[s] \notin Alive
        /\ local[s] \in Alive => remote[s] = "ending" \/ s \in remoteTimer

\* When one socket of a session closes the other does, and the session is freed.
EndsCloseTogether ==
    \A s \in Session :
        remote[s] = "closed" \/ local[s] = "closed"
            ~> ~Up \/ (Gone(remote[s]) /\ Gone(local[s]) /\ s \notin sessions)
=============================================================================
