--------------------------- MODULE ServiceSessions ---------------------------
(***************************************************************************)
(* The publisher's end of the tunnels of one service: publisherpp's        *)
(* Service and ServiceSession.  A NewTunnel message makes the service       *)
(* connect outward, to the broker, write the signed token, connect inward, *)
(* to the published port, and register the pair with a pipe each way.      *)
(*                                                                         *)
(* ServiceSession::close has no lock of its own around it: it looks at     *)
(* "active", shuts the socket down, clears "active" and calls onClose in   *)
(* four steps, so any of the four handlers of a tunnel (two pipes, two     *)
(* timers) may be anywhere in it at once.  onClose and the pairing run     *)
(* under the service's sessionGuard_.                                      *)
(***************************************************************************)
EXTENDS FiniteSets, Sequences

CONSTANTS
    Tunnel,         \* tunnel identifiers of the broker (a bound in TLC's runs)
    None            \* nobody

ASSUME ServiceSessionsAssumption == None \notin Tunnel

End == {"in", "out"}
Handler == {"pipe", "timer"} \X End     \* the pipe that reads from an end, its timer

VARIABLES
    process,        \* "up", or how it ended
    stage,          \* how far createSession got for each tunnel
    guard,          \* the tunnel whose pairing holds sessionGuard_
    sessions,       \* Service::sessions_
    active,         \* ends that are connected and not closed
    shut,           \* ends whose socket was shut down
    pipe,           \* the pipe that reads from an end
    armed,          \* ends with an inactivity timer that has not expired
    fired,          \* ends whose expired timer has its handler queued
    closing         \* what each handler still closes, and where it is in the first

vars == <<process, stage, guard, sessions, active, shut, pipe, armed, fired, closing>>

\* The ends a handler has still to close.
Todos == {<<>>, <<"in">>, <<"out">>, <<"in", "out">>, <<"out", "in">>}

Closings == [todo : Todos, at : {"check", "shutdown", "clear", "notify"}]

Nothing == [todo |-> <<>>, at |-> "check"]

TypeOK ==
    /\ process \in {"up", "threw", "null pipe"}
    /\ stage \in [Tunnel -> {"idle", "token", "paired", "over"}]
    /\ guard \in Tunnel \union {None}
    /\ sessions \subseteq Tunnel
    /\ active \in [Tunnel -> SUBSET End]
    /\ shut \in [Tunnel -> SUBSET End]
    /\ pipe \in [Tunnel -> [End -> {"none", "read", "write", "ended"}]]
    /\ armed \in [Tunnel -> SUBSET End]
    /\ fired \in [Tunnel -> SUBSET End]
    /\ closing \in [Tunnel -> [Handler -> Closings]]

Init ==
    /\ process = "up"
    /\ stage = [t \in Tunnel |-> "idle"]
    /\ guard = None
    /\ sessions = {}
    /\ active = [t \in Tunnel |-> {}] /\ shut = [t \in Tunnel |-> {}]
    /\ pipe = [t \in Tunnel |-> [e \in End |-> "none"]]
    /\ armed = [t \in Tunnel |-> {}] /\ fired = [t \in Tunnel |-> {}]
    /\ closing = [t \in Tunnel |-> [h \in Handler |-> Nothing]]

Up == process = "up"

ends    == <<active, shut>>
timers  == <<armed, fired>>

-----------------------------------------------------------------------------
(* createSession                                                            *)

\* The outward connection is made, or it is refused and nothing comes of the message.
\* Nobody tells the broker.
CreateSession(t) ==
    /\ Up /\ stage[t] = "idle"
    /\ \/ /\ stage' = [stage EXCEPT ![t] = "token"]
          /\ active' = [active EXCEPT ![t] = {"out"}]
       \/ /\ stage' = [stage EXCEPT ![t] = "over"]
          /\ UNCHANGED active
    /\ UNCHANGED <<process, guard, sessions, shut, pipe, timers, closing>>

\* Resolving the broker, or asking the new socket for its peer, throws.  There is no
\* session yet, and the process goes on: the exception unwinds into the read callback
\* of the control line, which does not read again (HandlerThrows of PublisherLine).
OutwardThrows(t) ==
    /\ Up /\ stage[t] = "idle"
    /\ stage' = [stage EXCEPT ![t] = "over"]
    /\ UNCHANGED <<process, guard, sessions, ends, pipe, timers, closing>>

\* The token was not written, or the inward connection failed: the outward session
\* is closed, by its destructor or by name.  onClose finds no pair.
TokenFails(t) ==
    /\ Up /\ stage[t] = "token" /\ guard = None
    /\ stage' = [stage EXCEPT ![t] = "over"]
    /\ active' = [active EXCEPT ![t] = {}]
    /\ shut' = [shut EXCEPT ![t] = {"out"}]
    /\ UNCHANGED <<process, guard, sessions, pipe, timers, closing>>

\* Resolving the hidden host, or asking the new socket for its peer, throws out of
\* the handler and of the pool's thread.
InwardThrows(t) ==
    /\ Up /\ stage[t] = "token"
    /\ process' = "threw"
    /\ UNCHANGED <<stage, guard, sessions, ends, pipe, timers, closing>>

\* Mutant of Emplace: sessionGuard_ is released after the emplace.
EmplaceUnguarded(t) ==
    /\ Up /\ stage[t] = "token" /\ guard = None
    /\ stage' = [stage EXCEPT ![t] = "paired"]
    /\ sessions' = sessions \union {t}
    /\ active' = [active EXCEPT ![t] = End]
    /\ pipe' = [pipe EXCEPT ![t]["in"] = "read"]
    /\ armed' = [armed EXCEPT ![t] = {"in"}]
    /\ UNCHANGED <<process, guard, shut, fired, closing>>

\* The inward session is there: under sessionGuard_ the pair is registered and the
\* first pipe starts to read, whose handler may run before the second pipe exists.
Emplace(t) ==
    /\ Up /\ stage[t] = "token" /\ guard = None
    /\ stage' = [stage EXCEPT ![t] = "paired"]
    /\ guard' = t
    /\ sessions' = sessions \union {t}
    /\ active' = [active EXCEPT ![t] = End]
    /\ pipe' = [pipe EXCEPT ![t]["in"] = "read"]
    /\ armed' = [armed EXCEPT ![t] = {"in"}]
    /\ UNCHANGED <<process, shut, fired, closing>>

\* The second pipe starts, on a session that may be closed by now; the guard goes.
PipeOutward(t) ==
    /\ Up /\ stage[t] = "paired" /\ pipe[t]["out"] = "none"
    /\ guard' = None
    /\ pipe' = [pipe EXCEPT ![t]["out"] = "read"]
    /\ armed' = [armed EXCEPT ![t] = @ \union {"out"}]
    /\ UNCHANGED <<process, stage, sessions, ends, fired, closing>>

-----------------------------------------------------------------------------
(* Pipes and timers                                                         *)

Other(e) == IF e = "in" THEN "out" ELSE "in"

Idle(t, h) == closing[t][h].todo = <<>>

Start(t, h, list) ==
    closing' = [closing EXCEPT ![t][h] = [todo |-> list, at |-> "check"]]

\* Bytes were read: both timers start again, also that of a closed session, and
\* the bytes are written.
PipeData(t, e) ==
    /\ Up /\ t \in sessions /\ pipe[t][e] = "read"
    /\ pipe' = [pipe EXCEPT ![t][e] = "write"]
    /\ armed' = [armed EXCEPT ![t] = End]
    /\ UNCHANGED <<process, stage, guard, sessions, ends, fired, closing>>

PipeWritten(t, e) ==
    /\ Up /\ t \in sessions /\ pipe[t][e] = "write"
    /\ pipe' = [pipe EXCEPT ![t][e] = "read"]
    /\ armed' = [armed EXCEPT ![t] = End]
    /\ UNCHANGED <<process, stage, guard, sessions, ends, fired, closing>>

\* Mutant of PipeEnds: only the end that was read from is closed.
PipeEndsAlone(t, e) ==
    /\ Up /\ t \in sessions /\ pipe[t][e] \in {"read", "write"}
    /\ pipe' = [pipe EXCEPT ![t][e] = "ended"]
    /\ armed' = [armed EXCEPT ![t] = End]
    /\ Start(t, <<"pipe", e>>, <<e>>)
    /\ UNCHANGED <<process, stage, guard, sessions, ends, fired>>

\* End of stream, an error, or retries used up: the pipe closes both sessions.
PipeEnds(t, e) ==
    /\ Up /\ t \in sessions /\ pipe[t][e] \in {"read", "write"}
    /\ pipe' = [pipe EXCEPT ![t][e] = "ended"]
    /\ armed' = [armed EXCEPT ![t] = End]
    /\ Start(t, <<"pipe", e>>, <<e, Other(e)>>)
    /\ UNCHANGED <<process, stage, guard, sessions, ends, fired>>

TimerExpires(t, e) ==
    /\ Up /\ e \in armed[t] /\ t \in sessions
    /\ armed' = [armed EXCEPT ![t] = @ \ {e}]
    /\ fired' = [fired EXCEPT ![t] = @ \union {e}]
    /\ UNCHANGED <<process, stage, guard, sessions, ends, pipe, closing>>

\* The timer's handler closes its session, without a look at the deadline, which
\* may have moved since.  (Expiries are 30 s apart: the one before is through.)
TimerRuns(t, e) ==
    /\ Up /\ e \in fired[t] /\ Idle(t, <<"timer", e>>)
    /\ fired' = [fired EXCEPT ![t] = @ \ {e}]
    /\ IF t \in sessions THEN Start(t, <<"timer", e>>, <<e>>) ELSE UNCHANGED closing
    /\ UNCHANGED <<process, stage, guard, sessions, ends, pipe, armed>>

-----------------------------------------------------------------------------
(* ServiceSession::close, for the first of a handler's "todo"               *)

At(t, h, at) == ~Idle(t, h) /\ closing[t][h].at = at

Closing(t, h) == Head(closing[t][h].todo)

Goto(t, h, at) == closing' = [closing EXCEPT ![t][h].at = at]

Done(t, h) == Start(t, h, Tail(closing[t][h].todo))

Check(t, h) ==
    /\ Up /\ At(t, h, "check")
    /\ IF Closing(t, h) \in active[t] THEN Goto(t, h, "shutdown") ELSE Done(t, h)
    /\ UNCHANGED <<process, stage, guard, sessions, ends, pipe, timers>>

ShutDown(t, h) ==
    /\ Up /\ At(t, h, "shutdown")
    /\ shut' = [shut EXCEPT ![t] = @ \union {Closing(t, h)}]
    /\ Goto(t, h, "clear")
    /\ UNCHANGED <<process, stage, guard, sessions, active, pipe, timers>>

\* Mutant of Clear: onClose is called before "active" is cleared, and so in vain.
ClearLast(t, h) ==
    /\ Up /\ At(t, h, "clear")
    /\ active' = [active EXCEPT ![t] = @ \ {Closing(t, h)}]
    /\ Done(t, h)
    /\ UNCHANGED <<process, stage, guard, sessions, shut, pipe, timers>>

Clear(t, h) ==
    /\ Up /\ At(t, h, "clear")
    /\ active' = [active EXCEPT ![t] = @ \ {Closing(t, h)}]
    /\ Goto(t, h, "notify")
    /\ UNCHANGED <<process, stage, guard, sessions, shut, pipe, timers>>

\* Mutant of Notify: either end is enough.
NotifyEither(t, h) ==
    /\ Up /\ At(t, h, "notify") /\ guard = None
    /\ IF t \in sessions /\ active[t] # End
         THEN /\ sessions' = sessions \ {t}
              /\ stage' = [stage EXCEPT ![t] = "over"]
              /\ armed' = [armed EXCEPT ![t] = {}]
         ELSE UNCHANGED <<sessions, stage, armed>>
    /\ Done(t, h)
    /\ UNCHANGED <<process, guard, ends, pipe, fired>>

\* onClose, under sessionGuard_: once neither end is active the pipes are closed
\* (which finds both ends closed) and the pair is erased.
Notify(t, h) ==
    /\ Up /\ At(t, h, "notify") /\ guard = None
    /\ IF t \in sessions /\ active[t] = {}
         THEN IF pipe[t]["out"] = "none"
                THEN process' = "null pipe" /\ UNCHANGED <<sessions, stage, armed>>
                ELSE /\ sessions' = sessions \ {t}
                     /\ stage' = [stage EXCEPT ![t] = "over"]
                     /\ armed' = [armed EXCEPT ![t] = {}]
                     /\ UNCHANGED process
         ELSE UNCHANGED <<process, sessions, stage, armed>>
    /\ Done(t, h)
    /\ UNCHANGED <<guard, ends, pipe, fired>>

CloseStep(t, h) == Check(t, h) \/ ShutDown(t, h) \/ Clear(t, h) \/ Notify(t, h)

\* The process ended, or every tunnel did and its handlers are through.
Over ==
    /\ \/ ~Up
       \/ \A t \in Tunnel : /\ stage[t] = "over" /\ fired[t] = {}
                            /\ \A h \in Handler : Idle(t, h)
    /\ UNCHANGED vars

Next ==
    \/ \E t \in Tunnel :
          \/ CreateSession(t) \/ OutwardThrows(t) \/ TokenFails(t) \/ InwardThrows(t)
          \/ Emplace(t) \/ PipeOutward(t)
          \/ \E e \in End :
                \/ PipeData(t, e) \/ PipeWritten(t, e) \/ PipeEnds(t, e)
                \/ TimerExpires(t, e) \/ TimerRuns(t, e)
          \/ \E h \in Handler : CloseStep(t, h)
    \/ Over

Spec == Init /\ [][Next]_vars

\* Handlers that run go on.  What a socket that was shut down has still to deliver
\* is finite, so reading it again and again comes to its end (strong fairness).  No
\* peer is obliged to send or to hang up, and no timer to expire.
Fairness ==
    \A t \in Tunnel :
        /\ WF_vars(PipeOutward(t))
        /\ \A e \in End :
              /\ SF_vars(e \in shut[t] /\ pipe[t][e] = "read" /\ PipeEnds(t, e))
              /\ WF_vars(pipe[t][e] = "write" /\ (PipeWritten(t, e) \/ PipeEnds(t, e)))
        /\ \A h \in Handler : WF_vars(CloseStep(t, h))

FairSpec == Spec /\ Fairness

-----------------------------------------------------------------------------
(* Properties                                                               *)

\* A pair with both ends closed does not stay registered: some handler still has
\* its onClose to come, however the four of them share the two closes.
NoDeadPairStays ==
    \A t \in sessions : Up /\ active[t] = {} => \E h \in Handler : At(t, h, "notify")

\* onClose finds both pipes of the pair it dissolves, also when the first pipe
\* ends before the second was made.
PipesAreThere == process # "null pipe"

\* How the pair of connections looks from outside: a process that ended has none.
Made(t) ==
    CASE ~Up -> "over"
      [] Up /\ stage[t] = "idle" -> "not"
      [] Up /\ stage[t] = "token" -> "half"
      [] Up /\ stage[t] = "paired" -> "pair"
      [] Up /\ stage[t] = "over" -> "over"

Open(t) == IF Up THEN active[t] ELSE {}

Ends == INSTANCE PublisherEnds WITH
    made <- [t \in Tunnel |-> Made(t)],
    open <- [t \in Tunnel |-> Open(t)]

\* However its two pipes and two timers share the closing, each connection of a pair
\* closes once, and onClose forgets the pair when both have closed, not before.
KeepsEnds == Ends!Spec

\* When one end closes the whole pair goes.
EndsCloseTogether ==
    \A t \in Tunnel :
        (t \in sessions /\ active[t] # End) ~> ~Up \/ t \notin sessions
=============================================================================
