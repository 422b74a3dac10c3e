---------------------------- MODULE TunnelService ----------------------------
(***************************************************************************)
(* One Service of the broker (a public port) with its tunnel sides:        *)
(* brokerpp's Service, TunnelSession and the PipeOperation between two     *)
(* sides.  A connection accepted on the port is a side of unknown kind; it *)
(* is peeked at.  A subscriber makes the broker ask the publisher for a    *)
(* connection of its own, which arrives on the same port, says by a signed *)
(* token which side it answers, and is linked to it.                       *)
(*                                                                         *)
(* One action is one completion handler, run on any of 16 threads.  A      *)
(* close is two steps, as in the code: TunnelSession::close marks the side *)
(* under closeLock, then takes the service's sessionGuard to erase it from *)
(* the registry.  What closeLock and sessionGuard do to each other is      *)
(* CloseLocks' subject.                                                    *)
(***************************************************************************)
EXTENDS FiniteSets

CONSTANTS
    Tunnel,         \* identifiers the service can hand out (a bound in TLC's runs)
    Subscriber,     \* the origin of a connection a subscriber dialled
    None            \* no origin, no peer

ASSUME TunnelServiceAssumption ==
    /\ Subscriber \notin Tunnel
    /\ None \notin Tunnel
    /\ Subscriber # None

VARIABLES
    broker,         \* the process: "up", or how it ended
    service,        \* "running", "detached" from the Publisher's map, "gone"
    acceptor,       \* "accepting", "idle" (no accept pending), "closed"
    control,        \* is the control session the sides refer to alive?
    sessions,       \* the registry Service::Implementation::sessions
    closed,         \* sides with wasClosed set
    erasing,        \* sides whose close has yet to erase them from the registry
    armed,          \* sides with an inactivity timer that has not expired
    fired,          \* sides whose expired timer has its handler queued
    phase,          \* what the side's next handler is
    pipe,           \* the PipeOperation that reads from this side
    origin,         \* who dialled: Subscriber, or the side the token names
    peer,           \* the other side, once linked
    requests,       \* NewTunnel messages the publisher has not answered
    dialing,        \* sides for which the publisher is connecting
    links           \* history: every <<client, publisher>> ever linked

vars == <<broker, service, acceptor, control, sessions, closed, erasing, armed,
          fired, phase, pipe, origin, peer, requests, dialing, links>>

timers  == <<armed, fired>>
world   == <<requests, dialing>>
owner   == <<service, acceptor, control>>

Phases == {"unused",    \* not accepted yet
           "peek",      \* the first read is outstanding
           "connect",   \* the token was accepted, connectTunnels is next
           "waiting",   \* a subscriber's side, the publisher was asked
           "linked",    \* link was called for this side
           "done",      \* no handler of its own will run any more
           "dead"}      \* destroyed

Pipes == {"none",       \* no PipeOperation
          "first",      \* link's write of the peeked bytes is outstanding
          "read",       \* a read from this side is outstanding
          "write",      \* a write of what was read is outstanding
          "stalled"}    \* the operation exists and nothing is outstanding

TypeOK ==
    /\ broker \in {"up", "erased twice", "endpoint threw"}
    /\ service \in {"running", "detached", "gone"}
    /\ acceptor \in {"accepting", "idle", "closed"}
    /\ control \in BOOLEAN
    /\ sessions \subseteq Tunnel
    /\ closed \subseteq Tunnel
    /\ erasing \subseteq Tunnel
    /\ armed \subseteq Tunnel
    /\ fired \subseteq Tunnel
    /\ phase \in [Tunnel -> Phases]
    /\ pipe \in [Tunnel -> Pipes]
    /\ origin \in [Tunnel -> Tunnel \union {None, Subscriber}]
    /\ peer \in [Tunnel -> Tunnel \union {None}]
    /\ requests \subseteq Tunnel
    /\ dialing \subseteq Tunnel
    /\ links \subseteq Tunnel \X Tunnel

Init ==
    /\ broker = "up"
    /\ service = "running"
    /\ acceptor = "accepting"
    /\ control = TRUE
    /\ sessions = {} /\ closed = {} /\ erasing = {}
    /\ armed = {} /\ fired = {}
    /\ phase = [t \in Tunnel |-> "unused"]
    /\ pipe = [t \in Tunnel |-> "none"]
    /\ origin = [t \in Tunnel |-> None]
    /\ peer = [t \in Tunnel |-> None]
    /\ requests = {} /\ dialing = {}
    /\ links = {}

-----------------------------------------------------------------------------
(* Ownership: the registry and the handlers that captured a shared_ptr keep *)
(* a side alive; timers, peek reads and pipes hold a weak_ptr.              *)

Live(t) == phase[t] \notin {"unused", "dead"}

HasPipe(t) == pipe[t] \in {"read", "write", "stalled"}

Referenced(t) ==
    \/ t \in sessions
    \/ t \in erasing                            \* inside its own close
    \/ phase[t] = "connect"                     \* the peek handler's self
    \/ pipe[t] = "first"                        \* link's self ...
    \/ \E c \in Tunnel : peer[c] = t /\ pipe[c] = "first"     \* ... and otherSelf

\* The sides a close of t closes: t, and what its PipeOperation can still lock.
Reach(t) ==
    IF t \in closed THEN {}
    ELSE {t} \union {u \in Tunnel \ closed : HasPipe(t) /\ peer[t] = u /\ Referenced(u)}

\* TunnelSession::close up to the registry: the flag, the timer, the pipe.
Shut(S) ==
    /\ closed' = closed \union S
    /\ armed' = armed \ S
    /\ erasing' = IF service = "gone" THEN erasing ELSE erasing \union S
    /\ pipe' = [u \in Tunnel |-> IF u \in S /\ HasPipe(u) THEN "none" ELSE pipe[u]]

Close(t) == Shut(Reach(t))

\* resetTimer does nothing on a closed side, and a weak_ptr must still lock.
ResetTimer(S) ==
    armed' = armed \union {u \in S \ closed : Referenced(u)}

-----------------------------------------------------------------------------
(* The acceptor                                                            *)

Up == broker = "up"

\* Mutant of AcceptTunnel: peek() without its resetTimer().
AcceptUntimed(t, o) ==
    /\ Up /\ acceptor = "accepting" /\ service # "gone" /\ control
    /\ phase[t] = "unused"
    /\ o \in {Subscriber} \union dialing
    /\ sessions' = sessions \union {t}
    /\ phase' = [phase EXCEPT ![t] = "peek"]
    /\ origin' = [origin EXCEPT ![t] = o]
    /\ dialing' = dialing \ {o}
    /\ UNCHANGED <<broker, owner, closed, erasing, timers, pipe, peer, requests, links>>

\* async_accept's handler.  With a live control session the connection becomes
\* a side that is registered, peeked at and timed, and the acceptor is re-armed.
AcceptTunnel(t, o) ==
    /\ Up /\ acceptor = "accepting" /\ service # "gone" /\ control
    /\ phase[t] = "unused"
    /\ o \in {Subscriber} \union dialing
    /\ sessions' = sessions \union {t}
    /\ phase' = [phase EXCEPT ![t] = "peek"]
    /\ origin' = [origin EXCEPT ![t] = o]
    /\ armed' = armed \union {t}
    /\ dialing' = dialing \ {o}
    /\ UNCHANGED <<broker, owner, closed, erasing, fired, pipe, peer, requests, links>>

\* Without one the connection is dropped and accept is not re-armed.
AcceptRefused(o) ==
    /\ Up /\ acceptor = "accepting" /\ service # "gone" /\ ~control
    /\ o \in {Subscriber} \union dialing
    /\ acceptor' = "idle"
    /\ dialing' = dialing \ {o}
    /\ UNCHANGED <<broker, service, control, sessions, closed, erasing, timers,
                   phase, pipe, origin, peer, requests, links>>

\* The peer reset the connection before the handler ran: remote_endpoint() throws
\* in TunnelSession's constructor, out of the handler and of the pool's thread.
AcceptThrows ==
    /\ Up /\ acceptor = "accepting" /\ service # "gone" /\ control
    /\ broker' = "endpoint threw"
    /\ UNCHANGED <<owner, sessions, closed, erasing, timers, phase, pipe, origin,
                   peer, world, links>>

-----------------------------------------------------------------------------
(* The first read of a side: TunnelSession::peek's handler                  *)

\* The read failed, the control session is gone, or the token is not valid: it is
\* another's, or was cut short behind the prefix.
PeekFails(t) ==
    /\ Up /\ phase[t] = "peek" /\ Referenced(t)
    /\ Close(t)
    /\ phase' = [phase EXCEPT ![t] = "done"]
    /\ UNCHANGED <<broker, owner, sessions, fired, origin, peer, world, links>>

\* The publisher is asked for a tunnel, unless the service is no longer in its map.
InformAboutConnection(t) ==
    requests' = IF service = "running" THEN requests \union {t} ELSE requests

\* What the one read returned does not start with the prefix: a subscriber, or a
\* publisher's connection whose first bytes are fewer than the prefix.
PeekClient(t) ==
    /\ Up /\ phase[t] = "peek" /\ Referenced(t) /\ control /\ service # "gone"
    /\ phase' = [phase EXCEPT ![t] = "waiting"]
    /\ InformAboutConnection(t)
    /\ UNCHANGED <<broker, owner, sessions, closed, erasing, timers, pipe, origin,
                   peer, dialing, links>>

\* The one read returned the whole token, and it is the publisher's.
PeekToken(t) ==
    /\ Up /\ phase[t] = "peek" /\ Referenced(t) /\ control /\ service # "gone"
    /\ origin[t] \in Tunnel
    /\ phase' = [phase EXCEPT ![t] = "connect"]
    /\ UNCHANGED <<broker, owner, sessions, closed, erasing, timers, pipe, origin,
                   peer, world, links>>

-----------------------------------------------------------------------------
(* Service::connectTunnels, under sessionGuard                              *)

\* Mutant of CloseTunnelSide: wasPreclosed has the wrong default, nothing is closed.
EraseWithoutClose(u) ==
    /\ sessions' = sessions \ {u}
    /\ UNCHANGED <<broker, closed, armed, erasing, pipe>>

\* closeTunnelSide(u) with wasPreclosed = false.  The iterator to u's entry is
\* taken first; close() of an open side re-enters closeTunnelSide and erases the
\* entry, and erasing through the iterator a second time is undefined.
CloseTunnelSide(u) ==
    \/ /\ u \notin sessions
       /\ UNCHANGED <<broker, sessions, closed, armed, erasing, pipe>>
    \/ /\ u \in sessions /\ u \in closed
       /\ sessions' = sessions \ {u}
       /\ UNCHANGED <<broker, closed, armed, erasing, pipe>>
    \/ /\ u \in sessions /\ u \notin closed
       /\ Close(u)
       /\ sessions' = sessions \ {u}
       /\ broker' \in {"up", "erased twice"}

\* Mutant of Link: a side remembers who dialled it in place of its other end.
LinkToOrigin(c, p) ==
    /\ pipe' = [pipe EXCEPT ![c] = "first", ![p] = "read"]
    /\ peer' = [peer EXCEPT ![c] = origin[c], ![p] = origin[p]]
    /\ phase' = [phase EXCEPT ![c] = "linked", ![p] = "linked"]
    /\ links' = links \union {<<c, p>>}
    /\ UNCHANGED <<broker, sessions, closed, armed, erasing>>

\* c.link(p): the bytes peeked from c are written to p, and p is piped to c.
Link(c, p) ==
    /\ pipe' = [pipe EXCEPT ![c] = "first", ![p] = "read"]
    /\ peer' = [peer EXCEPT ![c] = p, ![p] = c]
    /\ phase' = [phase EXCEPT ![c] = "linked", ![p] = "linked"]
    /\ links' = links \union {<<c, p>>}
    /\ UNCHANGED <<broker, sessions, closed, armed, erasing>>

\* Mutant of ConnectTunnels: any client that waits is taken, not the token's.
ConnectAnyWaiting(p) ==
    /\ Up /\ phase[p] = "connect"
    /\ \E c \in sessions : phase[c] = "waiting" /\ Link(c, p)
    /\ UNCHANGED <<owner, fired, origin, world>>

ConnectTunnels(p) ==
    /\ Up /\ phase[p] = "connect"
    /\ \/ /\ origin[p] \notin sessions
          /\ CloseTunnelSide(p)
          /\ phase' = [phase EXCEPT ![p] = "done"]
          /\ UNCHANGED <<peer, links>>
       \/ /\ origin[p] \in sessions /\ p \notin sessions
          /\ CloseTunnelSide(origin[p])
          /\ phase' = [phase EXCEPT ![p] = "done"]
          /\ UNCHANGED <<peer, links>>
       \/ /\ {origin[p], p} \subseteq sessions
          /\ Link(origin[p], p)
    /\ UNCHANGED <<owner, fired, origin, world>>

-----------------------------------------------------------------------------
(* Linked sides: link's first write and the two PipeOperations              *)

\* The peeked bytes were written: the pipe starts, on a closed side too.
FirstWritten(c) ==
    /\ Up /\ pipe[c] = "first"
    /\ pipe' = [pipe EXCEPT ![c] = "read"]
    /\ UNCHANGED <<broker, owner, sessions, closed, erasing, timers, phase, origin,
                   peer, world, links>>

\* Mutant of FirstWriteFails: otherSelf->close() is forgotten.
FirstWriteClosesSelf(c) ==
    /\ Up /\ pipe[c] = "first"
    /\ closed' = closed \union {c}
    /\ armed' = armed \ {c}
    /\ erasing' = IF service = "gone" THEN erasing ELSE erasing \union ({c} \ closed)
    /\ pipe' = [pipe EXCEPT ![c] = "none"]
    /\ UNCHANGED <<broker, owner, sessions, fired, phase, origin, peer, world, links>>

\* They were not: both sides are closed.
FirstWriteFails(c) ==
    /\ Up /\ pipe[c] = "first"
    /\ LET S == Reach(c) \union Reach(peer[c]) IN
       /\ closed' = closed \union S
       /\ armed' = armed \ S
       /\ erasing' = IF service = "gone" THEN erasing ELSE erasing \union S
       /\ pipe' = [u \in Tunnel |->
             IF u = c \/ (u \in S /\ HasPipe(u)) THEN "none" ELSE pipe[u]]
    /\ UNCHANGED <<broker, owner, sessions, fired, phase, origin, peer, world, links>>

\* PipeOperation::read's handler got bytes; write() starts if the other side lives.
PipeData(t) ==
    /\ Up /\ pipe[t] = "read" /\ Referenced(t)
    /\ ResetTimer({t, peer[t]})
    /\ pipe' = [pipe EXCEPT ![t] = IF Referenced(peer[t]) THEN "write" ELSE "stalled"]
    /\ UNCHANGED <<broker, owner, sessions, closed, erasing, fired, phase, origin,
                   peer, world, links>>

\* PipeOperation::write's handler wrote them all and reads again.
PipeWritten(t) ==
    /\ Up /\ pipe[t] = "write" /\ Referenced(t)
    /\ ResetTimer({t, peer[t]})
    /\ pipe' = [pipe EXCEPT ![t] = "read"]
    /\ UNCHANGED <<broker, owner, sessions, closed, erasing, fired, phase, origin,
                   peer, world, links>>

\* End of stream, an error, or too many retries: both sides are closed.
PipeEnd(t) ==
    /\ Up /\ pipe[t] \in {"read", "write"} /\ Referenced(t)
    /\ LET S == {u \in {t, peer[t]} \ closed : Referenced(u)} IN
       /\ closed' = closed \union S
       /\ armed' = armed \ S
       /\ erasing' = IF service = "gone" THEN erasing ELSE erasing \union S
       /\ pipe' = [u \in Tunnel |->
             IF u \in S /\ HasPipe(u) THEN "none" ELSE IF u = t THEN "stalled" ELSE pipe[u]]
    /\ UNCHANGED <<broker, owner, sessions, fired, phase, origin, peer, world, links>>

-----------------------------------------------------------------------------
(* The inactivity timer, the registry and destruction                       *)

\* The deadline passes: asio queues the wait's handler.
DeadlinePasses(t) ==
    /\ Up /\ t \in armed
    /\ armed' = armed \ {t}
    /\ fired' = fired \union {t}
    /\ UNCHANGED <<broker, owner, sessions, closed, erasing, phase, pipe, origin,
                   peer, world, links>>

\* Mutant of InactivityHandler: the comparison of the deadline is inverted.
InactivityInverted(t) ==
    /\ Up /\ t \in fired
    /\ fired' = fired \ {t}
    /\ IF t \in armed /\ Referenced(t)
         THEN Close(t)
         ELSE UNCHANGED <<closed, armed, erasing, pipe>>
    /\ UNCHANGED <<broker, owner, sessions, phase, origin, peer, world, links>>

\* The handler closes the side only if nothing moved the deadline meanwhile.
InactivityHandler(t) ==
    /\ Up /\ t \in fired
    /\ fired' = fired \ {t}
    /\ IF t \notin armed /\ Referenced(t)
         THEN Close(t)
         ELSE UNCHANGED <<closed, armed, erasing, pipe>>
    /\ UNCHANGED <<broker, owner, sessions, phase, origin, peer, world, links>>

\* The second half of close(): closeTunnelSide(t) with wasPreclosed = true.
Erase(t) ==
    /\ Up /\ t \in erasing
    /\ erasing' = erasing \ {t}
    /\ sessions' = sessions \ {t}
    /\ UNCHANGED <<broker, owner, closed, timers, phase, pipe, origin, peer, world, links>>

\* Mutant of Destroy: ~PipeOperation does not close the side it piped to.
DestroyQuietly(t) ==
    /\ Up /\ Live(t) /\ ~Referenced(t)
    /\ closed' = closed \union {t}
    /\ armed' = armed \ {t}
    /\ pipe' = [pipe EXCEPT ![t] = "none"]
    /\ fired' = fired \ {t}
    /\ phase' = [phase EXCEPT ![t] = "dead"]
    /\ UNCHANGED <<broker, owner, sessions, erasing, origin, peer, world, links>>

\* The last shared_ptr is dropped: ~TunnelSession closes, ~PipeOperation closes
\* the side it piped to, also when this one was closed before.
Destroy(t) ==
    /\ Up /\ Live(t) /\ ~Referenced(t)
    /\ LET S == {u \in Tunnel \ closed : HasPipe(t) /\ peer[t] = u /\ Referenced(u)} IN
       /\ closed' = closed \union S \union {t}
       /\ armed' = armed \ (S \union {t})
       /\ erasing' = IF service = "gone" THEN erasing ELSE erasing \union S
       /\ pipe' = [u \in Tunnel |->
             IF u = t \/ (u \in S /\ HasPipe(u)) THEN "none" ELSE pipe[u]]
    /\ fired' = fired \ {t}
    /\ phase' = [phase EXCEPT ![t] = "dead"]
    /\ UNCHANGED <<broker, owner, sessions, origin, peer, world, links>>

-----------------------------------------------------------------------------
(* The owner: control session, Publisher and publisher process              *)

\* The control session is destroyed; what was queued for the publisher is lost.
ControlLost ==
    /\ Up /\ control
    /\ control' = FALSE
    /\ requests' = {}
    /\ UNCHANGED <<broker, service, acceptor, sessions, closed, erasing, timers,
                   phase, pipe, origin, peer, dialing, links>>

\* Mutant of ServicesCleared: detachControlSession is called with eraseServices = false.
ServicesKept ==
    /\ Up /\ service = "running" /\ control
    /\ service' = "detached"
    /\ UNCHANGED <<broker, acceptor, control, sessions, closed, erasing, timers,
                   phase, pipe, origin, peer, world, links>>

\* Publisher::clearServices: this session's destructor, or an older session's.
ServicesCleared ==
    /\ Up /\ service = "running"
    /\ service' = "detached"
    /\ UNCHANGED <<broker, acceptor, control, sessions, closed, erasing, timers,
                   phase, pipe, origin, peer, world, links>>

\* Mutant of ServiceDestroyed: the acceptor's handler keeps the acceptor.
AcceptorKept ==
    /\ Up /\ service = "detached"
    /\ \A t \in Tunnel : phase[t] # "connect"
    /\ service' = "gone"
    /\ sessions' = {}
    /\ UNCHANGED <<broker, acceptor, control, closed, erasing, timers, phase, pipe,
                   origin, peer, world, links>>

\* ~Service, once no peek handler holds it: the acceptor and the registry go.
ServiceDestroyed ==
    /\ Up /\ service = "detached"
    /\ \A t \in Tunnel : phase[t] # "connect"
    /\ service' = "gone"
    /\ acceptor' = "closed"
    /\ sessions' = {}
    /\ UNCHANGED <<broker, control, closed, erasing, timers, phase, pipe, origin,
                   peer, world, links>>

\* Mutant of NewTunnelHandled: the dial is repeated for a message already answered.
NewTunnelRetried(c) ==
    /\ Up /\ c \in requests
    /\ dialing' = dialing \union {c}
    /\ UNCHANGED <<broker, owner, sessions, closed, erasing, timers, phase, pipe,
                   origin, peer, requests, links>>

\* The publisher reads a NewTunnel message: it dials back once, or it cannot.
NewTunnelHandled(c) ==
    /\ Up /\ c \in requests
    /\ requests' = requests \ {c}
    /\ dialing' \in {dialing, dialing \union {c}}
    /\ UNCHANGED <<broker, owner, sessions, closed, erasing, timers, phase, pipe,
                   origin, peer, links>>

DialFails(c) ==
    /\ Up /\ c \in dialing
    /\ dialing' = dialing \ {c}
    /\ UNCHANGED <<broker, owner, sessions, closed, erasing, timers, phase, pipe,
                   origin, peer, requests, links>>

\* The process ended, or the service is gone with everything it owned.
Over ==
    /\ \/ ~Up
       \/ service = "gone" /\ \A t \in Tunnel : ~Live(t)
    /\ UNCHANGED vars

Next ==
    \/ \E t \in Tunnel, o \in {Subscriber} \union dialing : AcceptTunnel(t, o)
    \/ \E o \in {Subscriber} \union dialing : AcceptRefused(o)
    \/ AcceptThrows
    \/ \E t \in Tunnel :
          \/ PeekFails(t) \/ PeekClient(t) \/ PeekToken(t) \/ ConnectTunnels(t)
          \/ FirstWritten(t) \/ FirstWriteFails(t)
          \/ PipeData(t) \/ PipeWritten(t) \/ PipeEnd(t)
          \/ DeadlinePasses(t) \/ InactivityHandler(t) \/ Erase(t) \/ Destroy(t)
          \/ NewTunnelHandled(t) \/ DialFails(t)
    \/ ControlLost \/ ServicesCleared \/ ServiceDestroyed
    \/ Over

Spec == Init /\ [][Next]_vars

-----------------------------------------------------------------------------
(* Fairness.  Handlers that are queued run, and destructors run.  A timer    *)
(* expires on a side that nothing re-arms: one that is not linked yet.  No   *)
(* peer is obliged to send, to answer or to hang up.                         *)

Unlinked(t) == phase[t] \in {"peek", "connect", "waiting"}

Fairness ==
    /\ \A t \in Tunnel :
          /\ WF_vars(ConnectTunnels(t))
          /\ WF_vars(FirstWritten(t) \/ FirstWriteFails(t))
          /\ WF_vars(Unlinked(t) /\ DeadlinePasses(t))
          /\ WF_vars(InactivityHandler(t))
          /\ WF_vars(Erase(t))
          /\ WF_vars(Destroy(t))
    /\ WF_vars(~control /\ ServicesCleared)
    /\ WF_vars(ServiceDestroyed)

FairSpec == Spec /\ Fairness

-----------------------------------------------------------------------------
(* Safety                                                                   *)

\* A tunnel is 1:1 (README, "Tunnel"): a side is linked at most once, on one
\* end, however peeks, dials, closes and link-ups of several sides interleave.
OneToOne ==
    \A k, l \in links :
        /\ k[1] # k[2]
        /\ {k[1], k[2]} \intersect {l[1], l[2]} # {} => k = l

\* The publisher end of a tunnel is the publisher's answer to that very client,
\* whatever the first reads return.  A connection of the publisher whose token was
\* cut short may become a client end itself; then the client it was meant for has
\* lost its tunnel and gets no other: its bytes go nowhere.
AnswersItsClient ==
    \A l \in links :
        /\ origin[l[2]] = l[1]
        /\ \A k \in links : origin[l[1]] \notin {k[1], k[2]}

\* While the service lives its registry holds every open side, so that
\* connectTunnels finds it and destroying the service closes it; and a closed
\* side that is still registered has a close on its way to erase it.
RegistryMatchesSides ==
    service # "gone" =>
        /\ \A t \in Tunnel : Live(t) /\ t \notin closed => t \in sessions
        /\ sessions \intersect closed \subseteq erasing

\* No open side is left without a clock: its timer is armed or its expired
\* timer's handler is queued, so a silent peer cannot pin it.
OpenSidesAreTimed ==
    \A t \in Tunnel :
        Live(t) /\ t \notin closed /\ Referenced(t) => t \in armed \union fired

\* When one end of a tunnel is closed and the other still open, something is
\* left that will close the other: the closed end has a pipe or first write that
\* ends at the open one.
HalfClosedIsTransient ==
    \A l \in links : \A u, v \in {l[1], l[2]} :
        (u # v /\ v \in closed /\ u \notin closed /\ Referenced(u)) =>
            phase[v] = "linked" /\ pipe[v] # "none"

\* closeTunnelSide finds the entry it erases: the iterator taken before close()
\* still refers to the registry when it is used.
EraseIsDefined == broker # "erased twice"

-----------------------------------------------------------------------------
(* The promise, and liveness                                                *)

Promise == INSTANCE Tunnels WITH
    side <- [t \in Tunnel |-> IF phase[t] = "unused" THEN "absent"
                              ELSE IF t \in closed THEN "closed" ELSE "open"],
    pairs <- links

\* The service keeps the promise of Tunnels, step by step.
KeepsPromise == Promise!Spec

\* A connection is linked or closed; it does not wait for ever for bytes that
\* are not sent, a publisher that does not answer or a dial that fails.
SideIsSettled ==
    \A t \in Tunnel :
        Unlinked(t) ~> ~Up \/ phase[t] \notin {"peek", "connect", "waiting"} \/ t \in closed

\* Losing the control session ends every tunnel of the service.
ControlLossEndsTunnels ==
    ~control ~> ~Up \/ \A t \in Tunnel : ~Live(t)
=============================================================================
