# A TLA+ model of Tunnel Drill

Tunnel Drill publishes ports of a machine behind a firewall on a public server.
A **publisher** (`publisherpp/`) keeps a websocket, the control line, to the
**broker** (`brokerpp/`) and announces its **services**. The broker listens on
each service's public port. When a **subscriber** connects there, the broker
asks the publisher over the control line for a connection of its own; the
publisher dials back to the same port, says by a signed token which subscriber
it answers, and the broker joins the two: a **tunnel**.

The modules here model the C++ implementation of both and the TypeScript one of the
publisher (`publisher/`). `src/` has no tests of it, and
what it says of itself beyond the five definitions of its README is in comments
and log messages; the properties below are stated from those and from what the
code evidently relies on. Line numbers are those of the repository as mapped in
`PROJECT.json`.

## 1. Inventory

| Part | State | Operations | Correct when |
|---|---|---|---|
| `Service`, `TunnelSession` (brokerpp/publisher) | registry of sides under `sessionGuard`; per side: socket, timer, `wasClosed` under `closeLock`, peek buffer, pipe | accept, peek, verify token, `connectTunnels`, `link`, inactivity, `close`, `closeTunnelSide`, destruction | a tunnel joins one subscriber with the publisher's answer to it; nothing open is lost, untimed or unregistered; both ends close together |
| `PipeOperation` (sharedpp) | two weak sides, a buffer | read, write with retries, close | bytes arrive as sent |
| `ControlSession`, `Publisher`, `PageAndControlProvider` (brokerpp) | map of control sessions under a mutex; current session and services of a publisher; write queue | upgrade, setup, register, handshake, add service, ping, end of a session | a connected publisher is served, a lost one is not |
| `Publisher` (publisherpp) | `ws_`, reconnect timer and backoff, ping timer, send queue | authenticate, connect, greet, read, ping, send, reconnect | somebody watches the line until a callback throws; a line is greeted unless a send failed |
| `Service`, `ServiceSession` (publisherpp) | registry of pairs under `sessionGuard_`; per end: socket, timer, `active` | `createSession`, token, pairing, `close`, `onClose`, inactivity | a pair is dissolved when both its ends are closed, and only then |
| `StreamParser` (brokerpp/control) | text buffer and memoised search | feed, pop | messages come out as they went in |
| `Dispatcher`, `Subscription` (brokerpp/control) | subscribers by type | dispatch | every message reaches the subscriber of its type |
| authority, user control, authenticator, tokens | files, keys | HTTP handlers, JWT | *not modelled*: stateless; a token is an answer nobody can forge |
| start-up, configuration, logging helpers | | | *not modelled*: straight-line code |
| publisher in TypeScript (`publisher/`, `util/retry.ts`) | websocket, `RetryContext`, `tcpSessions`; per session: two sockets, their close timers, `anyCloseWasCalled` | authenticate, connect, retry, `onNewTunnel`, `createSession`, closes and their timers, `free`, `stop` | one control line or one retry, unless a constructor throws; no socket of a freed session stays open |
| TypeScript broker (`broker/`) | sessions, services | | *not modelled*: the broker the C++ one replaced. It understands a `Services` message and no `Handshake` (`broker/src/publisher.ts:125`), so neither publisher of the repository can use it |
| UDP sessions of the TypeScript publisher | | | *not modelled*: the broker asks for tcp tunnels only (`control_session.cpp:158`) |
| web user interface (`tunnel-control/`, `page_old/`) | | | *not modelled*: presentation |

**How they interact.** All handlers of the broker run on one pool of 16 threads,
those of the publisher on a pool of their own. Timers, reads and pipes hold
`weak_ptr`s; what keeps an object alive is a registry entry or a handler that
captured a `shared_ptr`. So besides the order of handlers it matters which object
still exists when one runs, and destructors act: `~TunnelSession` closes,
`~PipeOperation` closes both of its sides, `~ControlSession` detaches from the
publisher and clears its services.

**What is hard** is listed, with its line and the properties for it, under
`hazards` in `PROJECT.json`: closes that re-enter each other through registry and
pipe; two-step tests of a flag and a lock; control sessions that overlap when a
publisher reconnects; callbacks that act on the websocket of the moment; failed
sends; exceptions that skip what a callback does last; locks taken in opposite
orders; timers whose handler is queued when traffic moves the deadline; reads cut
anywhere; either process ending and starting again while the other keeps what it
had.

## 2. Modules

| Module | What it is |
|---|---|
| `Tunnels` | abstract: sides open and close once; tunnels are 1:1 |
| `TunnelService` | one broker `Service`: sides, links, pipes, timers, ownership. Implements `Tunnels` |
| `CloseLocks`, `CloseLocksProofs` | `closeLock`, `sessionGuard` and the call stacks of close paths |
| `ByteChannel` | abstract: what a direction of a tunnel delivers |
| `Pipe`, `PipeProofs` | `PipeOperation` in both directions, after `link`'s first write. Implements `ByteChannel` |
| `PublisherEnds` | abstract: the publisher's two connections for a tunnel |
| `ServiceSessions`, `ServiceSessionsProofs` | the publisher's pairs of connections. Implements `PublisherEnds` |
| `TunnelPath` | composition: `TunnelService` and `PublisherEnds`, a tunnel across both processes |
| `TunnelProofs` | theorems of `TunnelService` (who is joined with whom; when sides end) and of `TunnelPath` |
| `ControlPlane` | sessions, registry, publisher and services of one identity |
| `PublisherLine`, `PublisherLineProofs` | the publisher's control line |
| `ControlLine` | composition: `ControlPlane` and `PublisherLine`, with the dispatcher and the network between them |
| `ControlLineProofs` | theorems of `ControlPlane` and of `ControlLine` |
| `NodePublisher`, `NodePublisherProofs` | the publisher in TypeScript: control line and sessions |
| `StreamParser`, `StreamParserProofs` | the framing of control messages |
| `MC*` | instances for TLC: symmetry and constants that a cfg cannot write |

An operator that a comment calls a *mutant* is not part of a model. It is a
definition with a plausible bug, which `PROJECT.json` pairs with the property
that fails when it takes the place of the real one.

**TunnelService.** One action is one completion handler. `sessions` is the
registry, `closed` is `wasClosed`, `pipe[t]` the `PipeOperation` that reads from
side `t`, `origin` who dialled. `close()` is two steps as in the code: `Shut`
under `closeLock` (flag, timer, pipe, and through the pipe the other side), then
`Erase` under `sessionGuard`, with the side in `erasing` in between. `Referenced`
says which sides a `weak_ptr` can still lock; a side that nothing references is
destroyed by `Destroy`. The publisher process is `requests`, `dialing` and the
actions on them; that a token cannot be forged is in `origin`: only a dial
answers a request. `peek` decides on what one `async_read_some` returned: a
connection of the publisher is recognised (`PeekToken`), or, with a first read that is
shorter than the prefix, taken for a subscriber's (`PeekClient`), in every run and
theorem.

**CloseLocks.** `TunnelService` takes each close as atomic up to the registry.
This module opens it up: threads with a stack of calls, recursive locks, one lock
a step. What each thread runs is chosen from `Handlers`. `Connect` has the second
erase of `closeTunnelSide`, through an iterator that may be stale by then
(`EraseFound`); the histories `told`, `closer` and `stale` remember who closed a side
and how often it was erased.

**ControlPlane.** A `ControlSession` dies when the map and all running handlers
(`tasks`) let go of it: `Settle` computes that and what the destructor does.
`publisher()` is three steps, as its handlers run: `UpgradeHandler` (the websocket is
accepted, `setup` starts the read loop), `Register`, and, once the handshake is read,
one `AddService` for each port. What can go wrong with a message is there too: what is
answered at once, also with an error, is `Answer`; `addServices` throws midway
(`AddServicesThrows`) and the publisher is told; a subscriber throws
(`ConsumerThrows`), which `onRead` catches, and the session ends itself. `Upgrade` is
`UpgradeHandler` when nothing is known of the other end but whether it overlaps.
`Restart` ends the broker's process, or finds it ended, and starts it again with
nothing. The variable `overlap`, chosen once and for all, says whether the publisher may
be back before the broker noticed the loss of its last connection; this repository's
publisher reconnects a second after its own notice (`publisherpp/publisher.cpp:116`), so
both values are its. The histories `greeted` and `stranded` (sessions registered after
all that would end them had run) forget sessions that are gone.

**PublisherLine.** Every callback acts on `ws_` of the moment, so websockets have
numbers, and reads and sends remember which one they were started on. Nothing is
assumed of the order in which callbacks of older websockets come, and any send on a
websocket that is not open may fail. `HandlerThrows` is an exception out of
`onControlRead`, which skips the next read. The histories `threw` (since `ws_` is the
websocket it is) and `sendFailed` (since the process started) are there for the
properties that these two break. `backoff` is `reconnectTime_`, doubled by each retry up
to `MaxBackoff` (60 in the code) and set back by a connect. `Restart` is the end of
the publisher's process and its start.

`overlap`, `chunked` of `NodePublisher` and `other` of `ControlLine` are variables that no
action changes: one run covers both values, and a property that holds for one of them
says so in its formula (`PublisherIsServedInTurn`, `ServicesMapGuarded`,
`RequestsAreRead`, `OpenLineIsServed`).

**ControlLine.** Here the two ends of the control line meet. The variables of
`ControlPlane` are this module's own, those of `PublisherLine` come through
`P == INSTANCE PublisherLine`; session *s* is the session of websocket *s*. A step
of one end (`Broker(A)`, `Publisher(A)`) leaves the other alone, except that a
websocket the publisher closes is down for the broker. They meet where the
programs do: the broker answers an upgrade, possibly one the publisher has given
up (`UpgradeAnswered`, `ConnectSucceeds`); a message leaves the queue into
`inTransit`, or is lost with its connection (`MessageSent`); the session reads it
and the dispatcher hands it to the subscriber of its type (`MessageRead`,
`Dispatched`), who is `ControlPlane`'s `ReadHandshake` or `Answer`, or who throws; a loss
shows up at the publisher (`LossArrives`). `other` replaces the publisher by one of which
nothing is known, so that `ControlPlane` is also checked alone, with overlapping
sessions.

**ServiceSessions.** `ServiceSession::close` takes its lock three times and then
calls `onClose`; the four handlers of a tunnel (a pipe and a timer for each end)
are therefore four small programs, `closing[t][h]`, over the steps `Check`,
`ShutDown`, `Clear`, `Notify`. What comes of it is `PublisherEnds`: the pair is made
once, each connection closes once, the pair is forgotten when both are closed. An
exception of the outward `createConnection` (`OutwardThrows`) makes no session and
unwinds into the control line, where it is `HandlerThrows`; one of the inward
`createConnection` (`InwardThrows`) is on a thread of the pool and ends the process. The
refinement mapping `Ends` calls an end open while its `ServiceSession` is `active`.

**TunnelPath.** A subscriber's connection, the broker's two sides, the publisher's
two ends. `NewTunnelAnswered` is the publisher's `createSession`: its connection is
in the acceptor's backlog, or there is none (bound: it succeeds while an identifier is
left to accept it under, `IdentifiersLast`). From then on the processes see of each
other only an end of stream: `PublisherGone` and `BrokerGone` say when one is due.
`PublisherDies` ends the publisher's process, `AcceptThrows` and its like the broker's.

**NodePublisher.** Node.js runs one callback at a time, so an action is a whole
callback. A socket is `ending` from its failure or `destroy()` to its 'close'
event; the eight-second timers of the two 'close' handlers are `remoteTimer` and
`localTimer`. `chunked` says whether the authority's token may come in two 'data'
events, each of which connects. A constructor that throws in `connect` is logged and
leaves neither a websocket nor a retry; `parts` and `thrown` count both. `stop()`, which `main.ts` calls on SIGINT, is
`Stop`. An exception out of a callback, or `process.exit`, ends the process.

**Pipe.** The n-th byte of a direction is the number n. A write that ends early
after n bytes is `WriteSome`, whatever the error was.

**StreamParser.** A character is a brace, a quote, an escape or another. `FindStates`
are the states of the loop, from the offset it remembers to the end of the text.
`IsObject` says which texts a message can be, by counting and without a scan: braces
outside of strings balance at the last character and at no other. A quote is part of a
string's text if an odd number of escapes stands before it.

## 3. Runs

| Run | Question | Bounds |
|---|---|---|
| TunnelServiceSafety | 1:1, every publisher end answers its client, registry, timers, half-closed tunnels; refines `Tunnels` | 3 sides |
| TunnelPathLiveness | sides are settled, a lost control session ends tunnels; whichever process is through with a tunnel or ends, the other's connections for it close | 2 sides, 1 subscriber |
| TunnelServiceDoubleErase | **fails**: a registry entry is erased once | 3 sides |
| CloseLocksHandlers | the service is told of a close once, only `connectTunnels` meets a stale iterator, closes are for good; where no two handlers' locks cross, every handler ends | 4 threads with any four of six calls, at a tunnel and at a side that is turned away |
| CloseLocksBothSides | **fails**: no circular wait | both sides close |
| ControlPlaneSessions (of `ControlLine`) | no service outlives the sessions; a loss is noticed; a websocket open at both ends is the one requests go to, and one callback reads it until one throws; a line that stays open is served; without overlap, a connected publisher is served and the services map is guarded | 2 websockets, 1 port, either publisher, exceptions and restarts of both processes; sessions overlap for the other publisher only (`MCInit`); 182,323 states |
| ControlPlaneWedge | **fails**: a reconnected publisher is served | 2 sessions, 1 port |
| PublisherLineReconnects | one websocket is open, the line is watched and pinged, one send at a time until one fails, a loss leads to a reconnect unless a callback threw, a line that opens is greeted unless a send failed | 3 connections, queue of 1, pauses up to 60 s, restarts; 44,020 states |
| NodePublisherLifecycle | one control line or one retry for each answer of the authority, or a constructor that threw; `stop` ends it; sessions' sockets close together and none is forgotten | 3 websockets, 1 session |
| ServiceSessionsPair | pairs are dissolved rightly; ends close together; refines `PublisherEnds` | 1 tunnel, 4 handlers; 54,073 states |
| PipeChannel | refines `ByteChannel`; the one who ended had everything delivered; what is sent arrives | 4 bytes each way, buffer 3, 2 retries |
| StreamParserChunks | messages come out as they went in | 2 messages of all objects with a string of 2 pieces |

**Why the bounds are enough.** A tunnel is two sides; the third of
`TunnelServiceSafety` is the interesting intruder: a second answer to the same
client, a second client, or a late dial. Two tunnels of one service share only
the registry, of which each uses its own entries. The theorems of section 5 are
for any number. Identifiers are uuids and only compared, so `TunnelServiceSafety`
uses symmetry; the runs with liveness properties do not. In `TunnelPath` one
subscriber (`MaxSubscribers`) and the answer to it are a whole path; what a third
side can do to it is safety. Two control sessions are the one that goes and the one
that comes; three connections of `PublisherLine` leave room for callbacks that are
two websockets late. Services of a publisher are added one by one and share no
state, so `ControlLine` takes one. One message in transit (`MaxTransit`) and one
ping or failure report in all (`MaxExtra`) are enough for what can go wrong between
the ends: the handshake not the first, behind a message of the line before, or
waiting because the connection is full. Sessions of
`NodePublisher` share nothing but the line and the process. The six calls of
`CloseLocksHandlers` are all there are but for mirror images, and the locks of two sides
and the guard are all that four of them can hold; the safety part is proved for any
number. Two
tunnels of `ServiceSessions` share only `sessionGuard_`, which one handler holds
without waiting for anything. A buffer of three with two retries has every case of an
early, repeated and abandoned write, a chunk smaller than and equal to the
buffer, and a second chunk. The bounds `MaxLines`, `MaxQueue` and `MaxMessages`
stand in the guards of `Authenticate`, `AlivePing` and `MessageHandled`, and
`Send`; those of `ControlLine` in `MessageSent`, `PublisherStep` and
`PublisherHandles`, and `MCInit`; `MaxSubscribers` in `BrokerAlone`, and
`IdentifiersLast` in `NewTunnelAnswered`; `MaxLines` of `NodePublisher` in `Connect`; `Length` in that of `Pipe`'s
`Send`; `Tunnel` and `Session` are finite
supplies.

**Fairness** is weak fairness on handlers that are queued, destructors that are
due and steps of a running thread, which the thread pools guarantee. It is strong
only for reading from a socket that is lost or shut down: what it has still to
deliver is finite, so the read ends in a failure. In the compositions the same holds
for a connection whose other end is closed: reading it ends, writing to it fails
(`BrokerFairness`), and the acceptor of a service that is there takes what is in its
backlog. The publisher's part of `TunnelPath` follows what `ServiceSessions` is
shown to do (`EndsCloseTogether`). In `ControlLine` what a live connection holds
is read and sends complete (`LineFairness`), and the pings, one every second,
uncover a dead one. No peer has to send, to answer, to connect or to hang up, and no
process has to be restarted. A timer must expire only on a side that nothing can
re-arm (one that is not linked yet). No order is assumed between the callbacks of one
websocket and the reconnect timer.

**Deadlock** is checked everywhere but in `CloseLocksHandlers`, where handlers end or wait for each
other; `HandlersEnd` says which do. Systems that may stop have an explicit `Over`, whose
guard says when.

## 4. What the failing runs show

* *Double erase* (`service.cpp:143`). `closeTunnelSide` keeps an iterator across
  `close()`, which re-enters it and erases the entry.
* *Circular wait* (`tunnel_session.cpp:435`). Two sides that close at the same
  time each hold their own `closeLock` and ask for the other's. There is a second one
  with one side closing: the inactivity handler holds `closeLock`
  (`tunnel_session.cpp:143`) and its `close()` wants `sessionGuard` (`service.cpp:133`),
  while `connectTunnels` holds `sessionGuard` (`service.cpp:81`), turns the same side
  away (`service.cpp:142`) and wants that `closeLock` (`tunnel_session.cpp:422`).
  `CloseLocksBothSides.cfg` finds it with `Handlers <- OneSide`. `HandlersEnd` shows
  that there is no third: in any four of the six calls, every handler ends unless two of
  them `Cross` in one of these ways.
* *Reconnect wedge* (`page_control_provider.cpp:124`). The old session's
  destructor detaches the new one and clears its services.

What is refuted there is checked under the condition that excludes the cause
wherever one exists: served publishers without overlap, ended handlers when no two
of them cross, and a good iterator unless `connectTunnels` is itself the one that closes
(`ErasedTwiceIfTurnedAway`).

More observations come from modelling the code, and have no run of their own:

* *Mute publisher* (`publisherpp/publisher.cpp:237`). A failed send leaves
  `sendInProgress_` set; every later handshake stays in the queue. `OneSendAtATime`
  says what is left then; `LineIsGreetedUnlessSendsFail`, `RequestsAreRead` and
  `OpenLineIsServed` except it by name.
* *Deaf publisher* (`publisherpp/publisher.cpp:202`). An exception out of
  `onControlRead` (a message or answer that does not parse, the outward
  `createConnection`) skips the next read. The websocket stays open, pings go on, and
  nobody reads. `LineIsWatched` says that nothing else leads there; `LossLeadsToReconnect`
  excepts it: a ping that fails would reconnect, but none is promised to fail.
* *Short first read* (`tunnel_session.cpp:235`). `peek` decides on one
  `async_read_some`. If that returns less than the prefix, the publisher's
  connection counts as a subscriber's, and the publisher is asked for a tunnel to it.
  `AnswersItsClient` says what still holds: whoever is joined as a publisher end answers
  that client, and the client that was to be answered gets no other tunnel.
* *Lost constructor* (`publisher/src/publisher.ts:241`). `new WebSocket` throws, which is
  logged; there is no websocket and no retry. `OneLine` counts it.
* *Services raced* (`brokerpp/publisher.cpp:233`). With overlapping sessions the map is
  cleared while a handshake iterates it; `Settle` has that outcome, and
  `ServicesMapGuarded` shows that it takes the overlap.
* *Zombie* (`page_control_provider.cpp:122`). The read loop starts before the
  session is registered; if the read fails in between, the session is registered
  for good after its `endSelf`. `ControlPlane` has these steps in this order, remembers
  such a session in `stranded`, and `LossIsNoticed` and `OpenLineIsServed` except it.
* *Stale timer* (`service_session.cpp:82`). The publisher's inactivity handler
  does not compare the deadline as the broker's does, so traffic between expiry
  and handler does not save the session. `TimerRuns` does the same.
* *Unknown port* (`publisher/src/publisher.ts:182`). `onNewTunnel` reports a failure
  and goes on; the authority's answer then throws. `StraySigned` is that end.
* *Stop without a websocket* (`publisher/src/publisher.ts:164`). `this.ws.close()`
  throws before the first connection. `Stop` has both cases.

## 5. Proofs

`tlapm` proves, for every value of the constants:

| Theorem | Statement |
|---|---|
| `TunnelProofs!TypeCorrect` | `Spec => []TypeOK` |
| `TunnelProofs!TunnelsAreOneToOne` | `Spec => []OneToOne` |
| `TunnelProofs!PublisherEndsAnswer` | `Spec => []AnswersItsClient` |
| `TunnelProofs!RegistryIsRight` | `Spec => []RegistryMatchesSides` |
| `TunnelProofs!ServiceKeepsPromise` | `Spec => KeepsPromise`: `TunnelService` implements `Tunnels` |
| `TunnelProofs!SidesAreTimed` | `Spec => []OpenSidesAreTimed` |
| `TunnelProofs!HalfClosedEnds` | `Spec => []HalfClosedIsTransient` |
| `TunnelProofs!PathImplementsService` | `PathSpec => Spec`: what holds of `TunnelService` holds of `TunnelPath` |
| `TunnelProofs!PathImplementsEnds` | `PathSpec => Ends!Spec` |
| `TunnelProofs!EndsAlwaysAgree` | `PathSpec => []EndsAgree`: the processes agree on every tunnel |
| `CloseLocksProofs!StaleOnlyIfTurnedAway` | `Spec => []ErasedTwiceIfTurnedAway` |
| `CloseLocksProofs!ClosedIsForGood` | `Spec => []ClosedForGood` |
| `CloseLocksProofs!NoTimerOutlivesItsSide` | `Spec => []CancelledStaysCancelled` |
| `PipeProofs!PipeIsByteChannel` | `Spec => IsByteChannel`: `Pipe` implements `ByteChannel`, both ways |
| `PipeProofs!FinisherDelivered` | `Spec => []FinisherIsDelivered` |
| `ControlLineProofs!TypeCorrect` | `Spec => []TypeOK` |
| `ControlLineProofs!NoServiceIsOrphaned` | `Spec => []NoOrphanService` |
| `ControlLineProofs!ServedInTurn` | `Spec => []PublisherIsServedInTurn` |
| `ControlLineProofs!GuardedInTurn` | `Spec => []ServicesMapGuarded` |
| `ControlLineProofs!LineImplementsControlPlane` | `LineSpec => Spec` |
| `ControlLineProofs!LineImplementsPublisherLine` | `LineSpec => P!Spec` |
| `ControlLineProofs!LineTypeCorrect` | `LineSpec => []TypeOK` |
| `ControlLineProofs!LineOrphansNoService` | `LineSpec => []NoOrphanService` |
| `ControlLineProofs!LineIsServedInTurn` | `LineSpec => []PublisherIsServedInTurn` |
| `ControlLineProofs!LineGuardsServices` | `LineSpec => []ServicesMapGuarded` |
| `ControlLineProofs!LineHasOneWebsocket` | `LineSpec => []P!OneLineOpen` |
| `ControlLineProofs!RequestsAreAlwaysRead` | `LineSpec => []RequestsAreRead` |
| `PublisherLineProofs!TypeCorrect` | `Spec => []TypeOK` |
| `PublisherLineProofs!OneLineIsOpen` | `Spec => []OneLineOpen` |
| `PublisherLineProofs!LineIsAlwaysWatched` | `Spec => []LineIsWatched` |
| `PublisherLineProofs!SendsAreSingle` | `Spec => []OneSendAtATime` |
| `PublisherLineProofs!OpenLineIsAlwaysPinged` | `Spec => []OpenLineIsPinged` |
| `ServiceSessionsProofs!TypeCorrect` | `Spec => []TypeOK` |
| `ServiceSessionsProofs!NoDeadPairRemains` | `Spec => []NoDeadPairStays` |
| `ServiceSessionsProofs!PipesArePresent` | `Spec => []PipesAreThere` |
| `ServiceSessionsProofs!SessionsKeepEnds` | `Spec => KeepsEnds`: `ServiceSessions` implements `PublisherEnds` |
| `NodePublisherProofs!OneLineAlways` | `Spec => []OneLine` |
| `NodePublisherProofs!ForgottenIsReleased` | `Spec => []FreedIsReleased` |
| `StreamParserProofs!MessagesArePopped` | `Spec => []PopsWhatWasSent` |
| `StreamParserProofs!TypeCorrect` | `Spec => []TypeOK` |

They rest on the named assumptions of the modules alone: that the model values
differ, that bounds are numbers, what
`CloseLocksAssumption` says of a tunnel's sides and of the handlers that run, and that
what the publisher sends are texts of objects (`StreamParserAssumption`).

*1:1.* `OneToOne` is not inductive: nothing in it says why `connectTunnels` is not
run twice for one client. `LinkInv` adds the reason, along the path of a request:
a side is asked for only while it waits, at most one of a request, a dial and a
side with that origin exists for it (`AskedOnce`), what was asked for was peeked
at before (`AskedWasPeeked`, `AskedForSubscribers`), and links follow the tokens of
their publisher ends (`LinksFollowTokens`). `AnswersItsClient` follows from the same
invariant: a client whose answer is spent, joined or not, is never asked for again.

*Registry.* `RegistryMatchesSides` needs that what is closed was accepted. Closing
has one shape in all actions (`Closes`), so most steps are one lemma.

*Tunnels.* Each action maps to `Open`, `Close`, `Pair` or a stutter; the pairs
and the sides a close reaches are what the invariants above speak of.

*Ends of sides.* `Keeps` is what every step but an accept leaves of a side that is
open after it: no new reference, the clock it had, no death. Timing follows from it
and from `DeadIsClosed`. For half-closed tunnels `PeersAreLinked` says that `peer` and
`links` agree and that an open linked end has a pipe, and `ClosedEndsLinger` that the
closed end of a tunnel keeps the pipe that will close the other, as long as that one can
still be reached.

*Locks.* That the service is told once is true because one close at most is past the
test of `wasClosed`. `OneCommits` says so of all positions of all stacks: `Committed`
is a call of `close` between the test and the erasure. A step moves the top of a
stack, so each is one of three lemmas (goes on or calls, returns, commits). That no other
close makes an iterator stale is `sessionGuard`'s doing: `GuardIsHeld` says who holds it
and how often, `FoundIsGood` that what `connectTunnels` found stays registered while it
is inside, unless its own call of `close` is the one that committed.
`ClosedForGood` needs more, `Leaves`: a closed side was erased or its close is still on
a stack, and a close past its pipe has left the side without one and the other side
closed, because the call above the one in `reset` is the other side's `close`.

*Bytes.* `Flow` orders what was sent, read, and is in the buffer; `InOrder` says that
what arrived is the stream up to what was written; `Ended` keeps that for the end that
closed the tunnel.

*Orphans.* `NoOrphanService` needs that a service is added only by a session that
is alive: `LifeInv` says that whatever is held by a handler or the map is live,
that a session that still adds services is held, and that services have an owner.
`Settle`, which destroys, is treated once, in `SettleKeepsLife`.

*In turn.* Without overlap (the formulas say so) there is at most one live session, it is the current one,
and the ports it has not still to add are served: `InTurn`. A new session meets an
empty map because destroying the only session clears it (`SettleKeepsTurn`).

*The line.* `OnlyCurrent` says that all websockets but `ws_` are closed, and that one
too while the reconnect timer runs. With it, pings go on as long as the line is open
(`PingInv`). `LineIsWatched` and `OneSendAtATime` are inductive together with `TypeOK`,
though nothing keeps the callbacks of older websockets off the current one: every step
that takes a callback away puts another in its place, starts the timer, or sets `threw`.

*Pairs.* `Inv` of `ServiceSessionsProofs` says where the four handlers can be
(`StagesAgree`), that `sessionGuard_` is held while the second pipe of a pair is still
missing (`GuardIsHeld`), and that a pipe's handler closes nothing before the pipe has
ended (`PipesCloseLast`). The steps of `PublisherEnds` follow from it.

*Node.* `LineInv` counts: the websockets that are not closed, the retries and the
constructors that threw are together as many as the answers that came. `SocketsAgree` says
for each stage of a session which timers are there and who will still close a socket.

*A tunnel across both processes.* Each step of `TunnelPath` is one of
`TunnelService`, or leaves its variables alone, and the same of `PublisherEnds`; so
every theorem of `TunnelService` holds of the path. `EndsAgree` relates the two: a
subscriber that is asked for was not answered yet (or its answer is over), whoever was
dialled has, or had, a pair at the publisher, and a pair exists only for a
side that waits, is linked or is dead. Its proof needs `LinkInv` of the broker, which says that a side is asked for
once: agreement of the processes follows from the order within one of them.

*The control line.* That `ControlLine` implements `PublisherLine` needs no invariant.
That it implements `ControlPlane` does: the broker learns of an upgrade when it answers
it, the publisher may have closed that websocket since, and `ControlPlane` lets a
publisher upgrade only when no other connection is up.
Four facts together give it. `OneWebsocket` and `OneWatcher` are about the publisher: all
websockets but `ws_` are gone; and, until a send fails, the right to call `retryConnect`
is a token which the connect, its greeting, the read and the handler of what was read
hand on, and which nobody holds while the reconnect timer runs or once a handler threw.
`LinkIsLive` says that a connection that is up belongs to a session that lives, and
`LinkIsCurrent` that it is the one of the websocket of the moment. None of them needs
sessions not to overlap. With that, `LineSpec => Spec`, and the theorems of
`ControlPlane` hold at the end of the line, with the same `~overlap` in their formulas:
they do not claim that this repository's publisher never overlaps, which it does when it
notices a loss first. `RequestsAreRead` puts both ends together: `InTurn` of the broker
makes the session of `ws_` the current one, and the token makes the reader unique.
`OneWatcher` is stronger than `LineIsWatched`, and is lost with a failed send, after
which two callbacks may hold the right; `PublisherLineProofs` has what holds always.

*Messages.* `ParserInv` says that between two reads the buffer is what was read of the
message and the state of the search is `After`: the depth, the parity of quotes and of
escapes of just that text, counted from its start. `LookStep` shows that one
iteration of the loop takes `After` of a text to `After` of the text with one more
character, and reports an end exactly at the last one of an object; `SearchStep` that a
run of the loop from any remembered offset therefore ends where a run from the start
would. The induction over the text is an argument about a least counterexample
(`Least`, `Upwards`), which needs no operator as a parameter.

Only model-checked are the liveness properties and their fairness (`tlapm` has no rule
for `ENABLED`): that sides are settled and tunnels end at both processes
(TunnelPathLiveness), that a loss is noticed and an open line served
(ControlPlaneSessions), reconnecting and greeting (PublisherLineReconnects), that
handlers end (CloseLocksHandlers), that ends close together (ServiceSessionsPair,
NodePublisherLifecycle), that `stop` ends the line, and that what is sent arrives
(PipeChannel). Every invariant of a run, and every refinement, is a theorem.

## 6. Limits

* The broker has one service and one publisher identity per model. The unguarded
  map `publishers` of `PageAndControlProvider` is therefore outside of it.
* Websockets, sockets and the operating system are external: an operation
  completes, fails, or stays outstanding.
* The end of a process by an exception (`AcceptThrows`, `InwardThrows`) is a step. In
  the compositions the other process goes on, and `ControlLine` starts either again;
  `TunnelPath` does not start the ended one again: its tunnels are over.
* `ControlPlaneSessions` bounds `LineInit`: sessions overlap for the publisher of another
  make only (`MCInit`). What is checked there of this repository's publisher excepts the
  overlap, or (`NoOrphanService`, `LossIsNoticed`) is about the broker, whose steps the
  other publisher drives; the theorems are of `LineSpec`, which has no such bound.
* In `CloseLocksHandlers` a thread runs one handler, and the first write of `link` is not
  among the handlers: `TunnelService` has it, with atomic closes. The liveness of
  `TunnelPath` is therefore under the assumption that closes do not wait for each other
  for ever, which section 4 shows they may.
* `informAboutConnection` for a service that is no longer in the map sends
  nothing, as in the code; the client then waits for its timer.

## 7. What is left

In this order:

1. A second publisher identity in `ControlPlane`, for the unguarded map `publishers`.
2. The invariants of `PublisherLine` (`LineIsWatched`, `OneSendAtATime`,
   `OpenLineIsPinged`) restated for `ControlLine`; they follow from
   `LineSpec => P!Spec`, but a theorem of an instantiated module cannot be cited.

**Not modelled**, and why: authority, accounts and authenticator are stateless
handlers over a file and JWT signing; start-up and configuration are straight-line
code; shared helpers format for the log or make uuids; the TypeScript broker and UDP
sessions are met by no other part (section 1); the web interface is presentation.
