---------------------------- MODULE ControlPlane ----------------------------
(***************************************************************************)
(* The broker's control plane for one publisher identity:                  *)
(* PageAndControlProvider's map controlSessions, the ControlSession of each *)
(* websocket, the Publisher that outlives them and the acceptor of each of *)
(* its services.                                                           *)
(*                                                                         *)
(* A ControlSession dies when its last shared_ptr is dropped: the map's    *)
(* entry or one captured by a running handler.  Its destructor detaches    *)
(* from the Publisher, whatever session the Publisher knows by then.       *)
(***************************************************************************)
EXTENDS FiniteSets

CONSTANTS
    Session,        \* control sessions, one for each websocket (a bound in TLC's runs)
    Port,           \* public ports of the services the publisher announces
    None            \* no session

ASSUME ControlPlaneAssumption == None \notin Session

VARIABLES
    overlap,        \* may the publisher be back before the broker noticed that the
                    \* connection it had before is lost?  (never changes)
    broker,         \* "up", or "raced" once the services map was used unguarded
    stage,          \* the life of each session
    link,           \* its websocket, as the network has it
    current,        \* Publisher::controlSession, a weak_ptr
    registered,     \* controlSessions[identity]
    tasks,          \* handlers that hold a shared_ptr: <<session, what it does>>
    reading,        \* sessions with a websocket read outstanding
    writing,        \* the write queue of each session
    adding,         \* ports addServices has still to add for a session's handshake
    greeted,        \* history: sessions whose handshake was handled, until another comes
    services,       \* Publisher::services, with the state of each acceptor
    failed,         \* ports whose last Service::start failed, or was not come to
    stranded        \* history: sessions registered after all that would end them had run

vars == <<overlap, broker, stage, link, current, registered, tasks, reading, writing,
          adding, greeted, services, failed, stranded>>

Task == {"setup", "message", "consumer failed", "read failed", "write failed"}

TypeOK ==
    /\ overlap \in BOOLEAN
    /\ broker \in {"up", "raced"}
    /\ stage \in [Session -> {"unused", "live", "destroyed"}]
    /\ link \in [Session -> {"up", "down"}]
    /\ current \in Session \union {None}
    /\ registered \in Session \union {None}
    /\ tasks \subseteq Session \X Task
    /\ reading \subseteq Session
    /\ writing \in [Session -> {"idle", "busy", "stuck"}]
    /\ adding \in [Session -> SUBSET Port]
    /\ greeted \subseteq Session
    /\ services \in [Port -> {"none", "accepting", "deaf"}]
    /\ failed \subseteq Port
    /\ stranded \subseteq Session

Init ==
    /\ overlap \in BOOLEAN
    /\ broker = "up"
    /\ stage = [s \in Session |-> "unused"]
    /\ link = [s \in Session |-> "down"]
    /\ current = None /\ registered = None
    /\ tasks = {} /\ reading = {} /\ greeted = {}
    /\ writing = [s \in Session |-> "idle"]
    /\ adding = [s \in Session |-> {}]
    /\ services = [p \in Port |-> "none"]
    /\ failed = {}
    /\ stranded = {}

-----------------------------------------------------------------------------
(* Lifetime                                                                 *)

Live(s) == stage[s] = "live"

\* current.lock() succeeds
HasControl == current # None /\ Live(current)

\* writeJson on session s, if it still exists: a send starts unless one is under
\* way; after a failed send writeInProgress stays set and nothing is sent again.
Written(s) ==
    IF s # None /\ Live(s) /\ writing[s] = "idle"
      THEN [writing EXCEPT ![s] = "busy"] ELSE writing

\* Mutant of Settle: handlers capture a raw pointer and keep no session alive.
SettleUnheld(reg, tsk, more) ==
    LET D == {s \in Session : Live(s) /\ s # reg} IN
    /\ registered' = reg
    /\ tasks' = tsk
    /\ stage' = [s \in Session |-> IF s \in D THEN "destroyed" ELSE stage[s]]
    /\ link' = [s \in Session |-> IF s \in D THEN "down" ELSE link[s]]
    /\ writing' = [s \in Session |-> IF s \in D THEN "idle" ELSE writing[s]]
    /\ reading' = (reading \union more) \ D
    /\ current' = IF D = {} THEN current ELSE None
    /\ services' = IF D = {} THEN services ELSE [p \in Port |-> "none"]
    /\ broker' \in IF D # {} /\ (\E s \in Session : adding[s] # {})
                     THEN {"up", "raced"} ELSE {broker}

\* Mutant of Settle: detachControlSession is called with eraseServices = false.
SettleKeepingServices(reg, tsk, more) ==
    LET D == {s \in Session : Live(s) /\ s # reg /\ \A k \in Task : <<s, k>> \notin tsk} IN
    /\ registered' = reg
    /\ tasks' = tsk
    /\ stage' = [s \in Session |-> IF s \in D THEN "destroyed" ELSE stage[s]]
    /\ link' = [s \in Session |-> IF s \in D THEN "down" ELSE link[s]]
    /\ writing' = [s \in Session |-> IF s \in D THEN "idle" ELSE writing[s]]
    /\ reading' = (reading \union more) \ D
    /\ current' = IF D = {} THEN current ELSE None
    /\ UNCHANGED <<services, broker>>

\* The registry becomes reg and the running handlers tsk; the sessions in "more"
\* read again.  What lost its last reference is destroyed: ~ControlSession calls
\* detachControlSession(true), which resets the current session and clears the
\* services without taking serviceGuard.
Settle(reg, tsk, more) ==
    LET D == {s \in Session : Live(s) /\ s # reg /\ \A k \in Task : <<s, k>> \notin tsk} IN
    /\ registered' = reg
    /\ tasks' = tsk
    /\ stage' = [s \in Session |-> IF s \in D THEN "destroyed" ELSE stage[s]]
    /\ link' = [s \in Session |-> IF s \in D THEN "down" ELSE link[s]]
    /\ writing' = [s \in Session |-> IF s \in D THEN "idle" ELSE writing[s]]
    /\ reading' = (reading \union more) \ D
    /\ current' = IF D = {} THEN current ELSE None
    /\ services' = IF D = {} THEN services ELSE [p \in Port |-> "none"]
    /\ broker' \in IF D # {} /\ (\E s \in Session : adding[s] # {})
                     THEN {"up", "raced"} ELSE {broker}

-----------------------------------------------------------------------------
(* The upgrade handler, in two steps: setup, then the registry under its lock *)

Up == broker = "up"

\* Mutant of UpgradeHandler: setup does not make the session the current one.
UpgradeUnannounced(s) ==
    /\ Up /\ stage[s] = "unused"
    /\ overlap \/ \A o \in Session : ~Live(o)
    /\ stage' = [stage EXCEPT ![s] = "live"]
    /\ link' = [link EXCEPT ![s] = "up"]
    /\ tasks' = tasks \union {<<s, "setup">>}
    /\ reading' = reading \union {s}
    /\ greeted' = {o \in greeted : Live(o)}
    /\ stranded' = {o \in stranded : Live(o)}
    /\ UNCHANGED <<overlap, broker, current, registered, writing, adding, services, failed>>

\* setup tells the Publisher, subscribes to its messages and starts the read loop.
\* The histories forget the sessions that are gone.
UpgradeHandler(s) ==
    /\ Up /\ stage[s] = "unused"
    /\ overlap \/ \A o \in Session : ~Live(o)
    /\ stage' = [stage EXCEPT ![s] = "live"]
    /\ link' = [link EXCEPT ![s] = "up"]
    /\ tasks' = tasks \union {<<s, "setup">>}
    /\ current' = s
    /\ reading' = reading \union {s}
    /\ greeted' = {o \in greeted : Live(o)}
    /\ stranded' = {o \in stranded : Live(o)}
    /\ UNCHANGED <<overlap, broker, registered, writing, adding, services, failed>>

\* The publisher connects once its previous connection is gone, as it sees it.
Upgrade(s) ==
    /\ \A o \in Session : link[o] = "down"
    /\ UpgradeHandler(s)

\* controlSessions[identity] = cs, which drops the session registered before.  A
\* session whose reading has ended by then, and with it endSelf, is kept for good.
Register(s) ==
    /\ Up /\ <<s, "setup">> \in tasks
    /\ Settle(s, tasks \ {<<s, "setup">>}, {})
    /\ stranded' = IF s \notin reading /\ \A k \in Task : <<s, k>> \in tasks => k = "setup"
                     THEN stranded \union {s} ELSE stranded
    /\ UNCHANGED <<overlap, adding, greeted, failed>>

-----------------------------------------------------------------------------
(* Messages                                                                 *)

\* A handshake, the first one or another: addServices holds serviceGuard, so one
\* session at a time adds.
ReadHandshake(s) ==
    /\ Up /\ s \in reading
    /\ \A o \in Session : adding[o] = {}
    /\ reading' = reading \ {s}
    /\ tasks' = tasks \union {<<s, "message">>}
    /\ adding' = [adding EXCEPT ![s] = Port]
    /\ UNCHANGED <<overlap, stranded, broker, stage, link, current, registered, writing, greeted,
                   services, failed>>

\* addService: a port that is in the map is reported as a success and left as it
\* is; otherwise the service is started, which may fail.
AddService(s, p) ==
    /\ Up /\ p \in adding[s]
    /\ adding' = [adding EXCEPT ![s] = @ \ {p}]
    /\ \/ /\ services[p] # "none"
          /\ UNCHANGED <<services, failed>>
       \/ /\ services[p] = "none"
          /\ services' = [services EXCEPT ![p] = "accepting"]
          /\ failed' = failed \ {p}
       \/ /\ services[p] = "none"
          /\ failed' = failed \union {p}
          /\ UNCHANGED services
    /\ writing' = Written(current)
    /\ UNCHANGED <<overlap, stranded, broker, stage, link, current, registered, tasks, reading,
                   greeted>>

\* The handler returns: the next read starts, the handler's shared_ptr goes.
HandshakeHandled(s) ==
    /\ Up /\ <<s, "message">> \in tasks /\ adding[s] = {}
    /\ greeted' = greeted \union {s}
    /\ Settle(registered, tasks \ {<<s, "message">>}, {s})
    /\ UNCHANGED <<overlap, stranded, adding, failed>>

\* An exception in addServices is caught by the handler of the handshake: the ports
\* that were left are not added, and the publisher is told of the error.
AddServicesThrows(s) ==
    /\ Up /\ adding[s] # {}
    /\ adding' = [adding EXCEPT ![s] = {}]
    /\ failed' = failed \union adding[s]
    /\ writing' = Written(s)
    /\ UNCHANGED <<overlap, stranded, broker, stage, link, current, registered, tasks, reading,
                   greeted, services>>

\* A message that is answered at once: a ping, which may come before the handshake,
\* with a pong; a message without a type, and a handshake without services or with
\* some that get<> refuses, with an error.  What cannot be parsed at all is passed
\* over, and the session reads on.
Answer(s) ==
    /\ Up /\ s \in reading
    /\ writing' = Written(s)
    /\ UNCHANGED <<overlap, stranded, broker, stage, link, current, registered, tasks, reading,
                   adding, greeted, services, failed>>

\* A subscriber of the message throws, which onRead catches: no further read starts,
\* and endSelf is called.
ConsumerThrows(s) ==
    /\ Up /\ s \in reading
    /\ reading' = reading \ {s}
    /\ tasks' = tasks \union {<<s, "consumer failed">>}
    /\ UNCHANGED <<overlap, stranded, broker, stage, link, current, registered, writing, adding,
                   greeted, services, failed>>

-----------------------------------------------------------------------------
(* Loss of the connection, endSelf, and a restart of the broker             *)

\* The network breaks the connection, or the publisher closes it.
LinkDrops(s) ==
    /\ link[s] = "up"
    /\ link' = [link EXCEPT ![s] = "down"]
    /\ UNCHANGED <<overlap, stranded, broker, stage, current, registered, tasks, reading, writing,
                   adding, greeted, services, failed>>

ReadFails(s) ==
    /\ Up /\ s \in reading /\ link[s] = "down"
    /\ reading' = reading \ {s}
    /\ tasks' = tasks \union {<<s, "read failed">>}
    /\ UNCHANGED <<overlap, stranded, broker, stage, link, current, registered, writing, adding,
                   greeted, services, failed>>

WriteDone(s) ==
    /\ Up /\ Live(s) /\ writing[s] = "busy"
    /\ writing' = [writing EXCEPT ![s] = "idle"]
    /\ UNCHANGED <<overlap, stranded, broker, stage, link, current, registered, tasks, reading,
                   adding, greeted, services, failed>>

WriteFails(s) ==
    /\ Up /\ Live(s) /\ writing[s] = "busy" /\ link[s] = "down"
    /\ writing' = [writing EXCEPT ![s] = "stuck"]
    /\ tasks' = tasks \union {<<s, "write failed">>}
    /\ UNCHANGED <<overlap, stranded, broker, stage, link, current, registered, reading, adding,
                   greeted, services, failed>>

Failure == {"consumer failed", "read failed", "write failed"}

\* Mutant of EndSelf: the handler of a failed read forgets to call endSelf.
EndNothing(s) ==
    \E k \in Failure :
        /\ Up /\ <<s, k>> \in tasks
        /\ Settle(registered, tasks \ {<<s, k>>}, {})
        /\ UNCHANGED <<overlap, stranded, adding, greeted, failed>>

\* endSelf erases the identity's entry, whichever session it holds.
EndSelf(s) ==
    \E k \in Failure :
        /\ Up /\ <<s, k>> \in tasks
        /\ Settle(None, tasks \ {<<s, k>>}, {})
        /\ UNCHANGED <<overlap, stranded, adding, greeted, failed>>

\* The broker process ends, for whatever reason, and is started again: the system
\* closes its sockets, and all it knew is gone.
Restart ==
    /\ ~Up \/ \E s \in Session : Live(s)
    /\ broker' = "up"
    /\ stage' = [s \in Session |-> IF Live(s) THEN "destroyed" ELSE stage[s]]
    /\ link' = [s \in Session |-> "down"]
    /\ current' = None /\ registered' = None
    /\ tasks' = {} /\ reading' = {}
    /\ writing' = [s \in Session |-> "idle"]
    /\ adding' = [s \in Session |-> {}]
    /\ services' = [p \in Port |-> "none"]
    /\ failed' = {}
    /\ stranded' = {} /\ greeted' = {}
    /\ UNCHANGED overlap

-----------------------------------------------------------------------------
(* The acceptor of a service                                                *)

\* Mutant of Accept: a refused connection stops the acceptor for good.
AcceptStopping(p) ==
    /\ Up /\ services[p] = "accepting"
    /\ \/ /\ HasControl
          /\ writing' = Written(current)
          /\ UNCHANGED services
       \/ /\ ~HasControl
          /\ services' = [services EXCEPT ![p] = "stopped"]
          /\ UNCHANGED writing
    /\ UNCHANGED <<overlap, stranded, broker, stage, link, current, registered, tasks, reading,
                   adding, greeted, failed>>

\* A connection arrives.  With a control session the publisher is asked for a
\* tunnel and accept is re-armed; without one the handler returns before that.
Accept(p) ==
    /\ Up /\ services[p] = "accepting"
    /\ \/ /\ HasControl
          /\ writing' = Written(current)
          /\ UNCHANGED services
       \/ /\ ~HasControl
          /\ services' = [services EXCEPT ![p] = "deaf"]
          /\ UNCHANGED writing
    /\ UNCHANGED <<overlap, stranded, broker, stage, link, current, registered, tasks, reading,
                   adding, greeted, failed>>

\* Nothing more has to happen once the broker failed, or no connection is up and
\* none can be made: the supply of sessions is used up, or one is still alive.
Over ==
    /\ \/ ~Up
       \/ \A s \in Session : link[s] = "down" /\ (stage[s] = "unused" => ~overlap)
    /\ UNCHANGED vars

Next ==
    \/ \E s \in Session :
          \/ Upgrade(s) \/ Register(s)
          \/ ReadHandshake(s) \/ HandshakeHandled(s) \/ Answer(s) \/ ConsumerThrows(s)
          \/ AddServicesThrows(s) \/ \E p \in Port : AddService(s, p)
          \/ LinkDrops(s) \/ ReadFails(s) \/ WriteDone(s) \/ WriteFails(s) \/ EndSelf(s)
    \/ \E p \in Port : Accept(p)
    \/ Restart
    \/ Over

Spec == Init /\ [][Next]_vars

\* Handlers run and an upgrade finishes.  What a lost connection still delivers is
\* finite, so reading it again and again ends in a failure (strong fairness).
\* Neither connections nor messages are promised.
Fairness ==
    \A s \in Session :
        /\ WF_vars(Register(s))
        /\ WF_vars(HandshakeHandled(s))
        /\ \A p \in Port : WF_vars(AddService(s, p))
        /\ SF_vars(ReadFails(s))
        /\ WF_vars(EndSelf(s))

FairSpec == Spec /\ Fairness

-----------------------------------------------------------------------------
(* Properties                                                               *)

\* A service never outlives the control sessions: when the last one is destroyed
\* the ports are given back, in whatever order sessions overlap and fail.
NoOrphanService ==
    Up /\ (\E p \in Port : services[p] # "none") => \E s \in Session : Live(s)

\* A publisher that is connected and was greeted has every port it announced
\* accepting connections, except those that could not be started.
PublisherIsServed ==
    \A s \in Session :
        Up /\ Live(s) /\ link[s] = "up" /\ s \in greeted =>
            \A p \in Port : services[p] = "accepting" \/ p \in failed

\* The same, when the publisher is back only after the broker noticed its loss.
PublisherIsServedInTurn == ~overlap => PublisherIsServed

\* Nor is the services map then cleared under a handshake that iterates it.
ServicesMapGuarded == ~overlap => broker # "raced"

\* A session alive on a connection that is lost, but not one that was ended before
\* it was registered.
Lingers(s) == Live(s) /\ link[s] = "down" /\ s \notin stranded

\* The loss of a connection is noticed, by a read, a write or the destructor, and the
\* session destroyed, and with it the publisher's services are detached.
LossIsNoticed == (\E s \in Session : Lingers(s)) ~> ~Up \/ ~\E s \in Session : Lingers(s)
=============================================================================
