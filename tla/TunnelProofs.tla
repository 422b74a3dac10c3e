------------------------------ MODULE TunnelProofs ------------------------------
(***************************************************************************)
(* Proofs about the broker's tunnels.  For TunnelService, with any set of  *)
(* tunnel sides: its types, the 1:1 relationship of the sides of a tunnel, *)
(* who is at either end of it, the agreement of the service's registry     *)
(* with its sides, that no open side is without a clock, and that a tunnel *)
(* of which one end is closed still has what will close the other.  For    *)
(* TunnelPath: that in the composition with the publisher both processes   *)
(* keep to their specifications, and what they agree on.                   *)
(***************************************************************************)
EXTENDS TunnelPath, TLAPS

\* The sides the publisher was asked for, is dialling for, or has dialled for.
Asked(c) == c \in requests \union dialing \/ \E t \in Tunnel : origin[t] = c

\* A side is asked for once: its identifier is in one place only, a message, a
\* dial under way, or the token of a single connection.
AskedOnce ==
    /\ requests \intersect dialing = {}
    /\ \A t \in Tunnel : origin[t] \notin requests \union dialing
    /\ \A t, u \in Tunnel : origin[t] \in Tunnel /\ origin[t] = origin[u] => t = u

\* Only a side that was peeked as a subscriber's is asked for, and only a side
\* that showed a token waits for connectTunnels.
AskedWasPeeked ==
    /\ \A c \in Tunnel : Asked(c) => phase[c] \in {"waiting", "linked", "dead"}
    /\ \A t \in Tunnel : phase[t] = "unused" => origin[t] = None
    /\ \A t \in Tunnel : phase[t] = "connect" => origin[t] \in Tunnel

\* A tunnel's publisher end names its client end, and is nobody's client end.
LinksFollowTokens ==
    \A c, p \in Tunnel : <<c, p>> \in links =>
        /\ origin[p] = c
        /\ phase[c] \in {"linked", "dead"} /\ phase[p] \in {"linked", "dead"}
        /\ ~Asked(p)

\* A pipe has another side.
TypeInv == TypeOK /\ \A t \in Tunnel : pipe[t] # "none" => peer[t] \in Tunnel

LinkInv == TypeOK /\ AskedOnce /\ AskedWasPeeked /\ LinksFollowTokens

\* A side that was not accepted yet has no history and nobody pipes to it, and only
\* a closed side is about to be erased.
ClosedWasAccepted ==
    /\ erasing \subseteq closed
    /\ \A t \in Tunnel : phase[t] = "unused" =>
          /\ t \notin closed \union sessions
          /\ pipe[t] = "none"
          /\ \A c \in Tunnel : peer[c] = t => pipe[c] = "none"

RegistryInv == TypeOK /\ ClosedWasAccepted /\ RegistryMatchesSides

-----------------------------------------------------------------------------
(* Types                                                                    *)

\* What a close does to the variables it touches keeps their types.
LEMMA ShutTypes ==
    ASSUME TypeOK, NEW S \in SUBSET Tunnel, Shut(S)
    PROVE  /\ closed' \subseteq Tunnel
           /\ erasing' \subseteq Tunnel
           /\ armed' \subseteq Tunnel
           /\ pipe' \in [Tunnel -> Pipes]
           /\ \A v \in Tunnel : pipe'[v] # "none" => pipe[v] # "none"
BY DEF TypeOK, Shut, Pipes

LEMMA ReachIsSides ==
    ASSUME NEW t \in Tunnel
    PROVE  Reach(t) \in SUBSET Tunnel
BY DEF Reach

\* The same for closing a side through the registry.
LEMMA CloseTunnelSideTypes ==
    ASSUME TypeOK, NEW u \in Tunnel, CloseTunnelSide(u)
    PROVE  /\ broker' \in {"up", "erased twice", "endpoint threw"}
           /\ sessions' \subseteq Tunnel
           /\ closed' \subseteq Tunnel
           /\ erasing' \subseteq Tunnel
           /\ armed' \subseteq Tunnel
           /\ pipe' \in [Tunnel -> Pipes]
           /\ \A v \in Tunnel : pipe'[v] # "none" => pipe[v] # "none"
<1>1. CASE u \in sessions /\ u \notin closed
  <2>1. Close(u)
    BY <1>1 DEF CloseTunnelSide
  <2>2. QED
    BY <1>1, <2>1, ShutTypes, ReachIsSides DEF CloseTunnelSide, Close, TypeOK
<1>2. CASE ~(u \in sessions /\ u \notin closed)
  BY <1>2 DEF CloseTunnelSide, TypeOK
<1>3. QED
  BY <1>1, <1>2

LEMMA TypeStep == TypeInv /\ [Next]_vars => TypeInv'
<1> SUFFICES ASSUME TypeInv, [Next]_vars
             PROVE  TypeInv'
  OBVIOUS
<1> USE TunnelServiceAssumption DEF TypeInv, TypeOK, Phases, Pipes
<1>1. CASE UNCHANGED vars
  BY <1>1 DEF vars
<1>2. ASSUME NEW t \in Tunnel, NEW o \in {Subscriber} \union dialing, AcceptTunnel(t, o)
      PROVE  TypeInv'
  BY <1>2 DEF AcceptTunnel, owner
<1>3. ASSUME NEW o \in {Subscriber} \union dialing, AcceptRefused(o)
      PROVE  TypeInv'
  BY <1>3 DEF AcceptRefused, timers
<1>4. CASE AcceptThrows
  BY <1>4 DEF AcceptThrows, owner, timers, world
<1>5. ASSUME NEW t \in Tunnel, PeekFails(t)
      PROVE  TypeInv'
  BY <1>5, ShutTypes, ReachIsSides DEF PeekFails, Close, owner, world
<1>6. ASSUME NEW t \in Tunnel, PeekClient(t) \/ PeekToken(t)
      PROVE  TypeInv'
  BY <1>6 DEF PeekClient, InformAboutConnection, PeekToken, owner, timers, world
<1>7. ASSUME NEW t \in Tunnel, ConnectTunnels(t)
      PROVE  TypeInv'
  <2>1. CASE origin[t] \notin sessions
    <3>1. CloseTunnelSide(t) /\ phase' = [phase EXCEPT ![t] = "done"]
          /\ UNCHANGED <<peer, links, owner, fired, origin, world>>
      BY <1>7, <2>1 DEF ConnectTunnels
    <3>2. QED
      BY <3>1, CloseTunnelSideTypes DEF owner, world
  <2>2. CASE origin[t] \in sessions /\ t \notin sessions
    <3>1. CloseTunnelSide(origin[t]) /\ phase' = [phase EXCEPT ![t] = "done"]
          /\ UNCHANGED <<peer, links, owner, fired, origin, world>>
      BY <1>7, <2>2 DEF ConnectTunnels
    <3>2. origin[t] \in Tunnel
      BY <2>2
    <3>3. QED
      BY <3>1, <3>2, CloseTunnelSideTypes DEF owner, world
  <2>3. CASE {origin[t], t} \subseteq sessions
    <3>1. Link(origin[t], t) /\ UNCHANGED <<owner, fired, origin, world>>
      BY <1>7, <2>3 DEF ConnectTunnels
    <3>2. PICK c \in Tunnel : c = origin[t]
      BY <2>3
    <3>3. /\ pipe' = [pipe EXCEPT ![c] = "first", ![t] = "read"]
          /\ peer' = [peer EXCEPT ![c] = t, ![t] = c]
          /\ phase' = [phase EXCEPT ![c] = "linked", ![t] = "linked"]
          /\ links' = links \union {<<c, t>>}
          /\ UNCHANGED <<broker, sessions, closed, armed, erasing>>
          /\ UNCHANGED <<service, acceptor, control, fired, origin, requests, dialing>>
      BY <3>1, <3>2 DEF Link, owner, world
    <3>4. /\ pipe' \in [Tunnel -> Pipes] /\ peer' \in [Tunnel -> Tunnel \union {None}]
          /\ phase' \in [Tunnel -> Phases]
      BY <3>3
    <3>5. links' \subseteq Tunnel \X Tunnel
      <4>1. links \subseteq Tunnel \X Tunnel /\ links' = links \union {<<c, t>>}
        BY <3>3
      <4>2. <<c, t>> \in Tunnel \X Tunnel
        OBVIOUS
      <4>3. QED
        BY ONLY <4>1, <4>2
    <3>6. \A v \in Tunnel : pipe'[v] # "none" => peer'[v] \in Tunnel
      BY <3>3
    <3>7. TypeOK'
      BY <3>3, <3>4, <3>5
    <3>8. QED
      BY <3>6, <3>7
  <2>4. QED
    BY <2>1, <2>2, <2>3
<1>8. ASSUME NEW t \in Tunnel, FirstWritten(t) \/ FirstWriteFails(t)
      PROVE  TypeInv'
  <2>1. CASE FirstWritten(t)
    BY <2>1 DEF FirstWritten, owner, timers, world
  <2>2. CASE FirstWriteFails(t)
    <3>1. Reach(t) \union Reach(peer[t]) \subseteq Tunnel
      BY <2>2, ReachIsSides DEF FirstWriteFails
    <3>2. QED
      BY <2>2, <3>1 DEF FirstWriteFails, owner, world
  <2>3. QED
    BY <1>8, <2>1, <2>2
<1>9. ASSUME NEW t \in Tunnel, PipeData(t) \/ PipeWritten(t)
      PROVE  TypeInv'
  <2>1. armed' \subseteq Tunnel
    <3>1. peer[t] \in Tunnel
      BY <1>9 DEF PipeData, PipeWritten
    <3>2. ResetTimer({t, peer[t]})
      BY <1>9 DEF PipeData, PipeWritten
    <3>3. QED
      BY <3>1, <3>2 DEF ResetTimer
  <2>2. \/ pipe' = [pipe EXCEPT ![t] = "read"]
        \/ pipe' = [pipe EXCEPT ![t] = "write"]
        \/ pipe' = [pipe EXCEPT ![t] = "stalled"]
    BY <1>9 DEF PipeData, PipeWritten
  <2>3. pipe[t] # "none"
    BY <1>9 DEF PipeData, PipeWritten
  <2>4. QED
    <3>1. UNCHANGED <<broker, service, acceptor, control, sessions, closed, erasing, fired,
                      phase, origin, peer, requests, dialing, links>>
      BY <1>9 DEF PipeData, PipeWritten, owner, world
    <3>2. pipe' \in [Tunnel -> Pipes] /\ \A v \in Tunnel : pipe'[v] # "none" => pipe[v] # "none"
      BY <2>2, <2>3
    <3>3. TypeOK'
      BY <2>1, <3>1, <3>2
    <3>4. QED
      BY <3>1, <3>2, <3>3
<1>10. ASSUME NEW t \in Tunnel, PipeEnd(t)
      PROVE  TypeInv'
  <2>1. peer[t] \in Tunnel
    BY <1>10 DEF PipeEnd
  <2> DEFINE S == {u \in {t, peer[t]} \ closed : Referenced(u)}
  <2>2. /\ S \subseteq Tunnel
        /\ closed' = closed \union S
        /\ armed' = armed \ S
        /\ erasing' = IF service = "gone" THEN erasing ELSE erasing \union S
        /\ pipe' = [u \in Tunnel |->
              IF u \in S /\ HasPipe(u) THEN "none" ELSE IF u = t THEN "stalled" ELSE pipe[u]]
    BY <1>10, <2>1 DEF PipeEnd
  <2>3. UNCHANGED <<broker, service, acceptor, control, sessions, fired, phase, origin, peer,
                    requests, dialing, links>>
    BY <1>10 DEF PipeEnd, owner, world
  <2> HIDE DEF S
  <2>4. TypeOK'
    BY <2>2, <2>3
  <2>5. QED
    BY <2>1, <2>2, <2>3, <2>4
<1>11. ASSUME NEW t \in Tunnel, DeadlinePasses(t)
      PROVE  TypeInv'
  BY <1>11 DEF DeadlinePasses, owner, world
<1>12. ASSUME NEW t \in Tunnel, InactivityHandler(t)
      PROVE  TypeInv'
  BY <1>12, ShutTypes, ReachIsSides DEF InactivityHandler, Close, owner, world
<1>13. ASSUME NEW t \in Tunnel, Erase(t)
      PROVE  TypeInv'
  BY <1>13 DEF Erase, owner, timers, world
<1>14. ASSUME NEW t \in Tunnel, Destroy(t)
      PROVE  TypeInv'
  BY <1>14 DEF Destroy, owner, world
<1>15. ASSUME NEW t \in Tunnel, NewTunnelHandled(t) \/ DialFails(t)
      PROVE  TypeInv'
  BY <1>15 DEF NewTunnelHandled, DialFails, owner, timers
<1>16. CASE ControlLost \/ ServicesCleared \/ ServiceDestroyed
  BY <1>16 DEF ControlLost, ServicesCleared, ServiceDestroyed, timers, world
<1>17. CASE Over
  BY <1>17, <1>1 DEF Over
<1>18. QED
  BY <1>1, <1>2, <1>3, <1>4, <1>5, <1>6, <1>7, <1>8, <1>9, <1>10, <1>11, <1>12,
     <1>13, <1>14, <1>15, <1>16, <1>17 DEF Next

LEMMA TypeInvHolds == Spec => []TypeInv
<1>1. Init => TypeInv
  BY TunnelServiceAssumption DEF Init, TypeInv, TypeOK, Phases, Pipes
<1>2. QED
  BY <1>1, TypeStep, PTL DEF Spec

\* Every variable keeps its type, for every set of sides.
THEOREM TypeCorrect == Spec => []TypeOK
<1>1. TypeInv => TypeOK
  BY DEF TypeInv
<1>2. QED
  BY <1>1, TypeInvHolds, PTL

-----------------------------------------------------------------------------
(* The relationship of the sides of a tunnel                                *)

dialogue == <<phase, origin, requests, dialing, links>>

\* Steps that leave alone who was asked, who dialled and who is linked.
LEMMA QuietStep ==
    ASSUME LinkInv, TypeOK', UNCHANGED dialogue
    PROVE  LinkInv'
BY DEF LinkInv, dialogue, AskedOnce, AskedWasPeeked, LinksFollowTokens,
       Asked

\* Messages and dials may get lost, and a message may turn into a dial.
LEMMA DialStep ==
    ASSUME LinkInv, TypeOK', UNCHANGED <<phase, origin, links>>,
           requests' \subseteq requests,
           dialing' \subseteq dialing \union (requests \ requests')
    PROVE  LinkInv'
<1>1. /\ requests' \intersect dialing' = {}
      /\ requests' \union dialing' \subseteq requests \union dialing
  BY DEF LinkInv, AskedOnce
<1>2. \A c : Asked(c)' => Asked(c)
  BY <1>1 DEF Asked
<1>3. AskedOnce'
  BY <1>1 DEF LinkInv, AskedOnce
<1>4. AskedWasPeeked' /\ LinksFollowTokens'
  BY <1>2 DEF LinkInv, AskedWasPeeked, LinksFollowTokens
<1>5. QED
  BY <1>3, <1>4 DEF LinkInv

LEMMA AcceptStep ==
    ASSUME LinkInv, TypeOK', NEW t \in Tunnel, NEW o \in {Subscriber} \union dialing,
           AcceptTunnel(t, o)
    PROVE  LinkInv'
<1> USE TunnelServiceAssumption
<1>1. /\ phase[t] = "unused" /\ origin[t] = None
      /\ phase' = [phase EXCEPT ![t] = "peek"] /\ origin' = [origin EXCEPT ![t] = o]
      /\ dialing' = dialing \ {o} /\ requests' = requests /\ links' = links
      /\ dialing \subseteq Tunnel /\ requests \subseteq Tunnel
      /\ origin \in [Tunnel -> Tunnel \union {None, Subscriber}] /\ phase \in [Tunnel -> Phases]
  BY DEF AcceptTunnel, LinkInv, TypeOK, AskedWasPeeked
<1>2. \A c \in Tunnel : Asked(c)' => Asked(c)
  BY <1>1 DEF Asked
<1>3. ~Asked(t)
  BY <1>1 DEF LinkInv, AskedWasPeeked
<1>4. AskedOnce'
  <2>1. requests' \intersect dialing' = {}
    BY <1>1 DEF LinkInv, AskedOnce
  <2>2. ASSUME NEW u \in Tunnel
        PROVE  origin'[u] \notin requests' \union dialing'
    BY <1>1, <2>2 DEF LinkInv, AskedOnce
  <2>3. ASSUME NEW u \in Tunnel, NEW v \in Tunnel,
               origin'[u] \in Tunnel, origin'[u] = origin'[v]
        PROVE  u = v
    BY <1>1, <2>3 DEF LinkInv, AskedOnce
  <2>4. QED
    BY <2>1, <2>2, <2>3 DEF AskedOnce
<1>5. AskedWasPeeked'
  <2>1. \A c \in Tunnel : Asked(c)' => phase'[c] \in {"waiting", "linked", "dead"}
    BY <1>1, <1>2, <1>3 DEF LinkInv, AskedWasPeeked
  <2>2. \A u \in Tunnel : phase'[u] = "unused" => origin'[u] = None
    BY <1>1 DEF LinkInv, AskedWasPeeked
  <2>3. \A u \in Tunnel : phase'[u] = "connect" => origin'[u] \in Tunnel
    BY <1>1 DEF LinkInv, AskedWasPeeked
  <2>4. QED
    BY <2>1, <2>2, <2>3 DEF AskedWasPeeked
<1>6. LinksFollowTokens'
  <2>1. ASSUME NEW c \in Tunnel, NEW p \in Tunnel, <<c, p>> \in links'
        PROVE  /\ origin'[p] = c
               /\ phase'[c] \in {"linked", "dead"} /\ phase'[p] \in {"linked", "dead"}
               /\ ~Asked(p)'
    <3>1. /\ origin[p] = c /\ ~Asked(p)
          /\ phase[c] \in {"linked", "dead"} /\ phase[p] \in {"linked", "dead"}
      BY <1>1, <2>1 DEF LinkInv, LinksFollowTokens
    <3>2. p # t /\ c # t
      BY <1>1, <3>1
    <3>3. QED
      BY <1>1, <1>2, <3>1, <3>2
  <2>2. QED
    BY <2>1 DEF LinksFollowTokens
<1>7. QED
  BY <1>4, <1>5, <1>6 DEF LinkInv

\* A side moves on without a word to the publisher: to connectTunnels with a token,
\* or to its end.
LEMMA PhaseStep ==
    ASSUME LinkInv, TypeOK', NEW t \in Tunnel, NEW x \in {"connect", "done", "dead"},
           UNCHANGED <<origin, requests, dialing, links>>,
           phase' = [phase EXCEPT ![t] = x],
           x # "dead" => phase[t] \in {"peek", "connect"},
           x = "connect" => origin[t] \in Tunnel
    PROVE  LinkInv'
<1>1. phase \in [Tunnel -> Phases]
  BY DEF LinkInv, TypeOK
<1>2. \A c : Asked(c)' <=> Asked(c)
  BY DEF Asked
<1>3. AskedOnce'
  BY DEF LinkInv, AskedOnce
<1>4. AskedWasPeeked'
  BY <1>1, <1>2 DEF LinkInv, AskedWasPeeked
<1>5. LinksFollowTokens'
  BY <1>1, <1>2 DEF LinkInv, LinksFollowTokens
<1>6. QED
  BY <1>3, <1>4, <1>5 DEF LinkInv

LEMMA PeekClientStep ==
    ASSUME LinkInv, TypeOK', NEW t \in Tunnel, PeekClient(t)
    PROVE  LinkInv'
<1>1. /\ phase[t] = "peek" /\ phase' = [phase EXCEPT ![t] = "waiting"]
      /\ requests \subseteq requests' /\ requests' \subseteq requests \union {t}
      /\ UNCHANGED <<origin, dialing, links>>
  BY DEF PeekClient, InformAboutConnection
<1>2. phase \in [Tunnel -> Phases]
  BY DEF LinkInv, TypeOK
<1>3. ~Asked(t)
  BY <1>1 DEF LinkInv, AskedWasPeeked
<1>4. \A c : Asked(c)' => Asked(c) \/ c = t
  BY <1>1 DEF Asked
<1>5. AskedOnce'
  BY <1>1, <1>3 DEF LinkInv, AskedOnce, Asked
<1>6. AskedWasPeeked'
  BY <1>1, <1>2, <1>4 DEF LinkInv, AskedWasPeeked
<1>7. LinksFollowTokens'
  BY <1>1, <1>2, <1>4 DEF LinkInv, LinksFollowTokens
<1>8. QED
  BY <1>5, <1>6, <1>7 DEF LinkInv

LEMMA LinkStep ==
    ASSUME LinkInv, TypeOK', NEW p \in Tunnel, phase[p] = "connect",
           Link(origin[p], p), UNCHANGED <<origin, requests, dialing>>
    PROVE  LinkInv'
<1>1. PICK c \in Tunnel : c = origin[p]
  BY DEF LinkInv, AskedWasPeeked
<1>2. /\ phase' = [phase EXCEPT ![c] = "linked", ![p] = "linked"]
      /\ links' = links \union {<<c, p>>}
  BY <1>1 DEF Link
<1>3. phase \in [Tunnel -> Phases]
  BY DEF LinkInv, TypeOK
<1>4. Asked(c) /\ ~Asked(p)
  BY <1>1 DEF Asked, LinkInv, AskedWasPeeked
<1>5. \A d : Asked(d)' <=> Asked(d)
  BY DEF Asked
<1>6. \A t \in Tunnel : phase'[t] = IF t \in {c, p} THEN "linked" ELSE phase[t]
  BY <1>2, <1>3
<1>7. AskedOnce'
  BY <1>5 DEF LinkInv, AskedOnce
<1>8. AskedWasPeeked'
  BY <1>1, <1>5, <1>6 DEF LinkInv, AskedWasPeeked
<1>9. ASSUME NEW d \in Tunnel, NEW q \in Tunnel, <<d, q>> \in links'
      PROVE  /\ origin'[q] = d
             /\ phase'[d] \in {"linked", "dead"} /\ phase'[q] \in {"linked", "dead"}
             /\ ~Asked(q)'
  <2>1. CASE <<d, q>> \in links
    BY <1>5, <1>6, <2>1 DEF LinkInv, LinksFollowTokens
  <2>2. CASE d = c /\ q = p
    BY <1>1, <1>4, <1>5, <1>6, <2>2
  <2>3. QED
    BY <1>2, <1>9, <2>1, <2>2
<1>10. QED
  BY <1>7, <1>8, <1>9 DEF LinkInv, LinksFollowTokens

LEMMA LinkInvStep == TypeInv /\ LinkInv /\ [Next]_vars => LinkInv'
<1> SUFFICES ASSUME TypeInv, LinkInv, [Next]_vars
             PROVE  LinkInv'
  OBVIOUS
<1>0. TypeOK'
  BY TypeStep DEF TypeInv
<1>1. CASE UNCHANGED vars
  BY <1>0, <1>1, QuietStep DEF vars, dialogue
<1>2. ASSUME NEW t \in Tunnel, NEW o \in {Subscriber} \union dialing, AcceptTunnel(t, o)
      PROVE  LinkInv'
  BY <1>0, <1>2, AcceptStep
<1>3. ASSUME NEW o \in {Subscriber} \union dialing, AcceptRefused(o)
      PROVE  LinkInv'
  BY <1>0, <1>3, DialStep DEF AcceptRefused
<1>4. ASSUME NEW t \in Tunnel,
             \/ FirstWritten(t) \/ FirstWriteFails(t)
             \/ PipeData(t) \/ PipeWritten(t) \/ PipeEnd(t)
             \/ DeadlinePasses(t) \/ InactivityHandler(t) \/ Erase(t)
      PROVE  LinkInv'
  <2>1. UNCHANGED dialogue
    BY <1>4 DEF FirstWritten, FirstWriteFails, PipeData, PipeWritten, PipeEnd,
                DeadlinePasses, InactivityHandler, Erase, world, dialogue
  <2>2. QED
    BY <1>0, <2>1, QuietStep
<1>5. CASE AcceptThrows \/ ServicesCleared \/ ServiceDestroyed \/ Over
  <2>1. UNCHANGED dialogue
    BY <1>5 DEF AcceptThrows, ServicesCleared, ServiceDestroyed, Over, world, vars, dialogue
  <2>2. QED
    BY <1>0, <2>1, QuietStep
<1>6. CASE ControlLost
  BY <1>0, <1>6, DialStep DEF ControlLost
<1>7. ASSUME NEW t \in Tunnel, NewTunnelHandled(t) \/ DialFails(t)
      PROVE  LinkInv'
  <2>1. /\ UNCHANGED <<phase, origin, links>>
        /\ requests' \subseteq requests
        /\ dialing' \subseteq dialing \union (requests \ requests')
    BY <1>7 DEF NewTunnelHandled, DialFails
  <2>2. QED
    BY <1>0, <2>1, DialStep
<1>8. ASSUME NEW t \in Tunnel, PeekFails(t) \/ PeekToken(t) \/ Destroy(t)
      PROVE  LinkInv'
  BY <1>0, <1>8, PhaseStep DEF PeekFails, PeekToken, Destroy, world
<1>9. ASSUME NEW t \in Tunnel, PeekClient(t)
      PROVE  LinkInv'
  BY <1>0, <1>9, PeekClientStep
<1>10. ASSUME NEW t \in Tunnel, ConnectTunnels(t)
       PROVE  LinkInv'
  <2>1. phase[t] = "connect" /\ UNCHANGED <<origin, requests, dialing>>
    BY <1>10 DEF ConnectTunnels, world
  <2>2. CASE UNCHANGED links /\ phase' = [phase EXCEPT ![t] = "done"]
    BY <1>0, <2>1, <2>2, PhaseStep
  <2>3. CASE Link(origin[t], t)
    BY <1>0, <2>1, <2>3, LinkStep
  <2>4. QED
    BY <1>10, <2>2, <2>3 DEF ConnectTunnels
<1>11. QED
  BY <1>1, <1>2, <1>3, <1>4, <1>5, <1>6, <1>7, <1>8, <1>9, <1>10 DEF Next

LEMMA LinkInvHolds == Spec => []LinkInv
<1>1. Init => LinkInv
  BY TunnelServiceAssumption DEF Init, LinkInv, TypeOK, Phases, Pipes, AskedOnce,
     AskedWasPeeked, LinksFollowTokens, Asked
<1>2. QED
  BY <1>1, TypeInvHolds, LinkInvStep, PTL DEF Spec

\* A side belongs to one tunnel at most, on one end.
THEOREM TunnelsAreOneToOne == Spec => []OneToOne
<1>1. LinkInv => OneToOne
  <2> SUFFICES ASSUME LinkInv, NEW k \in links, NEW l \in links
               PROVE  /\ k[1] # k[2]
                      /\ {k[1], k[2]} \intersect {l[1], l[2]} # {} => k = l
    BY DEF OneToOne
  <2>0. links \subseteq Tunnel \X Tunnel
    BY DEF LinkInv, TypeOK
  <2>1. PICK c \in Tunnel, p \in Tunnel : k = <<c, p>>
    BY ONLY <2>0, k \in links
  <2>2. PICK d \in Tunnel, q \in Tunnel : l = <<d, q>>
    BY ONLY <2>0, l \in links
  <2>3. origin[p] = c /\ ~Asked(p) /\ origin[q] = d /\ ~Asked(q)
    BY <2>1, <2>2 DEF LinkInv, LinksFollowTokens
  <2>4. Asked(c) /\ Asked(d)
    BY <2>3 DEF Asked
  <2>5. c # p /\ c # q /\ d # p
    BY <2>3, <2>4
  <2>6. c = d => p = q
    BY <2>3 DEF LinkInv, AskedOnce
  <2>7. p = q => c = d
    BY <2>3
  <2>8. QED
    BY <2>1, <2>2, <2>5, <2>6, <2>7
<1>2. QED
  BY <1>1, LinkInvHolds, PTL

\* Whatever the first reads of the sides return, the publisher end of a tunnel answers
\* that very client, and a client whose answer was taken for a subscriber gets no tunnel.
THEOREM PublisherEndsAnswer == Spec => []AnswersItsClient
<1>1. LinkInv => AnswersItsClient
  <2> SUFFICES ASSUME LinkInv, NEW l \in links, NEW k \in links
               PROVE  origin[l[2]] = l[1] /\ origin[l[1]] \notin {k[1], k[2]}
    BY DEF AnswersItsClient
  <2>0. links \subseteq Tunnel \X Tunnel
    BY DEF LinkInv, TypeOK
  <2>1. PICK c \in Tunnel, p \in Tunnel : l = <<c, p>>
    BY ONLY <2>0, l \in links
  <2>2. PICK d \in Tunnel, q \in Tunnel : k = <<d, q>>
    BY ONLY <2>0, k \in links
  <2>3. origin[p] = c /\ origin[q] = d /\ ~Asked(q)
    BY <2>1, <2>2 DEF LinkInv, LinksFollowTokens
  <2>4. origin[c] # q /\ c # q
    BY <2>3 DEF Asked
  <2>5. origin[c] # d
    BY <2>3, <2>4 DEF LinkInv, AskedOnce
  <2>6. QED
    BY <2>1, <2>2, <2>3, <2>4, <2>5
<1>2. QED
  BY <1>1, LinkInvHolds, PTL

-----------------------------------------------------------------------------
(* The registry                                                             *)

\* What a step does to the sides when it closes those in S and erases those in D.
Closes(S, D) ==
    /\ \A u \in S : phase[u] # "unused"
    /\ closed' = closed \union S
    /\ sessions' = sessions \ D /\ D \subseteq closed'
    /\ erasing' \subseteq erasing \union S
    /\ service # "gone" => sessions' \intersect (erasing \union S) \subseteq erasing'
    /\ service' = "gone" <=> service = "gone"
    /\ \A t \in Tunnel : phase'[t] = "unused" <=> phase[t] = "unused"
    /\ \A t \in Tunnel : phase[t] = "dead" => phase'[t] = "dead"
    /\ \A t \in Tunnel : pipe'[t] # "none" => pipe[t] # "none"
    /\ UNCHANGED <<peer, links>>

LEMMA ReferencedWasAccepted ==
    ASSUME TypeInv, RegistryInv, NEW u \in Tunnel, Referenced(u)
    PROVE  phase[u] # "unused"
BY DEF TypeInv, RegistryInv, ClosedWasAccepted, Referenced

LEMMA ReachWasAccepted ==
    ASSUME TypeInv, RegistryInv, NEW t \in Tunnel, phase[t] # "unused"
    PROVE  \A u \in Reach(t) : u \in Tunnel \ closed /\ phase[u] # "unused"
BY ReferencedWasAccepted DEF Reach

\* A close through close() alone.
LEMMA CloseShape ==
    ASSUME TypeInv, RegistryInv, NEW t \in Tunnel, phase[t] # "unused", Close(t),
           UNCHANGED <<sessions, service, peer, links>>,
           \A u \in Tunnel : phase'[u] = "unused" <=> phase[u] = "unused",
           \A u \in Tunnel : phase[u] = "dead" => phase'[u] = "dead"
    PROVE  Closes(Reach(t), {})
BY ReachWasAccepted, ShutTypes, ReachIsSides DEF Close, Shut, Closes, TypeInv

\* A close through the registry.
LEMMA CloseTunnelSideShape ==
    ASSUME TypeInv, RegistryInv, NEW u \in Tunnel, CloseTunnelSide(u),
           UNCHANGED <<service, peer, links>>,
           \A v \in Tunnel : phase'[v] = "unused" <=> phase[v] = "unused",
           \A v \in Tunnel : phase[v] = "dead" => phase'[v] = "dead"
    PROVE  \E S, D \in SUBSET Tunnel : Closes(S, D)
<1>1. CASE u \notin sessions
  <2>1. Closes({}, {})
    BY <1>1 DEF CloseTunnelSide, Closes
  <2>2. QED
    BY <2>1
<1>2. CASE u \in sessions /\ u \in closed
  <2>1. Closes({}, {u})
    BY <1>2 DEF CloseTunnelSide, Closes
  <2>2. QED
    BY <2>1
<1>3. CASE u \in sessions /\ u \notin closed
  <2>1. Close(u) /\ sessions' = sessions \ {u}
    BY <1>3 DEF CloseTunnelSide
  <2>2. phase[u] # "unused"
    BY <1>3 DEF RegistryInv, ClosedWasAccepted
  <2>3. u \in Reach(u)
    BY <1>3 DEF Reach
  <2>4. Closes(Reach(u), {u})
    BY <2>1, <2>2, <2>3, ReachWasAccepted, ShutTypes, ReachIsSides
       DEF Close, Shut, Closes, TypeInv
  <2>5. QED
    BY <2>4, ReachIsSides
<1>4. QED
  BY <1>1, <1>2, <1>3

\* The sides c and p are linked, as connectTunnels does it.
Links(c, p) ==
    /\ phase[p] = "connect" /\ c = origin[p] /\ {c, p} \subseteq sessions
    /\ Link(c, p)
    /\ UNCHANGED service

LEMMA ConnectShape ==
    ASSUME TypeInv, RegistryInv, NEW t \in Tunnel, ConnectTunnels(t)
    PROVE  \/ \E S, D \in SUBSET Tunnel : Closes(S, D)
           \/ \E c \in Tunnel : Links(c, t)
<1> USE DEF owner
<1>1. TypeOK /\ phase[t] = "connect" /\ UNCHANGED service
  BY DEF ConnectTunnels, TypeInv
<1>2. CASE {origin[t], t} \subseteq sessions
  <2>1. Link(origin[t], t) /\ origin[t] \in Tunnel
    BY <1>1, <1>2 DEF ConnectTunnels, TypeOK
  <2>2. QED
    BY <1>1, <1>2, <2>1 DEF Links
<1>3. CASE ~({origin[t], t} \subseteq sessions)
  <2>1. PICK u \in {t, origin[t]} \intersect Tunnel : CloseTunnelSide(u)
    BY <1>1, <1>3 DEF ConnectTunnels, TypeOK
  <2>2. UNCHANGED <<peer, links>> /\ phase' = [phase EXCEPT ![t] = "done"]
    BY <1>3 DEF ConnectTunnels
  <2>3. /\ \A v \in Tunnel : phase'[v] = "unused" <=> phase[v] = "unused"
        /\ \A v \in Tunnel : phase[v] = "dead" => phase'[v] = "dead"
    BY <1>1, <2>2 DEF TypeOK
  <2>4. QED
    BY <1>1, <2>1, <2>2, <2>3, CloseTunnelSideShape
<1>4. QED
  BY <1>2, <1>3

\* Every step closes and erases sides, accepts one, links two, or ends the service.
LEMMA StepShapes ==
    ASSUME TypeInv, RegistryInv, [Next]_vars
    PROVE  \/ \E S, D \in SUBSET Tunnel : Closes(S, D)
           \/ \E t \in Tunnel : \E o \in {Subscriber} \union dialing : AcceptTunnel(t, o)
           \/ \E c, p \in Tunnel : Links(c, p)
           \/ ServiceDestroyed
<1> DEFINE Shape == \E S, D \in SUBSET Tunnel : Closes(S, D)
<1>0. TypeOK
  BY DEF TypeInv
<1>1. CASE UNCHANGED vars
  <2>1. Closes({}, {})
    BY <1>1 DEF vars, Closes
  <2>2. QED
    BY <2>1
<1>2. CASE AcceptThrows \/ ControlLost \/ ServicesCleared
  <2>1. Closes({}, {})
    BY <1>2 DEF AcceptThrows, ControlLost, ServicesCleared, owner, Closes
  <2>2. QED
    BY <2>1
<1>3. ASSUME NEW o \in {Subscriber} \union dialing, AcceptRefused(o)
      PROVE  Shape
  <2>1. Closes({}, {})
    BY <1>3 DEF AcceptRefused, Closes
  <2>2. QED
    BY <2>1
<1>4. ASSUME NEW t \in Tunnel,
             \/ PeekClient(t) \/ PeekToken(t)
             \/ DeadlinePasses(t) \/ NewTunnelHandled(t) \/ DialFails(t)
      PROVE  Shape
  <2>1. UNCHANGED <<service, sessions, closed, erasing, pipe, peer, links>>
    BY <1>4 DEF PeekClient, InformAboutConnection, PeekToken, DeadlinePasses, NewTunnelHandled, DialFails, owner
  <2>2. /\ \A v \in Tunnel : phase'[v] = "unused" <=> phase[v] = "unused"
        /\ \A v \in Tunnel : phase[v] = "dead" => phase'[v] = "dead"
    BY <1>0, <1>4 DEF PeekClient, InformAboutConnection, PeekToken, DeadlinePasses, NewTunnelHandled, DialFails, TypeOK
  <2>3. Closes({}, {})
    BY <2>1, <2>2 DEF Closes
  <2>4. QED
    BY <2>3
<1>5. ASSUME NEW t \in Tunnel, FirstWritten(t) \/ PipeData(t) \/ PipeWritten(t)
      PROVE  Shape
  <2>1. UNCHANGED <<service, sessions, closed, erasing, phase, peer, links>>
    BY <1>5 DEF FirstWritten, PipeData, PipeWritten, owner
  <2>2. \A v \in Tunnel : pipe'[v] # "none" => pipe[v] # "none"
    BY <1>0, <1>5 DEF FirstWritten, PipeData, PipeWritten, TypeOK
  <2>3. Closes({}, {})
    BY <2>1, <2>2 DEF Closes
  <2>4. QED
    BY <2>3
<1>6. ASSUME NEW t \in Tunnel, PeekFails(t)
      PROVE  Shape
  <2>1. /\ phase[t] = "peek" /\ Close(t) /\ phase' = [phase EXCEPT ![t] = "done"]
        /\ UNCHANGED <<sessions, service, peer, links>>
    BY <1>6 DEF PeekFails, owner
  <2>2. /\ \A v \in Tunnel : phase'[v] = "unused" <=> phase[v] = "unused"
        /\ \A v \in Tunnel : phase[v] = "dead" => phase'[v] = "dead"
    BY <1>0, <2>1 DEF TypeOK
  <2>3. QED
    BY <2>1, <2>2, CloseShape, ReachIsSides
<1>7. ASSUME NEW t \in Tunnel, InactivityHandler(t)
      PROVE  Shape
  <2>1. UNCHANGED <<sessions, service, phase, peer, links>>
    BY <1>7 DEF InactivityHandler, owner
  <2>2. CASE Referenced(t) /\ Close(t)
    BY <2>1, <2>2, CloseShape, ReachIsSides, ReferencedWasAccepted
  <2>3. CASE UNCHANGED <<closed, erasing, pipe>>
    <3>1. Closes({}, {})
      BY <2>1, <2>3 DEF Closes
    <3>2. QED
      BY <3>1
  <2>4. QED
    BY <1>7, <2>2, <2>3 DEF InactivityHandler
<1>8. ASSUME NEW c \in Tunnel, FirstWriteFails(c)
      PROVE  Shape
  <2> DEFINE S == Reach(c) \union Reach(peer[c])
  <2>1. /\ pipe[c] = "first"
        /\ closed' = closed \union S
        /\ erasing' = IF service = "gone" THEN erasing ELSE erasing \union S
        /\ \A v \in Tunnel : pipe'[v] # "none" => pipe[v] # "none"
        /\ UNCHANGED <<sessions, service, phase, peer, links>>
    BY <1>8 DEF FirstWriteFails, owner
  <2>2. peer[c] \in Tunnel
    BY <2>1 DEF TypeInv
  <2>3. phase[c] # "unused" /\ phase[peer[c]] # "unused"
    BY <2>1, <2>2 DEF RegistryInv, ClosedWasAccepted
  <2>4. S \subseteq Tunnel /\ \A u \in S : phase[u] # "unused"
    BY <2>2, <2>3, ReachWasAccepted, ReachIsSides
  <2> HIDE DEF S
  <2>5. Closes(S, {})
    BY <2>1, <2>4 DEF Closes
  <2>6. QED
    BY <2>4, <2>5
<1>9. ASSUME NEW t \in Tunnel, PipeEnd(t)
      PROVE  Shape
  <2> DEFINE S == {u \in {t, peer[t]} \ closed : Referenced(u)}
  <2>1. /\ pipe[t] # "none"
        /\ closed' = closed \union S
        /\ erasing' = IF service = "gone" THEN erasing ELSE erasing \union S
        /\ \A v \in Tunnel : pipe'[v] # "none" => pipe[v] # "none"
        /\ UNCHANGED <<sessions, service, phase, peer, links>>
    BY <1>9 DEF PipeEnd, owner
  <2>2. peer[t] \in Tunnel
    BY <2>1 DEF TypeInv
  <2>3. S \subseteq Tunnel /\ \A u \in S : phase[u] # "unused"
    BY <2>2, ReferencedWasAccepted
  <2> HIDE DEF S
  <2>4. Closes(S, {})
    BY <2>1, <2>3 DEF Closes
  <2>5. QED
    BY <2>3, <2>4
<1>10. ASSUME NEW t \in Tunnel, Erase(t)
       PROVE  Shape
  <2>1. t \in closed
    BY <1>10 DEF Erase, RegistryInv, ClosedWasAccepted
  <2>2. Closes({}, {t})
    BY <1>10, <2>1 DEF Erase, Closes, owner
  <2>3. QED
    BY <2>2
<1>11. ASSUME NEW t \in Tunnel, Destroy(t)
       PROVE  Shape
  <2> DEFINE S == {u \in Tunnel \ closed : HasPipe(t) /\ peer[t] = u /\ Referenced(u)}
  <2>1. /\ Live(t) /\ ~Referenced(t)
        /\ closed' = closed \union S \union {t}
        /\ erasing' = IF service = "gone" THEN erasing ELSE erasing \union S
        /\ \A v \in Tunnel : pipe'[v] # "none" => pipe[v] # "none"
        /\ phase' = [phase EXCEPT ![t] = "dead"]
        /\ UNCHANGED <<sessions, service, peer, links>>
    BY <1>11 DEF Destroy, owner
  <2>2. t \notin sessions
    BY <2>1 DEF Referenced
  <2>3. /\ \A v \in Tunnel : phase'[v] = "unused" <=> phase[v] = "unused"
        /\ \A v \in Tunnel : phase[v] = "dead" => phase'[v] = "dead"
    BY <1>0, <2>1 DEF TypeOK, Live
  <2>4. \A u \in S \union {t} : u \in Tunnel /\ phase[u] # "unused"
    BY <2>1, ReferencedWasAccepted DEF Live
  <2> HIDE DEF S
  <2>5. Closes(S \union {t}, {})
    BY <2>1, <2>2, <2>3, <2>4 DEF Closes
  <2>6. QED
    BY <2>4, <2>5
<1>12. QED
  BY <1>1, <1>2, <1>3, <1>4, <1>5, <1>6, <1>7, <1>8, <1>9, <1>10, <1>11, ConnectShape
     DEF Next, Over

LEMMA RegistryStep == TypeInv /\ RegistryInv /\ [Next]_vars => RegistryInv'
<1> SUFFICES ASSUME TypeInv, RegistryInv, [Next]_vars
             PROVE  RegistryInv'
  OBVIOUS
<1>0. TypeOK /\ TypeOK'
  BY TypeStep DEF TypeInv
<1>1. ASSUME NEW S \in SUBSET Tunnel, NEW D \in SUBSET Tunnel, Closes(S, D)
      PROVE  RegistryInv'
  <2>1. ClosedWasAccepted'
    BY <1>1 DEF Closes, RegistryInv, ClosedWasAccepted
  <2>2. ASSUME service' # "gone", NEW t \in Tunnel, Live(t)', t \notin closed'
        PROVE  t \in sessions'
    BY <1>1, <2>2 DEF Closes, RegistryInv, RegistryMatchesSides, Live
  <2>3. ASSUME service' # "gone", NEW t \in sessions' \intersect closed'
        PROVE  t \in erasing'
    BY <1>1, <2>3 DEF Closes, RegistryInv, RegistryMatchesSides
  <2>4. QED
    BY <1>0, <2>1, <2>2, <2>3 DEF RegistryInv, RegistryMatchesSides
<1>2. ASSUME NEW t \in Tunnel, NEW o \in {Subscriber} \union dialing, AcceptTunnel(t, o)
      PROVE  RegistryInv'
  <2>1. /\ phase[t] = "unused" /\ phase' = [phase EXCEPT ![t] = "peek"]
        /\ sessions' = sessions \union {t}
        /\ UNCHANGED <<service, closed, erasing, pipe, peer>>
    BY <1>2 DEF AcceptTunnel, owner
  <2>2. t \notin closed
    BY <2>1 DEF RegistryInv, ClosedWasAccepted
  <2>3. ClosedWasAccepted'
    <3>1. \A u \in Tunnel : phase'[u] = "unused" => u # t /\ phase[u] = "unused"
      BY <1>0, <2>1 DEF TypeOK
    <3>2. QED
      BY <2>1, <3>1 DEF RegistryInv, ClosedWasAccepted
  <2>4. RegistryMatchesSides'
    <3>1. \A u \in Tunnel : Live(u)' => u = t \/ Live(u)
      BY <1>0, <2>1 DEF Live, TypeOK
    <3>2. QED
      BY <2>1, <2>2, <3>1 DEF RegistryInv, RegistryMatchesSides
  <2>5. QED
    BY <1>0, <2>3, <2>4 DEF RegistryInv
<1>3. ASSUME NEW c \in Tunnel, NEW p \in Tunnel, Links(c, p)
      PROVE  RegistryInv'
  <2>1. /\ {c, p} \subseteq sessions
        /\ pipe' = [pipe EXCEPT ![c] = "first", ![p] = "read"]
        /\ peer' = [peer EXCEPT ![c] = p, ![p] = c]
        /\ phase' = [phase EXCEPT ![c] = "linked", ![p] = "linked"]
        /\ UNCHANGED <<service, sessions, closed, erasing>>
    BY <1>3 DEF Links, Link
  <2>2. ClosedWasAccepted'
    <3>1. erasing' \subseteq closed'
      BY <2>1 DEF RegistryInv, ClosedWasAccepted
    <3>2. ASSUME NEW t \in Tunnel, phase'[t] = "unused"
          PROVE  /\ t \notin closed' \union sessions' /\ pipe'[t] = "none"
                 /\ \A d \in Tunnel : peer'[d] = t => pipe'[d] = "none"
      <4>1. t \notin {c, p} /\ phase[t] = "unused"
        BY <1>0, <2>1, <3>2 DEF TypeOK
      <4>2. QED
        BY <1>0, <2>1, <4>1 DEF TypeOK, RegistryInv, ClosedWasAccepted
    <3>3. QED
      BY <3>1, <3>2 DEF ClosedWasAccepted
  <2>3. RegistryMatchesSides'
    <3>1. \A u \in Tunnel : Live(u)' => u \in {c, p} \/ Live(u)
      BY <1>0, <2>1 DEF Live, TypeOK
    <3>2. QED
      BY <2>1, <3>1 DEF RegistryInv, RegistryMatchesSides
  <2>4. QED
    BY <1>0, <2>2, <2>3 DEF RegistryInv
<1>4. CASE ServiceDestroyed
  BY <1>0, <1>4 DEF ServiceDestroyed, RegistryInv, ClosedWasAccepted, RegistryMatchesSides
<1>5. QED
  BY <1>1, <1>2, <1>3, <1>4, StepShapes

LEMMA RegistryInvHolds == Spec => []RegistryInv
<1>1. Init => TypeInv /\ RegistryInv
  BY TunnelServiceAssumption DEF Init, TypeInv, RegistryInv, TypeOK, Phases, Pipes,
     ClosedWasAccepted, RegistryMatchesSides, Live
<1>2. QED
  BY <1>1, TypeStep, RegistryStep, PTL DEF Spec

\* While the service lives its registry and the state of its sides agree.
THEOREM RegistryIsRight == Spec => []RegistryMatchesSides
<1>1. RegistryInv => RegistryMatchesSides
  BY DEF RegistryInv
<1>2. QED
  BY <1>1, RegistryInvHolds, PTL

-----------------------------------------------------------------------------
(* The promise                                                              *)

\* What a side is in the abstract specification.
sideOf(t) == IF phase[t] = "unused" THEN "absent" ELSE IF t \in closed THEN "closed" ELSE "open"

LEMMA ClosesKeepsPromise ==
    ASSUME NEW S \in SUBSET Tunnel, \A u \in S : phase[u] # "unused",
           closed' = closed \union S, links' = links,
           \A t \in Tunnel : phase'[t] = "unused" <=> phase[t] = "unused"
    PROVE  [Promise!Next]_(Promise!vars)
<1>0. PICK N \in SUBSET Tunnel : N = S \ closed
  OBVIOUS
<1>1. CASE N = {}
  <2>1. closed' = closed
    BY <1>0, <1>1
  <2>2. UNCHANGED Promise!vars
    BY <2>1 DEF Promise!vars
  <2>3. QED
    BY <2>2
<1>2. CASE N # {}
  <2>1. \A t \in N : sideOf(t) = "open"
    BY <1>0 DEF sideOf
  <2>2. \A t \in Tunnel : sideOf(t)' = IF t \in N THEN "closed" ELSE sideOf(t)
    BY <1>0 DEF sideOf
  <2>3. Promise!Close(N)
    BY <1>2, <2>1, <2>2 DEF Promise!Close, sideOf
  <2>4. QED
    BY <2>3 DEF Promise!Next
<1>3. QED
  BY <1>1, <1>2

LEMMA AcceptKeepsPromise ==
    ASSUME TypeInv, RegistryInv, NEW t \in Tunnel, NEW o \in {Subscriber} \union dialing,
           AcceptTunnel(t, o)
    PROVE  [Promise!Next]_(Promise!vars)
<1>1. /\ phase[t] = "unused" /\ phase' = [phase EXCEPT ![t] = "peek"]
      /\ UNCHANGED <<closed, links>> /\ t \notin closed
      /\ phase \in [Tunnel -> Phases]
  BY DEF AcceptTunnel, TypeInv, TypeOK, RegistryInv, ClosedWasAccepted
<1>2. sideOf(t) = "absent" /\ \A u \in Tunnel : sideOf(u)' = IF u = t THEN "open" ELSE sideOf(u)
  BY <1>1 DEF sideOf
<1>3. Promise!Open(t)
  BY <1>1, <1>2 DEF Promise!Open, sideOf
<1>4. QED
  BY <1>3 DEF Promise!Next

LEMMA LinksKeepsPromise ==
    ASSUME TypeInv, LinkInv, RegistryInv, NEW c \in Tunnel, NEW p \in Tunnel, Links(c, p)
    PROVE  [Promise!Next]_(Promise!vars)
<1>1. /\ phase[p] = "connect" /\ c = origin[p] /\ {c, p} \subseteq sessions
      /\ phase' = [phase EXCEPT ![c] = "linked", ![p] = "linked"]
      /\ links' = links \union {<<c, p>>} /\ UNCHANGED closed
      /\ phase \in [Tunnel -> Phases]
  BY DEF Links, Link, TypeInv, TypeOK
<1>2. Asked(c) /\ ~Asked(p) /\ c # p
  BY <1>1 DEF Asked, LinkInv, AskedWasPeeked
<1>3. phase[c] # "unused" /\ phase[p] # "unused"
  BY <1>1 DEF RegistryInv, ClosedWasAccepted
<1>4. \A u \in Tunnel : sideOf(u)' = sideOf(u)
  BY <1>1, <1>3 DEF sideOf
<1>5. ASSUME NEW u \in Tunnel
      PROVE  /\ <<c, u>> \notin links /\ <<u, c>> \notin links
             /\ <<p, u>> \notin links /\ <<u, p>> \notin links
  <2>1. <<u, c>> \notin links
    BY <1>2 DEF LinkInv, LinksFollowTokens
  <2>2. <<p, u>> \notin links /\ <<u, p>> \notin links
    BY <1>1 DEF LinkInv, LinksFollowTokens
  <2>3. <<c, u>> \notin links
    BY <1>1, <2>2 DEF LinkInv, LinksFollowTokens, AskedOnce
  <2>4. QED
    BY <2>1, <2>2, <2>3
<1>6. Promise!Pair(c, p)
  <2>1. ~Promise!Paired(c) /\ ~Promise!Paired(p)
    BY <1>5 DEF Promise!Paired
  <2>2. sideOf(c) # "absent" /\ sideOf(p) # "absent"
    BY <1>3 DEF sideOf
  <2>3. QED
    BY <1>1, <1>2, <1>4, <2>1, <2>2 DEF Promise!Pair, sideOf
<1>7. QED
  BY <1>6 DEF Promise!Next

\* TunnelService implements Tunnels: what the service does to its sides is, step by
\* step, to open one, to close some for good, or to make one tunnel of two fresh ones.
THEOREM ServiceKeepsPromise == Spec => KeepsPromise
<1>1. Init => Promise!Init
  BY DEF Init, Promise!Init
<1>2. TypeInv /\ LinkInv /\ RegistryInv /\ [Next]_vars => [Promise!Next]_(Promise!vars)
  <2> SUFFICES ASSUME TypeInv, LinkInv, RegistryInv, [Next]_vars
               PROVE  [Promise!Next]_(Promise!vars)
    OBVIOUS
  <2>1. ASSUME NEW S \in SUBSET Tunnel, NEW D \in SUBSET Tunnel, Closes(S, D)
        PROVE  [Promise!Next]_(Promise!vars)
    BY <2>1, ClosesKeepsPromise DEF Closes
  <2>2. CASE ServiceDestroyed
    <3>1. UNCHANGED <<phase, closed, links>>
      BY <2>2 DEF ServiceDestroyed
    <3>2. UNCHANGED Promise!vars
      BY <3>1 DEF Promise!vars
    <3>3. QED
      BY <3>2
  <2>3. QED
    BY <2>1, <2>2, StepShapes, AcceptKeepsPromise, LinksKeepsPromise
<1>3. QED
  BY <1>1, <1>2, TypeInvHolds, LinkInvHolds, RegistryInvHolds, PTL
     DEF Spec, KeepsPromise, Promise!Spec

-----------------------------------------------------------------------------
(* Open sides and half-closed tunnels                                         *)

\* A side that was destroyed was closed before.
DeadIsClosed == \A t \in Tunnel : phase[t] = "dead" => t \in closed

\* What a step leaves of a side that is open after it: no new reference and no new
\* life, the clock it had, and no death.
Keeps ==
    /\ closed \subseteq closed'
    /\ \A u \in Tunnel \ closed' :
          /\ Referenced(u)' => Referenced(u)
          /\ Live(u)' => Live(u)
          /\ Referenced(u)' /\ u \in armed \union fired => u \in armed' \union fired'
          /\ phase'[u] = "dead" => phase[u] = "dead"

-----------------------------------------------------------------------------
(* Every step but an accept keeps the open sides                            *)

LEMMA FrameKeeps ==
    ASSUME closed \subseteq closed', UNCHANGED peer,
           \A u \in Tunnel : pipe'[u] = "first" => pipe[u] = "first",
           \A u \in Tunnel : phase'[u] = "connect" => Referenced(u),
           \A u \in Tunnel \ closed' :
              /\ u \in sessions' => u \in sessions
              /\ u \in erasing' => u \in erasing
              /\ Live(u)' => Live(u)
              /\ u \in armed \union fired => u \in armed' \union fired' \/ ~Referenced(u)
              /\ phase'[u] = "dead" => phase[u] = "dead"
    PROVE  Keeps
<1>1. \A u \in Tunnel \ closed' : Referenced(u)' => Referenced(u)
  BY DEF Referenced
<1>2. QED
  BY <1>1 DEF Keeps

\* Closing the sides in S, whatever becomes of their pipes.
LEMMA ClosingKeeps ==
    ASSUME NEW S, closed' = closed \union S, armed' = armed \ S,
           erasing' \subseteq erasing \union S, sessions' \subseteq sessions,
           \A u \in fired \ closed' : u \in fired' \union armed \/ ~Referenced(u),
           UNCHANGED peer,
           \A u \in Tunnel : pipe'[u] = "first" => pipe[u] = "first",
           \A u \in Tunnel : phase'[u] = "connect" => phase[u] = "connect",
           \A u \in Tunnel \ closed' :
              phase'[u] = phase[u] \/ (Live(u) /\ phase'[u] # "dead")
    PROVE  Keeps
<1>1. \A u \in Tunnel : phase'[u] = "connect" => Referenced(u)
  BY DEF Referenced
<1>2. \A u \in Tunnel \ closed' :
         /\ Live(u)' => Live(u)
         /\ phase'[u] = "dead" => phase[u] = "dead"
  BY DEF Live
<1>3. QED
  BY <1>1, <1>2, FrameKeeps

LEMMA CloseKeeps ==
    ASSUME TypeOK, NEW t \in Tunnel, Close(t), sessions' \subseteq sessions,
           \A u \in fired \ closed' : u \in fired' \union armed \/ ~Referenced(u),
           UNCHANGED peer,
           \A u \in Tunnel : phase'[u] = "connect" => phase[u] = "connect",
           \A u \in Tunnel \ closed' :
              phase'[u] = phase[u] \/ (Live(u) /\ phase'[u] # "dead")
    PROVE  Keeps
<1> DEFINE S == Reach(t)
<1>1. /\ closed' = closed \union S /\ armed' = armed \ S
      /\ erasing' \subseteq erasing \union S
      /\ \A u \in Tunnel : pipe'[u] = "first" => pipe[u] = "first"
  BY DEF Close, Shut
<1> HIDE DEF S
<1>2. QED
  BY <1>1, ClosingKeeps

LEMMA CloseTunnelSideKeeps ==
    ASSUME TypeOK, NEW u \in Tunnel, CloseTunnelSide(u), UNCHANGED <<fired, peer>>,
           \A v \in Tunnel : phase'[v] = "connect" => phase[v] = "connect",
           \A v \in Tunnel \ closed' :
              phase'[v] = phase[v] \/ (Live(v) /\ phase'[v] # "dead")
    PROVE  Keeps
<1>1. CASE u \in sessions /\ u \notin closed
  <2>1. Close(u) /\ sessions' \subseteq sessions
    BY <1>1 DEF CloseTunnelSide
  <2>2. QED
    BY <2>1, CloseKeeps
<1>2. CASE ~(u \in sessions /\ u \notin closed)
  <2>1. sessions' \subseteq sessions /\ UNCHANGED <<closed, armed, erasing, pipe>>
    BY <1>2 DEF CloseTunnelSide
  <2>2. QED
    BY <2>1, ClosingKeeps
<1>3. QED
  BY <1>1, <1>2

LEMMA LinksKeeps ==
    ASSUME TypeInv, LinkInv, RegistryInv, DeadIsClosed, NEW c \in Tunnel, NEW p \in Tunnel,
           Links(c, p), UNCHANGED fired
    PROVE  Keeps
<1>1. /\ phase[p] = "connect" /\ {c, p} \subseteq sessions
      /\ pipe' = [pipe EXCEPT ![c] = "first", ![p] = "read"]
      /\ peer' = [peer EXCEPT ![c] = p, ![p] = c]
      /\ phase' = [phase EXCEPT ![c] = "linked", ![p] = "linked"]
      /\ UNCHANGED <<sessions, closed, armed, erasing>>
  BY DEF Links, Link
<1>2. /\ phase \in [Tunnel -> Phases] /\ pipe \in [Tunnel -> Pipes]
      /\ peer \in [Tunnel -> Tunnel \union {None}]
  BY DEF TypeInv, TypeOK
<1>3. phase[c] # "unused"
  BY <1>1 DEF RegistryInv, ClosedWasAccepted
<1>4. \A u \in Tunnel : Referenced(u)' => Referenced(u)
  <2> SUFFICES ASSUME NEW u \in Tunnel, Referenced(u)'
               PROVE  Referenced(u)
    OBVIOUS
  <2>1. CASE u \in {c, p}
    BY <1>1, <2>1 DEF Referenced
  <2>2. CASE u \notin {c, p}
    BY <1>1, <1>2, <2>2 DEF Referenced
  <2>3. QED
    BY <2>1, <2>2
<1>5. \A u \in Tunnel \ closed' : Live(u)' => Live(u)
  BY <1>1, <1>2, <1>3 DEF Live, DeadIsClosed
<1>6. \A u \in Tunnel : phase'[u] = "dead" => phase[u] = "dead"
  BY <1>1, <1>2
<1>7. QED
  BY <1>1, <1>4, <1>5, <1>6 DEF Keeps

LEMMA ConnectKeeps ==
    ASSUME TypeInv, LinkInv, RegistryInv, DeadIsClosed, NEW t \in Tunnel, ConnectTunnels(t)
    PROVE  Keeps
<1>1. TypeOK /\ phase[t] = "connect" /\ UNCHANGED <<service, fired>>
  BY DEF ConnectTunnels, TypeInv, owner
<1>2. CASE {origin[t], t} \subseteq sessions
  <2>1. Link(origin[t], t) /\ origin[t] \in Tunnel
    BY <1>1, <1>2 DEF ConnectTunnels, TypeOK
  <2>2. QED
    BY <1>1, <1>2, <2>1, LinksKeeps DEF Links
<1>3. CASE ~({origin[t], t} \subseteq sessions)
  <2>1. PICK u \in {t, origin[t]} \intersect Tunnel : CloseTunnelSide(u)
    BY <1>1, <1>3 DEF ConnectTunnels, TypeOK
  <2>2. UNCHANGED peer /\ phase' = [phase EXCEPT ![t] = "done"]
    BY <1>3 DEF ConnectTunnels
  <2>3. /\ \A v \in Tunnel : phase'[v] = "connect" => phase[v] = "connect"
        /\ \A v \in Tunnel : phase'[v] = phase[v] \/ (Live(v) /\ phase'[v] # "dead")
    BY <1>1, <2>2 DEF TypeOK, Live
  <2>4. QED
    BY <1>1, <2>1, <2>2, <2>3, CloseTunnelSideKeeps
<1>4. QED
  BY <1>2, <1>3

\* Every step that accepts no side keeps the sides that stay open.
LEMMA StepKeeps ==
    ASSUME TypeInv, LinkInv, RegistryInv, DeadIsClosed, [Next]_vars
    PROVE  \/ Keeps
           \/ \E t \in Tunnel : \E o \in {Subscriber} \union dialing : AcceptTunnel(t, o)
<1>0. TypeOK
  BY DEF TypeInv
<1>1. CASE UNCHANGED vars
  <2>1. UNCHANGED <<sessions, closed, erasing, armed, fired, phase, pipe, peer>>
    BY <1>1 DEF vars
  <2>2. QED
    BY <2>1 DEF Keeps, Referenced, Live
<1>2. CASE AcceptThrows \/ ControlLost \/ ServicesCleared \/ ServiceDestroyed
  <2>1. /\ sessions' \subseteq sessions
        /\ UNCHANGED <<closed, erasing, armed, fired, phase, pipe, peer>>
    BY <1>0, <1>2 DEF AcceptThrows, ControlLost, ServicesCleared, ServiceDestroyed, owner, timers,
                      TypeOK
  <2>2. QED
    BY <2>1 DEF Keeps, Referenced, Live
<1>3. ASSUME NEW o \in {Subscriber} \union dialing, AcceptRefused(o)
      PROVE  Keeps
  <2>1. UNCHANGED <<sessions, closed, erasing, armed, fired, phase, pipe, peer>>
    BY <1>3 DEF AcceptRefused, timers
  <2>2. QED
    BY <2>1 DEF Keeps, Referenced, Live
<1>4. ASSUME NEW t \in Tunnel, PeekClient(t) \/ PeekToken(t)
      PROVE  Keeps
  <2>1. /\ phase[t] = "peek" /\ Referenced(t)
        /\ phase' = [phase EXCEPT ![t] = "waiting"] \/ phase' = [phase EXCEPT ![t] = "connect"]
        /\ UNCHANGED <<sessions, closed, erasing, armed, fired, pipe, peer>>
    BY <1>4 DEF PeekClient, PeekToken, timers
  <2>2. /\ \A u \in Tunnel : phase'[u] = "connect" => Referenced(u)
        /\ \A u \in Tunnel : Live(u)' => Live(u)
        /\ \A u \in Tunnel : phase'[u] = "dead" => phase[u] = "dead"
    BY <1>0, <2>1 DEF TypeOK, Referenced, Live
  <2>3. QED
    BY <2>1, <2>2, FrameKeeps
<1>5. ASSUME NEW t \in Tunnel, NewTunnelHandled(t) \/ DialFails(t) \/ DeadlinePasses(t) \/ Erase(t)
      PROVE  Keeps
  <2>1. /\ sessions' \subseteq sessions /\ erasing' \subseteq erasing
        /\ armed \union fired \subseteq armed' \union fired'
        /\ UNCHANGED <<closed, phase, pipe, peer>>
    BY <1>5 DEF NewTunnelHandled, DialFails, DeadlinePasses, Erase, timers
  <2>2. QED
    BY <2>1 DEF Keeps, Referenced, Live
<1>6. ASSUME NEW t \in Tunnel, FirstWritten(t) \/ PipeData(t) \/ PipeWritten(t)
      PROVE  Keeps
  <2>1. UNCHANGED <<sessions, closed, erasing, fired, phase, peer>> /\ armed \subseteq armed'
    BY <1>6 DEF FirstWritten, PipeData, PipeWritten, timers, ResetTimer
  <2>2. \A u \in Tunnel : pipe'[u] = "first" => pipe[u] = "first"
    BY <1>0, <1>6 DEF FirstWritten, PipeData, PipeWritten, TypeOK
  <2>3. QED
    BY <2>1, <2>2 DEF Keeps, Referenced, Live
<1>7. ASSUME NEW t \in Tunnel, PeekFails(t)
      PROVE  Keeps
  <2>1. /\ phase[t] = "peek" /\ Close(t) /\ phase' = [phase EXCEPT ![t] = "done"]
        /\ UNCHANGED <<sessions, fired, peer>>
    BY <1>7 DEF PeekFails
  <2>2. /\ \A v \in Tunnel : phase'[v] = "connect" => phase[v] = "connect"
        /\ \A v \in Tunnel : phase'[v] = phase[v] \/ (Live(v) /\ phase'[v] # "dead")
    BY <1>0, <2>1 DEF TypeOK, Live
  <2>3. QED
    BY <1>0, <2>1, <2>2, CloseKeeps
<1>8. ASSUME NEW t \in Tunnel, InactivityHandler(t)
      PROVE  Keeps
  <2>1. /\ t \in fired /\ fired' = fired \ {t}
        /\ UNCHANGED <<sessions, phase, peer>>
    BY <1>8 DEF InactivityHandler
  <2>2. CASE t \notin armed /\ Referenced(t)
    <3>1. Close(t)
      BY <1>8, <2>2 DEF InactivityHandler
    <3>2. t \in closed'
      BY <3>1 DEF Close, Shut, Reach
    <3>3. \A u \in fired \ closed' : u \in fired'
      BY <2>1, <3>2
    <3>4. QED
      BY <1>0, <2>1, <3>1, <3>3, CloseKeeps
  <2>3. CASE t \in armed \/ ~Referenced(t)
    <3>1. UNCHANGED <<closed, armed, erasing, pipe>>
      BY <1>8, <2>3 DEF InactivityHandler
    <3>2. QED
      BY <2>1, <2>3, <3>1 DEF Keeps, Referenced, Live
  <2>4. QED
    BY <2>2, <2>3
<1>9. ASSUME NEW c \in Tunnel, FirstWriteFails(c)
      PROVE  Keeps
  <2> DEFINE S == Reach(c) \union Reach(peer[c])
  <2>1. /\ closed' = closed \union S /\ armed' = armed \ S
        /\ erasing' \subseteq erasing \union S
        /\ \A u \in Tunnel : pipe'[u] = "first" => pipe[u] = "first"
        /\ UNCHANGED <<sessions, fired, phase, peer>>
    BY <1>9 DEF FirstWriteFails
  <2> HIDE DEF S
  <2>2. QED
    BY <2>1, ClosingKeeps
<1>10. ASSUME NEW t \in Tunnel, PipeEnd(t)
       PROVE  Keeps
  <2> DEFINE S == {u \in {t, peer[t]} \ closed : Referenced(u)}
  <2>1. /\ closed' = closed \union S /\ armed' = armed \ S
        /\ erasing' \subseteq erasing \union S
        /\ \A u \in Tunnel : pipe'[u] = "first" => pipe[u] = "first"
        /\ UNCHANGED <<sessions, fired, phase, peer>>
    BY <1>10 DEF PipeEnd
  <2> HIDE DEF S
  <2>2. QED
    BY <2>1, ClosingKeeps
<1>11. ASSUME NEW t \in Tunnel, Destroy(t)
       PROVE  Keeps
  <2> DEFINE S == {u \in Tunnel \ closed : HasPipe(t) /\ peer[t] = u /\ Referenced(u)}
  <2> DEFINE R == S \union {t}
  <2>1. /\ Live(t) /\ closed' = closed \union R /\ armed' = armed \ R
        /\ erasing' \subseteq erasing \union R
        /\ \A u \in Tunnel : pipe'[u] = "first" => pipe[u] = "first"
        /\ fired' = fired \ {t} /\ phase' = [phase EXCEPT ![t] = "dead"]
        /\ UNCHANGED <<sessions, peer>>
    BY <1>11 DEF Destroy
  <2>2. t \in R
    OBVIOUS
  <2> HIDE DEF S, R
  <2>3. /\ \A v \in Tunnel : phase'[v] = "connect" => phase[v] = "connect"
        /\ \A v \in Tunnel \ closed' : phase'[v] = phase[v]
        /\ \A v \in fired \ closed' : v \in fired'
    BY <1>0, <2>1, <2>2 DEF TypeOK
  <2>4. QED
    BY <2>1, <2>3, ClosingKeeps
<1>12. QED
  BY <1>1, <1>2, <1>3, <1>4, <1>5, <1>6, <1>7, <1>8, <1>9, <1>10, <1>11, ConnectKeeps
     DEF Next, Over

-----------------------------------------------------------------------------
(* Clocks                                                                   *)

TimedInv == DeadIsClosed /\ OpenSidesAreTimed

LEMMA TimedStep ==
    TypeInv /\ LinkInv /\ RegistryInv /\ TimedInv /\ [Next]_vars => TimedInv'
<1> SUFFICES ASSUME TypeInv, LinkInv, RegistryInv, TimedInv, [Next]_vars
             PROVE  TimedInv'
  OBVIOUS
<1>1. CASE Keeps
  <2>1. DeadIsClosed'
    BY <1>1 DEF Keeps, TimedInv, DeadIsClosed
  <2>2. OpenSidesAreTimed'
    BY <1>1 DEF Keeps, TimedInv, OpenSidesAreTimed
  <2>3. QED
    BY <2>1, <2>2 DEF TimedInv
<1>2. ASSUME NEW t \in Tunnel, NEW o \in {Subscriber} \union dialing, AcceptTunnel(t, o)
      PROVE  TimedInv'
  <2>1. /\ phase' = [phase EXCEPT ![t] = "peek"] /\ sessions' = sessions \union {t}
        /\ armed' = armed \union {t}
        /\ UNCHANGED <<closed, erasing, fired, pipe, peer>>
        /\ phase \in [Tunnel -> Phases]
    BY <1>2 DEF AcceptTunnel, TypeInv, TypeOK
  <2>2. \A u \in Tunnel \ {t} : (Live(u)' => Live(u)) /\ (Referenced(u)' => Referenced(u))
    BY <2>1 DEF Live, Referenced
  <2>3. OpenSidesAreTimed'
    BY <2>1, <2>2 DEF TimedInv, OpenSidesAreTimed
  <2>4. DeadIsClosed'
    BY <2>1 DEF TimedInv, DeadIsClosed
  <2>5. QED
    BY <2>3, <2>4 DEF TimedInv
<1>3. QED
  BY <1>1, <1>2, StepKeeps DEF TimedInv

LEMMA TimedInvHolds == Spec => []TimedInv
<1>1. Init => TimedInv
  BY DEF Init, TimedInv, DeadIsClosed, OpenSidesAreTimed, Live
<1>2. Init => TypeInv /\ LinkInv
  BY TunnelServiceAssumption DEF Init, TypeInv, LinkInv, TypeOK, Phases, Pipes, AskedOnce,
     AskedWasPeeked, LinksFollowTokens, Asked
<1>3. QED
  BY <1>1, <1>2, TypeStep, LinkInvHolds, RegistryInvHolds, TimedStep, PTL DEF Spec

\* No open side that can still be reached is without a clock, whatever closes, links
\* and traffic surround the expiry of its timer.
THEOREM SidesAreTimed == Spec => []OpenSidesAreTimed
<1>1. TimedInv => OpenSidesAreTimed
  BY DEF TimedInv
<1>2. QED
  BY <1>1, TimedInvHolds, PTL

-----------------------------------------------------------------------------
(* Half-closed tunnels                                                      *)

\* The two ends of a tunnel refer to each other, nothing else has a peer, and an
\* open end has a pipe that reads from it, or will.
PeersAreLinked ==
    /\ \A c, p \in Tunnel : <<c, p>> \in links => c # p /\ peer[c] = p /\ peer[p] = c
    /\ \A u \in Tunnel : peer[u] \in Tunnel =>
          /\ <<u, peer[u]>> \in links \/ <<peer[u], u>> \in links
          /\ u \notin closed => pipe[u] # "none"

\* The closed end of a tunnel keeps what will close the other as long as that is open.
ClosedEndsLinger ==
    \A u \in Tunnel :
        (peer[u] \in Tunnel /\ peer[u] \in closed /\ u \notin closed /\ Referenced(u)) =>
            phase[peer[u]] = "linked" /\ pipe[peer[u]] # "none"

PeerInv == PeersAreLinked /\ ClosedEndsLinger

LEMMA LingerImplies == TypeInv /\ PeerInv => HalfClosedIsTransient
<1> SUFFICES ASSUME TypeInv, PeerInv, NEW l \in links, NEW u \in {l[1], l[2]},
                    NEW v \in {l[1], l[2]},
                    u # v, v \in closed, u \notin closed, Referenced(u)
             PROVE  phase[v] = "linked" /\ pipe[v] # "none"
  BY DEF HalfClosedIsTransient
<1>1. links \subseteq Tunnel \X Tunnel
  BY DEF TypeInv, TypeOK
<1>2. PICK c \in Tunnel, p \in Tunnel : l = <<c, p>>
  BY ONLY <1>1, l \in links
<1>3. peer[u] = v /\ u \in Tunnel /\ v \in Tunnel
  BY <1>2 DEF PeerInv, PeersAreLinked
<1>4. QED
  BY <1>3 DEF PeerInv, ClosedEndsLinger

\* A peer's phase, and the symmetry of peers.
LEMMA PeerFacts ==
    ASSUME LinkInv, PeersAreLinked, NEW u \in Tunnel, peer[u] \in Tunnel
    PROVE  /\ peer[peer[u]] = u /\ peer[u] # u
           /\ phase[u] \in {"linked", "dead"} /\ phase[peer[u]] \in {"linked", "dead"}
<1>1. PICK v \in Tunnel : v = peer[u]
  OBVIOUS
<1>2. <<u, v>> \in links \/ <<v, u>> \in links
  BY <1>1 DEF PeersAreLinked
<1>3. u # v /\ peer[v] = u
  BY <1>2 DEF PeersAreLinked
<1>4. phase[u] \in {"linked", "dead"} /\ phase[v] \in {"linked", "dead"}
  BY <1>2 DEF LinkInv, LinksFollowTokens
<1>5. QED
  BY <1>1, <1>3, <1>4

\* A step after which no side lost its pipe without being closed keeps the peers.
LEMMA PeersStay ==
    ASSUME PeersAreLinked, UNCHANGED <<peer, links>>, closed \subseteq closed',
           \A u \in Tunnel \ closed' : pipe[u] # "none" => pipe'[u] # "none"
    PROVE  PeersAreLinked'
BY DEF PeersAreLinked

\* ClosedEndsLinger survives a step that takes no pipe from a side, nor life, while its
\* peer stays open and referenced.
LEMMA LingerStays ==
    ASSUME LinkInv, DeadIsClosed, PeerInv, Keeps, UNCHANGED peer,
           \A u, v \in Tunnel :
              (peer[u] = v /\ peer[v] = u /\ u \notin closed' /\ Referenced(u) /\ pipe[v] # "none") =>
                 phase'[v] = phase[v] /\ pipe'[v] # "none"
    PROVE  ClosedEndsLinger'
<1> SUFFICES ASSUME NEW u \in Tunnel, peer'[u] \in Tunnel, peer'[u] \in closed',
                    u \notin closed', Referenced(u)'
             PROVE  phase'[peer'[u]] = "linked" /\ pipe'[peer'[u]] # "none"
  BY DEF ClosedEndsLinger
<1>1. PICK v \in Tunnel : v = peer[u]
  OBVIOUS
<1>2. Referenced(u) /\ u \notin closed
  BY DEF Keeps
<1>3. peer[v] = u /\ phase[v] \in {"linked", "dead"}
  BY <1>1, PeerFacts DEF PeerInv
<1>4. phase[v] = "linked" /\ pipe[v] # "none"
  <2>1. CASE v \in closed
    BY <1>1, <1>2, <2>1 DEF PeerInv, ClosedEndsLinger
  <2>2. CASE v \notin closed
    BY <1>3, <2>2 DEF PeerInv, PeersAreLinked, DeadIsClosed
  <2>3. QED
    BY <2>1, <2>2
<1>5. QED
  BY <1>1, <1>2, <1>3, <1>4

\* Steps that take no pipe and move no linked side.
LEMMA PipesStayStep ==
    ASSUME LinkInv, DeadIsClosed, PeerInv, Keeps, UNCHANGED <<peer, links>>,
           \A u \in Tunnel : pipe[u] # "none" => pipe'[u] # "none",
           \A u \in Tunnel : phase[u] \in {"linked", "dead"} => phase'[u] = phase[u]
    PROVE  PeerInv'
<1>1. PeersAreLinked'
  BY PeersStay DEF Keeps, PeerInv
<1>2. ASSUME NEW u \in Tunnel, NEW v \in Tunnel, peer[u] = v, peer[v] = u, pipe[v] # "none"
      PROVE  phase'[v] = phase[v] /\ pipe'[v] # "none"
  BY <1>2, PeerFacts DEF PeerInv
<1>3. QED
  BY <1>1, <1>2, LingerStays DEF PeerInv

\* A close of t takes no pipe of a side whose peer it does not close as well.
LEMMA CloseStep ==
    ASSUME LinkInv, DeadIsClosed, PeerInv, Keeps, UNCHANGED <<peer, links>>,
           NEW t \in Tunnel, Close(t),
           \A u \in Tunnel : phase[u] \in {"linked", "dead"} => phase'[u] = phase[u]
    PROVE  PeerInv'
<1>0. pipe \in [Tunnel -> Pipes]
  BY DEF LinkInv, TypeOK
<1>1. /\ closed' = closed \union Reach(t)
      /\ \A u \in Tunnel : pipe'[u] = IF u \in Reach(t) /\ HasPipe(u) THEN "none" ELSE pipe[u]
  BY DEF Close, Shut
<1>2. PeersAreLinked'
  BY <1>1, PeersStay DEF PeerInv
<1>3. ASSUME NEW u \in Tunnel, NEW v \in Tunnel, peer[u] = v, peer[v] = u, u \notin closed',
             Referenced(u), pipe[v] # "none"
      PROVE  phase'[v] = phase[v] /\ pipe'[v] # "none"
  <2>1. phase'[v] = phase[v]
    BY <1>3, PeerFacts DEF PeerInv
  <2>2. ~(v \in Reach(t) /\ HasPipe(v))
    <3>1. u \notin closed /\ u \notin Reach(t)
      BY <1>1, <1>3
    <3>2. CASE v = t
      BY <1>3, <3>1, <3>2 DEF Reach
    <3>3. CASE v # t /\ peer[t] = v
      <4>1. t = u
        BY <1>3, <3>3, PeerFacts DEF PeerInv
      <4>2. QED
        BY <3>1, <4>1 DEF Reach
    <3>4. QED
      BY <3>2, <3>3 DEF Reach
  <2>3. QED
    BY <1>1, <1>3, <2>1, <2>2
<1>4. QED
  BY <1>2, <1>3, LingerStays DEF PeerInv

LEMMA CloseTunnelSideStep ==
    ASSUME LinkInv, DeadIsClosed, PeerInv, Keeps, UNCHANGED <<peer, links>>,
           NEW u \in Tunnel, CloseTunnelSide(u),
           \A v \in Tunnel : phase[v] \in {"linked", "dead"} => phase'[v] = phase[v]
    PROVE  PeerInv'
<1>1. CASE u \in sessions /\ u \notin closed
  BY <1>1, CloseStep DEF CloseTunnelSide
<1>2. CASE ~(u \in sessions /\ u \notin closed)
  BY <1>2, PipesStayStep DEF CloseTunnelSide
<1>3. QED
  BY <1>1, <1>2

LEMMA LinksStep ==
    ASSUME LinkInv, PeerInv, NEW c \in Tunnel, NEW p \in Tunnel, Links(c, p), Keeps
    PROVE  PeerInv'
<1>1. /\ phase[p] = "connect" /\ c = origin[p]
      /\ pipe' = [pipe EXCEPT ![c] = "first", ![p] = "read"]
      /\ peer' = [peer EXCEPT ![c] = p, ![p] = c]
      /\ phase' = [phase EXCEPT ![c] = "linked", ![p] = "linked"]
      /\ links' = links \union {<<c, p>>} /\ UNCHANGED closed
  BY DEF Links, Link
<1>2. /\ phase \in [Tunnel -> Phases] /\ pipe \in [Tunnel -> Pipes]
      /\ peer \in [Tunnel -> Tunnel \union {None}]
  BY DEF LinkInv, TypeOK
<1>3. Asked(c) /\ ~Asked(p) /\ c # p
  BY <1>1 DEF Asked, LinkInv, AskedWasPeeked
<1>4. ASSUME NEW u \in Tunnel
      PROVE  /\ <<c, u>> \notin links /\ <<u, c>> \notin links
             /\ <<p, u>> \notin links /\ <<u, p>> \notin links
  <2>1. <<u, c>> \notin links
    BY <1>3 DEF LinkInv, LinksFollowTokens
  <2>2. <<p, u>> \notin links /\ <<u, p>> \notin links
    BY <1>1 DEF LinkInv, LinksFollowTokens
  <2>3. <<c, u>> \notin links
    BY <1>1, <2>2 DEF LinkInv, LinksFollowTokens, AskedOnce
  <2>4. QED
    BY <2>1, <2>2, <2>3
<1>5. /\ peer'[c] = p /\ peer'[p] = c
      /\ pipe'[c] = "first" /\ pipe'[p] = "read"
      /\ phase'[c] = "linked" /\ phase'[p] = "linked"
      /\ \A u \in Tunnel \ {c, p} :
            peer'[u] = peer[u] /\ pipe'[u] = pipe[u] /\ phase'[u] = phase[u]
  BY <1>1, <1>2, <1>3
<1>6. ASSUME NEW u \in Tunnel \ {c, p}, peer[u] \in Tunnel
      PROVE  peer[u] \notin {c, p} /\ (<<u, peer[u]>> \in links \/ <<peer[u], u>> \in links)
  <2>1. <<u, peer[u]>> \in links \/ <<peer[u], u>> \in links
    BY <1>6 DEF PeerInv, PeersAreLinked
  <2>2. QED
    BY <1>4, <2>1
<1>7. PeersAreLinked'
  <2>1. ASSUME NEW d \in Tunnel, NEW q \in Tunnel, <<d, q>> \in links'
        PROVE  d # q /\ peer'[d] = q /\ peer'[q] = d
    <3>1. CASE d = c /\ q = p
      BY <1>3, <1>5, <3>1
    <3>2. CASE <<d, q>> \in links
      <4>1. d \notin {c, p} /\ q \notin {c, p}
        BY <1>4, <3>2
      <4>2. QED
        BY <1>5, <3>2, <4>1 DEF PeerInv, PeersAreLinked
    <3>3. QED
      BY <1>1, <2>1, <3>1, <3>2
  <2>2. ASSUME NEW u \in Tunnel, peer'[u] \in Tunnel
        PROVE  /\ <<u, peer'[u]>> \in links' \/ <<peer'[u], u>> \in links'
               /\ u \notin closed' => pipe'[u] # "none"
    <3>0. /\ links \subseteq links' /\ <<c, p>> \in links'
      BY <1>1
    <3>1. CASE u \in {c, p}
      <4>1. <<u, peer'[u]>> \in links' \/ <<peer'[u], u>> \in links'
        BY <1>5, <3>0, <3>1
      <4>2. pipe'[u] # "none"
        BY <1>5, <3>1
      <4>3. QED
        BY <4>1, <4>2
    <3>2. CASE u \notin {c, p}
      <4>1. peer'[u] = peer[u] /\ pipe'[u] = pipe[u]
        BY <1>5, <3>2
      <4>2. PICK v \in Tunnel : v = peer[u]
        BY <2>2, <4>1
      <4>3. <<u, v>> \in links \/ <<v, u>> \in links
        BY <1>6, <3>2, <4>2
      <4>4. u \notin closed => pipe[u] # "none"
        BY <4>2 DEF PeerInv, PeersAreLinked
      <4>5. <<u, v>> \in links' \/ <<v, u>> \in links'
        BY <3>0, <4>3
      <4>6. QED
        BY <1>1, <4>1, <4>2, <4>4, <4>5
    <3>3. QED
      BY <3>1, <3>2
  <2>3. QED
    BY <2>1, <2>2 DEF PeersAreLinked
<1>8. ASSUME NEW u \in Tunnel, peer'[u] \in Tunnel, peer'[u] \in closed',
             u \notin closed', Referenced(u)'
      PROVE  phase'[peer'[u]] = "linked" /\ pipe'[peer'[u]] # "none"
  <2>1. CASE u \in {c, p}
    BY <1>5, <2>1
  <2>2. CASE u \notin {c, p}
    <3>1. Referenced(u) /\ peer'[u] = peer[u] /\ peer[u] \notin {c, p}
      BY <1>5, <1>6, <1>8, <2>2 DEF Keeps
    <3>2. PICK v \in Tunnel : v = peer[u]
      BY <1>8, <3>1
    <3>3. phase[v] = "linked" /\ pipe[v] # "none"
      BY <1>1, <1>8, <3>1, <3>2 DEF PeerInv, ClosedEndsLinger
    <3>4. QED
      BY <1>5, <3>1, <3>2, <3>3
  <2>3. QED
    BY <2>1, <2>2
<1>9. QED
  BY <1>7, <1>8 DEF PeerInv, ClosedEndsLinger

LEMMA FirstWriteFailsStep ==
    ASSUME TypeInv, LinkInv, DeadIsClosed, PeerInv, Keeps, NEW c \in Tunnel, FirstWriteFails(c)
    PROVE  PeerInv'
<1> DEFINE S == Reach(c) \union Reach(peer[c])
<1>0. pipe \in [Tunnel -> Pipes]
  BY DEF LinkInv, TypeOK
<1>1. /\ pipe[c] = "first" /\ closed' = closed \union S
      /\ \A u \in Tunnel :
            pipe'[u] = IF u = c \/ (u \in S /\ HasPipe(u)) THEN "none" ELSE pipe[u]
      /\ UNCHANGED <<phase, peer, links>>
  BY DEF FirstWriteFails
<1>2. PICK d \in Tunnel : d = peer[c]
  BY <1>1 DEF TypeInv
<1>3. peer[d] = c /\ c # d
  BY <1>2, PeerFacts DEF PeerInv
<1>4. c \in closed \union S /\ d \in closed \union S /\ S \subseteq {c, d}
  BY <1>2, <1>3 DEF Reach
<1> HIDE DEF S
<1>5. \A u \in Tunnel \ closed' : u \notin {c, d}
  BY <1>1, <1>4
<1>6. PeersAreLinked'
  BY <1>1, <1>4, <1>5, PeersStay DEF PeerInv
<1>7. \A u, v \in Tunnel : peer[u] = v /\ peer[v] = u /\ u \notin closed' => v \notin {c, d}
  BY <1>2, <1>3, <1>5
<1>8. QED
  BY <1>1, <1>4, <1>6, <1>7, LingerStays DEF PeerInv

LEMMA PipeEndStep ==
    ASSUME TypeInv, LinkInv, DeadIsClosed, PeerInv, Keeps, NEW t \in Tunnel, PipeEnd(t)
    PROVE  PeerInv'
<1> DEFINE S == {u \in {t, peer[t]} \ closed : Referenced(u)}
<1>0. pipe \in [Tunnel -> Pipes]
  BY DEF LinkInv, TypeOK
<1>1. /\ pipe[t] # "none" /\ Referenced(t) /\ closed' = closed \union S
      /\ \A u \in Tunnel :
            pipe'[u] = IF u \in S /\ HasPipe(u) THEN "none"
                       ELSE IF u = t THEN "stalled" ELSE pipe[u]
      /\ UNCHANGED <<phase, peer, links>>
  BY DEF PipeEnd
<1>2. PICK d \in Tunnel : d = peer[t]
  BY <1>1 DEF TypeInv
<1>3. peer[d] = t /\ t # d
  BY <1>2, PeerFacts DEF PeerInv
<1>4. /\ S \subseteq {t, d}
      /\ \A u \in {t, d} : u \notin closed /\ Referenced(u) => u \in S
  BY <1>2
<1> HIDE DEF S
<1>5. \A u \in Tunnel : u \notin closed' /\ Referenced(u) => u \notin {t, d}
  BY <1>1, <1>4
<1>6. PeersAreLinked'
  BY <1>1, PeersStay DEF PeerInv
<1>7. \A u, v \in Tunnel :
         peer[u] = v /\ peer[v] = u /\ u \notin closed' /\ Referenced(u) => v \notin {t, d}
  BY <1>2, <1>3, <1>5
<1>8. QED
  BY <1>1, <1>4, <1>6, <1>7, LingerStays DEF PeerInv

LEMMA DestroyStep ==
    ASSUME TypeInv, LinkInv, DeadIsClosed, PeerInv, Keeps, NEW t \in Tunnel, Destroy(t)
    PROVE  PeerInv'
<1> DEFINE S == {u \in Tunnel \ closed : HasPipe(t) /\ peer[t] = u /\ Referenced(u)}
<1>0. pipe \in [Tunnel -> Pipes] /\ phase \in [Tunnel -> Phases]
  BY DEF LinkInv, TypeOK
<1>1. /\ ~Referenced(t) /\ closed' = closed \union S \union {t}
      /\ \A u \in Tunnel :
            pipe'[u] = IF u = t \/ (u \in S /\ HasPipe(u)) THEN "none" ELSE pipe[u]
      /\ phase' = [phase EXCEPT ![t] = "dead"]
      /\ UNCHANGED <<peer, links>>
  BY DEF Destroy
<1>2. \A u \in S : u \in closed' /\ peer[t] = u
  BY <1>1
<1>3. ASSUME NEW u \in Tunnel, NEW v \in Tunnel, peer[u] = v, peer[v] = u, u \notin closed',
             Referenced(u), pipe[v] # "none"
      PROVE  v # t /\ v \notin S
  <2>1. u \notin closed /\ u \notin S /\ u # t
    BY <1>1, <1>3
  <2>2. v # t
    <3>1. pipe[t] # "first"
      BY <1>1 DEF Referenced
    <3>2. v = t => HasPipe(t)
      BY <1>0, <1>3, <3>1 DEF HasPipe, Pipes
    <3>3. QED
      BY <1>3, <2>1, <3>2
  <2>3. v \notin S
    BY <1>2, <1>3, <2>1, PeerFacts DEF PeerInv
  <2>4. QED
    BY <2>2, <2>3
<1> HIDE DEF S
<1>4. PeersAreLinked'
  BY <1>1, PeersStay DEF PeerInv
<1>5. QED
  BY <1>0, <1>1, <1>3, <1>4, LingerStays DEF PeerInv

LEMMA PeerStep ==
    TypeInv /\ LinkInv /\ RegistryInv /\ TimedInv /\ PeerInv /\ [Next]_vars => PeerInv'
<1> SUFFICES ASSUME TypeInv, LinkInv, RegistryInv, TimedInv, PeerInv, [Next]_vars
             PROVE  PeerInv'
  OBVIOUS
<1>0. TypeOK /\ DeadIsClosed
  BY DEF TypeInv, TimedInv
<1>1. ASSUME NEW t \in Tunnel, NEW o \in {Subscriber} \union dialing, AcceptTunnel(t, o)
      PROVE  PeerInv'
  <2>1. /\ phase[t] = "unused"
        /\ phase' = [phase EXCEPT ![t] = "peek"] /\ sessions' = sessions \union {t}
        /\ UNCHANGED <<closed, erasing, pipe, peer, links>>
    BY <1>1 DEF AcceptTunnel
  <2>2. \A u \in Tunnel : u # t => (Referenced(u)' => Referenced(u)) /\ phase'[u] = phase[u]
    BY <1>0, <2>1 DEF Referenced, TypeOK
  <2>3. \A u \in Tunnel : peer[u] \in Tunnel => u # t /\ peer[u] # t
    BY <2>1, PeerFacts DEF PeerInv
  <2>4. PeersAreLinked'
    BY <2>1, PeersStay DEF PeerInv
  <2>5. ClosedEndsLinger'
    BY <2>1, <2>2, <2>3 DEF PeerInv, ClosedEndsLinger
  <2>6. QED
    BY <2>4, <2>5 DEF PeerInv
<1>2. CASE Keeps
  <2>1. CASE UNCHANGED vars
    BY <1>0, <1>2, <2>1, PipesStayStep DEF vars
  <2>2. CASE AcceptThrows \/ ControlLost \/ ServicesCleared \/ ServiceDestroyed
    <3>1. UNCHANGED <<phase, pipe, peer, links>>
      BY <2>2 DEF AcceptThrows, ControlLost, ServicesCleared, ServiceDestroyed
    <3>2. QED
      BY <1>0, <1>2, <3>1, PipesStayStep
  <2>3. ASSUME NEW o \in {Subscriber} \union dialing, AcceptRefused(o)
        PROVE  PeerInv'
    <3>1. UNCHANGED <<phase, pipe, peer, links>>
      BY <2>3 DEF AcceptRefused
    <3>2. QED
      BY <1>0, <1>2, <3>1, PipesStayStep
  <2>4. ASSUME NEW t \in Tunnel,
               \/ PeekClient(t) \/ PeekToken(t) \/ NewTunnelHandled(t) \/ DialFails(t)
               \/ DeadlinePasses(t) \/ Erase(t)
               \/ FirstWritten(t) \/ PipeData(t) \/ PipeWritten(t)
        PROVE  PeerInv'
    <3>1. /\ UNCHANGED <<peer, links>>
          /\ \A u \in Tunnel : phase[u] \in {"linked", "dead"} => phase'[u] = phase[u]
          /\ \A u \in Tunnel : pipe[u] # "none" => pipe'[u] # "none"
      BY <1>0, <2>4 DEF TypeOK, PeekClient, PeekToken, NewTunnelHandled, DialFails, DeadlinePasses,
                        Erase, FirstWritten, PipeData, PipeWritten
    <3>2. QED
      BY <1>0, <1>2, <3>1, PipesStayStep
  <2>5. ASSUME NEW t \in Tunnel, PeekFails(t)
        PROVE  PeerInv'
    <3>1. /\ UNCHANGED <<peer, links>> /\ Close(t)
          /\ \A u \in Tunnel : phase[u] \in {"linked", "dead"} => phase'[u] = phase[u]
      BY <1>0, <2>5 DEF TypeOK, PeekFails
    <3>2. QED
      BY <1>0, <1>2, <3>1, CloseStep
  <2>6. ASSUME NEW t \in Tunnel, InactivityHandler(t)
        PROVE  PeerInv'
    <3>1. UNCHANGED <<phase, peer, links>> /\ (Close(t) \/ UNCHANGED pipe)
      BY <2>6 DEF InactivityHandler
    <3>2. QED
      BY <1>0, <1>2, <3>1, CloseStep, PipesStayStep
  <2>7. ASSUME NEW t \in Tunnel, ConnectTunnels(t)
        PROVE  PeerInv'
    <3>1. phase[t] = "connect" /\ UNCHANGED owner
      BY <2>7 DEF ConnectTunnels
    <3>2. CASE {origin[t], t} \subseteq sessions
      <4>1. Link(origin[t], t) /\ origin[t] \in Tunnel
        BY <1>0, <2>7, <3>2 DEF ConnectTunnels, TypeOK
      <4>2. QED
        BY <1>2, <3>1, <3>2, <4>1, LinksStep DEF Links, owner
    <3>3. CASE ~({origin[t], t} \subseteq sessions)
      <4>1. PICK u \in {t, origin[t]} \intersect Tunnel : CloseTunnelSide(u)
        BY <1>0, <2>7, <3>3 DEF ConnectTunnels, TypeOK
      <4>2. UNCHANGED <<peer, links>> /\ phase' = [phase EXCEPT ![t] = "done"]
        BY <2>7, <3>3 DEF ConnectTunnels
      <4>3. \A v \in Tunnel : phase[v] \in {"linked", "dead"} => phase'[v] = phase[v]
        BY <1>0, <3>1, <4>2 DEF TypeOK
      <4>4. QED
        BY <1>0, <1>2, <4>1, <4>2, <4>3, CloseTunnelSideStep
    <3>4. QED
      BY <3>2, <3>3
  <2>8. QED
    BY <1>0, <1>1, <1>2, <2>1, <2>2, <2>3, <2>4, <2>5, <2>6, <2>7, FirstWriteFailsStep,
       PipeEndStep, DestroyStep DEF Next, Over
<1>3. QED
  BY <1>0, <1>1, <1>2, StepKeeps

\* When one end of a tunnel is closed while the other is open, what will close the other
\* is still there.
THEOREM HalfClosedEnds == Spec => []HalfClosedIsTransient
<1>1. Init => TypeInv /\ PeerInv
  BY TunnelServiceAssumption DEF Init, TypeInv, TypeOK, Phases, Pipes, PeerInv, PeersAreLinked,
     ClosedEndsLinger
<1>2. QED
  BY <1>1, TypeStep, LinkInvHolds, RegistryInvHolds, TimedInvHolds, PeerStep, LingerImplies, PTL
     DEF Spec

-----------------------------------------------------------------------------
(* The composition with the publisher                                         *)

\* A step of the composition is a step of the broker or none of its own,
LEMMA PathStepOfBroker == [PathNext]_pathVars => [Next]_vars
<1>1. ASSUME NEW c \in Tunnel, NewTunnelAnswered(c) PROVE Next
  BY <1>1 DEF NewTunnelAnswered, Next
<1>2. CASE BrokerAlone
  BY <1>2 DEF BrokerAlone
<1>3. ASSUME NEW c \in Tunnel, PublisherAlone(c) PROVE UNCHANGED vars
  BY <1>3 DEF PublisherAlone
<1>4. CASE PublisherDies
  BY <1>4 DEF PublisherDies
<1>5. CASE UNCHANGED pathVars
  BY <1>5 DEF pathVars
<1>6. QED
  BY <1>1, <1>2, <1>3, <1>4, <1>5 DEF PathNext

\* and a step of the publisher or none of its own.
LEMMA PathStepOfPublisher == [PathNext]_pathVars => [Ends!Next]_publisherEnds
<1>1. ASSUME NEW c \in Tunnel, NewTunnelAnswered(c) PROVE Ends!Next
  BY <1>1 DEF NewTunnelAnswered, Ends!Next
<1>2. CASE BrokerAlone
  BY <1>2 DEF BrokerAlone
<1>3. ASSUME NEW c \in Tunnel, PublisherAlone(c) PROVE Ends!Next
  BY <1>3 DEF PublisherAlone, Ends!Next
<1>4. CASE PublisherDies
  BY <1>4 DEF PublisherDies, Ends!Next
<1>5. CASE UNCHANGED pathVars
  BY <1>5 DEF pathVars
<1>6. QED
  BY <1>1, <1>2, <1>3, <1>4, <1>5 DEF PathNext

\* At the end of a tunnel path the broker does what TunnelService says, so all that
\* is proved of it holds there: the publisher only adds to when it may move.
THEOREM PathImplementsService == PathSpec => Spec
<1>1. PathInit => Init
  BY DEF PathInit
<1>2. QED
  BY <1>1, PathStepOfBroker, PTL DEF PathSpec, Spec

\* And the publisher does what PublisherEnds promises for it.
THEOREM PathImplementsEnds == PathSpec => Ends!Spec
<1>1. PathInit => Ends!Init
  BY DEF PathInit
<1>2. [PathNext]_pathVars => [Ends!Next]_(Ends!publisherEnds)
  BY PathStepOfPublisher DEF publisherEnds, Ends!publisherEnds
<1>3. QED
  BY <1>1, <1>2, PTL DEF PathSpec, Ends!Spec

\* Whom the publisher has dialled for.
Dialled(c) == c \in dialing \/ \E p \in Tunnel : origin[p] = c

\* What the two processes agree on about a tunnel: a message for it is unanswered
\* only while the publisher has nothing for it yet (or has ended), a connection for it
\* was made by the publisher, and the publisher holds connections only for a side
\* that the broker has peeked at.
Agreed(c) ==
    /\ c \in requests => made[c] \in {"not", "over"}
    /\ Dialled(c) => made[c] # "not"
    /\ made[c] \in {"half", "pair"} =>
          phase[c] \in {"waiting", "linked", "dead"}

EndsAgree == \A c \in Tunnel : Agreed(c)

\* What a step of the broker alone leaves of that.
LEMMA BrokerAloneKeeps ==
    ASSUME TypeOK, LinkInv, [Next]_vars, \A c \in Tunnel : ~NewTunnelHandled(c),
           NEW c \in Tunnel
    PROVE  /\ c \in requests' => c \in requests \/ phase[c] = "peek"
           /\ Dialled(c)' => Dialled(c)
           /\ phase[c] \in {"waiting", "linked", "dead"} =>
                 /\ phase'[c] \in {"waiting", "linked", "dead"}
                 /\ origin'[c] = origin[c]
<1> USE TunnelServiceAssumption
<1>1. CASE UNCHANGED <<phase, origin, requests, dialing>>
  BY <1>1 DEF Dialled
<1>2. ASSUME NEW t \in Tunnel, NEW o \in {Subscriber} \union dialing, AcceptTunnel(t, o)
      PROVE  /\ c \in requests' => c \in requests
             /\ Dialled(c)' => Dialled(c)
             /\ phase[c] # "unused" => phase'[c] = phase[c] /\ origin'[c] = origin[c]
  BY <1>2 DEF AcceptTunnel, Dialled, TypeOK
<1>3. ASSUME NEW o \in {Subscriber} \union dialing, AcceptRefused(o)
      PROVE  dialing' \subseteq dialing /\ UNCHANGED <<phase, origin, requests>>
  BY <1>3 DEF AcceptRefused
<1>4. ASSUME NEW t \in Tunnel,
             \/ FirstWritten(t) \/ FirstWriteFails(t)
             \/ PipeData(t) \/ PipeWritten(t) \/ PipeEnd(t)
             \/ DeadlinePasses(t) \/ InactivityHandler(t) \/ Erase(t)
      PROVE  UNCHANGED <<phase, origin, requests, dialing>>
  BY <1>4 DEF FirstWritten, FirstWriteFails, PipeData, PipeWritten, PipeEnd, DeadlinePasses,
     InactivityHandler, Erase, world
<1>5. ASSUME AcceptThrows \/ ServicesCleared \/ ServiceDestroyed \/ Over \/ UNCHANGED vars
      PROVE  UNCHANGED <<phase, origin, requests, dialing>>
  BY <1>5 DEF AcceptThrows, ServicesCleared, ServiceDestroyed, Over, world, vars
<1>6. ASSUME ControlLost
      PROVE  requests' = {} /\ UNCHANGED <<phase, origin, dialing>>
  BY <1>6 DEF ControlLost
<1>7. ASSUME NEW t \in Tunnel, DialFails(t)
      PROVE  dialing' \subseteq dialing /\ UNCHANGED <<phase, origin, requests>>
  BY <1>7 DEF DialFails
<1>8. ASSUME NEW t \in Tunnel, PeekFails(t) \/ PeekToken(t) \/ Destroy(t)
      PROVE  /\ UNCHANGED <<origin, requests, dialing>>
             /\ phase[c] \in {"waiting", "linked", "dead"} => phase'[c] \in {phase[c], "dead"}
  BY <1>8 DEF PeekFails, PeekToken, Destroy, world, TypeOK
<1>9. ASSUME NEW t \in Tunnel, PeekClient(t)
      PROVE  /\ UNCHANGED <<origin, dialing>> /\ requests' \subseteq requests \union {t}
             /\ phase[t] = "peek" /\ phase' = [phase EXCEPT ![t] = "waiting"]
  BY <1>9 DEF PeekClient, InformAboutConnection
<1>10. ASSUME NEW t \in Tunnel, ConnectTunnels(t)
       PROVE  /\ UNCHANGED <<origin, requests, dialing>>
              /\ phase[c] \in {"waiting", "linked", "dead"} => phase'[c] \in {phase[c], "linked"}
  <2>1. phase[t] = "connect" /\ UNCHANGED <<origin, requests, dialing>>
    BY <1>10 DEF ConnectTunnels, world
  <2>2. \/ phase' = [phase EXCEPT ![t] = "done"]
        \/ phase' = [phase EXCEPT ![origin[t]] = "linked", ![t] = "linked"]
    BY <1>10 DEF ConnectTunnels, Link
  <2>3. QED
    BY <2>1, <2>2 DEF TypeOK
<1>11. QED
  BY <1>1, <1>2, <1>3, <1>4, <1>5, <1>6, <1>7, <1>8, <1>9, <1>10 DEF Next, Dialled, TypeOK

LEMMA AgreeStep ==
    TypeInv /\ LinkInv /\ Ends!TypeOK /\ EndsAgree /\ [PathNext]_pathVars => EndsAgree'
<1> SUFFICES ASSUME TypeInv, LinkInv, Ends!TypeOK, EndsAgree, [PathNext]_pathVars,
                    NEW c \in Tunnel
             PROVE  Agreed(c)'
  BY DEF EndsAgree
<1>0. /\ Agreed(c) /\ TypeOK
      /\ made \in [Tunnel -> {"not", "half", "pair", "over"}]
  BY DEF EndsAgree, TypeInv, Ends!TypeOK
<1>1. ASSUME NEW t \in Tunnel, NewTunnelAnswered(t)
      PROVE  Agreed(c)'
  <2>1. /\ t \in requests /\ requests' = requests \ {t}
        /\ dialing' \in {dialing, dialing \union {t}}
        /\ UNCHANGED <<phase, origin>>
        /\ made[t] = "not"
        /\ made' = [made EXCEPT ![t] = "half"] \/ made' = [made EXCEPT ![t] = "over"]
    BY <1>1 DEF NewTunnelAnswered, NewTunnelHandled, Ends!Dial, Ends!Become
  <2>2. CASE c = t
    <3>1. Asked(c)
      BY <2>1, <2>2 DEF Asked
    <3>2. phase[c] \in {"waiting", "linked", "dead"}
      BY <3>1 DEF LinkInv, AskedWasPeeked
    <3>3. QED
      BY <1>0, <2>1, <2>2, <3>2 DEF Agreed
  <2>3. CASE c # t
    <3>1. made'[c] = made[c] /\ (Dialled(c)' => Dialled(c)) /\ (c \in requests' => c \in requests)
      BY <1>0, <2>1, <2>3 DEF Dialled
    <3>2. QED
      BY <1>0, <2>1, <3>1 DEF Agreed
  <2>4. QED
    BY <2>2, <2>3
<1>2. CASE BrokerAlone
  <2>1. UNCHANGED made /\ Next /\ \A t \in Tunnel : ~NewTunnelHandled(t)
    BY <1>2 DEF BrokerAlone, publisherEnds, NewTunnelHandled
  <2>2. /\ c \in requests' => c \in requests \/ phase[c] = "peek"
        /\ Dialled(c)' => Dialled(c)
        /\ phase[c] \in {"waiting", "linked", "dead"} =>
              phase'[c] \in {"waiting", "linked", "dead"} /\ origin'[c] = origin[c]
    BY <1>0, <2>1, BrokerAloneKeeps
  <2>3. QED
    BY <1>0, <2>1, <2>2 DEF Agreed
<1>3. ASSUME NEW t \in Tunnel, PublisherAlone(t)
      PROVE  Agreed(c)'
  <2>1. UNCHANGED <<phase, origin, requests, dialing>>
    BY <1>3 DEF PublisherAlone, vars
  <2>2. /\ made[t] \in {"half", "pair"}
        /\ made' = [made EXCEPT ![t] = "pair"] \/ made' = [made EXCEPT ![t] = "over"]
    BY <1>3 DEF PublisherAlone, Ends!Complete, Ends!Forget, Ends!CloseEnd, Ends!Become
  <2>3. QED
    BY <1>0, <2>1, <2>2 DEF Agreed, Dialled
<1>4. CASE PublisherDies
  <2>1. UNCHANGED <<phase, origin, requests, dialing>> /\ made'[c] = "over"
    BY <1>4 DEF PublisherDies, vars, Ends!Die
  <2>2. QED
    BY <2>1 DEF Agreed, Dialled
<1>5. CASE UNCHANGED pathVars
  BY <1>0, <1>5 DEF pathVars, vars, publisherEnds, Agreed, Dialled
<1>6. QED
  BY <1>1, <1>2, <1>3, <1>4, <1>5 DEF PathNext

LEMMA EndsTyped == PathSpec => []Ends!TypeOK
<1>1. PathInit => Ends!TypeOK
  BY DEF PathInit, Ends!Init, Ends!TypeOK
<1>2. Ends!TypeOK /\ [Ends!Next]_publisherEnds => Ends!TypeOK'
  BY DEF Ends!TypeOK, Ends!Next, Ends!Dial, Ends!Complete, Ends!Forget, Ends!CloseEnd, Ends!Die,
     Ends!Become, publisherEnds
<1>3. QED
  BY <1>1, <1>2, PathStepOfPublisher, PTL DEF PathSpec

\* Whatever is lost, closed or ended in between, the broker and the publisher agree on
\* every tunnel: a side is dialled for at most once, and only after it was peeked at.
THEOREM EndsAlwaysAgree == PathSpec => []EndsAgree
<1>1. PathInit => EndsAgree
  BY TunnelServiceAssumption DEF PathInit, Init, Ends!Init, EndsAgree, Agreed, Dialled
<1>2. PathSpec => []TypeInv /\ []LinkInv
  BY PathImplementsService, TypeInvHolds, LinkInvHolds, PTL
<1>3. QED
  BY <1>1, <1>2, AgreeStep, EndsTyped, PTL DEF PathSpec
=============================================================================
