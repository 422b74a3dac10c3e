--------------------------- MODULE NodePublisherProofs ---------------------------
(***************************************************************************)
(* Proofs about NodePublisher, for any number of websockets and sessions:   *)
(* it keeps one control line or one retry going until an attempt throws,    *)
(* and a session it has forgotten leaves no socket that nobody closes.      *)
(***************************************************************************)
EXTENDS NodePublisher, FiniteSetTheorems, TLAPS

\* The websockets that are not closed.
Live == {w \in Line : ~Gone(line[w])}

\* As long as nobody stops the publisher, each part of the token has a websocket, a
\* retry, or an attempt that threw.
LineInv ==
    Up /\ ~shallDie =>
        /\ Cardinality(Live) + retries + thrown = parts
        /\ ~chunked => token # "partial" /\ parts = IF token = "received" THEN 1 ELSE 0

Types ==
    /\ token \in {"asked", "partial", "received"}
    /\ ws \in 0 .. MaxLines
    /\ line \in [Line -> States]
    /\ retries \in Nat /\ parts \in Nat /\ thrown \in Nat
    /\ chunked \in BOOLEAN /\ shallDie \in BOOLEAN
    /\ \A w \in Line : w > ws => line[w] = "none"

Inv == Types /\ LineInv

-----------------------------------------------------------------------------
(* The control line                                                         *)

LEMMA LinesAreFinite ==
    ASSUME NEW W, W \subseteq Line
    PROVE  IsFiniteSet(W) /\ Cardinality(W) \in Nat
<1>1. IsFiniteSet(Line)
  BY NodePublisherAssumption, FS_Interval DEF Line
<1>2. IsFiniteSet(W)
  BY <1>1, FS_Subset
<1>3. QED
  BY <1>2, FS_CardinalityType

LEMMA LiveIsFinite == IsFiniteSet(Live) /\ Cardinality(Live) \in Nat
<1>1. Live \subseteq Line
  BY DEF Live
<1>2. QED
  BY <1>1, LinesAreFinite

\* Connecting adds a websocket to those that are not closed, or throws.
LEMMA ConnectAdds ==
    ASSUME Types, Connect
    PROVE  /\ ws' \in 0 .. MaxLines /\ line' \in [Line -> States] /\ thrown' \in Nat
           /\ \A w \in Line : w > ws' => line'[w] = "none"
           /\ ~shallDie => Cardinality(Live') + thrown' = Cardinality(Live) + thrown + 1
<1>1. CASE shallDie
  BY <1>1 DEF Connect, Types
<1>2. CASE ~shallDie /\ ws < MaxLines /\ ws' = ws + 1 /\ thrown' = thrown
           /\ line' = [line EXCEPT ![ws + 1] = "connecting"]
  <2>1. ws' \in 0 .. MaxLines /\ ws + 1 \in Line /\ ws + 1 > ws
    BY <1>2, NodePublisherAssumption DEF Types, Line
  <2>2. line' \in [Line -> States]
    BY <1>2 DEF Types, States
  <2>3. ASSUME NEW w \in Line, w > ws'
        PROVE  line'[w] = "none"
    <3>1. w > ws /\ w # ws + 1
      BY <1>2, <2>3, NodePublisherAssumption DEF Types, Line
    <3>2. QED
      BY <1>2, <3>1 DEF Types
  <2>4. line[ws + 1] = "none"
    BY <2>1 DEF Types
  <2>5. Live' = Live \union {ws + 1} /\ ws + 1 \notin Live
    BY <1>2, <2>1, <2>4 DEF Live, Gone, Types
  <2>6. Cardinality(Live \union {ws + 1}) = Cardinality(Live) + 1
    BY <2>5, LiveIsFinite, FS_AddElement
  <2>7. QED
    BY <1>2, <2>1, <2>2, <2>3, <2>5, <2>6, LiveIsFinite DEF Types
<1>3. CASE ~shallDie /\ thrown' = thrown + 1 /\ UNCHANGED <<ws, line>>
  <2>1. Live' = Live
    BY <1>3 DEF Live
  <2>2. QED
    BY <1>3, <2>1, LiveIsFinite DEF Types
<1>4. QED
  BY <1>1, <1>2, <1>3 DEF Connect

\* The state of one websocket, which is not new, changes.
LEMMA LineTypes ==
    ASSUME Types, NEW w \in Line, line[w] # "none",
           NEW x \in States, line' = [line EXCEPT ![w] = x], UNCHANGED ws
    PROVE  /\ line' \in [Line -> States]
           /\ \A v \in Line : v > ws' => line'[v] = "none"
BY DEF Types

LEMMA InvStep == Inv /\ [Next]_vars => Inv'
<1> SUFFICES ASSUME Inv, [Next]_vars
             PROVE  Inv'
  OBVIOUS
<1>0. Types
  BY DEF Inv
<1>1. CASE UNCHANGED vars
  BY <1>1 DEF vars, Inv, Types, LineInv, Up, Live
<1>2. CASE UNCHANGED <<chunked, token, shallDie, lines>> /\ (process' = "up" => Up)
  BY <1>2 DEF lines, history, Inv, Types, LineInv, Up, Live
<1>3. CASE TokenReceived
  <2>1. /\ Up /\ token # "received" /\ Connect /\ parts' = parts + 1
        /\ token' \in IF chunked /\ token = "asked" THEN {"partial", "received"} ELSE {"received"}
        /\ UNCHANGED <<chunked, process, shallDie, retries>>
    BY <1>3 DEF TokenReceived
  <2>2. Types'
    <3>1. parts' \in Nat
      BY <1>0, <2>1 DEF Types
    <3>2. QED
      BY <1>0, <2>1, <3>1, ConnectAdds DEF Types
  <2>3. LineInv'
    <3>1. SUFFICES ASSUME Up', ~shallDie'
                   PROVE  /\ Cardinality(Live') + retries' + thrown' = parts'
                          /\ ~chunked' => token' # "partial" /\ parts' = IF token' = "received" THEN 1 ELSE 0
      BY DEF LineInv
    <3>2. Up /\ ~shallDie
      BY <2>1, <3>1 DEF Up
    <3>3. Cardinality(Live) + retries + thrown = parts
      BY <3>2 DEF Inv, LineInv
    <3>4. Cardinality(Live') + thrown' = Cardinality(Live) + thrown + 1 /\ thrown' \in Nat
      BY <1>0, <2>1, <3>2, ConnectAdds
    <3>5. Cardinality(Live') \in Nat
      <4>1. Live' \subseteq Line
        BY DEF Live
      <4>2. QED
        BY <4>1, LinesAreFinite
    <3>6. Cardinality(Live') + retries' + thrown' = parts'
      BY <1>0, <2>1, <3>3, <3>4, <3>5, LiveIsFinite DEF Types
    <3>7. ~chunked => parts = 0 /\ token' = "received"
      BY <1>0, <2>1, <3>2 DEF Inv, LineInv, Types
    <3>8. QED
      BY <2>1, <3>6, <3>7
  <2>4. QED
    BY <2>2, <2>3 DEF Inv
<1>4. CASE Retry
  <2>1. /\ Up /\ retries > 0 /\ retries' = retries - 1 /\ Connect
        /\ UNCHANGED <<chunked, process, token, shallDie, parts>>
    BY <1>4 DEF Retry
  <2>2. Types'
    <3>1. retries' \in Nat
      BY <1>0, <2>1 DEF Types
    <3>2. QED
      BY <1>0, <2>1, <3>1, ConnectAdds DEF Types
  <2>3. LineInv'
    <3>1. SUFFICES ASSUME Up', ~shallDie'
                   PROVE  Cardinality(Live') + retries' + thrown' = parts'
      BY <2>1 DEF Inv, LineInv, Up
    <3>2. Up /\ ~shallDie
      BY <2>1, <3>1 DEF Up
    <3>3. Cardinality(Live) + retries + thrown = parts
      BY <3>2 DEF Inv, LineInv
    <3>4. Cardinality(Live') + thrown' = Cardinality(Live) + thrown + 1 /\ thrown' \in Nat
      BY <1>0, <2>1, <3>2, ConnectAdds
    <3>5. Cardinality(Live') \in Nat
      <4>1. Live' \subseteq Line
        BY DEF Live
      <4>2. QED
        BY <4>1, LinesAreFinite
    <3>6. QED
      BY <1>0, <2>1, <3>3, <3>4, <3>5, LiveIsFinite DEF Types
  <2>4. QED
    BY <2>2, <2>3 DEF Inv
<1>5. ASSUME NEW w \in Line, LineOpens(w) \/ LineFails(w)
      PROVE  Inv'
  <2>1. PICK x \in {"open", "ending"} : line' = [line EXCEPT ![w] = x]
    BY <1>5 DEF LineOpens, LineFails
  <2>2. ~Gone(line[w]) /\ Up /\ UNCHANGED <<chunked, token, shallDie, ws, retries, parts, thrown>>
    BY <1>5 DEF LineOpens, LineFails, Alive, Gone, history
  <2>3. Types'
    BY <1>0, <2>1, <2>2, LineTypes DEF Types, Gone, States
  <2>4. Live' = Live
    BY <1>0, <2>1, <2>2 DEF Types, Gone, Live
  <2>5. LineInv'
    BY <2>2, <2>4 DEF Inv, LineInv, Up
  <2>6. QED
    BY <2>3, <2>5 DEF Inv
<1>6. ASSUME NEW w \in Line, LineCloses(w)
      PROVE  Inv'
  <2>1. /\ Up /\ line[w] = "ending" /\ line' = [line EXCEPT ![w] = "closed"]
        /\ retries' = IF shallDie THEN retries ELSE retries + 1
        /\ UNCHANGED <<chunked, process, token, shallDie, ws, parts, thrown>>
    BY <1>6 DEF LineCloses, history
  <2>2. Types'
    <3>1. retries' \in Nat
      BY <1>0, <2>1 DEF Types
    <3>2. QED
      BY <1>0, <2>1, <3>1, LineTypes DEF Types, States
  <2>3. LineInv'
    <3>1. Live' = Live \ {w} /\ w \in Live
      BY <1>0, <2>1 DEF Live, Gone, Types
    <3>2. Cardinality(Live \ {w}) = Cardinality(Live) - 1
      BY <3>1, LiveIsFinite, FS_RemoveElement
    <3>3. QED
      BY <1>0, <2>1, <3>1, <3>2, LiveIsFinite DEF Inv, LineInv, Types, Up
  <2>4. QED
    BY <2>2, <2>3 DEF Inv
<1>7. CASE Stop
  <2>1. /\ shallDie' = TRUE /\ UNCHANGED <<chunked, token, ws, parts, thrown>>
        /\ retries' \in IF chunked /\ retries > 0 THEN {retries - 1, retries} ELSE {0}
        /\ line' = line \/ (ws # 0 /\ line' = [line EXCEPT ![ws] = Destroyed(@)])
    BY <1>7 DEF Stop, history
  <2>2. retries' \in Nat
    BY <1>0, <2>1 DEF Types
  <2>3. line' \in [Line -> States] /\ \A w \in Line : w > ws' => line'[w] = "none"
    <3>1. CASE line' = line
      BY <1>0, <2>1, <3>1 DEF Types
    <3>2. CASE ws # 0 /\ line' = [line EXCEPT ![ws] = Destroyed(@)]
      <4>1. ws \in Line /\ line[ws] \in States
        BY <1>0, <3>2, NodePublisherAssumption DEF Types, Line
      <4>2. Destroyed(line[ws]) \in States
        BY <4>1 DEF Destroyed, States
      <4>3. \A w \in Line : w > ws => w # ws
        BY <1>0, NodePublisherAssumption DEF Types, Line
      <4>4. QED
        BY <1>0, <2>1, <3>2, <4>2, <4>3 DEF Types
    <3>3. QED
      BY <2>1, <3>1, <3>2
  <2>4. Types' /\ LineInv'
    BY <1>0, <2>1, <2>2, <2>3 DEF Types, LineInv
  <2>5. QED
    BY <2>4 DEF Inv
<1>8. CASE AuthenticationFails \/ NewTunnelUnknown \/ SigningFails \/ StraySigned
  BY <1>2, <1>8 DEF AuthenticationFails, NewTunnelUnknown, SigningFails, StraySigned, Up
<1>9. ASSUME NEW s \in Session,
             \/ NewTunnel(s) \/ CreateSession(s)
             \/ RemoteConnects(s) \/ TokenWritten(s) \/ LocalConnects(s) \/ SocketFails(s)
             \/ RemoteCloses(s) \/ LocalCloses(s) \/ RemoteTimeout(s) \/ LocalTimeout(s)
      PROVE  Inv'
  BY <1>2, <1>9 DEF NewTunnel, CreateSession, RemoteConnects, TokenWritten, LocalConnects,
     SocketFails, RemoteCloses, LocalCloses, RemoteTimeout, LocalTimeout, Up
<1>10. QED
  BY <1>1, <1>3, <1>4, <1>5, <1>6, <1>7, <1>8, <1>9 DEF Next, Over

\* Each part of the token keeps one control line or one retry going, whatever fails and
\* closes, until an attempt throws; that line then stays lost (Connect, LineCloses).
THEOREM OneLineAlways == Spec => []OneLine
<1>1. Init => Inv
  <2> SUFFICES ASSUME Init
               PROVE  Inv
    OBVIOUS
  <2>1. Types
    <3>1. line \in [Line -> States] /\ \A w \in Line : line[w] = "none"
      BY DEF Init, States
    <3>2. 0 \in 0 .. MaxLines
      BY NodePublisherAssumption
    <3>3. QED
      BY <3>1, <3>2 DEF Init, Types
  <2>2. Live = {}
    BY DEF Init, Live, Gone
  <2>3. Cardinality(Live) = 0
    BY <2>2, FS_EmptySet
  <2>4. LineInv
    BY <2>3 DEF Init, LineInv
  <2>5. QED
    BY <2>1, <2>4 DEF Inv
<1>2. Inv => OneLine
  BY DEF Inv, LineInv, OneLine, Live
<1>3. QED
  BY <1>1, <1>2, InvStep, PTL DEF Spec

-----------------------------------------------------------------------------
(* Sessions                                                                 *)

\* What the two sockets of a session, its timers and the write of the token have to do
\* with each other.
SocketsAgree(s) ==
    /\ s \in signing => remote[s] = "none"
    /\ s \in remoteTimer => remote[s] = "closed"
    /\ s \in localTimer => local[s] = "closed"
    /\ local[s] # "none" => written[s] = "done"
    /\ written[s] # "no" => remote[s] \notin {"none", "connecting"}
    /\ remote[s] = "closed" /\ s \notin remoteTimer =>
          written[s] # "writing" /\ local[s] \notin Alive
    /\ s \notin sessions => remote[s] \notin Alive

SocketTypes ==
    /\ remote \in [Session -> States] /\ local \in [Session -> States]
    /\ written \in [Session -> {"no", "writing", "done"}]

SessionInv == SocketTypes /\ \A s \in Session : SocketsAgree(s)

\* A step that concerns one session leaves the others as they are.
Spares(u) ==
    /\ remote'[u] = remote[u] /\ local'[u] = local[u] /\ written'[u] = written[u]
    /\ u \in signing' <=> u \in signing
    /\ u \in remoteTimer' <=> u \in remoteTimer
    /\ u \in localTimer' <=> u \in localTimer
    /\ u \in sessions' <=> u \in sessions

\* The steps of one session.
SessionSteps(s) ==
    \/ NewTunnel(s) \/ CreateSession(s) \/ RemoteConnects(s) \/ TokenWritten(s)
    \/ LocalConnects(s) \/ SocketFails(s) \/ RemoteCloses(s) \/ LocalCloses(s)
    \/ RemoteTimeout(s) \/ LocalTimeout(s)

LEMMA SessionStepTypes ==
    ASSUME SocketTypes, NEW s \in Session, SessionSteps(s)
    PROVE  SocketTypes' /\ \A u \in Session \ {s} : Spares(u)
<1> USE DEF SocketTypes, States, Alive, Spares
<1>1. CASE NewTunnel(s)
  BY <1>1 DEF NewTunnel, tunnels, timers
<1>2. CASE CreateSession(s)
  BY <1>2 DEF CreateSession, timers
<1>3. CASE RemoteConnects(s) \/ TokenWritten(s) \/ LocalConnects(s)
  BY <1>3 DEF RemoteConnects, TokenWritten, LocalConnects, timers, asked
<1>4. CASE SocketFails(s)
  BY <1>4 DEF SocketFails, timers, asked
<1>5. CASE RemoteCloses(s) \/ LocalCloses(s)
  BY <1>5 DEF RemoteCloses, LocalCloses, asked
<1>6. CASE RemoteTimeout(s) \/ LocalTimeout(s)
  <2>1. Destroyed(local[s]) \in States /\ Destroyed(remote[s]) \in States
    BY DEF Destroyed
  <2>2. QED
    BY <1>6, <2>1 DEF RemoteTimeout, LocalTimeout, OnAnyClose, asked
<1>7. QED
  BY <1>1, <1>2, <1>3, <1>4, <1>5, <1>6 DEF SessionSteps

LEMMA SessionStepAgrees ==
    ASSUME SocketTypes, NEW s \in Session, SocketsAgree(s), SessionSteps(s)
    PROVE  SocketsAgree(s)'
<1> USE DEF SocketTypes, SocketsAgree, Alive
<1>1. CASE NewTunnel(s)
  BY <1>1 DEF NewTunnel, tunnels, timers
<1>2. CASE CreateSession(s)
  BY <1>2 DEF CreateSession, timers
<1>3. CASE RemoteConnects(s)
  BY <1>3 DEF RemoteConnects, timers, asked
<1>4. CASE TokenWritten(s)
  BY <1>4 DEF TokenWritten, timers, asked
<1>5. CASE LocalConnects(s)
  BY <1>5 DEF LocalConnects, timers, asked
<1>6. CASE SocketFails(s)
  BY <1>6 DEF SocketFails, timers, asked
<1>7. CASE RemoteCloses(s) \/ LocalCloses(s)
  BY <1>7 DEF RemoteCloses, LocalCloses, asked
<1>8. CASE RemoteTimeout(s)
  BY <1>8 DEF RemoteTimeout, OnAnyClose, Destroyed, asked
<1>9. CASE LocalTimeout(s)
  BY <1>9 DEF LocalTimeout, OnAnyClose, Destroyed, asked
<1>10. QED
  BY <1>1, <1>2, <1>3, <1>4, <1>5, <1>6, <1>7, <1>8, <1>9 DEF SessionSteps

LEMMA SessionInvStep == SessionInv /\ [Next]_vars => SessionInv'
<1> SUFFICES ASSUME SessionInv, [Next]_vars
             PROVE  SessionInv'
  OBVIOUS
<1>1. CASE UNCHANGED <<signing, sessions, remote, local, written, remoteTimer, localTimer>>
  BY <1>1 DEF SessionInv, SocketTypes, SocketsAgree
<1>2. ASSUME NEW s \in Session, SessionSteps(s)
      PROVE  SessionInv'
  <2>1. SocketTypes' /\ \A u \in Session \ {s} : Spares(u)
    BY <1>2, SessionStepTypes DEF SessionInv
  <2>2. \A u \in Session \ {s} : SocketsAgree(u)'
    BY <2>1 DEF SessionInv, SocketsAgree, Spares
  <2>3. SocketsAgree(s)'
    BY <1>2, SessionStepAgrees DEF SessionInv
  <2>4. QED
    BY <2>1, <2>2, <2>3 DEF SessionInv
<1>3. CASE FreeAll /\ UNCHANGED <<signing, written, timers>>
  <2>1. \A x \in States : Destroyed(x) \in States \ Alive
    BY DEF Destroyed, States, Alive
  <2>2. SocketTypes'
    BY <1>3, <2>1 DEF SessionInv, SocketTypes, FreeAll
  <2>3. ASSUME NEW s \in Session
        PROVE  SocketsAgree(s)'
    <3>1. /\ remote'[s] = IF s \in sessions THEN Destroyed(remote[s]) ELSE remote[s]
          /\ local'[s] = IF s \in sessions THEN Destroyed(local[s]) ELSE local[s]
          /\ UNCHANGED <<signing, written, remoteTimer, localTimer>>
      BY <1>3 DEF FreeAll, timers
    <3>2. SocketsAgree(s) /\ remote[s] \in States /\ local[s] \in States
      BY DEF SessionInv, SocketTypes
    <3>3. QED
      BY <3>1, <3>2 DEF SocketsAgree, Destroyed, States, Alive
  <2>4. QED
    BY <2>2, <2>3 DEF SessionInv
<1>4. CASE Stop
  <2>1. \/ FreeAll /\ UNCHANGED <<signing, written, timers>>
        \/ UNCHANGED <<signing, sessions, remote, local, written, remoteTimer, localTimer>>
    BY <1>4 DEF Stop, asked, timers
  <2>2. QED
    BY <1>1, <1>3, <2>1
<1>5. CASE \/ AuthenticationFails \/ TokenReceived \/ Retry
           \/ NewTunnelUnknown \/ SigningFails \/ StraySigned \/ Over
  BY <1>1, <1>5 DEF AuthenticationFails, TokenReceived, Retry, NewTunnelUnknown, SigningFails,
     StraySigned, Over, vars, asked, tunnels, timers
<1>6. ASSUME NEW w \in Line, LineOpens(w) \/ LineFails(w) \/ LineCloses(w)
      PROVE  SessionInv'
  BY <1>1, <1>6 DEF LineOpens, LineFails, LineCloses, asked, tunnels, timers
<1>7. QED
  <2>1. CASE UNCHANGED vars
    BY <1>1, <2>1 DEF vars
  <2>2. CASE Next
    BY <1>2, <1>4, <1>5, <1>6, <2>2 DEF Next, SessionSteps
  <2>3. QED
    BY <2>1, <2>2

\* A session the publisher has forgotten leaves no socket open that nothing will close,
\* in whatever order closes, their timers, stop and a late write callback come.
THEOREM ForgottenIsReleased == Spec => []FreedIsReleased
<1>1. Init => SessionInv
  BY DEF Init, SessionInv, SocketTypes, SocketsAgree, States, Alive
<1>2. SessionInv => FreedIsReleased
  BY DEF SessionInv, SocketTypes, SocketsAgree, FreedIsReleased, States, Alive
<1>3. QED
  BY <1>1, <1>2, SessionInvStep, PTL DEF Spec
=============================================================================
