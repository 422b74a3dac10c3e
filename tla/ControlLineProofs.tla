--------------------------- MODULE ControlLineProofs ---------------------------
(***************************************************************************)
(* Proofs about the control line.  For ControlPlane, with any set of       *)
(* sessions and ports: its types, that no service outlives the control     *)
(* sessions, and that a publisher that comes back in turn is served.  For  *)
(* ControlLine, with any number of websockets and any bound on what the    *)
(* queue and the connections hold: the composition implements the          *)
(* specification of either end, so what is proved of them holds of it, and *)
(* until a callback throws or a send fails exactly one callback of the     *)
(* publisher reads the websocket the broker sends its requests to.         *)
(***************************************************************************)
EXTENDS ControlLine, FiniteSetTheorems, TLAPS

-----------------------------------------------------------------------------
(* The broker: what keeps a session alive                                     *)

\* Whatever refers to a session keeps it alive, or goes with it.
HeldAreLive ==
    /\ \A s \in Session, k \in Task : <<s, k>> \in tasks => Live(s)
    /\ registered # None => Live(registered)
    /\ \A s \in reading : Live(s)

\* Only a running handshake adds services.
AddingIsHeld == \A s \in Session : adding[s] # {} => <<s, "message">> \in tasks

\* NoOrphanService, whether the broker is up or not.
ServicesAreOwned ==
    (\E p \in Port : services[p] # "none") => \E s \in Session : Live(s)

LifeInv == TypeOK /\ HeldAreLive /\ AddingIsHeld /\ ServicesAreOwned

\* The types of what Settle writes.
LEMMA SettleTypes ==
    ASSUME TypeOK, NEW reg \in Session \union {None}, NEW tsk \in SUBSET tasks,
           NEW more \in SUBSET Session, Settle(reg, tsk, more)
    PROVE  /\ broker' \in {"up", "raced"}
           /\ stage' \in [Session -> {"unused", "live", "destroyed"}]
           /\ link' \in [Session -> {"up", "down"}]
           /\ current' \in Session \union {None}
           /\ registered' \in Session \union {None}
           /\ tasks' \subseteq Session \X Task
           /\ reading' \subseteq Session
           /\ writing' \in [Session -> {"idle", "busy", "stuck"}]
           /\ services' \in [Port -> {"none", "accepting", "deaf"}]
BY DEF Settle, TypeOK

\* Destroying what lost its last reference keeps the rest.
LEMMA SettleKeepsLife ==
    ASSUME LifeInv, TypeOK', NEW reg \in Session \union {None}, NEW tsk \in SUBSET tasks,
           NEW more \in SUBSET Session, Settle(reg, tsk, more),
           reg # None => Live(reg),
           \A s \in more : Live(s),
           UNCHANGED adding,
           \A s \in Session : adding[s] # {} => <<s, "message">> \in tsk
    PROVE  LifeInv'
<1> DEFINE D == {s \in Session : Live(s) /\ s # reg /\ \A k \in Task : <<s, k>> \notin tsk}
<1>1. /\ registered' = reg /\ tasks' = tsk
      /\ stage' = [s \in Session |-> IF s \in D THEN "destroyed" ELSE stage[s]]
      /\ reading' = (reading \union more) \ D
      /\ services' = IF D = {} THEN services ELSE [p \in Port |-> "none"]
  BY DEF Settle
<1>2. \A s \in Session : Live(s)' <=> Live(s) /\ s \notin D
  BY <1>1 DEF Live
<1>3. \A s \in Session, k \in Task : <<s, k>> \in tasks' => Live(s)'
  BY <1>1, <1>2 DEF LifeInv, HeldAreLive
<1>4. registered' # None => Live(registered)'
  BY <1>1, <1>2
<1>5. \A s \in reading' : Live(s)'
  BY <1>1, <1>2 DEF LifeInv, HeldAreLive, TypeOK
<1>6. AddingIsHeld'
  BY <1>1 DEF AddingIsHeld
<1>7. ServicesAreOwned'
  <2>1. CASE D = {}
    BY <1>1, <1>2, <2>1 DEF LifeInv, ServicesAreOwned
  <2>2. CASE D # {}
    BY <1>1, <2>2 DEF ServicesAreOwned
  <2>3. QED
    BY <2>1, <2>2
<1>8. QED
  BY <1>3, <1>4, <1>5, <1>6, <1>7 DEF LifeInv, HeldAreLive

\* Steps that destroy nothing: who lives goes on living, and what is newly held lives.
LEMMA LifeGoesOn ==
    ASSUME LifeInv, TypeOK',
           UNCHANGED <<registered, services>>,
           \A s \in Session : Live(s) => Live(s)',
           \A s \in Session, k \in Task : <<s, k>> \in tasks' \ tasks => Live(s)',
           \A s \in reading' \ reading : Live(s)',
           \A s \in Session : adding'[s] # {} => <<s, "message">> \in tasks'
    PROVE  LifeInv'
<1>1. \A s \in Session, k \in Task : <<s, k>> \in tasks' => Live(s)'
  BY DEF LifeInv, HeldAreLive
<1>2. registered' # None => Live(registered)'
  BY DEF LifeInv, HeldAreLive, TypeOK
<1>3. \A s \in reading' : Live(s)'
  BY DEF LifeInv, HeldAreLive, TypeOK
<1>4. AddingIsHeld' /\ ServicesAreOwned'
  BY DEF LifeInv, AddingIsHeld, ServicesAreOwned
<1>5. QED
  BY <1>1, <1>2, <1>3, <1>4 DEF LifeInv, HeldAreLive

LEMMA WrittenTypes ==
    ASSUME TypeOK, NEW s \in Session \union {None}
    PROVE  Written(s) \in [Session -> {"idle", "busy", "stuck"}]
BY DEF Written, TypeOK

LEMMA TaskAdded ==
    ASSUME TypeOK, NEW s \in Session, NEW k \in Task
    PROVE  tasks \union {<<s, k>>} \subseteq Session \X Task
<1>1. tasks \subseteq Session \X Task
  BY DEF TypeOK
<1>2. <<s, k>> \in Session \X Task
  OBVIOUS
<1>3. QED
  BY ONLY <1>1, <1>2

LEMMA TypeStep == TypeOK /\ [Next]_vars => TypeOK'
<1> SUFFICES ASSUME TypeOK, [Next]_vars
             PROVE  TypeOK'
  OBVIOUS
<1> USE ControlPlaneAssumption DEF TypeOK
<1>1. CASE UNCHANGED vars
  BY <1>1 DEF vars
<1>2. ASSUME NEW s \in Session, Upgrade(s)
      PROVE  TypeOK'
  <2>1. tasks' \subseteq Session \X Task
    BY <1>2, TaskAdded DEF Upgrade, UpgradeHandler, Task
  <2>2. QED
    BY <1>2, <2>1 DEF Upgrade, UpgradeHandler
<1>3. ASSUME NEW s \in Session, Register(s)
      PROVE  TypeOK'
  <2>1. PICK T \in SUBSET tasks :
            Settle(s, T, {}) /\ UNCHANGED <<overlap, adding, greeted, failed>>
    BY <1>3 DEF Register
  <2>2. {} \in SUBSET Session
    OBVIOUS
  <2>3. stranded' \subseteq Session
    BY <1>3 DEF Register
  <2>4. QED
    BY <2>1, <2>2, <2>3, SettleTypes
<1>4. ASSUME NEW s \in Session, ReadHandshake(s)
      PROVE  TypeOK'
  <2>1. tasks' \subseteq Session \X Task
    BY <1>4, TaskAdded DEF ReadHandshake, Task
  <2>2. QED
    BY <1>4, <2>1 DEF ReadHandshake
<1>5. ASSUME NEW s \in Session, NEW p \in Port, AddService(s, p)
      PROVE  TypeOK'
  <2>1. /\ adding' \in [Session -> SUBSET Port]
        /\ services' \in [Port -> {"none", "accepting", "deaf"}] /\ failed' \subseteq Port
    BY <1>5 DEF AddService
  <2>2. writing' \in [Session -> {"idle", "busy", "stuck"}]
    BY <1>5, WrittenTypes DEF AddService
  <2>3. QED
    BY <1>5, <2>1, <2>2 DEF AddService
<1>6. ASSUME NEW s \in Session, HandshakeHandled(s)
      PROVE  TypeOK'
  <2>1. PICK T \in SUBSET tasks, reg \in Session \union {None} :
            /\ Settle(reg, T, {s})
            /\ greeted' = greeted \union {s} /\ UNCHANGED <<overlap, adding, failed, stranded>>
    BY <1>6 DEF HandshakeHandled
  <2>2. {s} \in SUBSET Session
    OBVIOUS
  <2>3. QED
    BY <2>1, <2>2, SettleTypes
<1>7. ASSUME NEW s \in Session, Answer(s) \/ AddServicesThrows(s)
      PROVE  TypeOK'
  BY <1>7, WrittenTypes DEF Answer, AddServicesThrows
<1>8. ASSUME NEW s \in Session, LinkDrops(s) \/ ReadFails(s) \/ ConsumerThrows(s)
      PROVE  TypeOK'
  <2>1. tasks' \subseteq Session \X Task
    BY <1>8, TaskAdded DEF LinkDrops, ReadFails, ConsumerThrows, Task
  <2>2. QED
    BY <1>8, <2>1 DEF LinkDrops, ReadFails, ConsumerThrows
<1>9. ASSUME NEW s \in Session, WriteDone(s) \/ WriteFails(s)
      PROVE  TypeOK'
  <2>1. tasks' \subseteq Session \X Task
    BY <1>9, TaskAdded DEF WriteDone, WriteFails, Task
  <2>2. QED
    BY <1>9, <2>1 DEF WriteDone, WriteFails
<1>10. ASSUME NEW s \in Session, EndSelf(s)
       PROVE  TypeOK'
  <2>1. PICK T \in SUBSET tasks :
            Settle(None, T, {}) /\ UNCHANGED <<overlap, adding, greeted, failed, stranded>>
    BY <1>10 DEF EndSelf
  <2>2. {} \in SUBSET Session
    OBVIOUS
  <2>3. QED
    BY <2>1, <2>2, SettleTypes
<1>11. ASSUME NEW p \in Port, Accept(p)
       PROVE  TypeOK'
  <2>1. services' \in [Port -> {"none", "accepting", "deaf"}]
    BY <1>11 DEF Accept
  <2>2. writing' \in [Session -> {"idle", "busy", "stuck"}]
    BY <1>11, WrittenTypes DEF Accept
  <2>3. QED
    BY <1>11, <2>1, <2>2 DEF Accept
<1>12. ASSUME Restart
       PROVE  TypeOK'
  BY <1>12 DEF Restart
<1>13. QED
  BY <1>1, <1>2, <1>3, <1>4, <1>5, <1>6, <1>7, <1>8, <1>9, <1>10, <1>11, <1>12
     DEF Next, Over

\* Every variable keeps its type, for every set of sessions and ports.
THEOREM TypeCorrect == Spec => []TypeOK
<1>1. Init => TypeOK
  BY ControlPlaneAssumption DEF Init, TypeOK
<1>2. QED
  BY <1>1, TypeStep, PTL DEF Spec

LEMMA LifeStep == LifeInv /\ [Next]_vars => LifeInv'
<1> SUFFICES ASSUME LifeInv, [Next]_vars
             PROVE  LifeInv'
  OBVIOUS
<1> USE ControlPlaneAssumption
<1>0. TypeOK /\ TypeOK'
  BY TypeStep DEF LifeInv
<1>1. CASE UNCHANGED vars
  BY <1>0, <1>1, LifeGoesOn DEF vars, Live, LifeInv, AddingIsHeld
<1>2. ASSUME NEW s \in Session, Upgrade(s)
      PROVE  LifeInv'
  <2>1. /\ \A o \in Session : Live(o) => Live(o)'
        /\ Live(s)' /\ tasks' \ tasks \subseteq {<<s, "setup">>} /\ tasks \subseteq tasks'
        /\ reading' \ reading \subseteq {s}
        /\ UNCHANGED <<registered, services, adding>>
    BY <1>0, <1>2 DEF Upgrade, UpgradeHandler, Live, TypeOK
  <2>2. QED
    BY <1>0, <2>1, LifeGoesOn DEF LifeInv, AddingIsHeld
<1>3. ASSUME NEW s \in Session, Register(s)
      PROVE  LifeInv'
  <2> DEFINE T == tasks \ {<<s, "setup">>}
  <2>1. Settle(s, T, {}) /\ UNCHANGED adding /\ <<s, "setup">> \in tasks
    BY <1>3 DEF Register
  <2>2. Live(s)
    BY <2>1 DEF LifeInv, HeldAreLive, Task
  <2>3. \A o \in Session : adding[o] # {} => <<o, "message">> \in T
    BY DEF LifeInv, AddingIsHeld
  <2>4. T \in SUBSET tasks
    OBVIOUS
  <2> HIDE DEF T
  <2>5. QED
    BY <1>0, <2>1, <2>2, <2>3, <2>4, SettleKeepsLife
<1>4. ASSUME NEW s \in Session, ReadHandshake(s)
      PROVE  LifeInv'
  <2>1. /\ s \in reading /\ reading' \subseteq reading
        /\ tasks' = tasks \union {<<s, "message">>}
        /\ adding' = [adding EXCEPT ![s] = Port]
        /\ UNCHANGED <<stage, registered, services>>
    BY <1>4 DEF ReadHandshake
  <2>2. Live(s)
    BY <2>1 DEF LifeInv, HeldAreLive
  <2>3. \A o \in Session : Live(o)' <=> Live(o)
    BY <2>1 DEF Live
  <2>4. \A o \in Session : adding'[o] # {} => <<o, "message">> \in tasks'
    BY <1>0, <2>1 DEF LifeInv, AddingIsHeld, TypeOK
  <2>5. QED
    BY <1>0, <2>1, <2>2, <2>3, <2>4, LifeGoesOn
<1>5. ASSUME NEW s \in Session, NEW p \in Port, AddService(s, p)
      PROVE  LifeInv'
  <2>1. /\ p \in adding[s] /\ adding' = [adding EXCEPT ![s] = @ \ {p}]
        /\ UNCHANGED <<stage, registered, tasks, reading>>
    BY <1>5 DEF AddService
  <2>2. \A o \in Session : Live(o)' <=> Live(o)
    BY <2>1 DEF Live
  <2>3. <<s, "message">> \in tasks
    BY <2>1 DEF LifeInv, AddingIsHeld
  <2>4. Live(s)
    BY <2>3 DEF LifeInv, HeldAreLive, Task
  <2>5. HeldAreLive'
    BY <1>0, <2>1, <2>2 DEF LifeInv, HeldAreLive, TypeOK
  <2>6. AddingIsHeld'
    BY <1>0, <2>1, <2>3 DEF LifeInv, AddingIsHeld, TypeOK
  <2>7. ServicesAreOwned'
    BY <2>2, <2>4 DEF ServicesAreOwned
  <2>8. QED
    BY <1>0, <2>5, <2>6, <2>7 DEF LifeInv
<1>6. ASSUME NEW s \in Session, HandshakeHandled(s)
      PROVE  LifeInv'
  <2> DEFINE T == tasks \ {<<s, "message">>}
  <2>1. /\ Settle(registered, T, {s}) /\ UNCHANGED adding
        /\ <<s, "message">> \in tasks /\ adding[s] = {}
    BY <1>6 DEF HandshakeHandled
  <2>2. Live(s)
    BY <2>1 DEF LifeInv, HeldAreLive, Task
  <2>3. \A o \in Session : adding[o] # {} => <<o, "message">> \in T
    BY <2>1 DEF LifeInv, AddingIsHeld
  <2>4. T \in SUBSET tasks
    OBVIOUS
  <2>5. registered \in Session \union {None} /\ (registered # None => Live(registered))
    BY <1>0 DEF LifeInv, HeldAreLive, TypeOK
  <2> HIDE DEF T
  <2>6. QED
    BY <1>0, <2>1, <2>2, <2>3, <2>4, <2>5, SettleKeepsLife
<1>7. ASSUME NEW s \in Session, Answer(s) \/ LinkDrops(s) \/ WriteDone(s)
      PROVE  LifeInv'
  <2>1. UNCHANGED <<stage, registered, tasks, reading, adding, services>>
    BY <1>7 DEF Answer, LinkDrops, WriteDone
  <2>2. QED
    BY <1>0, <2>1, LifeGoesOn DEF Live, LifeInv, AddingIsHeld
<1>8. ASSUME NEW s \in Session, ReadFails(s) \/ WriteFails(s) \/ ConsumerThrows(s)
      PROVE  LifeInv'
  <2>1. /\ UNCHANGED <<stage, registered, adding, services>>
        /\ reading' \subseteq reading /\ tasks \subseteq tasks'
        /\ \A o \in Session, k \in Task : <<o, k>> \in tasks' \ tasks => o = s
    BY <1>8 DEF ReadFails, WriteFails, ConsumerThrows
  <2>2. Live(s)
    BY <1>8 DEF ReadFails, WriteFails, ConsumerThrows, LifeInv, HeldAreLive
  <2>3. QED
    BY <1>0, <2>1, <2>2, LifeGoesOn DEF Live, LifeInv, AddingIsHeld
<1>9. ASSUME NEW s \in Session, EndSelf(s)
      PROVE  LifeInv'
  <2>1. PICK k \in Failure :
            Settle(None, tasks \ {<<s, k>>}, {}) /\ UNCHANGED adding
    BY <1>9 DEF EndSelf
  <2> DEFINE T == tasks \ {<<s, k>>}
  <2>2. \A o \in Session : adding[o] # {} => <<o, "message">> \in T
    BY DEF LifeInv, AddingIsHeld, Failure
  <2>3. T \in SUBSET tasks
    OBVIOUS
  <2> HIDE DEF T
  <2>4. Settle(None, T, {}) /\ UNCHANGED adding
    BY <2>1 DEF T
  <2>5. None \in Session \union {None} /\ {} \in SUBSET Session /\ \A o \in {} : Live(o)
    OBVIOUS
  <2>6. QED
    BY <1>0, <2>2, <2>3, <2>4, <2>5, SettleKeepsLife
<1>10. ASSUME NEW p \in Port, Accept(p)
       PROVE  LifeInv'
  <2>1. /\ UNCHANGED <<stage, registered, tasks, reading, adding>>
        /\ services[p] = "accepting"
    BY <1>10 DEF Accept
  <2>2. PICK s \in Session : Live(s)
    BY <2>1 DEF LifeInv, ServicesAreOwned
  <2>3. HeldAreLive' /\ AddingIsHeld' /\ ServicesAreOwned'
    BY <2>1, <2>2 DEF LifeInv, HeldAreLive, AddingIsHeld, ServicesAreOwned, Live
  <2>4. QED
    BY <1>0, <2>3 DEF LifeInv
<1>11. ASSUME Restart
       PROVE  LifeInv'
  <2>1. /\ registered' = None /\ tasks' = {} /\ reading' = {}
        /\ adding' = [s \in Session |-> {}] /\ services' = [p \in Port |-> "none"]
    BY <1>11 DEF Restart
  <2>2. QED
    BY <1>0, <2>1 DEF LifeInv, HeldAreLive, AddingIsHeld, ServicesAreOwned
<1>12. ASSUME NEW s \in Session, AddServicesThrows(s)
       PROVE  LifeInv'
  <2>1. /\ UNCHANGED <<stage, registered, tasks, reading, services>>
        /\ adding' = [adding EXCEPT ![s] = {}]
    BY <1>12 DEF AddServicesThrows
  <2>2. \A o \in Session : adding'[o] # {} => <<o, "message">> \in tasks'
    BY <1>0, <2>1 DEF LifeInv, AddingIsHeld, TypeOK
  <2>3. QED
    BY <1>0, <2>1, <2>2, LifeGoesOn DEF Live
<1>13. QED
  BY <1>1, <1>2, <1>3, <1>4, <1>5, <1>6, <1>7, <1>8, <1>9, <1>10, <1>11, <1>12
     DEF Next, Over

LEMMA LifeHolds == Spec => []LifeInv
<1>1. Init => LifeInv
  BY ControlPlaneAssumption DEF Init, LifeInv, TypeOK, HeldAreLive, AddingIsHeld,
     ServicesAreOwned
<1>2. QED
  BY <1>1, LifeStep, PTL DEF Spec

\* No service outlives the control sessions, however they overlap and fail.
THEOREM NoServiceIsOrphaned == Spec => []NoOrphanService
<1>1. LifeInv => NoOrphanService
  BY DEF LifeInv, ServicesAreOwned, NoOrphanService
<1>2. QED
  BY <1>1, LifeHolds, PTL

-----------------------------------------------------------------------------
(* In turn: the publisher is back only after the broker noticed its loss      *)

Served(p) == services[p] = "accepting" \/ p \in failed

\* One session at a time, the one the Publisher knows; a handshake has dealt with
\* every port but those it has still to add, and what it did stays.
InTurn ==
    /\ Up
    /\ \A s, t \in Session : Live(s) /\ Live(t) => s = t
    /\ \A s \in Session : Live(s) => current = s
    /\ \A p \in Port : services[p] # "deaf"
    /\ \A s \in Session : Live(s) /\ s \in greeted => \A p \in Port : Served(p)
    /\ \A s \in Session :
          <<s, "message">> \in tasks => \A p \in Port \ adding[s] : Served(p)
    /\ \A s \in greeted : stage[s] # "unused"

\* Settle destroys the only session, and with it all it served, or none.
LEMMA SettleKeepsTurn ==
    ASSUME LifeInv, InTurn, NEW reg \in Session \union {None}, NEW tsk \in SUBSET tasks,
           NEW more \in SUBSET Session, Settle(reg, tsk, more),
           UNCHANGED <<adding, failed>>,
           \A s \in Session : adding[s] # {} => <<s, "message">> \in tsk,
           greeted' \subseteq Session,
           \A s \in greeted' : stage[s] # "unused",
           \A s \in greeted' : Live(s) => \A p \in Port : Served(p)
    PROVE  InTurn'
<1> DEFINE D == {s \in Session : Live(s) /\ s # reg /\ \A k \in Task : <<s, k>> \notin tsk}
<1>1. /\ tasks' = tsk
      /\ stage' = [s \in Session |-> IF s \in D THEN "destroyed" ELSE stage[s]]
      /\ current' = IF D = {} THEN current ELSE None
      /\ services' = IF D = {} THEN services ELSE [p \in Port |-> "none"]
      /\ broker' \in IF D # {} /\ (\E s \in Session : adding[s] # {})
                        THEN {"up", "raced"} ELSE {broker}
  BY DEF Settle
<1>2. \A s \in Session : Live(s)' <=> Live(s) /\ s \notin D
  BY <1>1 DEF Live
<1>3. \A s \in greeted' : stage'[s] # "unused"
  BY <1>1
<1>4. CASE D = {}
  BY <1>1, <1>2, <1>3, <1>4 DEF InTurn, Up, Served
<1>5. CASE D # {}
  <2>1. \A s \in Session : ~Live(s)'
    BY <1>2, <1>5 DEF InTurn
  <2>2. \A s \in Session : <<s, "message">> \notin tsk
    BY <1>2, <2>1 DEF LifeInv, HeldAreLive, Task
  <2>3. broker' = broker
    BY <1>1, <2>2
  <2>4. QED
    BY <1>1, <1>3, <1>5, <2>1, <2>2, <2>3 DEF InTurn, Up
<1>6. QED
  BY <1>4, <1>5

LEMMA TurnStep == LifeInv /\ (~overlap => InTurn) /\ [Next]_vars => (~overlap => InTurn)'
<1> SUFFICES ASSUME LifeInv, ~overlap => InTurn, [Next]_vars, ~overlap'
             PROVE  InTurn'
  OBVIOUS
<1> USE ControlPlaneAssumption
<1>a. UNCHANGED overlap
  BY DEF Next, vars, Upgrade, UpgradeHandler, Register, ReadHandshake, AddService,
     HandshakeHandled, AddServicesThrows, Answer, ConsumerThrows, LinkDrops, ReadFails,
     WriteDone, WriteFails, EndSelf, Accept, Restart, Over
<1>0. InTurn /\ TypeOK /\ TypeOK' /\ LifeInv'
  BY <1>a, LifeStep DEF LifeInv
<1>1. CASE UNCHANGED vars
  BY <1>0, <1>1 DEF vars, InTurn, Up, Live, Served
<1>2. ASSUME NEW s \in Session, Upgrade(s)
      PROVE  InTurn'
  <2>1. /\ stage[s] = "unused" /\ stage' = [stage EXCEPT ![s] = "live"] /\ current' = s
        /\ tasks' = tasks \union {<<s, "setup">>}
        /\ UNCHANGED <<broker, adding, services, failed>>
        /\ greeted' \subseteq greeted
        /\ \A o \in Session : ~Live(o)
    BY <1>a, <1>2 DEF Upgrade, UpgradeHandler
  <2>2. \A o \in Session : Live(o)' <=> o = s
    BY <1>0, <2>1 DEF Live, TypeOK
  <2>3. s \notin greeted'
    BY <1>0, <2>1 DEF InTurn
  <2>4. \A o \in Session : <<o, "message">> \in tasks' => <<o, "message">> \in tasks
    BY <2>1
  <2>5. \A o \in greeted' : stage'[o] # "unused"
    BY <1>0, <2>1 DEF InTurn, TypeOK
  <2>6. QED
    BY <1>0, <2>1, <2>2, <2>3, <2>4, <2>5 DEF InTurn, Up, Served
<1>3. ASSUME NEW s \in Session, Register(s)
      PROVE  InTurn'
  <2> DEFINE T == tasks \ {<<s, "setup">>}
  <2>1. Settle(s, T, {}) /\ UNCHANGED <<adding, failed, greeted>>
    BY <1>3 DEF Register
  <2>2. \A o \in Session : adding[o] # {} => <<o, "message">> \in T
    BY DEF LifeInv, AddingIsHeld
  <2>3. T \in SUBSET tasks /\ {} \in SUBSET Session /\ s \in Session \union {None}
    OBVIOUS
  <2>4. greeted' = greeted /\ greeted \subseteq Session
    BY <1>0, <2>1 DEF TypeOK
  <2>5. /\ \A o \in greeted' : stage[o] # "unused"
        /\ \A o \in greeted' : Live(o) => \A p \in Port : Served(p)
    BY <1>0, <2>4 DEF InTurn
  <2> HIDE DEF T
  <2>6. QED
    BY <1>0, <2>1, <2>2, <2>3, <2>4, <2>5, SettleKeepsTurn
<1>4. ASSUME NEW s \in Session, ReadHandshake(s)
      PROVE  InTurn'
  <2>1. /\ tasks' = tasks \union {<<s, "message">>}
        /\ adding' = [adding EXCEPT ![s] = Port]
        /\ UNCHANGED <<broker, stage, current, greeted, services, failed>>
    BY <1>4 DEF ReadHandshake
  <2>2. \A o \in Session :
            <<o, "message">> \in tasks' => \A p \in Port \ adding'[o] : Served(p)'
    BY <1>0, <2>1 DEF InTurn, Served, TypeOK
  <2>3. QED
    BY <1>0, <2>1, <2>2 DEF InTurn, Up, Live, Served
<1>5. ASSUME NEW s \in Session, NEW p \in Port, AddService(s, p)
      PROVE  InTurn'
  <2>1. /\ adding' = [adding EXCEPT ![s] = @ \ {p}]
        /\ UNCHANGED <<broker, stage, current, tasks, greeted>>
    BY <1>5 DEF AddService
  <2>2. /\ \A q \in Port : Served(q) => Served(q)'
        /\ Served(p)'
        /\ \A q \in Port : services'[q] # "deaf"
    BY <1>0, <1>5 DEF AddService, InTurn, Served, TypeOK
  <2>3. \A o \in Session :
            <<o, "message">> \in tasks' => \A q \in Port \ adding'[o] : Served(q)'
    BY <1>0, <2>1, <2>2 DEF InTurn, TypeOK
  <2>4. QED
    BY <1>0, <2>1, <2>2, <2>3 DEF InTurn, Up, Live
<1>6. ASSUME NEW s \in Session, HandshakeHandled(s)
      PROVE  InTurn'
  <2> DEFINE T == tasks \ {<<s, "message">>}
  <2>1. /\ Settle(registered, T, {s}) /\ UNCHANGED <<adding, failed>>
        /\ <<s, "message">> \in tasks /\ adding[s] = {}
        /\ greeted' = greeted \union {s}
    BY <1>6 DEF HandshakeHandled
  <2>2. \A o \in Session : adding[o] # {} => <<o, "message">> \in T
    BY <2>1 DEF LifeInv, AddingIsHeld
  <2>3. /\ T \in SUBSET tasks /\ {s} \in SUBSET Session
        /\ registered \in Session \union {None}
    BY <1>0 DEF TypeOK
  <2>4. greeted' \subseteq Session
    BY <1>0 DEF TypeOK
  <2>5. Live(s) /\ \A p \in Port : Served(p)
    BY <1>0, <2>1 DEF LifeInv, HeldAreLive, Task, InTurn
  <2>6. /\ \A o \in greeted' : stage[o] # "unused"
        /\ \A o \in greeted' : Live(o) => \A p \in Port : Served(p)
    BY <1>0, <2>1, <2>5 DEF InTurn, Live
  <2> HIDE DEF T
  <2>7. QED
    BY <1>0, <2>1, <2>2, <2>3, <2>4, <2>6, SettleKeepsTurn
<1>7. ASSUME NEW s \in Session, Answer(s) \/ LinkDrops(s) \/ WriteDone(s)
      PROVE  InTurn'
  <2>1. UNCHANGED <<broker, stage, current, tasks, adding, greeted, services, failed>>
    BY <1>7 DEF Answer, LinkDrops, WriteDone
  <2>2. QED
    BY <1>0, <2>1 DEF InTurn, Up, Live, Served
<1>8. ASSUME NEW s \in Session, ReadFails(s) \/ WriteFails(s) \/ ConsumerThrows(s)
      PROVE  InTurn'
  <2>1. /\ UNCHANGED <<broker, stage, current, adding, greeted, services, failed>>
        /\ \A o \in Session : <<o, "message">> \in tasks' => <<o, "message">> \in tasks
    BY <1>8 DEF ReadFails, WriteFails, ConsumerThrows
  <2>2. QED
    BY <1>0, <2>1 DEF InTurn, Up, Live, Served
<1>9. ASSUME NEW s \in Session, EndSelf(s)
      PROVE  InTurn'
  <2>1. PICK k \in Failure :
            Settle(None, tasks \ {<<s, k>>}, {}) /\ UNCHANGED <<adding, failed, greeted>>
    BY <1>9 DEF EndSelf
  <2> DEFINE T == tasks \ {<<s, k>>}
  <2>2. \A o \in Session : adding[o] # {} => <<o, "message">> \in T
    BY DEF LifeInv, AddingIsHeld, Failure
  <2>3. T \in SUBSET tasks /\ {} \in SUBSET Session /\ None \in Session \union {None}
    OBVIOUS
  <2>4. greeted' = greeted /\ greeted \subseteq Session
    BY <1>0, <2>1 DEF TypeOK
  <2>5. /\ \A o \in greeted' : stage[o] # "unused"
        /\ \A o \in greeted' : Live(o) => \A p \in Port : Served(p)
    BY <1>0, <2>4 DEF InTurn
  <2> HIDE DEF T
  <2>6. Settle(None, T, {}) /\ UNCHANGED <<adding, failed>>
    BY <2>1 DEF T
  <2>7. QED
    BY <1>0, <2>2, <2>3, <2>4, <2>5, <2>6, SettleKeepsTurn
<1>10. ASSUME NEW p \in Port, Accept(p)
       PROVE  InTurn'
  <2>1. /\ UNCHANGED <<broker, stage, current, tasks, adding, greeted, failed>>
        /\ services[p] = "accepting"
    BY <1>10 DEF Accept
  <2>2. PICK s \in Session : Live(s)
    BY <2>1 DEF LifeInv, ServicesAreOwned
  <2>3. HasControl
    BY <1>0, <2>2 DEF InTurn, HasControl
  <2>4. UNCHANGED services
    BY <1>10, <2>3 DEF Accept
  <2>5. QED
    BY <1>0, <2>1, <2>4 DEF InTurn, Up, Live, Served
<1>11. ASSUME Restart
       PROVE  InTurn'
  <2>1. /\ broker' = "up" /\ tasks' = {} /\ greeted' = {}
        /\ stage' = [s \in Session |-> IF Live(s) THEN "destroyed" ELSE stage[s]]
        /\ services' = [p \in Port |-> "none"]
    BY <1>11 DEF Restart
  <2>2. \A s \in Session : ~Live(s)'
    BY <2>1 DEF Live
  <2>3. \A s \in greeted' : stage'[s] # "unused"
    BY <1>0, <2>1 DEF InTurn, TypeOK
  <2>4. QED
    BY <2>1, <2>2, <2>3 DEF InTurn, Up
<1>12. ASSUME NEW s \in Session, AddServicesThrows(s)
       PROVE  InTurn'
  <2>1. /\ UNCHANGED <<broker, stage, current, tasks, greeted, services>>
        /\ adding' = [adding EXCEPT ![s] = {}]
        /\ failed' = failed \union adding[s]
    BY <1>12 DEF AddServicesThrows
  <2>2. \A p \in Port : (Served(p) => Served(p)') /\ (p \in adding[s] => Served(p)')
    BY <2>1 DEF Served
  <2>3. \A o \in Session :
            <<o, "message">> \in tasks' => \A p \in Port \ adding'[o] : Served(p)'
    BY <1>0, <2>1, <2>2 DEF InTurn, TypeOK
  <2>4. QED
    BY <1>0, <2>1, <2>2, <2>3 DEF InTurn, Up, Live
<1>13. QED
  BY <1>1, <1>2, <1>3, <1>4, <1>5, <1>6, <1>7, <1>8, <1>9, <1>10, <1>11, <1>12
     DEF Next, Over

LEMMA TurnHolds == Spec => [](~overlap => InTurn)
<1>1. Init => (~overlap => InTurn)
  BY ControlPlaneAssumption DEF Init, InTurn, Up, Live
<1>2. QED
  BY <1>1, LifeHolds, TurnStep, PTL DEF Spec

\* A publisher that comes back in turn finds every port it announced accepting, but
\* those that could not be opened, whatever the broker's sessions went through.
THEOREM ServedInTurn == Spec => []PublisherIsServedInTurn
<1>1. (~overlap => InTurn) => PublisherIsServedInTurn
  BY DEF InTurn, PublisherIsServedInTurn, PublisherIsServed, Served
<1>2. QED
  BY <1>1, TurnHolds, PTL

\* And the services map is then never cleared under a handshake that iterates it.
THEOREM GuardedInTurn == Spec => []ServicesMapGuarded
<1>1. (~overlap => InTurn) => ServicesMapGuarded
  BY DEF InTurn, ServicesMapGuarded, Up
<1>2. QED
  BY <1>1, TurnHolds, PTL

-----------------------------------------------------------------------------
(* The publisher: one websocket, one callback that will see it fail           *)

\* Of PublisherLine's TypeOK, what the arguments below need.
LineTypes ==
    /\ ws \in P!Line
    /\ line \in [P!Line -> {"unused", "connecting", "open", "lost", "closed"}]
    /\ connects \subseteq P!Line /\ greeting \subseteq P!Line
    /\ reads \in [P!Line -> Nat]
    /\ busy \in Nat
    /\ reconnecting \in BOOLEAN /\ threw \in BOOLEAN

Gone(w) == line[w] \in {"unused", "closed"}

\* Only the websocket of the moment may be alive, and it is not while the reconnect
\* timer runs; the one the constructor makes never is.
OneWebsocket ==
    /\ \A w \in P!Line : w # ws => Gone(w)
    /\ reconnecting => Gone(ws)
    /\ ws # 0 => line[ws] # "unused"
    /\ Gone(0)

Count(b) == IF b THEN 1 ELSE 0

\* Until a send fails, the right to call retryConnect is a token: the connect, then
\* the second half of its callback, then the read, then the handler of what was read
\* hold it, each for the websocket of the moment, and nobody while the reconnect
\* timer runs or when a callback has thrown.
OneWatcher ==
    /\ \A w \in P!Line : w # ws => reads[w] = 0 /\ w \notin connects /\ w \notin greeting
    /\ reads[ws] + busy + Count(ws \in connects) + Count(ws \in greeting)
           = Count(~reconnecting /\ ~threw)
    /\ reconnecting => ~threw
    /\ ws \in connects => line[ws] = "connecting"

PublisherInv == LineTypes /\ OneWebsocket /\ (~sendFailed => OneWatcher)

LEMMA LineIsNat == P!Line \subseteq Nat /\ 0 \in P!Line /\ Session = P!Line \ {0}
BY ControlLineAssumption DEF P!Line

\* Giving up closes the websocket of the moment, unless that is done.
LEMMA GivingUpCloses ==
    ASSUME LineTypes, OneWebsocket, P!RetryConnect, UNCHANGED ws
    PROVE  /\ line' \in [P!Line -> {"unused", "connecting", "open", "lost", "closed"}]
           /\ reconnecting' = TRUE
           /\ OneWebsocket'
<1>0. ws \in P!Line /\ 0 \in P!Line
  BY LineIsNat DEF LineTypes
<1>1. CASE reconnecting
  BY <1>1 DEF P!RetryConnect, LineTypes, OneWebsocket, Gone
<1>2. CASE ~reconnecting
  <2>1. line' = [line EXCEPT ![ws] = "closed"] /\ reconnecting' = TRUE
    BY <1>2 DEF P!RetryConnect
  <2>2. line' \in [P!Line -> {"unused", "connecting", "open", "lost", "closed"}]
    BY <2>1 DEF LineTypes
  <2>3. line'[ws] = "closed" /\ \A w \in P!Line : w # ws => line'[w] = line[w]
    BY <1>0, <2>1 DEF LineTypes
  <2>4. QED
    BY <1>0, <2>1, <2>2, <2>3 DEF OneWebsocket, Gone
<1>3. QED
  BY <1>1, <1>2 DEF LineTypes

\* There is one websocket whichever callbacks of which websockets come, also those
\* of a reconnect that is under way and those of sends that fail.
LEMMA WebsocketStep ==
    ASSUME LineTypes, OneWebsocket, [P!Next]_publisherVars
    PROVE  LineTypes' /\ OneWebsocket'
<1>0. /\ ws \in P!Line /\ P!Line \subseteq Nat /\ busy \in Nat
      /\ line \in [P!Line -> {"unused", "connecting", "open", "lost", "closed"}]
      /\ reads \in [P!Line -> Nat] /\ \A w \in P!Line : reads[w] \in Nat
  BY LineIsNat DEF LineTypes
<1>1. CASE UNCHANGED <<ws, line, connects, greeting, reads, busy, reconnecting, threw>>
  BY <1>1 DEF LineTypes, OneWebsocket, Gone
<1>2. CASE P!Authenticate
  <2>0. UNCHANGED <<reads, busy, greeting>> /\ reconnecting
    BY <1>2 DEF P!Authenticate
  <2>1. CASE line' = [line EXCEPT ![ws] = "closed"] /\ UNCHANGED <<ws, connects, reconnecting, threw>>
    BY <2>0, <2>1 DEF LineTypes, OneWebsocket, Gone
  <2>2. CASE /\ ws < MaxLines /\ ws' = ws + 1 /\ line' = [line EXCEPT ![ws + 1] = "connecting"]
             /\ connects' = connects \union {ws + 1} /\ reconnecting' = FALSE /\ threw' = FALSE
    <3>1. ws + 1 \in P!Line /\ ws + 1 # ws /\ ws + 1 # 0
      BY <1>0, <2>2, ControlLineAssumption DEF P!Line
    <3>2. LineTypes'
      BY <2>0, <2>2, <3>1 DEF LineTypes
    <3>3. \A w \in P!Line : Gone(w)
      BY <2>0 DEF OneWebsocket
    <3>4. OneWebsocket'
      BY <1>0, <2>2, <3>1, <3>3, LineIsNat DEF OneWebsocket, Gone
    <3>5. QED
      BY <3>2, <3>4
  <2>3. QED
    BY <1>2, <2>1, <2>2 DEF P!Authenticate
<1>3. CASE P!LineLost
  BY <1>3 DEF P!LineLost, LineTypes, OneWebsocket, Gone
<1>4. CASE P!Restart
  <2>1. /\ line' = [line EXCEPT ![ws] = "closed"] /\ connects' = {} /\ greeting' = {}
        /\ reads' = [w \in P!Line |-> 0] /\ busy' = 0 /\ reconnecting' = TRUE
        /\ threw' = FALSE /\ UNCHANGED ws
    BY <1>4 DEF P!Restart
  <2>2. line'[ws] = "closed" /\ \A w \in P!Line : w # ws => line'[w] = line[w]
    BY <1>0, <2>1
  <2>3. LineTypes'
    BY <1>0, <2>1 DEF LineTypes
  <2>4. QED
    BY <1>0, <2>1, <2>2, <2>3, LineIsNat DEF OneWebsocket, Gone
<1>5. CASE P!MessageHandled
  <2>1. /\ busy > 0 /\ busy' = busy - 1 /\ reads' = [reads EXCEPT ![ws] = reads[ws] + 1]
        /\ UNCHANGED <<ws, line, connects, greeting, reconnecting, threw>>
    BY <1>5 DEF P!MessageHandled
  <2>2. reads[ws] + 1 \in Nat /\ busy' \in Nat
    BY <1>0, <2>1
  <2>3. reads' \in [P!Line -> Nat]
    BY <1>0, <2>1, <2>2
  <2>4. QED
    BY <2>1, <2>2, <2>3 DEF LineTypes, OneWebsocket, Gone
<1>6. CASE P!HandlerThrows
  <2>1. /\ busy > 0 /\ busy' = busy - 1 /\ threw' = TRUE
        /\ UNCHANGED <<ws, line, connects, greeting, reads, reconnecting>>
    BY <1>6 DEF P!HandlerThrows
  <2>2. busy' \in Nat
    BY <1>0, <2>1
  <2>3. QED
    BY <2>1, <2>2 DEF LineTypes, OneWebsocket, Gone
<1>7. CASE P!AliveExpires \/ P!AlivePing
  BY <1>1, <1>7 DEF P!AliveExpires, P!AlivePing, P!lineVars
<1>8. ASSUME NEW w \in P!Line, P!ConnectSucceeds(w) PROVE LineTypes' /\ OneWebsocket'
  BY <1>8 DEF P!ConnectSucceeds, LineTypes, OneWebsocket, Gone
<1>9. ASSUME NEW w \in P!Line, P!ConnectFails(w) PROVE LineTypes' /\ OneWebsocket'
  <2>1. /\ connects' = connects \ {w} /\ P!RetryConnect
        /\ UNCHANGED <<ws, greeting, reads, busy, threw>>
    BY <1>9 DEF P!ConnectFails
  <2>2. QED
    BY <2>1, GivingUpCloses DEF LineTypes
<1>10. ASSUME NEW w \in P!Line, P!Greet(w) PROVE LineTypes' /\ OneWebsocket'
  <2>1. /\ greeting' = greeting \ {w} /\ reads' = [reads EXCEPT ![ws] = reads[ws] + 1]
        /\ UNCHANGED <<ws, line, connects, busy, reconnecting, threw>>
    BY <1>10 DEF P!Greet
  <2>2. reads[ws] + 1 \in Nat
    BY <1>0
  <2>3. reads' \in [P!Line -> Nat]
    BY <1>0, <2>1, <2>2
  <2>4. QED
    BY <2>1, <2>3 DEF LineTypes, OneWebsocket, Gone
<1>11. ASSUME NEW w \in P!Line, P!ReadMessage(w) PROVE LineTypes' /\ OneWebsocket'
  <2>1. /\ reads[w] > 0 /\ reads' = [reads EXCEPT ![w] = reads[w] - 1] /\ busy' = busy + 1
        /\ UNCHANGED <<ws, line, connects, greeting, reconnecting, threw>>
    BY <1>11 DEF P!ReadMessage
  <2>2. reads[w] - 1 \in Nat /\ busy' \in Nat
    BY <1>0, <2>1
  <2>3. reads' \in [P!Line -> Nat]
    BY <1>0, <2>1, <2>2
  <2>4. QED
    BY <2>1, <2>2, <2>3 DEF LineTypes, OneWebsocket, Gone
<1>12. ASSUME NEW w \in P!Line, P!ReadFails(w) PROVE LineTypes' /\ OneWebsocket'
  <2>1. /\ reads[w] > 0 /\ reads' = [reads EXCEPT ![w] = reads[w] - 1] /\ P!RetryConnect
        /\ UNCHANGED <<ws, connects, greeting, busy, threw>>
    BY <1>12 DEF P!ReadFails
  <2>2. reads[w] - 1 \in Nat
    BY <1>0, <2>1
  <2>3. reads' \in [P!Line -> Nat]
    BY <1>0, <2>1, <2>2
  <2>4. QED
    BY <2>1, <2>3, GivingUpCloses DEF LineTypes
<1>13. ASSUME NEW i \in DOMAIN sending, P!SendDone(i) PROVE LineTypes' /\ OneWebsocket'
  BY <1>1, <1>13 DEF P!SendDone, P!lineVars
<1>14. ASSUME NEW i \in DOMAIN sending, P!SendFails(i) PROVE LineTypes' /\ OneWebsocket'
  <2>1. P!RetryConnect /\ UNCHANGED <<ws, connects, greeting, reads, busy, threw>>
    BY <1>14 DEF P!SendFails
  <2>2. QED
    BY <2>1, GivingUpCloses DEF LineTypes
<1>15. CASE UNCHANGED publisherVars
  BY <1>1, <1>15 DEF publisherVars
<1>16. QED
  BY <1>2, <1>3, <1>4, <1>5, <1>6, <1>7, <1>8, <1>9, <1>10, <1>11, <1>12, <1>13, <1>14, <1>15
     DEF P!Next

\* The token has one holder, or the reconnect timer runs, or a callback threw.
LEMMA Holder ==
    ASSUME LineTypes, OneWatcher
    PROVE  /\ \A w \in P!Line : reads[w] > 0 \/ w \in connects \/ w \in greeting => w = ws
           /\ reconnecting => /\ reads[ws] = 0 /\ busy = 0 /\ ~threw
                              /\ ws \notin connects /\ ws \notin greeting
           /\ reads[ws] > 0 => /\ reads[ws] = 1 /\ busy = 0 /\ ~reconnecting /\ ~threw
                               /\ ws \notin connects /\ ws \notin greeting
           /\ busy > 0 => /\ reads[ws] = 0 /\ busy = 1 /\ ~reconnecting /\ ~threw
                          /\ ws \notin connects /\ ws \notin greeting
           /\ ws \in connects => /\ reads[ws] = 0 /\ busy = 0 /\ ~reconnecting /\ ~threw
                                 /\ ws \notin greeting
           /\ ws \in greeting => /\ reads[ws] = 0 /\ busy = 0 /\ ~reconnecting /\ ~threw
                                 /\ ws \notin connects
<1>1. /\ reads[ws] \in Nat /\ busy \in Nat /\ ws \in P!Line /\ \A w \in P!Line : reads[w] \in Nat
      /\ reconnecting \in BOOLEAN /\ threw \in BOOLEAN
  BY DEF LineTypes
<1>2. \A w \in P!Line : w # ws => reads[w] = 0 /\ w \notin connects /\ w \notin greeting
  BY DEF OneWatcher
<1>3. reads[ws] + busy + (IF ws \in connects THEN 1 ELSE 0) + (IF ws \in greeting THEN 1 ELSE 0)
         = IF ~reconnecting /\ ~threw THEN 1 ELSE 0
  BY DEF OneWatcher, Count
<1>4. reconnecting => ~threw
  BY DEF OneWatcher
<1>5. PICK r \in Nat, b \in Nat : r = reads[ws] /\ b = busy
  BY <1>1
<1>6. \A w \in P!Line : reads[w] > 0 \/ w \in connects \/ w \in greeting => w = ws
  BY <1>2
<1>7. CASE reconnecting \/ threw
  <2>1. r = 0 /\ b = 0 /\ ws \notin connects /\ ws \notin greeting
    BY <1>3, <1>5, <1>7
  <2>2. QED
    BY <1>4, <1>5, <1>6, <1>7, <2>1
<1>8. CASE ~reconnecting /\ ~threw
  <2>1. r + b + (IF ws \in connects THEN 1 ELSE 0) + (IF ws \in greeting THEN 1 ELSE 0) = 1
    BY <1>3, <1>5, <1>8
  <2>2. /\ r > 0 => r = 1 /\ b = 0 /\ ws \notin connects /\ ws \notin greeting
        /\ b > 0 => r = 0 /\ b = 1 /\ ws \notin connects /\ ws \notin greeting
        /\ ws \in connects => r = 0 /\ b = 0 /\ ws \notin greeting
        /\ ws \in greeting => r = 0 /\ b = 0 /\ ws \notin connects
    BY <2>1
  <2>3. QED
    BY <1>5, <1>6, <1>8, <2>2
<1>9. QED
  BY <1>7, <1>8

\* A handler of the token's holder that gives up: the reconnect timer starts.
LEMMA GivingUp ==
    ASSUME LineTypes, OneWatcher, P!RetryConnect, ~reconnecting, ~threw,
           UNCHANGED <<ws, busy, greeting, threw>>,
           connects' = connects \ {ws}, ws \notin greeting, busy = 0,
           reads' \in [P!Line -> Nat], reads'[ws] = 0,
           \A w \in P!Line : w # ws => reads'[w] = reads[w]
    PROVE  OneWatcher'
<1>1. reconnecting' = TRUE
  BY DEF P!RetryConnect
<1>2. QED
  BY <1>1 DEF LineTypes, OneWatcher, Count

\* A step that leaves the websockets and the timer alone and hands the token on.
LEMMA HandingOn ==
    ASSUME LineTypes, OneWatcher, UNCHANGED <<ws, line, connects, reconnecting, threw>>,
           reads' \in [P!Line -> Nat], busy' \in Nat, greeting' \subseteq greeting,
           \A w \in P!Line : w # ws => reads'[w] = reads[w],
           reads'[ws] + busy' + Count(ws \in greeting')
               = reads[ws] + busy + Count(ws \in greeting)
    PROVE  OneWatcher'
<1>1. reads[ws] \in Nat /\ busy \in Nat /\ ws \in P!Line /\ reads'[ws] \in Nat
  BY DEF LineTypes
<1>2. /\ \A w \in P!Line : w # ws => reads[w] = 0 /\ w \notin connects /\ w \notin greeting
      /\ reads[ws] + busy + Count(ws \in connects) + Count(ws \in greeting)
            = Count(~reconnecting /\ ~threw)
      /\ reconnecting => ~threw
      /\ ws \in connects => line[ws] = "connecting"
  BY DEF OneWatcher
<1>3. Count(ws \in connects) \in Nat /\ Count(ws \in greeting) \in Nat /\ Count(ws \in greeting') \in Nat
  BY DEF Count
<1>4. reads'[ws] + busy' + Count(ws \in connects) + Count(ws \in greeting')
         = Count(~reconnecting /\ ~threw)
  BY <1>1, <1>2, <1>3
<1>5. QED
  BY <1>2, <1>4 DEF OneWatcher

LEMMA WatcherStep ==
    ASSUME PublisherInv, [P!Next]_publisherVars, ~sendFailed'
    PROVE  OneWatcher'
<1>0. /\ LineTypes /\ ws \in P!Line /\ P!Line \subseteq Nat
      /\ reads \in [P!Line -> Nat] /\ busy \in Nat
  BY LineIsNat DEF PublisherInv, LineTypes
<1>1. CASE P!Restart
  <2>1. /\ connects' = {} /\ greeting' = {} /\ reads' = [w \in P!Line |-> 0] /\ busy' = 0
        /\ reconnecting' = TRUE /\ threw' = FALSE /\ UNCHANGED ws
    BY <1>1 DEF P!Restart
  <2>2. QED
    BY <1>0, <2>1 DEF OneWatcher, Count
<1>2. CASE [P!Next]_publisherVars /\ ~P!Restart
  <2>0. OneWatcher
    <3>1. UNCHANGED sendFailed \/ \E i \in DOMAIN sending : P!SendFails(i)
      BY <1>2 DEF publisherVars, P!Next, P!Authenticate, P!LineLost, P!MessageHandled,
         P!HandlerThrows, P!AliveExpires, P!AlivePing, P!ConnectSucceeds, P!ConnectFails,
         P!Greet, P!ReadMessage, P!ReadFails, P!SendDone, P!sendVars
    <3>2. ~sendFailed
      BY <3>1 DEF P!SendFails
    <3>3. QED
      BY <3>2 DEF PublisherInv
  <2>1. CASE UNCHANGED <<ws, line, connects, greeting, reads, busy, reconnecting, threw>>
    BY <1>0, <2>0, <2>1, HandingOn
  <2>2. CASE P!Authenticate
    <3>1. UNCHANGED <<reads, busy, greeting>> /\ reconnecting
      BY <2>2 DEF P!Authenticate
    <3>2. /\ \A w \in P!Line : reads[w] = 0 /\ w \notin connects /\ w \notin greeting
          /\ busy = 0 /\ ~threw
      BY <1>0, <2>0, <3>1, Holder DEF OneWatcher
    <3>3. CASE UNCHANGED <<ws, connects, reconnecting, threw>>
      BY <1>0, <2>0, <3>1, <3>2, <3>3 DEF OneWatcher
    <3>4. CASE /\ ws < MaxLines /\ ws' = ws + 1 /\ line' = [line EXCEPT ![ws + 1] = "connecting"]
               /\ connects' = connects \union {ws + 1} /\ reconnecting' = FALSE /\ threw' = FALSE
      <4>1. ws + 1 \in P!Line
        BY <1>0, <3>4, ControlLineAssumption DEF P!Line
      <4>2. line'[ws'] = "connecting"
        BY <3>4, <4>1, <1>0 DEF LineTypes
      <4>3. QED
        BY <3>1, <3>2, <3>4, <4>1, <4>2 DEF OneWatcher, Count
    <3>5. QED
      BY <2>2, <3>3, <3>4 DEF P!Authenticate
  <2>3. CASE P!LineLost
    <3>1. line[ws] = "open" /\ UNCHANGED <<ws, connects, greeting, reads, busy, reconnecting, threw>>
      BY <2>3 DEF P!LineLost
    <3>2. QED
      BY <2>0, <3>1 DEF OneWatcher
  <2>4. CASE P!MessageHandled
    <3>1. /\ busy > 0 /\ busy' = busy - 1 /\ reads' = [reads EXCEPT ![ws] = reads[ws] + 1]
          /\ UNCHANGED <<ws, line, connects, greeting, reconnecting, threw>>
      BY <2>4 DEF P!MessageHandled
    <3>2. reads[ws] + 1 \in Nat /\ busy' \in Nat
      BY <1>0, <3>1
    <3>3. reads' \in [P!Line -> Nat]
      BY <1>0, <3>1, <3>2
    <3>4. reads'[ws] + busy' + Count(ws \in greeting') = reads[ws] + busy + Count(ws \in greeting)
      BY <1>0, <3>1 DEF Count
    <3>5. QED
      BY <1>0, <2>0, <3>1, <3>2, <3>3, <3>4, HandingOn
  <2>5. CASE P!HandlerThrows
    <3>1. /\ busy > 0 /\ busy' = busy - 1 /\ threw' = TRUE
          /\ UNCHANGED <<ws, line, connects, greeting, reads, reconnecting>>
      BY <2>5 DEF P!HandlerThrows
    <3>2. /\ reads[ws] = 0 /\ busy = 1 /\ ~reconnecting
          /\ ws \notin connects /\ ws \notin greeting
      BY <1>0, <2>0, <3>1, Holder
    <3>3. QED
      BY <2>0, <3>1, <3>2 DEF OneWatcher, Count
  <2>6. CASE P!AliveExpires \/ P!AlivePing
    BY <2>1, <2>6 DEF P!AliveExpires, P!AlivePing, P!lineVars
  <2>7. ASSUME NEW w \in P!Line, P!ConnectSucceeds(w) PROVE OneWatcher'
    <3>1. /\ w \in connects /\ connects' = connects \ {w} /\ greeting' = greeting \union {w}
          /\ UNCHANGED <<ws, reads, busy, reconnecting, threw>>
      BY <2>7 DEF P!ConnectSucceeds
    <3>2. w = ws /\ ~reconnecting /\ ~threw /\ reads[ws] = 0 /\ busy = 0 /\ ws \notin greeting
      BY <1>0, <2>0, <3>1, Holder
    <3>3. QED
      BY <1>0, <2>0, <3>1, <3>2 DEF OneWatcher, Count
  <2>8. ASSUME NEW w \in P!Line, P!ConnectFails(w) PROVE OneWatcher'
    <3>1. /\ w \in connects /\ connects' = connects \ {w} /\ P!RetryConnect
          /\ UNCHANGED <<ws, greeting, reads, busy, threw>>
      BY <2>8 DEF P!ConnectFails
    <3>2. w = ws /\ ~reconnecting /\ ~threw /\ reads[ws] = 0 /\ busy = 0 /\ ws \notin greeting
      BY <1>0, <2>0, <3>1, Holder
    <3>3. QED
      BY <1>0, <2>0, <3>1, <3>2, GivingUp
  <2>9. ASSUME NEW w \in P!Line, P!Greet(w) PROVE OneWatcher'
    <3>1. /\ w \in greeting /\ greeting' = greeting \ {w}
          /\ reads' = [reads EXCEPT ![ws] = reads[ws] + 1]
          /\ UNCHANGED <<ws, line, connects, busy, reconnecting, threw>>
      BY <2>9 DEF P!Greet
    <3>2. w = ws /\ reads[ws] + 1 \in Nat
      BY <1>0, <2>0, <3>1, Holder
    <3>3. reads' \in [P!Line -> Nat]
      BY <1>0, <3>1, <3>2
    <3>4. reads'[ws] + busy' + Count(ws \in greeting') = reads[ws] + busy + Count(ws \in greeting)
      BY <1>0, <3>1, <3>2 DEF Count
    <3>5. QED
      BY <1>0, <2>0, <3>1, <3>3, <3>4, HandingOn
  <2>10. ASSUME NEW w \in P!Line, P!ReadMessage(w) PROVE OneWatcher'
    <3>1. /\ reads[w] > 0 /\ reads' = [reads EXCEPT ![w] = reads[w] - 1] /\ busy' = busy + 1
          /\ UNCHANGED <<ws, line, connects, greeting, reconnecting, threw>>
      BY <2>10 DEF P!ReadMessage
    <3>2. w = ws /\ reads[ws] - 1 \in Nat /\ busy' \in Nat
      BY <1>0, <2>0, <3>1, Holder
    <3>3. reads' \in [P!Line -> Nat]
      BY <1>0, <3>1, <3>2
    <3>4. reads'[ws] + busy' + Count(ws \in greeting') = reads[ws] + busy + Count(ws \in greeting)
      BY <1>0, <3>1, <3>2 DEF Count
    <3>5. QED
      BY <1>0, <2>0, <3>1, <3>2, <3>3, <3>4, HandingOn
  <2>11. ASSUME NEW w \in P!Line, P!ReadFails(w) PROVE OneWatcher'
    <3>1. /\ reads[w] > 0 /\ reads' = [reads EXCEPT ![w] = reads[w] - 1] /\ P!RetryConnect
          /\ UNCHANGED <<ws, connects, greeting, busy, threw>>
      BY <2>11 DEF P!ReadFails
    <3>2. /\ w = ws /\ ~reconnecting /\ ~threw /\ reads[ws] = 1 /\ busy = 0 /\ ws \notin greeting
          /\ ws \notin connects
      BY <1>0, <2>0, <3>1, Holder
    <3>3. reads' \in [P!Line -> Nat] /\ reads'[ws] = 0 /\ connects' = connects \ {ws}
      BY <1>0, <3>1, <3>2
    <3>4. QED
      BY <1>0, <2>0, <3>1, <3>2, <3>3, GivingUp
  <2>12. ASSUME NEW i \in DOMAIN sending, P!SendDone(i) PROVE OneWatcher'
    BY <2>1, <2>12 DEF P!SendDone, P!lineVars
  <2>13. ASSUME NEW i \in DOMAIN sending, P!SendFails(i) PROVE FALSE
    BY <2>13 DEF P!SendFails
  <2>14. CASE UNCHANGED publisherVars
    BY <2>1, <2>14 DEF publisherVars
  <2>15. QED
    BY <1>2, <2>2, <2>3, <2>4, <2>5, <2>6, <2>7, <2>8, <2>9, <2>10, <2>11, <2>12, <2>13,
       <2>14 DEF P!Next
<1>3. QED
  BY <1>1, <1>2

LEMMA PublisherStepKeeps == PublisherInv /\ [P!Next]_publisherVars => PublisherInv'
BY WebsocketStep, WatcherStep DEF PublisherInv

-----------------------------------------------------------------------------
(* Either end of the composition behaves as its own specification says        *)

\* What a step of the publisher does to the broker's variables.
PublisherFrame ==
    /\ ~other /\ UNCHANGED other
    /\ link' = [s \in Session |-> IF line'[s] = "closed" THEN "down" ELSE link[s]]
    /\ UNCHANGED <<overlap, broker, stage, current, registered, tasks, reading, writing,
                   adding, greeted, services, failed, stranded>>

\* A step is the broker's, an upgrade that is answered, the publisher's, or one of
\* which the broker sees nothing.
LEMMA StepKinds ==
    ASSUME LineNext
    PROVE  \/ (BrokerStep \/ OtherStep) /\ UNCHANGED <<publisherVars, other>>
           \/ \E w \in Session : UpgradeAnswered(w) /\ UNCHANGED <<publisherVars, other>>
           \/ \E w \in Session : MessageRead(w) /\ UNCHANGED <<publisherVars, other>>
           \/ PublisherFrame /\ P!Next
           \/ P!Next /\ UNCHANGED <<vars, other, ws>>
<1>0. Session \subseteq P!Line
  BY LineIsNat
<1>1. CASE BrokerStep
  BY <1>1 DEF BrokerStep, BrokerHandles, Broker
<1>2. CASE OtherStep
  BY <1>2 DEF OtherStep, Broker
<1>3. CASE PublisherStep
  <2>1. PublisherFrame
    BY <1>3 DEF PublisherStep, Publisher, PublisherFrame
  <2>2. P!Next
    BY <1>0, <1>3 DEF PublisherStep, Publisher, P!Next
  <2>3. QED
    BY <2>1, <2>2
<1>4. CASE PublisherReadFails
  BY <1>0, <1>4 DEF PublisherReadFails, Publisher, PublisherFrame, P!Next
<1>5. CASE PublisherHandles
  <2>1. PublisherFrame
    BY <1>5 DEF PublisherHandles, ConnectSucceeds, Publisher, PublisherFrame
  <2>2. P!Next
    BY <1>0, <1>5 DEF PublisherHandles, ConnectSucceeds, Publisher, P!Next
  <2>3. QED
    BY <2>1, <2>2
<1>6. CASE SendCompletes
  <2>1. PICK i \in DOMAIN sending : MessageSent(i) \/ Publisher(P!SendFails(i))
    BY <1>6 DEF SendCompletes
  <2>2. CASE MessageSent(i)
    BY <2>2 DEF MessageSent, P!Next, P!SendDone, P!lineVars
  <2>3. CASE Publisher(P!SendFails(i))
    BY <2>3 DEF Publisher, PublisherFrame, P!Next
  <2>4. QED
    BY <2>1, <2>2, <2>3
<1>7. ASSUME NEW w \in Session, UpgradeAnswered(w)
      PROVE  UpgradeAnswered(w) /\ UNCHANGED <<publisherVars, other>>
  BY <1>7 DEF UpgradeAnswered, Broker
<1>8. ASSUME NEW w \in Session, MessageRead(w)
      PROVE  MessageRead(w) /\ UNCHANGED <<publisherVars, other>>
  BY <1>8 DEF MessageRead
<1>9. CASE LossArrives
  BY <1>9 DEF LossArrives, P!Next, P!LineLost
<1>10. QED
  BY <1>1, <1>2, <1>3, <1>4, <1>5, <1>6, <1>7, <1>8, <1>9 DEF LineNext

LEMMA PublisherRefined == [LineNext]_lineVars => [P!Next]_publisherVars
<1>1. CASE LineNext
  BY <1>1, StepKinds
<1>2. CASE UNCHANGED lineVars
  BY <1>2 DEF lineVars
<1>3. QED
  BY <1>1, <1>2

\* A connection that is up belongs to a session that lives, and to the websocket of
\* the moment: the publisher closes one before it makes the next.
LinkIsLive == \A s \in Session : link[s] = "up" => Live(s)
LinkIsCurrent == ~other => \A s \in Session : link[s] = "up" => s = ws

JointInv ==
    /\ TypeOK /\ PublisherInv
    /\ LinkIsLive /\ LinkIsCurrent

\* What the publisher does to its websocket is at most a connection that drops.
LEMMA PublisherDropsLink ==
    ASSUME JointInv, PublisherFrame
    PROVE  UNCHANGED vars \/ \E s \in Session : LinkDrops(s)
<1>1. /\ link \in [Session -> {"up", "down"}]
      /\ \A s \in Session : link[s] = "up" => s = ws
      /\ link' = [s \in Session |-> IF line'[s] = "closed" THEN "down" ELSE link[s]]
  BY DEF JointInv, TypeOK, LinkIsCurrent, PublisherFrame
<1>2. CASE ws \in Session /\ link[ws] = "up" /\ line'[ws] = "closed"
  <2>1. link' = [link EXCEPT ![ws] = "down"]
    BY <1>1, <1>2
  <2>2. LinkDrops(ws)
    BY <1>2, <2>1 DEF LinkDrops, PublisherFrame
  <2>3. QED
    BY <1>2, <2>2
<1>3. CASE ~(ws \in Session /\ link[ws] = "up" /\ line'[ws] = "closed")
  <2>1. link' = link
    BY <1>1, <1>3
  <2>2. QED
    BY <2>1 DEF PublisherFrame, vars
<1>4. QED
  BY <1>2, <1>3

\* When an upgrade is answered no connection is up.
LEMMA UpgradeIsInTurn ==
    ASSUME JointInv, NEW w \in Session, UpgradeAnswered(w)
    PROVE  Upgrade(w)
<1>1. w = ws /\ ~other /\ UpgradeHandler(w)
  BY DEF UpgradeAnswered, Broker
<1>2. \A s \in Session : link[s] = "up" => s = w /\ Live(s)
  BY <1>1 DEF JointInv, LinkIsLive, LinkIsCurrent
<1>3. ~Live(w)
  BY <1>1 DEF UpgradeHandler, Live
<1>4. QED
  BY <1>1, <1>2, <1>3 DEF Upgrade, JointInv, TypeOK

LEMMA PlaneRefined == JointInv /\ [LineNext]_lineVars => [Next]_vars
<1> SUFFICES ASSUME JointInv, [LineNext]_lineVars PROVE [Next]_vars
  OBVIOUS
<1>1. CASE BrokerStep
  BY <1>1 DEF BrokerStep, BrokerHandles, Broker, Next
<1>2. CASE OtherStep
  BY <1>2 DEF OtherStep, Broker, Next
<1>3. ASSUME NEW w \in Session, UpgradeAnswered(w) PROVE Next
  BY <1>3, UpgradeIsInTurn DEF Next
<1>4. ASSUME NEW w \in Session, MessageRead(w) PROVE [Next]_vars
  BY <1>4 DEF MessageRead, Dispatched, Next
<1>5. CASE PublisherFrame
  BY <1>5, PublisherDropsLink DEF Next
<1>6. CASE UNCHANGED lineVars
  BY <1>6 DEF lineVars
<1>7. QED
  BY <1>1, <1>2, <1>3, <1>4, <1>5, <1>6, StepKinds

-----------------------------------------------------------------------------
(* The invariant of the composition                                           *)

\* The steps of the broker but an upgrade.
NoUpgrade ==
    \/ \E s \in Session :
          \/ Register(s) \/ ReadHandshake(s) \/ HandshakeHandled(s) \/ Answer(s)
          \/ AddServicesThrows(s) \/ ConsumerThrows(s) \/ \E p \in Port : AddService(s, p)
          \/ LinkDrops(s) \/ ReadFails(s) \/ WriteDone(s) \/ WriteFails(s) \/ EndSelf(s)
    \/ \E p \in Port : Accept(p)
    \/ Restart
    \/ Over \/ UNCHANGED vars

\* None of them brings a connection up.
LEMMA LinksFall ==
    ASSUME TypeOK, NoUpgrade, NEW s \in Session, link'[s] = "up"
    PROVE  link[s] = "up"
<1>1. ASSUME NEW reg, NEW tsk, NEW more, Settle(reg, tsk, more) PROVE link[s] = "up"
  BY <1>1 DEF Settle
<1>2. ASSUME NEW o \in Session, Register(o) \/ HandshakeHandled(o) \/ EndSelf(o)
      PROVE  link[s] = "up"
  BY <1>1, <1>2 DEF Register, HandshakeHandled, EndSelf
<1>3. ASSUME NEW o \in Session, LinkDrops(o) PROVE link[s] = "up"
  BY <1>3 DEF LinkDrops, TypeOK
<1>4. ASSUME NEW o \in Session,
             ReadHandshake(o) \/ Answer(o) \/ ReadFails(o) \/ WriteDone(o) \/ WriteFails(o)
             \/ AddServicesThrows(o) \/ ConsumerThrows(o)
      PROVE  UNCHANGED link
  BY <1>4 DEF ReadHandshake, Answer, ReadFails, WriteDone, WriteFails, AddServicesThrows,
     ConsumerThrows
<1>5. ASSUME NEW p \in Port, Accept(p) \/ \E o \in Session : AddService(o, p)
      PROVE  UNCHANGED link
  BY <1>5 DEF AddService, Accept
<1>6. CASE Restart
  BY <1>6 DEF Restart
<1>7. CASE Over \/ UNCHANGED vars
  BY <1>7 DEF Over, vars
<1>8. QED
  BY <1>2, <1>3, <1>4, <1>5, <1>6, <1>7 DEF NoUpgrade

\* Who dies takes the connection along.
LEMMA LinkIsLiveStep == TypeOK /\ LinkIsLive /\ [Next]_vars => LinkIsLive'
<1> SUFFICES ASSUME TypeOK, LinkIsLive, [Next]_vars, NEW s \in Session, link'[s] = "up"
             PROVE  Live(s)'
  BY DEF LinkIsLive
<1>1. ASSUME NEW o \in Session, Upgrade(o) PROVE Live(s)'
  BY <1>1 DEF Upgrade, UpgradeHandler, LinkIsLive, Live, TypeOK
<1>2. CASE NoUpgrade
  <2>1. Live(s)
    BY <1>2, LinksFall DEF LinkIsLive
  <2>2. ASSUME NEW reg, NEW tsk, NEW more, Settle(reg, tsk, more) PROVE Live(s)'
    BY <2>1, <2>2 DEF Settle, Live
  <2>3. ASSUME NEW o \in Session, Register(o) \/ HandshakeHandled(o) \/ EndSelf(o)
        PROVE  Live(s)'
    BY <2>2, <2>3 DEF Register, HandshakeHandled, EndSelf
  <2>4. ASSUME NEW o \in Session,
               ReadHandshake(o) \/ Answer(o) \/ LinkDrops(o) \/ ReadFails(o) \/ WriteDone(o)
               \/ WriteFails(o) \/ AddServicesThrows(o) \/ ConsumerThrows(o)
               \/ \E p \in Port : AddService(o, p)
        PROVE  UNCHANGED stage
    BY <2>4 DEF ReadHandshake, Answer, LinkDrops, ReadFails, WriteDone, WriteFails,
       AddService, AddServicesThrows, ConsumerThrows
  <2>5. ASSUME NEW p \in Port, Accept(p) PROVE UNCHANGED stage
    BY <2>5 DEF Accept
  <2>6. CASE Restart
    BY <2>6 DEF Restart
  <2>7. ASSUME Over \/ UNCHANGED vars PROVE UNCHANGED stage
    BY <2>7 DEF Over, vars
  <2>8. UNCHANGED stage => Live(s)'
    BY <2>1 DEF Live
  <2>9. QED
    BY <1>2, <2>3, <2>4, <2>5, <2>6, <2>7, <2>8 DEF NoUpgrade
<1>3. QED
  BY <1>1, <1>2 DEF Next, NoUpgrade

\* The broker answers the websocket of the moment only, and the publisher makes a new
\* one when that one is closed.
LEMMA LinkIsCurrentStep == JointInv /\ [LineNext]_lineVars => LinkIsCurrent'
<1> SUFFICES ASSUME JointInv, [LineNext]_lineVars, ~other', NEW s \in Session, link'[s] = "up"
             PROVE  s = ws'
  BY DEF LinkIsCurrent
<1>0. /\ TypeOK /\ PublisherInv /\ Session = P!Line \ {0}
      /\ ~other => \A o \in Session : link[o] = "up" => o = ws
  BY LineIsNat DEF JointInv, LinkIsCurrent
<1>1. CASE (BrokerStep \/ OtherStep) /\ UNCHANGED <<publisherVars, other>>
  <2>1. ~other /\ ws' = ws
    BY <1>1 DEF publisherVars
  <2>2. BrokerStep
    BY <1>1, <2>1 DEF OtherStep
  <2>3. NoUpgrade
    BY <2>2 DEF BrokerStep, BrokerHandles, Broker, NoUpgrade
  <2>4. QED
    BY <1>0, <2>1, <2>3, LinksFall
<1>2. ASSUME NEW w \in Session, UpgradeAnswered(w), UNCHANGED <<publisherVars, other>>
      PROVE  s = ws'
  <2>1. w = ws /\ ws' = ws /\ ~other /\ link' = [link EXCEPT ![w] = "up"]
    BY <1>2 DEF UpgradeAnswered, Broker, UpgradeHandler, publisherVars
  <2>2. QED
    BY <1>0, <2>1 DEF TypeOK
<1>3. ASSUME NEW w \in Session, MessageRead(w), UNCHANGED <<publisherVars, other>>
      PROVE  s = ws'
  <2>1. ~other /\ ws' = ws
    BY <1>3 DEF publisherVars
  <2>2. NoUpgrade
    BY <1>3 DEF MessageRead, Dispatched, NoUpgrade
  <2>3. QED
    BY <1>0, <2>1, <2>2, LinksFall
<1>4. CASE PublisherFrame /\ P!Next
  <2>1. link[s] = "up" /\ line'[s] # "closed" /\ s = ws
    BY <1>0, <1>4 DEF PublisherFrame
  <2>2. CASE P!Authenticate /\ ws' # ws
    <3>1. reconnecting /\ line' = [line EXCEPT ![ws + 1] = "connecting"]
      BY <2>2 DEF P!Authenticate
    <3>2. line[ws] = "closed"
      BY <1>0, <2>1, <3>1 DEF PublisherInv, OneWebsocket, Gone
    <3>3. line'[ws] = "closed"
      BY <1>0, <3>1, <3>2, LineIsNat DEF PublisherInv, LineTypes
    <3>4. QED
      BY <2>1, <3>3
  <2>3. CASE P!Next /\ ~P!Authenticate
    BY <2>1, <2>3 DEF P!Next, P!LineLost, P!Restart, P!MessageHandled, P!HandlerThrows, P!AliveExpires,
       P!AlivePing, P!ConnectSucceeds, P!ConnectFails, P!Greet, P!ReadMessage, P!ReadFails,
       P!SendDone, P!SendFails, P!lineVars
  <2>4. QED
    BY <1>4, <2>1, <2>2, <2>3
<1>5. CASE UNCHANGED <<vars, other, ws>>
  BY <1>0, <1>5 DEF vars
<1>6. CASE UNCHANGED lineVars
  BY <1>0, <1>6 DEF lineVars, vars, publisherVars
<1>7. QED
  BY <1>1, <1>2, <1>3, <1>4, <1>5, <1>6, StepKinds
LEMMA JointStep == JointInv /\ [LineNext]_lineVars => JointInv'
<1> SUFFICES ASSUME JointInv, [LineNext]_lineVars PROVE JointInv'
  OBVIOUS
<1>1. [Next]_vars /\ [P!Next]_publisherVars
  BY PlaneRefined, PublisherRefined
<1>2. TypeOK' /\ PublisherInv' /\ LinkIsLive'
  BY <1>1, TypeStep, PublisherStepKeeps, LinkIsLiveStep DEF JointInv
<1>3. UNCHANGED overlap
  BY <1>1 DEF Next, vars, Upgrade, UpgradeHandler, Register, ReadHandshake, AddService,
     HandshakeHandled, AddServicesThrows, Answer, ConsumerThrows, LinkDrops, ReadFails,
     WriteDone, WriteFails, EndSelf, Accept, Restart, Over
<1>4. UNCHANGED other
  BY StepKinds DEF lineVars, PublisherFrame
<1>5. QED
  BY <1>2, <1>3, <1>4, LinkIsCurrentStep DEF JointInv

LEMMA JointInit == LineInit => JointInv
<1> SUFFICES ASSUME LineInit PROVE JointInv
  OBVIOUS
<1>1. TypeOK
  BY ControlPlaneAssumption DEF LineInit, Init, TypeOK
<1>2. /\ ws = 0 /\ line = [w \in P!Line |-> "unused"] /\ connects = {} /\ greeting = {}
      /\ reads = [w \in P!Line |-> 0] /\ busy = 0 /\ reconnecting = TRUE /\ threw = FALSE
  BY DEF LineInit, P!Init
<1>3. LineTypes /\ OneWebsocket
  BY <1>2, LineIsNat DEF LineTypes, OneWebsocket, Gone
<1>4. OneWatcher
  BY <1>2, LineIsNat DEF OneWatcher, Count
<1>5. LinkIsLive /\ LinkIsCurrent
  BY DEF LineInit, Init, LinkIsLive, LinkIsCurrent
<1>6. QED
  BY <1>1, <1>2, <1>3, <1>4, <1>5 DEF JointInv, PublisherInv

LEMMA JointHolds == LineSpec => []JointInv
BY JointInit, JointStep, PTL DEF LineSpec

-----------------------------------------------------------------------------
(* What follows                                                               *)

\* The broker at the end of a control line does what ControlPlane says, although the
\* publisher may have given up the connection the broker accepts and closes it from
\* its own end: with this repository's publisher an upgrade never finds another
\* connection up.
THEOREM LineImplementsControlPlane == LineSpec => Spec
<1>1. LineInit => Init
  BY DEF LineInit
<1>2. QED
  BY <1>1, JointHolds, PlaneRefined, PTL DEF LineSpec, Spec

\* The publisher at the end of a control line does what PublisherLine says.
THEOREM LineImplementsPublisherLine == LineSpec => P!Spec
<1>1. LineInit => P!Init
  BY DEF LineInit
<1>2. [LineNext]_lineVars => [P!Next]_(P!vars)
  BY PublisherRefined DEF publisherVars, P!vars
<1>3. QED
  BY <1>1, <1>2, PTL DEF LineSpec, P!Spec

\* So the broker keeps its types at the end of a control line,
THEOREM LineTypeCorrect == LineSpec => []TypeOK
BY LineImplementsControlPlane, TypeCorrect, PTL

\* and gives the ports back with the last session, also when the publisher is back
\* before the broker noticed.
THEOREM LineOrphansNoService == LineSpec => []NoOrphanService
BY LineImplementsControlPlane, NoServiceIsOrphaned, PTL

\* If the broker has noticed the loss of a line before the publisher is back (~overlap,
\* in the formula: the publisher waits a second and never asks), it serves the publisher
\* that greeted it, whatever handlers threw and sends failed on either end,
THEOREM LineIsServedInTurn == LineSpec => []PublisherIsServedInTurn
BY LineImplementsControlPlane, ServedInTurn, PTL

\* and does not clear the services under a handshake.
THEOREM LineGuardsServices == LineSpec => []ServicesMapGuarded
BY LineImplementsControlPlane, GuardedInTurn, PTL

\* The publisher has one websocket at a time also when the broker answers an upgrade
\* after the publisher gave it up.
THEOREM LineHasOneWebsocket == LineSpec => []P!OneLineOpen
<1>1. JointInv => P!OneLineOpen
  BY DEF JointInv, PublisherInv, LineTypes, OneWebsocket, Gone, P!OneLineOpen
<1>2. QED
  BY <1>1, JointHolds, PTL

\* While the websocket is open at both ends and the broker had noticed the loss of the
\* one before, the broker sends its requests there and one callback of the publisher
\* reads them, never two, and none only once a callback has thrown.  What a send that
\* failed leaves behind is excepted.
THEOREM RequestsAreAlwaysRead == LineSpec => []RequestsAreRead
<1>1. JointInv /\ LifeInv /\ (~overlap => InTurn) => RequestsAreRead
  <2> SUFFICES ASSUME JointInv, ~overlap, InTurn, ~other, ~sendFailed, line[ws] = "open",
                      link[ws] = "up"
               PROVE  /\ current = ws
                      /\ reads[ws] + busy + Cardinality(greeting \intersect {ws})
                            = IF threw THEN 0 ELSE 1
    BY DEF RequestsAreRead
  <2>0. LineTypes /\ OneWebsocket /\ OneWatcher
    BY DEF JointInv, PublisherInv
  <2>1. /\ ws \in P!Line /\ reads[ws] \in Nat /\ busy \in Nat
        /\ ~reconnecting /\ ws \notin connects
        /\ reads[ws] + busy + Count(ws \in connects) + Count(ws \in greeting)
               = Count(~reconnecting /\ ~threw)
    BY <2>0 DEF LineTypes, OneWebsocket, OneWatcher, Gone
  <2>2. ws # 0
    BY DEF JointInv, PublisherInv, OneWebsocket, Gone
  <2>3. current = ws
    <3>1. ws \in Session /\ Live(ws) /\ ~overlap
      BY <2>1, <2>2, LineIsNat DEF JointInv, LinkIsLive
    <3>2. QED
      BY <3>1 DEF InTurn
  <2>4. reads[ws] + busy + Count(ws \in greeting) = IF threw THEN 0 ELSE 1
    BY <2>1 DEF Count
  <2>5. Cardinality(greeting \intersect {ws}) = Count(ws \in greeting)
    <3>1. CASE ws \in greeting
      <4>1. greeting \intersect {ws} = {ws}
        BY <3>1
      <4>2. QED
        BY <3>1, <4>1, FS_Singleton DEF Count
    <3>2. CASE ws \notin greeting
      <4>1. greeting \intersect {ws} = {}
        BY <3>2
      <4>2. QED
        BY <3>2, <4>1, FS_EmptySet DEF Count
    <3>3. QED
      BY <3>1, <3>2
  <2>6. QED
    BY <2>3, <2>4, <2>5
<1>2. LineSpec => []LifeInv /\ [](~overlap => InTurn)
  BY LineImplementsControlPlane, LifeHolds, TurnHolds, PTL
<1>3. QED
  BY <1>1, <1>2, JointHolds, PTL
=============================================================================
