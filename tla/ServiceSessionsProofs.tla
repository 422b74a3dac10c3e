------------------------ MODULE ServiceSessionsProofs ------------------------
(***************************************************************************)
(* Proofs about ServiceSessions, for any set of tunnels: no pair with both  *)
(* ends closed is forgotten in the registry, onClose finds both pipes, and  *)
(* the publisher keeps the promise of PublisherEnds.                        *)
(***************************************************************************)
EXTENDS ServiceSessions, TLAPS

\* A tunnel's stage says which of its ends may be open, whether it is registered,
\* and that nothing closes an end before the pair exists.
StagesAgree ==
    \A t \in Tunnel :
        /\ stage[t] \in {"idle", "over"} => active[t] = {}
        /\ stage[t] = "token" => active[t] = {"out"}
        /\ t \in sessions <=> stage[t] = "paired"
        /\ stage[t] \in {"idle", "token"} => \A h \in Handler : Idle(t, h)

\* While the second pipe of a pair is missing sessionGuard_ is held for it.
GuardIsHeld ==
    \A t \in Tunnel : stage[t] = "paired" /\ pipe[t]["out"] = "none" => guard = t

\* A pipe's handler closes nothing before the pipe has ended.
PipesCloseLast ==
    \A t \in Tunnel, e \in End : pipe[t][e] # "ended" => Idle(t, <<"pipe", e>>)

Inv == /\ TypeOK /\ StagesAgree /\ GuardIsHeld
       /\ PipesCloseLast /\ NoDeadPairStays /\ PipesAreThere

LEMMA TodosShrink ==
    ASSUME NEW s \in Todos, s # <<>>
    PROVE  Head(s) \in End /\ Tail(s) \in Todos
<1>1. ASSUME NEW a \in End, NEW b \in End
      PROVE  /\ Head(<<a>>) = a /\ Tail(<<a>>) = <<>>
             /\ Head(<<a, b>>) = a /\ Tail(<<a, b>>) = <<b>>
  OBVIOUS
<1>2. CASE s = <<"in">>
  BY <1>1, <1>2 DEF Todos, End
<1>3. CASE s = <<"out">>
  BY <1>1, <1>3 DEF Todos, End
<1>4. CASE s = <<"in", "out">>
  BY <1>1, <1>4 DEF Todos, End
<1>5. CASE s = <<"out", "in">>
  BY <1>1, <1>5 DEF Todos, End
<1>6. QED
  BY <1>2, <1>3, <1>4, <1>5 DEF Todos

LEMMA TodosStart ==
    ASSUME NEW e \in End
    PROVE  /\ Other(e) \in End /\ <<e>> \in Todos /\ <<e, Other(e)>> \in Todos
           /\ <<e>> # <<>> /\ <<e, Other(e)>> # <<>>
BY DEF Todos, End, Other

LEMMA Handlers ==
    ASSUME NEW e \in End
    PROVE  <<"pipe", e>> \in Handler /\ <<"timer", e>> \in Handler
BY DEF Handler

-----------------------------------------------------------------------------
(* Types                                                                    *)

\* Giving one handler something to close, or moving it on, keeps "closing" typed.
LEMMA ClosingTyped ==
    ASSUME TypeOK, NEW t \in Tunnel, NEW h \in Handler, NEW c \in Closings,
           closing' = [closing EXCEPT ![t][h] = c]
    PROVE  closing' \in [Tunnel -> [Handler -> Closings]]
<1>1. closing \in [Tunnel -> [Handler -> Closings]]
  BY DEF TypeOK
<1>2. [closing[t] EXCEPT ![h] = c] \in [Handler -> Closings]
  BY <1>1
<1>3. QED
  BY <1>1, <1>2

LEMMA StartTyped ==
    ASSUME TypeOK, NEW t \in Tunnel, NEW h \in Handler, NEW s \in Todos, Start(t, h, s)
    PROVE  closing' \in [Tunnel -> [Handler -> Closings]]
<1>1. [todo |-> s, at |-> "check"] \in Closings
  BY DEF Closings
<1>2. QED
  BY <1>1, ClosingTyped DEF Start

LEMMA GotoTyped ==
    ASSUME TypeOK, NEW t \in Tunnel, NEW h \in Handler,
           NEW a \in {"check", "shutdown", "clear", "notify"}, Goto(t, h, a)
    PROVE  closing' \in [Tunnel -> [Handler -> Closings]]
<1>1. closing[t][h] \in Closings
  BY DEF TypeOK
<1>2. [closing[t][h] EXCEPT !.at = a] \in Closings
  BY <1>1 DEF Closings
<1>3. closing' = [closing EXCEPT ![t][h] = [closing[t][h] EXCEPT !.at = a]]
  BY DEF Goto
<1>4. QED
  BY <1>2, <1>3, ClosingTyped

LEMMA TypeStep == TypeOK /\ [Next]_vars => TypeOK'
<1> SUFFICES ASSUME TypeOK, [Next]_vars PROVE TypeOK'
  OBVIOUS
<1>0. /\ {} \in SUBSET End /\ {"out"} \in SUBSET End /\ {"in"} \in SUBSET End
      /\ End \in SUBSET End /\ "in" \in End /\ "out" \in End
      /\ \A t \in Tunnel : /\ active[t] \in SUBSET End /\ shut[t] \in SUBSET End
                           /\ armed[t] \in SUBSET End /\ fired[t] \in SUBSET End
                           /\ pipe[t] \in [End -> {"none", "read", "write", "ended"}]
  BY DEF End, TypeOK
<1>1. ASSUME NEW t \in Tunnel, CreateSession(t) \/ OutwardThrows(t) PROVE TypeOK'
  <2>1. stage' \in [Tunnel -> {"idle", "token", "paired", "over"}]
    BY <1>1 DEF CreateSession, OutwardThrows, ends, TypeOK
  <2>2. active' \in [Tunnel -> SUBSET End]
    BY <1>0, <1>1 DEF CreateSession, OutwardThrows, ends, TypeOK
  <2>3. QED
    BY <1>1, <2>1, <2>2 DEF CreateSession, OutwardThrows, ends, TypeOK, timers
<1>2. ASSUME NEW t \in Tunnel, TokenFails(t) PROVE TypeOK'
  BY <1>0, <1>2 DEF TokenFails, TypeOK, timers
<1>3. ASSUME NEW t \in Tunnel, InwardThrows(t) PROVE TypeOK'
  BY <1>3 DEF InwardThrows, TypeOK, timers, ends
<1>4. ASSUME NEW t \in Tunnel, Emplace(t) PROVE TypeOK'
  <2>1. [pipe[t] EXCEPT !["in"] = "read"] \in [End -> {"none", "read", "write", "ended"}]
    BY <1>0
  <2>2. pipe' \in [Tunnel -> [End -> {"none", "read", "write", "ended"}]]
    BY <1>4, <2>1 DEF Emplace, TypeOK
  <2>3. QED
    BY <1>0, <1>4, <2>2 DEF Emplace, TypeOK
<1>5. ASSUME NEW t \in Tunnel, PipeOutward(t) PROVE TypeOK'
  <2>1. [pipe[t] EXCEPT !["out"] = "read"] \in [End -> {"none", "read", "write", "ended"}]
    BY <1>0
  <2>2. pipe' \in [Tunnel -> [End -> {"none", "read", "write", "ended"}]]
    BY <1>5, <2>1 DEF PipeOutward, TypeOK
  <2>3. armed[t] \union {"out"} \in SUBSET End
    BY <1>0
  <2>4. QED
    BY <1>0, <1>5, <2>2, <2>3 DEF PipeOutward, TypeOK, ends
<1>6. ASSUME NEW t \in Tunnel, NEW e \in End, PipeData(t, e) \/ PipeWritten(t, e) PROVE TypeOK'
  <2>1. PICK v \in {"read", "write"} : pipe' = [pipe EXCEPT ![t][e] = v]
    BY <1>6 DEF PipeData, PipeWritten
  <2>2. [pipe[t] EXCEPT ![e] = v] \in [End -> {"none", "read", "write", "ended"}]
    BY <1>0
  <2>3. pipe' \in [Tunnel -> [End -> {"none", "read", "write", "ended"}]]
    BY <2>1, <2>2 DEF TypeOK
  <2>4. armed' \in [Tunnel -> SUBSET End]
    BY <1>0, <1>6 DEF PipeData, PipeWritten, TypeOK
  <2>5. QED
    BY <1>6, <2>3, <2>4 DEF PipeData, PipeWritten, TypeOK, ends
<1>7. ASSUME NEW t \in Tunnel, NEW e \in End, PipeEnds(t, e) PROVE TypeOK'
  <2>1. closing' \in [Tunnel -> [Handler -> Closings]]
    BY <1>7, TodosStart, Handlers, StartTyped DEF PipeEnds
  <2>2. [pipe[t] EXCEPT ![e] = "ended"] \in [End -> {"none", "read", "write", "ended"}]
    BY <1>0
  <2>3. pipe' \in [Tunnel -> [End -> {"none", "read", "write", "ended"}]]
    BY <1>7, <2>2 DEF PipeEnds, TypeOK
  <2>4. QED
    BY <1>0, <1>7, <2>1, <2>3 DEF PipeEnds, TypeOK, ends
<1>8. ASSUME NEW t \in Tunnel, NEW e \in End, TimerExpires(t, e) PROVE TypeOK'
  <2>1. armed[t] \ {e} \in SUBSET End /\ fired[t] \union {e} \in SUBSET End
    BY <1>0
  <2>2. QED
    BY <1>8, <2>1 DEF TimerExpires, TypeOK, ends
<1>9. ASSUME NEW t \in Tunnel, NEW e \in End, TimerRuns(t, e) PROVE TypeOK'
  <2>1. closing' \in [Tunnel -> [Handler -> Closings]]
    BY <1>9, TodosStart, Handlers, StartTyped DEF TimerRuns, TypeOK
  <2>2. fired[t] \ {e} \in SUBSET End
    BY <1>0
  <2>3. QED
    BY <1>9, <2>1, <2>2 DEF TimerRuns, TypeOK, ends
<1>10. ASSUME NEW t \in Tunnel, NEW h \in Handler, CloseStep(t, h) PROVE TypeOK'
  <2>1. closing[t][h].todo # <<>> /\ closing[t][h].todo \in Todos
    BY <1>10 DEF CloseStep, Check, ShutDown, Clear, Notify, At, Idle, TypeOK, Closings
  <2>2. Closing(t, h) \in End /\ Tail(closing[t][h].todo) \in Todos
    BY <2>1, TodosShrink DEF Closing
  <2>3. \/ Goto(t, h, "shutdown") \/ Goto(t, h, "clear") \/ Goto(t, h, "notify") \/ Done(t, h)
    BY <1>10 DEF CloseStep, Check, ShutDown, Clear, Notify
  <2>4. closing' \in [Tunnel -> [Handler -> Closings]]
    BY <2>2, <2>3, GotoTyped, StartTyped DEF Done
  <2>5. /\ active[t] \ {Closing(t, h)} \in SUBSET End
        /\ shut[t] \union {Closing(t, h)} \in SUBSET End
    BY <1>0, <2>2
  <2>6. CASE Check(t, h)
    BY <2>4, <2>6 DEF Check, TypeOK, ends, timers
  <2>7. CASE ShutDown(t, h)
    BY <2>4, <2>5, <2>7 DEF ShutDown, TypeOK, timers
  <2>8. CASE Clear(t, h)
    BY <2>4, <2>5, <2>8 DEF Clear, TypeOK, timers
  <2>9. CASE Notify(t, h)
    <3>1. stage' \in [Tunnel -> {"idle", "token", "paired", "over"}]
      BY <2>9 DEF Notify, TypeOK
    <3>2. armed' \in [Tunnel -> SUBSET End]
      BY <1>0, <2>9 DEF Notify, TypeOK
    <3>3. process' \in {"up", "threw", "null pipe"} /\ sessions' \subseteq Tunnel
      BY <2>9 DEF Notify, TypeOK
    <3>4. QED
      BY <2>4, <2>9, <3>1, <3>2, <3>3 DEF Notify, TypeOK, ends
  <2>10. QED
    BY <1>10, <2>6, <2>7, <2>8, <2>9 DEF CloseStep
<1>11. CASE Over \/ UNCHANGED vars
  BY <1>11 DEF Over, vars, TypeOK
<1>12. QED
  BY <1>1, <1>2, <1>3, <1>4, <1>5, <1>6, <1>7, <1>8, <1>9, <1>10, <1>11 DEF Next

-----------------------------------------------------------------------------
(* The invariant                                                            *)

\* Only the handlers of a tunnel whose pair was made close anything.
LEMMA ClosersArePaired ==
    ASSUME StagesAgree, NEW t \in Tunnel, NEW h \in Handler, CloseStep(t, h)
    PROVE  stage[t] \notin {"idle", "token"}
BY DEF StagesAgree, CloseStep, Check, ShutDown, Clear, Notify, At

\* A step of a tunnel's handlers leaves the lists of the other tunnels alone.
LEMMA OthersKeepTheirs ==
    ASSUME TypeOK, NEW t \in Tunnel, NEW h \in Handler, NEW c,
           closing' = [closing EXCEPT ![t][h] = c], NEW u \in Tunnel \ {t}
    PROVE  closing'[u] = closing[u]
BY DEF TypeOK

LEMMA CloseStepClosing ==
    ASSUME TypeOK, NEW t \in Tunnel, NEW h \in Handler, CloseStep(t, h), NEW u \in Tunnel \ {t}
    PROVE  closing'[u] = closing[u]
<1>1. Goto(t, h, "shutdown") \/ Goto(t, h, "clear") \/ Goto(t, h, "notify") \/ Done(t, h)
  BY DEF CloseStep, Check, ShutDown, Clear, Notify
<1>2. QED
  BY <1>1 DEF Goto, Done, Start, TypeOK

LEMMA StagesStep == TypeOK /\ StagesAgree /\ [Next]_vars => StagesAgree'
<1> SUFFICES ASSUME TypeOK, StagesAgree, [Next]_vars, NEW u \in Tunnel
             PROVE  /\ stage'[u] \in {"idle", "over"} => active'[u] = {}
                    /\ stage'[u] = "token" => active'[u] = {"out"}
                    /\ u \in sessions' <=> stage'[u] = "paired"
                    /\ stage'[u] \in {"idle", "token"} =>
                          \A h \in Handler : closing'[u][h].todo = <<>>
  BY DEF StagesAgree, Idle
<1> DEFINE Goal == /\ stage'[u] \in {"idle", "over"} => active'[u] = {}
                   /\ stage'[u] = "token" => active'[u] = {"out"}
                   /\ u \in sessions' <=> stage'[u] = "paired"
                   /\ stage'[u] \in {"idle", "token"} =>
                         \A h \in Handler : closing'[u][h].todo = <<>>
<1>0. /\ stage[u] \in {"idle", "over"} => active[u] = {}
      /\ stage[u] = "token" => active[u] = {"out"}
      /\ u \in sessions <=> stage[u] = "paired"
      /\ stage[u] \in {"idle", "token"} => \A h \in Handler : closing[u][h].todo = <<>>
  BY DEF StagesAgree, Idle
<1>a. /\ stage \in [Tunnel -> {"idle", "token", "paired", "over"}]
      /\ active \in [Tunnel -> SUBSET End]
  BY DEF TypeOK
<1>1. ASSUME NEW t \in Tunnel, CreateSession(t) \/ OutwardThrows(t) PROVE Goal
  BY <1>0, <1>a, <1>1 DEF CreateSession, OutwardThrows, ends
<1>2. ASSUME NEW t \in Tunnel, TokenFails(t) PROVE Goal
  BY <1>0, <1>a, <1>2 DEF TokenFails
<1>3. ASSUME NEW t \in Tunnel, InwardThrows(t) PROVE Goal
  BY <1>0, <1>3 DEF InwardThrows, ends
<1>4. ASSUME NEW t \in Tunnel, Emplace(t) PROVE Goal
  BY <1>0, <1>a, <1>4 DEF Emplace
<1>5. ASSUME NEW t \in Tunnel, PipeOutward(t) PROVE Goal
  BY <1>0, <1>5 DEF PipeOutward, ends
<1>6. ASSUME NEW t \in Tunnel, NEW e \in End,
             PipeData(t, e) \/ PipeWritten(t, e) \/ TimerExpires(t, e)
      PROVE  Goal
  BY <1>0, <1>6 DEF PipeData, PipeWritten, TimerExpires, ends
<1>7. ASSUME NEW t \in Tunnel, NEW e \in End, PipeEnds(t, e) PROVE Goal
  <2>1. u # t => closing'[u] = closing[u]
    BY <1>7, Handlers, OthersKeepTheirs DEF PipeEnds, Start
  <2>2. t \in sessions /\ UNCHANGED <<stage, active, sessions>>
    BY <1>7 DEF PipeEnds, ends
  <2>3. QED
    BY <1>0, <2>1, <2>2
<1>8. ASSUME NEW t \in Tunnel, NEW e \in End, TimerRuns(t, e) PROVE Goal
  <2>1. u # t => closing'[u] = closing[u]
    <3>1. CASE UNCHANGED closing
      BY <3>1
    <3>2. CASE Start(t, <<"timer", e>>, <<e>>)
      BY <3>2, Handlers, OthersKeepTheirs DEF Start
    <3>3. QED
      BY <1>8, <3>1, <3>2 DEF TimerRuns
  <2>2. (t \in sessions \/ UNCHANGED closing) /\ UNCHANGED <<stage, active, sessions>>
    BY <1>8 DEF TimerRuns, ends
  <2>3. QED
    BY <1>0, <2>1, <2>2
<1>9. ASSUME NEW t \in Tunnel, NEW h \in Handler, CloseStep(t, h) PROVE Goal
  <2>1. u # t => closing'[u] = closing[u]
    BY <1>9, CloseStepClosing
  <2>2. stage[t] \notin {"idle", "token"}
    BY <1>9, ClosersArePaired
  <2>3. CASE Check(t, h) \/ ShutDown(t, h)
    BY <1>0, <2>1, <2>2, <2>3 DEF Check, ShutDown, ends
  <2>4. CASE Clear(t, h)
    BY <1>0, <1>a, <2>1, <2>2, <2>4 DEF Clear
  <2>5. CASE Notify(t, h)
    BY <1>0, <1>a, <2>1, <2>2, <2>5 DEF Notify, ends
  <2>6. QED
    BY <1>9, <2>3, <2>4, <2>5 DEF CloseStep
<1>10. CASE Over \/ UNCHANGED vars
  BY <1>0, <1>10 DEF Over, vars
<1>11. Goal
  BY <1>1, <1>2, <1>3, <1>4, <1>5, <1>6, <1>7, <1>8, <1>9, <1>10 DEF Next
<1>12. QED
  BY <1>11

LEMMA GuardStep == TypeOK /\ StagesAgree /\ GuardIsHeld /\ [Next]_vars => GuardIsHeld'
<1> SUFFICES ASSUME TypeOK, StagesAgree, GuardIsHeld, [Next]_vars, NEW u \in Tunnel,
                    stage'[u] = "paired", pipe'[u]["out"] = "none"
             PROVE  guard' = u
  BY DEF GuardIsHeld
<1>0. /\ stage \in [Tunnel -> {"idle", "token", "paired", "over"}]
      /\ pipe \in [Tunnel -> [End -> {"none", "read", "write", "ended"}]]
      /\ "in" \in End /\ "out" \in End /\ "in" # "out"
  BY DEF TypeOK, End
<1>1. CASE UNCHANGED guard /\ stage[u] = "paired" /\ pipe[u]["out"] = "none"
  BY <1>1 DEF GuardIsHeld
<1>2. ASSUME NEW t \in Tunnel,
             CreateSession(t) \/ OutwardThrows(t) \/ TokenFails(t) \/ InwardThrows(t)
      PROVE  UNCHANGED <<guard, pipe>> /\ stage[u] = "paired"
  BY <1>0, <1>2 DEF CreateSession, OutwardThrows, TokenFails, InwardThrows
<1>3. ASSUME NEW t \in Tunnel, Emplace(t) PROVE guard' = u
  <2>1. guard = None /\ guard' = t /\ stage' = [stage EXCEPT ![t] = "paired"]
        /\ pipe' = [pipe EXCEPT ![t]["in"] = "read"]
    BY <1>3 DEF Emplace
  <2>2. u # t => stage[u] = "paired" /\ pipe[u]["out"] = "none"
    BY <1>0, <2>1
  <2>3. QED
    BY <2>1, <2>2, ServiceSessionsAssumption DEF GuardIsHeld
<1>4. ASSUME NEW t \in Tunnel, PipeOutward(t) PROVE guard' = u
  <2>1. stage[t] = "paired" /\ pipe[t]["out"] = "none" /\ UNCHANGED stage
        /\ pipe' = [pipe EXCEPT ![t]["out"] = "read"]
    BY <1>4 DEF PipeOutward
  <2>2. u # t /\ pipe[u]["out"] = "none"
    BY <1>0, <2>1
  <2>3. guard = t /\ guard = u
    BY <2>1, <2>2 DEF GuardIsHeld
  <2>4. QED
    BY <2>2, <2>3
<1>5. ASSUME NEW t \in Tunnel, NEW e \in End,
             PipeData(t, e) \/ PipeWritten(t, e) \/ PipeEnds(t, e)
      PROVE  UNCHANGED <<guard, stage>> /\ pipe[u]["out"] = "none"
  <2>1. PICK v \in {"read", "write", "ended"} :
           pipe[t][e] # "none" /\ pipe' = [pipe EXCEPT ![t][e] = v]
    BY <1>5 DEF PipeData, PipeWritten, PipeEnds
  <2>2. pipe[u]["out"] = "none"
    BY <1>0, <2>1
  <2>3. QED
    BY <1>5, <2>2 DEF PipeData, PipeWritten, PipeEnds
<1>6. ASSUME NEW t \in Tunnel, NEW e \in End, TimerExpires(t, e) \/ TimerRuns(t, e)
      PROVE  UNCHANGED <<guard, stage, pipe>>
  BY <1>6 DEF TimerExpires, TimerRuns
<1>7. ASSUME NEW t \in Tunnel, NEW h \in Handler, CloseStep(t, h)
      PROVE  UNCHANGED <<guard, pipe>> /\ stage[u] = "paired"
  BY <1>0, <1>7 DEF CloseStep, Check, ShutDown, Clear, Notify
<1>8. CASE Over \/ UNCHANGED vars
  BY <1>8 DEF Over, vars, GuardIsHeld
<1>9. QED
  BY <1>1, <1>2, <1>3, <1>4, <1>5, <1>6, <1>7, <1>8 DEF Next

LEMMA PipesStep == StagesAgree /\ GuardIsHeld /\ PipesAreThere /\ [Next]_vars => PipesAreThere'
<1> SUFFICES ASSUME StagesAgree, GuardIsHeld, PipesAreThere, [Next]_vars PROVE process' # "null pipe"
  BY DEF PipesAreThere
<1>1. ASSUME NEW t \in Tunnel, NEW h \in Handler, Notify(t, h) PROVE process' # "null pipe"
  <2>1. guard = None /\ guard # t
    BY <1>1, ServiceSessionsAssumption DEF Notify
  <2>2. t \in sessions => pipe[t]["out"] # "none"
    BY <2>1 DEF StagesAgree, GuardIsHeld
  <2>3. QED
    BY <1>1, <2>2 DEF Notify, PipesAreThere
<1>2. ASSUME NEW t \in Tunnel, NEW h \in Handler, Check(t, h) \/ ShutDown(t, h) \/ Clear(t, h)
      PROVE  UNCHANGED process
  BY <1>2 DEF Check, ShutDown, Clear
<1>3. ASSUME NEW t \in Tunnel, NEW e \in End,
             PipeData(t, e) \/ PipeWritten(t, e) \/ PipeEnds(t, e) \/ TimerExpires(t, e) \/ TimerRuns(t, e)
      PROVE  UNCHANGED process
  BY <1>3 DEF PipeData, PipeWritten, PipeEnds, TimerExpires, TimerRuns
<1>4. ASSUME NEW t \in Tunnel,
             CreateSession(t) \/ OutwardThrows(t) \/ TokenFails(t) \/ InwardThrows(t)
             \/ Emplace(t) \/ PipeOutward(t)
      PROVE  process' # "null pipe"
  BY <1>4 DEF CreateSession, OutwardThrows, TokenFails, InwardThrows, Emplace,
     PipeOutward, PipesAreThere
<1>5. CASE Over \/ UNCHANGED vars
  BY <1>5 DEF Over, vars, PipesAreThere
<1>6. QED
  BY <1>1, <1>2, <1>3, <1>4, <1>5 DEF Next, CloseStep, PipesAreThere

LEMMA PipesCloseLastStep ==
    TypeOK /\ StagesAgree /\ PipesCloseLast /\ [Next]_vars => PipesCloseLast'
<1> SUFFICES ASSUME TypeOK, StagesAgree, PipesCloseLast, [Next]_vars,
                    NEW u \in Tunnel, NEW d \in End, pipe'[u][d] # "ended"
             PROVE  closing'[u][<<"pipe", d>>].todo = <<>>
  BY DEF PipesCloseLast, Idle
<1>0. /\ pipe \in [Tunnel -> [End -> {"none", "read", "write", "ended"}]]
      /\ closing \in [Tunnel -> [Handler -> Closings]]
      /\ <<"pipe", d>> \in Handler
  BY Handlers DEF TypeOK
<1>1. CASE pipe[u][d] # "ended" /\ UNCHANGED closing
  BY <1>1 DEF PipesCloseLast, Idle
<1>2. ASSUME NEW t \in Tunnel,
             CreateSession(t) \/ OutwardThrows(t) \/ TokenFails(t) \/ InwardThrows(t)
             \/ Emplace(t) \/ PipeOutward(t)
      PROVE  closing'[u][<<"pipe", d>>].todo = <<>>
  <2>1. UNCHANGED closing
    BY <1>2 DEF CreateSession, OutwardThrows, TokenFails, InwardThrows, Emplace, PipeOutward
  <2>2. CASE UNCHANGED pipe
    BY <1>1, <2>1, <2>2
  <2>3. CASE Emplace(t)
    <3>1. CASE u = t
      BY <2>1, <2>3, <3>1, Handlers DEF Emplace, StagesAgree, Idle
    <3>2. CASE u # t
      BY <1>0, <1>1, <2>1, <2>3, <3>2 DEF Emplace
    <3>3. QED
      BY <3>1, <3>2
  <2>4. CASE PipeOutward(t)
    <3>1. pipe[u][d] # "ended"
      BY <1>0, <2>4 DEF PipeOutward, End
    <3>2. QED
      BY <1>1, <2>1, <3>1
  <2>5. QED
    BY <1>2, <2>2, <2>3, <2>4 DEF CreateSession, OutwardThrows, TokenFails, InwardThrows
<1>3. ASSUME NEW t \in Tunnel, NEW e \in End,
             PipeData(t, e) \/ PipeWritten(t, e) \/ TimerExpires(t, e)
      PROVE  UNCHANGED closing /\ pipe[u][d] # "ended"
  <2>1. \/ UNCHANGED pipe
        \/ pipe[t][e] # "ended" /\ \E v \in {"read", "write"} : pipe' = [pipe EXCEPT ![t][e] = v]
    BY <1>3 DEF PipeData, PipeWritten, TimerExpires
  <2>2. pipe[u][d] # "ended"
    BY <1>0, <2>1
  <2>3. QED
    BY <1>3, <2>2 DEF PipeData, PipeWritten, TimerExpires
<1>4. ASSUME NEW t \in Tunnel, NEW e \in End, PipeEnds(t, e)
      PROVE  closing'[u][<<"pipe", d>>] = closing[u][<<"pipe", d>>] /\ pipe[u][d] # "ended"
  <2>1. pipe' = [pipe EXCEPT ![t][e] = "ended"]
        /\ closing' = [closing EXCEPT ![t][<<"pipe", e>>] = [todo |-> <<e, Other(e)>>, at |-> "check"]]
    BY <1>4 DEF PipeEnds, Start
  <2>2. <<u, d>> # <<t, e>> /\ pipe[u][d] # "ended"
    BY <1>0, <2>1
  <2>3. <<"pipe", e>> \in Handler /\ (u = t => <<"pipe", d>> # <<"pipe", e>>)
    BY <2>2, Handlers
  <2>4. QED
    BY <1>0, <2>1, <2>2, <2>3
<1>5. ASSUME NEW t \in Tunnel, NEW e \in End, TimerRuns(t, e)
      PROVE  closing'[u][<<"pipe", d>>] = closing[u][<<"pipe", d>>] /\ UNCHANGED pipe
  <2>1. CASE UNCHANGED closing
    BY <1>5, <2>1 DEF TimerRuns
  <2>2. CASE Start(t, <<"timer", e>>, <<e>>)
    <3>1. <<"timer", e>> \in Handler /\ <<"pipe", d>> # <<"timer", e>>
      BY Handlers
    <3>2. closing' = [closing EXCEPT ![t][<<"timer", e>>] = [todo |-> <<e>>, at |-> "check"]]
      BY <2>2 DEF Start
    <3>3. closing'[u][<<"pipe", d>>] = closing[u][<<"pipe", d>>]
      BY <1>0, <3>1, <3>2
    <3>4. QED
      BY <1>5, <3>3 DEF TimerRuns
  <2>3. QED
    BY <1>5, <2>1, <2>2 DEF TimerRuns
<1>6. ASSUME NEW t \in Tunnel, NEW h \in Handler, CloseStep(t, h)
      PROVE  closing'[u][<<"pipe", d>>] = closing[u][<<"pipe", d>>] /\ UNCHANGED pipe
  <2>1. closing[t][h].todo # <<>> /\ UNCHANGED pipe
    BY <1>6 DEF CloseStep, Check, ShutDown, Clear, Notify, At, Idle
  <2>2. u = t => h # <<"pipe", d>>
    BY <2>1 DEF PipesCloseLast, Idle
  <2>3. \E c : closing' = [closing EXCEPT ![t][h] = c]
    <3>1. \/ Goto(t, h, "shutdown") \/ Goto(t, h, "clear") \/ Goto(t, h, "notify") \/ Done(t, h)
      BY <1>6 DEF CloseStep, Check, ShutDown, Clear, Notify
    <3>2. QED
      BY <3>1 DEF Goto, Done, Start
  <2>4. QED
    BY <1>0, <2>1, <2>2, <2>3
<1>7. CASE Over \/ UNCHANGED vars
  BY <1>1, <1>7 DEF Over, vars
<1>8. QED
  BY <1>1, <1>2, <1>3, <1>4, <1>5, <1>6, <1>7 DEF Next, PipesCloseLast, Idle

LEMMA DeadPairStep ==
    TypeOK /\ StagesAgree /\ PipesCloseLast /\ NoDeadPairStays /\ [Next]_vars => NoDeadPairStays'
<1> DEFINE Notifies(c) == \E h \in Handler : c[h].todo # <<>> /\ c[h].at = "notify"
<1> SUFFICES ASSUME TypeOK, StagesAgree, PipesCloseLast, NoDeadPairStays, [Next]_vars,
                    NEW u \in sessions', process' = "up", active'[u] = {}
             PROVE  Notifies(closing'[u])
  BY DEF NoDeadPairStays, Up, At, Idle
<1>0. /\ active \in [Tunnel -> SUBSET End]
      /\ closing \in [Tunnel -> [Handler -> Closings]]
      /\ sessions \subseteq Tunnel
      /\ \A t \in sessions : stage[t] = "paired"
  BY DEF TypeOK, StagesAgree
<1>1. ASSUME u \in sessions, process = "up", active[u] = {} PROVE Notifies(closing[u])
  BY <1>1 DEF NoDeadPairStays, Up, At, Idle
<1>2. ASSUME NEW t \in Tunnel,
             CreateSession(t) \/ OutwardThrows(t) \/ TokenFails(t) \/ InwardThrows(t)
             \/ Emplace(t) \/ PipeOutward(t)
      PROVE  Notifies(closing'[u])
  <2>1. UNCHANGED closing /\ process = "up" /\ "in" \in End
    BY <1>2 DEF CreateSession, OutwardThrows, TokenFails, InwardThrows, Emplace, PipeOutward, Up, End
  <2>2. u \in sessions /\ active[u] = {}
    <3>1. CASE CreateSession(t) \/ OutwardThrows(t) \/ TokenFails(t)
      BY <1>0, <3>1 DEF CreateSession, OutwardThrows, ends, TokenFails
    <3>2. CASE InwardThrows(t) \/ PipeOutward(t)
      BY <3>2 DEF InwardThrows, PipeOutward, ends
    <3>3. CASE Emplace(t)
      BY <1>0, <2>1, <3>3 DEF Emplace
    <3>4. QED
      BY <1>2, <3>1, <3>2, <3>3
  <2>3. QED
    BY <1>1, <2>1, <2>2
<1>3. ASSUME NEW t \in Tunnel, NEW e \in End,
             PipeData(t, e) \/ PipeWritten(t, e) \/ TimerExpires(t, e)
      PROVE  Notifies(closing'[u])
  <2>1. UNCHANGED <<closing, sessions, active, process>>
    BY <1>3 DEF PipeData, PipeWritten, TimerExpires, ends
  <2>2. QED
    BY <1>1, <2>1
\* Starting an idle handler leaves the one that will notify alone.
<1>4. ASSUME NEW t \in Tunnel, NEW k \in Handler, closing[t][k].todo = <<>>, NEW c,
             closing' = [closing EXCEPT ![t][k] = c], Notifies(closing[u]), u \in sessions
      PROVE  Notifies(closing'[u])
  <2>1. PICK h \in Handler : closing[u][h].todo # <<>> /\ closing[u][h].at = "notify"
    BY <1>4
  <2>2. closing'[u][h] = closing[u][h]
    BY <1>0, <1>4, <2>1
  <2>3. QED
    BY <2>1, <2>2
<1>5. ASSUME NEW t \in Tunnel, NEW e \in End, PipeEnds(t, e) PROVE Notifies(closing'[u])
  <2>1. /\ u \in sessions /\ process = "up" /\ active[u] = {}
        /\ closing[t][<<"pipe", e>>].todo = <<>> /\ <<"pipe", e>> \in Handler
    BY <1>5, Handlers DEF PipeEnds, ends, PipesCloseLast, Idle, Up
  <2>2. closing' = [closing EXCEPT ![t][<<"pipe", e>>] = [todo |-> <<e, Other(e)>>, at |-> "check"]]
    BY <1>5 DEF PipeEnds, Start
  <2>3. QED
    BY <1>1, <1>4, <2>1, <2>2
<1>6. ASSUME NEW t \in Tunnel, NEW e \in End, TimerRuns(t, e) PROVE Notifies(closing'[u])
  <2>1. /\ u \in sessions /\ process = "up" /\ active[u] = {}
        /\ closing[t][<<"timer", e>>].todo = <<>> /\ <<"timer", e>> \in Handler
    BY <1>6, Handlers DEF TimerRuns, ends, Idle, Up
  <2>2. CASE UNCHANGED closing
    BY <1>1, <2>1, <2>2
  <2>3. CASE Start(t, <<"timer", e>>, <<e>>)
    BY <1>1, <1>4, <2>1, <2>3 DEF Start
  <2>4. QED
    BY <1>6, <2>2, <2>3 DEF TimerRuns
<1>7. ASSUME NEW t \in Tunnel, NEW h \in Handler, CloseStep(t, h) PROVE Notifies(closing'[u])
  <2>1. closing[t][h].todo # <<>> /\ process = "up" /\ u \in sessions
    BY <1>7 DEF CloseStep, Check, ShutDown, Clear, Notify, At, Idle, Up
  <2>2. \E c : closing' = [closing EXCEPT ![t][h] = c]
    <3>1. \/ Goto(t, h, "shutdown") \/ Goto(t, h, "clear") \/ Goto(t, h, "notify") \/ Done(t, h)
      BY <1>7 DEF CloseStep, Check, ShutDown, Clear, Notify
    <3>2. QED
      BY <3>1 DEF Goto, Done, Start
  <2>3. ASSUME Notifies(closing[u]), u # t \/ closing[t][h].at # "notify"
        PROVE  Notifies(closing'[u])
    <3>1. PICK k \in Handler : closing[u][k].todo # <<>> /\ closing[u][k].at = "notify"
      BY <2>3
    <3>2. closing'[u][k] = closing[u][k]
      BY <1>0, <2>1, <2>2, <2>3, <3>1
    <3>3. QED
      BY <3>1, <3>2
  <2>4. CASE Check(t, h) \/ ShutDown(t, h)
    <3>1. active[u] = {} /\ closing[t][h].at # "notify"
      BY <2>4 DEF Check, ShutDown, ends, At
    <3>2. QED
      BY <1>1, <2>1, <2>3, <3>1
  <2>5. CASE Clear(t, h)
    <3>1. CASE u = t
      <4>1. closing' = [closing EXCEPT ![t][h].at = "notify"]
        BY <2>5 DEF Clear, Goto
      <4>2. closing'[t][h].todo = closing[t][h].todo /\ closing'[t][h].at = "notify"
        BY <1>0, <4>1 DEF Closings
      <4>3. QED
        BY <2>1, <3>1, <4>2
    <3>2. CASE u # t
      <4>1. active[u] = {}
        BY <1>0, <2>1, <2>5, <3>2 DEF Clear
      <4>2. QED
        BY <1>1, <2>1, <2>3, <3>2, <4>1
    <3>3. QED
      BY <3>1, <3>2
  <2>6. CASE Notify(t, h)
    <3>1. active[u] = {} /\ u # t
      BY <1>0, <2>1, <2>6 DEF Notify, ends
    <3>2. QED
      BY <1>1, <2>1, <2>3, <3>1
  <2>7. QED
    BY <1>7, <2>4, <2>5, <2>6 DEF CloseStep
<1>8. CASE Over \/ UNCHANGED vars
  BY <1>1, <1>8 DEF Over, vars
<1>9. QED
  BY <1>2, <1>3, <1>5, <1>6, <1>7, <1>8 DEF Next

LEMMA InvHolds == Spec => []Inv
<1>1. Init => Inv
  <2>1. ASSUME Init PROVE TypeOK
    <3>1. Nothing \in Closings
      BY DEF Nothing, Closings, Todos
    <3>2. QED
      BY <2>1, <3>1 DEF Init, TypeOK
  <2>2. ASSUME Init PROVE \A t \in Tunnel, h \in Handler : Idle(t, h)
    BY <2>2 DEF Init, Idle, Nothing
  <2>3. ASSUME Init PROVE StagesAgree /\ GuardIsHeld /\ NoDeadPairStays /\ PipesAreThere
    BY <2>2, <2>3 DEF Init, StagesAgree, GuardIsHeld, NoDeadPairStays, PipesAreThere
  <2>4. ASSUME Init PROVE PipesCloseLast
    BY <2>2, <2>4, Handlers DEF PipesCloseLast
  <2>5. QED
    BY <2>1, <2>3, <2>4 DEF Inv
<1>2. Inv /\ [Next]_vars => Inv'
  BY TypeStep, StagesStep, GuardStep, PipesCloseLastStep, DeadPairStep, PipesStep DEF Inv
<1>3. QED
  BY <1>1, <1>2, PTL DEF Spec

\* Every reachable state of the publisher's tunnel ends is well typed.
THEOREM TypeCorrect == Spec => []TypeOK
BY InvHolds, PTL DEF Inv

\* No pair with both ends closed stays registered for good: a handler has its onClose
\* to come, for any number of tunnels.
THEOREM NoDeadPairRemains == Spec => []NoDeadPairStays
BY InvHolds, PTL DEF Inv

\* onClose never finds a pair whose second pipe is missing.
THEOREM PipesArePresent == Spec => []PipesAreThere
BY InvHolds, PTL DEF Inv

-----------------------------------------------------------------------------
(* The refinement                                                           *)

\* A step that changes one tunnel as seen from outside is a Become of it.
LEMMA BecomeOf ==
    ASSUME NEW t \in Tunnel, NEW m, NEW S, Made(t)' = m, Open(t)' = S,
           \A u \in Tunnel \ {t} : Made(u)' = Made(u) /\ Open(u)' = Open(u)
    PROVE  Ends!Become(t, m, S)
<1>1. \A u \in Tunnel : Made(u)' = IF u = t THEN m ELSE Made(u)
  OBVIOUS
<1>2. \A u \in Tunnel : Open(u)' = IF u = t THEN S ELSE Open(u)
  OBVIOUS
<1>3. [u \in Tunnel |-> Made(u)]' = [[u \in Tunnel |-> Made(u)] EXCEPT ![t] = m]
  BY <1>1
<1>4. [u \in Tunnel |-> Open(u)]' = [[u \in Tunnel |-> Open(u)] EXCEPT ![t] = S]
  BY <1>2
<1>5. QED
  BY <1>3, <1>4 DEF Ends!Become

LEMMA StutterOf ==
    ASSUME \A u \in Tunnel : Made(u)' = Made(u) /\ Open(u)' = Open(u)
    PROVE  UNCHANGED Ends!publisherEnds
BY DEF Ends!publisherEnds

LEMMA DieOf ==
    ASSUME process' # "up"
    PROVE  Ends!Die
BY DEF Ends!Die, Made, Open, Up

LEMMA EndsStep == TypeOK /\ StagesAgree /\ [Next]_vars => [Ends!Next]_(Ends!publisherEnds)
<1> SUFFICES ASSUME TypeOK, StagesAgree, [Next]_vars
             PROVE  [Ends!Next]_(Ends!publisherEnds)
  OBVIOUS
<1>0. /\ stage \in [Tunnel -> {"idle", "token", "paired", "over"}]
      /\ active \in [Tunnel -> SUBSET End]
  BY DEF TypeOK
<1>1. CASE UNCHANGED <<process, stage, active>>
  BY <1>1, StutterOf DEF Made, Open, Up
<1>2. ASSUME NEW t \in Tunnel, CreateSession(t) \/ OutwardThrows(t) PROVE Ends!Next
  <2>1. Made(t) = "not" /\ \A u \in Tunnel \ {t} : Made(u)' = Made(u) /\ Open(u)' = Open(u)
    BY <1>0, <1>2 DEF CreateSession, OutwardThrows, ends, Made, Open, Up
  <2>2. \/ Made(t)' = "half" /\ Open(t)' = {"out"}
        \/ Made(t)' = "over" /\ Open(t)' = {}
    BY <1>0, <1>2 DEF CreateSession, OutwardThrows, ends, Made, Open, Up, StagesAgree
  <2>3. Ends!Become(t, "half", {"out"}) \/ Ends!Become(t, "over", {})
    BY <2>1, <2>2, BecomeOf
  <2>4. QED
    BY <2>1, <2>3 DEF Ends!Next, Ends!Dial, Made
<1>3. ASSUME NEW t \in Tunnel, TokenFails(t) \/ Emplace(t) PROVE Ends!Next
  <2>1. Made(t) = "half" /\ \A u \in Tunnel \ {t} : Made(u)' = Made(u) /\ Open(u)' = Open(u)
    BY <1>0, <1>3 DEF TokenFails, Emplace, Made, Open, Up
  <2>2. \/ Made(t)' = "pair" /\ Open(t)' = {"in", "out"}
        \/ Made(t)' = "over" /\ Open(t)' = {}
    BY <1>0, <1>3 DEF TokenFails, Emplace, Made, Open, Up, End
  <2>3. Ends!Become(t, "pair", {"in", "out"}) \/ Ends!Become(t, "over", {})
    BY <2>1, <2>2, BecomeOf
  <2>4. QED
    BY <2>1, <2>3 DEF Ends!Next, Ends!Complete, Made
<1>4. ASSUME NEW t \in Tunnel, InwardThrows(t) PROVE Ends!Next
  BY <1>4, DieOf DEF InwardThrows, Ends!Next
<1>5. ASSUME NEW t \in Tunnel, NEW h \in Handler, Clear(t, h)
      PROVE  [Ends!Next]_(Ends!publisherEnds)
  <2>1. /\ Up /\ Up' /\ UNCHANGED stage
        /\ active' = [active EXCEPT ![t] = @ \ {Closing(t, h)}]
        /\ closing[t][h].todo \in Todos \ {<<>>} /\ stage[t] \notin {"idle", "token"}
    BY <1>5, ClosersArePaired DEF Clear, CloseStep, Up, At, Idle, TypeOK, Closings
  <2>2. Closing(t, h) \in End
    BY <2>1, TodosShrink DEF Closing
  <2>3. CASE Closing(t, h) \notin active[t]
    <3>1. active'[t] = active[t]
      BY <1>0, <2>1, <2>3
    <3>2. active' = active
      BY <1>0, <2>1, <3>1
    <3>3. QED
      BY <1>1, <2>1, <3>2, StutterOf DEF Made, Open
  <2>4. CASE Closing(t, h) \in active[t]
    <3>1. Made(t) = "pair" /\ Made(t)' = "pair" /\ Open(t) = active[t]
      BY <1>0, <2>1, <2>4 DEF Made, Open, StagesAgree
    <3>2. Open(t)' = Open(t) \ {Closing(t, h)}
      BY <1>0, <2>1 DEF Open
    <3>3. \A u \in Tunnel \ {t} : Made(u)' = Made(u) /\ Open(u)' = Open(u)
      BY <1>0, <2>1 DEF Made, Open
    <3>4. PICK e \in End : e = Closing(t, h)
      BY <2>2
    <3>5. Ends!Become(t, "pair", Open(t) \ {e})
      <4>1. PICK S : S = Open(t) \ {e}
        OBVIOUS
      <4>2. Ends!Become(t, "pair", S)
        BY <3>1, <3>2, <3>3, <3>4, <4>1, BecomeOf
      <4>3. QED
        BY <4>1, <4>2 DEF Ends!Become
    <3>6. Ends!CloseEnd(t, e)
      BY <2>4, <3>1, <3>4, <3>5 DEF Ends!CloseEnd, Ends!Become
    <3>7. QED
      BY <3>6 DEF Ends!Next, End
  <2>5. QED
    BY <2>3, <2>4
<1>6. ASSUME NEW t \in Tunnel, NEW h \in Handler, Notify(t, h)
      PROVE  [Ends!Next]_(Ends!publisherEnds)
  <2>1. CASE process' = "null pipe"
    BY <2>1, DieOf DEF Ends!Next
  <2>2. CASE UNCHANGED <<process, stage, active>>
    BY <1>1, <2>2
  <2>3. CASE /\ t \in sessions /\ active[t] = {} /\ UNCHANGED <<process, active>>
             /\ stage' = [stage EXCEPT ![t] = "over"]
    <3>1. Up /\ Up' /\ stage[t] = "paired"
      BY <1>6, <2>3 DEF Notify, Up, StagesAgree
    <3>2. Made(t) = "pair" /\ Open(t) = {} /\ Made(t)' = "over" /\ Open(t)' = {}
      BY <1>0, <2>3, <3>1 DEF Made, Open
    <3>3. \A u \in Tunnel \ {t} : Made(u)' = Made(u) /\ Open(u)' = Open(u)
      BY <1>0, <2>3, <3>1 DEF Made, Open
    <3>4. Ends!Forget(t)
      BY <3>2, <3>3, BecomeOf DEF Ends!Forget, Made, Open
    <3>5. QED
      BY <3>4 DEF Ends!Next
  <2>4. QED
    BY <1>6, <2>1, <2>2, <2>3 DEF Notify, ends
<1>7. ASSUME NEW t \in Tunnel, NEW h \in Handler, Check(t, h) \/ ShutDown(t, h)
      PROVE  UNCHANGED <<process, stage, active>>
  BY <1>7 DEF Check, ShutDown, ends
<1>8. ASSUME NEW t \in Tunnel, NEW e \in End,
             \/ PipeOutward(t) \/ PipeData(t, e) \/ PipeWritten(t, e) \/ PipeEnds(t, e)
             \/ TimerExpires(t, e) \/ TimerRuns(t, e)
      PROVE  UNCHANGED <<process, stage, active>>
  BY <1>8 DEF PipeOutward, PipeData, PipeWritten, PipeEnds, TimerExpires, TimerRuns, ends
<1>9. ASSUME NEW t \in Tunnel, PipeOutward(t) PROVE UNCHANGED <<process, stage, active>>
  BY <1>9 DEF PipeOutward, ends
<1>10. CASE Over \/ UNCHANGED vars
  BY <1>1, <1>10 DEF Over, vars
<1>11. QED
  BY <1>1, <1>2, <1>3, <1>4, <1>5, <1>6, <1>7, <1>8, <1>9, <1>10 DEF Next, CloseStep

\* ServiceSessions implements PublisherEnds: whatever its four handlers do, each
\* connection of a pair closes once and the pair is forgotten after both have.
THEOREM SessionsKeepEnds == Spec => KeepsEnds
<1>1. Init => Ends!Init
  BY DEF Init, Ends!Init, Made, Open, Up
<1>2. Inv /\ [Next]_vars => [Ends!Next]_(Ends!publisherEnds)
  BY EndsStep DEF Inv
<1>3. QED
  BY <1>1, <1>2, InvHolds, PTL DEF Spec, KeepsEnds, Ends!Spec
=============================================================================
