------------------------- MODULE PublisherLineProofs -------------------------
(***************************************************************************)
(* Proofs about PublisherLine, for any number of websockets, any length of  *)
(* the send queue and any cap of the pauses: its types, that it has one     *)
(* websocket at a time, that somebody watches it, that one send is          *)
(* outstanding, and that an open line is pinged.                            *)
(***************************************************************************)
EXTENDS PublisherLine, SequenceTheorems, TLAPS

LEMMA RemoveOne ==
    ASSUME NEW S, NEW s \in Seq(S), NEW i \in DOMAIN s
    PROVE  RemoveAt(s, i) \in Seq(S) /\ Len(RemoveAt(s, i)) = Len(s) - 1
<1>1. i \in 1 .. Len(s) /\ Len(s) \in Nat
  BY LenProperties
<1>2. SubSeq(s, 1, i - 1) \in Seq(S) /\ Len(SubSeq(s, 1, i - 1)) = i - 1
  BY <1>1, SubSeqProperties
<1>3. SubSeq(s, i + 1, Len(s)) \in Seq(S) /\ Len(SubSeq(s, i + 1, Len(s))) = Len(s) - i
  BY <1>1, SubSeqProperties
<1>4. DEFINE front == SubSeq(s, 1, i - 1)
             back == SubSeq(s, i + 1, Len(s))
<1>5. front \o back \in Seq(S) /\ Len(front \o back) = Len(front) + Len(back)
  BY <1>2, <1>3, ConcatProperties
<1>6. Len(front) + Len(back) = Len(s) - 1
  BY <1>1, <1>2, <1>3
<1>7. QED
  BY <1>5, <1>6 DEF RemoveAt

\* What a message added to the queue does to the queue and to the sends.
LEMMA SendQueuedShape ==
    ASSUME TypeOK, NEW m \in Message, SendQueued(m)
    PROVE  /\ queue' \in Seq(Message) /\ sendInProgress' = TRUE
           /\ sending' \in Seq(Line \X Message)
           /\ sendInProgress => UNCHANGED sending
           /\ ~sendInProgress => Len(sending') = Len(sending) + 1
<1>1. queue \in Seq(Message) /\ sending \in Seq(Line \X Message) /\ ws \in Line
  BY DEF TypeOK
<1>2. Append(queue, m) \in Seq(Message) /\ Append(queue, m) # <<>>
  BY <1>1, AppendProperties
<1>3. Head(Append(queue, m)) \in Message /\ Tail(Append(queue, m)) \in Seq(Message)
  BY <1>2, HeadTailProperties
<1>4. <<ws, Head(Append(queue, m))>> \in Line \X Message
  BY <1>1, <1>3
<1>5. /\ Append(sending, <<ws, Head(Append(queue, m))>>) \in Seq(Line \X Message)
      /\ Len(Append(sending, <<ws, Head(Append(queue, m))>>)) = Len(sending) + 1
  BY <1>1, <1>4, AppendProperties
<1>6. QED
  BY <1>1, <1>2, <1>3, <1>5 DEF SendQueued

\* And what the completion of a send does.
LEMMA SendDoneShape ==
    ASSUME TypeOK, NEW i \in DOMAIN sending, SendDone(i)
    PROVE  /\ queue' \in Seq(Message) /\ sending' \in Seq(Line \X Message)
           /\ queue = <<>> => /\ queue' = <<>> /\ sendInProgress' = FALSE
                              /\ Len(sending') = Len(sending) - 1
           /\ queue # <<>> => sendInProgress' = TRUE /\ Len(sending') = Len(sending)
<1>1. queue \in Seq(Message) /\ sending \in Seq(Line \X Message) /\ ws \in Line
  BY DEF TypeOK
<1>2. RemoveAt(sending, i) \in Seq(Line \X Message) /\ Len(RemoveAt(sending, i)) = Len(sending) - 1
  BY <1>1, RemoveOne
<1>3. CASE queue = <<>>
  BY <1>1, <1>2, <1>3 DEF SendDone
<1>4. CASE queue # <<>>
  <2>1. Head(queue) \in Message /\ Tail(queue) \in Seq(Message)
    BY <1>1, <1>4, HeadTailProperties
  <2>2. <<ws, Head(queue)>> \in Line \X Message
    BY <1>1, <2>1
  <2>3. /\ Append(RemoveAt(sending, i), <<ws, Head(queue)>>) \in Seq(Line \X Message)
        /\ Len(Append(RemoveAt(sending, i), <<ws, Head(queue)>>)) = Len(sending)
    BY <1>1, <1>2, <2>2, AppendProperties, LenProperties
  <2>4. QED
    BY <1>4, <2>1, <2>3 DEF SendDone
<1>5. QED
  BY <1>3, <1>4

-----------------------------------------------------------------------------
(* Types                                                                    *)

LEMMA DoubledBounded ==
    ASSUME NEW n \in 1 .. MaxBackoff
    PROVE  Doubled(n) \in 1 .. MaxBackoff
BY PublisherLineAssumption DEF Doubled

LEMMA RetryConnectTyped ==
    ASSUME TypeOK, RetryConnect
    PROVE  /\ line' \in [Line -> {"unused", "connecting", "open", "lost", "closed"}]
           /\ backoff' \in 1 .. MaxBackoff /\ reconnecting' = TRUE /\ aliveArmed' = FALSE
BY DoubledBounded DEF RetryConnect, TypeOK

LEMMA ReadsTyped ==
    ASSUME TypeOK, NEW w \in Line, NEW n \in Nat, reads' = [reads EXCEPT ![w] = n]
    PROVE  reads' \in [Line -> Nat]
BY DEF TypeOK

LEMMA TypeStep == TypeOK /\ [Next]_vars => TypeOK'
<1> SUFFICES ASSUME TypeOK, [Next]_vars PROVE TypeOK'
  OBVIOUS
<1>0. /\ ws \in Line /\ Line \subseteq Nat /\ \A w \in Line : reads[w] \in Nat
      /\ backoff \in 1 .. MaxBackoff /\ Doubled(backoff) \in 1 .. MaxBackoff /\ 1 \in 1 .. MaxBackoff
  BY DoubledBounded, PublisherLineAssumption DEF TypeOK, Line
<1>1. CASE Authenticate
  <2>1. CASE UNCHANGED ws
    BY <1>0, <1>1, <2>1 DEF Authenticate, TypeOK, sendVars
  <2>2. CASE /\ ws < MaxLines /\ ws' = ws + 1 /\ line' = [line EXCEPT ![ws + 1] = "connecting"]
             /\ connects' = connects \union {ws + 1} /\ reconnecting' = FALSE
             /\ threw' = FALSE /\ UNCHANGED <<backoff, aliveArmed>>
    <3>1. ws + 1 \in Line
      BY <1>0, <2>2, PublisherLineAssumption DEF Line
    <3>2. QED
      BY <1>1, <2>2, <3>1 DEF Authenticate, TypeOK, sendVars
  <2>3. QED
    BY <1>1, <2>1, <2>2 DEF Authenticate
<1>2. CASE LineLost
  BY <1>2 DEF LineLost, TypeOK, sendVars
<1>3. CASE Restart
  BY <1>0, <1>3, EmptySeq DEF Restart, TypeOK
<1>4. CASE MessageHandled
  <2>0. reads[ws] + 1 \in Nat /\ busy - 1 \in Nat
    BY <1>0, <1>4 DEF MessageHandled, TypeOK
  <2>1. reads' \in [Line -> Nat] /\ busy' \in Nat
    BY <1>0, <1>4, <2>0, ReadsTyped DEF MessageHandled
  <2>2. /\ queue' \in Seq(Message) /\ sendInProgress' \in BOOLEAN
        /\ sending' \in Seq(Line \X Message)
    <3>1. CASE UNCHANGED <<queue, sendInProgress, sending>>
      BY <3>1 DEF TypeOK
    <3>2. CASE SendQueued("NewTunnelFailed")
      BY <3>2, SendQueuedShape DEF Message
    <3>3. QED
      BY <1>4, <3>1, <3>2 DEF MessageHandled
  <2>3. QED
    BY <1>4, <2>1, <2>2 DEF MessageHandled, TypeOK
<1>4a. CASE HandlerThrows
  <2>1. busy - 1 \in Nat
    BY <1>4a DEF HandlerThrows, TypeOK
  <2>2. QED
    BY <1>4a, <2>1 DEF HandlerThrows, TypeOK, sendVars
<1>5. CASE AliveExpires
  BY <1>5 DEF AliveExpires, TypeOK, lineVars, sendVars
<1>6. CASE AlivePing
  <2>1. "Ping" \in Message /\ SendQueued("Ping")
    BY <1>6 DEF AlivePing, Message
  <2>2. /\ queue' \in Seq(Message) /\ sendInProgress' \in BOOLEAN
        /\ sending' \in Seq(Line \X Message)
    BY <2>1, SendQueuedShape
  <2>3. QED
    BY <1>6, <2>2 DEF AlivePing, TypeOK, lineVars
<1>7. ASSUME NEW w \in Line, ConnectSucceeds(w) PROVE TypeOK'
  BY <1>0, <1>7 DEF ConnectSucceeds, TypeOK, sendVars
<1>8. ASSUME NEW w \in Line, ConnectFails(w) PROVE TypeOK'
  <2>1. RetryConnect
    BY <1>8 DEF ConnectFails
  <2>2. QED
    BY <1>8, <2>1, RetryConnectTyped DEF ConnectFails, TypeOK, sendVars
<1>9. ASSUME NEW w \in Line, Greet(w) PROVE TypeOK'
  <2>1. "Handshake" \in Message /\ SendQueued("Handshake")
    BY <1>9 DEF Greet, Message
  <2>2. /\ queue' \in Seq(Message) /\ sendInProgress' \in BOOLEAN
        /\ sending' \in Seq(Line \X Message)
    BY <2>1, SendQueuedShape
  <2>3. reads' \in [Line -> Nat]
    <3>1. reads[ws] + 1 \in Nat
      BY <1>0
    <3>2. reads' = [reads EXCEPT ![ws] = reads[ws] + 1]
      BY <1>9 DEF Greet
    <3>3. QED
      BY <1>0, <3>1, <3>2, ReadsTyped
  <2>4. QED
    BY <1>9, <2>2, <2>3 DEF Greet, TypeOK
<1>10. ASSUME NEW w \in Line, ReadMessage(w) PROVE TypeOK'
  <2>1. reads[w] - 1 \in Nat /\ busy + 1 \in Nat
    BY <1>0, <1>10 DEF ReadMessage, TypeOK
  <2>2. reads' \in [Line -> Nat]
    BY <1>10, <2>1, ReadsTyped DEF ReadMessage
  <2>3. QED
    BY <1>10, <2>1, <2>2 DEF ReadMessage, TypeOK, sendVars
<1>11. ASSUME NEW w \in Line, ReadFails(w) PROVE TypeOK'
  <2>1. reads[w] - 1 \in Nat /\ RetryConnect
    BY <1>0, <1>11 DEF ReadFails
  <2>2. reads' \in [Line -> Nat]
    BY <1>11, <2>1, ReadsTyped DEF ReadFails
  <2>3. QED
    BY <1>11, <2>1, <2>2, RetryConnectTyped DEF ReadFails, TypeOK, sendVars
<1>12. ASSUME NEW i \in DOMAIN sending, SendDone(i) PROVE TypeOK'
  <2>1. queue' \in Seq(Message) /\ sending' \in Seq(Line \X Message) /\ sendInProgress' \in BOOLEAN
    BY <1>12, SendDoneShape
  <2>2. greeted' \subseteq Line
    <3>1. sending[i] \in Line \X Message
      BY ElementOfSeq DEF TypeOK
    <3>2. QED
      BY <1>12, <3>1 DEF SendDone, TypeOK
  <2>3. QED
    BY <1>12, <2>1, <2>2 DEF SendDone, TypeOK, lineVars
<1>13. ASSUME NEW i \in DOMAIN sending, SendFails(i) PROVE TypeOK'
  <2>1. RetryConnect /\ sending' = RemoveAt(sending, i)
    BY <1>13 DEF SendFails
  <2>2. sending' \in Seq(Line \X Message)
    BY <2>1, RemoveOne DEF TypeOK
  <2>3. QED
    BY <1>13, <2>1, <2>2, RetryConnectTyped DEF SendFails, TypeOK
<1>14. CASE UNCHANGED vars
  BY <1>14 DEF vars, TypeOK
<1>15. QED
  BY <1>1, <1>2, <1>3, <1>4, <1>4a, <1>5, <1>6, <1>7, <1>8, <1>9, <1>10, <1>11, <1>12, <1>13, <1>14
     DEF Next

LEMMA TypeHolds == Spec => []TypeOK
<1>1. Init => TypeOK
  <2>1. 0 \in Line /\ 0 \in Nat /\ 1 \in 1 .. MaxBackoff
    BY PublisherLineAssumption DEF Line
  <2>2. <<>> \in Seq(Message) /\ <<>> \in Seq(Line \X Message)
    BY EmptySeq
  <2>3. QED
    BY <2>1, <2>2 DEF Init, TypeOK
<1>2. QED
  BY <1>1, TypeStep, PTL DEF Spec

\* Every reachable state of the publisher's control line is well typed; above all
\* the pause between two attempts stays between a second and its cap.
THEOREM TypeCorrect == Spec => []TypeOK
BY TypeHolds

-----------------------------------------------------------------------------
(* One websocket                                                            *)

Gone(w) == line[w] \in {"unused", "closed"}

\* Only the websocket of the moment may be alive, and it is not while the reconnect
\* timer runs.
OnlyCurrent ==
    /\ \A w \in Line : w # ws => Gone(w)
    /\ reconnecting => Gone(ws)

LEMMA RetryConnectCloses ==
    ASSUME TypeOK, OnlyCurrent, RetryConnect, UNCHANGED ws
    PROVE  OnlyCurrent'
BY DEF TypeOK, OnlyCurrent, RetryConnect, Gone

LEMMA OnlyCurrentStep == TypeOK /\ OnlyCurrent /\ [Next]_vars => OnlyCurrent'
<1> SUFFICES ASSUME TypeOK, OnlyCurrent, [Next]_vars PROVE OnlyCurrent'
  OBVIOUS
<1>0. CASE UNCHANGED <<ws, line, reconnecting>>
  BY <1>0 DEF OnlyCurrent, Gone
<1>1. CASE Authenticate
  <2>1. CASE UNCHANGED <<ws, reconnecting>> /\ line' = [line EXCEPT ![ws] = "closed"]
    BY <2>1 DEF TypeOK, OnlyCurrent, Gone
  <2>2. CASE /\ ws < MaxLines /\ ws' = ws + 1 /\ reconnecting' = FALSE
             /\ line' = [line EXCEPT ![ws + 1] = "connecting"]
    <3>1. \A w \in Line : Gone(w)
      BY <1>1 DEF Authenticate, OnlyCurrent
    <3>2. QED
      BY <2>2, <3>1 DEF TypeOK, OnlyCurrent, Gone
  <2>3. QED
    BY <1>1, <2>1, <2>2 DEF Authenticate
<1>2. CASE LineLost
  <2>1. line[ws] = "open" /\ line' = [line EXCEPT ![ws] = "lost"] /\ UNCHANGED <<ws, reconnecting>>
    BY <1>2 DEF LineLost
  <2>2. ~reconnecting
    BY <2>1 DEF OnlyCurrent, Gone
  <2>3. QED
    BY <2>1, <2>2 DEF TypeOK, OnlyCurrent, Gone
<1>3. CASE Restart
  BY <1>3 DEF Restart, TypeOK, OnlyCurrent, Gone
<1>4. CASE MessageHandled \/ HandlerThrows \/ AliveExpires \/ AlivePing
  BY <1>0, <1>4 DEF MessageHandled, HandlerThrows, AliveExpires, AlivePing, lineVars
<1>5. ASSUME NEW w \in Line, ConnectSucceeds(w) PROVE OnlyCurrent'
  <2>1. line[w] = "connecting" /\ line' = [line EXCEPT ![w] = "open"] /\ UNCHANGED <<ws, reconnecting>>
    BY <1>5 DEF ConnectSucceeds
  <2>2. w = ws /\ ~reconnecting
    BY <2>1 DEF OnlyCurrent, Gone
  <2>3. QED
    BY <2>1, <2>2 DEF TypeOK, OnlyCurrent, Gone
<1>6. ASSUME NEW w \in Line, ConnectFails(w) \/ ReadFails(w) PROVE OnlyCurrent'
  BY <1>6, RetryConnectCloses DEF ConnectFails, ReadFails
<1>7. ASSUME NEW w \in Line, Greet(w) \/ ReadMessage(w) PROVE OnlyCurrent'
  BY <1>0, <1>7 DEF Greet, ReadMessage
<1>8. ASSUME NEW i \in DOMAIN sending, SendDone(i) PROVE OnlyCurrent'
  BY <1>0, <1>8 DEF SendDone, lineVars
<1>9. ASSUME NEW i \in DOMAIN sending, SendFails(i) PROVE OnlyCurrent'
  BY <1>9, RetryConnectCloses DEF SendFails
<1>10. CASE UNCHANGED vars
  BY <1>0, <1>10 DEF vars
<1>11. QED
  BY <1>1, <1>2, <1>3, <1>4, <1>5, <1>6, <1>7, <1>8, <1>9, <1>10 DEF Next

\* The publisher never has two live websockets, through any sequence of losses,
\* failed sends, late callbacks and restarts.
THEOREM OneLineIsOpen == Spec => []OneLineOpen
<1>1. Init => OnlyCurrent
  BY PublisherLineAssumption DEF Init, OnlyCurrent, Gone, Line
<1>2. TypeOK /\ OnlyCurrent => OneLineOpen
  BY DEF OnlyCurrent, OneLineOpen, Gone
<1>3. QED
  BY <1>1, <1>2, OnlyCurrentStep, TypeHolds, PTL DEF Spec

-----------------------------------------------------------------------------
(* The line is watched                                                      *)

LEMMA WatchedStep == TypeOK /\ LineIsWatched /\ [Next]_vars => LineIsWatched'
<1> SUFFICES ASSUME TypeOK, LineIsWatched, [Next]_vars PROVE LineIsWatched'
  OBVIOUS
<1>0. ws \in Line /\ reads \in [Line -> Nat] /\ busy \in Nat
  BY DEF TypeOK
<1>1. CASE UNCHANGED <<reconnecting, connects, greeting, busy, reads, threw>>
  BY <1>1 DEF LineIsWatched
<1>2. CASE Authenticate
  BY <1>1, <1>2 DEF Authenticate, LineIsWatched
<1>3. CASE LineLost \/ AliveExpires \/ AlivePing
  BY <1>1, <1>3 DEF LineLost, AliveExpires, AlivePing, lineVars
<1>4. CASE Restart
  BY <1>4 DEF Restart, LineIsWatched
<1>5. CASE MessageHandled
  <2>1. reads' = [reads EXCEPT ![ws] = reads[ws] + 1]
    BY <1>5 DEF MessageHandled
  <2>2. reads'[ws] > 0
    BY <1>0, <2>1
  <2>3. QED
    BY <1>0, <2>2 DEF LineIsWatched
<1>5a. CASE HandlerThrows
  BY <1>5a DEF HandlerThrows, LineIsWatched
<1>6. ASSUME NEW w \in Line, ConnectSucceeds(w) PROVE LineIsWatched'
  BY <1>6 DEF ConnectSucceeds, LineIsWatched
<1>7. ASSUME NEW w \in Line, ConnectFails(w) \/ ReadFails(w) PROVE LineIsWatched'
  BY <1>7 DEF ConnectFails, ReadFails, RetryConnect, LineIsWatched
<1>8. ASSUME NEW w \in Line, Greet(w) PROVE LineIsWatched'
  <2>1. reads' = [reads EXCEPT ![ws] = reads[ws] + 1]
    BY <1>8 DEF Greet
  <2>2. reads'[ws] > 0
    BY <1>0, <2>1
  <2>3. QED
    BY <1>0, <2>2 DEF LineIsWatched
<1>9. ASSUME NEW w \in Line, ReadMessage(w) PROVE LineIsWatched'
  <2>1. busy' > 0
    BY <1>0, <1>9 DEF ReadMessage
  <2>2. QED
    BY <2>1 DEF LineIsWatched
<1>10. ASSUME NEW i \in DOMAIN sending, SendDone(i) PROVE LineIsWatched'
  BY <1>1, <1>10 DEF SendDone, lineVars
<1>11. ASSUME NEW i \in DOMAIN sending, SendFails(i) PROVE LineIsWatched'
  BY <1>11 DEF SendFails, RetryConnect, LineIsWatched
<1>12. CASE UNCHANGED vars
  BY <1>1, <1>12 DEF vars
<1>13. QED
  BY <1>2, <1>3, <1>4, <1>5, <1>5a, <1>6, <1>7, <1>8, <1>9, <1>10, <1>11, <1>12 DEF Next

\* Somebody is left who will notice that the line is dead, until a read callback of
\* the websocket throws: nothing else leaves the publisher alone with it.
THEOREM LineIsAlwaysWatched == Spec => []LineIsWatched
<1>1. Init => LineIsWatched
  BY DEF Init, LineIsWatched
<1>2. QED
  BY <1>1, WatchedStep, TypeHolds, PTL DEF Spec

-----------------------------------------------------------------------------
(* The send queue                                                           *)

LEMMA NothingIsEmpty ==
    ASSUME NEW S, NEW s \in Seq(S)
    PROVE  Len(s) \in Nat /\ (s = <<>> <=> Len(s) = 0)
BY EmptySeq, LenProperties

\* A send that is outstanding is the only one, and none has failed.
LEMMA SendOutstanding ==
    ASSUME TypeOK, OneSendAtATime, NEW i \in DOMAIN sending
    PROVE  /\ sending \in Seq(Line \X Message) /\ Len(sending) = 1
           /\ sendInProgress /\ ~sendFailed
<1>1. sending \in Seq(Line \X Message) /\ sendInProgress \in BOOLEAN /\ sendFailed \in BOOLEAN
  BY DEF TypeOK
<1>2. i \in 1 .. Len(sending) /\ Len(sending) \in Nat
  BY <1>1, LenProperties
<1>3. Len(sending) # 0
  BY <1>2
<1>4. sending # <<>>
  BY <1>1, <1>3, NothingIsEmpty
<1>5. Len(sending) <= 1 /\ sendInProgress /\ ~sendFailed
  BY <1>1, <1>4 DEF OneSendAtATime
<1>6. Len(sending) = 1
  <2>1. PICK n \in Nat : n = Len(sending)
    BY <1>2
  <2>2. Len(sending) <= 1
    BY <1>5
  <2>3. QED
    BY ONLY <1>3, <2>1, <2>2
<1>7. QED
  BY ONLY <1>1, <1>5, <1>6

LEMMA QueuedKeepsSends ==
    ASSUME TypeOK, OneSendAtATime, NEW m \in Message, SendQueued(m), UNCHANGED sendFailed
    PROVE  OneSendAtATime'
<1>1. /\ sendInProgress' = TRUE /\ Len(sending) \in Nat
      /\ sendInProgress => UNCHANGED sending
      /\ ~sendInProgress => Len(sending') = Len(sending) + 1
      /\ sending \in Seq(Line \X Message) /\ sending' \in Seq(Line \X Message)
  BY SendQueuedShape, LenProperties DEF TypeOK
<1>2. CASE sendInProgress
  BY <1>1, <1>2 DEF OneSendAtATime
<1>3. CASE ~sendInProgress
  <2>1. Len(sending) = 0 /\ ~sendFailed
    BY <1>3, EmptySeq DEF OneSendAtATime
  <2>2. Len(sending') = 1 /\ 1 # 0
    BY <1>1, <1>3, <2>1
  <2>3. sending' # <<>>
    BY <1>1, <2>2, NothingIsEmpty
  <2>4. QED
    BY <1>1, <2>1, <2>2, <2>3 DEF OneSendAtATime
<1>4. QED
  BY <1>2, <1>3

LEMMA SendsStep == TypeOK /\ OneSendAtATime /\ [Next]_vars => OneSendAtATime'
<1> SUFFICES ASSUME TypeOK, OneSendAtATime, [Next]_vars PROVE OneSendAtATime'
  OBVIOUS
<1>0. CASE UNCHANGED <<queue, sendInProgress, sending, sendFailed>>
  BY <1>0 DEF OneSendAtATime
<1>1. CASE Authenticate \/ LineLost \/ HandlerThrows \/ AliveExpires
  BY <1>0, <1>1 DEF Authenticate, LineLost, HandlerThrows, AliveExpires, sendVars
<1>2. CASE Restart
  BY <1>2, EmptySeq DEF Restart, OneSendAtATime
<1>3. CASE MessageHandled \/ AlivePing
  <2>1. /\ \/ UNCHANGED <<queue, sendInProgress, sending>>
           \/ SendQueued("NewTunnelFailed") \/ SendQueued("Ping")
        /\ UNCHANGED sendFailed
    BY <1>3 DEF MessageHandled, AlivePing
  <2>2. QED
    BY <1>0, <2>1, QueuedKeepsSends DEF Message
<1>4. ASSUME NEW w \in Line, Greet(w) PROVE OneSendAtATime'
  BY <1>4, QueuedKeepsSends DEF Greet, Message
<1>5. ASSUME NEW w \in Line,
             ConnectSucceeds(w) \/ ConnectFails(w) \/ ReadMessage(w) \/ ReadFails(w)
      PROVE  OneSendAtATime'
  BY <1>0, <1>5 DEF ConnectSucceeds, ConnectFails, ReadMessage, ReadFails, sendVars
<1>6. ASSUME NEW i \in DOMAIN sending, SendDone(i) PROVE OneSendAtATime'
  <2>1. /\ sending \in Seq(Line \X Message) /\ Len(sending) = 1
        /\ ~sendFailed /\ sendInProgress
    BY <1>6, SendOutstanding
  <2>2. UNCHANGED sendFailed
    BY <1>6 DEF SendDone
  <2>3. CASE queue = <<>>
    <3>1. /\ sending' \in Seq(Line \X Message) /\ Len(sending') = Len(sending) - 1
          /\ queue' = <<>> /\ sendInProgress' = FALSE
      BY <1>6, <2>3, SendDoneShape
    <3>2. Len(sending') = 0
      BY <2>1, <3>1
    <3>3. sending' = <<>>
      BY <3>1, <3>2, NothingIsEmpty
    <3>4. QED
      BY <2>1, <2>2, <3>1, <3>2, <3>3 DEF OneSendAtATime
  <2>4. CASE queue # <<>>
    <3>1. /\ sending' \in Seq(Line \X Message) /\ Len(sending') = Len(sending)
          /\ sendInProgress' = TRUE
      BY <1>6, <2>4, SendDoneShape
    <3>2. sending' # <<>>
      BY <2>1, <3>1, NothingIsEmpty
    <3>3. QED
      BY <2>1, <2>2, <3>1, <3>2 DEF OneSendAtATime
  <2>5. QED
    BY <2>3, <2>4
<1>7. ASSUME NEW i \in DOMAIN sending, SendFails(i) PROVE OneSendAtATime'
  <2>1. /\ sending' \in Seq(Line \X Message) /\ Len(sending') = Len(sending) - 1
        /\ UNCHANGED <<queue, sendInProgress>> /\ sendFailed' = TRUE
    BY <1>7, RemoveOne DEF SendFails, TypeOK
  <2>2. sendInProgress /\ Len(sending) = 1
    BY <1>7, SendOutstanding
  <2>3. Len(sending') = 0
    BY <2>1, <2>2
  <2>4. sending' = <<>>
    BY <2>1, <2>3, NothingIsEmpty
  <2>5. QED
    BY <2>1, <2>2, <2>3, <2>4 DEF OneSendAtATime
<1>8. CASE UNCHANGED vars
  BY <1>0, <1>8 DEF vars
<1>9. QED
  BY <1>1, <1>2, <1>3, <1>4, <1>5, <1>6, <1>7, <1>8 DEF Next

\* At most one send is outstanding.  What is queued waits for the send that is, and
\* after a send that failed for nobody: then nothing is sent any more.
THEOREM SendsAreSingle == Spec => []OneSendAtATime
<1>1. Init => OneSendAtATime
  BY EmptySeq DEF Init, OneSendAtATime
<1>2. QED
  BY <1>1, SendsStep, TypeHolds, PTL DEF Spec

-----------------------------------------------------------------------------
(* Pings                                                                    *)

\* While a websocket is open, it is the current one and its pings go on.
PingInv == OnlyCurrent /\ OpenLineIsPinged

LEMMA PingStep == TypeOK /\ PingInv /\ [Next]_vars => OpenLineIsPinged'
<1> SUFFICES ASSUME TypeOK, PingInv, [Next]_vars, line'[ws'] = "open"
             PROVE  aliveArmed' \/ aliveFired'
  BY DEF OpenLineIsPinged
<1>0. /\ ws \in Line /\ line \in [Line -> {"unused", "connecting", "open", "lost", "closed"}]
      /\ line[ws] = "open" => (aliveArmed \/ aliveFired) /\ ~reconnecting
  BY DEF TypeOK, PingInv, OpenLineIsPinged, OnlyCurrent, Gone
<1>1. CASE UNCHANGED <<ws, line, aliveArmed, aliveFired>>
  BY <1>0, <1>1
\* RetryConnect leaves no open websocket behind.
<1>2. ASSUME RetryConnect, UNCHANGED ws PROVE FALSE
  <2>1. CASE reconnecting
    BY <1>0, <1>2, <2>1 DEF RetryConnect
  <2>2. CASE ~reconnecting
    BY <1>0, <1>2, <2>2 DEF RetryConnect
  <2>3. QED
    BY <2>1, <2>2
<1>3. CASE Authenticate
  <2>1. CASE ws' = ws /\ line' = [line EXCEPT ![ws] = "closed"]
    BY <1>0, <2>1
  <2>2. CASE ws < MaxLines /\ ws' = ws + 1 /\ line' = [line EXCEPT ![ws + 1] = "connecting"]
    <3>1. ws + 1 \in Line
      BY <1>0, <2>2, PublisherLineAssumption DEF Line
    <3>2. QED
      BY <1>0, <2>2, <3>1
  <2>3. QED
    BY <1>3, <2>1, <2>2 DEF Authenticate
<1>4. CASE LineLost \/ Restart
  BY <1>0, <1>4 DEF LineLost, Restart
<1>5. CASE AliveExpires \/ AlivePing
  BY <1>5 DEF AliveExpires, AlivePing
<1>6. CASE MessageHandled \/ HandlerThrows
  BY <1>1, <1>6 DEF MessageHandled, HandlerThrows
<1>7. ASSUME NEW w \in Line, ConnectSucceeds(w) PROVE aliveArmed'
  BY <1>7 DEF ConnectSucceeds
<1>8. ASSUME NEW w \in Line, ConnectFails(w) \/ ReadFails(w) PROVE FALSE
  BY <1>2, <1>8 DEF ConnectFails, ReadFails
<1>9. ASSUME NEW w \in Line, Greet(w) \/ ReadMessage(w) PROVE aliveArmed' \/ aliveFired'
  BY <1>1, <1>9 DEF Greet, ReadMessage
<1>10. ASSUME NEW i \in DOMAIN sending, SendDone(i) PROVE aliveArmed' \/ aliveFired'
  BY <1>1, <1>10 DEF SendDone, lineVars
<1>11. ASSUME NEW i \in DOMAIN sending, SendFails(i) PROVE FALSE
  BY <1>2, <1>11 DEF SendFails
<1>12. CASE UNCHANGED vars
  BY <1>1, <1>12 DEF vars
<1>13. QED
  BY <1>3, <1>4, <1>5, <1>6, <1>7, <1>8, <1>9, <1>10, <1>11, <1>12 DEF Next

\* An open line is pinged, whatever became of the timers of the lines before.
THEOREM OpenLineIsAlwaysPinged == Spec => []OpenLineIsPinged
<1>1. Init => PingInv
  BY PublisherLineAssumption DEF Init, PingInv, OnlyCurrent, OpenLineIsPinged, Gone, Line
<1>2. TypeOK /\ PingInv /\ [Next]_vars => PingInv'
  BY PingStep, OnlyCurrentStep DEF PingInv
<1>3. PingInv => OpenLineIsPinged
  BY DEF PingInv
<1>4. QED
  BY <1>1, <1>2, <1>3, TypeHolds, PTL DEF Spec
=============================================================================
