------------------------------- MODULE PipeProofs -------------------------------
(***************************************************************************)
(* Proofs about Pipe, for any amount of data, size of the buffer and number *)
(* of retries: each direction is a byte channel, and the end that closed    *)
(* the tunnel by ending its stream had everything delivered.                *)
(***************************************************************************)
EXTENDS Pipe, SequenceTheorems, TLAPS

\* The bytes of the stream that were written, while the tunnel is open: those before
\* the chunk, and, as long as it is in the buffer, what was written of it.
Written(d) == base[d] + (IF step[d] = "read" THEN 0 ELSE offset[d])

\* Bytes move from sent to got to arrived, and what was read last is in the buffer.
Flow ==
    \A d \in Direction :
        /\ base[d] <= got[d] /\ got[d] <= sent[d] /\ got[d] - base[d] <= Buffer
        /\ step[d] = "read" => base[d] = got[d]
        /\ open /\ step[d] # "read" => base[d] + offset[d] < got[d]

\* What arrived is the stream up to there.
InOrder ==
    \A d \in Direction :
        /\ \E n \in 0 .. got[d] : arrived[d] = Channel!Stream(n)
        /\ open => arrived[d] = Channel!Stream(Written(d))

\* A stream that has ended does not grow; the end that closed was read to its end.
Ended == cause \in Direction =>
    ~open /\ cause \in fin /\ arrived[cause] = Channel!Stream(sent[cause])

Inv == TypeOK /\ Flow /\ InOrder /\ Ended

-----------------------------------------------------------------------------
(* Sequences of bytes                                                       *)

LEMMA StreamLength ==
    ASSUME NEW n \in Nat
    PROVE  /\ Channel!Stream(n) \in Seq(Nat) /\ Channel!Stream(n) \in Seq(1 .. n)
           /\ Len(Channel!Stream(n)) = n
           /\ \A i \in 1 .. n : Channel!Stream(n)[i] = i
BY DEF Channel!Stream

\* A write that starts where the last one ended continues the stream.
LEMMA StreamGrows ==
    ASSUME NEW m \in Nat, NEW n \in Nat, m <= n
    PROVE  Channel!Stream(m) \o Bytes(m + 1, n) = Channel!Stream(n)
<1> DEFINE A == Channel!Stream(m)
<1> DEFINE B == Bytes(m + 1, n)
<1> DEFINE C == Channel!Stream(n)
<1>1. A \in Seq(Nat) /\ Len(A) = m /\ \A i \in 1 .. m : A[i] = i
  BY StreamLength
<1>2. C \in Seq(Nat) /\ Len(C) = n /\ \A i \in 1 .. n : C[i] = i
  BY StreamLength
<1>3. B \in Seq(Nat) /\ Len(B) = n - m /\ \A i \in 1 .. n - m : B[i] = m + i
  <2>1. B = [i \in 1 .. n - m |-> m + i]
    BY DEF Bytes
  <2>2. n - m \in Nat /\ \A i \in 1 .. n - m : m + i \in Nat
    OBVIOUS
  <2> HIDE DEF B
  <2>3. QED
    BY <2>1, <2>2
<1> HIDE DEF A, B, C
<1>4. A \o B \in Seq(Nat) /\ Len(A \o B) = n
  <2>1. A \o B \in Seq(Nat) /\ Len(A \o B) = Len(A) + Len(B)
    BY <1>1, <1>3, ConcatProperties
  <2>2. m + (n - m) = n
    OBVIOUS
  <2>3. QED
    BY <1>1, <1>3, <2>1, <2>2
<1>5. \A i \in 1 .. n : (A \o B)[i] = i
  BY <1>1, <1>3, ConcatProperties
<1>6. A \o B = C
  BY <1>2, <1>4, <1>5
<1>7. QED
  BY <1>6 DEF A, B, C

LEMMA StreamTypes ==
    ASSUME NEW n \in 0 .. Length
    PROVE  Channel!Stream(n) \in Seq(1 .. Length)
<1>1. Channel!Stream(n) = [i \in 1 .. n |-> i] /\ n \in Nat
  BY PipeAssumption DEF Channel!Stream
<1>2. \A i \in 1 .. n : i \in 1 .. Length
  BY PipeAssumption
<1>3. QED
  BY <1>1, <1>2

-----------------------------------------------------------------------------
(* The invariant                                                            *)

\* Bytes up to the m-th are written in direction d.
Delivers(d, m) ==
    arrived' = [arrived EXCEPT ![d] = @ \o Bytes(base[d] + offset[d] + 1, m)]

LEMMA DeliversStream ==
    ASSUME Inv, NEW d \in Direction, open, step[d] # "read",
           NEW m \in base[d] + offset[d] .. got[d], Delivers(d, m)
    PROVE  /\ arrived' = [arrived EXCEPT ![d] = Channel!Stream(m)]
           /\ arrived' \in [Direction -> Seq(1 .. Length)]
           /\ m \in 0 .. Length /\ Len(arrived[d]) = base[d] + offset[d]
<1> DEFINE k == base[d] + offset[d]
<1>1. k \in Nat /\ m \in Nat /\ k <= m /\ m \in 0 .. Length
  BY PipeAssumption DEF Inv, TypeOK
<1>2. arrived[d] = Channel!Stream(k)
  BY DEF Inv, InOrder, Written
<1> HIDE DEF k
<1>3. arrived[d] \o Bytes(k + 1, m) = Channel!Stream(m)
  BY <1>1, <1>2, StreamGrows
<1>4. arrived' = [arrived EXCEPT ![d] = Channel!Stream(m)]
  BY <1>3 DEF Delivers, k
<1>5. arrived' \in [Direction -> Seq(1 .. Length)]
  BY <1>1, <1>4, StreamTypes DEF Inv, TypeOK
<1>6. Len(arrived[d]) = k
  BY <1>1, <1>2, StreamLength
<1>7. QED
  BY <1>1, <1>4, <1>5, <1>6 DEF k

LEMMA InitInv == Init => Inv
<1> SUFFICES ASSUME Init
             PROVE  Inv
  OBVIOUS
<1> USE PipeAssumption
<1>1. PICK p \in 1 .. Least(Buffer, Length) :
         /\ sent = [d \in Direction |-> IF d = "up" THEN p ELSE 0]
         /\ got = sent
  BY DEF Init
<1>2. p \in 1 .. Length /\ p <= Buffer
  BY DEF Least
<1>3. Channel!Stream(0) = <<>> /\ <<>> \in Seq(1 .. Length)
  BY DEF Channel!Stream
<1>4. /\ fin = {} /\ base = [d \in Direction |-> 0] /\ offset = [d \in Direction |-> 0]
      /\ retries = [d \in Direction |-> 0]
      /\ step = [d \in Direction |-> IF d = "up" THEN "first" ELSE "read"]
      /\ arrived = [d \in Direction |-> <<>>] /\ open = TRUE /\ cause = "none"
  BY DEF Init
<1>5. TypeOK
  BY <1>1, <1>2, <1>3, <1>4 DEF TypeOK
<1>6. Flow /\ Ended
  BY <1>1, <1>2, <1>4 DEF Flow, Ended, Direction
<1>7. InOrder
  BY <1>1, <1>2, <1>3, <1>4 DEF InOrder, Written
<1>8. QED
  BY <1>5, <1>6, <1>7 DEF Inv

LEMMA Numbers ==
    ASSUME TypeOK, NEW d \in Direction
    PROVE  /\ sent[d] \in Nat /\ got[d] \in Nat /\ base[d] \in Nat /\ offset[d] \in Nat
           /\ retries[d] \in Nat
BY PipeAssumption DEF TypeOK

\* The senders do nothing to what was read.
LEMMA SenderStep ==
    ASSUME Inv, NEW d \in Direction, Send(d) \/ Finish(d)
    PROVE  Inv'
<1> USE PipeAssumption
<1>1. /\ d \notin fin /\ fin \subseteq fin' /\ fin' \subseteq Direction
      /\ sent' \in [Direction -> 0 .. Length]
      /\ \A e \in Direction : sent[e] <= sent'[e] /\ (e \in fin => sent'[e] = sent[e])
      /\ UNCHANGED <<got, base, offset, retries, step, arrived, open, cause>>
  <2>0. TypeOK
    BY DEF Inv
  <2>1. CASE Send(d)
    <3>1. /\ d \notin fin /\ sent[d] < Length /\ sent' = [sent EXCEPT ![d] = @ + 1]
          /\ UNCHANGED <<fin, got, base, offset, retries, step, arrived, open, cause>>
      BY <2>1 DEF Send
    <3>2. sent[d] + 1 \in 0 .. Length
      BY <2>0, <3>1, Numbers
    <3>3. sent' \in [Direction -> 0 .. Length]
      BY <2>0, <3>1, <3>2 DEF TypeOK
    <3>4. ASSUME NEW e \in Direction
          PROVE  sent[e] <= sent'[e] /\ (e \in fin => sent'[e] = sent[e])
      <4>1. sent'[e] = IF e = d THEN sent[e] + 1 ELSE sent[e]
        BY <2>0, <3>1 DEF TypeOK
      <4>2. QED
        BY <2>0, <3>1, <4>1, Numbers
    <3>5. QED
      BY <2>0, <3>1, <3>3, <3>4 DEF TypeOK
  <2>2. CASE Finish(d)
    <3>1. d \notin fin /\ fin' = fin \union {d} /\ UNCHANGED sent
          /\ UNCHANGED <<got, base, offset, retries, step, arrived, open, cause>>
      BY <2>2 DEF Finish
    <3>2. \A e \in Direction : sent[e] <= sent'[e]
      BY <2>0, <3>1, Numbers
    <3>3. QED
      BY <2>0, <3>1, <3>2 DEF TypeOK
  <2>3. QED
    BY <2>1, <2>2
<1>2. TypeOK'
  BY <1>1 DEF Inv, TypeOK
<1>3. Flow'
  BY <1>1 DEF Inv, TypeOK, Flow
<1>4. InOrder'
  BY <1>1 DEF Inv, InOrder, Written
<1>5. Ended'
  BY <1>1 DEF Inv, Ended
<1>6. QED
  BY <1>2, <1>3, <1>4, <1>5 DEF Inv

LEMMA ReadStep ==
    ASSUME Inv, NEW d \in Direction, ReadSome(d)
    PROVE  Inv'
<1> USE PipeAssumption
<1>1. PICK n \in 1 .. Least(Buffer, sent[d] - got[d]) : got' = [got EXCEPT ![d] = @ + n]
  BY DEF ReadSome
<1>2. /\ open /\ step[d] = "read" /\ step' = [step EXCEPT ![d] = "write"]
      /\ offset' = [offset EXCEPT ![d] = 0] /\ retries' = [retries EXCEPT ![d] = 0]
      /\ UNCHANGED <<sent, fin, base, arrived, open, cause>>
  BY DEF ReadSome
<1>3. n \in 1 .. Buffer /\ got[d] + n <= sent[d]
  BY <1>1, Numbers DEF Least, Inv
<1>0. TypeOK
  BY DEF Inv
<1>4. TypeOK'
  <2>1. got[d] + n \in 0 .. Length
    BY <1>0, <1>3, Numbers DEF TypeOK
  <2>2. got' \in [Direction -> 0 .. Length]
    BY <1>0, <1>1, <2>1 DEF TypeOK
  <2>3. 0 \in 0 .. Buffer /\ 0 \in 0 .. MaxRetries
    OBVIOUS
  <2>4. offset' \in [Direction -> 0 .. Buffer] /\ retries' \in [Direction -> 0 .. MaxRetries]
    BY <1>0, <1>2, <2>3 DEF TypeOK
  <2>5. QED
    BY <1>0, <1>2, <2>2, <2>4 DEF TypeOK
<1>5. Flow'
  <2>1. ASSUME NEW e \in Direction
        PROVE  /\ base'[e] <= got'[e] /\ got'[e] <= sent'[e] /\ got'[e] - base'[e] <= Buffer
               /\ step'[e] = "read" => base'[e] = got'[e]
               /\ open' /\ step'[e] # "read" => base'[e] + offset'[e] < got'[e]
    <3>1. CASE e = d
      <4>1. base[d] = got[d]
        BY <1>2 DEF Inv, Flow
      <4>2. got'[d] = got[d] + n /\ offset'[d] = 0 /\ step'[d] = "write"
        BY <1>0, <1>1, <1>2 DEF TypeOK
      <4>3. QED
        BY <1>0, <1>2, <1>3, <3>1, <4>1, <4>2, Numbers
    <3>2. CASE e # d
      BY <1>0, <1>1, <1>2, <3>2 DEF Inv, TypeOK, Flow
    <3>3. QED
      BY <3>1, <3>2
  <2>2. QED
    BY <2>1 DEF Flow
<1>6. InOrder'
  <2>1. ASSUME NEW e \in Direction
        PROVE  /\ \E k \in 0 .. got'[e] : arrived'[e] = Channel!Stream(k)
               /\ open' => arrived'[e] = Channel!Stream(Written(e)')
    <3>1. got[e] \in Nat /\ got'[e] \in Nat /\ got[e] <= got'[e]
      <4>1. got[e] \in Nat /\ got[d] \in Nat
        BY Numbers DEF Inv
      <4>2. got'[e] = IF e = d THEN got[d] + n ELSE got[e]
        BY <1>1 DEF Inv, TypeOK
      <4>3. QED
        BY <1>3, <4>1, <4>2
    <3>2. Written(e)' = Written(e)
      BY <1>2 DEF Written, Inv, TypeOK
    <3>3. PICK k \in 0 .. got[e] : arrived[e] = Channel!Stream(k)
      BY DEF Inv, InOrder
    <3>4. k \in 0 .. got'[e]
      BY <3>1, <3>3
    <3>5. open' => arrived'[e] = Channel!Stream(Written(e)')
      BY <1>2, <3>2 DEF Inv, InOrder
    <3>6. QED
      BY <1>2, <3>3, <3>4, <3>5
  <2>2. QED
    BY <2>1 DEF InOrder
<1>7. Ended'
  BY <1>2 DEF Inv, Ended
<1>8. QED
  BY <1>4, <1>5, <1>6, <1>7 DEF Inv

LEMMA WriteAllStep ==
    ASSUME Inv, NEW d \in Direction, WriteAll(d)
    PROVE  Inv'
<1> USE PipeAssumption
<1>1. /\ open /\ step[d] # "read" /\ Delivers(d, got[d])
      /\ base' = [base EXCEPT ![d] = got[d]] /\ step' = [step EXCEPT ![d] = "read"]
      /\ UNCHANGED <<sent, fin, got, offset, retries, open, cause>>
  BY DEF WriteAll, Delivers
<1>2. got[d] \in base[d] + offset[d] .. got[d]
  BY <1>1 DEF Inv, TypeOK, Flow
<1>3. /\ arrived' = [arrived EXCEPT ![d] = Channel!Stream(got[d])]
      /\ arrived' \in [Direction -> Seq(1 .. Length)]
  BY <1>1, <1>2, DeliversStream
<1>4. TypeOK'
  BY <1>1, <1>3 DEF Inv, TypeOK
<1>5. Flow'
  BY <1>1 DEF Inv, TypeOK, Flow
<1>6. InOrder'
  <2>1. ASSUME NEW e \in Direction
        PROVE  /\ \E k \in 0 .. got'[e] : arrived'[e] = Channel!Stream(k)
               /\ open' => arrived'[e] = Channel!Stream(Written(e)')
    <3>1. CASE e = d
      <4>1. Written(e)' = got[d] /\ got[d] \in 0 .. got'[d] /\ arrived'[e] = Channel!Stream(got[d])
        BY <1>1, <1>3, <3>1 DEF Written, Inv, TypeOK
      <4>2. QED
        BY <3>1, <4>1
    <3>2. CASE e # d
      <4>1. Written(e)' = Written(e) /\ arrived'[e] = arrived[e]
        BY <1>1, <1>3, <3>2 DEF Written, Inv, TypeOK
      <4>2. QED
        BY <1>1, <4>1 DEF Inv, InOrder
    <3>3. QED
      BY <3>1, <3>2
  <2>2. QED
    BY <2>1 DEF InOrder
<1>7. Ended'
  BY <1>1 DEF Inv, Ended
<1>8. QED
  BY <1>4, <1>5, <1>6, <1>7 DEF Inv

LEMMA WriteSomeStep ==
    ASSUME Inv, NEW d \in Direction, WriteSome(d)
    PROVE  Inv'
<1> USE PipeAssumption
<1>1. PICK n \in 0 .. got[d] - base[d] - offset[d] - 1 :
         /\ Delivers(d, base[d] + offset[d] + n)
         /\ IF step[d] = "write" /\ retries[d] < MaxRetries
              THEN /\ offset' = [offset EXCEPT ![d] = @ + n]
                   /\ retries' = [retries EXCEPT ![d] = @ + 1]
                   /\ UNCHANGED <<open, cause>>
              ELSE open' = FALSE /\ cause' = "error" /\ UNCHANGED <<offset, retries>>
  BY DEF WriteSome, Delivers
<1>2. open /\ step[d] # "read" /\ UNCHANGED <<sent, fin, got, base, step>>
  BY DEF WriteSome
<1> DEFINE m == base[d] + offset[d] + n
<1>0. TypeOK
  BY DEF Inv
<1>3. m \in base[d] + offset[d] .. got[d] /\ m < got[d] /\ m \in 0 .. got[d]
  BY <1>0, Numbers
<1>4. /\ arrived' = [arrived EXCEPT ![d] = Channel!Stream(m)]
      /\ arrived' \in [Direction -> Seq(1 .. Length)]
  BY <1>1, <1>2, <1>3, DeliversStream
<1>5. arrived'[d] = Channel!Stream(m) /\ \A e \in Direction \ {d} : arrived'[e] = arrived[e]
  BY <1>4 DEF Inv, TypeOK
<1>6. CASE step[d] = "write" /\ retries[d] < MaxRetries
  <2>1. /\ offset' = [offset EXCEPT ![d] = @ + n]
        /\ retries' = [retries EXCEPT ![d] = @ + 1] /\ UNCHANGED <<open, cause>>
    BY <1>1, <1>6
  <2>2. offset[d] + n \in 0 .. Buffer
    <3>1. got[d] - base[d] <= Buffer
      BY DEF Inv, Flow
    <3>2. QED
      BY <1>0, <3>1, Numbers
  <2>3. TypeOK'
    <3>1. retries[d] + 1 \in 0 .. MaxRetries
      BY <1>0, <1>6, Numbers
    <3>2. offset' \in [Direction -> 0 .. Buffer] /\ retries' \in [Direction -> 0 .. MaxRetries]
      BY <1>0, <2>1, <2>2, <3>1 DEF TypeOK
    <3>3. QED
      BY <1>0, <1>2, <1>4, <2>1, <3>2 DEF TypeOK
  <2>4. Flow'
    BY <1>2, <1>3, <2>1 DEF Inv, TypeOK, Flow
  <2>5. ASSUME NEW e \in Direction
        PROVE  /\ \E k \in 0 .. got'[e] : arrived'[e] = Channel!Stream(k)
               /\ open' => arrived'[e] = Channel!Stream(Written(e)')
    <3>1. CASE e = d
      <4>1. Written(e)' = m
        BY <1>2, <2>1, <3>1 DEF Written, Inv, TypeOK
      <4>2. QED
        BY <1>2, <1>3, <1>5, <3>1, <4>1
    <3>2. CASE e # d
      <4>1. Written(e)' = Written(e)
        BY <1>2, <2>1, <3>2 DEF Written, Inv, TypeOK
      <4>2. QED
        BY <1>2, <1>5, <3>2, <4>1 DEF Inv, InOrder
    <3>3. QED
      BY <3>1, <3>2
  <2>6. InOrder'
    BY <2>5 DEF InOrder
  <2>7. Ended'
    BY <1>2, <2>1 DEF Inv, Ended
  <2>8. QED
    BY <2>3, <2>4, <2>6, <2>7 DEF Inv
<1>7. CASE ~(step[d] = "write" /\ retries[d] < MaxRetries)
  <2>1. open' = FALSE /\ cause' = "error" /\ UNCHANGED <<offset, retries>>
    BY <1>1, <1>7
  <2>2. TypeOK' /\ Flow' /\ Ended'
    BY <1>2, <1>4, <2>1 DEF Inv, TypeOK, Flow, Ended, Direction
  <2>3. InOrder'
    BY <1>2, <1>3, <1>5, <2>1 DEF Inv, InOrder
  <2>4. QED
    BY <2>2, <2>3 DEF Inv
<1>8. QED
  BY <1>6, <1>7

LEMMA CloseStep ==
    ASSUME Inv, (\E d \in Direction : EndOfStream(d)) \/ Fail
    PROVE  Inv'
<1>1. /\ open /\ open' = FALSE
      /\ UNCHANGED <<sent, fin, got, base, offset, retries, step, arrived>>
  BY DEF EndOfStream, Fail
<1>2. \/ cause' = "error"
      \/ \E d \in Direction : cause' = d /\ step[d] = "read" /\ d \in fin /\ got[d] = sent[d]
  BY DEF EndOfStream, Fail
<1>3. TypeOK' /\ Flow' /\ InOrder'
  BY <1>1, <1>2 DEF Inv, TypeOK, Flow, InOrder
<1>4. ASSUME NEW d \in Direction, step[d] = "read", got[d] = sent[d]
      PROVE  arrived[d] = Channel!Stream(sent[d])
  <2>1. Written(d) = sent[d]
    BY <1>4 DEF Written, Inv, TypeOK, Flow
  <2>2. QED
    BY <1>1, <2>1 DEF Inv, InOrder
<1>5. Ended'
  BY <1>1, <1>2, <1>4 DEF Ended, Direction
<1>6. QED
  BY <1>3, <1>5 DEF Inv

LEMMA InvStep == Inv /\ [Next]_vars => Inv'
<1> SUFFICES ASSUME Inv, [Next]_vars
             PROVE  Inv'
  OBVIOUS
<1>1. CASE UNCHANGED vars
  BY <1>1 DEF vars, Inv, TypeOK, Flow, InOrder, Written, Ended
<1>2. QED
  BY <1>1, SenderStep, ReadStep, WriteAllStep, WriteSomeStep, CloseStep DEF Next, Over

LEMMA InvHolds == Spec => []Inv
BY InitInv, InvStep, PTL DEF Spec

\* The end whose stream ended first had everything it sent delivered before the tunnel
\* was closed.
THEOREM FinisherDelivered == Spec => []FinisherIsDelivered
<1>1. Inv => FinisherIsDelivered
  BY DEF Inv, Ended, FinisherIsDelivered
<1>2. QED
  BY <1>1, InvHolds, PTL

-----------------------------------------------------------------------------
(* The channel                                                              *)

LEMMA DeliversArrives ==
    ASSUME Inv, NEW d \in Direction, open, step[d] # "read",
           NEW m \in base[d] + offset[d] + 1 .. got[d], Delivers(d, m), UNCHANGED sent,
           open' \in BOOLEAN
    PROVE  Channel!Arrive(d)
<1>1. m \in base[d] + offset[d] .. got[d]
  BY PipeAssumption DEF Inv, TypeOK
<1>2. /\ arrived' = [arrived EXCEPT ![d] = Channel!Stream(m)]
      /\ Len(arrived[d]) = base[d] + offset[d]
  BY <1>1, DeliversStream
<1>3. m \in Len(arrived[d]) + 1 .. sent[d]
  BY <1>2, PipeAssumption DEF Inv, TypeOK, Flow
<1>4. QED
  BY <1>2, <1>3 DEF Channel!Arrive

\* Pipe implements ByteChannel in both directions: what arrives is what was sent, in
\* order, once, from the peeked bytes on, however writes end early and are repeated.
THEOREM PipeIsByteChannel == Spec => IsByteChannel
<1>1. Init => Channel!Init
  BY InitInv DEF Inv, TypeOK, Init, Channel!Init
<1>2. Inv /\ [Next]_vars => [Channel!Next]_(Channel!vars)
  <2> SUFFICES ASSUME Inv, [Next]_vars
               PROVE  [Channel!Next]_(Channel!vars)
    OBVIOUS
  <2>1. CASE UNCHANGED <<sent, arrived, open>>
    BY <2>1 DEF Channel!vars
  <2>2. ASSUME NEW d \in Direction, Send(d)
        PROVE  Channel!Next
    BY <2>2 DEF Send, Channel!Next, Channel!Send
  <2>3. ASSUME NEW d \in Direction, WriteAll(d)
        PROVE  Channel!Next
    <3>1. /\ open /\ step[d] # "read" /\ Delivers(d, got[d])
          /\ UNCHANGED <<sent, open>> /\ open' \in BOOLEAN
      BY <2>3 DEF WriteAll, Delivers, Inv, TypeOK
    <3>2. got[d] \in base[d] + offset[d] + 1 .. got[d]
      BY <3>1, PipeAssumption DEF Inv, TypeOK, Flow
    <3>3. Channel!Arrive(d)
      BY <3>1, <3>2, DeliversArrives
    <3>4. QED
      BY <3>3 DEF Channel!Next
  <2>4. ASSUME NEW d \in Direction, WriteSome(d)
        PROVE  [Channel!Next]_(Channel!vars)
    <3>1. PICK n \in 0 .. got[d] - base[d] - offset[d] - 1 :
             Delivers(d, base[d] + offset[d] + n)
      BY <2>4 DEF WriteSome, Delivers
    <3>2. /\ open /\ step[d] # "read" /\ UNCHANGED sent
          /\ open' = open \/ open' = FALSE
      BY <2>4 DEF WriteSome
    <3>3. open' \in BOOLEAN
      BY <3>2 DEF Inv, TypeOK
    <3> DEFINE m == base[d] + offset[d] + n
    <3>4. m \in base[d] + offset[d] .. got[d]
      BY Numbers DEF Inv
    <3>5. CASE n > 0
      <4>1. m \in base[d] + offset[d] + 1 .. got[d]
        BY <3>4, <3>5, Numbers DEF Inv
      <4>2. Channel!Arrive(d)
        BY <3>1, <3>2, <3>3, <4>1, DeliversArrives
      <4>3. QED
        BY <4>2 DEF Channel!Next
    <3>6. CASE n = 0
      <4>1. m = base[d] + offset[d]
        BY <3>6, Numbers DEF Inv
      <4>2. arrived' = [arrived EXCEPT ![d] = Channel!Stream(m)]
        BY <3>1, <3>2, <3>4, DeliversStream
      <4>3. arrived[d] = Channel!Stream(m)
        BY <3>2, <4>1 DEF Inv, InOrder, Written
      <4>4. arrived' = arrived
        BY <4>2, <4>3 DEF Inv, TypeOK
      <4>5. CASE open' = open
        BY <3>2, <4>4, <4>5 DEF Channel!vars
      <4>6. CASE open' = FALSE
        BY <3>2, <4>4, <4>6 DEF Channel!Next, Channel!Close
      <4>7. QED
        BY <3>2, <4>5, <4>6
    <3>7. QED
      BY <3>5, <3>6
  <2>5. CASE (\E d \in Direction : EndOfStream(d)) \/ Fail
    BY <2>5 DEF EndOfStream, Fail, Channel!Next, Channel!Close
  <2>6. QED
    BY <2>1, <2>2, <2>3, <2>4, <2>5 DEF Next, Over, vars, Finish, ReadSome
<1>3. QED
  BY <1>1, <1>2, InvHolds, PTL DEF Spec, IsByteChannel, Channel!Spec
=============================================================================
