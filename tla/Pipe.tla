-------------------------------- MODULE Pipe --------------------------------
(***************************************************************************)
(* The bytes of a linked tunnel: sharedpp's PipeOperation, one for each    *)
(* direction, and the write of the peeked bytes with which                 *)
(* TunnelSession::link starts the subscriber's direction.  Who is alive    *)
(* and who closes whom is TunnelService's subject; here both sides live    *)
(* until the tunnel is closed.                                             *)
(***************************************************************************)
EXTENDS Naturals, Sequences

CONSTANTS
    Length,         \* bound: bytes sent in a direction
    Buffer,         \* bytes a read can return (4096 in the code)
    MaxRetries      \* writes repeated after a partial one (10 in the code)

ASSUME PipeAssumption ==
    /\ Length \in Nat \ {0}
    /\ Buffer \in Nat \ {0}
    /\ MaxRetries \in Nat

\* From the subscriber to the publisher, and back.
Direction == {"up", "down"}

VARIABLES
    sent,           \* bytes the sender has sent
    fin,            \* directions whose sender has ended its stream
    got,            \* bytes read from the sender, the peeked ones included
    base,           \* bytes written before the chunk in the buffer
    offset,         \* cumulativeOffset: bytes of that chunk already written
    retries,
    step,           \* the operation outstanding
    arrived,        \* bytes written to the receiver
    open,           \* both sides are open
    cause           \* why they are not

vars == <<sent, fin, got, base, offset, retries, step, arrived, open, cause>>

Least(m, n) == IF m < n THEN m ELSE n

\* Bytes m to n of the stream.
Bytes(m, n) == [i \in 1 .. (n - m + 1) |-> m + i - 1]

TypeOK ==
    /\ sent \in [Direction -> 0 .. Length]
    /\ fin \subseteq Direction
    /\ got \in [Direction -> 0 .. Length]
    /\ base \in [Direction -> 0 .. Length]
    /\ offset \in [Direction -> 0 .. Buffer]
    /\ retries \in [Direction -> 0 .. MaxRetries]
    /\ step \in [Direction -> {"first", "read", "write"}]
    /\ arrived \in [Direction -> Seq(1 .. Length)]
    /\ open \in BOOLEAN
    /\ cause \in Direction \union {"none", "error"}

\* link(): the subscriber's peeked bytes are being written, and the publisher's
\* direction, whose peeked bytes were its token, is read.
Init ==
    /\ \E peeked \in 1 .. Least(Buffer, Length) :
          /\ sent = [d \in Direction |-> IF d = "up" THEN peeked ELSE 0]
          /\ got = sent
    /\ fin = {}
    /\ base = [d \in Direction |-> 0]
    /\ offset = [d \in Direction |-> 0]
    /\ retries = [d \in Direction |-> 0]
    /\ step = [d \in Direction |-> IF d = "up" THEN "first" ELSE "read"]
    /\ arrived = [d \in Direction |-> <<>>]
    /\ open = TRUE
    /\ cause = "none"

-----------------------------------------------------------------------------
(* The two ends of the tunnel                                               *)

Send(d) ==
    /\ d \notin fin /\ sent[d] < Length
    /\ sent' = [sent EXCEPT ![d] = @ + 1]
    /\ UNCHANGED <<fin, got, base, offset, retries, step, arrived, open, cause>>

Finish(d) ==
    /\ d \notin fin
    /\ fin' = fin \union {d}
    /\ UNCHANGED <<sent, got, base, offset, retries, step, arrived, open, cause>>

-----------------------------------------------------------------------------
(* PipeOperation                                                            *)

\* Mutant of ReadSome: async_read, which waits until the buffer is full.
ReadFull(d) ==
    /\ open /\ step[d] = "read"
    /\ sent[d] - got[d] >= Buffer
    /\ got' = [got EXCEPT ![d] = @ + Buffer]
    /\ step' = [step EXCEPT ![d] = "write"]
    /\ offset' = [offset EXCEPT ![d] = 0]
    /\ retries' = [retries EXCEPT ![d] = 0]
    /\ UNCHANGED <<sent, fin, base, arrived, open, cause>>

\* read_some returned bytes: they are written from the start of the buffer.
ReadSome(d) ==
    /\ open /\ step[d] = "read"
    /\ \E n \in 1 .. Least(Buffer, sent[d] - got[d]) : got' = [got EXCEPT ![d] = @ + n]
    /\ step' = [step EXCEPT ![d] = "write"]
    /\ offset' = [offset EXCEPT ![d] = 0]
    /\ retries' = [retries EXCEPT ![d] = 0]
    /\ UNCHANGED <<sent, fin, base, arrived, open, cause>>

\* Everything was written: the next read starts.
WriteAll(d) ==
    /\ open /\ step[d] \in {"first", "write"}
    /\ arrived' = [arrived EXCEPT ![d] = @ \o Bytes(base[d] + offset[d] + 1, got[d])]
    /\ base' = [base EXCEPT ![d] = got[d]]
    /\ step' = [step EXCEPT ![d] = "read"]
    /\ UNCHANGED <<sent, fin, got, offset, retries, open, cause>>

\* Mutant of WriteSome: the repeated write starts at the front of the buffer again.
WriteFromFront(d) ==
    /\ open /\ step[d] = "write"
    /\ \E n \in 0 .. got[d] - base[d] - offset[d] - 1 :
          arrived' = [arrived EXCEPT ![d] =
              @ \o Bytes(base[d] + offset[d] + 1, base[d] + offset[d] + n)]
    /\ IF retries[d] < MaxRetries
         THEN /\ retries' = [retries EXCEPT ![d] = @ + 1]
              /\ UNCHANGED <<open, cause>>
         ELSE open' = FALSE /\ cause' = "error" /\ UNCHANGED retries
    /\ UNCHANGED <<sent, fin, got, base, offset, step>>

\* A write ended early, after n bytes: the rest is tried again, whatever the error
\* was, until the retries are used up.  An early end of the first write closes.
WriteSome(d) ==
    /\ open /\ step[d] \in {"first", "write"}
    /\ \E n \in 0 .. got[d] - base[d] - offset[d] - 1 :
          /\ arrived' = [arrived EXCEPT ![d] =
                 @ \o Bytes(base[d] + offset[d] + 1, base[d] + offset[d] + n)]
          /\ IF step[d] = "write" /\ retries[d] < MaxRetries
               THEN /\ offset' = [offset EXCEPT ![d] = @ + n]
                    /\ retries' = [retries EXCEPT ![d] = @ + 1]
                    /\ UNCHANGED <<open, cause>>
               ELSE open' = FALSE /\ cause' = "error" /\ UNCHANGED <<offset, retries>>
    /\ UNCHANGED <<sent, fin, got, base, step>>

\* Mutant of EndOfStream: end of stream is looked at before the bytes ahead of it.
EndOfStreamEarly(d) ==
    /\ open /\ step[d] = "read" /\ d \in fin
    /\ open' = FALSE
    /\ cause' = d
    /\ UNCHANGED <<sent, fin, got, base, offset, retries, step, arrived>>

\* The sender's stream ended and was read to its end: both sides are closed.
EndOfStream(d) ==
    /\ open /\ step[d] = "read" /\ d \in fin /\ got[d] = sent[d]
    /\ open' = FALSE
    /\ cause' = d
    /\ UNCHANGED <<sent, fin, got, base, offset, retries, step, arrived>>

\* A read fails or a timer expires: both sides are closed.
Fail ==
    /\ open
    /\ open' = FALSE
    /\ cause' = "error"
    /\ UNCHANGED <<sent, fin, got, base, offset, retries, step, arrived>>

\* A closed tunnel whose ends have fallen silent.
Over == ~open /\ UNCHANGED vars

Next ==
    \/ \E d \in Direction : Send(d) \/ Finish(d)
    \/ \E d \in Direction : ReadSome(d) \/ WriteAll(d) \/ WriteSome(d) \/ EndOfStream(d)
    \/ Fail \/ Over

Spec == Init /\ [][Next]_vars

\* A receiver that takes its bytes lets every write finish, and bytes that are
\* there are read.
Fairness ==
    \A d \in Direction :
        /\ WF_vars(ReadSome(d))
        /\ WF_vars(WriteAll(d) \/ WriteSome(d))
        /\ WF_vars(EndOfStream(d))

FairSpec == Spec /\ Fairness

-----------------------------------------------------------------------------
(* Properties                                                               *)

Channel == INSTANCE ByteChannel

\* Both directions are byte channels, across chunk boundaries, the change from the
\* first write to the pipe, and writes repeated after a part was written.
IsByteChannel == Channel!Spec

\* The end whose stream ended first, and so closed the tunnel, had everything it
\* sent delivered before.  (The other direction has no such promise: end of stream
\* in one direction closes both.)
FinisherIsDelivered ==
    cause \in Direction => arrived[cause] = Channel!Stream(sent[cause])

\* What is sent arrives, unless the tunnel is closed.
SentArrives ==
    \A d \in Direction, n \in 1 .. Length :
        sent[d] >= n ~> Len(arrived[d]) >= n \/ ~open
=============================================================================
