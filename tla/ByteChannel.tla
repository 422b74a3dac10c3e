----------------------------- MODULE ByteChannel -----------------------------
(***************************************************************************)
(* What a linked tunnel promises in each direction: what arrives is what    *)
(* was sent, from the first byte on, in order and without repetition; it    *)
(* may stop short when the tunnel is closed.                                *)
(***************************************************************************)
EXTENDS Naturals, Sequences

CONSTANTS Direction,
          Length         \* bound: bytes sent in a direction

VARIABLES sent,          \* number of bytes sent so far; the n-th byte is the number n
          arrived,       \* the bytes that arrived
          open

vars == <<sent, arrived, open>>

\* The first n bytes of the stream.
Stream(n) == [i \in 1 .. n |-> i]

TypeOK ==
    /\ sent \in [Direction -> 0 .. Length]
    /\ arrived \in [Direction -> Seq(1 .. Length)]
    /\ open \in BOOLEAN

Init ==
    /\ sent \in [Direction -> 0 .. Length]
    /\ arrived = [d \in Direction |-> <<>>]
    /\ open = TRUE

Send(d) ==
    /\ sent[d] < Length
    /\ sent' = [sent EXCEPT ![d] = @ + 1]
    /\ UNCHANGED <<arrived, open>>

Arrive(d) ==
    /\ open
    /\ \E n \in Len(arrived[d]) + 1 .. sent[d] : arrived' = [arrived EXCEPT ![d] = Stream(n)]
    /\ open' \in BOOLEAN       \* the write that fails may have delivered a part
    /\ UNCHANGED sent

Close ==
    /\ open
    /\ open' = FALSE
    /\ UNCHANGED <<sent, arrived>>

Next == Close \/ \E d \in Direction : Send(d) \/ Arrive(d)

Spec == Init /\ [][Next]_vars
=============================================================================
