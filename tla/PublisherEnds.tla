---------------------------- MODULE PublisherEnds ----------------------------
(***************************************************************************)
(* What the publisher promises about the two connections it holds for a    *)
(* tunnel, "out" to the broker and "in" to the published port, whatever    *)
(* the order in which its pipes and timers find them dead: the pair is     *)
(* made once, each connection closes once and for good, and the pair is    *)
(* forgotten when, and not before, both are closed.                        *)
(***************************************************************************)
CONSTANT Tunnel

VARIABLES
    made,              \* how far each tunnel got: "not", "half", "pair", "over"
    open               \* its connections that are open

publisherEnds == <<made, open>>

TypeOK ==
    /\ made \in [Tunnel -> {"not", "half", "pair", "over"}]
    /\ open \in [Tunnel -> SUBSET {"in", "out"}]

Init ==
    /\ made = [t \in Tunnel |-> "not"]
    /\ open = [t \in Tunnel |-> {}]

Become(t, m, S) ==
    /\ made' = [made EXCEPT ![t] = m]
    /\ open' = [open EXCEPT ![t] = S]

\* The broker was dialled, or it could not be.
Dial(t) ==
    /\ made[t] = "not"
    /\ Become(t, "half", {"out"}) \/ Become(t, "over", {})

\* The published port was dialled, or the dial to the broker was for nothing.
Complete(t) ==
    /\ made[t] = "half"
    /\ Become(t, "pair", {"in", "out"}) \/ Become(t, "over", {})

CloseEnd(t, e) ==
    /\ made[t] = "pair" /\ e \in open[t]
    /\ Become(t, "pair", open[t] \ {e})

Forget(t) ==
    /\ made[t] = "pair" /\ open[t] = {}
    /\ Become(t, "over", {})

\* The process ends, and its connections with it.
Die ==
    /\ made' = [t \in Tunnel |-> "over"]
    /\ open' = [t \in Tunnel |-> {}]

Next ==
    \/ \E t \in Tunnel :
          \/ Dial(t) \/ Complete(t) \/ Forget(t)
          \/ \E e \in {"in", "out"} : CloseEnd(t, e)
    \/ Die

Spec == Init /\ [][Next]_publisherEnds
=============================================================================
