------------------------------- MODULE Tunnels -------------------------------
(***************************************************************************)
(* What a service of the broker promises about its tunnel sides, whatever  *)
(* the order in which sockets, timers and the publisher answer: a side is  *)
(* opened once, closed for good, and belongs to at most one tunnel, in     *)
(* which it is either the subscriber's side or the publisher's.            *)
(***************************************************************************)
CONSTANT Tunnel        \* identifiers of tunnel sides (uuids in the code)

VARIABLES
    side,              \* what became of each side
    pairs              \* the tunnels made so far: <<client side, publisher side>>

vars == <<side, pairs>>

TypeOK ==
    /\ side \in [Tunnel -> {"absent", "open", "closed"}]
    /\ pairs \subseteq Tunnel \X Tunnel

Paired(t) == \E u \in Tunnel : <<t, u>> \in pairs \/ <<u, t>> \in pairs

Init ==
    /\ side = [t \in Tunnel |-> "absent"]
    /\ pairs = {}

Open(t) ==
    /\ side[t] = "absent"
    /\ side' = [side EXCEPT ![t] = "open"]
    /\ UNCHANGED pairs

Close(S) ==
    /\ S # {}
    /\ \A t \in S : side[t] = "open"
    /\ side' = [t \in Tunnel |-> IF t \in S THEN "closed" ELSE side[t]]
    /\ UNCHANGED pairs

\* A side may already be closed when the tunnel is made: the registry is
\* looked up, not the sockets.
Pair(c, p) ==
    /\ c # p
    /\ ~Paired(c) /\ ~Paired(p)
    /\ side[c] # "absent" /\ side[p] # "absent"
    /\ pairs' = pairs \union {<<c, p>>}
    /\ UNCHANGED side

Next ==
    \/ \E t \in Tunnel : Open(t)
    \/ \E S \in SUBSET Tunnel : Close(S)
    \/ \E c, p \in Tunnel : Pair(c, p)

Spec == Init /\ [][Next]_vars
=============================================================================
