---------------------------- MODULE MCCloseLocks ----------------------------
(* Instances of CloseLocks for TLC: the sides a and b of a tunnel, and c, a  *)
(* side that is not linked.                                                 *)
EXTENDS CloseLocks, TLC

CONSTANTS t1, t2, t3, t4, a, b, c

Peers == a :> b @@ b :> a @@ c :> None

\* Every call there is, but for the mirror images of two of them.
Running == <<<<"inactivity", a>>, <<"pipeEnd", a>>, <<"pipeEnd", b>>, <<"traffic", a>>,
             <<"inactivity", c>>, <<"connect", c>>>>

\* Any four of them at a time (threads are alike, so in one order only).
AnyFour ==
    {t1 :> Running[i] @@ t2 :> Running[j] @@ t3 :> Running[k] @@ t4 :> Running[l] :
        <<i, j, k, l>> \in {q \in (1 .. 6) \X (1 .. 6) \X (1 .. 6) \X (1 .. 6) :
                               q[1] < q[2] /\ q[2] < q[3] /\ q[3] < q[4]}}

\* Both sides of the tunnel close at the same time.
BothSides == {t1 :> <<"inactivity", a>> @@ t2 :> <<"pipeEnd", b>> @@ t3 :> <<"traffic", a>>
              @@ t4 :> <<"connect", c>>}

\* The timer of a side expires while a late dial turns that side away: the other
\* deadlock, which CloseLocksBothSides.cfg finds with this in the place of BothSides.
OneSide == {t1 :> <<"inactivity", c>> @@ t2 :> <<"connect", c>> @@ t3 :> <<"traffic", a>>
            @@ t4 :> <<"pipeEnd", a>>}
=============================================================================
