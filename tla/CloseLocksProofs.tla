---------------------------- MODULE CloseLocksProofs ----------------------------
(***************************************************************************)
(* Proofs about CloseLocks, for any number of threads and sides and any     *)
(* handlers: however many close a side, the service is told of it once and  *)
(* only a side that connectTunnels itself closes is erased a second time;   *)
(* no timer outlives a side, and in the end nothing of it and no open       *)
(* partner is left behind.                                                  *)
(***************************************************************************)
EXTENDS CloseLocks, SequenceTheorems, TLAPS

Names == {"close", "inactivity", "pipeEnd", "traffic", "connect"}

Places == {"lock", "compare", "this", "other", "return", "check", "arm", "guard", "find",
           "unguard", "cancel", "test", "pipe", "reset", "unlock", "erase"}

\* A call on a stack; those that will close the other side have one.
Frames ==
    {f \in [call : Names, side : Side, at : Places] :
        f.call = "pipeEnd" \/ (f.call = "close" /\ f.at = "pipe") => Peer[f.side] \in Side}

\* The close of s that found it open, and has yet to erase it.
Committed(t, i, s) ==
    /\ i \in 1 .. Len(stack[t])
    /\ stack[t][i].call = "close"
    /\ stack[t][i].side = s
    /\ stack[t][i].at \in {"pipe", "reset", "unlock", "guard", "erase"}

Types ==
    /\ stack \in [Thread -> Seq(Frames)]
    /\ told \in [Side -> Nat]
    /\ \A s \in piped : Peer[s] \in Side
    /\ closed \subseteq Side

\* An open side was not erased and no close of it is past the test; one close at most
\* ever is, and none once it has erased.
OneCommits ==
    \A s \in Side :
        /\ s \notin closed =>
              told[s] = 0 /\ \A t \in Thread : \A i \in Nat : ~Committed(t, i, s)
        /\ \A t, u \in Thread : \A i, j \in Nat :
              Committed(t, i, s) /\ Committed(u, j, s) => t = u /\ i = j
        /\ told[s] <= 1
        /\ told[s] = 1 => \A t \in Thread : \A i \in Nat : ~Committed(t, i, s)

Inv == Types /\ OneCommits

-----------------------------------------------------------------------------
(* What a step does to a stack                                              *)

LEMMA Top ==
    ASSUME Types, NEW t \in Thread, stack[t] # <<>>
    PROVE  /\ Len(stack[t]) \in Nat \ {0} /\ stack[t] \in Seq(Frames)
           /\ stack[t][Len(stack[t])] \in Frames
           /\ Of(t) \in Side
<1>1. stack[t] \in Seq(Frames)
  BY DEF Types
<1>2. Len(stack[t]) \in Nat \ {0}
  BY <1>1, EmptySeq
<1>3. stack[t][Len(stack[t])] \in Frames
  BY <1>1, <1>2
<1>4. QED
  BY <1>1, <1>2, <1>3 DEF Of, Frames

\* The call on top goes on.
LEMMA GotoShape ==
    ASSUME Types, NEW t \in Thread, stack[t] # <<>>, NEW at \in Places, Goto(t, at),
           stack[t][Len(stack[t])].call = "close" /\ at = "pipe" => Peer[Of(t)] \in Side
    PROVE  /\ stack' \in [Thread -> Seq(Frames)]
           /\ \A u \in Thread \ {t} : stack'[u] = stack[u]
           /\ Len(stack'[t]) = Len(stack[t])
           /\ \A i \in 1 .. Len(stack[t]) - 1 : stack'[t][i] = stack[t][i]
           /\ stack'[t][Len(stack[t])] = [stack[t][Len(stack[t])] EXCEPT !.at = at]
<1> DEFINE n == Len(stack[t])
<1> DEFINE f == [stack[t][n] EXCEPT !.at = at]
<1> DEFINE q == [stack[t] EXCEPT ![n] = f]
<1>1. n \in Nat \ {0} /\ stack[t] \in Seq(Frames) /\ stack[t][n] \in Frames
  BY Top
<1>2. f \in Frames
  BY <1>1 DEF Frames, Of
<1>3. stack' = [stack EXCEPT ![t] = q]
  BY DEF Goto
<1> HIDE DEF f
<1>4. q \in Seq(Frames) /\ Len(q) = n /\ q[n] = f /\ \A i \in 1 .. n - 1 : q[i] = stack[t][i]
  BY <1>1, <1>2
<1> HIDE DEF q
<1>5. QED
  BY <1>3, <1>4 DEF Types, f

\* The call on top returns.
LEMMA ReturnShape ==
    ASSUME Types, NEW t \in Thread, stack[t] # <<>>, Return(t)
    PROVE  /\ stack' \in [Thread -> Seq(Frames)]
           /\ \A u \in Thread \ {t} : stack'[u] = stack[u]
           /\ Len(stack'[t]) = Len(stack[t]) - 1
           /\ \A i \in 1 .. Len(stack[t]) - 1 : stack'[t][i] = stack[t][i]
<1> DEFINE n == Len(stack[t])
<1> DEFINE q == SubSeq(stack[t], 1, n - 1)
<1>1. n \in Nat \ {0} /\ stack[t] \in Seq(Frames)
  BY Top
<1>2. stack' = [stack EXCEPT ![t] = q]
  BY DEF Return
<1>3. q \in Seq(Frames) /\ Len(q) = n - 1 /\ \A i \in 1 .. n - 1 : q[i] = stack[t][i]
  BY <1>1
<1> HIDE DEF q
<1>4. QED
  BY <1>2, <1>3 DEF Types

\* The call on top calls close() of a side.
LEMMA CallShape ==
    ASSUME Types, NEW t \in Thread, stack[t] # <<>>, NEW s \in Side, NEW at \in Places,
           at # "pipe", CallClose(t, s, at)
    PROVE  /\ stack' \in [Thread -> Seq(Frames)]
           /\ \A u \in Thread \ {t} : stack'[u] = stack[u]
           /\ Len(stack'[t]) = Len(stack[t]) + 1
           /\ \A i \in 1 .. Len(stack[t]) - 1 : stack'[t][i] = stack[t][i]
           /\ stack'[t][Len(stack[t])] = [stack[t][Len(stack[t])] EXCEPT !.at = at]
           /\ stack'[t][Len(stack[t]) + 1] = [call |-> "close", side |-> s, at |-> "cancel"]
<1> DEFINE n == Len(stack[t])
<1> DEFINE f == [stack[t][n] EXCEPT !.at = at]
<1> DEFINE g == [call |-> "close", side |-> s, at |-> "cancel"]
<1> DEFINE p == [stack[t] EXCEPT ![n] = f]
<1> DEFINE q == Append(p, g)
<1>1. n \in Nat \ {0} /\ stack[t] \in Seq(Frames) /\ stack[t][n] \in Frames
  BY Top
<1>2. f \in Frames /\ g \in Frames
  <2>1. f \in Frames
    BY <1>1 DEF Frames
  <2>2. g \in [call : Names, side : Side, at : Places]
    BY DEF Names, Places
  <2>3. g.call # "pipeEnd" /\ g.at # "pipe"
    OBVIOUS
  <2> HIDE DEF g
  <2>4. QED
    BY <2>1, <2>2, <2>3 DEF Frames
<1>3. stack' = [stack EXCEPT ![t] = q]
  BY DEF CallClose
<1> HIDE DEF f, g
<1>4. p \in Seq(Frames) /\ Len(p) = n /\ p[n] = f /\ \A i \in 1 .. n - 1 : p[i] = stack[t][i]
  BY <1>1, <1>2
<1> HIDE DEF p
<1>5. /\ q \in Seq(Frames) /\ Len(q) = n + 1 /\ q[n] = f /\ q[n + 1] = g
      /\ \A i \in 1 .. n - 1 : q[i] = stack[t][i]
  BY <1>1, <1>2, <1>4
<1> HIDE DEF q
<1>6. QED
  BY <1>3, <1>5 DEF Types, f, g

-----------------------------------------------------------------------------
(* Steps that commit nobody                                                 *)

LEMMA QuietStep ==
    ASSUME Inv, Types', UNCHANGED told, closed \subseteq closed',
           \A u \in Thread : \A i \in Nat : \A s \in Side : Committed(u, i, s)' => Committed(u, i, s)
    PROVE  Inv'
BY DEF Inv, OneCommits

LEMMA ReturnCommits ==
    ASSUME Types, NEW t \in Thread, stack[t] # <<>>, Return(t), NEW u \in Thread, NEW i \in Nat,
           NEW s \in Side, Committed(u, i, s)'
    PROVE  Committed(u, i, s) /\ (u = t => i # Len(stack[t]))
<1>1. Len(stack[t]) \in Nat \ {0}
  BY Top
<1>2. CASE u # t
  BY <1>2, ReturnShape DEF Committed
<1>3. CASE u = t
  <2>1. i \in 1 .. Len(stack[t]) - 1
    BY <1>1, <1>3, ReturnShape DEF Committed
  <2>2. stack'[t][i] = stack[t][i]
    BY <2>1, ReturnShape
  <2>3. QED
    BY <1>1, <1>3, <2>1, <2>2 DEF Committed
<1>4. QED
  BY <1>2, <1>3

\* Another frame than the top one stays, and so does the call of the top one.
LEMMA MoveShape ==
    ASSUME Types, NEW t \in Thread, stack[t] # <<>>, NEW at \in Places,
           \/ /\ Goto(t, at)
              /\ stack[t][Len(stack[t])].call = "close" /\ at = "pipe" => Peer[Of(t)] \in Side
           \/ at # "pipe" /\ \E r \in Side : CallClose(t, r, at)
    PROVE  /\ \A v \in Thread \ {t} : stack'[v] = stack[v]
           /\ \A k \in 1 .. Len(stack[t]) - 1 : stack'[t][k] = stack[t][k]
           /\ stack'[t][Len(stack[t])].call = stack[t][Len(stack[t])].call
           /\ stack'[t][Len(stack[t])].side = stack[t][Len(stack[t])].side
           /\ stack'[t][Len(stack[t])].at = at
           /\ \/ Len(stack'[t]) = Len(stack[t])
              \/ /\ Len(stack'[t]) = Len(stack[t]) + 1
                 /\ stack'[t][Len(stack[t]) + 1].at = "cancel"
<1> DEFINE n == Len(stack[t])
<1>1. n \in Nat \ {0} /\ stack[t][n] \in Frames
  BY Top
<1>2. /\ \A v \in Thread \ {t} : stack'[v] = stack[v]
      /\ \A k \in 1 .. n - 1 : stack'[t][k] = stack[t][k]
      /\ stack'[t][n] = [stack[t][n] EXCEPT !.at = at]
      /\ \/ Len(stack'[t]) = n
         \/ Len(stack'[t]) = n + 1 /\ stack'[t][n + 1].at = "cancel"
  <2>1. CASE Goto(t, at) /\ (stack[t][n].call = "close" /\ at = "pipe" => Peer[Of(t)] \in Side)
    BY <2>1, GotoShape
  <2>2. ASSUME NEW r \in Side, at # "pipe", CallClose(t, r, at)
        PROVE  <1>2!:
    <3>1. /\ stack' \in [Thread -> Seq(Frames)]
          /\ \A v \in Thread \ {t} : stack'[v] = stack[v]
          /\ Len(stack'[t]) = Len(stack[t]) + 1
          /\ \A k \in 1 .. Len(stack[t]) - 1 : stack'[t][k] = stack[t][k]
          /\ stack'[t][Len(stack[t])] = [stack[t][Len(stack[t])] EXCEPT !.at = at]
          /\ stack'[t][Len(stack[t]) + 1] = [call |-> "close", side |-> r, at |-> "cancel"]
      BY <2>2, CallShape, Zenon
    <3>2. stack'[t][n + 1].at = "cancel"
      BY <3>1
    <3>3. QED
      BY <3>1, <3>2, Zenon
  <2>3. QED
    BY <2>1, <2>2
<1>3. /\ stack'[t][n].call = stack[t][n].call /\ stack'[t][n].side = stack[t][n].side
      /\ stack'[t][n].at = at
  BY <1>1, <1>2 DEF Frames
<1>4. QED
  BY <1>2, <1>3

\* A call on top that goes on, or calls, is committed only if it was or if it is a
\* close that gets past the test.
LEMMA GoesOn ==
    ASSUME Types, NEW t \in Thread, stack[t] # <<>>, NEW at \in Places,
           \/ /\ Goto(t, at)
              /\ stack[t][Len(stack[t])].call = "close" /\ at = "pipe" => Peer[Of(t)] \in Side
           \/ at # "pipe" /\ \E r \in Side : CallClose(t, r, at),
           NEW u \in Thread, NEW i \in Nat, NEW s \in Side, Committed(u, i, s)'
    PROVE  \/ Committed(u, i, s) /\ ~(u = t /\ i = Len(stack[t]))
           \/ /\ u = t /\ i = Len(stack[t]) /\ s = Of(t)
              /\ stack[t][Len(stack[t])].call = "close"
              /\ at \in {"pipe", "reset", "unlock", "guard", "erase"}
<1> DEFINE n == Len(stack[t])
<1>1. n \in Nat \ {0} /\ stack[t][n] \in Frames
  BY Top
<1>2. /\ \A v \in Thread \ {t} : stack'[v] = stack[v]
      /\ \A k \in 1 .. n - 1 : stack'[t][k] = stack[t][k]
      /\ stack'[t][n].call = stack[t][n].call /\ stack'[t][n].side = stack[t][n].side
      /\ stack'[t][n].at = at
      /\ \/ Len(stack'[t]) = n
         \/ Len(stack'[t]) = n + 1 /\ stack'[t][n + 1].at = "cancel"
  BY MoveShape
<1>3. CASE u # t
  BY <1>2, <1>3 DEF Committed
<1>4. CASE u = t /\ i < n
  <2>1. i \in 1 .. n - 1 /\ i \in 1 .. n
    BY <1>1, <1>4 DEF Committed
  <2>2. QED
    BY <1>1, <1>2, <1>4, <2>1 DEF Committed
<1>5. CASE u = t /\ i = n
  BY <1>2, <1>5 DEF Committed, Of
<1>6. CASE u = t /\ i > n
  <2>1. i = n + 1 /\ stack'[t][n + 1].at = "cancel"
    BY <1>1, <1>2, <1>6 DEF Committed
  <2>2. QED
    BY <1>6, <2>1 DEF Committed
<1>7. QED
  BY <1>1, <1>3, <1>4, <1>5, <1>6

Late == {"pipe", "reset", "unlock", "guard", "erase"}

\* The call on top goes on or calls; a close does not get past the test by that.
LEMMA MoveStep ==
    ASSUME Inv, NEW t \in Thread, stack[t] # <<>>, NEW at \in Places,
           \/ /\ Goto(t, at)
              /\ stack[t][Len(stack[t])].call = "close" /\ at = "pipe" => Peer[Of(t)] \in Side
           \/ at # "pipe" /\ \E r \in Side : CallClose(t, r, at),
           stack[t][Len(stack[t])].call = "close" /\ at \in Late => stack[t][Len(stack[t])].at \in Late,
           UNCHANGED <<closed, told>>, piped' \subseteq piped
    PROVE  Inv'
<1>1. Types
  BY DEF Inv
<1>2. stack' \in [Thread -> Seq(Frames)]
  <2>1. CASE \E r \in Side : at # "pipe" /\ CallClose(t, r, at)
    BY <1>1, <2>1, CallShape
  <2>2. CASE Goto(t, at) /\ (stack[t][Len(stack[t])].call = "close" /\ at = "pipe" => Peer[Of(t)] \in Side)
    BY <1>1, <2>2, GotoShape
  <2>3. QED
    BY <2>1, <2>2
<1>3. Types'
  BY <1>1, <1>2 DEF Types
<1>4. ASSUME NEW u \in Thread, NEW i \in Nat, NEW s \in Side, Committed(u, i, s)'
      PROVE  Committed(u, i, s)
  <2>1. CASE u = t /\ i = Len(stack[t]) /\ s = Of(t) /\ stack[t][Len(stack[t])].call = "close" /\ at \in Late
    <3>1. Len(stack[t]) \in Nat \ {0}
      BY <1>1, Top
    <3>2. QED
      BY <2>1, <3>1 DEF Committed, Late, Of
  <2>2. QED
    BY <1>1, <1>4, <2>1, GoesOn DEF Late
<1>5. QED
  BY <1>3, <1>4, QuietStep

LEMMA ReturnStep ==
    ASSUME Inv, NEW t \in Thread, stack[t] # <<>>, Return(t), UNCHANGED <<closed, told, piped>>
    PROVE  Inv'
<1>1. Types /\ Types'
  BY ReturnShape DEF Inv, Types
<1>2. QED
  BY <1>1, ReturnCommits, QuietStep

\* The close that finds the side open is the one.
LEMMA CommitStep ==
    ASSUME Inv, NEW t \in Thread, At(t, "close", "test"), Of(t) \notin closed,
           closed' = closed \union {Of(t)}, Goto(t, IF Of(t) \in piped THEN "pipe" ELSE "unlock"),
           UNCHANGED <<told, piped>>
    PROVE  Inv'
<1> DEFINE n == Len(stack[t])
<1>1. Types /\ stack[t] # <<>> /\ Of(t) \in Side
  BY Top DEF Inv, At
<1>2. PICK at \in {"pipe", "unlock"} : Goto(t, at) /\ (at = "pipe" => Peer[Of(t)] \in Side)
  BY <1>1 DEF Types
<1>3. at \in Places
  BY <1>2 DEF Places
<1>4. Types'
  BY <1>1, <1>2, <1>3, GotoShape DEF Types
<1>5. ASSUME NEW u \in Thread, NEW i \in Nat, NEW s \in Side, Committed(u, i, s)'
      PROVE  \/ Committed(u, i, s) \/ (u = t /\ i = n /\ s = Of(t))
  BY <1>1, <1>2, <1>3, <1>5, GoesOn
<1>6. told[Of(t)] = 0 /\ \A u \in Thread : \A i \in Nat : ~Committed(u, i, Of(t))
  BY <1>1 DEF Inv, OneCommits
<1>7. OneCommits'
  <2> SUFFICES ASSUME NEW s \in Side
               PROVE  /\ s \notin closed' =>
                            told'[s] = 0 /\ \A u \in Thread : \A i \in Nat : ~Committed(u, i, s)'
                      /\ \A u, v \in Thread : \A i, j \in Nat :
                            Committed(u, i, s)' /\ Committed(v, j, s)' => u = v /\ i = j
                      /\ told'[s] <= 1
                      /\ told'[s] = 1 => \A u \in Thread : \A i \in Nat : ~Committed(u, i, s)'
    BY DEF OneCommits
  <2>1. CASE s = Of(t)
    BY <1>5, <1>6, <2>1
  <2>2. CASE s # Of(t)
    <3>1. \A u \in Thread : \A i \in Nat : Committed(u, i, s)' => Committed(u, i, s)
      BY <1>5, <2>2
    <3>2. QED
      BY <2>2, <3>1 DEF Inv, OneCommits
  <2>3. QED
    BY <2>1, <2>2
<1>8. QED
  BY <1>4, <1>7 DEF Inv

\* It erases, and returns.
LEMMA EraseStep ==
    ASSUME Inv, NEW t \in Thread, EraseSide(t)
    PROVE  Inv'
<1>1. /\ At(t, "close", "erase") /\ stack[t] # <<>> /\ Return(t)
      /\ told' = [told EXCEPT ![Of(t)] = @ + 1] /\ UNCHANGED <<closed, piped>>
  BY DEF EraseSide, At
<1>2. Types /\ Of(t) \in Side /\ Len(stack[t]) \in Nat \ {0}
  BY <1>1, Top DEF Inv
<1> PICK r \in Side : r = Of(t)
  BY <1>2
<1> PICK n \in Nat : n = Len(stack[t])
  BY <1>2
<1>3. Committed(t, n, r)
  BY <1>1, <1>2 DEF At, Committed, Of
<1>4. r \in closed /\ told[r] = 0
  BY <1>3 DEF Inv, OneCommits, Types
<1>5. /\ told' \in [Side -> Nat] /\ told'[r] = 1
      /\ \A s \in Side \ {r} : told'[s] = told[s]
  BY <1>1, <1>2, <1>4 DEF Types
<1>6. Types'
  BY <1>1, <1>2, <1>5, ReturnShape DEF Types
<1>7. ASSUME NEW u \in Thread, NEW i \in Nat, NEW s \in Side, Committed(u, i, s)'
      PROVE  Committed(u, i, s) /\ ~(u = t /\ i = n)
  BY <1>1, <1>2, <1>7, ReturnCommits
<1>8. ASSUME NEW u \in Thread, NEW i \in Nat, Committed(u, i, r)'
      PROVE  FALSE
  <2>1. Committed(u, i, r) /\ ~(u = t /\ i = n)
    BY <1>7, <1>8
  <2>2. QED
    BY <1>3, <2>1 DEF Inv, OneCommits
<1>9. OneCommits'
  <2> SUFFICES ASSUME NEW s \in Side
               PROVE  /\ s \notin closed' =>
                            told'[s] = 0 /\ \A u \in Thread : \A i \in Nat : ~Committed(u, i, s)'
                      /\ \A u, v \in Thread : \A i, j \in Nat :
                            Committed(u, i, s)' /\ Committed(v, j, s)' => u = v /\ i = j
                      /\ told'[s] <= 1
                      /\ told'[s] = 1 => \A u \in Thread : \A i \in Nat : ~Committed(u, i, s)'
    BY DEF OneCommits
  <2>1. CASE s = r
    <3>1. \A u \in Thread : \A i \in Nat : ~Committed(u, i, s)'
      BY <1>8, <2>1
    <3>2. s \in closed' /\ told'[s] = 1
      BY <1>1, <1>4, <1>5, <2>1
    <3>3. QED
      BY <3>1, <3>2
  <2>2. CASE s # r
    <3>1. told'[s] = told[s] /\ closed' = closed
      BY <1>1, <1>5, <2>2
    <3>2. \A u \in Thread : \A i \in Nat : Committed(u, i, s)' => Committed(u, i, s)
      BY <1>7
    <3>3. QED
      BY <3>1, <3>2 DEF Inv, OneCommits
  <2>3. QED
    BY <2>1, <2>2
<1>10. QED
  BY <1>6, <1>9 DEF Inv

-----------------------------------------------------------------------------
(* Every step                                                               *)

LEMMA CloseStep ==
    ASSUME Inv, NEW t \in Thread,
           \/ CancelTimer(t) \/ LockSide(t) \/ TestClosed(t) \/ ClosePipe(t) \/ ResetPipe(t)
           \/ UnlockSide(t) \/ LockGuard(t) \/ EraseSide(t)
    PROVE  Inv'
<1>1. Types /\ (stack[t] # <<>> => Of(t) \in Side /\ stack[t][Len(stack[t])] \in Frames)
  BY Top DEF Inv
<1>2. CASE CancelTimer(t)
  BY <1>2, MoveStep DEF CancelTimer, record, At, Places, Late
<1>3. CASE LockSide(t)
  BY <1>3, MoveStep DEF LockSide, record, At, Places, Late
<1>4. CASE TestClosed(t)
  <2>1. CASE Of(t) \in closed
    BY <1>4, <2>1, ReturnStep DEF TestClosed, At, timers
  <2>2. CASE Of(t) \notin closed
    BY <1>4, <2>2, CommitStep DEF TestClosed, timers
  <2>3. QED
    BY <2>1, <2>2
<1>5. CASE ClosePipe(t)
  <2>1. Peer[Of(t)] \in Side
    BY <1>1, <1>5 DEF ClosePipe, record, At, Frames, Of
  <2>2. QED
    BY <1>5, <2>1, MoveStep DEF ClosePipe, record, At, Places, Late
<1>6. CASE ResetPipe(t)
  BY <1>6, MoveStep DEF ResetPipe, record, At, Places, Late
<1>7. CASE UnlockSide(t)
  BY <1>7, MoveStep DEF UnlockSide, record, At, Places, Late
<1>8. CASE LockGuard(t)
  BY <1>8, MoveStep DEF LockGuard, record, At, Places, Late
<1>9. QED
  BY <1>2, <1>3, <1>4, <1>5, <1>6, <1>7, <1>8, EraseStep

LEMMA CallerStep ==
    ASSUME Inv, NEW t \in Thread, Inactivity(t) \/ PipeEnd(t) \/ Traffic(t) \/ Connect(t)
    PROVE  Inv'
<1>1. Types /\ (stack[t] # <<>> => Of(t) \in Side /\ stack[t][Len(stack[t])] \in Frames)
  BY Top DEF Inv
<1>2. CASE Inactivity(t)
  <2>1. CASE At(t, "inactivity", "lock") /\ Goto(t, "compare")
    BY <1>2, <2>1, MoveStep DEF Inactivity, record, At, Places, Late
  <2>2. CASE At(t, "inactivity", "compare") /\ Goto(t, "unlock")
    BY <1>2, <2>2, MoveStep DEF Inactivity, record, At, Places, Late
  <2>3. CASE At(t, "inactivity", "compare") /\ CallClose(t, Of(t), "unlock")
    BY <1>1, <1>2, <2>3, MoveStep DEF Inactivity, record, At, Places, Late
  <2>4. CASE At(t, "inactivity", "unlock") /\ Return(t)
    BY <1>2, <2>4, ReturnStep DEF Inactivity, record, At
  <2>5. QED
    BY <1>2, <2>1, <2>2, <2>3, <2>4 DEF Inactivity
<1>3. CASE PipeEnd(t)
  <2>1. CASE At(t, "pipeEnd", "this") /\ CallClose(t, Of(t), "other")
    BY <1>1, <1>3, <2>1, MoveStep DEF PipeEnd, record, At, Places, Late
  <2>2. CASE At(t, "pipeEnd", "other") /\ CallClose(t, Peer[Of(t)], "return")
    <3>1. Peer[Of(t)] \in Side
      BY <1>1, <2>2 DEF At, Frames, Of
    <3>2. QED
      BY <1>3, <2>2, <3>1, MoveStep DEF PipeEnd, record, At, Places, Late
  <2>3. CASE At(t, "pipeEnd", "return") /\ Return(t)
    BY <1>3, <2>3, ReturnStep DEF PipeEnd, record, At
  <2>4. QED
    BY <1>3, <2>1, <2>2, <2>3 DEF PipeEnd
<1>4. CASE Traffic(t)
  <2>1. CASE At(t, "traffic", "check") /\ Goto(t, "arm")
    BY <1>4, <2>1, MoveStep DEF Traffic, record, At, Places, Late
  <2>2. CASE stack[t] # <<>> /\ Return(t)
    BY <1>4, <2>2, ReturnStep DEF Traffic, record
  <2>3. QED
    BY <1>4, <2>1, <2>2 DEF Traffic, record, At
<1>5. CASE Connect(t)
  <2>1. CASE At(t, "connect", "guard") /\ Goto(t, "find")
    BY <1>5, <2>1, MoveStep DEF Connect, record, At, Places, Late
  <2>2. CASE At(t, "connect", "find") /\ CallClose(t, Of(t), "erase")
    BY <1>1, <1>5, <2>2, MoveStep DEF Connect, record, At, Places, Late
  <2>3. CASE At(t, "connect", "find") /\ Goto(t, "unguard")
    BY <1>5, <2>3, MoveStep DEF Connect, record, At, Places, Late
  <2>4. CASE At(t, "connect", "erase") /\ Goto(t, "unguard")
    BY <1>5, <2>4, MoveStep DEF Connect, EraseFound, At, Places, Late
  <2>5. CASE At(t, "connect", "unguard") /\ Return(t)
    BY <1>5, <2>5, ReturnStep DEF Connect, record, At
  <2>6. QED
    BY <1>5, <2>1, <2>2, <2>3, <2>4, <2>5 DEF Connect
<1>6. QED
  BY <1>2, <1>3, <1>4, <1>5

LEMMA InitInv == Init => Inv
<1> SUFFICES ASSUME Init
             PROVE  Inv
  OBVIOUS
<1> DEFINE frame(t) == [call |-> handler[t][1], side |-> handler[t][2], at |-> Enter[handler[t][1]]]
<1>0. handler \in Handlers
  BY DEF Init
<1>1. ASSUME NEW t \in Thread
      PROVE  frame(t) \in Frames /\ frame(t).call # "close"
  <2>1. PICK c \in {"inactivity", "pipeEnd", "traffic", "connect"}, s \in Side : handler[t] = <<c, s>>
    BY <1>0, CloseLocksAssumption DEF Calls
  <2>2. Enter[c] \in Places
    BY DEF Enter, Places
  <2>3. c = "pipeEnd" => Peer[s] \in Side
    BY <1>0, <2>1, CloseLocksAssumption
  <2>4. QED
    BY <2>1, <2>2, <2>3 DEF Frames, Names
<1> HIDE DEF frame
<1>2. stack = [t \in Thread |-> <<frame(t)>>]
  BY DEF Init, frame
<1>3. stack \in [Thread -> Seq(Frames)]
  BY <1>1, <1>2
<1>4. \A t \in Thread : \A i \in Nat : \A s \in Side : ~Committed(t, i, s)
  BY <1>1, <1>2 DEF Committed
<1>5. \A s \in piped : Peer[s] \in Side
  BY CloseLocksAssumption DEF Init
<1>6. QED
  BY <1>3, <1>4, <1>5 DEF Init, Inv, Types, OneCommits

LEMMA NextInv == Inv /\ [Next]_vars => Inv'
<1> SUFFICES ASSUME Inv, [Next]_vars
             PROVE  Inv'
  OBVIOUS
<1>1. CASE UNCHANGED vars
  BY <1>1 DEF vars, Inv, Types, OneCommits, Committed
<1>2. CASE Next
  BY <1>2, CloseStep, CallerStep DEF Next, Step
<1>3. QED
  BY <1>1, <1>2

-----------------------------------------------------------------------------
(* What a close that is through leaves behind                               *)

Apart(s) == s \notin piped /\ Peer[s] \in closed \union {None}

Below(t, i, s) ==
    i < Len(stack[t]) /\ stack[t][i + 1].call = "close" /\ stack[t][i + 1].side = Peer[s]

\* A closed side was erased, or its close is still on a stack; a close that is through
\* with its pipe has left the side without one and the other side closed, which
\* is what the call above the one in "reset" does.
Leaves(s) ==
    /\ s \in closed => told[s] = 1 \/ \E t \in Thread : \E i \in Nat : Committed(t, i, s)
    /\ told[s] = 1 => s \notin sessions /\ Apart(s)
    /\ s \in piped \/ s \in closed \/ Peer[s] = None
    /\ \A t \in Thread : \A i \in Nat :
          /\ Committed(t, i, s) /\ stack[t][i].at \in {"unlock", "guard", "erase"} => Apart(s)
          /\ Committed(t, i, s) /\ stack[t][i].at = "reset" =>
                Peer[s] \in closed \/ Below(t, i, s)

CloseInv == Inv /\ \A s \in Side : Leaves(s)

\* A frame below the top outlives a step, whether the top goes on, calls or returns.
LEMMA MoveLeaves ==
    ASSUME CloseInv, NEW t \in Thread, stack[t] # <<>>, NEW at \in Places,
           \/ /\ Goto(t, at)
              /\ stack[t][Len(stack[t])].call = "close" /\ at = "pipe" => Peer[Of(t)] \in Side
           \/ at # "pipe" /\ \E r \in Side : CallClose(t, r, at),
           stack[t][Len(stack[t])].call = "close" =>
              /\ stack[t][Len(stack[t])].at \in Late => at \in Late
              /\ at \in {"unlock", "guard", "erase"} =>
                    Of(t) \notin piped' /\ Peer[Of(t)] \in closed' \union {None}
              /\ at = "reset" =>
                    /\ Len(stack'[t]) = Len(stack[t]) + 1
                    /\ stack'[t][Len(stack[t]) + 1].call = "close"
                    /\ stack'[t][Len(stack[t]) + 1].side = Peer[Of(t)],
           sessions' \subseteq sessions, UNCHANGED told,
           \/ closed' = closed
           \/ /\ closed' = closed \union {Of(t)}
              /\ stack[t][Len(stack[t])].call = "close" /\ at \in Late,
           piped' = piped \/ (Of(t) \in closed /\ piped' = piped \ {Of(t)}),
           NEW s \in Side
    PROVE  Leaves(s)'
<1> PICK n \in Nat : n = Len(stack[t])
  BY Top DEF CloseInv, Inv
<1> PICK z \in Side : z = Of(t)
  BY Top DEF CloseInv, Inv
<1>1. /\ \A v \in Thread \ {t} : stack'[v] = stack[v]
      /\ \A k \in 1 .. n - 1 : stack'[t][k] = stack[t][k]
      /\ stack'[t][n].call = stack[t][n].call /\ stack'[t][n].side = stack[t][n].side
      /\ stack'[t][n].at = at /\ stack[t][n].side = z
      /\ Len(stack'[t]) \in Nat /\ Len(stack'[t]) >= n /\ n >= 1
  <2>1. n >= 1
    BY Top DEF CloseInv, Inv
  <2>2. QED
    BY <2>1, MoveShape DEF CloseInv, Inv, Of
<1>2. ASSUME NEW u \in Thread, NEW i \in Nat, Committed(u, i, s)
      PROVE  Committed(u, i, s)'
  <2>1. CASE u # t
    BY <1>1, <1>2, <2>1 DEF Committed
  <2>2. CASE u = t /\ i \in 1 .. n - 1
    BY <1>1, <1>2, <2>2 DEF Committed
  <2>3. CASE u = t /\ i = n
    BY <1>1, <1>2, <2>3 DEF Committed, Late
  <2>4. QED
    BY <1>1, <1>2, <2>1, <2>2, <2>3 DEF Committed
<1>3. ASSUME NEW u \in Thread, NEW i \in Nat, Committed(u, i, s)'
      PROVE  \/ /\ Committed(u, i, s) /\ ~(u = t /\ i = n)
                /\ stack'[u][i] = stack[u][i]
             \/ /\ u = t /\ i = n /\ s = z /\ stack[t][n].call = "close"
  <2>1. \/ Committed(u, i, s) /\ ~(u = t /\ i = n)
        \/ u = t /\ i = n /\ s = z /\ stack[t][n].call = "close"
    BY <1>3, GoesOn DEF CloseInv, Inv
  <2>2. ASSUME Committed(u, i, s), ~(u = t /\ i = n)
        PROVE  stack'[u][i] = stack[u][i]
    BY <1>1, <2>2 DEF Committed
  <2>3. QED
    BY <2>1, <2>2
<1>4. Apart(s) => Apart(s)'
  BY DEF Apart
<1>5. ASSUME NEW u \in Thread, NEW i \in Nat, Committed(u, i, s)',
             stack'[u][i].at \in {"unlock", "guard", "erase"}
      PROVE  Apart(s)'
  <2>1. CASE Committed(u, i, s) /\ ~(u = t /\ i = n) /\ stack'[u][i] = stack[u][i]
    BY <1>4, <1>5, <2>1 DEF CloseInv, Leaves
  <2>2. CASE u = t /\ i = n /\ s = z /\ stack[t][n].call = "close"
    BY <1>1, <1>5, <2>2 DEF Apart
  <2>3. QED
    BY <1>3, <1>5, <2>1, <2>2
<1>6. ASSUME NEW u \in Thread, NEW i \in Nat, Committed(u, i, s)', stack'[u][i].at = "reset"
      PROVE  Peer[s] \in closed' \/ Below(u, i, s)'
  <2>1. CASE Committed(u, i, s) /\ ~(u = t /\ i = n) /\ stack'[u][i] = stack[u][i]
    <3>1. Peer[s] \in closed \/ Below(u, i, s)
      BY <1>6, <2>1 DEF CloseInv, Leaves
    <3>2. CASE u # t
      BY <1>1, <3>1, <3>2 DEF Below
    <3>3. CASE u = t /\ Below(u, i, s)
      <4>1. i + 1 <= n /\ i + 1 \in Nat
        BY <3>3 DEF Below
      <4>2. stack'[t][i + 1].call = stack[t][i + 1].call /\ stack'[t][i + 1].side = stack[t][i + 1].side
        BY <1>1, <4>1
      <4>3. QED
        BY <1>1, <3>3, <4>1, <4>2 DEF Below
    <3>4. QED
      BY <3>1, <3>2, <3>3
  <2>2. CASE u = t /\ i = n /\ s = z /\ stack[t][n].call = "close"
    BY <1>1, <1>6, <2>2 DEF Below
  <2>3. QED
    BY <1>3, <1>6, <2>1, <2>2
<1>7. s \in closed' => told'[s] = 1 \/ \E u \in Thread : \E i \in Nat : Committed(u, i, s)'
  <2>1. CASE s \in closed
    BY <1>2, <2>1 DEF CloseInv, Leaves
  <2>2. CASE s = z /\ stack[t][n].call = "close" /\ at \in Late
    <3>1. Committed(t, n, s)'
      BY <1>1, <2>2 DEF Committed, Late
    <3>2. QED
      BY <3>1
  <2>3. QED
    BY <2>1, <2>2
<1>8. told'[s] = 1 => s \notin sessions' /\ Apart(s)'
  BY <1>4 DEF CloseInv, Leaves
<1>9. s \in piped' \/ s \in closed' \/ Peer[s] = None
  BY DEF CloseInv, Leaves
<1>10. QED
  BY <1>5, <1>6, <1>7, <1>8, <1>9 DEF Leaves

LEMMA ReturnLeaves ==
    ASSUME CloseInv, NEW t \in Thread, stack[t] # <<>>, Return(t),
           UNCHANGED <<closed, piped>>, sessions' \subseteq sessions,
           stack[t][Len(stack[t])].call = "close" => Of(t) \in closed,
           Committed(t, Len(stack[t]), Of(t)) =>
              /\ stack[t][Len(stack[t])].at = "erase"
              /\ told'[Of(t)] = 1 /\ Of(t) \notin sessions',
           NEW s \in Side,
           (Committed(t, Len(stack[t]), Of(t)) /\ s = Of(t)) \/ told'[s] = told[s]
    PROVE  Leaves(s)'
<1> PICK n \in Nat : n = Len(stack[t])
  BY Top DEF CloseInv, Inv
<1> PICK z \in Side : z = Of(t)
  BY Top DEF CloseInv, Inv
<1>1. /\ \A v \in Thread \ {t} : stack'[v] = stack[v]
      /\ \A k \in 1 .. n - 1 : stack'[t][k] = stack[t][k]
      /\ Len(stack'[t]) = n - 1 /\ stack[t][n].side = z /\ n >= 1
  BY Top, ReturnShape DEF CloseInv, Inv, Of
<1>2. ASSUME NEW u \in Thread, NEW i \in Nat, Committed(u, i, s), ~(u = t /\ i = n)
      PROVE  Committed(u, i, s)'
  <2>1. CASE u # t
    BY <1>1, <1>2, <2>1 DEF Committed
  <2>2. CASE u = t
    BY <1>1, <1>2, <2>2 DEF Committed
  <2>3. QED
    BY <2>1, <2>2
<1>3. ASSUME NEW u \in Thread, NEW i \in Nat, Committed(u, i, s)'
      PROVE  /\ Committed(u, i, s) /\ ~(u = t /\ i = n)
             /\ stack'[u][i] = stack[u][i]
  <2>1. Committed(u, i, s) /\ ~(u = t /\ i = n)
    BY <1>3, ReturnCommits DEF CloseInv, Inv
  <2>2. QED
    BY <1>1, <2>1 DEF Committed
<1>4. ASSUME Committed(t, n, s)
      PROVE  told'[s] = 1 /\ s \notin sessions' /\ Apart(s)
  <2>1. s = z
    BY <1>1, <1>4 DEF Committed
  <2>2. QED
    BY <1>4, <2>1 DEF CloseInv, Leaves
<1>5. s \in closed => told'[s] = 1 \/ \E u \in Thread : \E i \in Nat : Committed(u, i, s)'
  BY <1>2, <1>4 DEF CloseInv, Leaves
<1>6. told'[s] = 1 => s \notin sessions' /\ Apart(s)
  BY <1>4 DEF CloseInv, Leaves
<1>7. ASSUME NEW u \in Thread, NEW i \in Nat, Committed(u, i, s)', stack'[u][i].at = "reset"
      PROVE  Peer[s] \in closed \/ Below(u, i, s)'
  <2>1. Peer[s] \in closed \/ Below(u, i, s)
    BY <1>3, <1>7 DEF CloseInv, Leaves
  <2>2. CASE u # t
    BY <1>1, <2>1, <2>2 DEF Below
  <2>3. CASE u = t /\ Below(u, i, s) /\ i + 1 = n
    BY <1>1, <2>3 DEF Below
  <2>4. CASE u = t /\ Below(u, i, s) /\ i + 1 # n
    <3>1. i + 1 \in 1 .. n - 1
      BY <2>4 DEF Below
    <3>2. QED
      BY <1>1, <2>4, <3>1 DEF Below
  <2>5. QED
    BY <2>1, <2>2, <2>3, <2>4
<1>8. ASSUME NEW u \in Thread, NEW i \in Nat, Committed(u, i, s)',
             stack'[u][i].at \in {"unlock", "guard", "erase"}
      PROVE  Apart(s)
  BY <1>3, <1>8 DEF CloseInv, Leaves
<1>9. Apart(s) <=> Apart(s)'
  BY DEF Apart
<1>10. s \in piped' \/ s \in closed' \/ Peer[s] = None
  BY DEF CloseInv, Leaves
<1>11. QED
  BY <1>5, <1>6, <1>7, <1>8, <1>9, <1>10 DEF Leaves

LEMMA CloseLeaves ==
    ASSUME CloseInv, NEW t \in Thread, NEW s \in Side,
           \/ CancelTimer(t) \/ LockSide(t) \/ TestClosed(t) \/ ClosePipe(t) \/ ResetPipe(t)
           \/ UnlockSide(t) \/ LockGuard(t) \/ EraseSide(t)
    PROVE  Leaves(s)'
<1> DEFINE n == Len(stack[t])
<1>1. /\ Types /\ \A r \in Side : Leaves(r)
      /\ stack[t] # <<>> => Of(t) \in Side /\ n \in Nat \ {0} /\ stack[t][n] \in Frames
  BY Top DEF CloseInv, Inv
<1>2. \A at : At(t, "close", at) /\ at \in Late => Committed(t, n, Of(t))
  BY <1>1 DEF At, Committed, Of, Late
<1>3. \A r \in Side : \A i \in Nat : Committed(t, i, r) => r \in closed
  BY DEF CloseInv, Inv, OneCommits
<1>4. CASE CancelTimer(t)
  BY <1>4, MoveLeaves DEF CancelTimer, record, At, Places, Late
<1>5. CASE LockSide(t)
  BY <1>5, MoveLeaves DEF LockSide, record, At, Places, Late
<1>6. CASE TestClosed(t)
  <2>0. stack[t] # <<>> /\ stack[t][n].call = "close" /\ stack[t][n].at = "test"
    BY <1>6 DEF TestClosed, At
  <2>1. CASE Of(t) \in closed
    <3>1. ~Committed(t, n, Of(t))
      BY <2>0 DEF Committed
    <3>2. QED
      BY <1>6, <2>0, <2>1, <3>1, ReturnLeaves DEF TestClosed
  <2>2. CASE Of(t) \notin closed /\ Of(t) \in piped
    <3>1. Peer[Of(t)] \in Side
      BY <1>1, <2>2 DEF Types
    <3>2. QED
      BY <1>6, <2>0, <2>2, <3>1, MoveLeaves DEF TestClosed, Places, Late
  <2>3. CASE Of(t) \notin closed /\ Of(t) \notin piped
    <3>1. Peer[Of(t)] = None
      BY <1>1, <2>0, <2>3 DEF Leaves
    <3>2. QED
      BY <1>6, <2>0, <2>3, <3>1, MoveLeaves DEF TestClosed, Places, Late
  <2>4. QED
    BY <2>1, <2>2, <2>3
<1>7. CASE ClosePipe(t)
  <2>0. /\ stack[t] # <<>> /\ stack[t][n].call = "close" /\ stack[t][n].at = "pipe"
        /\ CallClose(t, Peer[Of(t)], "reset")
    BY <1>7 DEF ClosePipe, At
  <2>1. Peer[Of(t)] \in Side
    BY <1>1, <2>0 DEF Frames, Of
  <2>2. /\ Len(stack'[t]) = n + 1
        /\ stack'[t][n + 1] = [call |-> "close", side |-> Peer[Of(t)], at |-> "cancel"]
    <3>1. "reset" \in Places
      BY DEF Places
    <3>2. QED
      BY <1>1, <2>0, <2>1, <3>1, CallShape
  <2>3. QED
    BY <1>7, <2>0, <2>1, <2>2, MoveLeaves DEF ClosePipe, record, Places, Late
<1>8. CASE ResetPipe(t)
  <2>0. stack[t] # <<>> /\ stack[t][n].call = "close" /\ stack[t][n].at = "reset"
    BY <1>8 DEF ResetPipe, At
  <2>1. Committed(t, n, Of(t))
    BY <1>2, <1>8 DEF ResetPipe, Late
  <2>2. Of(t) \in closed
    BY <1>1, <1>3, <2>0, <2>1
  <2>3. Peer[Of(t)] \in closed
    BY <1>1, <2>0, <2>1 DEF Leaves, Below
  <2>4. QED
    BY <1>8, <2>0, <2>2, <2>3, MoveLeaves DEF ResetPipe, record, Places, Late
<1>9. ASSUME NEW at \in {"guard", "erase"}, Goto(t, at), At(t, "close", "unlock") \/ At(t, "close", "guard"),
             UNCHANGED <<closed, piped, sessions, told>>
      PROVE  Leaves(s)'
  <2>0. stack[t] # <<>> /\ stack[t][n].call = "close" /\ stack[t][n].at \in {"unlock", "guard"}
    BY <1>9 DEF At
  <2>1. Committed(t, n, Of(t))
    BY <1>2, <1>9 DEF Late
  <2>2. Of(t) \notin piped /\ Peer[Of(t)] \in closed \union {None}
    BY <1>1, <2>0, <2>1 DEF Leaves, Apart
  <2>3. QED
    BY <1>9, <2>0, <2>2, MoveLeaves DEF Places, Late
<1>10. CASE UnlockSide(t) \/ LockGuard(t)
  BY <1>9, <1>10 DEF UnlockSide, LockGuard, record
<1>11. CASE EraseSide(t)
  <2>0. stack[t] # <<>> /\ stack[t][n].call = "close" /\ stack[t][n].at = "erase"
    BY <1>11 DEF EraseSide, At
  <2>1. Committed(t, n, Of(t))
    BY <1>2, <1>11 DEF EraseSide, Late
  <2>2. Of(t) \in closed /\ told[Of(t)] = 0
    BY <1>1, <1>3, <2>0, <2>1 DEF CloseInv, Inv, OneCommits, Types
  <2>3. /\ told'[Of(t)] = 1 /\ Of(t) \notin sessions' /\ sessions' \subseteq sessions
        /\ s = Of(t) \/ told'[s] = told[s]
    BY <1>1, <1>11, <2>0, <2>2 DEF EraseSide, Types
  <2>4. QED
    BY <1>11, <2>0, <2>1, <2>2, <2>3, ReturnLeaves DEF EraseSide
<1>12. QED
  BY <1>4, <1>5, <1>6, <1>7, <1>8, <1>10, <1>11

LEMMA CallerLeaves ==
    ASSUME CloseInv, NEW t \in Thread, NEW s \in Side,
           Inactivity(t) \/ PipeEnd(t) \/ Traffic(t) \/ Connect(t)
    PROVE  Leaves(s)'
<1> DEFINE n == Len(stack[t])
<1>1. /\ UNCHANGED <<closed, piped, told>> /\ sessions' \subseteq sessions
      /\ stack[t] # <<>> /\ stack[t][n].call # "close"
  BY DEF Inactivity, PipeEnd, Traffic, Connect, EraseFound, At, timers, record
<1>2. Of(t) \in Side /\ stack[t][n] \in Frames
  BY <1>1, Top DEF CloseInv, Inv
<1>3. \/ Return(t)
      \/ \E at \in Places : Goto(t, at)
      \/ \E at \in Places \ {"pipe"} : \E r \in Side : CallClose(t, r, at)
  <2>1. CASE Inactivity(t)
    BY <1>2, <2>1 DEF Inactivity, Places
  <2>2. CASE PipeEnd(t)
    <3>1. At(t, "pipeEnd", "other") => Peer[Of(t)] \in Side
      BY <1>2 DEF At, Frames, Of
    <3>2. QED
      BY <1>2, <2>2, <3>1 DEF PipeEnd, Places
  <2>3. CASE Traffic(t)
    BY <2>3 DEF Traffic, Places
  <2>4. CASE Connect(t)
    BY <1>2, <2>4 DEF Connect, Places
  <2>5. QED
    BY <2>1, <2>2, <2>3, <2>4
<1>4. CASE Return(t)
  <2>1. ~Committed(t, n, Of(t))
    BY <1>1 DEF Committed
  <2>2. QED
    BY <1>1, <1>4, <2>1, ReturnLeaves
<1>5. CASE \E at \in Places : Goto(t, at)
  BY <1>1, <1>5, MoveLeaves
<1>6. CASE \E at \in Places \ {"pipe"} : \E r \in Side : CallClose(t, r, at)
  BY <1>1, <1>6, MoveLeaves
<1>7. QED
  BY <1>3, <1>4, <1>5, <1>6

LEMMA CloseInvHolds == Spec => []CloseInv
<1>1. Init => CloseInv
  <2> SUFFICES ASSUME Init, NEW s \in Side
               PROVE  Leaves(s)
    BY InitInv DEF CloseInv
  <2>1. \A t \in Thread : \A i \in Nat : ~Committed(t, i, s)
    BY InitInv DEF Init, Inv, OneCommits
  <2>2. s \notin closed /\ told[s] = 0 /\ (s \in piped \/ Peer[s] = None)
    BY DEF Init
  <2>3. QED
    BY <2>1, <2>2 DEF Leaves
<1>2. CloseInv /\ [Next]_vars => CloseInv'
  <2> SUFFICES ASSUME CloseInv, [Next]_vars, NEW s \in Side
               PROVE  Leaves(s)'
    BY NextInv DEF CloseInv
  <2>1. CASE UNCHANGED vars
    BY <2>1 DEF vars, CloseInv, Leaves, Apart, Below, Committed
  <2>2. CASE Next
    BY <2>2, CloseLeaves, CallerLeaves DEF Next, Step
  <2>3. QED
    BY <2>1, <2>2
<1>3. QED
  BY <1>1, <1>2, PTL DEF Spec

-----------------------------------------------------------------------------
(* Who holds sessionGuard, and which iterator is good                        *)

\* The thread is in closeTunnelSide from connectTunnels, or from a close().
InGuard(t) ==
    /\ stack[t] # <<>> /\ stack[t][1].call = "connect"
    /\ stack[t][1].at \in {"find", "erase", "unguard"}

Erasing(t) == At(t, "close", "erase")

\* A handler is at the bottom of its stack, with closes above it, and a close under
\* another one waits for its pipe's close to return.
Nested ==
    \A t \in Thread :
        /\ stack[t] # <<>> /\ stack[t][1].call = "connect" =>
              handler[t] = <<"connect", stack[t][1].side>>
        /\ \A i \in 1 .. Len(stack[t]) :
              /\ i > 1 => stack[t][i].call = "close"
              /\ i < Len(stack[t]) /\ stack[t][i].call = "close" => stack[t][i].at = "reset"

\* sessionGuard is held by the thread that is inside, as often as it is.
GuardIsHeld ==
    /\ holder \in [Lock -> Thread \union {None}] /\ depth \in [Lock -> Int]
    /\ \A t \in Thread : holder[Guard] = t <=> InGuard(t) \/ Erasing(t)
    /\ holder[Guard] = None => depth[Guard] = 0
    /\ \A t \in Thread : InGuard(t) /\ Erasing(t) => depth[Guard] = 2
    /\ \A t \in Thread : (InGuard(t) \/ Erasing(t)) /\ ~(InGuard(t) /\ Erasing(t)) => depth[Guard] = 1

\* The entry that connectTunnels found is registered until it is erased through the
\* iterator, unless the close under way is the one that closes the side.
FoundIsGood ==
    /\ closer \in [Side -> Thread \union {None}] /\ stale \subseteq Side
    /\ \A s \in Side \ closed : closer[s] = None
    /\ \A t \in Thread : \A i \in Nat : \A s \in Side : Committed(t, i, s) => closer[s] = t
    /\ \A t \in Thread : InGuard(t) /\ stack[t][1].at = "erase" =>
          stack[t][1].side \in sessions \/ closer[stack[t][1].side] = t
    /\ \A s \in stale : \E t \in Thread : closer[s] = t /\ handler[t] = <<"connect", s>>

GuardInv == Nested /\ GuardIsHeld /\ FoundIsGood

LEMMA OneOrMore ==
    ASSUME NEW n \in Nat \ {0}
    PROVE  n = 1 \/ (n > 1 /\ n - 1 \in 1 .. n - 1 /\ 1 \in 1 .. n - 1 /\ n \in 1 .. n)
OBVIOUS

\* The call on top goes on or calls.
LEMMA MoveNested ==
    ASSUME Types, Nested, NEW t \in Thread, stack[t] # <<>>, NEW at \in Places,
           \/ /\ Goto(t, at)
              /\ stack[t][Len(stack[t])].call = "close" /\ at = "pipe" => Peer[Of(t)] \in Side
           \/ /\ at # "pipe" /\ \E r \in Side : CallClose(t, r, at)
              /\ stack[t][Len(stack[t])].call = "close" => at = "reset",
           UNCHANGED handler
    PROVE  /\ Nested'
           /\ \A u \in Thread \ {t} : (InGuard(u)' <=> InGuard(u)) /\ (Erasing(u)' <=> Erasing(u))
           /\ Erasing(t)' => stack[t][Len(stack[t])].call = "close" /\ at = "erase"
           /\ Goto(t, at) /\ stack[t][Len(stack[t])].call = "close" /\ at = "erase" => Erasing(t)'
           /\ stack[t][Len(stack[t])].call # "connect" => (InGuard(t)' <=> InGuard(t))
           /\ stack[t][Len(stack[t])].call = "connect" =>
                 /\ Len(stack[t]) = 1
                 /\ InGuard(t)' <=> at \in {"find", "erase", "unguard"}
           /\ stack'[t] # <<>> /\ stack'[t][1].side = stack[t][1].side
           /\ stack[t][Len(stack[t])].call # "connect" /\ InGuard(t) => stack'[t][1].at = stack[t][1].at
<1> PICK n \in Nat \ {0} : n = Len(stack[t])
  BY Top
<1>0. stack[t] \in Seq(Frames) /\ stack[t][n] \in Frames
  BY Top
<1>n. n = 1 \/ (n > 1 /\ n - 1 \in 1 .. n - 1 /\ 1 \in 1 .. n - 1 /\ n \in 1 .. n)
  <2>1. n \in Nat \ {0}
    BY Top
  <2>2. QED
    BY <2>1, OneOrMore
<1>1. /\ \A v \in Thread \ {t} : stack'[v] = stack[v]
      /\ \A k \in 1 .. n - 1 : stack'[t][k] = stack[t][k]
      /\ stack'[t][n].call = stack[t][n].call /\ stack'[t][n].side = stack[t][n].side
      /\ stack'[t][n].at = at
      /\ \/ Len(stack'[t]) = n
         \/ Len(stack'[t]) = n + 1 /\ stack'[t][n + 1].at = "cancel"
  BY MoveShape
<1>a. ASSUME NEW u \in Thread \ {t}
      PROVE  (InGuard(u)' <=> InGuard(u)) /\ (Erasing(u)' <=> Erasing(u))
  BY <1>1 DEF InGuard, Erasing, At
<1>b. /\ \A i \in 1 .. n : i > 1 => stack[t][i].call = "close"
      /\ \A i \in 1 .. n - 1 : stack[t][i].call = "close" => stack[t][i].at = "reset"
      /\ stack[t][1].call = "connect" => handler[t] = <<"connect", stack[t][1].side>>
  BY DEF Nested
<1>c. stack'[t] # <<>>
  <2>1. stack' \in [Thread -> Seq(Frames)] \/ stack'[t] \in Seq(Frames)
    <3>1. CASE \E r \in Side : at # "pipe" /\ CallClose(t, r, at)
      BY <3>1, CallShape
    <3>2. CASE Goto(t, at) /\ (stack[t][Len(stack[t])].call = "close" /\ at = "pipe" => Peer[Of(t)] \in Side)
      BY <3>2, GotoShape
    <3>3. QED
      BY <3>1, <3>2
  <2>2. stack'[t] \in Seq(Frames) /\ Len(stack'[t]) >= 1
    BY <1>1, <2>1
  <2>3. QED
    BY <2>2
<1>d. /\ stack'[t][1].side = stack[t][1].side /\ stack'[t][1].call = stack[t][1].call
      /\ n > 1 => stack'[t][1] = stack[t][1]
      /\ n = 1 => stack'[t][1].at = at
  BY <1>1
<1>e. ASSUME NEW u \in Thread, stack'[u] # <<>>, stack'[u][1].call = "connect"
      PROVE  handler'[u] = <<"connect", stack'[u][1].side>>
  <2>1. CASE u # t
    BY <1>1, <1>e, <2>1 DEF Nested
  <2>2. CASE u = t
    BY <1>b, <1>d, <1>e, <2>2
  <2>3. QED
    BY <2>1, <2>2
<1>f. stack[t][n].call = "connect" => n = 1
  <2>1. n # 1 => n \in 1 .. n /\ n > 1
    BY <1>n
  <2>2. n # 1 => stack[t][n].call = "close"
    BY <1>b, <2>1, Zenon
  <2>3. QED
    BY <2>2
<1>x. /\ stack[t][1].call = "connect" => (InGuard(t) <=> stack[t][1].at \in {"find", "erase", "unguard"})
      /\ stack[t][1].call # "connect" => ~InGuard(t)
  BY DEF InGuard
<1>y. /\ stack'[t][1].call = "connect" => (InGuard(t)' <=> stack'[t][1].at \in {"find", "erase", "unguard"})
      /\ stack'[t][1].call # "connect" => ~InGuard(t)'
  BY <1>c DEF InGuard
<1>z. InGuard(t) \in BOOLEAN /\ InGuard(t)' \in BOOLEAN
  BY DEF InGuard
<1>g. stack[t][n].call # "connect" => (InGuard(t)' <=> InGuard(t))
  BY <1>d, <1>x, <1>y, <1>z
<1>i. stack[t][n].call = "connect" => (InGuard(t)' <=> at \in {"find", "erase", "unguard"})
  BY <1>d, <1>f, <1>y, <1>z
<1>h. stack[t][n].call # "connect" /\ InGuard(t) => stack'[t][1].at = stack[t][1].at
  <2>1. stack[t][n].call # "connect" /\ InGuard(t) => n # 1
    BY <1>x
  <2>2. n # 1 => stack'[t][1] = stack[t][1]
    BY <1>n, <1>d
  <2>3. QED
    BY <2>1, <2>2
<1>2. CASE Goto(t, at)
  <2>1. Len(stack'[t]) = n
    BY <1>2, GotoShape
  <2>2. Erasing(t)' <=> stack[t][n].call = "close" /\ at = "erase"
    BY <1>1, <1>c, <2>1 DEF Erasing, At
  <2>3. ASSUME NEW u \in Thread, NEW i \in 1 .. Len(stack'[u])
        PROVE  /\ i > 1 => stack'[u][i].call = "close"
               /\ i < Len(stack'[u]) /\ stack'[u][i].call = "close" => stack'[u][i].at = "reset"
    <3>1. CASE u # t
      BY <1>1, <2>3, <3>1 DEF Nested
    <3>2. CASE u = t
      BY <1>1, <1>b, <2>1, <2>3, <3>2
    <3>3. QED
      BY <3>1, <3>2
  <2>4. Nested'
    BY <1>e, <2>3 DEF Nested
  <2>5. QED
    BY <1>a, <1>c, <1>d, <1>f, <1>g, <1>i, <1>h, <2>2, <2>4
<1>3. CASE /\ at # "pipe" /\ \E r \in Side : CallClose(t, r, at)
           /\ stack[t][n].call = "close" => at = "reset"
  <2>1. /\ Len(stack'[t]) = n + 1 /\ stack' \in [Thread -> Seq(Frames)]
        /\ stack'[t][n + 1].call = "close" /\ stack'[t][n + 1].at = "cancel"
    <3>1. PICK r \in Side : CallClose(t, r, at)
      BY <1>3
    <3>2. /\ Len(stack'[t]) = n + 1 /\ stack' \in [Thread -> Seq(Frames)]
          /\ stack'[t][n + 1] = [call |-> "close", side |-> r, at |-> "cancel"]
      BY <1>3, <3>1, CallShape
    <3>3. QED
      BY <3>2
  <2>2. ~Erasing(t)'
    BY <2>1 DEF Erasing, At
  <2>3. ASSUME NEW u \in Thread, NEW i \in 1 .. Len(stack'[u])
        PROVE  /\ i > 1 => stack'[u][i].call = "close"
               /\ i < Len(stack'[u]) /\ stack'[u][i].call = "close" => stack'[u][i].at = "reset"
    <3>1. CASE u # t
      BY <1>1, <2>3, <3>1 DEF Nested
    <3>2. CASE u = t
      BY <1>1, <1>3, <1>b, <2>1, <2>3, <3>2
    <3>3. QED
      BY <3>1, <3>2
  <2>4. Nested'
    BY <1>e, <2>3 DEF Nested
  <2>5. ~Goto(t, at)
    <3>1. Goto(t, at) /\ (stack[t][n].call = "close" /\ at = "pipe" => Peer[Of(t)] \in Side)
            => Len(stack'[t]) = n
      BY GotoShape
    <3>2. QED
      BY <1>3, <2>1, <3>1
  <2>6. QED
    BY <1>a, <1>c, <1>d, <1>f, <1>g, <1>i, <1>h, <2>2, <2>4, <2>5
<1>4. QED
  BY <1>2, <1>3

\* The call on top returns.
LEMMA ReturnNested ==
    ASSUME Types, Nested, NEW t \in Thread, stack[t] # <<>>, Return(t), UNCHANGED handler
    PROVE  /\ Nested'
           /\ \A u \in Thread \ {t} : (InGuard(u)' <=> InGuard(u)) /\ (Erasing(u)' <=> Erasing(u))
           /\ ~Erasing(t)'
           /\ stack[t][Len(stack[t])].call = "close" => (InGuard(t)' <=> InGuard(t))
           /\ stack[t][Len(stack[t])].call # "close" => ~InGuard(t)'
           /\ stack[t][Len(stack[t])].call \notin {"close", "connect"} => ~InGuard(t)
           /\ InGuard(t)' => stack'[t][1] = stack[t][1]
<1> PICK n \in Nat \ {0} : n = Len(stack[t])
  BY Top
<1>0. stack[t] \in Seq(Frames) /\ stack[t][n] \in Frames
  BY Top
<1>n. n = 1 \/ (n > 1 /\ n - 1 \in 1 .. n - 1 /\ 1 \in 1 .. n - 1 /\ n \in 1 .. n)
  <2>1. n \in Nat \ {0}
    BY Top
  <2>2. QED
    BY <2>1, OneOrMore
<1>1. /\ stack' \in [Thread -> Seq(Frames)]
      /\ \A u \in Thread \ {t} : stack'[u] = stack[u]
      /\ Len(stack'[t]) = n - 1
      /\ \A i \in 1 .. n - 1 : stack'[t][i] = stack[t][i]
  BY ReturnShape
<1>2. /\ \A i \in 1 .. n : i > 1 => stack[t][i].call = "close"
      /\ \A i \in 1 .. n - 1 : stack[t][i].call = "close" => stack[t][i].at = "reset"
      /\ stack[t][1].call = "connect" => handler[t] = <<"connect", stack[t][1].side>>
  BY DEF Nested
<1>3. ASSUME NEW u \in Thread \ {t}
      PROVE  (InGuard(u)' <=> InGuard(u)) /\ (Erasing(u)' <=> Erasing(u))
  BY <1>1 DEF InGuard, Erasing, At
<1>4. stack'[t] # <<>> => n > 1 /\ stack'[t][1] = stack[t][1]
  BY <1>1
<1>5. ~Erasing(t)'
  <2>1. stack'[t] # <<>> /\ stack'[t][n - 1].call = "close" => stack'[t][n - 1].at = "reset"
    BY <1>1, <1>2, <1>4
  <2>2. QED
    BY <1>1, <2>1 DEF Erasing, At
<1>6. stack[t][n].call # "close" => n = 1
  <2>1. n # 1 => n \in 1 .. n /\ n > 1
    BY <1>n
  <2>2. QED
    BY <1>2, <2>1, Zenon
<1>7. n = 1 => stack'[t] = <<>>
  BY <1>1
<1>8. n > 1 => (InGuard(t)' <=> InGuard(t))
  <2>1. n > 1 => stack'[t] # <<>>
    BY <1>1
  <2>2. QED
    BY <1>4, <2>1 DEF InGuard
<1>9. n = 1 /\ stack[t][n].call = "close" => ~InGuard(t) /\ ~InGuard(t)'
  BY <1>7 DEF InGuard
<1>10. stack[t][n].call # "close" => ~InGuard(t)'
  BY <1>6, <1>7 DEF InGuard
<1>11. InGuard(t)' => stack'[t][1] = stack[t][1]
  BY <1>4 DEF InGuard
<1>b. stack[t][n].call \notin {"close", "connect"} => ~InGuard(t)
  BY <1>6 DEF InGuard
<1>12. ASSUME NEW u \in Thread, NEW i \in 1 .. Len(stack'[u])
       PROVE  /\ i > 1 => stack'[u][i].call = "close"
              /\ i < Len(stack'[u]) /\ stack'[u][i].call = "close" => stack'[u][i].at = "reset"
  <2>1. CASE u # t
    BY <1>1, <1>12, <2>1 DEF Nested
  <2>2. CASE u = t
    BY <1>1, <1>2, <1>12, <2>2
  <2>3. QED
    BY <2>1, <2>2
<1>13. ASSUME NEW u \in Thread, stack'[u] # <<>>, stack'[u][1].call = "connect"
       PROVE  handler'[u] = <<"connect", stack'[u][1].side>>
  BY <1>1, <1>2, <1>4, <1>13 DEF Nested
<1>14. Nested'
  BY <1>12, <1>13 DEF Nested
<1>c. stack[t][n].call = "close" => (InGuard(t)' <=> InGuard(t))
  BY <1>n, <1>8, <1>9
<1>15. QED
  BY <1>3, <1>5, <1>c, <1>10, <1>11, <1>b, <1>14, Zenon

\* Nobody enters or leaves, and sessionGuard is not touched.
LEMMA GuardStays ==
    ASSUME GuardIsHeld, holder'[Guard] = holder[Guard], depth'[Guard] = depth[Guard],
           holder' \in [Lock -> Thread \union {None}], depth' \in [Lock -> Int],
           \A u \in Thread : (InGuard(u)' <=> InGuard(u)) /\ (Erasing(u)' <=> Erasing(u))
    PROVE  GuardIsHeld'
BY DEF GuardIsHeld

\* Nobody commits, nothing is erased, and no side is found.
LEMMA FoundStays ==
    ASSUME FoundIsGood, UNCHANGED <<handler, closed, sessions, closer, stale>>,
           \A u \in Thread : \A i \in Nat : \A s \in Side : Committed(u, i, s)' => Committed(u, i, s),
           \A u \in Thread : InGuard(u)' /\ stack'[u][1].at = "erase" =>
               InGuard(u) /\ stack[u][1].at = "erase" /\ stack'[u][1].side = stack[u][1].side
    PROVE  FoundIsGood'
<1>1. /\ closer' \in [Side -> Thread \union {None}] /\ stale' \subseteq Side
      /\ \A s \in Side \ closed' : closer'[s] = None
      /\ \A s \in stale' : \E t \in Thread : closer'[s] = t /\ handler'[t] = <<"connect", s>>
  BY DEF FoundIsGood
<1>2. \A t \in Thread : \A i \in Nat : \A s \in Side : Committed(t, i, s)' => closer'[s] = t
  BY DEF FoundIsGood
<1>3. ASSUME NEW u \in Thread, InGuard(u)', stack'[u][1].at = "erase"
      PROVE  stack'[u][1].side \in sessions' \/ closer'[stack'[u][1].side] = u
  <2>1. InGuard(u) /\ stack[u][1].at = "erase" /\ stack'[u][1].side = stack[u][1].side
    BY <1>3
  <2>2. QED
    BY <2>1 DEF FoundIsGood
<1>4. QED
  BY <1>1, <1>2, <1>3 DEF FoundIsGood

\* A step on a side's closeLock leaves sessionGuard alone.
LEMMA SideLocks ==
    ASSUME GuardIsHeld, NEW t \in Thread, NEW s \in Side,
           Acquire(t, s) \/ Release(t, s) \/ UNCHANGED locks
    PROVE  /\ holder'[Guard] = holder[Guard] /\ depth'[Guard] = depth[Guard]
           /\ holder' \in [Lock -> Thread \union {None}] /\ depth' \in [Lock -> Int]
<1>1. s \in Lock /\ Guard \in Lock /\ s # Guard
  BY CloseLocksAssumption DEF Lock
<1>2. holder \in [Lock -> Thread \union {None}] /\ depth \in [Lock -> Int]
  BY DEF GuardIsHeld
<1>3. CASE Acquire(t, s)
  BY <1>1, <1>2, <1>3 DEF Acquire
<1>4. CASE Release(t, s)
  BY <1>1, <1>2, <1>4 DEF Release
<1>5. CASE UNCHANGED locks
  BY <1>2, <1>5 DEF locks
<1>6. QED
  BY <1>3, <1>4, <1>5

\* A move that does not get a close past the test commits nobody.
LEMMA MoveCommits ==
    ASSUME Types, NEW t \in Thread, stack[t] # <<>>, NEW at \in Places,
           \/ /\ Goto(t, at)
              /\ stack[t][Len(stack[t])].call = "close" /\ at = "pipe" => Peer[Of(t)] \in Side
           \/ at # "pipe" /\ \E r \in Side : CallClose(t, r, at),
           stack[t][Len(stack[t])].call = "close" /\ at \in Late => stack[t][Len(stack[t])].at \in Late,
           NEW u \in Thread, NEW i \in Nat, NEW s \in Side, Committed(u, i, s)'
    PROVE  Committed(u, i, s)
<1>1. CASE u = t /\ i = Len(stack[t]) /\ s = Of(t) /\ stack[t][Len(stack[t])].call = "close" /\ at \in Late
  <2>1. Len(stack[t]) \in Nat \ {0}
    BY Top
  <2>2. QED
    BY <1>1, <2>1 DEF Committed, Late, Of
<1>2. QED
  BY <1>1, GoesOn DEF Late

\* A close on top goes on, or calls, without taking sessionGuard.
LEMMA CloseMoves ==
    ASSUME Types, GuardInv, NEW t \in Thread, stack[t] # <<>>, NEW at \in Places,
           stack[t][Len(stack[t])].call = "close", stack[t][Len(stack[t])].at # "erase", at # "erase",
           \/ /\ Goto(t, at)
              /\ at = "pipe" => Peer[Of(t)] \in Side
           \/ /\ at = "reset" /\ \E r \in Side : CallClose(t, r, at),
           UNCHANGED handler,
           Acquire(t, Of(t)) \/ Release(t, Of(t)) \/ UNCHANGED locks
    PROVE  /\ Nested' /\ GuardIsHeld'
           /\ \A u \in Thread : InGuard(u)' /\ stack'[u][1].at = "erase" =>
                 InGuard(u) /\ stack[u][1].at = "erase" /\ stack'[u][1].side = stack[u][1].side
<1>1. /\ Nested'
      /\ \A u \in Thread \ {t} : (InGuard(u)' <=> InGuard(u)) /\ (Erasing(u)' <=> Erasing(u))
      /\ Erasing(t)' => at = "erase"
      /\ InGuard(t)' <=> InGuard(t)
      /\ stack'[t][1].side = stack[t][1].side
      /\ InGuard(t) => stack'[t][1].at = stack[t][1].at
  <2>1. \/ /\ Goto(t, at)
           /\ stack[t][Len(stack[t])].call = "close" /\ at = "pipe" => Peer[Of(t)] \in Side
        \/ /\ at # "pipe" /\ \E r \in Side : CallClose(t, r, at)
           /\ stack[t][Len(stack[t])].call = "close" => at = "reset"
    OBVIOUS
  <2>2. stack[t][Len(stack[t])].call # "connect"
    OBVIOUS
  <2>3. Nested
    BY DEF GuardInv
  <2>4. QED
    BY <2>1, <2>2, <2>3, MoveNested, Zenon
<1>2. ~Erasing(t) /\ ~Erasing(t)'
  BY <1>1 DEF Erasing, At
<1>3. GuardIsHeld'
  <2>1. /\ holder'[Guard] = holder[Guard] /\ depth'[Guard] = depth[Guard]
        /\ holder' \in [Lock -> Thread \union {None}] /\ depth' \in [Lock -> Int]
    BY SideLocks, Top DEF GuardInv
  <2>2. QED
    BY <1>1, <1>2, <2>1, GuardStays DEF GuardInv
<1>4. \A u \in Thread \ {t} : stack'[u] = stack[u]
  BY MoveShape
<1>5. QED
  BY <1>1, <1>3, <1>4

\* The steps of a close that neither test wasClosed nor reach sessionGuard.
LEMMA CloseQuiet ==
    ASSUME Types, GuardInv, NEW t \in Thread,
           CancelTimer(t) \/ LockSide(t) \/ ClosePipe(t) \/ ResetPipe(t) \/ UnlockSide(t)
    PROVE  GuardInv'
<1> DEFINE n == Len(stack[t])
<1>1. /\ stack[t] # <<>> /\ stack[t][n].call = "close"
      /\ UNCHANGED <<handler, closed, sessions, closer, stale>>
      /\ stack[t][n].at \in {"cancel", "lock", "pipe", "reset", "unlock"}
  BY DEF CancelTimer, LockSide, ClosePipe, ResetPipe, UnlockSide, At, timers, record
<1>2. Of(t) \in Side /\ stack[t][n] \in Frames
  BY <1>1, Top
<1>3. \E at \in Places \ {"pipe", "erase"} :
          /\ Goto(t, at) \/ (at = "reset" /\ \E r \in Side : CallClose(t, r, at))
          /\ at \in Late => stack[t][n].at \in Late
  <2>1. CASE ClosePipe(t)
    <3>1. stack[t][n].at = "pipe" /\ Peer[Of(t)] \in Side
      BY <1>2, <2>1 DEF ClosePipe, At, Frames, Of
    <3>2. CallClose(t, Peer[Of(t)], "reset")
      BY <2>1 DEF ClosePipe
    <3>3. QED
      BY <3>1, <3>2 DEF Places, Late
  <2>2. QED
    BY <1>2, <2>1 DEF CancelTimer, LockSide, ResetPipe, UnlockSide, Places, Late, At
<1>4. Acquire(t, Of(t)) \/ Release(t, Of(t)) \/ UNCHANGED locks
  BY DEF CancelTimer, LockSide, ClosePipe, ResetPipe, UnlockSide
<1>5. PICK at \in Places \ {"pipe", "erase"} :
          /\ Goto(t, at) \/ (at = "reset" /\ \E r \in Side : CallClose(t, r, at))
          /\ at \in Late => stack[t][n].at \in Late
  BY <1>3
<1>6. /\ Nested' /\ GuardIsHeld'
      /\ \A u \in Thread : InGuard(u)' /\ stack'[u][1].at = "erase" =>
            InGuard(u) /\ stack[u][1].at = "erase" /\ stack'[u][1].side = stack[u][1].side
  BY <1>1, <1>4, <1>5, CloseMoves
<1>7. \A u \in Thread : \A i \in Nat : \A s \in Side : Committed(u, i, s)' => Committed(u, i, s)
  BY <1>1, <1>5, MoveCommits
<1>8. QED
  BY <1>1, <1>6, <1>7, FoundStays DEF GuardInv

\* A close, or a handler other than connectTunnels, returns.
LEMMA ReturnQuiet ==
    ASSUME Types, GuardInv, NEW t \in Thread, stack[t] # <<>>, Return(t),
           stack[t][Len(stack[t])].call # "connect", ~Erasing(t),
           UNCHANGED <<handler, closed, sessions, closer, stale>>,
           Release(t, Of(t)) \/ UNCHANGED locks
    PROVE  GuardInv'
<1> DEFINE n == Len(stack[t])
<1>1. /\ Nested'
      /\ \A u \in Thread \ {t} : (InGuard(u)' <=> InGuard(u)) /\ (Erasing(u)' <=> Erasing(u))
      /\ ~Erasing(t)'
      /\ stack[t][n].call = "close" => (InGuard(t)' <=> InGuard(t))
      /\ stack[t][n].call # "close" => ~InGuard(t)'
      /\ stack[t][n].call \notin {"close", "connect"} => ~InGuard(t)
      /\ InGuard(t)' => stack'[t][1] = stack[t][1]
  BY ReturnNested DEF GuardInv
<1>2. InGuard(t)' <=> InGuard(t)
  BY <1>1
<1>3. GuardIsHeld'
  <2>1. /\ holder'[Guard] = holder[Guard] /\ depth'[Guard] = depth[Guard]
        /\ holder' \in [Lock -> Thread \union {None}] /\ depth' \in [Lock -> Int]
    BY SideLocks, Top DEF GuardInv
  <2>2. QED
    BY <1>1, <1>2, <2>1, GuardStays DEF GuardInv
<1>4. \A u \in Thread : \A i \in Nat : \A s \in Side : Committed(u, i, s)' => Committed(u, i, s)
  BY ReturnCommits
<1>5. \A u \in Thread : InGuard(u)' /\ stack'[u][1].at = "erase" =>
          InGuard(u) /\ stack[u][1].at = "erase" /\ stack'[u][1].side = stack[u][1].side
  BY <1>1, <1>2, ReturnShape
<1>6. QED
  BY <1>1, <1>3, <1>4, <1>5, FoundStays DEF GuardInv

\* The close that finds the side open is recorded as its closer.
LEMMA CommitGuard ==
    ASSUME Types, GuardInv, NEW t \in Thread, TestClosed(t)
    PROVE  GuardInv'
<1> DEFINE n == Len(stack[t])
<1>1. /\ stack[t] # <<>> /\ stack[t][n].call = "close" /\ stack[t][n].at = "test" /\ ~Erasing(t)
      /\ UNCHANGED <<handler, sessions, stale>> /\ Of(t) \in Side
  BY Top DEF TestClosed, At, Erasing, timers
<1>2. CASE Of(t) \in closed
  BY <1>1, <1>2, ReturnQuiet DEF TestClosed
<1>3. CASE Of(t) \notin closed
  <2>1. /\ closed' = closed \union {Of(t)} /\ closer' = [closer EXCEPT ![Of(t)] = t]
        /\ UNCHANGED locks
    BY <1>3 DEF TestClosed
  <2>2. PICK at \in {"pipe", "unlock"} : Goto(t, at) /\ (at = "pipe" => Peer[Of(t)] \in Side)
    BY <1>3 DEF TestClosed, Types
  <2>3. at \in Places /\ at # "erase"
    BY <2>2 DEF Places
  <2>4. /\ Nested' /\ GuardIsHeld'
        /\ \A u \in Thread : InGuard(u)' /\ stack'[u][1].at = "erase" =>
              InGuard(u) /\ stack[u][1].at = "erase" /\ stack'[u][1].side = stack[u][1].side
    BY <1>1, <2>1, <2>2, <2>3, CloseMoves
  <2>5. closer \in [Side -> Thread \union {None}] /\ closer[Of(t)] = None /\ None \notin Thread
    BY <1>1, <1>3, CloseLocksAssumption DEF GuardInv, FoundIsGood
  <2>6. /\ closer' \in [Side -> Thread \union {None}] /\ closer'[Of(t)] = t
        /\ \A s \in Side : s # Of(t) => closer'[s] = closer[s]
        /\ \A s \in Side \ closed' : closer'[s] = None
    BY <1>1, <2>1, <2>5 DEF GuardInv, FoundIsGood
  <2>7. ASSUME NEW u \in Thread, NEW i \in Nat, NEW s \in Side, Committed(u, i, s)'
        PROVE  closer'[s] = u
    <3>1. Committed(u, i, s) \/ (u = t /\ s = Of(t))
      BY <1>1, <2>2, <2>3, <2>7, GoesOn
    <3>2. Committed(u, i, s) => closer[s] = u
      BY DEF GuardInv, FoundIsGood
    <3>3. QED
      BY <2>5, <2>6, <3>1, <3>2
  <2>8. ASSUME NEW u \in Thread, InGuard(u)', stack'[u][1].at = "erase"
        PROVE  stack'[u][1].side \in sessions' \/ closer'[stack'[u][1].side] = u
    <3>1. InGuard(u) /\ stack[u][1].at = "erase" /\ stack'[u][1].side = stack[u][1].side
      BY <2>4, <2>8
    <3>2. stack[u][1].side \in sessions \/ closer[stack[u][1].side] = u
      BY <3>1 DEF GuardInv, FoundIsGood
    <3>3. stack[u][1].side \in Side
      <4>1. stack[u] \in Seq(Frames) /\ stack[u] # <<>>
        BY <3>1 DEF InGuard, Types
      <4>2. Len(stack[u]) \in Nat \ {0}
        BY <4>1, EmptySeq
      <4>3. stack[u][1] \in Frames
        BY <4>1, <4>2
      <4>4. QED
        BY <4>3 DEF Frames
    <3>4. QED
      BY <1>1, <2>5, <2>6, <3>1, <3>2, <3>3
  <2>9. ASSUME NEW s \in stale'
        PROVE  \E u \in Thread : closer'[s] = u /\ handler'[u] = <<"connect", s>>
    <3>1. PICK u \in Thread : closer[s] = u /\ handler[u] = <<"connect", s>>
      BY <1>1, <2>9 DEF GuardInv, FoundIsGood
    <3>2. s # Of(t)
      BY <2>5, <3>1
    <3>3. closer' = [closer EXCEPT ![Of(t)] = t] /\ handler' = handler
      BY <1>1, <2>1
    <3>4. closer'[s] = closer[s]
      BY <1>1, <2>6, <2>9, <3>2 DEF GuardInv, FoundIsGood
    <3>5. QED
      BY <3>1, <3>3, <3>4
  <2>10. FoundIsGood'
    BY <1>1, <2>6, <2>7, <2>8, <2>9 DEF FoundIsGood, GuardInv
  <2>11. QED
    BY <2>4, <2>10 DEF GuardInv
<1>4. QED
  BY <1>2, <1>3

\* A close enters closeTunnelSide.
LEMMA LockGuardGuard ==
    ASSUME Types, GuardInv, NEW t \in Thread, LockGuard(t)
    PROVE  GuardInv'
<1> DEFINE n == Len(stack[t])
<1>1. /\ stack[t] # <<>> /\ stack[t][n].call = "close" /\ stack[t][n].at = "guard" /\ ~Erasing(t)
      /\ UNCHANGED <<handler, closed, sessions, closer, stale>>
      /\ Goto(t, "erase") /\ Acquire(t, Guard)
  BY DEF LockGuard, At, Erasing, timers, record
<1>2. /\ Nested'
      /\ \A u \in Thread \ {t} : (InGuard(u)' <=> InGuard(u)) /\ (Erasing(u)' <=> Erasing(u))
      /\ Erasing(t)' /\ (InGuard(t)' <=> InGuard(t))
      /\ stack'[t][1].side = stack[t][1].side
      /\ InGuard(t) => stack'[t][1].at = stack[t][1].at
  <2>1. "erase" \in Places
    BY DEF Places
  <2>2. Nested
    BY DEF GuardInv
  <2>3. stack[t][n].call # "connect"
    BY <1>1
  <2>4. "erase" # "pipe"
    OBVIOUS
  <2>5. QED
    BY <1>1, <2>1, <2>2, <2>3, <2>4, MoveNested, Zenon
<1>3. GuardIsHeld'
  <2>1. holder \in [Lock -> Thread \union {None}] /\ depth \in [Lock -> Int] /\ Guard \in Lock /\ None \notin Thread
    BY CloseLocksAssumption DEF GuardInv, GuardIsHeld, Lock
  <2>2. /\ holder' \in [Lock -> Thread \union {None}] /\ depth' \in [Lock -> Int]
        /\ holder'[Guard] = t /\ depth'[Guard] = depth[Guard] + 1 /\ holder[Guard] \in {None, t}
    BY <1>1, <2>1 DEF Acquire, Free
  <2>3. \A u \in Thread \ {t} : ~InGuard(u) /\ ~Erasing(u)
    BY <2>1, <2>2 DEF GuardInv, GuardIsHeld
  <2>4. InGuard(t) => depth[Guard] = 1
    BY <1>1 DEF GuardInv, GuardIsHeld
  <2>5. ~InGuard(t) => depth[Guard] = 0
    BY <1>1, <2>2 DEF GuardInv, GuardIsHeld
  <2>6. InGuard(t)' => depth'[Guard] = 2
    BY <1>2, <2>2, <2>4
  <2>7. ~InGuard(t)' => depth'[Guard] = 1
    BY <1>2, <2>2, <2>5
  <2>8. \A u \in Thread : (holder'[Guard] = u) <=> (InGuard(u)' \/ Erasing(u)')
    BY <1>2, <2>2, <2>3
  <2>9. \A u \in Thread : InGuard(u)' \/ Erasing(u)' => u = t
    BY <1>2, <2>3
  <2>10. holder'[Guard] # None
    BY <2>1, <2>2
  <2>11. QED
    BY <1>2, <2>2, <2>6, <2>7, <2>8, <2>9, <2>10 DEF GuardIsHeld
<1>4. \A u \in Thread : \A i \in Nat : \A s \in Side : Committed(u, i, s)' => Committed(u, i, s)
  <2>1. "erase" \in Places /\ stack[t][n].at \in Late /\ "erase" # "pipe"
    BY <1>1 DEF Places, Late
  <2>2. QED
    BY <1>1, <2>1, MoveCommits
<1>5. \A u \in Thread : InGuard(u)' /\ stack'[u][1].at = "erase" =>
          InGuard(u) /\ stack[u][1].at = "erase" /\ stack'[u][1].side = stack[u][1].side
  <2>1. \A u \in Thread \ {t} : stack'[u] = stack[u]
    BY <1>1, GotoShape DEF Places
  <2>2. QED
    BY <1>2, <2>1
<1>6. QED
  BY <1>1, <1>2, <1>3, <1>4, <1>5, FoundStays DEF GuardInv

\* The thread that is inside leaves, or a close within connectTunnels does.
LEMMA ReleaseGuard ==
    ASSUME GuardIsHeld, NEW t \in Thread, Release(t, Guard),
           InGuard(t) \/ Erasing(t), ~Erasing(t)',
           Erasing(t) => (InGuard(t)' <=> InGuard(t)), ~Erasing(t) => ~InGuard(t)',
           \A u \in Thread \ {t} : (InGuard(u)' <=> InGuard(u)) /\ (Erasing(u)' <=> Erasing(u))
    PROVE  GuardIsHeld'
<1>1. holder \in [Lock -> Thread \union {None}] /\ depth \in [Lock -> Int] /\ Guard \in Lock /\ None \notin Thread
  BY CloseLocksAssumption DEF GuardIsHeld, Lock
<1>2. /\ holder' \in [Lock -> Thread \union {None}] /\ depth' \in [Lock -> Int]
      /\ holder'[Guard] = IF depth[Guard] = 1 THEN None ELSE t
      /\ depth'[Guard] = depth[Guard] - 1
  BY <1>1 DEF Release
<1>3. holder[Guard] = t
  BY DEF GuardIsHeld
<1>4. \A u \in Thread \ {t} : ~InGuard(u)' /\ ~Erasing(u)'
  BY <1>3 DEF GuardIsHeld
<1>5. CASE InGuard(t) /\ Erasing(t)
  <2>1. depth[Guard] = 2 /\ InGuard(t)'
    BY <1>5 DEF GuardIsHeld
  <2>2. holder'[Guard] = t /\ depth'[Guard] = 1
    BY <1>2, <2>1
  <2>3. \A u \in Thread : (holder'[Guard] = u) <=> (InGuard(u)' \/ Erasing(u)')
    BY <1>4, <2>1, <2>2
  <2>4. \A u \in Thread : ~Erasing(u)'
    BY <1>4
  <2>5. QED
    BY <1>1, <1>2, <2>2, <2>3, <2>4 DEF GuardIsHeld
<1>6. CASE ~(InGuard(t) /\ Erasing(t))
  <2>1. depth[Guard] = 1 /\ ~InGuard(t)'
    BY <1>6 DEF GuardIsHeld
  <2>2. holder'[Guard] = None /\ depth'[Guard] = 0
    BY <1>2, <2>1
  <2>3. \A u \in Thread : ~InGuard(u)' /\ ~Erasing(u)'
    BY <1>4, <2>1
  <2>4. QED
    BY <1>1, <1>2, <2>2, <2>3 DEF GuardIsHeld
<1>7. QED
  BY <1>5, <1>6

\* A close tells the service and leaves closeTunnelSide.  Only this thread can be in
\* connectTunnels, and then the close is the one that closed the side.
LEMMA EraseGuard ==
    ASSUME Types, GuardInv, NEW t \in Thread, EraseSide(t)
    PROVE  GuardInv'
<1> PICK n \in Nat : n = Len(stack[t])
  BY Top DEF EraseSide, At
<1>1. /\ stack[t] # <<>> /\ stack[t][n].call = "close" /\ stack[t][n].at = "erase" /\ Erasing(t)
      /\ UNCHANGED <<handler, closed, closer, stale>> /\ sessions' = sessions \ {Of(t)}
      /\ Return(t) /\ Release(t, Guard)
  BY DEF EraseSide, At, Erasing, timers
<1>2. /\ Nested'
      /\ \A u \in Thread \ {t} : (InGuard(u)' <=> InGuard(u)) /\ (Erasing(u)' <=> Erasing(u))
      /\ ~Erasing(t)' /\ (InGuard(t)' <=> InGuard(t))
      /\ InGuard(t)' => stack'[t][1] = stack[t][1]
  BY <1>1, ReturnNested DEF GuardInv
<1>3. GuardIsHeld'
  BY <1>1, <1>2, ReleaseGuard DEF GuardInv
<1>4. Committed(t, n, Of(t)) /\ Of(t) \in Side
  BY <1>1, Top DEF Committed, Of
<1>5. closer[Of(t)] = t
  BY <1>4 DEF GuardInv, FoundIsGood
<1>6. \A u \in Thread : \A i \in Nat : \A s \in Side : Committed(u, i, s)' => closer'[s] = u
  BY <1>1, ReturnCommits DEF GuardInv, FoundIsGood
<1>7. ASSUME NEW u \in Thread, InGuard(u)', stack'[u][1].at = "erase"
      PROVE  stack'[u][1].side \in sessions' \/ closer'[stack'[u][1].side] = u
  <2>1. u = t
    BY <1>1, <1>2, <1>7 DEF GuardInv, GuardIsHeld
  <2>2. InGuard(t) /\ stack'[t][1] = stack[t][1]
    BY <1>2, <1>7, <2>1
  <2>3. stack[t][1].side \in sessions \/ closer[stack[t][1].side] = t
    BY <1>7, <2>1, <2>2 DEF GuardInv, FoundIsGood
  <2>4. QED
    BY <1>1, <1>5, <2>1, <2>2, <2>3
<1>8. FoundIsGood'
  BY <1>1, <1>6, <1>7 DEF GuardInv, FoundIsGood
<1>9. QED
  BY <1>2, <1>3, <1>8 DEF GuardInv

\* Handlers that have nothing to do with sessionGuard.
LEMMA CallerGuard ==
    ASSUME Types, GuardInv, NEW t \in Thread, Inactivity(t) \/ PipeEnd(t) \/ Traffic(t)
    PROVE  GuardInv'
<1> DEFINE n == Len(stack[t])
<1>1. /\ stack[t] # <<>> /\ stack[t][n].call \in {"inactivity", "pipeEnd", "traffic"}
      /\ UNCHANGED <<handler, closed, sessions, closer, stale>>
      /\ Acquire(t, Of(t)) \/ Release(t, Of(t)) \/ UNCHANGED locks
  BY DEF Inactivity, PipeEnd, Traffic, At, timers, record
<1>2. Of(t) \in Side /\ stack[t][n] \in Frames
  BY <1>1, Top
<1>3. \/ Return(t) /\ (Release(t, Of(t)) \/ UNCHANGED locks)
      \/ \E at \in Places : Goto(t, at)
      \/ \E at \in Places \ {"pipe"} : \E r \in Side : CallClose(t, r, at)
  <2>1. CASE Inactivity(t)
    BY <1>2, <2>1 DEF Inactivity, Places
  <2>2. CASE PipeEnd(t)
    <3>1. At(t, "pipeEnd", "other") => Peer[Of(t)] \in Side
      BY <1>2 DEF At, Frames, Of
    <3>2. QED
      BY <1>2, <2>2, <3>1 DEF PipeEnd, Places
  <2>3. CASE Traffic(t)
    BY <2>3 DEF Traffic, Places
  <2>4. QED
    BY <2>1, <2>2, <2>3
<1>4. ~Erasing(t)
  BY <1>1 DEF Erasing, At
<1>5. CASE Return(t) /\ (Release(t, Of(t)) \/ UNCHANGED locks)
  BY <1>1, <1>4, <1>5, ReturnQuiet
<1>6. ASSUME NEW at \in Places, Goto(t, at) \/ (at # "pipe" /\ \E r \in Side : CallClose(t, r, at))
      PROVE  GuardInv'
  <2>1. /\ Nested'
        /\ \A u \in Thread \ {t} : (InGuard(u)' <=> InGuard(u)) /\ (Erasing(u)' <=> Erasing(u))
        /\ ~Erasing(t)' /\ (InGuard(t)' <=> InGuard(t))
        /\ stack'[t][1].side = stack[t][1].side
        /\ InGuard(t) => stack'[t][1].at = stack[t][1].at
    <3>1. \/ /\ Goto(t, at)
             /\ stack[t][Len(stack[t])].call = "close" /\ at = "pipe" => Peer[Of(t)] \in Side
          \/ /\ at # "pipe" /\ \E r \in Side : CallClose(t, r, at)
             /\ stack[t][Len(stack[t])].call = "close" => at = "reset"
      BY <1>1, <1>6
    <3>2. Nested /\ stack[t][Len(stack[t])].call # "connect" /\ stack[t][Len(stack[t])].call # "close"
          /\ stack[t] # <<>> /\ UNCHANGED handler
      BY <1>1 DEF GuardInv
    <3>3. QED
      BY <3>1, <3>2, MoveNested, Zenon
  <2>2. GuardIsHeld'
    <3>1. /\ holder'[Guard] = holder[Guard] /\ depth'[Guard] = depth[Guard]
          /\ holder' \in [Lock -> Thread \union {None}] /\ depth' \in [Lock -> Int]
      BY <1>1, <1>2, SideLocks DEF GuardInv
    <3>2. QED
      BY <1>4, <2>1, <3>1, GuardStays DEF GuardInv
  <2>3. \A u \in Thread : \A i \in Nat : \A s \in Side : Committed(u, i, s)' => Committed(u, i, s)
    BY <1>1, <1>6, MoveCommits
  <2>4. \A u \in Thread \ {t} : stack'[u] = stack[u]
    BY <1>1, <1>6, MoveShape
  <2>5. \A u \in Thread : InGuard(u)' /\ stack'[u][1].at = "erase" =>
            InGuard(u) /\ stack[u][1].at = "erase" /\ stack'[u][1].side = stack[u][1].side
    BY <2>1, <2>4
  <2>6. QED
    BY <1>1, <2>1, <2>2, <2>3, <2>5, FoundStays DEF GuardInv
<1>7. CASE \E at \in Places \ {"pipe"} : \E r \in Side : CallClose(t, r, at)
  <2>1. PICK at \in Places \ {"pipe"} : \E r \in Side : CallClose(t, r, at)
    BY <1>7
  <2>2. at \in Places /\ at # "pipe"
    BY <2>1
  <2>3. QED
    BY <1>6, <2>1, <2>2
<1>8. CASE \E at \in Places : Goto(t, at)
  BY <1>6, <1>8
<1>9. QED
  BY <1>3, <1>5, <1>7, <1>8

\* connectTunnels within closeTunnelSide: what it moves to.
LEMMA ConnectShape ==
    ASSUME Types, GuardInv, NEW t \in Thread, stack[t] # <<>>, NEW at \in Places, at # "pipe",
           stack[t][Len(stack[t])].call = "connect",
           Goto(t, at) \/ \E r \in Side : CallClose(t, r, at),
           UNCHANGED handler
    PROVE  /\ Nested' /\ Len(stack[t]) = 1 /\ ~Erasing(t) /\ ~Erasing(t)'
           /\ \A u \in Thread \ {t} :
                 /\ (InGuard(u)' <=> InGuard(u)) /\ (Erasing(u)' <=> Erasing(u))
                 /\ stack'[u] = stack[u]
           /\ InGuard(t) <=> stack[t][1].at \in {"find", "erase", "unguard"}
           /\ InGuard(t)' <=> at \in {"find", "erase", "unguard"}
           /\ stack'[t][1].side = stack[t][1].side /\ stack[t][1].side = Of(t)
           /\ stack'[t][1].at = at /\ handler[t] = <<"connect", Of(t)>>
           /\ \A u \in Thread : \A i \in Nat : \A s \in Side : Committed(u, i, s)' => Committed(u, i, s)
<1>1. /\ Nested'
      /\ \A u \in Thread \ {t} : (InGuard(u)' <=> InGuard(u)) /\ (Erasing(u)' <=> Erasing(u))
      /\ ~Erasing(t)' /\ Len(stack[t]) = 1
      /\ InGuard(t)' <=> at \in {"find", "erase", "unguard"}
      /\ stack'[t][1].side = stack[t][1].side
  <2>1. \/ /\ Goto(t, at)
           /\ stack[t][Len(stack[t])].call = "close" /\ at = "pipe" => Peer[Of(t)] \in Side
        \/ /\ at # "pipe" /\ \E r \in Side : CallClose(t, r, at)
           /\ stack[t][Len(stack[t])].call = "close" => at = "reset"
    OBVIOUS
  <2>2. Nested /\ stack[t][Len(stack[t])].call # "close"
    BY DEF GuardInv
  <2>3. QED
    BY <2>1, <2>2, MoveNested, Zenon
<1>2. ~Erasing(t)
  BY DEF Erasing, At
<1>3. InGuard(t) <=> stack[t][1].at \in {"find", "erase", "unguard"}
  BY <1>1 DEF InGuard
<1>4. stack[t][1].side = Of(t) /\ handler[t] = <<"connect", Of(t)>>
  BY <1>1 DEF Of, Nested, GuardInv
<1>5. stack'[t][1].at = at /\ \A u \in Thread \ {t} : stack'[u] = stack[u]
  BY <1>1, MoveShape
<1>6. \A u \in Thread : \A i \in Nat : \A s \in Side : Committed(u, i, s)' => Committed(u, i, s)
  BY MoveCommits
<1>7. QED
  BY <1>1, <1>2, <1>3, <1>4, <1>5, <1>6

LEMMA ConnectGuard ==
    ASSUME Types, GuardInv, NEW t \in Thread, Connect(t)
    PROVE  GuardInv'
<1> PICK n \in Nat : n = Len(stack[t])
  BY Top DEF Connect, At
<1>0. /\ stack[t] # <<>> /\ stack[t][n].call = "connect" /\ UNCHANGED <<handler, closed, closer>>
      /\ Of(t) \in Side /\ {"find", "erase", "unguard"} \subseteq Places
  BY Top DEF Connect, At, Places, record, EraseFound
<1>1. /\ holder \in [Lock -> Thread \union {None}] /\ depth \in [Lock -> Int] /\ Guard \in Lock
      /\ None \notin Thread
  BY CloseLocksAssumption DEF GuardInv, GuardIsHeld, Lock
<1>2. CASE At(t, "connect", "guard") /\ Acquire(t, Guard) /\ Goto(t, "find") /\ UNCHANGED <<sessions, stale>>
  <2>1. "find" \in Places /\ "find" # "pipe"
    BY <1>0
  <2>2. /\ Nested' /\ Len(stack[t]) = 1 /\ ~Erasing(t) /\ ~Erasing(t)'
        /\ \A u \in Thread \ {t} :
              /\ (InGuard(u)' <=> InGuard(u)) /\ (Erasing(u)' <=> Erasing(u))
              /\ stack'[u] = stack[u]
        /\ InGuard(t) <=> stack[t][1].at \in {"find", "erase", "unguard"}
        /\ InGuard(t)' /\ stack'[t][1].at = "find"
        /\ \A u \in Thread : \A i \in Nat : \A s \in Side : Committed(u, i, s)' => Committed(u, i, s)
    BY <1>0, <1>2, <2>1, ConnectShape
  <2>3. ~InGuard(t)
    BY <1>2, <2>2 DEF At
  <2>4. /\ holder' \in [Lock -> Thread \union {None}] /\ depth' \in [Lock -> Int]
        /\ holder'[Guard] = t /\ depth'[Guard] = depth[Guard] + 1 /\ holder[Guard] \in {None, t}
    BY <1>1, <1>2 DEF Acquire, Free
  <2>5. holder[Guard] # t
    BY <2>2, <2>3 DEF GuardInv, GuardIsHeld
  <2>6. depth'[Guard] = 1 /\ \A u \in Thread : ~InGuard(u) /\ ~Erasing(u)
    BY <1>1, <2>4, <2>5 DEF GuardInv, GuardIsHeld
  <2>7. \A u \in Thread : holder'[Guard] = u <=> InGuard(u)' \/ Erasing(u)'
    BY <2>2, <2>4, <2>6
  <2>8. \A u \in Thread : ~Erasing(u)'
    BY <2>2, <2>6
  <2>9. GuardIsHeld'
    BY <1>1, <2>4, <2>6, <2>7, <2>8 DEF GuardIsHeld
  <2>10. \A u \in Thread : InGuard(u)' /\ stack'[u][1].at = "erase" =>
            InGuard(u) /\ stack[u][1].at = "erase" /\ stack'[u][1].side = stack[u][1].side
    BY <2>2
  <2>11. QED
    BY <1>0, <1>2, <2>2, <2>9, <2>10, FoundStays DEF GuardInv
<1>3. CASE At(t, "connect", "find") /\ UNCHANGED <<locks, sessions, stale>>
           /\ IF Of(t) \in sessions THEN CallClose(t, Of(t), "erase") ELSE Goto(t, "unguard")
  <2>1. PICK at \in {"erase", "unguard"} :
            /\ Goto(t, at) \/ CallClose(t, Of(t), at)
            /\ at = "erase" => Of(t) \in sessions
    BY <1>3
  <2>2. at \in Places /\ at # "pipe" /\ at \in {"find", "erase", "unguard"}
    BY <1>0, <2>1
  <2>3. /\ Nested' /\ Len(stack[t]) = 1 /\ ~Erasing(t) /\ ~Erasing(t)'
        /\ \A u \in Thread \ {t} :
              /\ (InGuard(u)' <=> InGuard(u)) /\ (Erasing(u)' <=> Erasing(u))
              /\ stack'[u] = stack[u]
        /\ InGuard(t) <=> stack[t][1].at \in {"find", "erase", "unguard"}
        /\ InGuard(t)' /\ stack'[t][1].at = at /\ stack'[t][1].side = Of(t)
        /\ \A u \in Thread : \A i \in Nat : \A s \in Side : Committed(u, i, s)' => Committed(u, i, s)
    BY <1>0, <2>1, <2>2, ConnectShape
  <2>4. InGuard(t)
    BY <1>3, <2>3 DEF At
  <2>5. GuardIsHeld'
    <3>1. /\ holder'[Guard] = holder[Guard] /\ depth'[Guard] = depth[Guard]
          /\ holder' \in [Lock -> Thread \union {None}] /\ depth' \in [Lock -> Int]
      BY <1>1, <1>3 DEF locks
    <3>2. QED
      BY <2>3, <2>4, <3>1, GuardStays DEF GuardInv
  <2>6. ASSUME NEW u \in Thread, InGuard(u)', stack'[u][1].at = "erase"
        PROVE  stack'[u][1].side \in sessions' \/ closer'[stack'[u][1].side] = u
    <3>1. CASE u = t
      BY <1>3, <2>1, <2>3, <2>6, <3>1
    <3>2. CASE u # t
      BY <1>0, <1>3, <2>3, <2>6, <3>2 DEF GuardInv, FoundIsGood
    <3>3. QED
      BY <3>1, <3>2
  <2>7. FoundIsGood'
    <3>1. /\ closer' \in [Side -> Thread \union {None}] /\ stale' \subseteq Side
          /\ \A s \in Side \ closed' : closer'[s] = None
          /\ \A s \in stale' : \E v \in Thread : closer'[s] = v /\ handler'[v] = <<"connect", s>>
      BY <1>0, <1>3 DEF GuardInv, FoundIsGood
    <3>2. \A u \in Thread : \A i \in Nat : \A s \in Side : Committed(u, i, s)' => closer'[s] = u
      BY <1>0, <2>3 DEF GuardInv, FoundIsGood
    <3>3. QED
      BY <2>6, <3>1, <3>2 DEF FoundIsGood
  <2>8. QED
    BY <2>3, <2>5, <2>7 DEF GuardInv
<1>4. CASE At(t, "connect", "erase") /\ EraseFound(t) /\ Goto(t, "unguard") /\ UNCHANGED locks
  <2>1. "unguard" \in Places /\ "unguard" # "pipe"
    BY <1>0
  <2>2. /\ Nested' /\ Len(stack[t]) = 1 /\ ~Erasing(t) /\ ~Erasing(t)'
        /\ \A u \in Thread \ {t} :
              /\ (InGuard(u)' <=> InGuard(u)) /\ (Erasing(u)' <=> Erasing(u))
              /\ stack'[u] = stack[u]
        /\ InGuard(t) <=> stack[t][1].at \in {"find", "erase", "unguard"}
        /\ InGuard(t)' /\ stack'[t][1].at = "unguard"
        /\ stack[t][1].side = Of(t) /\ handler[t] = <<"connect", Of(t)>>
        /\ \A u \in Thread : \A i \in Nat : \A s \in Side : Committed(u, i, s)' => Committed(u, i, s)
    BY <1>0, <1>4, <2>1, ConnectShape
  <2>3. InGuard(t) /\ stack[t][1].at = "erase"
    BY <1>4, <2>2 DEF At
  <2>4. GuardIsHeld'
    <3>1. /\ holder'[Guard] = holder[Guard] /\ depth'[Guard] = depth[Guard]
          /\ holder' \in [Lock -> Thread \union {None}] /\ depth' \in [Lock -> Int]
      BY <1>1, <1>4 DEF locks
    <3>2. QED
      BY <2>2, <2>3, <3>1, GuardStays DEF GuardInv
  <2>5. \A u \in Thread : InGuard(u)' => u = t
    BY <2>2, <2>3 DEF GuardInv, GuardIsHeld
  <2>6. Of(t) \in sessions \/ closer[Of(t)] = t
    BY <2>2, <2>3 DEF GuardInv, FoundIsGood
  <2>7. ASSUME NEW s \in stale'
        PROVE  s \in Side /\ \E v \in Thread : closer'[s] = v /\ handler'[v] = <<"connect", s>>
    <3>1. CASE s \in stale
      BY <1>0, <3>1 DEF GuardInv, FoundIsGood
    <3>2. CASE s \notin stale
      <4>1. s = Of(t) /\ Of(t) \notin sessions
        BY <1>4, <2>7, <3>2 DEF EraseFound
      <4>2. QED
        BY <1>0, <2>2, <2>6, <4>1
    <3>3. QED
      BY <3>1, <3>2
  <2>8. FoundIsGood'
    <3>1. /\ closer' \in [Side -> Thread \union {None}] /\ stale' \subseteq Side
          /\ \A s \in Side \ closed' : closer'[s] = None
      BY <1>0, <2>7 DEF GuardInv, FoundIsGood
    <3>2. \A u \in Thread : \A i \in Nat : \A s \in Side : Committed(u, i, s)' => closer'[s] = u
      <4>1. \A u \in Thread : \A i \in Nat : \A s \in Side : Committed(u, i, s) => closer[s] = u
        BY DEF GuardInv, FoundIsGood
      <4>2. \A u \in Thread : \A i \in Nat : \A s \in Side : Committed(u, i, s)' => Committed(u, i, s)
        BY <2>2
      <4>3. closer' = closer
        BY <1>0
      <4>4. QED
        BY <4>1, <4>2, <4>3
    <3>3. \A u \in Thread : ~(InGuard(u)' /\ stack'[u][1].at = "erase")
      BY <2>2, <2>5
    <3>4. QED
      BY <2>7, <3>1, <3>2, <3>3 DEF FoundIsGood
  <2>9. QED
    BY <2>2, <2>4, <2>8 DEF GuardInv
<1>5. CASE At(t, "connect", "unguard") /\ Release(t, Guard) /\ Return(t) /\ UNCHANGED <<sessions, stale>>
  <2>1. /\ Nested'
        /\ \A u \in Thread \ {t} : (InGuard(u)' <=> InGuard(u)) /\ (Erasing(u)' <=> Erasing(u))
        /\ ~Erasing(t)' /\ ~InGuard(t)'
    BY <1>0, <1>5, ReturnNested DEF GuardInv
  <2>2. ~Erasing(t)
    BY <1>0 DEF Erasing, At
  <2>3. InGuard(t)
    <3>1. n = 1
      <4>1. n \in Nat \ {0}
        BY <1>0, Top
      <4>2. n # 1 => n \in 1 .. n /\ n > 1
        BY <4>1, OneOrMore
      <4>3. n # 1 => stack[t][n].call = "close"
        BY <4>2 DEF GuardInv, Nested
      <4>4. QED
        BY <1>0, <4>3
    <3>2. QED
      BY <1>0, <1>5, <3>1 DEF InGuard, At
  <2>4. GuardIsHeld'
    BY <1>5, <2>1, <2>2, <2>3, ReleaseGuard DEF GuardInv
  <2>5. \A u \in Thread : \A i \in Nat : \A s \in Side : Committed(u, i, s)' => Committed(u, i, s)
    BY <1>0, <1>5, ReturnCommits
  <2>6. \A u \in Thread : InGuard(u)' /\ stack'[u][1].at = "erase" =>
            InGuard(u) /\ stack[u][1].at = "erase" /\ stack'[u][1].side = stack[u][1].side
    BY <1>0, <1>5, <2>1, ReturnShape
  <2>7. QED
    BY <1>0, <1>5, <2>1, <2>4, <2>5, <2>6, FoundStays DEF GuardInv
<1>6. QED
  BY <1>0, <1>2, <1>3, <1>4, <1>5 DEF Connect, record

LEMMA GuardInvHolds == Spec => []GuardInv
<1>1. Init => GuardInv
  <2> SUFFICES ASSUME Init
               PROVE  GuardInv
    OBVIOUS
  <2>1. \A t \in Thread : stack[t] = <<[call |-> handler[t][1], side |-> handler[t][2],
                                        at |-> Enter[handler[t][1]]]>>
    BY DEF Init
  <2>2. \A t \in Thread : \A i \in Nat : \A s \in Side : ~Committed(t, i, s)
    BY InitInv DEF Init, Inv, OneCommits
  <2>3. ASSUME NEW t \in Thread
        PROVE  /\ stack[t] # <<>> /\ Len(stack[t]) = 1
               /\ stack[t][1].call = handler[t][1] /\ stack[t][1].side = handler[t][2]
               /\ stack[t][1].at = Enter[handler[t][1]]
    <3> DEFINE f == [call |-> handler[t][1], side |-> handler[t][2], at |-> Enter[handler[t][1]]]
    <3>1. f.call = handler[t][1] /\ f.side = handler[t][2] /\ f.at = Enter[handler[t][1]]
      OBVIOUS
    <3>2. stack[t] = <<f>>
      BY <2>1
    <3> HIDE DEF f
    <3>3. stack[t] # <<>> /\ Len(stack[t]) = 1 /\ stack[t][1] = f
      BY <3>2
    <3>4. QED
      BY <3>1, <3>3
  <2>4. ASSUME NEW t \in Thread
        PROVE  /\ handler[t] = <<handler[t][1], handler[t][2]>>
               /\ handler[t][1] = "connect" => Enter[handler[t][1]] = "guard"
               /\ handler[t][1] # "close" /\ Enter[handler[t][1]] # "erase"
    <3>1. PICK c \in {"inactivity", "pipeEnd", "traffic", "connect"}, s \in Side : handler[t] = <<c, s>>
      BY CloseLocksAssumption DEF Init, Calls
    <3>2. QED
      BY <3>1 DEF Enter
  <2>5. Nested
    <3> SUFFICES ASSUME NEW t \in Thread
                 PROVE  /\ stack[t] # <<>> /\ stack[t][1].call = "connect" =>
                              handler[t] = <<"connect", stack[t][1].side>>
                        /\ \A i \in 1 .. Len(stack[t]) :
                              /\ i > 1 => stack[t][i].call = "close"
                              /\ i < Len(stack[t]) /\ stack[t][i].call = "close" => stack[t][i].at = "reset"
      BY DEF Nested
    <3>1. stack[t][1].call = "connect" => handler[t] = <<"connect", stack[t][1].side>>
      BY <2>3, <2>4
    <3>0. Len(stack[t]) = 1
      BY <2>3
    <3>2. \A i \in 1 .. Len(stack[t]) : ~(i > 1) /\ ~(i < Len(stack[t]))
      BY <3>0
    <3>3. QED
      BY <3>1, <3>2
  <2>6. \A t \in Thread : ~InGuard(t) /\ ~Erasing(t)
    BY <2>3, <2>4 DEF InGuard, Erasing, At
  <2>7. Guard \in Lock /\ None \notin Thread
    BY CloseLocksAssumption DEF Lock
  <2>8. GuardIsHeld
    BY <2>6, <2>7 DEF Init, GuardIsHeld
  <2>9. FoundIsGood
    BY <2>2, <2>6 DEF Init, FoundIsGood
  <2>10. QED
    BY <2>5, <2>8, <2>9 DEF GuardInv
<1>2. ASSUME Types, GuardInv, [Next]_vars
      PROVE  GuardInv'
  <2>1. CASE UNCHANGED vars
    <3>1. \A u \in Thread : (InGuard(u)' <=> InGuard(u)) /\ (Erasing(u)' <=> Erasing(u))
      BY <2>1 DEF vars, InGuard, Erasing, At
    <3>2. \A u \in Thread : \A i \in Nat : \A s \in Side : Committed(u, i, s)' => Committed(u, i, s)
      BY <2>1 DEF vars, Committed
    <3>3. Nested'
      BY <1>2, <2>1 DEF vars, GuardInv, Nested
    <3>4. GuardIsHeld'
      BY <1>2, <2>1, <3>1, GuardStays DEF vars, GuardInv, GuardIsHeld, locks
    <3>5. FoundIsGood'
      BY <1>2, <2>1, <3>1, <3>2, FoundStays DEF vars, GuardInv, record
    <3>6. QED
      BY <3>3, <3>4, <3>5 DEF GuardInv
  <2>2. CASE Next
    BY <1>2, <2>2, CloseQuiet, CommitGuard, LockGuardGuard, EraseGuard, CallerGuard, ConnectGuard
       DEF Next, Step
  <2>3. QED
    BY <1>2, <2>1, <2>2
<1>3. CloseInv => Types
  BY DEF CloseInv, Inv
<1>4. QED
  BY <1>1, <1>2, <1>3, CloseInvHolds, PTL DEF Spec

-----------------------------------------------------------------------------
(* The properties                                                           *)

\* Traffic on any number of threads (resetTimer) arms no timer that close() cancelled.
THEOREM NoTimerOutlivesItsSide == Spec => []CancelledStaysCancelled
<1>1. Init => CancelledStaysCancelled
  BY DEF Init, CancelledStaysCancelled
<1>2. ASSUME CancelledStaysCancelled, NEW t \in Thread, Step(t)
      PROVE  CancelledStaysCancelled'
  <2>1. CASE CancelTimer(t)
    BY <1>2, <2>1 DEF CancelTimer, CancelledStaysCancelled
  <2>2. CASE Traffic(t)
    BY <1>2, <2>2 DEF Traffic, timers, CancelledStaysCancelled
  <2>3. CASE UNCHANGED timers
    BY <1>2, <2>3 DEF timers, CancelledStaysCancelled
  <2>4. QED
    BY <1>2, <2>1, <2>2, <2>3 DEF Step, LockSide, TestClosed, ClosePipe, ResetPipe, UnlockSide,
       LockGuard, EraseSide, Inactivity, PipeEnd, Connect
<1>3. CancelledStaysCancelled /\ [Next]_vars => CancelledStaysCancelled'
  BY <1>2 DEF Next, vars, CancelledStaysCancelled
<1>4. QED
  BY <1>1, <1>3, PTL DEF Spec

\* However many handlers close a side, the service is told of it once at most, and only
\* a side that connectTunnels itself closes is erased again through its stale iterator.
THEOREM StaleOnlyIfTurnedAway == Spec => []ErasedTwiceIfTurnedAway
<1>1. CloseInv /\ GuardInv => ErasedTwiceIfTurnedAway
  BY DEF CloseInv, Inv, OneCommits, GuardInv, FoundIsGood, ErasedTwiceIfTurnedAway
<1>2. QED
  BY <1>1, CloseInvHolds, GuardInvHolds, PTL DEF Spec

\* When every handler is through, whatever handlers there were, a closed side is out of
\* the registry, has no pipe, and its partner is closed too.
THEOREM ClosedIsForGood == Spec => []ClosedForGood
<1>1. CloseInv => ClosedForGood
  <2> SUFFICES ASSUME CloseInv, Finished, NEW s \in closed
               PROVE  s \notin sessions /\ s \notin piped /\ Peer[s] \in closed \union {None}
    BY DEF ClosedForGood
  <2>0. s \in Side
    BY DEF CloseInv, Inv, Types
  <2>1. \A t \in Thread : \A i \in Nat : ~Committed(t, i, s)
    BY DEF Finished, Committed
  <2>2. QED
    BY <2>0, <2>1 DEF CloseInv, Leaves, Apart
<1>2. QED
  BY <1>1, CloseInvHolds, PTL DEF Spec
=============================================================================
