----------------------------- MODULE CloseLocks -----------------------------
(***************************************************************************)
(* The locks under the broker's close paths.  TunnelSession::close holds   *)
(* the side's closeLock while it closes the other side through the pipe,   *)
(* and takes the service's sessionGuard afterwards; the inactivity handler *)
(* calls it with closeLock held, connectTunnels with sessionGuard held.    *)
(* All of these locks are recursive.                                       *)
(*                                                                         *)
(* A thread is a stack of calls; a step of a thread is a step of the call  *)
(* on top, and takes at most one lock.                                     *)
(***************************************************************************)
EXTENDS Naturals, Sequences

CONSTANTS
    Thread,
    Side,           \* tunnel sides of one service
    Peer,           \* the side each one is linked to, or None
    Handlers,       \* what the threads may run: a set of functions [Thread -> Calls]
    Guard,          \* the service's sessionGuard
    None            \* nobody

Calls == {"inactivity", "pipeEnd", "traffic", "connect"} \X Side

ASSUME CloseLocksAssumption ==
    /\ Guard \notin Side
    /\ None \notin Thread \union Side \union {Guard}
    /\ Peer \in [Side -> Side \union {None}]
    /\ \A s \in Side : Peer[s] # None => Peer[s] # s /\ Peer[Peer[s]] = s
    /\ Handlers \subseteq [Thread -> Calls]
    /\ \A h \in Handlers : \A t \in Thread :
          /\ h[t][1] \in {"pipeEnd", "traffic"} => Peer[h[t][2]] # None
          /\ h[t][1] = "connect" => Peer[h[t][2]] = None

Lock == Side \union {Guard}     \* a side stands for its closeLock

VARIABLES
    handler,        \* what each thread runs, chosen once
    stack,          \* each thread's calls, the innermost last: [call, side, at]
    holder,         \* who holds each lock
    depth,          \* how often
    closed,         \* sides with wasClosed set
    piped,          \* sides with a pipeOperation
    sessions,       \* sides in the service's registry
    armed,          \* sides with a timer that will still expire
    cancelled,      \* sides with timerWasCancelled set
    told,           \* history: how often close() told the service of each side
    closer,         \* history: the thread that set wasClosed of each side, or None
    stale           \* history: sides erased through an iterator that was stale

vars == <<handler, stack, holder, depth, closed, piped, sessions, armed, cancelled,
          told, closer, stale>>

locks  == <<holder, depth>>
timers == <<armed, cancelled>>
record == <<told, closer, stale>>

TypeOK ==
    /\ \A t \in Thread : \A i \in DOMAIN stack[t] : stack[t][i].side \in Side
    /\ holder \in [Lock -> Thread \union {None}]
    /\ depth \in [Lock -> Nat]
    /\ \A l \in Lock : (holder[l] = None) = (depth[l] = 0)
    /\ closed \subseteq Side /\ piped \subseteq Side /\ sessions \subseteq Side
    /\ armed \subseteq Side /\ cancelled \subseteq Side
    /\ handler \in Handlers
    /\ told \in [Side -> Nat]
    /\ closer \in [Side -> Thread \union {None}]
    /\ stale \subseteq Side

Enter == [inactivity |-> "lock", pipeEnd |-> "this", traffic |-> "check", connect |-> "guard"]

\* Open sides, and the handlers about to run.  The timer of a side whose inactivity
\* handler runs has expired.
Init ==
    /\ handler \in Handlers
    /\ stack = [t \in Thread |-> <<[call |-> handler[t][1], side |-> handler[t][2],
                                    at |-> Enter[handler[t][1]]]>>]
    /\ holder = [l \in Lock |-> None]
    /\ depth = [l \in Lock |-> 0]
    /\ closed = {} /\ piped = {s \in Side : Peer[s] # None} /\ sessions = Side
    /\ armed = {s \in Side : \A t \in Thread : handler[t] # <<"inactivity", s>>}
    /\ cancelled = {}
    /\ told = [s \in Side |-> 0]
    /\ closer = [s \in Side |-> None]
    /\ stale = {}

-----------------------------------------------------------------------------
(* Calls and locks                                                          *)

At(t, call, at) ==
    /\ stack[t] # <<>>
    /\ stack[t][Len(stack[t])].call = call
    /\ stack[t][Len(stack[t])].at = at

Of(t) == stack[t][Len(stack[t])].side

Goto(t, at) == stack' = [stack EXCEPT ![t][Len(stack[t])].at = at]

\* Call close() of side s and continue at "at" when it returns.
CallClose(t, s, at) ==
    stack' = [stack EXCEPT ![t] =
        Append([@ EXCEPT ![Len(@)].at = at], [call |-> "close", side |-> s, at |-> "cancel"])]

Return(t) == stack' = [stack EXCEPT ![t] = SubSeq(@, 1, Len(@) - 1)]

Free(t, l) == holder[l] \in {None, t}

\* Mutant of Acquire: the locks are not recursive.
AcquireOnce(t, l) ==
    /\ holder[l] = None
    /\ holder' = [holder EXCEPT ![l] = t]
    /\ depth' = [depth EXCEPT ![l] = 1]

Acquire(t, l) ==
    /\ Free(t, l)
    /\ holder' = [holder EXCEPT ![l] = t]
    /\ depth' = [depth EXCEPT ![l] = @ + 1]

Release(t, l) ==
    /\ depth' = [depth EXCEPT ![l] = @ - 1]
    /\ holder' = [holder EXCEPT ![l] = IF depth[l] = 1 THEN None ELSE t]

-----------------------------------------------------------------------------
(* TunnelSession::close, with PipeOperation::close and closeTunnelSide       *)

CancelTimer(t) ==
    /\ At(t, "close", "cancel")
    /\ armed' = armed \ {Of(t)}
    /\ cancelled' = cancelled \union {Of(t)}
    /\ Goto(t, "lock")
    /\ UNCHANGED <<handler, locks, closed, piped, sessions, record>>

LockSide(t) ==
    /\ At(t, "close", "lock")
    /\ Acquire(t, Of(t))
    /\ Goto(t, "test")
    /\ UNCHANGED <<handler, closed, piped, sessions, timers, record>>

\* The first to get here closes; a later one leaves.
TestClosed(t) ==
    /\ At(t, "close", "test")
    /\ \/ /\ Of(t) \in closed
          /\ Release(t, Of(t))
          /\ Return(t)
          /\ UNCHANGED <<closed, closer>>
       \/ /\ Of(t) \notin closed
          /\ closed' = closed \union {Of(t)}
          /\ closer' = [closer EXCEPT ![Of(t)] = t]
          /\ Goto(t, IF Of(t) \in piped THEN "pipe" ELSE "unlock")
          /\ UNCHANGED locks
    /\ UNCHANGED <<handler, piped, sessions, timers, told, stale>>

\* pipeOperation->close(): this side returns at once, the other side closes.
ClosePipe(t) ==
    /\ At(t, "close", "pipe")
    /\ CallClose(t, Peer[Of(t)], "reset")
    /\ UNCHANGED <<handler, locks, closed, piped, sessions, timers, record>>

ResetPipe(t) ==
    /\ At(t, "close", "reset")
    /\ piped' = piped \ {Of(t)}
    /\ Goto(t, "unlock")
    /\ UNCHANGED <<handler, locks, closed, sessions, timers, record>>

\* Mutant of UnlockSide: the service is not told that the side is closed.
UnlockAndLeave(t) ==
    /\ At(t, "close", "unlock")
    /\ Release(t, Of(t))
    /\ Return(t)
    /\ UNCHANGED <<handler, closed, piped, sessions, timers, record>>

UnlockSide(t) ==
    /\ At(t, "close", "unlock")
    /\ Release(t, Of(t))
    /\ Goto(t, "guard")
    /\ UNCHANGED <<handler, closed, piped, sessions, timers, record>>

LockGuard(t) ==
    /\ At(t, "close", "guard")
    /\ Acquire(t, Guard)
    /\ Goto(t, "erase")
    /\ UNCHANGED <<handler, closed, piped, sessions, timers, record>>

\* closeTunnelSide(id, true): the entry is erased if it is still found.
EraseSide(t) ==
    /\ At(t, "close", "erase")
    /\ sessions' = sessions \ {Of(t)}
    /\ told' = [told EXCEPT ![Of(t)] = @ + 1]
    /\ Release(t, Guard)
    /\ Return(t)
    /\ UNCHANGED <<handler, closed, piped, timers, closer, stale>>

-----------------------------------------------------------------------------
(* The handlers that call it                                                *)

\* The inactivity handler compares the deadline and closes under closeLock.
Inactivity(t) ==
    \/ /\ At(t, "inactivity", "lock")
       /\ Acquire(t, Of(t))
       /\ Goto(t, "compare")
       /\ UNCHANGED <<handler, closed, piped, sessions, timers, record>>
    \/ /\ At(t, "inactivity", "compare")
       /\ IF Of(t) \in armed THEN Goto(t, "unlock") ELSE CallClose(t, Of(t), "unlock")
       /\ UNCHANGED <<handler, locks, closed, piped, sessions, timers, record>>
    \/ /\ At(t, "inactivity", "unlock")
       /\ Release(t, Of(t))
       /\ Return(t)
       /\ UNCHANGED <<handler, closed, piped, sessions, timers, record>>

\* The pipe that reads from the side ended: it closes the side, then the other.
PipeEnd(t) ==
    /\ \/ At(t, "pipeEnd", "this") /\ CallClose(t, Of(t), "other")
       \/ At(t, "pipeEnd", "other") /\ CallClose(t, Peer[Of(t)], "return")
       \/ At(t, "pipeEnd", "return") /\ Return(t)
    /\ UNCHANGED <<handler, locks, closed, piped, sessions, timers, record>>

\* Mutant of Traffic: resetTimer looks at wasClosed only.
TrafficUnchecked(t) ==
    \/ /\ At(t, "traffic", "check")
       /\ IF Of(t) \in closed THEN Return(t) ELSE Goto(t, "arm")
       /\ UNCHANGED <<handler, locks, closed, piped, sessions, timers, record>>
    \/ /\ At(t, "traffic", "arm")
       /\ armed' = armed \union {Of(t)}
       /\ Return(t)
       /\ UNCHANGED <<handler, locks, closed, piped, sessions, cancelled, record>>

\* Bytes pass: resetTimer looks at wasClosed, then at timerWasCancelled under
\* timerGuard.
Traffic(t) ==
    \/ /\ At(t, "traffic", "check")
       /\ IF Of(t) \in closed THEN Return(t) ELSE Goto(t, "arm")
       /\ UNCHANGED <<handler, locks, closed, piped, sessions, timers, record>>
    \/ /\ At(t, "traffic", "arm")
       /\ armed' = IF Of(t) \in cancelled THEN armed ELSE armed \union {Of(t)}
       /\ Return(t)
       /\ UNCHANGED <<handler, locks, closed, piped, sessions, cancelled, record>>

\* Erase through the iterator that was taken before the close.  If close() has erased
\* the entry meanwhile the iterator is stale, and what that does is undefined.
EraseFound(t) ==
    /\ stale' = IF Of(t) \in sessions THEN stale ELSE stale \union {Of(t)}
    /\ sessions' = sessions \ {Of(t)}

\* Mutant of Connect: sessionGuard is released for the close, against the deadlock.
ConnectReleasing(t) ==
    \/ /\ At(t, "connect", "guard")
       /\ Free(t, Guard)
       /\ IF Of(t) \in sessions THEN CallClose(t, Of(t), "erase") ELSE Return(t)
       /\ UNCHANGED <<handler, locks, closed, piped, sessions, timers, record>>
    \/ /\ At(t, "connect", "erase")
       /\ EraseFound(t)
       /\ Return(t)
       /\ UNCHANGED <<handler, locks, closed, piped, timers, told, closer>>

\* connectTunnels does not find the partner: closeTunnelSide(id) under sessionGuard
\* finds the side, closes it and erases what it found.
Connect(t) ==
    \/ /\ At(t, "connect", "guard")
       /\ Acquire(t, Guard)
       /\ Goto(t, "find")
       /\ UNCHANGED <<handler, closed, piped, sessions, timers, record>>
    \/ /\ At(t, "connect", "find")
       /\ IF Of(t) \in sessions THEN CallClose(t, Of(t), "erase") ELSE Goto(t, "unguard")
       /\ UNCHANGED <<handler, locks, closed, piped, sessions, timers, record>>
    \/ /\ At(t, "connect", "erase")
       /\ EraseFound(t)
       /\ Goto(t, "unguard")
       /\ UNCHANGED <<handler, locks, closed, piped, timers, told, closer>>
    \/ /\ At(t, "connect", "unguard")
       /\ Release(t, Guard)
       /\ Return(t)
       /\ UNCHANGED <<handler, closed, piped, sessions, timers, record>>

Finished == \A t \in Thread : stack[t] = <<>>

Step(t) ==
    \/ CancelTimer(t) \/ LockSide(t) \/ TestClosed(t) \/ ClosePipe(t) \/ ResetPipe(t)
    \/ UnlockSide(t) \/ LockGuard(t) \/ EraseSide(t)
    \/ Inactivity(t) \/ PipeEnd(t) \/ Traffic(t) \/ Connect(t)

Next == \E t \in Thread : Step(t)

Spec == Init /\ [][Next]_vars

\* A thread that can go on does.
FairSpec == Spec /\ \A t \in Thread : WF_vars(Step(t))

-----------------------------------------------------------------------------
(* Properties                                                               *)

\* The lock a thread's next step takes, if it takes one.
Wants(t) ==
    IF At(t, "close", "lock") \/ At(t, "inactivity", "lock") THEN Of(t)
    ELSE IF At(t, "close", "guard") \/ At(t, "connect", "guard") THEN Guard
    ELSE None

\* No set of threads waits for locks that are held within the set.
NoCircularWait ==
    \A S \in SUBSET Thread \ {{}} :
        \E t \in S : Wants(t) = None \/ holder[Wants(t)] \notin S \ {t}

\* Once close() has cancelled a side's timer no traffic arms it again, though
\* resetTimer tests wasClosed before close() sets it: no timer outlives its side.
CancelledStaysCancelled == armed \intersect cancelled = {}

\* The service is told of a side's close at most once, however many handlers close
\* it.  An entry is erased a second time, through a stale iterator, only where
\* connectTunnels itself closes a side that it turns away: when another handler
\* closes that side, at whatever moment, the iterator is good to the end.
ErasedTwiceIfTurnedAway ==
    \A s \in Side :
        /\ told[s] <= 1
        /\ s \in stale => \E t \in Thread : closer[s] = t /\ handler[t] = <<"connect", s>>

\* When every handler is through, a closed side has left no open partner, no
\* registry entry and no pipe behind.
ClosedForGood ==
    Finished => \A s \in closed :
        s \notin sessions /\ s \notin piped /\ Peer[s] \in closed \union {None}

\* Handlers whose locks can cross: two that close a tunnel from its two sides (each
\* holds its side's closeLock and wants the other's), and an expired timer on a side
\* that connectTunnels turns away (one holds closeLock and wants sessionGuard, the
\* other holds sessionGuard and wants closeLock).
Closes(call, s) == call \in {<<"inactivity", s>>, <<"pipeEnd", s>>}

Cross(v, w) ==
    \E s \in Side :
        \/ Closes(v, s) /\ Closes(w, Peer[s])
        \/ v = <<"inactivity", s>> /\ w = <<"connect", s>>

\* These two are the only deadlocks: where no two handlers cross, every handler ends.
HandlersEnd ==
    (\A t, u \in Thread : ~Cross(handler[t], handler[u])) => <>Finished
=============================================================================
