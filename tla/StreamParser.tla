---------------------------- MODULE StreamParser ----------------------------
(***************************************************************************)
(* How a control session gets messages out of its websocket: every read    *)
(* returns some of the text of one message, ControlSession::onRead feeds   *)
(* it to the StreamParser and pops one message at most.  The parser looks  *)
(* for the brace that closes the object and remembers, from read to read,  *)
(* how far it looked and in what state.                                    *)
(***************************************************************************)
EXTENDS Integers, Sequences, FiniteSets, SequencesExt

CONSTANTS
    Message,        \* texts of JSON objects, as sequences over Char
    MaxMessages     \* bound: messages sent

Char == {"open", "close", "quote", "escape", "other"}

\* What makes a text the text of an object, told without reading it from left to right.
\* A character is escaped if an odd number of escapes stands directly before it.
Escaped(m, i) ==
    \E k \in 1 .. i - 1 :
        /\ \A j \in k .. i - 1 : m[j] = "escape"
        /\ k # 1 => m[k - 1] # "escape"
        /\ (i - k) % 2 = 1

\* The first i characters end inside a string.
InString(m, i) == Cardinality({j \in 1 .. i : m[j] = "quote" /\ ~Escaped(m, j)}) % 2 = 1

Braces(m, brace, i) == {j \in 1 .. i : m[j] = brace /\ ~InString(m, j)}

\* Objects that are open after i characters.
Depth(m, i) == Cardinality(Braces(m, "open", i)) - Cardinality(Braces(m, "close", i))

IsObject(m) ==
    /\ m \in Seq(Char) /\ m # <<>> /\ m[1] = "open"
    /\ \A i \in 1 .. Len(m) - 1 : Depth(m, i) > 0
    /\ Depth(m, Len(m)) = 0

ASSUME StreamParserAssumption ==
    /\ \A m \in Message : IsObject(m)
    /\ MaxMessages \in Nat

VARIABLES
    sent,           \* messages the publisher sent
    delivered,      \* characters of the last of them that were read
    buffer,         \* m_buffer
    find,           \* m_findState, and where the object found in the buffer ends
    popped          \* messages handed to the dispatcher

vars == <<sent, delivered, buffer, find, popped>>

Fresh == [curly |-> 0, escape |-> FALSE, inside |-> FALSE, offset |-> 0, end |-> 0]

TypeOK ==
    /\ sent \in Seq(Message)
    /\ delivered \in Nat
    /\ buffer \in Seq(Char)
    /\ find \in [curly : Nat, escape : BOOLEAN, inside : BOOLEAN, offset : 0 .. Len(buffer), end : {0}]

Init ==
    /\ sent = <<>> /\ delivered = 0
    /\ buffer = <<>> /\ find = Fresh /\ popped = <<>>

-----------------------------------------------------------------------------
(* findCompleteObjectEnd                                                    *)

\* What a brace adds to the objects that are open.
Level(c) == CASE c = "open" -> 1 [] c = "close" -> -1 [] OTHER -> 0

\* Mutant of Look: braces inside strings count.
LookEverywhere(f, c) ==
    IF f.end # 0 THEN f
    ELSE [f EXCEPT
        !.curly = @ + Level(c),
        !.inside = IF c = "quote" /\ ~f.escape THEN ~@ ELSE @,
        !.escape = c = "escape" /\ ~@,
        !.offset = @ + 1,
        !.end = IF c = "close" /\ f.curly = 1 THEN f.offset + 1 ELSE 0]

\* One character: braces count outside of strings, and a quote that is not escaped
\* begins or ends one.
Look(f, c) ==
    IF f.end # 0 THEN f
    ELSE [f EXCEPT
        !.curly = IF f.inside THEN @ ELSE @ + Level(c),
        !.inside = IF c = "quote" /\ ~f.escape THEN ~@ ELSE @,
        !.escape = c = "escape" /\ ~@,
        !.offset = @ + 1,
        !.end = IF c = "close" /\ ~f.inside /\ f.curly = 1 THEN f.offset + 1 ELSE 0]

\* The loop goes on from the offset it remembers to the end of the text.
FindStates(f, text) ==
    LET state[i \in f.offset .. Len(text)] ==
            IF i = f.offset THEN f ELSE Look(state[i - 1], text[i])
    IN  state

FindCompleteObjectEnd(text) == FindStates(find, text)[Len(text)]

\* consumeObject: the object leaves the buffer and the search starts afresh.
Consume(text, f) ==
    /\ popped' = Append(popped, SubSeq(text, 1, f.end))
    /\ buffer' = SubSeq(text, f.end + 1, Len(text))
    /\ find' = Fresh

-----------------------------------------------------------------------------
(* Sending and reading                                                      *)

Read == sent # <<>> => delivered = Len(Last(sent))      \* all that was sent

Send(m) ==
    /\ Read /\ Len(sent) < MaxMessages
    /\ sent' = Append(sent, m)
    /\ delivered' = 0
    /\ UNCHANGED <<buffer, find, popped>>

\* onRead: n more characters of the message, fed to the parser; one object at most
\* is popped.
OnRead(n) ==
    /\ ~Read /\ n \in 1 .. Len(Last(sent)) - delivered
    /\ delivered' = delivered + n
    /\ LET text == buffer \o SubSeq(Last(sent), delivered + 1, delivered + n)
           f == FindCompleteObjectEnd(text)
       IN IF f.end # 0
            THEN Consume(text, f)
            ELSE buffer' = text /\ find' = f /\ UNCHANGED popped
    /\ UNCHANGED sent

Over == Read /\ Len(sent) = MaxMessages /\ UNCHANGED vars

Next ==
    \/ \E m \in Message : Send(m)
    \/ sent # <<>> /\ \E n \in 1 .. Len(Last(sent)) : OnRead(n)
    \/ Over

Spec == Init /\ [][Next]_vars

-----------------------------------------------------------------------------
(* Properties                                                               *)

\* Wherever reads cut the text, also inside strings and between an escape and what
\* it escapes, what is popped is what was sent: nothing is lost, split, merged or
\* late by more than the reads of the message itself.
PopsWhatWasSent ==
    popped = IF Read THEN sent ELSE Front(sent)
=============================================================================
