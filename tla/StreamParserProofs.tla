-------------------------- MODULE StreamParserProofs --------------------------
(***************************************************************************)
(* Proofs about StreamParser, for any messages that are texts of objects    *)
(* and any number of them: what the search remembers between two reads is   *)
(* what is true of the text so far, whatever reads it was cut into.         *)
(***************************************************************************)
EXTENDS StreamParser, FiniteSetTheorems, SequenceTheorems, WellFoundedInduction, TLAPS

\* Every inhabited set of numbers has a least element.
LEMMA Least ==
    ASSUME NEW T, T \subseteq Nat, T # {}
    PROVE  \E x \in T : \A y \in T : x <= y
<1>1. PICK x \in T : \A y \in T : ~(<<y, x>> \in OpToRel(<, Nat))
  BY WFMin, NatLessThanWellFounded
<1>2. \A y \in T : ~(y < x)
  BY <1>1, Zenon DEF OpToRel
<1> QED BY <1>2

\* What holds of a number, and of the next whenever it holds of one, holds of all
\* from there on.
LEMMA Upwards ==
    ASSUME NEW a \in Nat, NEW b \in Nat, NEW T, a \in T,
           \A i \in a + 1 .. b : i - 1 \in T => i \in T
    PROVE  \A i \in a .. b : i \in T
<1> DEFINE Bad == {i \in a .. b : i \notin T}
<1> SUFFICES ASSUME Bad # {} PROVE FALSE
  OBVIOUS
<1>1. Bad \subseteq Nat
  OBVIOUS
<1>2. PICK x \in Bad : \A y \in Bad : x <= y
  BY <1>1, Least
<1>3. x \in a + 1 .. b
  OBVIOUS
<1>4. x - 1 \notin Bad
  BY <1>1, <1>2, <1>3
<1>5. x - 1 \in T
  BY <1>3, <1>4
<1> QED BY <1>3, <1>5

-----------------------------------------------------------------------------
(* What Look has to keep                                                     *)

\* The state of the search after i characters of m, if it is right.
After(m, i) ==
    [curly |-> Depth(m, i), escape |-> Escaped(m, i + 1), inside |-> InString(m, i),
     offset |-> i, end |-> 0]

\* A character is escaped iff an escape stands before it that is not.
LEMMA EscapedStep ==
    ASSUME NEW m, NEW i \in Nat \ {0}
    PROVE  Escaped(m, i + 1) <=> m[i] = "escape" /\ ~Escaped(m, i)
<1> DEFINE Run(k, j) == /\ \A l \in k .. j - 1 : m[l] = "escape"
                        /\ k # 1 => m[k - 1] # "escape"
<1>1. ASSUME Escaped(m, i + 1) PROVE m[i] = "escape" /\ ~Escaped(m, i)
  <2>1. PICK k \in 1 .. i : Run(k, i + 1) /\ (i + 1 - k) % 2 = 1
    BY <1>1 DEF Escaped
  <2>2. m[i] = "escape"
    BY <2>1
  <2>3. ASSUME NEW l \in 1 .. i - 1, Run(l, i), (i - l) % 2 = 1
        PROVE  FALSE
    <3>1. l = k
      BY <2>1, <2>3
    <3> QED BY <2>1, <2>3, <3>1
  <2> QED BY <2>2, <2>3 DEF Escaped
<1>2. ASSUME m[i] = "escape", ~Escaped(m, i) PROVE Escaped(m, i + 1)
  <2> DEFINE Starts == {k \in 1 .. i : \A l \in k .. i : m[l] = "escape"}
  <2>1. i \in Starts /\ Starts \subseteq Nat
    BY <1>2
  <2>2. PICK k \in Starts : \A y \in Starts : k <= y
    BY <2>1, Least
  <2>3. ASSUME k # 1 PROVE m[k - 1] # "escape"
    <3>1. k - 1 \notin Starts
      BY <2>2
    <3> QED BY <2>3, <3>1
  <2>4. Run(k, i + 1) /\ Run(k, i)
    BY <2>3
  <2>5. (i + 1 - k) % 2 = 1
    <3>1. CASE k = i
      BY <3>1
    <3>2. CASE k # i
      <4>1. k \in 1 .. i - 1
        BY <3>2
      <4>2. (i - k) % 2 # 1
        BY <1>2, <2>4, <4>1 DEF Escaped
      <4> QED BY <4>1, <4>2
    <3> QED BY <3>1, <3>2
  <2>6. k \in 1 .. (i + 1) - 1
    OBVIOUS
  <2> QED BY <2>4, <2>5, <2>6 DEF Escaped
<1> QED BY <1>1, <1>2

\* Counting what has a property, one character further.
LEMMA CountStep ==
    ASSUME NEW i \in Nat \ {0}, NEW T
    PROVE  LET S(j) == {k \in 1 .. j : k \in T}
           IN  /\ Cardinality(S(i)) \in Nat /\ Cardinality(S(i - 1)) \in Nat
               /\ Cardinality(S(i)) = Cardinality(S(i - 1)) + IF i \in T THEN 1 ELSE 0
<1> DEFINE Before == {k \in 1 .. i - 1 : k \in T}
           Now == {k \in 1 .. i : k \in T}
<1>1. IsFiniteSet(Before)
  <2>1. IsFiniteSet(1 .. i - 1)
    BY FS_Interval
  <2> QED BY <2>1, FS_Subset
<1>2. Now = IF i \in T THEN Before \union {i} ELSE Before
  OBVIOUS
<1>3. i \notin Before
  OBVIOUS
<1>4. Cardinality(Before) \in Nat
  BY <1>1, FS_CardinalityType
<1>5. Cardinality(Now) = Cardinality(Before) + IF i \in T THEN 1 ELSE 0
  <2> HIDE DEF Before, Now
  <2>1. CASE i \in T
    BY <1>1, <1>2, <1>3, <1>4, <2>1, FS_AddElement
  <2>2. CASE i \notin T
    BY <1>2, <1>4, <2>2
  <2> QED BY <2>1, <2>2
<1> QED BY <1>4, <1>5

LEMMA InStringStep ==
    ASSUME NEW m, NEW i \in Nat \ {0}
    PROVE  InString(m, i) <=> IF m[i] = "quote" /\ ~Escaped(m, i)
                                THEN ~InString(m, i - 1) ELSE InString(m, i - 1)
<1> DEFINE T == {j \in Nat : m[j] = "quote" /\ ~Escaped(m, j)}
           S(j) == {k \in 1 .. j : k \in T}
<1>1. \A j \in Nat : {k \in 1 .. j : m[k] = "quote" /\ ~Escaped(m, k)} = S(j)
  OBVIOUS
<1>2. \A j \in Nat : InString(m, j) <=> Cardinality(S(j)) % 2 = 1
  BY <1>1, Zenon DEF InString
<1>3. i \in T <=> m[i] = "quote" /\ ~Escaped(m, i)
  OBVIOUS
<1>4. /\ Cardinality(S(i)) \in Nat /\ Cardinality(S(i - 1)) \in Nat
      /\ Cardinality(S(i)) = Cardinality(S(i - 1)) + IF i \in T THEN 1 ELSE 0
  <2> HIDE DEF T
  <2> QED BY CountStep
<1> HIDE DEF S, T
<1> QED BY <1>2, <1>3, <1>4

LEMMA BracesStep ==
    ASSUME NEW m, NEW i \in Nat \ {0}, NEW brace \in {"open", "close"}
    PROVE  /\ Cardinality(Braces(m, brace, i)) \in Nat
           /\ Cardinality(Braces(m, brace, i - 1)) \in Nat
           /\ Cardinality(Braces(m, brace, i)) = Cardinality(Braces(m, brace, i - 1))
                   + IF m[i] = brace /\ ~InString(m, i - 1) THEN 1 ELSE 0
<1> DEFINE T == {j \in Nat : m[j] = brace /\ ~InString(m, j)}
           S(j) == {k \in 1 .. j : k \in T}
<1>1. \A j \in Nat : Braces(m, brace, j) = S(j)
  BY DEF Braces
<1>2. i \in T <=> m[i] = brace /\ ~InString(m, i)
  OBVIOUS
<1>3. i \in T <=> m[i] = brace /\ ~InString(m, i - 1)
  BY <1>2, InStringStep
<1>4. /\ Cardinality(S(i)) \in Nat /\ Cardinality(S(i - 1)) \in Nat
      /\ Cardinality(S(i)) = Cardinality(S(i - 1)) + IF i \in T THEN 1 ELSE 0
  <2> HIDE DEF T
  <2> QED BY CountStep
<1>5. i \in Nat /\ i - 1 \in Nat
  OBVIOUS
<1> HIDE DEF S, T
<1> QED BY <1>1, <1>3, <1>4, <1>5

LEMMA DepthStep ==
    ASSUME NEW m, NEW i \in Nat \ {0}
    PROVE  /\ Depth(m, i) \in Int /\ Depth(m, i - 1) \in Int
           /\ Depth(m, i) = IF InString(m, i - 1) THEN Depth(m, i - 1)
                            ELSE Depth(m, i - 1) + Level(m[i])
<1>1. \A brace \in {"open", "close"} :
          /\ Cardinality(Braces(m, brace, i)) \in Nat
          /\ Cardinality(Braces(m, brace, i - 1)) \in Nat
          /\ Cardinality(Braces(m, brace, i)) = Cardinality(Braces(m, brace, i - 1))
                   + IF m[i] = brace /\ ~InString(m, i - 1) THEN 1 ELSE 0
  BY BracesStep, Zenon
<1> QED BY <1>1 DEF Depth, Level

\* Before the first character nothing is open.
LEMMA AtTheStart ==
    ASSUME NEW m PROVE After(m, 0) = Fresh
<1>1. Escaped(m, 1) = FALSE
  BY DEF Escaped
<1>2. InString(m, 0) = FALSE
  <2>1. {j \in 1 .. 0 : m[j] = "quote" /\ ~Escaped(m, j)} = {}
    OBVIOUS
  <2> QED BY <2>1, FS_EmptySet DEF InString
<1>3. Depth(m, 0) = 0
  <2>1. \A brace : Braces(m, brace, 0) = {}
    BY DEF Braces
  <2> QED BY <2>1, FS_EmptySet DEF Depth
<1>4. (0 + 1) = 1
  OBVIOUS
<1> QED BY <1>1, <1>2, <1>3, <1>4 DEF After, Fresh

\* Only its last character closes an object.
LEMMA EndsAtTheEnd ==
    ASSUME NEW m, IsObject(m), NEW i \in 1 .. Len(m)
    PROVE  (m[i] = "close" /\ ~InString(m, i - 1) /\ Depth(m, i - 1) = 1) <=> i = Len(m)
<1>1. Len(m) \in Nat
  BY DEF IsObject
<1>2. Depth(m, 0) = 0 /\ ~InString(m, 0)
  BY AtTheStart DEF After, Fresh
<1>3. Depth(m, 1) = 1
  BY <1>2, DepthStep DEF IsObject, Level
<1>4. CASE i = Len(m)
  <2>1. i # 1
    BY <1>3, <1>4 DEF IsObject
  <2>2. Depth(m, i - 1) > 0 /\ Depth(m, i) = 0
    BY <1>1, <1>4, <2>1 DEF IsObject
  <2> QED BY <1>1, <1>4, <2>2, DepthStep DEF Level
<1>5. CASE i # Len(m)
  <2>1. Depth(m, i) > 0
    BY <1>1, <1>5 DEF IsObject
  <2> QED BY <1>1, <1>5, <2>1, DepthStep DEF Level
<1> QED BY <1>4, <1>5

\* Look keeps what the search remembers right, and finds the end of an object when it
\* is at it.
Found(m, i) == [After(m, i) EXCEPT !.end = IF i = Len(m) THEN i ELSE 0]

State == [curly : Int, escape : BOOLEAN, inside : BOOLEAN, offset : Nat, end : Nat]

\* Field by field, what Look returns.
LEMMA LookFields ==
    ASSUME NEW f \in State, NEW c, f.end = 0
    PROVE  Look(f, c) = [curly |-> IF f.inside THEN f.curly ELSE f.curly + Level(c),
                         escape |-> (c = "escape" /\ ~f.escape),
                         inside |-> IF c = "quote" /\ ~f.escape THEN ~f.inside ELSE f.inside,
                         offset |-> f.offset + 1,
                         end |-> IF c = "close" /\ ~f.inside /\ f.curly = 1
                                   THEN f.offset + 1 ELSE 0]
BY DEF Look, State

\* What is right is a state of the search.
LEMMA AfterIsState ==
    ASSUME NEW m, NEW i \in Nat
    PROVE  /\ After(m, i) \in State
           /\ Escaped(m, i) \in BOOLEAN /\ InString(m, i) \in BOOLEAN
<1>1. Escaped(m, i) \in BOOLEAN /\ Escaped(m, i + 1) \in BOOLEAN /\ InString(m, i) \in BOOLEAN
  BY DEF Escaped, InString
<1>2. Depth(m, i) \in Int
  <2>1. Depth(m, (i + 1) - 1) \in Int
    BY DepthStep
  <2> QED BY <2>1
<1> QED BY <1>1, <1>2 DEF After, State

LEMMA LookStep ==
    ASSUME NEW m, IsObject(m), NEW i \in 1 .. Len(m)
    PROVE  Look(After(m, i - 1), m[i]) = Found(m, i)
<1>1. Len(m) \in Nat /\ m[i] \in Char /\ i \in Nat /\ i - 1 \in Nat
  BY DEF IsObject
<1>2. Escaped(m, i + 1) <=> m[i] = "escape" /\ ~Escaped(m, i)
  BY <1>1, EscapedStep
<1>3. InString(m, i) <=> IF m[i] = "quote" /\ ~Escaped(m, i)
                           THEN ~InString(m, i - 1) ELSE InString(m, i - 1)
  BY <1>1, InStringStep
<1>4. Depth(m, i) = IF InString(m, i - 1) THEN Depth(m, i - 1)
                      ELSE Depth(m, i - 1) + Level(m[i])
  BY <1>1, DepthStep
<1>5. (m[i] = "close" /\ ~InString(m, i - 1) /\ Depth(m, i - 1) = 1) <=> i = Len(m)
  BY EndsAtTheEnd
<1> DEFINE f == After(m, i - 1)
<1>6. /\ f \in State
      /\ f.curly = Depth(m, i - 1) /\ f.escape = Escaped(m, i) /\ f.inside = InString(m, i - 1)
      /\ f.offset = i - 1 /\ f.end = 0
  <2>1. (i - 1) + 1 = i
    OBVIOUS
  <2>2. f.escape = Escaped(m, (i - 1) + 1)
    BY DEF After
  <2> QED BY <1>1, <2>1, <2>2, AfterIsState DEF After
<1>7. /\ Escaped(m, i) \in BOOLEAN /\ InString(m, i - 1) \in BOOLEAN
      /\ Escaped(m, i + 1) \in BOOLEAN /\ InString(m, i) \in BOOLEAN
  BY <1>1, AfterIsState
<1>8. Found(m, i) = [curly |-> Depth(m, i), escape |-> Escaped(m, i + 1),
                     inside |-> InString(m, i), offset |-> i,
                     end |-> IF i = Len(m) THEN i ELSE 0]
  BY DEF Found, After
<1> HIDE DEF f
<1>9. Look(f, m[i]) = [curly |-> IF f.inside THEN f.curly ELSE f.curly + Level(m[i]),
                       escape |-> (m[i] = "escape" /\ ~f.escape),
                       inside |-> IF m[i] = "quote" /\ ~f.escape THEN ~f.inside ELSE f.inside,
                       offset |-> f.offset + 1,
                       end |-> IF m[i] = "close" /\ ~f.inside /\ f.curly = 1
                                 THEN f.offset + 1 ELSE 0]
  BY <1>6, LookFields
<1>10. /\ (IF f.inside THEN f.curly ELSE f.curly + Level(m[i])) = Depth(m, i)
       /\ (m[i] = "escape" /\ ~f.escape) = Escaped(m, i + 1)
       /\ (IF m[i] = "quote" /\ ~f.escape THEN ~f.inside ELSE f.inside) = InString(m, i)
       /\ f.offset + 1 = i
       /\ (IF m[i] = "close" /\ ~f.inside /\ f.curly = 1 THEN f.offset + 1 ELSE 0)
              = IF i = Len(m) THEN i ELSE 0
  BY <1>1, <1>2, <1>3, <1>4, <1>5, <1>6, <1>7
<1>11. Look(f, m[i]) = Found(m, i)
  BY <1>8, <1>9, <1>10
<1> QED BY <1>11 DEF f

\* Wherever the search goes on, it ends in what is right at the end of the text.
LEMMA SearchStep ==
    ASSUME NEW m, IsObject(m), NEW d \in 0 .. Len(m) - 1, NEW e \in d + 1 .. Len(m),
           NEW text, Len(text) = e, \A i \in d + 1 .. e : text[i] = m[i]
    PROVE  FindStates(After(m, d), text)[e] = Found(m, e)
<1> DEFINE f == After(m, d)
           Step(g) == [i \in f.offset .. Len(text) |->
                          IF i = f.offset THEN f ELSE Look(g[i - 1], text[i])]
           Right == [i \in d .. e |-> IF i = d THEN f ELSE Found(m, i)]
<1>1. Len(m) \in Nat /\ d \in Nat /\ e \in Nat /\ f.offset = d
  BY DEF IsObject, After
<1>2. \A i \in d .. e : i < Len(m) => Right[i] = After(m, i)
  <2>1. ASSUME NEW i \in d .. e, i < Len(m), i # d PROVE Found(m, i) = After(m, i)
    BY <1>1, <2>1 DEF Found, After
  <2> QED BY <1>1, <2>1
<1>3. \A i \in d + 1 .. e : Look(Right[i - 1], text[i]) = Right[i]
  <2> TAKE i \in d + 1 .. e
  <2>1. Right[i - 1] = After(m, i - 1)
    BY <1>1, <1>2
  <2>2. text[i] = m[i] /\ i \in 1 .. Len(m)
    BY <1>1
  <2>3. Right[i] = Found(m, i)
    BY <1>1
  <2> HIDE DEF Right
  <2> QED BY <2>1, <2>2, <2>3, LookStep
<1>4. Right = Step(Right)
  <2>1. \A i \in d .. e : Right[i] = IF i = d THEN f ELSE Look(Right[i - 1], text[i])
    BY <1>1, <1>3
  <2>2. Right = [i \in d .. e |-> Right[i]]
    OBVIOUS
  <2> HIDE DEF Right, f
  <2> QED BY <1>1, <2>1, <2>2
<1>5. FindStates(f, text) = CHOOSE g : g = Step(g)
  BY DEF FindStates
<1> HIDE DEF f
<1>6. PICK g : g = Step(g) /\ g = FindStates(f, text)
  <2> HIDE DEF Right, Step
  <2> QED BY <1>4, <1>5
<1>7. \A i \in d .. e : g[i] = IF i = d THEN f ELSE Look(g[i - 1], text[i])
  <2>1. g = [i \in d .. e |-> IF i = d THEN f ELSE Look(g[i - 1], text[i])]
    BY <1>1, <1>6
  <2> QED BY <2>1
<1>8. \A i \in d .. e : g[i] = Right[i]
  <2> DEFINE T == {i \in d .. e : g[i] = Right[i]}
  <2>1. d \in T
    BY <1>1, <1>7
  <2>2. \A i \in d + 1 .. e : i - 1 \in T => i \in T
    <3> TAKE i \in d + 1 .. e
    <3>1. g[i] = Look(g[i - 1], text[i])
      BY <1>1, <1>7
    <3>2. Right[i] = Look(Right[i - 1], text[i])
      BY <1>3
    <3>3. i \in d .. e
      BY <1>1
    <3> HIDE DEF Right
    <3> QED BY <3>1, <3>2, <3>3
  <2> HIDE DEF T
  <2>3. \A i \in d .. e : i \in T
    BY <1>1, <2>1, <2>2, Upwards
  <2> QED BY <2>3 DEF T
<1>9. Right[e] = Found(m, e)
  BY <1>1
<1>10. e \in d .. e
  BY <1>1
<1> HIDE DEF Right
<1> QED BY <1>6, <1>8, <1>9, <1>10 DEF f

-----------------------------------------------------------------------------
(* What was read                                                             *)

\* Between two reads of a message the buffer holds what was read of it and the search
\* is where that ends; between two messages both are as they were at first.
Halfway(m) ==
    /\ delivered < Len(m)
    /\ buffer = SubSeq(m, 1, delivered)
    /\ find = After(m, delivered)

ParserInv ==
    /\ sent \in Seq(Message) /\ delivered \in Nat
    /\ PopsWhatWasSent
    /\ Read => buffer = <<>> /\ find = Fresh
    /\ ~Read => Halfway(Last(sent))

LEMMA ParserInit == Init => ParserInv
BY DEF Init, ParserInv, PopsWhatWasSent, Read

LEMMA SendStep ==
    ASSUME ParserInv, NEW m \in Message, Send(m)
    PROVE  ParserInv'
<1>1. sent' \in Seq(Message) /\ delivered' \in Nat /\ sent' # <<>>
  BY DEF ParserInv, Send
<1>2. Last(sent') = m /\ Front(sent') = sent
  <2>1. sent \in Seq(Message) /\ sent' = Append(sent, m)
    BY DEF ParserInv, Send
  <2>2. Len(sent') = Len(sent) + 1 /\ sent'[Len(sent')] = m
    BY <2>1
  <2>3. SubSeq(sent', 1, Len(sent)) = sent
    BY <2>1
  <2> QED BY <2>1, <2>2, <2>3 DEF Last, Front
<1>3. m \in Seq(Char) /\ m # <<>> /\ Len(m) \in Nat \ {0}
  BY StreamParserAssumption DEF IsObject
<1>4. ~Read'
  BY <1>1, <1>2, <1>3 DEF Read, Send
<1>5. PopsWhatWasSent'
  BY <1>2, <1>4 DEF PopsWhatWasSent, ParserInv, Send
<1>6. Halfway(m)'
  <2>1. SubSeq(m, 1, 0) = <<>>
    BY <1>3
  <2>2. buffer' = <<>> /\ find' = Fresh /\ delivered' = 0
    BY DEF Send, ParserInv
  <2> QED BY <1>3, <2>1, <2>2, AtTheStart DEF Halfway
<1> QED BY <1>1, <1>2, <1>4, <1>5, <1>6 DEF ParserInv

LEMMA OnReadStep ==
    ASSUME ParserInv, sent # <<>>, NEW n \in 1 .. Len(Last(sent)), OnRead(n)
    PROVE  ParserInv'
<1> DEFINE m == Last(sent)
           text == buffer \o SubSeq(m, delivered + 1, delivered + n)
           e == delivered + n
           f == FindCompleteObjectEnd(text)
<1>1. /\ sent \in Seq(Message) /\ Len(sent) \in Nat \ {0} /\ m \in Message
  BY DEF ParserInv, Last
<1>2. IsObject(m) /\ m \in Seq(Char) /\ Len(m) \in Nat
  BY <1>1, StreamParserAssumption DEF IsObject
<1>3. /\ ~Read /\ Halfway(m) /\ delivered \in 0 .. Len(m) - 1
      /\ e \in delivered + 1 .. Len(m) /\ delivered' = e
  BY <1>2 DEF OnRead, ParserInv, Halfway
<1>4. text = SubSeq(m, 1, e)
  <2>1. text = SubSeq(m, 1, delivered) \o SubSeq(m, delivered + 1, e)
    BY <1>3 DEF Halfway
  <2>2. /\ 1 \in 1 .. Len(m) + 1 /\ delivered \in 1 - 1 .. Len(m)
        /\ e \in delivered .. Len(m)
    BY <1>2, <1>3
  <2> HIDE DEF m, e
  <2> QED BY <1>2, <2>1, <2>2, ConcatAdjacentSubSeq
<1>5. Len(text) = e /\ \A i \in 1 .. e : text[i] = m[i]
  <2> HIDE DEF m, e, text
  <2> QED BY <1>2, <1>3, <1>4
<1>6. f = Found(m, e)
  <2>1. f = FindStates(After(m, delivered), text)[e]
    BY <1>3, <1>5 DEF FindCompleteObjectEnd, Halfway
  <2> HIDE DEF m, e, text, f
  <2>2. \A i \in delivered + 1 .. e : text[i] = m[i]
    BY <1>3, <1>5
  <2> QED BY <1>2, <1>3, <1>5, <2>1, <2>2, SearchStep
<1>7. sent' = sent /\ IF f.end # 0 THEN Consume(text, f)
                       ELSE buffer' = text /\ find' = f /\ popped' = popped
  BY DEF OnRead
<1>8. sent' \in Seq(Message) /\ delivered' \in Nat /\ Last(sent') = m /\ Front(sent') = Front(sent)
  BY <1>1, <1>3, <1>7
<1>9. popped = Front(sent)
  BY <1>3 DEF ParserInv, PopsWhatWasSent
<1>10. CASE e = Len(m)
  <2>1. f.end = e /\ e # 0
    BY <1>3, <1>6, <1>10 DEF Found, After
  <2>2. text = m
    <3> HIDE DEF m, e, text
    <3> QED BY <1>2, <1>4, <1>10, SubSeqFull
  <2>3. popped' = Append(Front(sent), m) /\ buffer' = <<>> /\ find' = Fresh
    <3>1. SubSeq(m, 1, Len(m)) = m /\ SubSeq(m, Len(m) + 1, Len(m)) = <<>>
      BY <1>2
    <3> HIDE DEF m, text, f
    <3> QED BY <1>7, <1>9, <1>10, <2>1, <2>2, <3>1 DEF Consume
  <2>4. Append(Front(sent), m) = sent
    BY <1>1 DEF Front, Last
  <2>5. Read'
    BY <1>3, <1>8, <1>10 DEF Read
  <2> HIDE DEF m, text, f, e
  <2> QED BY <1>7, <1>8, <2>3, <2>4, <2>5 DEF ParserInv, PopsWhatWasSent
<1>11. CASE e # Len(m)
  <2>1. f = After(m, e) /\ f.end = 0
    BY <1>6, <1>11 DEF Found, After
  <2>2. buffer' = text /\ find' = f /\ popped' = popped
    BY <1>7, <2>1
  <2>3. ~Read'
    BY <1>1, <1>3, <1>7, <1>11 DEF Read
  <2>4. /\ delivered' < Len(m)
        /\ buffer' = SubSeq(m, 1, delivered') /\ find' = After(m, delivered')
    <3> HIDE DEF m, text, f, e
    <3> QED BY <1>2, <1>3, <1>4, <1>11, <2>1, <2>2
  <2> HIDE DEF m, text, f, e
  <2> QED BY <1>7, <1>8, <1>9, <2>2, <2>3, <2>4 DEF ParserInv, PopsWhatWasSent, Halfway
<1> QED BY <1>10, <1>11

LEMMA ParserStep == ParserInv /\ [Next]_vars => ParserInv'
<1> SUFFICES ASSUME ParserInv, [Next]_vars PROVE ParserInv'
  OBVIOUS
<1>1. ASSUME NEW m \in Message, Send(m) PROVE ParserInv'
  BY <1>1, SendStep
<1>2. ASSUME sent # <<>>, NEW n \in 1 .. Len(Last(sent)), OnRead(n) PROVE ParserInv'
  BY <1>2, OnReadStep
<1>3. ASSUME UNCHANGED vars PROVE ParserInv'
  BY <1>3 DEF vars, ParserInv, PopsWhatWasSent, Read, Halfway
<1> QED BY <1>1, <1>2, <1>3 DEF Next, Over

LEMMA ParserHolds == Spec => []ParserInv
<1> QED BY ParserInit, ParserStep, PTL DEF Spec

\* Wherever reads cut the texts of the messages, and however many there are, a control
\* session pops the messages that were sent, each with the read that brings its end:
\* the state findCompleteObjectEnd keeps from read to read is enough.
THEOREM MessagesArePopped == Spec => []PopsWhatWasSent
<1>1. ParserInv => PopsWhatWasSent
  BY DEF ParserInv
<1> QED BY <1>1, ParserHolds, PTL

\* The search never counts below zero and never remembers a place behind the text.
THEOREM TypeCorrect == Spec => []TypeOK
<1>1. ParserInv => TypeOK
  <2> SUFFICES ASSUME ParserInv PROVE TypeOK
    OBVIOUS
  <2>1. CASE Read
    <3>1. buffer = <<>> /\ find = Fresh /\ Len(<<>>) = 0
      BY <2>1 DEF ParserInv
    <3>2. Fresh \in [curly : Nat, escape : BOOLEAN, inside : BOOLEAN, offset : 0 .. 0, end : {0}]
      BY DEF Fresh
    <3> QED BY <3>1, <3>2 DEF TypeOK, ParserInv
  <2>2. CASE ~Read
    <3> DEFINE m == Last(sent)
    <3>1. Len(sent) \in Nat \ {0} /\ m \in Message
      BY <2>2 DEF ParserInv, Read, Last
    <3>2. IsObject(m) /\ m \in Seq(Char) /\ Len(m) \in Nat
      BY <3>1, StreamParserAssumption DEF IsObject
    <3>3. delivered \in 0 .. Len(m) - 1 /\ Halfway(m)
      BY <2>2, <3>2 DEF ParserInv, Halfway
    <3> HIDE DEF m
    <3>4. buffer \in Seq(Char) /\ Len(buffer) = delivered
      BY <3>2, <3>3 DEF Halfway
    <3>5. Depth(m, delivered) \in Nat
      <4>1. CASE delivered = 0
        <5>1. After(m, 0).curly = 0
          BY AtTheStart DEF Fresh
        <5> QED BY <4>1, <5>1 DEF After
      <4>2. CASE delivered # 0
        BY <3>2, <3>3, <4>2, DepthStep DEF IsObject
      <4> QED BY <4>1, <4>2
    <3>6. find \in [curly : Nat, escape : BOOLEAN, inside : BOOLEAN,
                    offset : 0 .. Len(buffer), end : {0}]
      BY <3>3, <3>4, <3>5, AfterIsState DEF Halfway, After, State
    <3> QED BY <3>4, <3>6 DEF TypeOK, ParserInv
  <2> QED BY <2>1, <2>2
<1> QED BY <1>1, ParserHolds, PTL
=============================================================================
