----------------------------- MODULE ToldProofs -----------------------------
(***************************************************************************)
(* Proofs about what the app task is told and what the broker is told of   *)
(* the hopper, for every depth of the queues, length of a batch, streak    *)
(* and interval.                                                           *)
(***************************************************************************)
EXTENDS AppQueue, Hopper, TLAPS

-----------------------------------------------------------------------------
(***************************************************************************)
(* AppQueue: QueueKept is inductive: the marks need the types, because a   *)
(* batch is taken only when the last one is done, and the order of the     *)
(* events needs the batch to precede the queue.                            *)
(***************************************************************************)
-----------------------------------------------------------------------------
(* What a queue holds after one end of it has changed. *)

\* Appending adds the new element and nothing else.
LEMMA HoldsAppend ==
    ASSUME NEW S, NEW s \in Seq(S), NEW e \in S, NEW x
    PROVE  Holds(Append(s, e), x) <=> Holds(s, x) \/ x = e
<1>1. /\ Append(s, e) \in Seq(S)
      /\ Len(Append(s, e)) = Len(s) + 1
      /\ \A i \in 1 .. Len(s) : Append(s, e)[i] = s[i]
      /\ Append(s, e)[Len(s) + 1] = e
  OBVIOUS
<1>2. Len(s) \in Nat /\ DOMAIN s = 1 .. Len(s) /\ DOMAIN Append(s, e) = 1 .. Len(s) + 1
  OBVIOUS
<1>3. ASSUME Holds(Append(s, e), x) PROVE Holds(s, x) \/ x = e
  <2>1. PICK i \in 1 .. Len(s) + 1 : Append(s, e)[i] = x
    BY <1>2, <1>3 DEF Holds
  <2>2. CASE i = Len(s) + 1
    BY <1>1, <2>1, <2>2
  <2>3. CASE i \in 1 .. Len(s)
    BY <1>1, <1>2, <2>1, <2>3 DEF Holds
  <2> QED BY <1>2, <2>2, <2>3
<1>4. ASSUME Holds(s, x) PROVE Holds(Append(s, e), x)
  <2>1. PICK i \in 1 .. Len(s) : s[i] = x
    BY <1>2, <1>4 DEF Holds
  <2>2. i \in 1 .. Len(s) + 1 /\ Append(s, e)[i] = x
    BY <1>1, <1>2, <2>1
  <2> QED BY <1>2, <2>2 DEF Holds
<1>5. Holds(Append(s, e), e)
  <2>1. Len(s) + 1 \in 1 .. Len(s) + 1
    BY <1>2
  <2> QED BY <1>1, <1>2, <2>1 DEF Holds
<1> QED BY <1>3, <1>4, <1>5

\* An element is the head or in the tail.
LEMMA HoldsTail ==
    ASSUME NEW S, NEW s \in Seq(S), s # <<>>, NEW x
    PROVE  Holds(s, x) <=> x = Head(s) \/ Holds(Tail(s), x)
<1>1. /\ Len(s) \in Nat \ {0} /\ DOMAIN s = 1 .. Len(s)
      /\ Tail(s) \in Seq(S) /\ Len(Tail(s)) = Len(s) - 1 /\ DOMAIN Tail(s) = 1 .. Len(s) - 1
      /\ \A i \in 1 .. Len(s) - 1 : Tail(s)[i] = s[i + 1]
      /\ Head(s) = s[1]
  OBVIOUS
<1>2. ASSUME Holds(s, x) PROVE x = Head(s) \/ Holds(Tail(s), x)
  <2>1. PICK i \in 1 .. Len(s) : s[i] = x
    BY <1>1, <1>2 DEF Holds
  <2>2. CASE i = 1
    BY <1>1, <2>1, <2>2
  <2>3. CASE i # 1
    <3>1. i - 1 \in 1 .. Len(s) - 1 /\ (i - 1) + 1 = i
      BY <1>1, <2>1, <2>3
    <3>2. Tail(s)[i - 1] = x
      BY <1>1, <2>1, <3>1
    <3> QED BY <1>1, <3>1, <3>2 DEF Holds
  <2> QED BY <2>2, <2>3
<1>3. ASSUME Holds(Tail(s), x) PROVE Holds(s, x)
  <2>1. PICK i \in 1 .. Len(s) - 1 : Tail(s)[i] = x
    BY <1>1, <1>3 DEF Holds
  <2>2. i + 1 \in 1 .. Len(s) /\ s[i + 1] = x
    BY <1>1, <2>1
  <2> QED BY <1>1, <2>2 DEF Holds
<1>4. Holds(s, Head(s))
  <2>1. 1 \in 1 .. Len(s)
    BY <1>1
  <2> QED BY <1>1, <2>1 DEF Holds
<1> QED BY <1>2, <1>3, <1>4

\* An element that was not there is there once when it is appended.
LEMMA OnceAppend ==
    ASSUME NEW S, NEW s \in Seq(S), NEW e \in S, NEW x, Once(s, x), x = e => ~Holds(s, x)
    PROVE  Once(Append(s, e), x)
<1>1. /\ Len(Append(s, e)) = Len(s) + 1
      /\ \A i \in 1 .. Len(s) : Append(s, e)[i] = s[i]
      /\ Append(s, e)[Len(s) + 1] = e
      /\ Len(s) \in Nat /\ DOMAIN s = 1 .. Len(s) /\ DOMAIN Append(s, e) = 1 .. Len(s) + 1
  OBVIOUS
<1> SUFFICES ASSUME NEW i \in 1 .. Len(s) + 1, NEW j \in 1 .. Len(s) + 1,
                    Append(s, e)[i] = x, Append(s, e)[j] = x
             PROVE  i = j
  BY <1>1 DEF Once
<1>2. CASE i \in 1 .. Len(s) /\ j \in 1 .. Len(s)
  BY <1>1, <1>2 DEF Once
<1>3. CASE i = Len(s) + 1 /\ j \in 1 .. Len(s)
  BY <1>1, <1>3 DEF Holds
<1>4. CASE j = Len(s) + 1 /\ i \in 1 .. Len(s)
  BY <1>1, <1>4 DEF Holds
<1>5. CASE i = Len(s) + 1 /\ j = Len(s) + 1
  BY <1>5
<1> QED BY <1>1, <1>2, <1>3, <1>4, <1>5

\* The tail of a queue has what the queue has but for its head.
LEMMA OnceTail ==
    ASSUME NEW S, NEW s \in Seq(S), s # <<>>, NEW x, Once(s, x)
    PROVE  Once(Tail(s), x) /\ (x = Head(s) => ~Holds(Tail(s), x))
<1>1. /\ Len(s) \in Nat \ {0} /\ DOMAIN s = 1 .. Len(s)
      /\ DOMAIN Tail(s) = 1 .. Len(s) - 1
      /\ \A i \in 1 .. Len(s) - 1 : Tail(s)[i] = s[i + 1]
      /\ Head(s) = s[1]
  OBVIOUS
<1>2. \A i \in 1 .. Len(s) - 1 : i + 1 \in 1 .. Len(s) /\ i + 1 # 1
  BY <1>1
<1>3. \A i, j \in 1 .. Len(s) : s[i] = x /\ s[j] = x => i = j
  BY <1>1 DEF Once
<1>4. Once(Tail(s), x)
  <2> SUFFICES ASSUME NEW i \in 1 .. Len(s) - 1, NEW j \in 1 .. Len(s) - 1, Tail(s)[i] = x, Tail(s)[j] = x
               PROVE  i = j
    BY <1>1 DEF Once
  <2>1. i + 1 = j + 1
    BY <1>1, <1>2, <1>3
  <2> QED BY <1>1, <2>1
<1>5. x = Head(s) => ~Holds(Tail(s), x)
  <2> SUFFICES ASSUME x = Head(s), NEW i \in 1 .. Len(s) - 1, Tail(s)[i] = x
               PROVE  FALSE
    BY <1>1 DEF Holds
  <2>1. 1 \in 1 .. Len(s)
    BY <1>1
  <2> QED BY <1>1, <1>2, <1>3, <2>1
<1> QED BY <1>4, <1>5

-----------------------------------------------------------------------------
(* The order of the events, by what the queues hold. *)

\* One queue precedes another, or a bound, by its elements.
LEMMA OrderByElement ==
    ASSUME NEW a, NEW b, NEW n
    PROVE  /\ Before(a, b) <=> \A x, y : Holds(a, x) /\ Holds(b, y) /\ x \notin Ticks /\ y \notin Ticks => x < y
           /\ UpTo(a, n) <=> \A x : Holds(a, x) /\ x \notin Ticks => x <= n
BY DEF Before, UpTo, Holds

\* An event behind all that are waiting may be appended, and so may a tick.
LEMMA RisingAppend ==
    ASSUME NEW S, NEW s \in Seq(S), NEW e \in S, Rising(s),
           e \in Ticks \/ \A x : Holds(s, x) /\ x \notin Ticks => x < e
    PROVE  Rising(Append(s, e))
<1>1. /\ \A i \in 1 .. Len(s) : Append(s, e)[i] = s[i]
      /\ Append(s, e)[Len(s) + 1] = e
      /\ Len(s) \in Nat /\ DOMAIN s = 1 .. Len(s) /\ DOMAIN Append(s, e) = 1 .. Len(s) + 1
  OBVIOUS
<1> SUFFICES ASSUME NEW i \in 1 .. Len(s) + 1, NEW j \in 1 .. Len(s) + 1, i < j,
                    Append(s, e)[i] \notin Ticks, Append(s, e)[j] \notin Ticks
             PROVE  Append(s, e)[i] < Append(s, e)[j]
  BY <1>1 DEF Rising
<1>2. i \in 1 .. Len(s) /\ Append(s, e)[i] = s[i]
  BY <1>1
<1>3. CASE j \in 1 .. Len(s)
  BY <1>1, <1>2, <1>3 DEF Rising
<1>4. CASE j = Len(s) + 1
  <2>1. Holds(s, s[i])
    BY <1>1, <1>2 DEF Holds
  <2> QED BY <1>1, <1>2, <1>4, <2>1
<1> QED BY <1>1, <1>3, <1>4

\* The head comes before the tail, which is in order.
LEMMA RisingTail ==
    ASSUME NEW S, NEW s \in Seq(S), s # <<>>, Rising(s)
    PROVE  /\ Rising(Tail(s))
           /\ Head(s) \notin Ticks => \A x : Holds(Tail(s), x) /\ x \notin Ticks => Head(s) < x
<1>1. /\ Len(s) \in Nat \ {0} /\ DOMAIN s = 1 .. Len(s)
      /\ DOMAIN Tail(s) = 1 .. Len(s) - 1
      /\ \A i \in 1 .. Len(s) - 1 : Tail(s)[i] = s[i + 1]
      /\ Head(s) = s[1]
  OBVIOUS
<1>2. \A i, j \in 1 .. Len(s) : i < j /\ s[i] \notin Ticks /\ s[j] \notin Ticks => s[i] < s[j]
  BY <1>1 DEF Rising
<1>3. Rising(Tail(s))
  <2> SUFFICES ASSUME NEW i \in 1 .. Len(s) - 1, NEW j \in 1 .. Len(s) - 1, i < j,
                      Tail(s)[i] \notin Ticks, Tail(s)[j] \notin Ticks
               PROVE  Tail(s)[i] < Tail(s)[j]
    BY <1>1 DEF Rising
  <2>1. i + 1 \in 1 .. Len(s) /\ j + 1 \in 1 .. Len(s) /\ i + 1 < j + 1
    BY <1>1
  <2> QED BY <1>1, <1>2, <2>1
<1>4. ASSUME Head(s) \notin Ticks, NEW x, Holds(Tail(s), x), x \notin Ticks PROVE Head(s) < x
  <2>1. PICK i \in 1 .. Len(s) - 1 : Tail(s)[i] = x
    BY <1>1, <1>4 DEF Holds
  <2>2. 1 \in 1 .. Len(s) /\ i + 1 \in 1 .. Len(s) /\ 1 < i + 1 /\ s[i + 1] = x
    BY <1>1, <2>1
  <2> QED BY <1>1, <1>2, <1>4, <2>2
<1> QED BY <1>3, <1>4

-----------------------------------------------------------------------------
\* Ticks and other events are told apart.
LEMMA EventFacts ==
    /\ Ticks \subseteq Event
    /\ \A e \in Event : e \notin Ticks => e \in Nat \ {0}
    /\ \A n \in Nat : n \notin Ticks
    /\ NoEvent \notin Event
    /\ \A t \in Ticks : t # NoEvent
BY QueueAssumption DEF Event

\* Taking the head of a queue leaves a queue of events, one shorter.
LEMMA TailType ==
    ASSUME NEW s \in Seq(Event), s # <<>>
    PROVE  Tail(s) \in Seq(Event) /\ Len(Tail(s)) = Len(s) - 1 /\ Head(s) \in Event /\ Len(s) \in Nat \ {0}
OBVIOUS

\* Appending an event leaves a queue of events, one longer.
LEMMA AppendType ==
    ASSUME NEW s \in Seq(Event), NEW e \in Event
    PROVE  Append(s, e) \in Seq(Event) /\ Len(Append(s, e)) = Len(s) + 1 /\ Len(s) \in Nat
OBVIOUS

\* An empty queue holds nothing and is in every order.
LEMMA EmptyFacts ==
    /\ \A x : ~Holds(<<>>, x) /\ Once(<<>>, x)
    /\ Rising(<<>>)
    /\ \A s : Before(<<>>, s) /\ Before(s, <<>>)
    /\ \A n : UpTo(<<>>, n)
    /\ <<>> \in Seq(Event) /\ Len(<<>>) = 0
BY DEF Holds, Once, Rising, Before, UpTo

\* The queue starts empty, with no mark.
LEMMA QueueInitKept == QueueInit => QueueKept
<1> SUFFICES ASSUME QueueInit PROVE QueueKept
  OBVIOUS
<1>1. QueueTypeOK
  BY EmptyFacts, QueueAssumption DEF QueueInit, QueueTypeOK
<1>2. MarksStand
  BY EmptyFacts, EventFacts DEF QueueInit, MarksStand, UnderWay, IsLate
<1>3. InOrder
  BY EmptyFacts DEF QueueInit, InOrder
<1> QED BY <1>1, <1>2, <1>3 DEF QueueKept

-----------------------------------------------------------------------------
(* One lemma per action. *)

\* A tick is appended and marked only when no tick of its kind is under way.
LEMMA PostTickKept == ASSUME QueueKept, NEW t \in Ticks, PostTick(t) PROVE QueueKept'
<1> USE DEF QueueKept
<1>1. CASE Len(inbox) >= QueueDepth
  <2>1. UNCHANGED queueVars
    BY <1>1, QueueAssumption DEF PostTick, Marked, QueueTypeOK, queueVars
  <2> QED BY <2>1 DEF QueueTypeOK, MarksStand, InOrder, UnderWay, IsLate, queueVars
<1>2. CASE Len(inbox) < QueueDepth
  <2>1. /\ inbox' = Append(inbox, t)
        /\ marks' = [marks EXCEPT ![t] = @ + 1]
        /\ UNCHANGED <<batch, late, inHand, loop, sent>>
        /\ marks[t] = 0
    BY <1>2 DEF PostTick, Marked
  <2>2. t \in Event /\ inbox \in Seq(Event)
    BY EventFacts DEF QueueTypeOK
  <2>3. ~UnderWay(t)
    BY <2>1 DEF MarksStand
  <2>4. \A x : Holds(inbox', x) <=> Holds(inbox, x) \/ x = t
    BY <2>1, <2>2, HoldsAppend
  <2>5. QueueTypeOK'
    BY <1>2, <2>1, <2>2, AppendType, QueueAssumption DEF QueueTypeOK
  <2>6. MarksStand'
    <3> SUFFICES ASSUME NEW u \in Ticks
                 PROVE  /\ marks'[u] = (IF UnderWay(u)' THEN 1 ELSE 0)
                        /\ Once(inbox', u)
                        /\ Once(batch', u)
                        /\ Holds(inbox', u) => ~Holds(batch', u) /\ inHand' # u /\ ~IsLate(u)'
                        /\ Holds(batch', u) => inHand' # u /\ ~IsLate(u)'
                        /\ inHand' = u => ~IsLate(u)'
      BY <2>1 DEF MarksStand
    <3>1. Once(inbox', u)
      BY <2>1, <2>2, <2>3, OnceAppend DEF MarksStand, UnderWay
    <3>2. marks'[u] = IF u = t THEN 1 ELSE marks[u]
      BY <2>1 DEF QueueTypeOK
    <3>3. UnderWay(u)' <=> UnderWay(u) \/ u = t
      BY <2>1, <2>4 DEF UnderWay, IsLate
    <3> QED BY <2>1, <2>3, <2>4, <3>1, <3>2, <3>3 DEF MarksStand, UnderWay, IsLate
  <2>7. InOrder'
    BY <2>1, <2>2, <2>4, RisingAppend, OrderByElement DEF InOrder
  <2> QED BY <2>5, <2>6, <2>7
<1> QED BY <1>1, <1>2, QueueAssumption DEF QueueTypeOK

\* Another event takes the next number and the last place.
LEMMA PostOtherKept == ASSUME QueueKept, PostOther PROVE QueueKept'
<1> USE DEF QueueKept
<1>1. /\ inbox' = Append(inbox, sent + 1)
      /\ sent' = sent + 1
      /\ Len(inbox) < QueueDepth
      /\ UNCHANGED <<marks, batch, late, inHand, loop>>
  BY DEF PostOther
<1>2. /\ sent \in Nat /\ sent + 1 \in Nat \ {0} /\ sent + 1 \in Event /\ sent + 1 \notin Ticks
      /\ inbox \in Seq(Event) /\ batch \in Seq(Event)
  BY EventFacts DEF QueueTypeOK, Event
<1>3. \A x : Holds(inbox', x) <=> Holds(inbox, x) \/ x = sent + 1
  BY <1>1, <1>2, HoldsAppend
<1>4. QueueTypeOK'
  BY <1>1, <1>2, AppendType, QueueAssumption DEF QueueTypeOK
<1>5. MarksStand'
  <2> SUFFICES ASSUME NEW u \in Ticks
               PROVE  Once(inbox', u) /\ (Holds(inbox', u) <=> Holds(inbox, u))
    BY <1>1 DEF MarksStand, UnderWay, IsLate
  <2> QED BY <1>1, <1>2, <1>3, OnceAppend DEF MarksStand
<1>6. \A x : (Holds(inbox, x) \/ Holds(batch, x)) /\ x \notin Ticks => x <= sent /\ x \in Nat
  <2>1. \A x : Holds(inbox, x) \/ Holds(batch, x) => x \in Event
    BY <1>2 DEF Holds
  <2> QED BY <2>1, EventFacts, OrderByElement DEF InOrder
<1>7. \A x : (Holds(inbox, x) \/ Holds(batch, x)) /\ x \notin Ticks => x < sent + 1 /\ x <= sent + 1
  BY <1>2, <1>6
<1>8. InOrder'
  <2>1. Rising(inbox')
    BY <1>1, <1>2, <1>7, RisingAppend DEF InOrder
  <2>2. Before(batch', inbox')
    BY <1>1, <1>3, <1>7, OrderByElement DEF InOrder
  <2>3. \A x : (Holds(inbox', x) \/ Holds(batch', x)) /\ x \notin Ticks => x <= sent'
    <3>1. sent + 1 <= sent + 1
      BY <1>2
    <3> QED BY <1>1, <1>3, <1>7, <3>1
  <2>4. UpTo(inbox', sent') /\ UpTo(batch', sent')
    BY <2>3, OrderByElement
  <2> QED BY <1>1, <2>1, <2>2, <2>4 DEF InOrder
<1> QED BY <1>4, <1>5, <1>8

\* The head of the queue goes to the end of the batch, with its mark.
LEMMA Moved ==
    ASSUME QueueKept, inbox # <<>>, inHand = NoEvent, late = 0,
           batch' = Append(batch, Head(inbox)), inbox' = Tail(inbox), UNCHANGED <<marks, late, inHand, sent>>
    PROVE  MarksStand' /\ InOrder'
<1> USE DEF QueueKept
<1> DEFINE e == Head(inbox)
<1>1. /\ inbox \in Seq(Event) /\ batch \in Seq(Event) /\ e \in Event
      /\ Tail(inbox) \in Seq(Event)
  BY TailType DEF QueueTypeOK
<1>2. \A x : Holds(inbox, x) <=> x = e \/ Holds(inbox', x)
  BY <1>1, HoldsTail
<1>3. \A x : Holds(batch', x) <=> Holds(batch, x) \/ x = e
  BY <1>1, HoldsAppend
<1>4. MarksStand'
  <2> SUFFICES ASSUME NEW u \in Ticks
               PROVE  /\ UnderWay(u)' <=> UnderWay(u)
                      /\ Once(inbox', u)
                      /\ Once(batch', u)
                      /\ Holds(inbox', u) => ~Holds(batch', u)
    BY EventFacts DEF MarksStand, IsLate
  <2>1. UnderWay(u)' <=> UnderWay(u)
    BY <1>2, <1>3 DEF UnderWay, IsLate
  <2>2. Once(inbox', u) /\ (u = e => ~Holds(inbox', u))
    BY <1>1, OnceTail DEF MarksStand
  <2>3. Once(batch', u)
    BY <1>1, <1>2, OnceAppend DEF MarksStand
  <2> QED BY <1>2, <1>3, <2>1, <2>2, <2>3 DEF MarksStand
<1>5. InOrder'
  <2>1. /\ Rising(inbox')
        /\ e \notin Ticks => \A x : Holds(inbox', x) /\ x \notin Ticks => e < x
    BY <1>1, RisingTail DEF InOrder
  <2>2. \A x, y : Holds(batch, x) /\ Holds(inbox, y) /\ x \notin Ticks /\ y \notin Ticks => x < y
    BY OrderByElement DEF InOrder
  <2>3. Rising(batch')
    BY <1>1, <1>2, <2>2, RisingAppend DEF InOrder
  <2>4. Before(batch', inbox')
    BY <1>2, <1>3, <2>1, <2>2, OrderByElement
  <2>5. UpTo(inbox', sent') /\ UpTo(batch', sent')
    BY <1>2, <1>3, OrderByElement DEF InOrder
  <2> QED BY <2>1, <2>3, <2>4, <2>5 DEF InOrder
<1> QED BY <1>4, <1>5

\* A wait ends with one event: the batch was empty.
LEMMA ReceiveKept == ASSUME QueueKept, Receive PROVE QueueKept'
<1> USE DEF QueueKept
<1>1. /\ inbox # <<>> /\ batch = <<>> /\ inHand = NoEvent /\ late = 0
      /\ batch' = <<Head(inbox)>> /\ inbox' = Tail(inbox)
      /\ loop' = "collect"
      /\ UNCHANGED <<marks, late, inHand, sent>>
  BY DEF Receive, QueueTypeOK
<1>2. batch' = Append(batch, Head(inbox))
  BY <1>1
<1>3. inbox \in Seq(Event) /\ batch \in Seq(Event)
  BY DEF QueueTypeOK
<1>4. /\ Tail(inbox) \in Seq(Event) /\ Len(Tail(inbox)) = Len(inbox) - 1
      /\ Head(inbox) \in Event /\ Len(inbox) \in Nat
  BY <1>1, <1>3, TailType
<1>5. batch' \in Seq(Event) /\ Len(batch') = 1
  BY <1>1, <1>4
<1>6. QueueTypeOK'
  BY <1>1, <1>4, <1>5, QueueAssumption DEF QueueTypeOK
<1>7. MarksStand' /\ InOrder'
  BY <1>1, <1>2, Moved
<1> QED BY <1>6, <1>7

\* What is collected joins the batch; the batch does not outgrow its bound.
LEMMA CollectKept == ASSUME QueueKept, Collect PROVE QueueKept'
<1> USE DEF QueueKept
<1>1. /\ loop = "collect" /\ inHand = NoEvent /\ late = 0
      /\ UNCHANGED <<marks, late, inHand, sent>>
  BY DEF Collect, QueueTypeOK
<1>2. CASE inbox # <<>> /\ Len(batch) < DrainMax
  <2>1. batch' = Append(batch, Head(inbox)) /\ inbox' = Tail(inbox) /\ UNCHANGED loop
    BY <1>2 DEF Collect
  <2>2. inbox \in Seq(Event) /\ batch \in Seq(Event)
    BY DEF QueueTypeOK
  <2>3. /\ Tail(inbox) \in Seq(Event) /\ Len(Tail(inbox)) = Len(inbox) - 1
        /\ Head(inbox) \in Event /\ Len(inbox) \in Nat
    BY <1>2, <2>2, TailType
  <2>4. batch' \in Seq(Event) /\ Len(batch') = Len(batch) + 1 /\ Len(batch) \in Nat
    BY <2>1, <2>2, <2>3, AppendType
  <2>5. QueueTypeOK'
    BY <1>1, <1>2, <2>1, <2>3, <2>4, QueueAssumption DEF QueueTypeOK
  <2>6. MarksStand' /\ InOrder'
    BY <1>1, <1>2, <2>1, Moved
  <2> QED BY <2>5, <2>6
<1>3. CASE ~(inbox # <<>> /\ Len(batch) < DrainMax)
  <2>1. loop' = "dispatch" /\ UNCHANGED <<batch, inbox>>
    BY <1>3 DEF Collect
  <2> QED BY <1>1, <2>1 DEF QueueTypeOK, MarksStand, InOrder, UnderWay, IsLate
<1> QED BY <1>2, <1>3

\* The batch loses its head: what is left is in order and precedes the queue.
LEMMA Shortened ==
    ASSUME QueueKept, batch # <<>>, batch' = Tail(batch), UNCHANGED <<inbox, sent>>
    PROVE  /\ InOrder'
           /\ \A x : Holds(batch, x) <=> x = Head(batch) \/ Holds(batch', x)
           /\ \A u \in Ticks : Once(batch', u) /\ (u = Head(batch) => ~Holds(batch', u))
           /\ batch' \in Seq(Event) /\ Len(batch') <= DrainMax /\ Head(batch) \in Event
<1> USE DEF QueueKept
<1>1. batch \in Seq(Event) /\ Len(batch) <= DrainMax
  BY DEF QueueTypeOK
<1>2. \A x : Holds(batch, x) <=> x = Head(batch) \/ Holds(batch', x)
  BY <1>1, HoldsTail
<1>3. \A u \in Ticks : Once(batch', u) /\ (u = Head(batch) => ~Holds(batch', u))
  BY <1>1, OnceTail DEF MarksStand
<1>4. batch' \in Seq(Event) /\ Len(batch') <= DrainMax /\ Head(batch) \in Event
  BY <1>1, TailType, QueueAssumption
<1>5. Rising(batch')
  BY <1>1, RisingTail DEF InOrder
<1>6. Before(batch', inbox') /\ UpTo(batch', sent')
  BY <1>2, OrderByElement DEF InOrder
<1>7. InOrder'
  BY <1>5, <1>6 DEF InOrder
<1> QED BY <1>2, <1>3, <1>4, <1>7

\* A display tick that is put off is the only one.
LEMMA DeferKept == ASSUME QueueKept, Defer PROVE QueueKept'
<1> USE DEF QueueKept
<1>1. /\ loop = "dispatch" /\ inHand = NoEvent /\ batch # <<>> /\ Head(batch) = Display
      /\ late' = late + 1 /\ batch' = Tail(batch)
      /\ UNCHANGED <<inbox, marks, inHand, loop, sent>>
  BY DEF Defer
<1>2. Display \in Ticks
  BY DEF Ticks
<1>3. /\ InOrder'
      /\ \A x : Holds(batch, x) <=> x = Head(batch) \/ Holds(batch', x)
      /\ \A u \in Ticks : Once(batch', u) /\ (u = Head(batch) => ~Holds(batch', u))
      /\ batch' \in Seq(Event) /\ Len(batch') <= DrainMax
  BY <1>1, Shortened
<1>4. late = 0 /\ ~Holds(inbox, Display) /\ ~Holds(batch', Display)
  <2>1. Holds(batch, Display)
    BY <1>1, <1>3
  <2>2. ~IsLate(Display) /\ ~Holds(inbox, Display)
    BY <1>2, <2>1 DEF MarksStand
  <2> QED BY <1>1, <1>2, <1>3, <2>2 DEF IsLate, QueueTypeOK
<1>5. late' = 1
  BY <1>1, <1>4
<1>6. QueueTypeOK'
  BY <1>1, <1>3, <1>5 DEF QueueTypeOK
<1>7. MarksStand'
  <2> SUFFICES ASSUME NEW u \in Ticks
               PROVE  /\ UnderWay(u)' <=> UnderWay(u)
                      /\ Holds(inbox', u) => ~Holds(batch', u) /\ inHand' # u /\ ~IsLate(u)'
                      /\ Holds(batch', u) => inHand' # u /\ ~IsLate(u)'
                      /\ inHand' = u => ~IsLate(u)'
    BY <1>1, <1>3, <1>5 DEF MarksStand
  <2>1. IsLate(u)' <=> u = Display
    BY <1>5 DEF IsLate
  <2>2. ~IsLate(u)
    BY <1>4 DEF IsLate
  <2>3. inHand' # u
    BY <1>1, EventFacts
  <2> QED BY <1>1, <1>3, <1>4, <2>1, <2>2, <2>3 DEF MarksStand, UnderWay
<1> QED BY <1>3, <1>6, <1>7

\* The head of the batch is in hand and no longer in the batch.
LEMMA DispatchKept == ASSUME QueueKept, Dispatch PROVE QueueKept'
<1> USE DEF QueueKept
<1>1. /\ loop = "dispatch" /\ inHand = NoEvent /\ batch # <<>>
      /\ inHand' = Head(batch) /\ batch' = Tail(batch) /\ Head(batch) # Display
      /\ UNCHANGED <<inbox, marks, late, loop, sent>>
  BY DEF Dispatch
<1>2. /\ InOrder'
      /\ \A x : Holds(batch, x) <=> x = Head(batch) \/ Holds(batch', x)
      /\ \A u \in Ticks : Once(batch', u) /\ (u = Head(batch) => ~Holds(batch', u))
      /\ batch' \in Seq(Event) /\ Len(batch') <= DrainMax /\ Head(batch) \in Event
  BY <1>1, Shortened
<1>3. QueueTypeOK'
  BY <1>1, <1>2 DEF QueueTypeOK
<1>4. MarksStand'
  <2> SUFFICES ASSUME NEW u \in Ticks
               PROVE  /\ UnderWay(u)' <=> UnderWay(u)
                      /\ Holds(inbox', u) => ~Holds(batch', u) /\ inHand' # u /\ ~IsLate(u)'
                      /\ Holds(batch', u) => inHand' # u /\ ~IsLate(u)'
                      /\ inHand' = u => ~IsLate(u)'
    BY <1>1, <1>2 DEF MarksStand
  <2>1. inHand # u /\ (IsLate(u)' <=> IsLate(u))
    BY <1>1, EventFacts DEF IsLate
  <2> QED BY <1>1, <1>2, <2>1 DEF MarksStand, UnderWay
<1> QED BY <1>2, <1>3, <1>4

\* The display tick that was put off is in hand.
LEMMA DispatchLateKept == ASSUME QueueKept, DispatchLate PROVE QueueKept'
<1> USE DEF QueueKept
<1>1. /\ loop = "dispatch" /\ inHand = NoEvent /\ batch = <<>> /\ late > 0
      /\ inHand' = Display /\ late' = late - 1
      /\ UNCHANGED <<inbox, marks, batch, loop, sent>>
  BY DEF DispatchLate
<1>2. late = 1 /\ late' = 0
  BY <1>1 DEF MarksStand, QueueTypeOK
<1>3. Display \in Ticks /\ Display \in Event
  BY EventFacts DEF Ticks
<1>4. QueueTypeOK'
  BY <1>1, <1>2, <1>3 DEF QueueTypeOK
<1>5. InOrder'
  BY <1>1 DEF InOrder
<1>6. MarksStand'
  <2> SUFFICES ASSUME NEW u \in Ticks
               PROVE  /\ UnderWay(u)' <=> UnderWay(u)
                      /\ Holds(inbox', u) => inHand' # u
                      /\ ~Holds(batch', u)
    BY <1>1, <1>2 DEF MarksStand, IsLate
  <2>1. inHand # u /\ ~IsLate(u)' /\ (IsLate(u) <=> u = Display) /\ ~Holds(batch, u)
    BY <1>1, <1>2, EventFacts, EmptyFacts DEF IsLate
  <2> QED BY <1>1, <2>1 DEF MarksStand, UnderWay
<1> QED BY <1>4, <1>5, <1>6

\* The mark of a tick is lowered when it has been served, and only then.
LEMMA ReleaseKept == ASSUME QueueKept, Release PROVE QueueKept'
<1> USE DEF QueueKept
<1>1. /\ inHand # NoEvent /\ marks' = Unmarked(inHand) /\ inHand' = NoEvent
      /\ UNCHANGED <<inbox, batch, late, loop, sent>>
  BY DEF Release
<1>2. InOrder'
  BY <1>1 DEF InOrder
<1>3. \A u \in Ticks : marks[u] \in {0, 1} /\ (marks[u] = 1 <=> UnderWay(u))
  BY DEF MarksStand
<1>4. /\ marks' \in [Ticks -> Nat]
      /\ \A u \in Ticks : marks'[u] = IF u = inHand THEN 0 ELSE marks[u]
  <2>1. CASE inHand \in Ticks
    <3>1. marks[inHand] = 1
      BY <1>3, <2>1 DEF UnderWay
    <3>2. marks' = [marks EXCEPT ![inHand] = @ - 1]
      BY <1>1, <2>1, <3>1 DEF Unmarked
    <3> QED BY <2>1, <3>1, <3>2 DEF QueueTypeOK
  <2>2. CASE inHand \notin Ticks
    BY <1>1, <2>2 DEF Unmarked, QueueTypeOK
  <2> QED BY <2>1, <2>2
<1>5. QueueTypeOK'
  BY <1>1, <1>4 DEF QueueTypeOK
<1>6. MarksStand'
  <2> SUFFICES ASSUME NEW u \in Ticks
               PROVE  marks'[u] = (IF UnderWay(u)' THEN 1 ELSE 0) /\ inHand' # u
    BY <1>1 DEF MarksStand, IsLate
  <2>1. inHand' # u
    BY <1>1, EventFacts
  <2>2. UnderWay(u)' <=> UnderWay(u) /\ u # inHand
    BY <1>1, <2>1 DEF MarksStand, UnderWay, IsLate
  <2> QED BY <1>3, <1>4, <2>1, <2>2
<1> QED BY <1>2, <1>5, <1>6

\* The wait begins again when nothing is left of the batch.
LEMMA BatchDoneKept == ASSUME QueueKept, BatchDone PROVE QueueKept'
BY DEF QueueKept, BatchDone, QueueTypeOK, MarksStand, InOrder, UnderWay, IsLate

\* The marks of the coalesced ticks are those that are under way, and the other
\* events stay in order, whatever the depth of the queue and the size of a batch
\* (app_event_post, app_dispatch_event_batch).
THEOREM QueueIsKept == QueueSpec => []QueueKept
<1>1. QueueInit => QueueKept
  BY QueueInitKept
<1>2. QueueKept /\ [QueueNext]_queueVars => QueueKept'
  <2> SUFFICES ASSUME QueueKept, [QueueNext]_queueVars PROVE QueueKept'
    OBVIOUS
  <2>1. ASSUME NEW t \in Ticks, PostTick(t) PROVE QueueKept'
    BY <2>1, PostTickKept
  <2>2. CASE PostOther
    BY <2>2, PostOtherKept
  <2>3. CASE Receive
    BY <2>3, ReceiveKept
  <2>4. CASE Collect
    BY <2>4, CollectKept
  <2>5. CASE Defer
    BY <2>5, DeferKept
  <2>6. CASE Dispatch
    BY <2>6, DispatchKept
  <2>7. CASE DispatchLate
    BY <2>7, DispatchLateKept
  <2>8. CASE Release
    BY <2>8, ReleaseKept
  <2>9. CASE BatchDone
    BY <2>9, BatchDoneKept
  <2>10. CASE UNCHANGED queueVars
    BY <2>10 DEF QueueKept, QueueTypeOK, MarksStand, InOrder, UnderWay, IsLate, queueVars
  <2> QED BY <2>1, <2>2, <2>3, <2>4, <2>5, <2>6, <2>7, <2>8, <2>9, <2>10 DEF QueueNext, AppLoop
<1> QED BY <1>1, <1>2, PTL DEF QueueSpec

-----------------------------------------------------------------------------
(***************************************************************************)
(* Hopper: the counts of the debounce never exceed the row of readings     *)
(* behind them, which lasted as long as the debounce waited; and what      *)
(* waits in the queue of transitions is the level, once.                   *)
(***************************************************************************)
(* The values of the state.                                                 *)
Inputs == [lvl: {"normal", "low"}, clear: Nat, blocked: Nat, debounce: BOOLEAN, force: BOOLEAN,
           next: 0..Interval, bg: Nat \cup {None}]
Levels == {"normal", "low", "empty"}
Rows == [kind: Beams \cup {None}, run: Nat, span: Nat, gap: Nat]
HopperTyped ==
    /\ beam \in Beams /\ plug \in BOOLEAN
    /\ input \in Inputs
    /\ level \in [state: Levels, latched: BOOLEAN, queue: Seq(Levels)]
    /\ power \in [last: BOOLEAN, confirmed: BOOLEAN, valid: BOOLEAN, gate: BOOLEAN]
    /\ told = [hopper |-> told.hopper, mains |-> told.mains]
    /\ seen \in [now: Rows, turn: Rows, job: BOOLEAN, soon: BOOLEAN]
(* The counts of the debounce do not exceed the row that was read, which    *)
(* lasted as long as the debounce waited; a job restarts the clear ones.    *)
Counts(i, s) ==
    /\ i.lvl = "normal" => /\ i.blocked = 0 /\ i.clear < LowStreak
                           /\ i.clear > 0 => /\ i.debounce /\ s.kind = "clear" /\ s.run >= i.clear
                                             /\ s.span + i.next >= i.clear * Interval
    /\ i.lvl = "low" => /\ i.clear = 0 /\ i.blocked < NormalStreak
                        /\ i.blocked > 0 => s.kind = "blocked" /\ s.run >= i.blocked
    /\ i.force => i.clear = 0
(* What is left to wait and what was waited make up the interval.           *)
Spaced(i, s) == i.debounce /\ ~(i.lvl = "low" /\ s.kind = "clear") /\ s.kind # None => s.gap + i.next >= Interval
(* The row that last turned the level.                                      *)
Turned(lvl, s) ==
    /\ lvl = "low" => s.kind = "clear" /\ s.run >= LowStreak /\ s.span >= (LowStreak - 1) * Interval
    /\ lvl = "normal" /\ s.kind # None => s.kind = "blocked" /\ s.run >= NormalStreak
(* At most one change waits, that of a job since the last poll.             *)
QueueIsLatest ==
    \/ level.queue = <<>> /\ (told.hopper # None => told.hopper = level.state)
    \/ level.queue = <<level.state>> /\ seen.job
HopperInv ==
    /\ HopperTyped /\ Counts(input, seen.now) /\ Spaced(input, seen.now) /\ Turned(input.lvl, seen.turn)
    /\ level.state = Compute(level.latched, input.lvl) /\ QueueIsLatest
    /\ told.mains # None => told.mains = power.confirmed
    /\ ~seen.soon

-----------------------------------------------------------------------------
\* A tick goes by: the wait shrinks and the row gets older.
LEMMA TimedIs ==
    ASSUME NEW i \in Inputs
    PROVE  /\ Timed(i) \in Inputs /\ Timed(i).lvl = i.lvl /\ Timed(i).clear = i.clear /\ Timed(i).blocked = i.blocked
           /\ Timed(i).debounce = i.debounce /\ Timed(i).force = i.force /\ Timed(i).next = Passed(i.next)
<1>1. PICK next \in 0..Interval: next = Passed(i.next)
  BY IntervalsAreTicks DEF Passed, Inputs
<1>2. PICK bg \in Nat \cup {None}: bg = IF i.bg = None \/ i.bg = Background THEN i.bg ELSE i.bg + 1
  <2>1. i.bg \in Nat \cup {None}
    BY DEF Inputs
  <2>2. i.bg # None => i.bg + 1 \in Nat
    BY <2>1
  <2> QED BY <2>1, <2>2
<1>3. PICK j: j = [i EXCEPT !.next = next, !.bg = bg]
  OBVIOUS
<1>4. /\ j \in Inputs /\ j.lvl = i.lvl /\ j.clear = i.clear /\ j.blocked = i.blocked
      /\ j.debounce = i.debounce /\ j.force = i.force /\ j.next = next
  BY <1>3 DEF Inputs
<1>5. Timed(i) = j
  BY <1>1, <1>2, <1>3, Zenon DEF Timed
<1> QED BY <1>1, <1>4, <1>5

LEMMA AgedIs ==
    ASSUME NEW s \in Rows
    PROVE  /\ Aged(s) \in Rows /\ Aged(s).kind = s.kind /\ Aged(s).run = s.run
           /\ Aged(s).span = IF s.span < LowStreak * Interval THEN s.span + 1 ELSE s.span
           /\ Aged(s).gap = IF s.gap < Interval THEN s.gap + 1 ELSE s.gap
<1>1. PICK span \in Nat: span = IF s.span < LowStreak * Interval THEN s.span + 1 ELSE s.span
  BY DEF Rows
<1>2. PICK gap \in Nat: gap = IF s.gap < Interval THEN s.gap + 1 ELSE s.gap
  BY DEF Rows
<1>3. PICK r: r = [s EXCEPT !.span = span, !.gap = gap]
  OBVIOUS
<1>4. r \in Rows /\ r.kind = s.kind /\ r.run = s.run /\ r.span = span /\ r.gap = gap
  BY <1>3 DEF Rows
<1>5. Aged(s) = r
  BY <1>1, <1>2, <1>3, Zenon DEF Aged
<1> QED BY <1>1, <1>2, <1>4, <1>5

\* Readings of a row, one interval apart, take at least the intervals between.
LEMMA MoreTakesLonger ==
    ASSUME NEW m \in Nat, NEW n \in Nat, m <= n
    PROVE  m * Interval \in Nat /\ n * Interval \in Nat /\ m * Interval <= n * Interval
           /\ (m + 1) * Interval = m * Interval + Interval
<1>1. PICK d \in Nat: n = m + d
  <2>1. n - m \in Nat /\ n = m + (n - m)
    OBVIOUS
  <2> QED BY <2>1
<1>2. n * Interval = m * Interval + d * Interval /\ m * Interval \in Nat /\ d * Interval \in Nat
  BY <1>1, IntervalsAreTicks
<1> QED BY <1>2, IntervalsAreTicks

LEMMA AgeKept ==
    ASSUME NEW i \in Inputs, NEW s \in Rows, Counts(i, s), Spaced(i, s)
    PROVE  Counts(Timed(i), Aged(s)) /\ Spaced(Timed(i), Aged(s))
<1> DEFINE j == Timed(i)
           r == Aged(s)
<1>1. /\ j \in Inputs /\ j.lvl = i.lvl /\ j.clear = i.clear /\ j.blocked = i.blocked
      /\ j.debounce = i.debounce /\ j.force = i.force /\ j.next = Passed(i.next)
  BY TimedIs
<1>2. /\ r \in Rows /\ r.kind = s.kind /\ r.run = s.run
      /\ r.span = IF s.span < LowStreak * Interval THEN s.span + 1 ELSE s.span
      /\ r.gap = IF s.gap < Interval THEN s.gap + 1 ELSE s.gap
  BY AgedIs
<1> HIDE DEF j, r
<1>3. i.next \in Nat /\ j.next \in Nat /\ s.span \in Nat /\ s.gap \in Nat /\ i.clear \in Nat
      /\ (j.next = i.next - 1 \/ (j.next = 0 /\ i.next = 0))
  BY <1>1, IntervalsAreTicks DEF Inputs, Rows, Passed
<1>4. Spaced(j, r)
  BY <1>1, <1>2, <1>3, IntervalsAreTicks DEF Spaced
<1>5. ASSUME i.lvl = "normal", i.clear > 0 PROVE r.span + j.next >= i.clear * Interval
  <2>1. i.clear * Interval \in Nat /\ LowStreak * Interval \in Nat /\ i.clear * Interval <= LowStreak * Interval
    BY <1>3, <1>5, MoreTakesLonger, StreaksAreOrdered DEF Counts
  <2>2. s.span + i.next >= i.clear * Interval
    BY <1>5 DEF Counts
  <2> QED BY <1>2, <1>3, <2>1, <2>2
<1>6. Counts(j, r)
  BY <1>1, <1>2, <1>5 DEF Counts
<1> QED BY <1>4, <1>6 DEF j, r

-----------------------------------------------------------------------------
\* A reading goes on with the row or starts one.
GoesOn(s, r) ==
    /\ r.kind = beam
    /\ IF s.kind = beam THEN r.run = (IF s.run < LowStreak THEN s.run + 1 ELSE s.run) /\ r.span = s.span /\ r.gap = 0
       ELSE r.run = 1 /\ r.span = 0 /\ r.gap = 0
LEMMA ReadOnIs == ASSUME beam \in Beams, NEW s \in Rows PROVE ReadOn(s) \in Rows /\ GoesOn(Aged(s), ReadOn(s))
<1> DEFINE a == Aged(s)
<1>1. a \in Rows /\ a.kind = s.kind
  BY AgedIs
<1> HIDE DEF a
<1>2. CASE s.kind = beam
  <2>1. PICK run \in Nat: run = IF a.run < LowStreak THEN a.run + 1 ELSE a.run
    BY <1>1 DEF Rows
  <2>2. PICK zero \in Nat: zero = 0
    OBVIOUS
  <2>3. PICK r: r = [a EXCEPT !.run = run, !.gap = zero]
    OBVIOUS
  <2>4. r \in Rows /\ r.kind = a.kind /\ r.run = run /\ r.span = a.span /\ r.gap = 0
    BY <1>1, <2>2, <2>3 DEF Rows
  <2>5. ReadOn(s) = r
    BY <1>2, <2>1, <2>2, <2>3, Zenon DEF ReadOn, a
  <2> QED BY <1>1, <1>2, <2>1, <2>4, <2>5 DEF GoesOn, a
<1>3. CASE s.kind # beam
  <2>1. ReadOn(s) = [kind |-> beam, run |-> 1, span |-> 0, gap |-> 0]
    BY <1>3 DEF ReadOn
  <2> QED BY <1>1, <1>3, <2>1 DEF GoesOn, Rows, a
<1> QED BY <1>2, <1>3

\* A blocked reading (hopper_input_read_blocked): food is there.
LEMMA BlockedReadKept ==
    ASSUME NEW i \in Inputs, NEW s \in Rows, NEW r \in Rows, Counts(i, s), ~i.force, beam = "blocked", GoesOn(s, r)
    PROVE  /\ BlockedRead(i) \in Inputs /\ Counts(BlockedRead(i), r) /\ Spaced(BlockedRead(i), r)
           /\ BlockedRead(i).lvl = i.lvl \/ Turned(BlockedRead(i).lvl, r)
<1>0. /\ i.blocked \in Nat /\ i.clear \in Nat /\ s.run \in Nat /\ 0 \in Nat /\ Interval \in 0..Interval /\ i.lvl \in {"normal", "low"}
      /\ 0 < LowStreak /\ LowStreak \in Nat /\ Interval \in Nat
  BY IntervalsAreTicks, StreaksAreOrdered DEF Inputs, Rows
<1>1. PICK more \in Nat: more = i.blocked + 1
  BY <1>0
<1>2. PICK zero \in Nat: zero = 0
  BY <1>0
<1>3. PICK b: b = [i EXCEPT !.clear = zero, !.blocked = more]
  OBVIOUS
<1>4. b \in Inputs /\ b.lvl = i.lvl /\ b.clear = 0 /\ b.blocked = more /\ b.force = i.force /\ b.debounce = i.debounce
  BY <1>2, <1>3 DEF Inputs
<1>5. CASE i.lvl = "normal"
  <2>1. PICK j: j = [b EXCEPT !.blocked = i.blocked, !.debounce = FALSE]
    OBVIOUS
  <2>2. BlockedRead(i) = j
    BY <1>1, <1>2, <1>3, <1>5, <2>1 DEF BlockedRead
  <2>3. j \in Inputs /\ j.lvl = i.lvl /\ j.clear = 0 /\ j.blocked = i.blocked /\ j.force = i.force /\ j.debounce = FALSE
    BY <1>0, <1>4, <2>1 DEF Inputs
  <2> QED BY <1>0, <1>5, <2>2, <2>3 DEF Counts, Spaced
<1>6. CASE i.lvl = "low" /\ more >= NormalStreak
  <2>1. PICK j: j = [b EXCEPT !.lvl = "normal", !.clear = zero, !.blocked = zero, !.debounce = FALSE]
    OBVIOUS
  <2>2. BlockedRead(i) = j
    <3>1. BlockedRead(i) = Settled(b, "normal")
      BY <1>1, <1>2, <1>3, <1>4, <1>6 DEF BlockedRead
    <3> QED BY <1>2, <2>1, <3>1, Zenon DEF Settled
  <2>3. j \in Inputs /\ j.lvl = "normal" /\ j.clear = 0 /\ j.blocked = 0 /\ j.force = i.force /\ j.debounce = FALSE
    BY <1>2, <1>4, <2>1 DEF Inputs
  <2>4. r.kind = "blocked" /\ r.run >= NormalStreak
    BY <1>0, <1>1, <1>6, StreaksAreOrdered DEF Counts, GoesOn
  <2> QED BY <1>0, <2>2, <2>3, <2>4 DEF Counts, Spaced, Turned
<1>7. CASE i.lvl = "low" /\ ~(more >= NormalStreak)
  <2>1. PICK j: j = [b EXCEPT !.debounce = TRUE, !.next = Interval]
    OBVIOUS
  <2>2. BlockedRead(i) = j
    BY <1>1, <1>2, <1>3, <1>4, <1>7, <2>1 DEF BlockedRead, Waits
  <2>3. j \in Inputs /\ j.lvl = "low" /\ j.clear = 0 /\ j.blocked = more /\ j.force = i.force /\ j.next = Interval
    BY <1>0, <1>4, <1>7, <2>1 DEF Inputs
  <2>4. r.kind = "blocked" /\ r.run >= more /\ r.gap = 0
    BY <1>0, <1>1, <1>7, StreaksAreOrdered DEF Counts, GoesOn
  <2> QED BY <1>0, <1>7, <2>2, <2>3, <2>4, StreaksAreOrdered DEF Counts, Spaced
<1> QED BY <1>0, <1>5, <1>6, <1>7

\* A clear reading (hopper_input_read_clear).
LEMMA ClearReadKept ==
    ASSUME NEW i \in Inputs, NEW s \in Rows, NEW r \in Rows, Counts(i, s), ~i.force, beam = "clear", GoesOn(s, r),
           i.clear > 0 => i.next = 0
    PROVE  /\ ClearRead(i) \in Inputs /\ Counts(ClearRead(i), r) /\ Spaced(ClearRead(i), r)
           /\ ClearRead(i).lvl = i.lvl \/ Turned(ClearRead(i).lvl, r)
<1>0. /\ i.blocked \in Nat /\ i.clear \in Nat /\ s.run \in Nat /\ s.span \in Nat /\ 0 \in Nat /\ Interval \in 0..Interval
      /\ i.lvl \in {"normal", "low"} /\ 0 < LowStreak /\ LowStreak \in Nat /\ Interval \in Nat /\ 0 < NormalStreak
  BY IntervalsAreTicks, StreaksAreOrdered DEF Inputs, Rows
<1>1. PICK more \in Nat: more = i.clear + 1
  BY <1>0
<1>2. PICK zero \in Nat: zero = 0
  BY <1>0
<1>3. PICK c: c = [i EXCEPT !.blocked = zero, !.clear = more]
  OBVIOUS
<1>4. c \in Inputs /\ c.lvl = i.lvl /\ c.clear = more /\ c.blocked = 0 /\ c.force = i.force /\ c.debounce = i.debounce
      /\ c.next = i.next
  BY <1>2, <1>3 DEF Inputs
<1>5. CASE i.lvl = "low"
  <2>1. PICK j: j = [c EXCEPT !.clear = i.clear]
    OBVIOUS
  <2>2. ClearRead(i) = j
    BY <1>1, <1>2, <1>3, <1>5, <2>1 DEF ClearRead
  <2>3. j \in Inputs /\ j.lvl = i.lvl /\ j.clear = i.clear /\ j.blocked = 0 /\ j.force = i.force
    BY <1>0, <1>4, <2>1 DEF Inputs
  <2> QED BY <1>0, <1>5, <2>2, <2>3 DEF Counts, Spaced, GoesOn
<1>6. ASSUME i.lvl = "normal"
      PROVE  r.kind = "clear" /\ r.run >= more /\ r.span >= i.clear * Interval /\ more <= LowStreak
             /\ more * Interval = i.clear * Interval + Interval /\ i.clear * Interval \in Nat /\ r.gap = 0
  <2>1. more <= LowStreak
    BY <1>0, <1>1, <1>6 DEF Counts
  <2>2. more * Interval = i.clear * Interval + Interval /\ i.clear * Interval \in Nat
    BY <1>0, <1>1, MoreTakesLonger
  <2>3. r.run >= more
    BY <1>0, <1>1, <1>6, <2>1 DEF Counts, GoesOn
  <2>4. r.span >= i.clear * Interval
    <3>1. CASE i.clear = 0
      BY <1>0, <3>1 DEF GoesOn
    <3>2. CASE i.clear > 0
      BY <1>0, <1>6, <3>2 DEF Counts, GoesOn
    <3> QED BY <1>0, <3>1, <3>2
  <2> QED BY <2>1, <2>2, <2>3, <2>4 DEF GoesOn
<1>7. CASE i.lvl = "normal" /\ more >= LowStreak
  <2>1. PICK j: j = [c EXCEPT !.lvl = "low", !.clear = zero, !.blocked = zero, !.debounce = FALSE]
    OBVIOUS
  <2>2. ClearRead(i) = j
    <3>1. ClearRead(i) = Settled(c, "low")
      BY <1>1, <1>2, <1>3, <1>4, <1>7 DEF ClearRead
    <3> QED BY <1>2, <2>1, <3>1, Zenon DEF Settled
  <2>3. j \in Inputs /\ j.lvl = "low" /\ j.clear = 0 /\ j.blocked = 0 /\ j.force = i.force /\ j.debounce = FALSE
    BY <1>2, <1>4, <2>1 DEF Inputs
  <2>4. r.kind = "clear" /\ r.run >= LowStreak /\ r.span >= (LowStreak - 1) * Interval
    <3>1. i.clear = LowStreak - 1
      BY <1>0, <1>1, <1>6, <1>7
    <3> QED BY <1>0, <1>6, <1>7, <3>1
  <2> QED BY <1>0, <2>2, <2>3, <2>4 DEF Counts, Spaced, Turned
<1>8. CASE i.lvl = "normal" /\ ~(more >= LowStreak)
  <2>1. PICK j: j = [c EXCEPT !.debounce = TRUE, !.next = Interval]
    OBVIOUS
  <2>2. ClearRead(i) = j
    BY <1>1, <1>2, <1>3, <1>4, <1>8, <2>1 DEF ClearRead, Waits
  <2>3. j \in Inputs /\ j.lvl = "normal" /\ j.clear = more /\ j.blocked = 0 /\ j.force = i.force /\ j.next = Interval
        /\ j.debounce = TRUE
    BY <1>0, <1>4, <1>8, <2>1 DEF Inputs
  <2>4. r.span \in Nat
    BY DEF Rows
  <2>5. r.span + j.next >= j.clear * Interval
    BY <1>0, <1>6, <1>8, <2>3, <2>4
  <2>6. r.kind = "clear" /\ r.run >= j.clear /\ j.clear < LowStreak
    BY <1>0, <1>6, <1>8, <2>3
  <2>7. Counts(j, r)
    BY <2>3, <2>5, <2>6 DEF Counts
  <2>8. Spaced(j, r)
    BY <1>0, <1>6, <1>8, <2>3 DEF Spaced
  <2> QED BY <1>8, <2>2, <2>3, <2>7, <2>8
<1> QED BY <1>0, <1>5, <1>7, <1>8

-----------------------------------------------------------------------------
\* A sample (hopper_input_sample): a failed one uses up what was asked.
LEMMA SampledKept ==
    ASSUME beam \in Beams, NEW i \in Inputs, NEW s \in Rows, NEW r \in Rows, Counts(i, s), Spaced(i, s),
           NEW bg \in BOOLEAN, NEW ok \in BOOLEAN, IF ok THEN GoesOn(s, r) ELSE r = s,
           i.clear > 0 => i.next = 0
    PROVE  /\ Sampled(i, bg, ok) \in Inputs /\ Counts(Sampled(i, bg, ok), r) /\ Spaced(Sampled(i, bg, ok), r)
           /\ Sampled(i, bg, ok).lvl = i.lvl \/ Turned(Sampled(i, bg, ok).lvl, r)
<1>1. PICK taken: taken = [i EXCEPT !.force = FALSE]
  OBVIOUS
<1>2. /\ taken \in Inputs /\ taken.lvl = i.lvl /\ taken.clear = i.clear /\ taken.blocked = i.blocked
      /\ taken.debounce = i.debounce /\ taken.force = FALSE /\ taken.next = i.next /\ taken.bg = i.bg
  BY <1>1 DEF Inputs
<1>3. CASE ~ok
  <2>1. Sampled(i, bg, ok) = taken
    BY <1>1, <1>3 DEF Sampled
  <2> QED BY <1>2, <1>3, <2>1 DEF Counts, Spaced
<1>4. CASE ok
  <2>1. PICK age \in Nat \cup {None}: age = IF bg /\ ~i.force /\ ~i.debounce THEN 0 ELSE taken.bg
    BY <1>2 DEF Inputs
  <2>2. PICK j: j = [taken EXCEPT !.bg = age]
    OBVIOUS
  <2>3. /\ j \in Inputs /\ j.lvl = i.lvl /\ j.clear = i.clear /\ j.blocked = i.blocked
        /\ j.debounce = i.debounce /\ j.force = FALSE /\ j.next = i.next
    BY <1>2, <2>1, <2>2 DEF Inputs
  <2>4. Sampled(i, bg, ok) = Read(j)
    BY <1>1, <1>4, <2>1, <2>2, Zenon DEF Sampled
  <2>5. Counts(j, s) /\ GoesOn(s, r) /\ (j.clear > 0 => j.next = 0) /\ ~j.force
    BY <1>4, <2>3 DEF Counts
  <2>6. CASE beam = "blocked"
    <3>1. Read(j) = BlockedRead(j)
      BY <2>6 DEF Read
    <3> QED BY <2>3, <2>4, <2>5, <2>6, <3>1, BlockedReadKept
  <2>7. CASE beam = "clear"
    <3>1. Read(j) = ClearRead(j)
      BY <2>7 DEF Read
    <3> QED BY <2>3, <2>4, <2>5, <2>7, <3>1, ClearReadKept
  <2> QED BY <2>6, <2>7 DEF Beams
<1> QED BY <1>3, <1>4

\* hopper_input_poll, with the row of the tick; an update reads nothing.
LEMMA PolledKept ==
    ASSUME beam \in Beams, NEW i \in Inputs, NEW s \in Rows, Counts(i, s), Spaced(i, s),
           NEW bg \in BOOLEAN, NEW ok \in BOOLEAN,
           NEW r, r = Noted(s, ~SeedsBackground(Timed(i), bg) /\ ShouldSample(Timed(i), bg) /\ ok)
    PROVE  LET j == Polled(Timed(i), bg, ok)
           IN  /\ j \in Inputs /\ r \in Rows /\ Counts(j, r) /\ Spaced(j, r)
               /\ j.lvl = i.lvl \/ Turned(j.lvl, r)
<1>1. PICK t: t = Timed(i)
  OBVIOUS
<1>2. t \in Inputs /\ t.lvl = i.lvl
  BY <1>1, TimedIs
<1>3. Aged(s) \in Rows /\ Counts(t, Aged(s)) /\ Spaced(t, Aged(s))
  BY <1>1, AgedIs, AgeKept
<1>4. CASE SeedsBackground(t, bg)
  <2>1. PICK zero \in Nat: zero = 0
    OBVIOUS
  <2>2. PICK j: j = [t EXCEPT !.bg = zero]
    OBVIOUS
  <2>3. Polled(t, bg, ok) = j
    <3>1. ~ShouldSample(t, bg)
      BY <1>4, NoneIsNoNumber, IntervalsAreTicks DEF SeedsBackground, ShouldSample
    <3> QED BY <1>4, <2>1, <2>2, <3>1 DEF Polled
  <2>4. /\ j \in Inputs /\ j.lvl = t.lvl /\ j.clear = t.clear /\ j.blocked = t.blocked
        /\ j.debounce = t.debounce /\ j.force = t.force /\ j.next = t.next
    BY <1>2, <2>2 DEF Inputs
  <2>5. r = Aged(s)
    BY <1>1, <1>4 DEF Noted
  <2>6. Counts(j, r) /\ Spaced(j, r)
    BY <1>3, <2>4, <2>5 DEF Counts, Spaced
  <2> QED BY <1>1, <1>2, <1>3, <2>3, <2>4, <2>5, <2>6
<1>5. CASE ~SeedsBackground(t, bg) /\ ShouldSample(t, bg)
  <2>1. Polled(t, bg, ok) = Sampled(t, bg, ok)
    BY <1>5 DEF Polled
  <2>2. r = IF ok THEN ReadOn(s) ELSE Aged(s)
    BY <1>1, <1>5 DEF Noted
  <2>3. r \in Rows /\ IF ok THEN GoesOn(Aged(s), r) ELSE r = Aged(s)
    BY <1>3, <2>2, ReadOnIs
  <2>4. t.clear > 0 => t.next = 0
    BY <1>2, <1>3, <1>5 DEF ShouldSample, Counts, Inputs
  <2> QED BY <1>1, <1>2, <1>3, <2>1, <2>3, <2>4, SampledKept
<1>6. CASE ~SeedsBackground(t, bg) /\ ~ShouldSample(t, bg)
  <2>1. Polled(t, bg, ok) = t /\ r = Aged(s)
    BY <1>1, <1>6 DEF Polled, Noted
  <2> QED BY <1>1, <1>2, <1>3, <2>1
<1> QED BY <1>4, <1>5, <1>6

-----------------------------------------------------------------------------
\* hopper_level.c: what is published follows from latch and level, and the
\* queue gets it.
LevelIs(l) == l \in [state: Levels, latched: BOOLEAN, queue: Seq(Levels)]
LEMMA PublishedIs ==
    ASSUME NEW l, LevelIs(l), Len(l.queue) <= 1, NEW lvl \in {"normal", "low"}
    PROVE  /\ LevelIs(Published(l, lvl)) /\ Published(l, lvl).state = Compute(l.latched, lvl)
           /\ Published(l, lvl).latched = l.latched
           /\ IF Published(l, lvl).state = l.state THEN Published(l, lvl).queue = l.queue
              ELSE Published(l, lvl).queue = Append(l.queue, Published(l, lvl).state)
<1>1. PICK state \in Levels: state = Compute(l.latched, lvl)
  BY DEF Compute, Levels
<1>2. CASE state = l.state
  BY <1>1, <1>2 DEF Published
<1>3. CASE state # l.state
  <2>1. PICK queue \in Seq(Levels): queue = Append(l.queue, state)
    <3>1. l.queue \in Seq(Levels)
      BY DEF LevelIs
    <3>2. Append(l.queue, state) \in Seq(Levels)
      BY <3>1
    <3> QED BY <3>2, Zenon
  <2>2. Enqueue(l.queue, state) = queue
    <3>1. Len(l.queue) # LevelDepth - 1
      BY QueueHoldsATick DEF LevelIs
    <3> QED BY <2>1, <3>1 DEF Enqueue
  <2>3. PICK k: k = [l EXCEPT !.state = state, !.queue = queue]
    OBVIOUS
  <2>4. LevelIs(k) /\ k.state = state /\ k.latched = l.latched /\ k.queue = queue
    <3>1. l \in [state: Levels, latched: BOOLEAN, queue: Seq(Levels)]
      BY DEF LevelIs
    <3>2. k \in [state: Levels, latched: BOOLEAN, queue: Seq(Levels)]
      BY <2>3, <3>1, Zenon
    <3>3. DOMAIN l = {"state", "latched", "queue"}
      BY <3>1, Zenon
    <3>4. k.state = state /\ k.latched = l.latched /\ k.queue = queue
      BY <2>3, <3>3
    <3> QED BY <3>2, <3>4 DEF LevelIs
  <2>5. Published(l, lvl) = k
    BY <1>1, <1>3, <2>2, <2>3, Zenon DEF Published
  <2> QED BY <1>1, <1>3, <2>1, <2>4, <2>5
<1> QED BY <1>2, <1>3

\* A latch that opens or closes keeps the rest.
LEMMA LatchIs ==
    ASSUME NEW l, LevelIs(l), NEW latched \in BOOLEAN, NEW k, k = [l EXCEPT !.latched = latched]
    PROVE  LevelIs(k) /\ k.state = l.state /\ k.latched = latched /\ k.queue = l.queue
BY DEF LevelIs

\* The broker is told the last change of a tick.
LEMMA LastIsTold ==
    ASSUME NEW q \in Seq(Levels), NEW x \in Levels, Len(q) <= 1
    PROVE  /\ Append(q, x) # <<>> /\ Append(q, x)[Len(Append(q, x))] = x
OBVIOUS

-----------------------------------------------------------------------------
\* A display tick: mains, barrier and level in this order, and what they tell.
LEMMA DisplayTickKept ==
    ASSUME HopperInv, NEW gated \in BOOLEAN, NEW okPower \in BOOLEAN, NEW okBeam \in BOOLEAN,
           DisplayTick(gated, okPower, okBeam)
    PROVE  HopperInv'
<1> USE DEF HopperInv, HopperTyped
<1>1. PICK p: p = IF gated THEN [power EXCEPT !.gate = FALSE] ELSE PowerPolled(okPower)
  OBVIOUS
<1>2. p \in [last: BOOLEAN, confirmed: BOOLEAN, valid: BOOLEAN, gate: BOOLEAN]
  <2>1. PICK q: q = [power EXCEPT !.gate = FALSE]
    OBVIOUS
  <2>2. q \in [last: BOOLEAN, confirmed: BOOLEAN, valid: BOOLEAN, gate: BOOLEAN]
    BY <2>1
  <2>3. CASE gated \/ ~okPower
    BY <1>1, <2>1, <2>2, <2>3 DEF PowerPolled
  <2>4. CASE ~gated /\ okPower
    <3>1. PICK c \in BOOLEAN: c = IF plug = q.last THEN plug ELSE q.confirmed
      BY <2>2
    <3>2. p = [q EXCEPT !.valid = TRUE, !.confirmed = c, !.last = plug]
      BY <1>1, <2>1, <2>4, <3>1, Zenon DEF PowerPolled, PowerRead
    <3> QED BY <2>2, <3>2
  <2> QED BY <2>3, <2>4
<1>3. PICK bg \in BOOLEAN: bg = (p.valid /\ p.confirmed)
  BY <1>2, Zenon
<1>4. PICK i: i = IF ota THEN Timed(input) ELSE Polled(Timed(input), bg, okBeam)
  OBVIOUS
<1>5. PICK s: s = Noted(seen.now, Reads(bg, okBeam))
  OBVIOUS
<1>6. PICK l: l = LevelPolled(i)
  OBVIOUS
<1>7. /\ power' = p /\ input' = i /\ level' = [l EXCEPT !.queue = <<>>]
      /\ told' = [hopper |-> IF l.queue = <<>> THEN told.hopper ELSE l.queue[Len(l.queue)],
                  mains |-> IF p.confirmed = power.confirmed THEN told.mains ELSE p.confirmed]
      /\ seen' = [now |-> s, turn |-> IF i.lvl = input.lvl THEN seen.turn ELSE s, job |-> FALSE,
                  soon |-> seen.soon \/ TooSoon(Reads(bg, okBeam))]
      /\ UNCHANGED <<beam, plug, ota>>
  BY <1>1, <1>3, <1>4, <1>5, <1>6, Zenon DEF DisplayTick
<1>8. /\ i \in Inputs /\ s \in Rows /\ Counts(i, s) /\ Spaced(i, s)
      /\ i.lvl = input.lvl \/ Turned(i.lvl, s)
  <2>0. seen.now \in Rows
    OBVIOUS
  <2>1. CASE ota
    <3>1. i = Timed(input) /\ s = Aged(seen.now)
      BY <1>4, <1>5, <2>1 DEF Reads, Noted
    <3> QED BY <2>0, <3>1, TimedIs, AgedIs, AgeKept
  <2>2. CASE ~ota
    <3>1. i = Polled(Timed(input), bg, okBeam)
      BY <1>4, <2>2
    <3>2. s = Noted(seen.now, ~SeedsBackground(Timed(input), bg) /\ ShouldSample(Timed(input), bg) /\ okBeam)
      BY <1>5, <2>2, Zenon DEF Reads
    <3> QED BY <2>0, <3>1, <3>2, PolledKept
  <2> QED BY <2>1, <2>2
<1>9. Turned(i.lvl, IF i.lvl = input.lvl THEN seen.turn ELSE s)
  BY <1>8
<1>10. ~TooSoon(Reads(bg, okBeam))
  <2> SUFFICES ASSUME Reads(bg, okBeam), input.debounce, ~input.force, ~Stuck, seen.now.kind # None
               PROVE  seen.now.gap + 1 >= Interval
    BY IntervalsAreTicks DEF TooSoon, Rows
  <2>1. seen.now.gap + input.next >= Interval /\ seen.now.gap \in Nat /\ input.next \in 0..Interval
    BY DEF Spaced, Stuck, Inputs, Rows
  <2>2. Passed(input.next) = 0
    BY TimedIs DEF Reads, ShouldSample
  <2> QED BY <2>1, <2>2, IntervalsAreTicks DEF Passed
<1>11. LevelIs(level) /\ Len(level.queue) <= 1 /\ i.lvl \in {"normal", "low"} /\ input.lvl \in {"normal", "low"}
  BY <1>8 DEF LevelIs, QueueIsLatest, Inputs
<1>12. /\ LevelIs(l) /\ l.state = Compute(l.latched, i.lvl)
       /\ IF l.state = level.state THEN l.queue = level.queue ELSE l.queue = Append(level.queue, l.state)
  <2>1. CASE i.lvl = input.lvl
    BY <1>6, <1>11, <2>1 DEF LevelPolled
  <2>2. CASE i.lvl # input.lvl
    <3>1. PICK k: k = Recovered(level, i.lvl)
      OBVIOUS
    <3>2. LevelIs(k) /\ k.state = level.state /\ k.queue = level.queue
      BY <1>11, <3>1, LatchIs DEF Recovered
    <3>3. l = Published(k, i.lvl)
      BY <1>6, <2>2, <3>1 DEF LevelPolled
    <3> QED BY <1>11, <3>2, <3>3, PublishedIs
  <2> QED BY <2>1, <2>2
<1>13. LevelIs(level') /\ level'.state = l.state /\ level'.latched = l.latched /\ level'.queue = <<>>
  <2>1. PICK q \in Seq(Levels): q = <<>>
    <3>1. <<>> \in Seq(Levels)
      OBVIOUS
    <3> QED BY <3>1, Zenon
  <2>2. level' = [l EXCEPT !.queue = q]
    BY <1>7, <2>1
  <2> QED BY <1>12, <2>1, <2>2 DEF LevelIs
<1>14. told'.hopper # None => told'.hopper = level'.state
  <2>1. level.queue \in Seq(Levels) /\ l.state \in Levels
    BY <1>11, <1>12 DEF LevelIs
  <2>2. CASE l.state = level.state /\ level.queue = <<>>
    BY <1>7, <1>12, <1>13, <2>2 DEF QueueIsLatest
  <2>3. CASE l.state = level.state /\ level.queue # <<>>
    <3>1. l.queue = <<level.state>>
      BY <1>12, <2>3 DEF QueueIsLatest
    <3>2. l.queue # <<>> /\ l.queue[Len(l.queue)] = level.state
      BY <3>1
    <3> QED BY <1>7, <1>13, <2>3, <3>2
  <2>4. CASE l.state # level.state
    <3>1. l.queue # <<>> /\ l.queue[Len(l.queue)] = l.state
      BY <1>11, <1>12, <2>1, <2>4, LastIsTold
    <3> QED BY <1>7, <1>13, <3>1
  <2> QED BY <2>2, <2>3, <2>4
<1>15. QueueIsLatest'
  BY <1>13, <1>14 DEF QueueIsLatest
<1>16. told'.mains # None => told'.mains = power'.confirmed
  BY <1>7
<1>17. /\ seen' \in [now: Rows, turn: Rows, job: BOOLEAN, soon: BOOLEAN] /\ ~seen'.soon
       /\ seen'.now = s /\ seen'.turn = IF i.lvl = input.lvl THEN seen.turn ELSE s
  <2>1. PICK soon \in BOOLEAN: soon = (seen.soon \/ TooSoon(Reads(bg, okBeam)))
    BY Zenon
  <2>2. PICK turn \in Rows: turn = IF i.lvl = input.lvl THEN seen.turn ELSE s
    BY <1>8
  <2>3. seen' = [now |-> s, turn |-> turn, job |-> FALSE, soon |-> soon]
    BY <1>7, <2>1, <2>2, Zenon
  <2> QED BY <1>8, <1>10, <2>1, <2>2, <2>3
<1>18. told' = [hopper |-> told'.hopper, mains |-> told'.mains]
  BY <1>7
<1>19. Counts(input, seen.now)' /\ Spaced(input, seen.now)' /\ Turned(input.lvl, seen.turn)'
  BY <1>7, <1>8, <1>9, <1>17 DEF Counts, Spaced, Turned
<1>20. HopperTyped'
  BY <1>2, <1>7, <1>8, <1>13, <1>17, <1>18 DEF LevelIs
<1> QED BY <1>7, <1>12, <1>13, <1>15, <1>16, <1>17, <1>19, <1>20

-----------------------------------------------------------------------------
\* A finished job asks for a sample, which starts the count of clear readings
\* anew, and may open or close the latch (dispense_publish_terminal).
LEMMA FinishedKept ==
    ASSUME HopperInv, NEW o \in Outcomes, NEW fed \in BOOLEAN, NEW measured \in BOOLEAN, DispenseFinished(o, fed, measured)
    PROVE  HopperInv'
<1> USE DEF HopperInv, HopperTyped
<1>0. level.queue = <<>> /\ LevelIs(level) /\ input.lvl \in {"normal", "low"}
  BY DEF DispenseFinished, QueueIsLatest, LevelIs, Inputs
<1>1. PICK emptied \in BOOLEAN: emptied = IF o = "success" /\ measured /\ fed THEN FALSE ELSE level.latched
  OBVIOUS
<1>2. PICK latched \in BOOLEAN: latched = (emptied \/ ShouldLatch(o, fed, measured))
  BY Zenon
<1>3. PICK k: k = [level EXCEPT !.latched = latched]
  OBVIOUS
<1>4. LevelIs(k) /\ k.state = level.state /\ k.latched = latched /\ k.queue = <<>>
  BY <1>0, <1>3, LatchIs
<1>5. level' = Published(k, input.lvl)
  BY <1>1, <1>2, <1>3, Zenon DEF DispenseFinished
<1>6. /\ LevelIs(level') /\ level'.state = Compute(level'.latched, input.lvl)
      /\ IF level'.state = level.state THEN level'.queue = <<>> ELSE level'.queue = Append(<<>>, level'.state)
  <2>1. Len(k.queue) <= 1
    BY <1>4
  <2> QED BY <1>0, <1>4, <1>5, <2>1, PublishedIs
<1>7. PICK zero \in Nat: zero = 0
  OBVIOUS
<1>8. input' = [input EXCEPT !.clear = zero, !.force = TRUE]
  BY <1>7 DEF DispenseFinished, Asked
<1>9. /\ input' \in Inputs /\ input'.lvl = input.lvl /\ input'.clear = 0 /\ input'.blocked = input.blocked
      /\ input'.debounce = input.debounce /\ input'.next = input.next
  BY <1>7, <1>8 DEF Inputs
<1>10. PICK now \in Rows: now = IF seen.now.kind = "clear" THEN Unread ELSE seen.now
  BY DEF Unread, Rows
<1>11. seen' = [seen EXCEPT !.job = TRUE, !.now = now]
  BY <1>10, Zenon DEF DispenseFinished
<1>12. seen' \in [now: Rows, turn: Rows, job: BOOLEAN, soon: BOOLEAN] /\ seen'.now = now /\ seen'.turn = seen.turn
       /\ seen'.job = TRUE /\ seen'.soon = seen.soon
  BY <1>11
<1>13. UNCHANGED <<beam, plug, power, ota, told>>
  BY DEF DispenseFinished
<1>14. QueueIsLatest'
  <2>1. CASE level'.state = level.state
    BY <1>0, <1>6, <1>13, <2>1 DEF QueueIsLatest
  <2>2. CASE level'.state # level.state
    BY <1>6, <1>12, <2>2 DEF QueueIsLatest
  <2> QED BY <2>1, <2>2
<1>15. Counts(input, seen.now)' /\ Spaced(input, seen.now)' /\ Turned(input.lvl, seen.turn)'
  <2>1. seen.now.kind = "clear" => now.kind = None
    BY <1>10 DEF Unread
  <2>2. seen.now.kind # "clear" => now = seen.now
    BY <1>10
  <2>3. Turned(input.lvl, seen.turn)'
    BY <1>9, <1>12 DEF Turned
  <2>4. Spaced(input, seen.now)'
    BY <1>9, <1>12, <2>1, <2>2 DEF Spaced
  <2>5. Counts(input, seen.now)'
    BY <1>9, <1>12, <2>1, <2>2, StreaksAreOrdered DEF Counts
  <2> QED BY <2>3, <2>4, <2>5
<1>16. HopperTyped'
  BY <1>6, <1>9, <1>12, <1>13 DEF LevelIs
<1> QED BY <1>6, <1>9, <1>12, <1>13, <1>14, <1>15, <1>16

\* The other steps move the food, the plug and the update, or greet the broker.
LEMMA RestsKept ==
    ASSUME HopperInv, PlugMoves \/ BeamMoves \/ OtaStarts \/ OtaEnds \/ Connected \/ UNCHANGED hopperVars
    PROVE  HopperInv'
<1> USE DEF HopperInv, HopperTyped
<1>1. CASE UNCHANGED sensorVars /\ beam' \in Beams /\ plug' \in BOOLEAN
  BY <1>1 DEF sensorVars, Counts, Spaced, Turned, QueueIsLatest
<1>2. CASE PlugMoves
  <2>1. power' \in [last: BOOLEAN, confirmed: BOOLEAN, valid: BOOLEAN, gate: BOOLEAN] /\ power'.confirmed = power.confirmed
    BY <1>2 DEF PlugMoves
  <2>2. plug' \in BOOLEAN
    BY <1>2, Zenon DEF PlugMoves
  <2> QED BY <1>2, <2>1, <2>2 DEF PlugMoves, Counts, Spaced, Turned, QueueIsLatest
<1>3. CASE Connected
  <2>1. told'.hopper = level.state /\ told' = [hopper |-> told'.hopper, mains |-> told'.mains]
        /\ (told'.mains # None => told'.mains = power.confirmed)
    BY <1>3 DEF Connected
  <2> QED BY <1>3, <2>1 DEF Connected, Counts, Spaced, Turned, QueueIsLatest
<1> QED BY <1>1, <1>2, <1>3 DEF BeamMoves, OtaStarts, OtaEnds, hopperVars, sensorVars

-----------------------------------------------------------------------------
\* Whatever food and plug do and whichever readings fail: the level turns only
\* after the streak of its debounce, at the pace of its interval, jobs
\* included; what is published follows from level and latch; and the broker is
\* told at the latest on the next tick (hopper_input.c, hopper_level.c,
\* power_source_input.c).
THEOREM HopperIsTold == HopperSpec => []HopperTold
<1>1. HopperInit => HopperInv
  <2> SUFFICES ASSUME HopperInit PROVE HopperInv
    OBVIOUS
  <2>1. 0 \in 0..Interval /\ 0 \in Nat
    BY IntervalsAreTicks
  <2>2. input \in Inputs /\ seen \in [now: Rows, turn: Rows, job: BOOLEAN, soon: BOOLEAN]
    BY <2>1 DEF HopperInit, Inputs, Rows, Unread
  <2>3. level \in [state: Levels, latched: BOOLEAN, queue: Seq(Levels)]
    BY DEF HopperInit, Levels
  <2>4. power \in [last: BOOLEAN, confirmed: BOOLEAN, valid: BOOLEAN, gate: BOOLEAN]
    <3>1. PICK p \in {plug, FALSE}: power = [last |-> p, confirmed |-> p, valid |-> p = plug, gate |-> FALSE]
      BY DEF HopperInit
    <3>2. p \in BOOLEAN /\ (p = plug) \in BOOLEAN
      BY Zenon DEF HopperInit
    <3> QED BY <3>1, <3>2
  <2>5. HopperTyped
    BY <2>2, <2>3, <2>4 DEF HopperInit, HopperTyped
  <2>6. Counts(input, seen.now) /\ Spaced(input, seen.now) /\ Turned(input.lvl, seen.turn)
    BY StreaksAreOrdered DEF HopperInit, Counts, Spaced, Turned, Unread
  <2>7. level.state = Compute(level.latched, input.lvl) /\ QueueIsLatest /\ told.mains = None /\ ~seen.soon
    BY DEF HopperInit, Compute, QueueIsLatest
  <2> QED BY <2>5, <2>6, <2>7 DEF HopperInv
<1>2. HopperInv /\ [HopperNext]_hopperVars => HopperInv'
  <2> SUFFICES ASSUME HopperInv, [HopperNext]_hopperVars PROVE HopperInv'
    OBVIOUS
  <2>1. CASE GoodTick
    BY <2>1, DisplayTickKept DEF GoodTick
  <2>2. CASE BadTick
    BY <2>2, DisplayTickKept DEF BadTick
  <2> QED BY <2>1, <2>2, FinishedKept, RestsKept DEF HopperNext
<1>3. HopperInv => HopperTold
  BY DEF HopperInv, HopperTold, Turned, QueueIsLatest
<1> QED BY <1>1, <1>2, <1>3, PTL DEF HopperSpec
=============================================================================
