--------------------------- MODULE StreamHubProofs ---------------------------
(***************************************************************************)
(* What the hub keeps for every set of symbols, fields and ticks, every    *)
(* finite set of connections, every size of queue and history: the counts  *)
(* are exact, collapsing a backlog loses nothing that is not null, and the *)
(* delayed plane is never early and never goes back.                       *)
(*                                                                         *)
(* RefcountExact is inductive once it is known that the counted symbols    *)
(* and the connections' symbols are symbols at all: each action changes    *)
(* the subscribers of a symbol by at most the one connection it is about,  *)
(* and the membership tests of add_symbols and remove_symbols make the     *)
(* count follow.  NothingMissed needs besides that every watched symbol    *)
(* that has a last tick was told to each of its connections (Told) and     *)
(* that a watched symbol a working mirror holds has one (Mirrored).  The   *)
(* delayed plane needs that the history holds stamped ticks only.          *)
(***************************************************************************)
EXTENDS StreamHub, FiniteSetTheorems, SequenceTheorems, NaturalsInduction, TLAPS

HubTypes ==
    /\ conns \subseteq Conns
    /\ symbols \in [Conns -> SUBSET Symbols]
    /\ DOMAIN refcount \subseteq Symbols

IInv == HubTypes /\ RefcountExact

\* The subscribers of s when the connections are co and hold sy; what the count
\* rc says of s.
SubscribersOf(co, sy, s) == {c \in co : s \in sy[c]}

CountOf(rc, A, s) ==
    IF A = {} THEN s \notin DOMAIN rc
    ELSE s \in DOMAIN rc /\ rc[s] = Cardinality(A)

\* Subscribers form a finite set, so counting them means something.
LEMMA SubscribersFinite ==
    ASSUME NEW co, co \subseteq Conns, NEW sy, NEW s
    PROVE  IsFiniteSet(SubscribersOf(co, sy, s))
<1>1. SubscribersOf(co, sy, s) \subseteq Conns BY DEF SubscribersOf
<1> QED BY <1>1, ConnsAssumption, FS_Subset

\* One more subscriber, one more reference (_incref).
LEMMA CountUp ==
    ASSUME NEW rc, NEW rc2, NEW A, NEW s, NEW c,
           IsFiniteSet(A), c \notin A, CountOf(rc, A, s),
           s \in DOMAIN rc2,
           rc2[s] = IF s \in DOMAIN rc THEN rc[s] + 1 ELSE 1
    PROVE  CountOf(rc2, A \cup {c}, s)
<1>1. Cardinality(A \cup {c}) = Cardinality(A) + 1
  BY FS_AddElement
<1>2. A = {} => Cardinality(A) = 0
  BY FS_EmptySet
<1>3. A = {} => rc2[s] = Cardinality(A \cup {c})
  BY <1>1, <1>2 DEF CountOf
<1>4. A # {} => rc2[s] = Cardinality(A \cup {c})
  BY <1>1 DEF CountOf
<1> QED BY <1>3, <1>4 DEF CountOf

\* One subscriber less, one reference less, and none at zero (_decref).
LEMMA CountDown ==
    ASSUME NEW rc, NEW rc2, NEW A, NEW s, NEW c \in A,
           IsFiniteSet(A), CountOf(rc, A, s),
           s \in DOMAIN rc2 <=> rc[s] > 1,
           s \in DOMAIN rc2 => rc2[s] = rc[s] - 1
    PROVE  CountOf(rc2, A \ {c}, s)
<1>1. Cardinality(A) \in Nat /\ Cardinality(A \ {c}) = Cardinality(A) - 1
  BY FS_RemoveElement, FS_CardinalityType
<1>2. IsFiniteSet(A \ {c})
  BY FS_RemoveElement
<1>3. Cardinality(A \ {c}) = 0 <=> A \ {c} = {}
  BY <1>2, FS_EmptySet
<1>4. Cardinality(A \ {c}) \in Nat
  BY <1>2, FS_CardinalityType
<1>5. rc[s] = Cardinality(A)
  BY DEF CountOf
<1>6. CASE A \ {c} = {}
  BY <1>1, <1>3, <1>5, <1>6 DEF CountOf
<1>7. CASE A \ {c} # {}
  <2>1. rc[s] > 1
    BY <1>1, <1>3, <1>4, <1>5, <1>7
  <2> QED BY <1>1, <1>5, <1>7, <2>1 DEF CountOf
<1> QED BY <1>6, <1>7

\* RefcountExact in terms of the operators above.
LEMMA ExactIs ==
    RefcountExact <=>
        /\ \A s \in Symbols : CountOf(refcount, SubscribersOf(conns, symbols, s), s)
        /\ \A c \in Conns \ conns : symbols[c] = {}
BY DEF RefcountExact, CountOf, SubscribersOf, Subscribers

LEMMA ExactIsNext ==
    RefcountExact' <=>
        /\ \A s \in Symbols : CountOf(refcount', SubscribersOf(conns', symbols', s), s)
        /\ \A c \in Conns \ conns' : symbols'[c] = {}
BY DEF RefcountExact, CountOf, SubscribersOf, Subscribers

\* Dropping the references S that connection c holds keeps the count exact.
LEMMA DecrefExact ==
    ASSUME IInv, NEW c \in conns, NEW S, S \subseteq symbols[c], Decref(S),
           \A s \in Symbols :
              SubscribersOf(conns', symbols', s) =
                 IF s \in S THEN SubscribersOf(conns, symbols, s) \ {c}
                 ELSE SubscribersOf(conns, symbols, s)
    PROVE  /\ DOMAIN refcount' \subseteq Symbols
           /\ \A s \in Symbols : CountOf(refcount', SubscribersOf(conns', symbols', s), s)
<1>1. DOMAIN refcount' \subseteq DOMAIN refcount
  BY DEF Decref
<1>2. ASSUME NEW s \in Symbols
      PROVE  CountOf(refcount', SubscribersOf(conns', symbols', s), s)
  <2>1. CountOf(refcount, SubscribersOf(conns, symbols, s), s)
    BY ExactIs DEF IInv
  <2>2. IsFiniteSet(SubscribersOf(conns, symbols, s))
    BY SubscribersFinite DEF IInv, HubTypes
  <2>3. CASE s \in S
    <3>1. c \in SubscribersOf(conns, symbols, s)
      BY <2>3 DEF SubscribersOf
    <3>2. s \in DOMAIN refcount
      BY <2>1, <3>1 DEF CountOf
    <3>3. s \in DOMAIN refcount' <=> refcount[s] > 1
      BY <2>3, <3>2 DEF Decref
    <3>4. s \in DOMAIN refcount' => refcount'[s] = refcount[s] - 1
      BY <2>3 DEF Decref
    <3>5. CountOf(refcount', SubscribersOf(conns, symbols, s) \ {c}, s)
      BY <2>1, <2>2, <3>1, <3>3, <3>4, CountDown
    <3> QED BY <2>3, <3>5
  <2>4. CASE s \notin S
    <3>1. s \in DOMAIN refcount' <=> s \in DOMAIN refcount
      BY <2>4 DEF Decref
    <3>2. s \in DOMAIN refcount' => refcount'[s] = refcount[s]
      BY <2>4 DEF Decref
    <3> QED BY <2>1, <2>4, <3>1, <3>2 DEF CountOf
  <2> QED BY <2>3, <2>4
<1> QED BY <1>1, <1>2 DEF IInv, HubTypes

-----------------------------------------------------------------------------
(* The invariant, action by action. *)

\* Nothing is subscribed and nothing is counted at the start.
LEMMA InitIInv == Init => IInv
<1> SUFFICES ASSUME Init PROVE IInv OBVIOUS
<1>1. HubTypes BY DEF Init, HubTypes, Empty
<1>2. RefcountExact BY DEF Init, RefcountExact, Subscribers, Empty
<1> QED BY <1>1, <1>2 DEF IInv

\* register(): the new connection holds nothing yet.
LEMMA RegisterIInv ==
    ASSUME IInv, NEW c \in Conns, Register(c) PROVE IInv'
<1>1. HubTypes' BY DEF IInv, HubTypes, Register
<1>2. symbols[c] = {} BY ExactIs DEF IInv, Register
<1>3. \A s \in Symbols : SubscribersOf(conns', symbols', s) = SubscribersOf(conns, symbols, s)
  BY <1>2 DEF Register, SubscribersOf
<1>4. RefcountExact'
  BY <1>3, ExactIs, ExactIsNext DEF IInv, Register
<1> QED BY <1>1, <1>4 DEF IInv

\* unregister(): every symbol the connection held loses that reference.
LEMMA UnregisterIInv ==
    ASSUME IInv, NEW c \in Conns, Unregister(c) PROVE IInv'
<1>1. c \in conns /\ conns' = conns \ {c} /\ Decref(symbols[c])
      /\ symbols' = [symbols EXCEPT ![c] = {}]
  BY DEF Unregister
<1>2. \A s \in Symbols :
         SubscribersOf(conns', symbols', s) =
            IF s \in symbols[c] THEN SubscribersOf(conns, symbols, s) \ {c}
            ELSE SubscribersOf(conns, symbols, s)
  BY <1>1 DEF SubscribersOf, IInv, HubTypes
<1>3. /\ DOMAIN refcount' \subseteq Symbols
      /\ \A s \in Symbols : CountOf(refcount', SubscribersOf(conns', symbols', s), s)
  BY <1>1, <1>2, DecrefExact
<1>4. HubTypes'
  BY <1>1, <1>3 DEF IInv, HubTypes
<1>5. \A d \in Conns \ conns' : symbols'[d] = {}
  BY <1>1, ExactIs DEF IInv, HubTypes
<1> QED BY <1>3, <1>4, <1>5, ExactIsNext DEF IInv

\* remove_symbols(): only what the connection holds is dropped.
LEMMA UnsubscribeIInv ==
    ASSUME IInv, NEW c \in Conns, NEW S \in SUBSET Symbols, Unsubscribe(c, S)
    PROVE  IInv'
<1>1. c \in conns /\ conns' = conns /\ Decref(S \cap symbols[c])
      /\ symbols' = [symbols EXCEPT ![c] = @ \ S]
  BY DEF Unsubscribe
<1>2. \A s \in Symbols :
         SubscribersOf(conns', symbols', s) =
            IF s \in S \cap symbols[c] THEN SubscribersOf(conns, symbols, s) \ {c}
            ELSE SubscribersOf(conns, symbols, s)
  BY <1>1 DEF SubscribersOf, IInv, HubTypes
<1>3. /\ DOMAIN refcount' \subseteq Symbols
      /\ \A s \in Symbols : CountOf(refcount', SubscribersOf(conns', symbols', s), s)
  BY <1>1, <1>2, DecrefExact
<1>4. HubTypes'
  BY <1>1, <1>3 DEF IInv, HubTypes
<1>5. \A d \in Conns \ conns' : symbols'[d] = {}
  BY <1>1, ExactIs DEF IInv, HubTypes
<1> QED BY <1>3, <1>4, <1>5, ExactIsNext DEF IInv

\* add_symbols(): only what the connection does not hold yet is counted.
LEMMA SubscribeIInv ==
    ASSUME IInv, NEW c \in Conns, NEW S \in SUBSET Symbols, Subscribe(c, S)
    PROVE  IInv'
<1>1. PICK T \in Wanted(c, S) :
         /\ symbols' = [symbols EXCEPT ![c] = @ \cup (T \ symbols[c])]
         /\ Incref(T \ symbols[c])
  BY DEF Subscribe
<1>2. c \in conns /\ conns' = conns
  BY DEF Subscribe
<1>3. T \subseteq Symbols
  BY DEF Wanted
<1>4. DOMAIN refcount' \subseteq Symbols
  BY <1>1, <1>3 DEF Incref, IInv, HubTypes
<1>5. HubTypes'
  BY <1>1, <1>2, <1>3, <1>4 DEF IInv, HubTypes
<1>6. ASSUME NEW s \in Symbols
      PROVE  CountOf(refcount', SubscribersOf(conns', symbols', s), s)
  <2>1. CountOf(refcount, SubscribersOf(conns, symbols, s), s)
    BY ExactIs DEF IInv
  <2>2. IsFiniteSet(SubscribersOf(conns, symbols, s))
    BY SubscribersFinite DEF IInv, HubTypes
  <2>3. CASE s \in T \ symbols[c]
    <3>1. c \notin SubscribersOf(conns, symbols, s)
      BY <2>3 DEF SubscribersOf
    <3>2. SubscribersOf(conns', symbols', s) = SubscribersOf(conns, symbols, s) \cup {c}
      BY <1>1, <1>2, <2>3 DEF SubscribersOf, IInv, HubTypes
    <3>3. s \in DOMAIN refcount'
      BY <1>1, <2>3 DEF Incref
    <3>4. refcount'[s] = IF s \in DOMAIN refcount THEN refcount[s] + 1 ELSE 1
      BY <1>1, <2>3 DEF Incref
    <3> QED BY <2>1, <2>2, <3>1, <3>2, <3>3, <3>4, CountUp
  <2>4. CASE s \notin T \ symbols[c]
    <3>1. SubscribersOf(conns', symbols', s) = SubscribersOf(conns, symbols, s)
      BY <1>1, <1>2, <2>4 DEF SubscribersOf, IInv, HubTypes
    <3>2. s \in DOMAIN refcount' <=> s \in DOMAIN refcount
      BY <1>1, <2>4 DEF Incref
    <3>3. s \in DOMAIN refcount' => refcount'[s] = refcount[s] + 0
      BY <1>1, <2>4 DEF Incref
    <3>4. Cardinality(SubscribersOf(conns, symbols, s)) \in Nat
      BY <2>2, FS_CardinalityType
    <3> QED BY <2>1, <3>1, <3>2, <3>3, <3>4 DEF CountOf
  <2> QED BY <2>3, <2>4
<1>7. \A d \in Conns \ conns' : symbols'[d] = {}
  BY <1>1, <1>2, ExactIs DEF IInv, HubTypes
<1> QED BY <1>5, <1>6, <1>7, ExactIsNext DEF IInv

\* The reference counts never drift.
LEMMA StepIInv == IInv /\ [Next]_vars => IInv'
<1> SUFFICES ASSUME IInv, [Next]_vars PROVE IInv' OBVIOUS
<1>1. CASE \E c \in Conns : Register(c)
  BY <1>1, RegisterIInv
<1>2. CASE \E c \in Conns : Unregister(c)
  BY <1>2, UnregisterIInv
<1>3. CASE \E c \in Conns, S \in SUBSET Symbols : Subscribe(c, S)
  BY <1>3, SubscribeIInv
<1>4. CASE \E c \in Conns, S \in SUBSET Symbols : Unsubscribe(c, S)
  BY <1>4, UnsubscribeIInv
<1>5. CASE Restart
  <2>1. HubTypes' BY <1>5 DEF Restart, HubTypes, Empty
  <2>2. RefcountExact' BY <1>5 DEF Restart, RefcountExact, Subscribers, Empty
  <2> QED BY <2>1, <2>2 DEF IInv
<1>6. CASE UNCHANGED <<conns, symbols, refcount>>
  BY <1>6 DEF IInv, HubTypes, RefcountExact, Subscribers
<1>7. \/ UNCHANGED <<conns, symbols, refcount>>
      \/ Restart
      \/ \E c \in Conns : Register(c) \/ Unregister(c)
      \/ \E c \in Conns, S \in SUBSET Symbols : Subscribe(c, S) \/ Unsubscribe(c, S)
  BY DEF Next, vars, Ping, Send, PollStart, Publish, Miss, PublishDelayed, Tick
<1> QED BY <1>1, <1>2, <1>3, <1>4, <1>5, <1>6, <1>7

\* A symbol is counted once per connection that holds it, and only then
\* (hub.py _incref, _decref and their callers).
THEOREM RefcountExactAlways == Spec => []RefcountExact
<1>1. IInv => RefcountExact BY DEF IInv
<1> QED BY InitIInv, StepIInv, <1>1, PTL DEF Spec
-----------------------------------------------------------------------------
(* The queues.  What a frame is made of does not matter to them, so a queue *)
(* is a sequence over some set.                                             *)

IsSeq(q) == \E S : q \in Seq(S)

Shapes ==
    /\ queue = [c \in Conns |-> queue[c]] /\ view = [c \in Conns |-> view[c]]
    /\ \A c \in Conns : IsSeq(queue[c]) /\ Len(queue[c]) <= QueueMax
    /\ polling \subseteq Symbols
    /\ now \in Nat

LEMMA SeqAppend ==
    ASSUME NEW q, IsSeq(q), NEW x
    PROVE  /\ IsSeq(Append(q, x))
           /\ Len(q) \in Nat /\ Len(Append(q, x)) = Len(q) + 1
           /\ \A i \in 1..Len(q) : Append(q, x)[i] = q[i]
           /\ Append(q, x)[Len(q) + 1] = x
<1>1. PICK S : q \in Seq(S)
  BY DEF IsSeq
<1>2. q \in Seq(S \cup {x}) /\ x \in S \cup {x}
  BY <1>1
<1>3. Append(q, x) \in Seq(S \cup {x})
  BY <1>2
<1> QED BY <1>2, <1>3 DEF IsSeq

LEMMA SeqOne ==
    ASSUME NEW x
    PROVE  IsSeq(<<x>>) /\ Len(<<x>>) = 1 /\ <<x>>[1] = x
<1>1. <<x>> \in Seq({x})
  OBVIOUS
<1> QED BY <1>1 DEF IsSeq

LEMMA SeqTail ==
    ASSUME NEW q, IsSeq(q), q # << >>
    PROVE  /\ IsSeq(Tail(q))
           /\ Len(q) \in Nat \ {0} /\ Len(Tail(q)) = Len(q) - 1
           /\ \A i \in 1..Len(Tail(q)) : Tail(q)[i] = q[i + 1]
           /\ Head(q) = q[1]
<1>1. PICK S : q \in Seq(S)
  BY DEF IsSeq
<1>2. Tail(q) \in Seq(S)
  BY <1>1
<1> QED BY <1>1, <1>2 DEF IsSeq

LEMMA SeqEmpty == IsSeq(<< >>) /\ Len(<< >>) = 0
<1>1. << >> \in Seq({})
  OBVIOUS
<1> QED BY <1>1 DEF IsSeq

\* However slow the socket, its queue stays within its limit.
LEMMA EnqueueFits ==
    ASSUME NEW q, IsSeq(q), Len(q) <= QueueMax, NEW frame, NEW S, NEW ticks
    PROVE  IsSeq(Enqueue(q, frame, S, ticks)) /\ Len(Enqueue(q, frame, S, ticks)) <= QueueMax
  BY SeqAppend, SeqOne, QueueAssumption DEF Enqueue

LEMMA InitShapes == Init => Shapes
  BY SeqEmpty, QueueAssumption DEF Init, Shapes

LEMMA StepShapes == IInv /\ Shapes /\ [Next]_vars => Shapes'
<1> SUFFICES ASSUME IInv, Shapes, [Next]_vars PROVE Shapes'
  OBVIOUS
<1> USE DEF Shapes
<1>1. ASSUME NEW c \in Conns, Register(c) PROVE Shapes'
  BY <1>1 DEF Register
<1>2. ASSUME NEW c \in Conns, Unregister(c) PROVE Shapes'
  BY <1>2, SeqEmpty, QueueAssumption DEF Unregister
<1>3. ASSUME NEW c \in Conns, Ping(c) PROVE Shapes'
  BY <1>3, SeqOne, QueueAssumption DEF Ping
<1>4. ASSUME NEW c \in Conns, Send(c) PROVE Shapes'
  <2>1. IsSeq(Tail(queue[c])) /\ Len(Tail(queue[c])) <= QueueMax
    BY <1>4, SeqTail, QueueAssumption DEF Send
  <2> QED BY <1>4, <2>1 DEF Send
<1>5. ASSUME NEW c \in Conns, NEW S, Subscribe(c, S) PROVE Shapes'
  <2>1. PICK frame, syms :
           /\ queue' = queue \/ queue' = [queue EXCEPT ![c] = Enqueue(@, frame, syms, last')]
           /\ UNCHANGED <<polling, now, view>>
    BY <1>5 DEF Subscribe
  <2>2. IsSeq(Enqueue(queue[c], frame, syms, last')) /\ Len(Enqueue(queue[c], frame, syms, last')) <= QueueMax
    BY EnqueueFits
  <2> QED BY <2>1, <2>2
<1>6. ASSUME NEW c \in Conns, NEW S, Unsubscribe(c, S) PROVE Shapes'
  BY <1>6 DEF Unsubscribe
<1>7. CASE PollStart
  BY <1>7 DEF PollStart, IInv, HubTypes
<1>8. ASSUME NEW s \in Symbols, NEW tick, NEW ts, Publish(s, tick, ts) PROVE Shapes'
  <2>1. PICK frame :
           /\ queue' = queue \/ queue' = [c \in Conns |->
                 IF c \in Subscribers(s) /\ ~RequiresDelay(c)
                 THEN Enqueue(queue[c], frame, symbols[c], last') ELSE queue[c]]
           /\ polling' = polling \ {s} /\ UNCHANGED <<now, view>>
    BY <1>8 DEF Publish
  <2>2. \A c \in Conns : IsSeq(Enqueue(queue[c], frame, symbols[c], last')) /\ Len(Enqueue(queue[c], frame, symbols[c], last')) <= QueueMax
    BY EnqueueFits
  <2> QED BY <2>1, <2>2
<1>9. ASSUME NEW s \in Symbols, PublishDelayed(s) PROVE Shapes'
  <2>1. PICK frame :
           /\ queue' = [c \in Conns |->
                 IF c \in Subscribers(s) /\ Tier[c] # "realtime"
                 THEN Enqueue(queue[c], frame, symbols[c], last) ELSE queue[c]]
           /\ UNCHANGED <<polling, now, view>>
    BY <1>9 DEF PublishDelayed
  <2>2. \A c \in Conns : IsSeq(Enqueue(queue[c], frame, symbols[c], last)) /\ Len(Enqueue(queue[c], frame, symbols[c], last)) <= QueueMax
    BY EnqueueFits
  <2> QED BY <2>1, <2>2
<1>10. ASSUME NEW s \in Symbols, Miss(s) PROVE Shapes'
  BY <1>10 DEF Miss
<1>11. CASE Restart
  BY <1>11, SeqEmpty, QueueAssumption DEF Restart
<1>12. CASE Tick
  BY <1>12 DEF Tick
<1>13. CASE UNCHANGED vars
  BY <1>13 DEF vars
<1> QED BY <1>1, <1>2, <1>3, <1>4, <1>5, <1>6, <1>7, <1>8, <1>9, <1>10, <1>11, <1>12, <1>13 DEF Next

\* The state keeps its types, no backlog passes its limit and no count is zero.
THEOREM TypeOKAlways == Spec => []TypeOK
<1>1. ASSUME IInv, Shapes PROVE TypeOK
  <2>1. ASSUME NEW s \in DOMAIN refcount PROVE refcount[s] \in Nat \ {0}
    <3>1. s \in Symbols /\ IsFiniteSet(SubscribersOf(conns, symbols, s))
      BY <1>1, SubscribersFinite DEF IInv, HubTypes
    <3>2. SubscribersOf(conns, symbols, s) # {} /\ refcount[s] = Cardinality(SubscribersOf(conns, symbols, s))
      BY <1>1, <3>1, ExactIs DEF IInv, CountOf
    <3> QED BY <3>1, <3>2, FS_EmptySet, FS_CardinalityType
  <2> QED BY <1>1, <2>1 DEF TypeOK, IInv, HubTypes, Shapes
<1> QED BY InitIInv, InitShapes, StepIInv, StepShapes, <1>1, PTL DEF Spec
-----------------------------------------------------------------------------
(* What reaches a browser.  Sending differences is enough because what a    *)
(* queue will make of a browser is, of every field of every symbol it has   *)
(* subscribed to, what the last tick says: Told.  The mirror matters to     *)
(* that, since reading a tick back from it changes what later differences   *)
(* are taken from: Mirrored says that nothing that somebody watches is left *)
(* to be read.                                                              *)

Told(q, shown, S, ticks) ==
    \A s \in S \cap DOMAIN ticks : \A f \in DOMAIN ticks[s] \ {"ts"} :
        WillShow(q, shown, s, f, ticks[s][f])

Mirrored ==
    /\ Mirror = "none" => DOMAIN mirror = {}
    /\ \A c \in conns : symbols[c] \cap DOMAIN mirror \subseteq DOMAIN last

Says(frame, s, f) == s \in DOMAIN frame.d /\ f \in DOMAIN frame.d[s]

\* A frame more: what it mentions, and everything else as before.
LEMMA ShowAppended ==
    ASSUME NEW q, IsSeq(q), NEW frame, NEW shown, NEW s, NEW f, NEW value,
           IF Says(frame, s, f) THEN frame.d[s][f] = value ELSE WillShow(q, shown, s, f, value)
    PROVE  WillShow(Append(q, frame), shown, s, f, value)
<1> DEFINE longer == Append(q, frame)
<1>1. /\ Len(q) \in Nat /\ Len(longer) = Len(q) + 1
      /\ \A i \in 1..Len(q) : longer[i] = q[i]
      /\ longer[Len(q) + 1] = frame
  BY SeqAppend
<1> HIDE DEF longer
<1>2. CASE Says(frame, s, f)
  <2>1. Len(longer) \in 1..Len(longer) /\ ((Len(longer) + 1)..Len(longer)) = {}
    BY <1>1
  <2> QED BY <1>1, <1>2, <2>1 DEF WillShow, Says, longer
<1>3. CASE ~Says(frame, s, f)
  <2>1. CASE \E i \in 1..Len(q) :
              /\ Says(q[i], s, f) /\ q[i].d[s][f] = value
              /\ \A j \in (i + 1)..Len(q) : ~Says(q[j], s, f)
    <3>1. PICK i \in 1..Len(q) :
              /\ Says(q[i], s, f) /\ q[i].d[s][f] = value
              /\ \A j \in (i + 1)..Len(q) : ~Says(q[j], s, f)
      BY <2>1
    <3>2. i \in 1..Len(longer) /\ Says(longer[i], s, f) /\ longer[i].d[s][f] = value
      BY <1>1, <3>1
    <3>3. \A j \in (i + 1)..Len(longer) : ~Says(longer[j], s, f)
      BY <1>1, <1>3, <3>1
    <3> QED BY <3>2, <3>3 DEF WillShow, Says, longer
  <2>2. CASE (\A i \in 1..Len(q) : ~Says(q[i], s, f)) /\ Value(At(shown, s), f) = value
    <3>1. \A i \in 1..Len(longer) : ~Says(longer[i], s, f)
      BY <1>1, <1>3, <2>2
    <3> QED BY <2>2, <3>1 DEF WillShow, Says, longer
  <2> QED BY <1>3, <2>1, <2>2 DEF WillShow, Says
<1> QED BY <1>2, <1>3

\* A backlog that was collapsed says everything of what the last ticks say.
LEMMA ShowCollapsed ==
    ASSUME NEW S, NEW ticks, NEW shown
    PROVE  Told(<<Snap(S, ticks)>>, shown, S, ticks)
<1> SUFFICES ASSUME NEW s \in S \cap DOMAIN ticks, NEW f \in DOMAIN ticks[s] \ {"ts"}
             PROVE  WillShow(<<Snap(S, ticks)>>, shown, s, f, ticks[s][f])
  BY DEF Told
<1>1. Says(Snap(S, ticks), s, f) /\ Snap(S, ticks).d[s][f] = ticks[s][f]
  BY DEF Says, Snap
<1>2. Len(<<Snap(S, ticks)>>) = 1 /\ <<Snap(S, ticks)>>[1] = Snap(S, ticks)
  BY SeqOne
<1>3. 1 \in 1..1 /\ ((1 + 1)..1) = {}
  OBVIOUS
<1> HIDE DEF Snap
<1> QED BY <1>1, <1>2, <1>3 DEF WillShow, Says

\* The send loop: the browser has merged the first frame, and the rest is to come.
LEMMA ShowSent ==
    ASSUME NEW q, IsSeq(q), q # << >>, NEW shown, NEW s, NEW f, NEW value,
           WillShow(q, shown, s, f, value)
    PROVE  WillShow(Tail(q), Merge(shown, Head(q)), s, f, value)
<1> DEFINE rest == Tail(q)
           merged == Merge(shown, Head(q))
<1>1. /\ Len(q) \in Nat \ {0} /\ Len(rest) = Len(q) - 1 /\ Len(rest) \in Nat
      /\ \A i \in 1..Len(rest) : rest[i] = q[i + 1] /\ i + 1 \in 1..Len(q)
      /\ Head(q) = q[1]
  BY SeqTail
<1>2. Says(q[1], s, f) => Value(At(merged, s), f) = q[1].d[s][f]
  BY <1>1 DEF Says, Merge, Over, At, Value
<1>3. ~Says(q[1], s, f) => Value(At(merged, s), f) = Value(At(shown, s), f)
  BY <1>1 DEF Says, Merge, Over, At, Value, Empty
<1> HIDE DEF rest, merged
<1>4. ASSUME NEW i \in 1..Len(q),
             Says(q[i], s, f), q[i].d[s][f] = value,
             \A j \in (i + 1)..Len(q) : ~Says(q[j], s, f)
      PROVE  WillShow(rest, merged, s, f, value)
  <2>1. CASE i = 1
    <3>1. \A j \in 1..Len(rest) : ~Says(rest[j], s, f)
      BY <1>1, <1>4, <2>1
    <3> QED BY <1>2, <1>4, <2>1, <3>1 DEF WillShow, Says
  <2>2. CASE i # 1
    <3>1. i - 1 \in 1..Len(rest) /\ rest[i - 1] = q[i]
      BY <1>1, <2>2
    <3>2. \A j \in ((i - 1) + 1)..Len(rest) : ~Says(rest[j], s, f)
      BY <1>1, <1>4
    <3> QED BY <1>4, <3>1, <3>2 DEF WillShow, Says
  <2> QED BY <2>1, <2>2
<1>5. ASSUME \A i \in 1..Len(q) : ~Says(q[i], s, f), Value(At(shown, s), f) = value
      PROVE  WillShow(rest, merged, s, f, value)
  <2>1. \A j \in 1..Len(rest) : ~Says(rest[j], s, f)
    BY <1>1, <1>5
  <2>2. ~Says(q[1], s, f)
    BY <1>1, <1>5
  <2> QED BY <1>3, <1>5, <2>1, <2>2 DEF WillShow, Says
<1>6. \/ \E i \in 1..Len(q) : Says(q[i], s, f) /\ q[i].d[s][f] = value
                              /\ \A j \in (i + 1)..Len(q) : ~Says(q[j], s, f)
      \/ (\A i \in 1..Len(q) : ~Says(q[i], s, f)) /\ Value(At(shown, s), f) = value
  BY DEF WillShow, Says
<1> QED BY <1>4, <1>5, <1>6 DEF rest, merged

\* _enqueue, when the frame brings whatever the last ticks say anew.
LEMMA EnqueueTells ==
    ASSUME NEW q, IsSeq(q), NEW shown, NEW S, NEW ticks, NEW frame,
           \A s \in S \cap DOMAIN ticks : \A f \in DOMAIN ticks[s] \ {"ts"} :
               IF Says(frame, s, f) THEN frame.d[s][f] = ticks[s][f]
                                    ELSE WillShow(q, shown, s, f, ticks[s][f])
    PROVE  Told(Enqueue(q, frame, S, ticks), shown, S, ticks)
<1>1. CASE Len(q) < QueueMax
  <2>1. Enqueue(q, frame, S, ticks) = Append(q, frame)
    BY <1>1 DEF Enqueue
  <2>2. ASSUME NEW s \in S \cap DOMAIN ticks, NEW f \in DOMAIN ticks[s] \ {"ts"}
        PROVE  WillShow(Append(q, frame), shown, s, f, ticks[s][f])
    BY ShowAppended
  <2> QED BY <2>1, <2>2 DEF Told
<1>2. CASE ~(Len(q) < QueueMax)
  BY <1>2, ShowCollapsed DEF Enqueue
<1> QED BY <1>1, <1>2

\* A field of a cell that a step leaves alone.
LEMMA SameCell ==
    ASSUME NEW q, NEW shown, NEW shown2, NEW s, At(shown, s) = At(shown2, s),
           NEW f, NEW value, WillShow(q, shown, s, f, value)
    PROVE  WillShow(q, shown2, s, f, value)
  BY DEF WillShow

\* Fewer symbols, fewer ticks: less to tell.
LEMMA ToldLess ==
    ASSUME NEW q, NEW shown, NEW S, NEW S2, S2 \subseteq S, NEW ticks, NEW X, Told(q, shown, S, ticks)
    PROVE  Told(q, shown, S2, Drop(ticks, X))
  BY DEF Told, Drop

LEMMA MissedIs ==
    NothingMissed <=> \A c \in conns : ~RequiresDelay(c) => Told(queue[c], view[c], symbols[c], last)
  BY DEF NothingMissed, Told

LEMMA MissedIsNext ==
    NothingMissed' <=> \A c \in conns' : ~RequiresDelay(c) => Told(queue'[c], view'[c], symbols'[c], last')
  BY DEF NothingMissed, Told, RequiresDelay
\* A mirror that is there and answers, or none.
MirrorWorks == Mirror \in {"none", "up"}

Reaches == NothingMissed /\ Mirrored

LEMMA InitReaches == Init => Reaches
  BY DEF Init, Reaches, NothingMissed, Mirrored, Empty

\* Connections come with nothing subscribed, and go.
LEMMA RegisterReaches ==
    ASSUME IInv, Reaches, NEW c \in Conns, Register(c) PROVE Reaches'
<1>1. symbols[c] = {}
  BY ExactIs DEF IInv, Register
<1>2. /\ conns' = conns \cup {c}
      /\ UNCHANGED <<symbols, queue, last, mirror, view>>
  BY DEF Register
<1>3. Told(queue[c], view[c], symbols[c], last)
  BY <1>1 DEF Told
<1>4. NothingMissed'
  BY <1>2, <1>3, MissedIs, MissedIsNext DEF Reaches
<1>5. Mirrored'
  BY <1>1, <1>2 DEF Reaches, Mirrored
<1> QED BY <1>4, <1>5 DEF Reaches

\* A symbol that another connection still holds keeps its last tick.
LEMMA StillHeld ==
    ASSUME IInv', NEW S, Decref(S), NEW c \in conns', NEW s \in symbols'[c], s \in DOMAIN last
    PROVE  s \in DOMAIN last'
<1>1. s \in Symbols /\ s \in DOMAIN refcount'
  <2>1. conns' \subseteq Conns /\ symbols' \in [Conns -> SUBSET Symbols]
    BY DEF IInv, HubTypes
  <2>2. s \in Symbols /\ c \in SubscribersOf(conns', symbols', s)
    BY <2>1 DEF SubscribersOf
  <2>3. CountOf(refcount', SubscribersOf(conns', symbols', s), s)
    BY <2>2, ExactIsNext DEF IInv
  <2> QED BY <2>2, <2>3 DEF CountOf
<1> QED BY <1>1 DEF Decref, Drop

LEMMA UnregisterReaches ==
    ASSUME IInv, IInv', Shapes, Reaches, NEW c \in Conns, Unregister(c) PROVE Reaches'
<1>1. /\ conns' = conns \ {c} /\ Decref(symbols[c])
      /\ \A d \in conns' : symbols'[d] = symbols[d] /\ queue'[d] = queue[d]
      /\ UNCHANGED <<mirror, view>>
  BY DEF Unregister, IInv, HubTypes, Shapes
<1>2. PICK X : last' = Drop(last, X)
  BY <1>1 DEF Decref
<1>3. ASSUME NEW d \in conns', ~RequiresDelay(d)
      PROVE  Told(queue'[d], view'[d], symbols'[d], last')
  <2>1. Told(queue[d], view[d], symbols[d], last)
    BY <1>1, <1>3, MissedIs DEF Reaches
  <2>2. Told(queue[d], view[d], symbols[d], Drop(last, X))
    BY <2>1, ToldLess
  <2> QED BY <1>1, <1>2, <2>2
<1>4. ASSUME NEW d \in conns', NEW s \in symbols'[d] \cap DOMAIN mirror' PROVE s \in DOMAIN last'
  BY <1>1, StillHeld DEF Reaches, Mirrored
<1>5. Mirrored'
  BY <1>1, <1>4 DEF Reaches, Mirrored
<1> QED BY <1>3, <1>5, MissedIsNext DEF Reaches

LEMMA UnsubscribeReaches ==
    ASSUME IInv, IInv', Shapes, Reaches, NEW c \in Conns, NEW S, Unsubscribe(c, S) PROVE Reaches'
<1>1. /\ conns' = conns /\ Decref(S \cap symbols[c])
      /\ \A d \in conns : d # c => symbols'[d] = symbols[d] /\ view'[d] = view[d]
      /\ c \in conns /\ symbols'[c] = symbols[c] \ S /\ view'[c] = Drop(view[c], S)
      /\ UNCHANGED <<mirror, queue>>
  BY DEF Unsubscribe, IInv, HubTypes, Shapes
<1>2. PICK X : last' = Drop(last, X)
  BY <1>1 DEF Decref
<1>3. ASSUME NEW d \in conns', ~RequiresDelay(d)
      PROVE  Told(queue'[d], view'[d], symbols'[d], last')
  <2>1. Told(queue[d], view[d], symbols[d], last)
    BY <1>1, <1>3, MissedIs DEF Reaches
  <2>2. Told(queue[d], view[d], symbols'[d], last')
    BY <1>1, <1>2, <2>1, ToldLess
  <2>3. CASE d # c
    BY <1>1, <2>2, <2>3
  <2>4. CASE d = c
    <3>1. ASSUME NEW s \in symbols'[c] \cap DOMAIN last', NEW f \in DOMAIN last'[s] \ {"ts"}
          PROVE  WillShow(queue[c], view'[c], s, f, last'[s][f])
      <4>1. At(view[c], s) = At(view'[c], s)
        BY <1>1 DEF At, Drop
      <4>2. WillShow(queue[c], view[c], s, f, last'[s][f])
        BY <2>2, <2>4 DEF Told
      <4> QED BY <4>1, <4>2, SameCell
    <3> QED BY <1>1, <2>4, <3>1 DEF Told
  <2> QED BY <2>3, <2>4
<1>4. ASSUME NEW d \in conns', NEW s \in symbols'[d] \cap DOMAIN mirror' PROVE s \in DOMAIN last'
  BY <1>1, StillHeld DEF Reaches, Mirrored
<1>5. Mirrored'
  BY <1>1, <1>4 DEF Reaches, Mirrored
<1> QED BY <1>3, <1>5, MissedIsNext DEF Reaches

\* A snapshot of what is new to the connection; what is read from the mirror was
\* held by nobody else.
LEMMA SubscribeReaches ==
    ASSUME MirrorWorks, IInv, Shapes, Reaches, NEW c \in Conns, NEW S, Subscribe(c, S) PROVE Reaches'
<1>1. PICK T \in Wanted(c, S) :
         /\ symbols' = [symbols EXCEPT ![c] = @ \cup (T \ symbols[c])]
         /\ \E L \in Loadable(T \ symbols[c]) : last' = Over(last, [s \in L |-> mirror[s]])
         /\ queue' = IF (T \ symbols[c]) \cap DOMAIN last' = {} THEN queue
                     ELSE [queue EXCEPT ![c] =
                              Enqueue(@, Snap(T \ symbols[c], last'), symbols'[c], last')]
  BY DEF Subscribe
<1> DEFINE fresh == T \ symbols[c]
           L == (fresh \ DOMAIN last) \cap DOMAIN mirror
           frame == Snap(fresh, last')
<1>2. last' = Over(last, [s \in L |-> mirror[s]])
  BY <1>1 DEF Loadable, MirrorWorks
<1>3. /\ c \in conns /\ conns' = conns /\ mirror' = mirror /\ view' = view
  BY DEF Subscribe
<1>4. /\ symbols'[c] = symbols[c] \cup fresh
      /\ \A d \in conns : d # c => symbols'[d] = symbols[d] /\ queue'[d] = queue[d]
      /\ queue'[c] = IF fresh \cap DOMAIN last' = {} THEN queue[c]
                     ELSE Enqueue(queue[c], frame, symbols'[c], last')
  BY <1>1, <1>3 DEF IInv, HubTypes, Shapes
<1>5. DOMAIN last' = DOMAIN last \cup L
  BY <1>2 DEF Over
<1>6. \A s \in DOMAIN last : last'[s] = last[s]
  BY <1>2 DEF Over
<1>7. /\ \A s \in DOMAIN frame.d : frame.d[s] = last'[s]
      /\ DOMAIN frame.d = fresh \cap DOMAIN last'
  BY DEF Snap
<1>8. \A d \in conns : symbols[d] \cap DOMAIN last' \subseteq DOMAIN last
  BY <1>5 DEF Reaches, Mirrored
<1> HIDE DEF L, frame
<1>9. ASSUME NEW d \in conns, d # c, ~RequiresDelay(d)
      PROVE  Told(queue[d], view[d], symbols[d], last')
  <2>1. Told(queue[d], view[d], symbols[d], last)
    BY <1>9, MissedIs DEF Reaches
  <2> QED BY <1>6, <1>8, <2>1 DEF Told
<1>10. ASSUME ~RequiresDelay(c)
       PROVE  Told(queue'[c], view[c], symbols'[c], last')
  <2>1. Told(queue[c], view[c], symbols[c], last)
    BY <1>3, <1>10, MissedIs DEF Reaches
  <2>2. \A s \in (symbols'[c] \cap DOMAIN last') \ fresh : s \in symbols[c] /\ s \in DOMAIN last
    BY <1>3, <1>4, <1>8
  <2>3. CASE fresh \cap DOMAIN last' = {}
    <3>1. \A s \in symbols'[c] \cap DOMAIN last' : s \in symbols[c] \cap DOMAIN last /\ last'[s] = last[s]
      BY <1>6, <2>2, <2>3
    <3> QED BY <1>4, <2>1, <2>3, <3>1 DEF Told
  <2>4. CASE fresh \cap DOMAIN last' # {}
    <3>1. ASSUME NEW s \in symbols'[c] \cap DOMAIN last', NEW f \in DOMAIN last'[s] \ {"ts"}
          PROVE  IF Says(frame, s, f) THEN frame.d[s][f] = last'[s][f]
                                      ELSE WillShow(queue[c], view[c], s, f, last'[s][f])
      <4>1. CASE s \in fresh
        BY <1>7, <3>1, <4>1 DEF Says
      <4>2. CASE s \notin fresh
        <5>1. s \in symbols[c] \cap DOMAIN last /\ last'[s] = last[s]
          BY <1>6, <2>2, <3>1, <4>2
        <5>2. WillShow(queue[c], view[c], s, f, last[s][f])
          BY <2>1, <3>1, <5>1 DEF Told
        <5>3. ~Says(frame, s, f)
          BY <1>7, <4>2 DEF Says
        <5> QED BY <5>1, <5>2, <5>3
      <4> QED BY <4>1, <4>2
    <3>2. IsSeq(queue[c])
      BY DEF Shapes
    <3>3. Told(Enqueue(queue[c], frame, symbols'[c], last'), view[c], symbols'[c], last')
      BY <3>1, <3>2, EnqueueTells
    <3> QED BY <1>4, <2>4, <3>3
  <2> QED BY <2>3, <2>4
<1>11. NothingMissed'
  BY <1>3, <1>4, <1>9, <1>10, MissedIsNext
<1>12. ASSUME NEW d \in conns, NEW s \in symbols'[d] \cap DOMAIN mirror PROVE s \in DOMAIN last'
  <2>1. CASE s \in symbols[d]
    BY <1>5, <1>12, <2>1 DEF Reaches, Mirrored
  <2>2. CASE s \notin symbols[d]
    <3>1. s \in fresh
      BY <1>4, <1>12, <2>2
    <3> QED BY <1>5, <1>12, <3>1 DEF L
  <2> QED BY <2>1, <2>2
<1>13. Mirrored'
  BY <1>3, <1>12 DEF Reaches, Mirrored
<1> QED BY <1>11, <1>13 DEF Reaches

\* publish(): the fields that are sent and those that are not are together what the
\* tick says, for whoever knew the tick before it.
LEMMA DeltaTells ==
    ASSUME NEW q, NEW shown, NEW S, NEW ticks, NEW s \in S,
           Told(q, shown, S, ticks), NEW tick \in Ticks, NEW f \in DOMAIN tick,
           f \notin DOMAIN Delta(At(ticks, s), tick)
    PROVE  WillShow(q, shown, s, f, tick[f])
<1>1. f \in Fields /\ f # "ts" /\ tick[f] # Null
  BY TicksAssumption
<1>2. Value(At(ticks, s), f) = tick[f]
  BY <1>1 DEF Delta, Value
<1>3. s \in DOMAIN ticks /\ f \in DOMAIN ticks[s] \ {"ts"} /\ ticks[s][f] = tick[f]
  BY <1>1, <1>2 DEF Value, At, Empty
<1> QED BY <1>3 DEF Told

LEMMA PublishReaches ==
    ASSUME MirrorWorks, IInv, Shapes, Reaches,
           NEW s \in Symbols, NEW tick \in Ticks, NEW ts, Publish(s, tick, ts)
    PROVE  Reaches'
<1> DEFINE full == Put(tick, "ts", ts)
           delta == Delta(At(last, s), tick)
           frame == [t |-> "px", d |-> Put(Empty, s, Put(delta, "ts", ts))]
<1>1. last' = Put(last, s, full) /\ UNCHANGED <<conns, symbols, view>>
  BY DEF Publish
<1>1a. \/ Mirror # "none" /\ mirror' = Put(mirror, s, full)
       \/ Mirror # "up" /\ mirror' = mirror
  BY DEF Publish
<1>2. IF delta = Empty THEN queue' = queue
      ELSE queue' = [c \in Conns |-> IF c \in Subscribers(s) /\ ~RequiresDelay(c)
                                     THEN Enqueue(queue[c], frame, symbols[c], last') ELSE queue[c]]
  BY DEF Publish
<1>3. /\ DOMAIN last' = DOMAIN last \cup {s} /\ last'[s] = full
      /\ \A x \in DOMAIN last : x # s => last'[x] = last[x]
  BY <1>1 DEF Put
<1>4. DOMAIN full \ {"ts"} = DOMAIN tick /\ \A f \in DOMAIN tick : full[f] = tick[f]
  BY TicksAssumption DEF Put
<1>5. \A f \in DOMAIN delta : f \in Fields /\ f # "ts" /\ delta[f] = Value(tick, f)
  BY TicksAssumption DEF Delta
<1>6. /\ \A x, f : Says(frame, x, f) <=> x = s /\ f \in DOMAIN delta \cup {"ts"}
      /\ \A f \in DOMAIN delta : frame.d[s][f] = delta[f]
  BY <1>5 DEF Says, Put, Empty
<1>7. delta = Empty => DOMAIN delta = {}
  BY DEF Empty
<1> HIDE DEF full, delta, frame
<1>8. ASSUME NEW c \in conns, ~RequiresDelay(c)
      PROVE  Told(queue'[c], view[c], symbols[c], last')
  <2>1. Told(queue[c], view[c], symbols[c], last) /\ IsSeq(queue[c]) /\ c \in Conns
    BY <1>8, MissedIs DEF Reaches, Shapes, IInv, HubTypes
  <2>2. ASSUME NEW x \in symbols[c] \cap DOMAIN last', NEW f \in DOMAIN last'[x] \ {"ts"},
               f \notin DOMAIN delta \/ x # s
        PROVE  WillShow(queue[c], view[c], x, f, last'[x][f])
    <3>1. CASE x = s
      <4>1. f \in DOMAIN tick /\ last'[x][f] = tick[f]
        BY <1>3, <1>4, <2>2, <3>1
      <4> QED BY <2>1, <2>2, <3>1, <4>1, DeltaTells DEF delta
    <3>2. CASE x # s
      BY <1>3, <2>1, <2>2, <3>2 DEF Told
    <3> QED BY <3>1, <3>2
  <2>3. CASE queue'[c] = queue[c] /\ (delta = Empty \/ s \notin symbols[c])
    BY <1>7, <2>2, <2>3 DEF Told
  <2>4. CASE queue'[c] = Enqueue(queue[c], frame, symbols[c], last')
    <3>1. ASSUME NEW x \in symbols[c] \cap DOMAIN last', NEW f \in DOMAIN last'[x] \ {"ts"}
          PROVE  IF Says(frame, x, f) THEN frame.d[x][f] = last'[x][f]
                                      ELSE WillShow(queue[c], view[c], x, f, last'[x][f])
      <4>1. CASE Says(frame, x, f)
        <5>1. x = s /\ f \in DOMAIN delta /\ f \in DOMAIN tick /\ last'[x][f] = tick[f]
          BY <1>3, <1>4, <1>6, <3>1, <4>1
        <5> QED BY <1>5, <1>6, <4>1, <5>1 DEF Value
      <4>2. CASE ~Says(frame, x, f)
        BY <1>6, <2>2, <3>1, <4>2
      <4> QED BY <4>1, <4>2
    <3>2. Told(Enqueue(queue[c], frame, symbols[c], last'), view[c], symbols[c], last')
      BY <2>1, <3>1, EnqueueTells
    <3> QED BY <2>4, <3>2
  <2>5. \/ queue'[c] = queue[c] /\ (delta = Empty \/ s \notin symbols[c])
        \/ queue'[c] = Enqueue(queue[c], frame, symbols[c], last')
    BY <1>2, <1>8, <2>1 DEF Subscribers
  <2> QED BY <2>3, <2>4, <2>5
<1>9. NothingMissed'
  BY <1>1, <1>8, MissedIsNext
<1>10. Mirrored'
  <2>1. /\ Mirror = "none" => mirror' = mirror
        /\ DOMAIN mirror' \subseteq DOMAIN mirror \cup {s}
    BY <1>1a DEF Put
  <2> QED BY <1>1, <1>3, <2>1 DEF Reaches, Mirrored
<1> QED BY <1>9, <1>10 DEF Reaches

\* publish_delayed(): not for those who are sent ticks as they come.
LEMMA PublishDelayedReaches ==
    ASSUME IInv, Shapes, Reaches, NEW s \in Symbols, PublishDelayed(s) PROVE Reaches'
<1>1. \A c \in conns : ~RequiresDelay(c) => queue'[c] = queue[c]
  BY DEF PublishDelayed, RequiresDelay, IInv, HubTypes
<1>2. UNCHANGED <<conns, symbols, last, mirror, view>>
  BY DEF PublishDelayed
<1>3. NothingMissed'
  BY <1>1, <1>2, MissedIs, MissedIsNext DEF Reaches
<1> QED BY <1>2, <1>3 DEF Reaches, Mirrored

LEMMA PingReaches ==
    ASSUME IInv, Shapes, Reaches, NEW c \in Conns, Ping(c) PROVE Reaches'
<1>1. /\ queue'[c] = <<Snap(symbols[c], last)>>
      /\ \A d \in conns : d # c => queue'[d] = queue[d]
      /\ UNCHANGED <<conns, symbols, last, mirror, view>>
  BY DEF Ping, IInv, HubTypes, Shapes
<1>2. Told(queue'[c], view[c], symbols[c], last)
  BY <1>1, ShowCollapsed
<1>3. NothingMissed'
  BY <1>1, <1>2, MissedIs, MissedIsNext DEF Reaches
<1> QED BY <1>1, <1>3 DEF Reaches, Mirrored

LEMMA SendReaches ==
    ASSUME IInv, Shapes, Reaches, NEW c \in Conns, Send(c) PROVE Reaches'
<1>1. /\ queue[c] # << >> /\ IsSeq(queue[c])
      /\ queue'[c] = Tail(queue[c]) /\ view'[c] = Merge(view[c], Head(queue[c]))
      /\ \A d \in conns : d # c => queue'[d] = queue[d] /\ view'[d] = view[d]
      /\ UNCHANGED <<conns, symbols, last, mirror>>
  BY DEF Send, IInv, HubTypes, Shapes
<1>2. ASSUME Told(queue[c], view[c], symbols[c], last)
      PROVE  Told(queue'[c], view'[c], symbols[c], last)
  BY <1>1, <1>2, ShowSent DEF Told
<1>3. NothingMissed'
  BY <1>1, <1>2, MissedIs, MissedIsNext DEF Reaches
<1> QED BY <1>1, <1>3 DEF Reaches, Mirrored

LEMMA StepReaches == MirrorWorks /\ IInv /\ IInv' /\ Shapes /\ Reaches /\ [Next]_vars => Reaches'
<1> SUFFICES ASSUME MirrorWorks, IInv, IInv', Shapes, Reaches, [Next]_vars PROVE Reaches'
  OBVIOUS
<1>1. CASE \E c \in Conns : Register(c) \/ Unregister(c) \/ Ping(c) \/ Send(c)
  BY <1>1, RegisterReaches, UnregisterReaches, PingReaches, SendReaches
<1>2. CASE \E c \in Conns, S \in SUBSET Symbols : Subscribe(c, S) \/ Unsubscribe(c, S)
  BY <1>2, SubscribeReaches, UnsubscribeReaches
<1>3. CASE \E s \in Symbols, tick \in Ticks, lag \in Lags : Publish(s, tick, now - lag)
  BY <1>3, PublishReaches
<1>4. CASE \E s \in Symbols : PublishDelayed(s)
  BY <1>4, PublishDelayedReaches
<1>5. CASE Restart
  BY <1>5 DEF Restart, Reaches, NothingMissed, Mirrored
<1>6. CASE UNCHANGED <<conns, symbols, queue, last, mirror, view>>
  BY <1>6, MissedIs, MissedIsNext DEF Reaches, Mirrored
<1>7. \/ UNCHANGED <<conns, symbols, queue, last, mirror, view>>
      \/ PollStart \/ Tick \/ \E s \in Symbols : Miss(s)
      => UNCHANGED <<conns, symbols, queue, last, mirror, view>>
  BY DEF PollStart, Tick, Miss
<1> QED BY <1>1, <1>2, <1>3, <1>4, <1>5, <1>6, <1>7 DEF Next, vars

\* With a mirror that works, or none, every subscriber that is sent ticks as they
\* come ends up with every field of the last tick, however slow its socket and
\* however often it, or the backend, comes and goes (hub.py Connection._enqueue).
THEOREM NothingMissedAlways ==
    ASSUME MirrorWorks PROVE Spec => []NothingMissed
<1>1. Reaches => NothingMissed
  BY DEF Reaches
<1>2. IInv /\ IInv' /\ Shapes /\ Reaches /\ [Next]_vars => Reaches'
  BY StepReaches
<1> QED BY InitIInv, InitShapes, InitReaches, StepIInv, StepShapes, <1>1, <1>2, PTL DEF Spec
-----------------------------------------------------------------------------
(* The delayed plane.  Stamps are numbers, so the newest tick that is old   *)
(* enough exists and is old enough, whatever order they were recorded in;   *)
(* and what is old enough stays so as the clock goes on.                    *)

Stamped == {Put(tick, "ts", t) : tick \in Ticks, t \in Int}

Histories == \A s \in DOMAIN history : history[s] \in Seq(Stamped)

\* A frame is too young for the delayed plane at time t if it is of a tick.
OldAt(frame, t) ==
    frame.t = "px" => \A s \in DOMAIN frame.d : frame.d[s]["ts"] \in Int /\ frame.d[s]["ts"] + Delay <= t

AllOldAt(q, t) == \A i \in 1..Len(q) : OldAt(q[i], t)

HeldBackIn == \A c \in Conns : Source = "licensed" /\ Tier[c] = "delayed" => AllOldAt(queue[c], now)

LEMMA StampIsNumber == \A tick \in Stamped : tick["ts"] \in Int
<1>1. \A tick, t : Put(tick, "ts", t)["ts"] = t
  BY DEF Put
<1> QED BY <1>1 DEF Stamped

\* Any number of natural numbers have a least one.
LEMMA LeastExists ==
    ASSUME NEW T, T \subseteq Nat, T # {}
    PROVE  \E x \in T : \A y \in T : x <= y
<1>1. PICK x \in T : \A y \in T : ~(<<y, x>> \in OpToRel(<, Nat))
  BY NatLessThanWellFounded, WFMin
<1>2. \A y \in T : ~(y < x)
  BY <1>1 DEF OpToRel
<1> QED BY <1>2

\* released(): if it answers, with a tick of the history that is old enough.
LEMMA ReleasedIsOld ==
    ASSUME NEW s, Held(s) \in Seq(Stamped), NEW t \in Nat, Released(s, t) # Empty
    PROVE  Released(s, t)["ts"] \in Int /\ Released(s, t)["ts"] + Delay <= t
<1> DEFINE hist == Held(s)
           old  == {i \in 1..Len(hist) : hist[i].ts + Delay <= t}
           best == {i \in old : \A j \in old : hist[j].ts <= hist[i].ts}
           first == CHOOSE i \in best : \A j \in best : i <= j
<1>1. old # {} /\ Released(s, t) = hist[first]
  BY DEF Released
<1>2. \A i \in old : i \in Nat /\ hist[i].ts \in Int /\ hist[i].ts + Delay <= t
  BY StampIsNumber
<1> HIDE DEF old
<1>3. best # {}
  <2> DEFINE Away == {t - hist[i].ts : i \in old}
  <2>1. Away \subseteq Nat /\ Away # {}
    BY <1>1, <1>2, ClockAssumption
  <2>2. PICK x \in Away : \A y \in Away : x <= y
    BY <2>1, LeastExists
  <2>3. PICK i \in old : x = t - hist[i].ts
    BY <2>2
  <2>4. ASSUME NEW j \in old PROVE hist[j].ts <= hist[i].ts
    <3>1. x <= t - hist[j].ts
      BY <2>2
    <3> QED BY <1>2, <2>3, <3>1
  <2> QED BY <2>4
<1>4. best \subseteq Nat
  BY <1>2
<1>5. \E i \in best : \A j \in best : i <= j
  BY <1>3, <1>4, LeastExists
<1>6. first \in best
  BY <1>5
<1>7. best \subseteq old
  OBVIOUS
<1> HIDE DEF first, best
<1> QED BY <1>1, <1>2, <1>6, <1>7

\* record(): what is kept of the history is of the same kind.
LEMMA RecordedStamped ==
    ASSUME NEW hist \in Seq(Stamped), NEW tick \in Stamped
    PROVE  Recorded(hist, tick) \in Seq(Stamped)
<1> DEFINE all   == Append(hist, tick)
           keep  == {i \in 1..Len(all) : \E j \in 1..i : all[j].ts >= tick.ts - (Delay + Margin)}
           fresh == Len(all) - Cardinality(keep)
           first == IF Len(all) - fresh > MaxHistory THEN Len(all) - MaxHistory ELSE fresh
<1>1. all \in Seq(Stamped) /\ Len(all) \in Nat
  OBVIOUS
<1>2. Cardinality(keep) \in Nat /\ Cardinality(keep) <= Len(all)
  <2>1. IsFiniteSet(1..Len(all)) /\ Cardinality(1..Len(all)) = Len(all)
    BY <1>1, FS_Interval
  <2>2. IsFiniteSet(keep) /\ Cardinality(keep) <= Cardinality(1..Len(all))
    BY <2>1, FS_Subset
  <2> QED BY <2>1, <2>2, FS_CardinalityType
<1> HIDE DEF keep
<1>3. first \in Nat
  BY <1>1, <1>2, QueueAssumption
<1>4. Recorded(hist, tick) = SubSeq(all, first + 1, Len(all))
  BY DEF Recorded, keep
<1> HIDE DEF all, first
<1>5. \A i \in (first + 1)..Len(all) : all[i] \in Stamped
  BY <1>1, <1>3
<1> QED BY <1>1, <1>3, <1>4, <1>5, SubSeqProperties

LEMMA EnqueueOld ==
    ASSUME NEW q, IsSeq(q), NEW t, AllOldAt(q, t), NEW frame, OldAt(frame, t), NEW S, NEW ticks
    PROVE  AllOldAt(Enqueue(q, frame, S, ticks), t)
<1>1. AllOldAt(Append(q, frame), t)
  <2>1. \A i \in 1..Len(Append(q, frame)) : Append(q, frame)[i] = frame \/ (i \in 1..Len(q) /\ Append(q, frame)[i] = q[i])
    BY SeqAppend
  <2> QED BY <2>1 DEF AllOldAt
<1>2. AllOldAt(<<Snap(S, ticks)>>, t)
  BY SeqOne DEF AllOldAt, OldAt, Snap
<1> QED BY <1>1, <1>2 DEF Enqueue

Delays == Histories /\ HeldBackIn

LEMMA InitDelays == Init => Delays
  BY SeqEmpty DEF Init, Delays, Histories, HeldBackIn, AllOldAt, Empty

LEMMA DropHistories ==
    ASSUME Histories, NEW X, history' = Drop(history, X)
    PROVE  Histories'
  BY DEF Histories, Drop

LEMMA StepDelays == IInv /\ Shapes /\ Delays /\ [Next]_vars => Delays'
<1> SUFFICES ASSUME IInv, Shapes, Delays, [Next]_vars PROVE Delays'
  OBVIOUS
<1> USE DEF Delays
<1>1. ASSUME NEW c \in Conns, Unregister(c) PROVE Delays'
  <2>1. Histories'
    BY <1>1, DropHistories DEF Unregister, Decref
  <2>2. \A d \in Conns : queue'[d] = queue[d] \/ queue'[d] = << >>
    BY <1>1 DEF Unregister, Shapes
  <2>3. HeldBackIn'
    BY <1>1, <2>2, SeqEmpty DEF Unregister, HeldBackIn, AllOldAt
  <2> QED BY <2>1, <2>3
<1>2. ASSUME NEW c \in Conns, NEW S, Subscribe(c, S) PROVE Delays'
  <2>1. PICK fresh, syms :
           /\ queue' = queue \/ queue' = [queue EXCEPT ![c] = Enqueue(@, Snap(fresh, last'), syms, last')]
           /\ UNCHANGED <<now, history>>
    BY <1>2 DEF Subscribe
  <2>2. OldAt(Snap(fresh, last'), now)
    BY DEF OldAt, Snap
  <2>3. ASSUME NEW d \in Conns, AllOldAt(queue[d], now) PROVE AllOldAt(queue'[d], now)
    BY <2>1, <2>2, <2>3, EnqueueOld DEF Shapes
  <2> QED BY <2>1, <2>3 DEF Histories, HeldBackIn
<1>3. ASSUME NEW c \in Conns, NEW S, Unsubscribe(c, S) PROVE Delays'
  <2>1. Histories'
    BY <1>3, DropHistories DEF Unsubscribe, Decref
  <2> QED BY <1>3, <2>1 DEF Unsubscribe, HeldBackIn
<1>4. ASSUME NEW c \in Conns, Ping(c) PROVE Delays'
  <2>1. AllOldAt(<<Snap(symbols[c], last)>>, now)
    BY SeqOne DEF AllOldAt, OldAt, Snap
  <2>2. \A d \in Conns : queue'[d] = queue[d] \/ queue'[d] = <<Snap(symbols[c], last)>>
    BY <1>4 DEF Ping, Shapes
  <2> QED BY <1>4, <2>1, <2>2 DEF Ping, Histories, HeldBackIn
<1>5. ASSUME NEW c \in Conns, Send(c) PROVE Delays'
  <2>1. AllOldAt(queue[c], now) => AllOldAt(Tail(queue[c]), now)
    <3>1. \A i \in 1..Len(Tail(queue[c])) : Tail(queue[c])[i] = queue[c][i + 1] /\ i + 1 \in 1..Len(queue[c])
      BY <1>5, SeqTail DEF Send, Shapes
    <3> QED BY <3>1 DEF AllOldAt
  <2>2. \A d \in Conns : queue'[d] = queue[d] \/ (d = c /\ queue'[d] = Tail(queue[c]))
    BY <1>5 DEF Send, Shapes
  <2> QED BY <1>5, <2>1, <2>2 DEF Send, Histories, HeldBackIn
<1>6. ASSUME NEW s \in Symbols, NEW tick \in Ticks, NEW ts \in Int, Publish(s, tick, ts) PROVE Delays'
  <2> DEFINE full == Put(tick, "ts", ts)
  <2>1. history' = history \/ history' = Put(history, s, Recorded(Held(s), full))
    BY <1>6 DEF Publish
  <2>2. full \in Stamped
    BY DEF Stamped
  <2>3. Held(s) \in Seq(Stamped)
    BY DEF Held, Histories
  <2>4. Recorded(Held(s), full) \in Seq(Stamped)
    BY <2>2, <2>3, RecordedStamped
  <2> HIDE DEF full
  <2>5. Histories'
    BY <2>1, <2>4 DEF Histories, Put
  <2>6. now' = now /\ \A c \in Conns : RequiresDelay(c) => queue'[c] = queue[c]
    BY <1>6 DEF Publish, Shapes
  <2>7. HeldBackIn'
    BY <2>6 DEF HeldBackIn, RequiresDelay
  <2> QED BY <2>5, <2>7
<1>7. ASSUME NEW s \in Symbols, PublishDelayed(s) PROVE Delays'
  <2> DEFINE tick == Released(s, now)
             frame == [t |-> "px", d |-> Put(Empty, s, tick)]
  <2>1. tick["ts"] \in Int /\ tick["ts"] + Delay <= now
    <3>1. Held(s) \in Seq(Stamped)
      BY DEF Held, Histories
    <3> QED BY <1>7, <3>1, ReleasedIsOld DEF PublishDelayed, Shapes
  <2> HIDE DEF tick
  <2>2. OldAt(frame, now)
    BY <2>1 DEF OldAt, Put, Empty
  <2>3. /\ queue' = [c \in Conns |->
               IF c \in Subscribers(s) /\ Tier[c] # "realtime"
               THEN Enqueue(queue[c], frame, symbols[c], last) ELSE queue[c]]
        /\ UNCHANGED <<now, history>>
    BY <1>7 DEF PublishDelayed, tick
  <2> HIDE DEF frame
  <2>4. ASSUME NEW d \in Conns, AllOldAt(queue[d], now) PROVE AllOldAt(queue'[d], now)
    BY <2>2, <2>3, <2>4, EnqueueOld DEF Shapes
  <2> QED BY <2>3, <2>4 DEF Histories, HeldBackIn
<1>8. CASE Restart
  BY <1>8, SeqEmpty DEF Restart, Histories, HeldBackIn, AllOldAt, Empty
<1>9. CASE Tick
  <2>1. ASSUME NEW frame, OldAt(frame, now) PROVE OldAt(frame, now + 1)
    BY <2>1, ClockAssumption DEF OldAt, Shapes
  <2> QED BY <1>9, <2>1 DEF Tick, Histories, HeldBackIn, AllOldAt
<1>10. CASE UNCHANGED <<queue, now, history>>
  BY <1>10 DEF Histories, HeldBackIn
<1>11. ASSUME \/ \E c \in Conns : Register(c)
              \/ PollStart \/ UNCHANGED vars
              \/ \E s \in Symbols : Miss(s)
       PROVE  UNCHANGED <<queue, now, history>>
  BY <1>11 DEF Register, PollStart, Miss, vars
<1>12. ASSUME NEW s \in Symbols, NEW tick \in Ticks, NEW lag \in Lags, Publish(s, tick, now - lag) PROVE Delays'
  <2>1. now - lag \in Int
    BY ClockAssumption DEF Shapes
  <2> QED BY <1>6, <1>12, <2>1
<1> QED BY <1>1, <1>2, <1>3, <1>4, <1>5, <1>7, <1>8, <1>9, <1>10, <1>11, <1>12 DEF Next

\* A licensed tick is never queued for a connection on the delayed plane before it
\* is Delay old by the feed's clock, in whatever order ticks were recorded and
\* however the history was pruned (delayed.py:9-15).
THEOREM PxHeldBackAlways == Spec => []PxHeldBack
<1>1. Delays => PxHeldBack
  BY DEF Delays, HeldBackIn, AllOldAt, OldAt, PxHeldBack, FramesTo, HeldBack
<1> QED BY InitIInv, InitShapes, InitDelays, StepIInv, StepShapes, StepDelays, <1>1, PTL DEF Spec
-----------------------------------------------------------------------------
(* The delayed plane goes forward, as long as no tick left in the history is *)
(* later than the margin by which record() keeps more than the delay: then   *)
(* pruning by the stamp of the new tick removes the tick that could be       *)
(* released only together with everything older.                             *)

\* released() of a history at time t.
ReleasedOf(hist, t) ==
    LET old  == {i \in 1..Len(hist) : hist[i].ts + Delay <= t}
        best == {i \in old : \A j \in old : hist[j].ts <= hist[i].ts}
    IN  IF old = {} THEN Empty ELSE hist[CHOOSE i \in best : \A j \in best : i <= j]

\* It answers with the newest tick that is old enough.
LEMMA ReleasedNewest ==
    ASSUME NEW hist \in Seq(Stamped), NEW t \in Nat, ReleasedOf(hist, t) # Empty
    PROVE  /\ \E i \in 1..Len(hist) : hist[i] = ReleasedOf(hist, t) /\ hist[i].ts + Delay <= t
           /\ \A j \in 1..Len(hist) : hist[j].ts + Delay <= t => hist[j].ts <= ReleasedOf(hist, t)["ts"]
<1> DEFINE old  == {i \in 1..Len(hist) : hist[i].ts + Delay <= t}
           best == {i \in old : \A j \in old : hist[j].ts <= hist[i].ts}
           first == CHOOSE i \in best : \A j \in best : i <= j
<1>1. old # {} /\ ReleasedOf(hist, t) = hist[first]
  BY DEF ReleasedOf
<1>2. \A i \in old : i \in Nat /\ hist[i].ts \in Int /\ hist[i].ts + Delay <= t
  BY StampIsNumber
<1>3. \A i \in 1..Len(hist) : i \in old \/ ~(hist[i].ts + Delay <= t)
  OBVIOUS
<1>4. old \subseteq 1..Len(hist)
  OBVIOUS
<1> HIDE DEF old
<1>5. best # {}
  <2> DEFINE Away == {t - hist[i].ts : i \in old}
  <2>1. Away \subseteq Nat /\ Away # {}
    BY <1>1, <1>2, ClockAssumption
  <2>2. PICK x \in Away : \A y \in Away : x <= y
    BY <2>1, LeastExists
  <2>3. PICK i \in old : x = t - hist[i].ts
    BY <2>2
  <2>4. ASSUME NEW j \in old PROVE hist[j].ts <= hist[i].ts
    <3>1. x <= t - hist[j].ts
      BY <2>2
    <3> QED BY <1>2, <2>3, <3>1
  <2> QED BY <2>4
<1>6. best \subseteq Nat
  BY <1>2
<1>7. \E i \in best : \A j \in best : i <= j
  BY <1>5, <1>6, LeastExists
<1>8. first \in best
  BY <1>7
<1>9. \A i \in best : i \in old /\ \A j \in old : hist[j].ts <= hist[i].ts
  OBVIOUS
<1> HIDE DEF first, best
<1> QED BY <1>1, <1>2, <1>3, <1>4, <1>8, <1>9

\* record() keeps an end of what it had and the new tick; below the cap, from the
\* first tick on that is not too old.
LEMMA RecordedEnd ==
    ASSUME NEW hist \in Seq(Stamped), NEW tick \in Stamped
    PROVE  /\ \E m \in 1..(Len(hist) + 1) :
                 Recorded(hist, tick) = SubSeq(Append(hist, tick), m, Len(hist) + 1)
           /\ Len(hist) < MaxHistory =>
                 \E m \in 1..(Len(hist) + 1) :
                    /\ Recorded(hist, tick) = SubSeq(Append(hist, tick), m, Len(hist) + 1)
                    /\ Append(hist, tick)[m].ts >= tick.ts - (Delay + Margin)
                    /\ \A k \in 1..(m - 1) : ~(Append(hist, tick)[k].ts >= tick.ts - (Delay + Margin))
<1> DEFINE all   == Append(hist, tick)
           cut   == tick.ts - (Delay + Margin)
           young == {j \in 1..Len(all) : all[j].ts >= cut}
           keep  == {i \in 1..Len(all) : \E j \in 1..i : all[j].ts >= cut}
           fresh == Len(all) - Cardinality(keep)
           first == IF Len(all) - fresh > MaxHistory THEN Len(all) - MaxHistory ELSE fresh
<1>1. all \in Seq(Stamped) /\ Len(all) = Len(hist) + 1 /\ Len(hist) \in Nat /\ all[Len(all)] = tick
  OBVIOUS
<1>2. tick.ts \in Int /\ cut \in Int /\ cut <= tick.ts
  BY StampIsNumber, ClockAssumption
<1>3. Recorded(hist, tick) = SubSeq(all, first + 1, Len(all))
  BY DEF Recorded
<1> HIDE DEF all, cut
<1>4. Len(all) \in young /\ young \subseteq Nat
  BY <1>1, <1>2
<1> HIDE DEF young
<1>5. PICK m \in young : \A j \in young : m <= j
  BY <1>4, LeastExists
<1>6. m \in 1..Len(all) /\ all[m].ts >= cut /\ \A k \in 1..(m - 1) : ~(all[k].ts >= cut)
  BY <1>1, <1>5 DEF young
<1>7. keep = m..Len(all)
  BY <1>1, <1>5, <1>6 DEF young
<1>8. Cardinality(keep) = Len(all) - m + 1
  <2>1. m \in Int /\ Len(all) \in Int /\ ~(m > Len(all))
    BY <1>1, <1>6
  <2>2. Cardinality(m..Len(all)) = Len(all) - m + 1
    BY <2>1, FS_Interval
  <2> QED BY <1>7, <2>2
<1>9. fresh = m - 1
  <2>1. m \in Int /\ Len(all) \in Int
    BY <1>1, <1>6
  <2> HIDE DEF keep
  <2> DEFINE n == Len(all)
  <2>2. n \in Int /\ fresh = n - Cardinality(keep) /\ Cardinality(keep) = n - m + 1
    BY <1>8, <2>1
  <2> HIDE DEF n, fresh
  <2> QED BY <2>1, <2>2
<1> HIDE DEF keep, fresh
<1>10. first + 1 \in 1..Len(all) /\ (Len(hist) < MaxHistory => first + 1 = m)
  BY <1>1, <1>6, <1>9, QueueAssumption
<1> HIDE DEF first
<1> QED BY <1>1, <1>3, <1>6, <1>10 DEF all, cut

\* An end of a sequence, position by position.
LEMMA EndOf ==
    ASSUME NEW all \in Seq(Stamped), NEW m \in 1..Len(all)
    PROVE  /\ SubSeq(all, m, Len(all)) \in Seq(Stamped)
           /\ Len(SubSeq(all, m, Len(all))) = Len(all) - m + 1
           /\ \A i \in 1..Len(SubSeq(all, m, Len(all))) :
                 SubSeq(all, m, Len(all))[i] = all[m + i - 1] /\ m + i - 1 \in m..Len(all)
           /\ \A k \in m..Len(all) :
                 /\ k - m + 1 \in 1..Len(SubSeq(all, m, Len(all)))
                 /\ SubSeq(all, m, Len(all))[k - m + 1] = all[k]
<1>1. \A i \in m..Len(all) : all[i] \in Stamped
  OBVIOUS
<1>2. /\ SubSeq(all, m, Len(all)) \in Seq(Stamped)
      /\ Len(SubSeq(all, m, Len(all))) = Len(all) - m + 1
      /\ \A i \in 1..(Len(all) - m + 1) : SubSeq(all, m, Len(all))[i] = all[m + i - 1]
  BY <1>1, SubSeqProperties
<1> QED BY <1>2

\* A tick that is not too late leaves the history nearly sorted.
\* The tick that publish() records of a licensed feed.
LEMMA PublishRecords ==
    ASSUME Shapes, Delays, NEW s \in Symbols, NEW tick \in Ticks, NEW lag \in Lags,
           Publish(s, tick, now - lag)
    PROVE  /\ now' = now
           /\ \/ history' = history
              \/ \E full \in Stamped :
                    history' = Put(history, s, Recorded(Held(s), full)) /\ full.ts <= now
           /\ Held(s) \in Seq(Stamped)
<1> DEFINE full == Put(tick, "ts", now - lag)
<1>1. now \in Nat /\ lag \in Nat
  BY ClockAssumption DEF Shapes
<1>2. full \in Stamped /\ full.ts = now - lag
  BY <1>1 DEF Stamped, Put
<1>3. history' = history \/ history' = Put(history, s, Recorded(Held(s), full))
  BY DEF Publish
<1>4. Held(s) \in Seq(Stamped)
  BY DEF Held, Delays, Histories
<1>5. now' = now
  BY DEF Publish
<1> HIDE DEF full
<1> QED BY <1>1, <1>2, <1>3, <1>4, <1>5

\* The same history at a later moment releases nothing older.
LEMMA LaterForward ==
    ASSUME NEW hist \in Seq(Stamped), NEW t \in Nat, NEW u \in Nat, t <= u,
           ReleasedOf(hist, t) # Empty, ReleasedOf(hist, u) # Empty
    PROVE  ReleasedOf(hist, t)["ts"] <= ReleasedOf(hist, u)["ts"]
<1>1. PICK i \in 1..Len(hist) : hist[i] = ReleasedOf(hist, t) /\ hist[i].ts + Delay <= t
  BY ReleasedNewest
<1>2. hist[i].ts \in Int
  BY StampIsNumber
<1>3. hist[i].ts + Delay <= u
  BY <1>1, <1>2, ClockAssumption
<1> QED BY <1>1, <1>3, ReleasedNewest

\* Recording a tick below the cap releases nothing older.
LEMMA RecordedForward ==
    ASSUME NEW hist \in Seq(Stamped), NEW tick \in Stamped, NEW t \in Nat,
           tick.ts <= t, Len(hist) < MaxHistory,
           \A i, j \in 1..Len(Recorded(hist, tick)) :
              i < j => Recorded(hist, tick)[j].ts >= Recorded(hist, tick)[i].ts - Margin,
           ReleasedOf(hist, t) # Empty, ReleasedOf(Recorded(hist, tick), t) # Empty
    PROVE  ReleasedOf(hist, t)["ts"] <= ReleasedOf(Recorded(hist, tick), t)["ts"]
<1> DEFINE all == Append(hist, tick)
           cut == tick.ts - (Delay + Margin)
           after == ReleasedOf(Recorded(hist, tick), t)
<1>1. all \in Seq(Stamped) /\ Len(all) = Len(hist) + 1 /\ Len(hist) \in Nat
  OBVIOUS
<1>3. PICK i \in 1..Len(hist) : hist[i] = ReleasedOf(hist, t) /\ hist[i].ts + Delay <= t
  BY ReleasedNewest
<1>4. i \in 1..Len(all) /\ all[i] = hist[i]
  BY <1>1
<1>5. PICK m \in 1..Len(all) :
         /\ Recorded(hist, tick) = SubSeq(all, m, Len(all))
         /\ all[m].ts >= cut
         /\ \A k \in 1..(m - 1) : ~(all[k].ts >= cut)
  BY <1>1, RecordedEnd
<1>6. tick.ts \in Int /\ cut = tick.ts - (Delay + Margin) /\ Delay \in Nat /\ Margin \in Nat
  BY StampIsNumber, ClockAssumption
<1>7. \A k \in 1..Len(all) : all[k].ts \in Int
  <2>1. \A k \in 1..Len(all) : all[k] \in Stamped
    BY <1>1
  <2> QED BY <2>1, StampIsNumber
<1> HIDE DEF all, cut
<1> DEFINE kept == SubSeq(all, m, Len(all))
<1>8. kept \in Seq(Stamped)
  BY <1>1, EndOf
<1>9. \A k \in 1..Len(kept) : kept[k] = all[m + k - 1] /\ m + k - 1 \in m..Len(all)
  BY <1>1, EndOf
<1>10. \A k \in m..Len(all) : k - m + 1 \in 1..Len(kept) /\ kept[k - m + 1] = all[k]
  BY <1>1, EndOf
<1>11. after = ReleasedOf(kept, t)
  BY <1>5
<1>2. \A k, l \in 1..Len(kept) : k < l => kept[l].ts >= kept[k].ts - Margin
  BY <1>5
<1> HIDE DEF kept
<1> SUFFICES all[i].ts <= after["ts"]
  BY <1>3, <1>4
<1> HIDE DEF after
<1>12. \A k \in m..Len(all) : all[k].ts + Delay <= t => all[k].ts <= after["ts"]
  BY <1>8, <1>10, <1>11, ReleasedNewest DEF after
<1>13. PICK n \in m..Len(all) : all[n] = after /\ all[n].ts + Delay <= t
  <2>1. PICK k \in 1..Len(kept) : kept[k] = after /\ kept[k].ts + Delay <= t
    BY <1>8, <1>11, ReleasedNewest DEF after
  <2> QED BY <1>9, <2>1
<1>14. n \in 1..Len(all) /\ after["ts"] \in Int
  BY <1>1, <1>7, <1>13
<1>15. CASE i >= m
  <2>1. i \in m..Len(all) /\ all[i].ts + Delay <= t
    BY <1>1, <1>3, <1>4, <1>15
  <2> QED BY <1>12, <2>1
<1>16. CASE i < m
  <2>1. all[i].ts \in Int /\ all[m].ts \in Int /\ all[n].ts \in Int /\ cut \in Int /\ after["ts"] = all[n].ts
    BY <1>4, <1>6, <1>7, <1>13, <1>14
  <2>4. all[i].ts < cut
    <3>1. i \in 1..(m - 1)
      BY <1>3, <1>16
    <3> QED BY <1>5, <2>1, <3>1
  <2>2. CASE all[m].ts + Delay <= t
    <3>1. all[m].ts <= after["ts"]
      BY <1>1, <1>12, <2>2
    <3> QED BY <1>5, <2>1, <2>4, <3>1
  <2>3. CASE ~(all[m].ts + Delay <= t)
    <3>1. n > m
      BY <1>13, <2>3
    <3>2. all[n].ts >= all[m].ts - Margin
      <4>1. n - m + 1 \in 1..Len(kept) /\ kept[n - m + 1] = all[n]
        BY <1>10, <1>13
      <4>2. m \in m..Len(all)
        BY <1>1, <1>5
      <4>3. m - m + 1 \in 1..Len(kept) /\ kept[m - m + 1] = all[m]
        BY <1>10, <4>2
      <4>4. m - m + 1 < n - m + 1
        BY <1>1, <1>5, <1>13, <3>1
      <4> QED BY <1>2, <4>1, <4>3, <4>4
    <3> DEFINE am == all[m].ts
               an == all[n].ts
               tk == tick.ts
    <3>3. /\ am \in Int /\ an \in Int /\ tk \in Int /\ Delay \in Int /\ Margin \in Int
          /\ ~(am + Delay <= t) /\ tk <= t /\ an >= am - Margin
      BY <1>6, <2>1, <2>3, <3>2
    <3> HIDE DEF am, an, tk
    <3>4. tk - (Delay + Margin) < an
      BY <3>3
    <3>5. cut < after["ts"]
      BY <1>6, <2>1, <3>4 DEF an, tk
    <3> QED BY <2>1, <2>4, <3>5
  <2> QED BY <2>2, <2>3
<1> QED BY <1>1, <1>15, <1>16

\* What the delayed plane releases of a symbol never goes back to an older tick:
\* neither the clock, nor a late tick, nor the pruning by a new one makes released()
\* answer with an older stamp than before, while the history is below its cap and
\* no tick left in it is later than the margin (delayed.py:36-39, 65-67).
THEOREM ReleasedForwardAlways == Spec => ReleasedForward
<1> DEFINE Forward ==
       \A s \in Symbols :
          LET before == Released(s, now)
              after  == Released(s, now)'
          IN  /\ Len(Held(s)) < MaxHistory /\ InMargin(s)'
              /\ before # Empty /\ after # Empty
              => before["ts"] <= after["ts"]
<1>1. ASSUME Shapes, Shapes', Delays, Delays', [Next]_vars PROVE Forward
  <2> SUFFICES ASSUME NEW s \in Symbols, Len(Held(s)) < MaxHistory, InMargin(s)',
                      ReleasedOf(Held(s), now) # Empty, ReleasedOf(Held(s)', now') # Empty
               PROVE  ReleasedOf(Held(s), now)["ts"] <= ReleasedOf(Held(s)', now')["ts"]
    BY DEF Released, ReleasedOf
  <2>1. Held(s) \in Seq(Stamped) /\ now \in Nat /\ now' \in Nat
    BY <1>1 DEF Held, Delays, Histories, Shapes
  <2>2. CASE Held(s)' = Held(s) /\ now <= now'
    BY <2>1, <2>2, LaterForward
  <2>3. Held(s)' # << >>
    BY SeqEmpty DEF ReleasedOf
  <2>4. ASSUME NEW X, history' = Drop(history, X) PROVE Held(s)' = Held(s)
    BY <2>3, <2>4 DEF Held, Drop
  <2>5. ASSUME NEW z \in Symbols, NEW tick \in Ticks, NEW lag \in Lags, Publish(z, tick, now - lag)
        PROVE  ReleasedOf(Held(s), now)["ts"] <= ReleasedOf(Held(s)', now')["ts"]
    <3>1. CASE Held(s)' = Held(s)
      BY <1>1, <2>1, <2>2, <2>5, <3>1, PublishRecords
    <3>2. ASSUME NEW full \in Stamped, history' = Put(history, z, Recorded(Held(z), full)),
                 full.ts <= now
          PROVE  ReleasedOf(Held(s), now)["ts"] <= ReleasedOf(Held(s)', now')["ts"]
      <4>1. CASE z # s
        <5>1. Held(s)' = Held(s)
          BY <3>2, <4>1 DEF Held, Put
        <5> QED BY <3>1, <5>1
      <4>2. CASE z = s
        <5>1. Held(s)' = Recorded(Held(s), full)
          BY <3>2, <4>2 DEF Held, Put
        <5>2. \A i, j \in 1..Len(Recorded(Held(s), full)) :
                 i < j => Recorded(Held(s), full)[j].ts >= Recorded(Held(s), full)[i].ts - Margin
          BY <5>1 DEF InMargin
        <5>3. now' = now
          BY <1>1, <2>5, PublishRecords
        <5> QED BY <2>1, <3>2, <5>1, <5>2, <5>3, RecordedForward
      <4> QED BY <4>1, <4>2
    <3>3. CASE history' = history
      <4>1. Held(s)' = Held(s)
        BY <3>3 DEF Held
      <4> QED BY <3>1, <4>1
    <3> QED BY <1>1, <2>5, <3>2, <3>3, PublishRecords
  <2>6. ASSUME NEW c \in Conns, NEW S, Unregister(c) \/ Unsubscribe(c, S)
        PROVE  Held(s)' = Held(s) /\ now' = now
    BY <2>4, <2>6 DEF Unregister, Unsubscribe, Decref
  <2>7. CASE Restart
    <3>1. Held(s)' = << >>
      BY <2>7 DEF Restart, Held, Empty
    <3> QED BY <2>3, <3>1
  <2>8. CASE Tick
    BY <2>1, <2>2, <2>8 DEF Tick, Held
  <2>9. CASE UNCHANGED <<now, history>>
    BY <2>1, <2>2, <2>9 DEF Held
  <2>10. ASSUME \/ \E c \in Conns : Register(c) \/ Ping(c) \/ Send(c)
                \/ \E c \in Conns, S \in SUBSET Symbols : Subscribe(c, S)
                \/ PollStart \/ UNCHANGED vars
                \/ \E z \in Symbols : Miss(z) \/ PublishDelayed(z)
         PROVE  UNCHANGED <<now, history>>
    BY <2>10 DEF Register, Ping, Send, Subscribe, PollStart, Miss, PublishDelayed, vars
  <2>11. CASE \E c \in Conns : Unregister(c) \/ \E S \in (SUBSET Symbols) \ {{}} : Unsubscribe(c, S)
    BY <2>1, <2>2, <2>6, <2>11
  <2>12. CASE \E z \in Symbols, tick \in Ticks, lag \in Lags : Publish(z, tick, now - lag)
    BY <2>5, <2>12
  <2> QED BY <1>1, <2>7, <2>8, <2>9, <2>10, <2>11, <2>12 DEF Next
<1>2. IInv /\ Shapes /\ Delays /\ IInv' /\ Shapes' /\ Delays' /\ [Next]_vars => [Forward]_vars
  BY <1>1
<1> QED BY InitIInv, InitShapes, InitDelays, StepIInv, StepShapes, StepDelays, <1>2, PTL
        DEF Spec, ReleasedForward
=============================================================================
