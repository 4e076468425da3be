--------------------------- MODULE QuoteStoreProofs ---------------------------
(***************************************************************************)
(* The quote store for every number of components and symbols, every set a *)
(* component may ask for and every number of failures before the fallback. *)
(*                                                                         *)
(* A count of references is a count of mounted components only because no  *)
(* component is counted twice, so the induction is over Holders, and the   *)
(* transport may be asked for exactly the page only because there is never *)
(* more than one of it.                                                    *)
(***************************************************************************)
EXTENDS QuoteStore, FiniteSetTheorems, SequenceTheorems, TLAPS

\* The mounted components that show s.
Holders(shown, s) == {c \in Cells : s \in shown[c]}

Shapes ==
    /\ cells \in [Cells -> SUBSET Symbols]
    /\ refs \in [Symbols -> Nat]
    /\ ws \in {"none", "connecting", "open", "closing"}
    /\ es \in {"none", "connecting", "open"}
    /\ status \in {"idle", "connecting", "reconnecting", "closed", "on"}
    /\ wire \subseteq Symbols /\ asked \subseteq Symbols
    /\ ticks \subseteq Symbols /\ pending \subseteq Symbols /\ queue \subseteq Symbols
    /\ failures \in 0..GiveUp
    /\ fetches \in Seq(SUBSET Symbols)

Counted == \A s \in Symbols : refs[s] = Cardinality(Holders(cells, s))
OneTransport == ws = "none" \/ es = "none"

Typed == Shapes /\ Counted /\ OneTransport
IInv == Typed /\ AsksForThePage /\ NeverStranded

-----------------------------------------------------------------------------
\* A removal from a sequence leaves a sequence of the same things.
LEMMA RemoveAtType ==
    ASSUME NEW A, NEW q \in Seq(A), NEW i \in 1..Len(q)
    PROVE  RemoveAt(q, i) \in Seq(A)
<1>1. SubSeq(q, 1, i - 1) \in Seq(A) /\ SubSeq(q, i + 1, Len(q)) \in Seq(A)
  BY SubSeqProperties
<1> QED BY <1>1, ConcatProperties DEF RemoveAt

LEMMA HoldersFinite ==
    ASSUME NEW shown, NEW s
    PROVE  IsFiniteSet(Holders(shown, s)) /\ Cardinality(Holders(shown, s)) \in Nat
<1>1. Holders(shown, s) \subseteq Cells
  BY DEF Holders
<1> QED BY <1>1, StoreAssumption, FS_Subset, FS_CardinalityType

\* One element more, one element less.
LEMMA CountUp ==
    ASSUME NEW A, NEW B, NEW x, IsFiniteSet(A), x \notin A, B = A \cup {x}
    PROVE  Cardinality(B) = Cardinality(A) + 1
  BY FS_AddElement

LEMMA CountDown ==
    ASSUME NEW A, NEW B, NEW x, IsFiniteSet(A), x \in A, B = A \ {x}
    PROVE  Cardinality(B) = Cardinality(A) - 1
  BY FS_RemoveElement

\* Mounting a component that was not there adds one to what it asked for ...
LEMMA OneHolderMore ==
    ASSUME Typed, NEW c \in Cells, NEW S \in SUBSET Symbols, NEW s \in Symbols,
           cells[c] = {}, cells' = [cells EXCEPT ![c] = S]
    PROVE  Cardinality(Holders(cells', s)) = IF s \in S THEN refs[s] + 1 ELSE refs[s]
<1> USE DEF Typed, Shapes, Counted
<1>1. CASE s \in S
  <2>1. Holders(cells', s) = Holders(cells, s) \cup {c} /\ c \notin Holders(cells, s)
    BY <1>1 DEF Holders
  <2>2. IsFiniteSet(Holders(cells, s))
    BY HoldersFinite
  <2>3. Cardinality(Holders(cells', s)) = Cardinality(Holders(cells, s)) + 1
    BY <2>1, <2>2, CountUp
  <2> QED BY <1>1, <2>3
<1>2. CASE s \notin S
  <2>1. Holders(cells', s) = Holders(cells, s)
    BY <1>2 DEF Holders
  <2> QED BY <1>2, <2>1
<1> QED BY <1>1, <1>2

\* ... and unmounting it takes one away from it.
LEMMA OneHolderLess ==
    ASSUME Typed, NEW c \in Cells, NEW s \in Symbols,
           cells' = [cells EXCEPT ![c] = {}]
    PROVE  /\ Cardinality(Holders(cells', s)) = IF s \in cells[c] THEN refs[s] - 1 ELSE refs[s]
           /\ s \in cells[c] => refs[s] > 0
<1> USE DEF Typed, Shapes, Counted
<1>1. CASE s \in cells[c]
  <2>1. Holders(cells', s) = Holders(cells, s) \ {c} /\ c \in Holders(cells, s)
    BY <1>1 DEF Holders
  <2>2. IsFiniteSet(Holders(cells, s)) /\ Cardinality(Holders(cells', s)) \in Nat
    BY HoldersFinite
  <2>3. Cardinality(Holders(cells', s)) = Cardinality(Holders(cells, s)) - 1
    BY <2>1, <2>2, CountDown
  <2> QED BY <1>1, <2>2, <2>3
<1>2. CASE s \notin cells[c]
  <2>1. Holders(cells', s) = Holders(cells, s)
    BY <1>2 DEF Holders
  <2> QED BY <1>2, <2>1
<1> QED BY <1>1, <1>2

-----------------------------------------------------------------------------
LEMMA StoreInit == Init => IInv
<1> SUFFICES ASSUME Init PROVE IInv
  OBVIOUS
<1> USE DEF Init
<1>1. \A s \in Symbols : Holders(cells, s) = {}
  BY DEF Holders
<1>2. Shapes /\ OneTransport
  BY StoreAssumption DEF Shapes, OneTransport
<1>3. Counted
  BY <1>1, FS_EmptySet DEF Counted
<1>4. AsksForThePage /\ NeverStranded
  BY DEF AsksForThePage, NeverStranded, Wanted
<1> QED BY <1>2, <1>3, <1>4 DEF IInv, Typed

\* What Send leaves of the transport.
LEMMA SendOverOne ==
    ASSUME Typed, NEW told \in SUBSET Symbols, Send(told), UNCHANGED <<ws, failures>>
    PROVE  /\ es' \in {"none", "connecting", "open"} /\ (ws' = "none" \/ es' = "none")
           /\ asked' \subseteq Symbols /\ wire' \subseteq Symbols
           /\ es' = "none"
           /\ ws = "open" => asked' = told
           /\ Connected => ws' # "none" \/ timer'
           /\ timer => timer'
  BY DEF Send, Typed, Shapes, OneTransport, ScheduleReconnect, Connected

LEMMA SubscribeStep ==
    ASSUME IInv, NEW c \in Cells, NEW S \in Asks[c], Subscribe(c, S)
    PROVE  IInv'
<1> DEFINE fresh == {s \in S : refs[s] = 0}
<1>1. S \in SUBSET Symbols /\ fresh \subseteq Symbols
  BY StoreAssumption
<1>2. /\ cells[c] = {} /\ cells' = [cells EXCEPT ![c] = S]
      /\ refs' = [s \in Symbols |-> IF s \in S THEN refs[s] + 1 ELSE refs[s]]
      /\ UNCHANGED <<ws, failures, ticks, pending, fetches>>
  BY DEF Subscribe, link
<1>3. Typed /\ Shapes /\ OneTransport
  BY DEF IInv, Typed
<1>4. cells' \in [Cells -> SUBSET Symbols] /\ refs' \in [Symbols -> Nat]
  BY <1>1, <1>2, <1>3 DEF Shapes
<1>5. Counted'
  <2>1. ASSUME NEW s \in Symbols PROVE refs'[s] = Cardinality(Holders(cells', s))
    BY <1>1, <1>2, <1>3, OneHolderMore
  <2> QED BY <2>1 DEF Counted, Holders
<1>6. Wanted' = Wanted \cup fresh
  BY <1>1, <1>2, <1>3 DEF Wanted, Shapes
<1>7. CASE fresh = {}
  <2>1. UNCHANGED <<link, badge, queue>>
    BY <1>7 DEF Subscribe
  <2>2. Shapes' /\ OneTransport'
    BY <1>2, <1>3, <1>4, <2>1 DEF Shapes, OneTransport, link, badge
  <2>3. AsksForThePage' /\ NeverStranded'
    BY <1>6, <1>7, <2>1 DEF IInv, AsksForThePage, NeverStranded, Connected, link
  <2> QED BY <1>5, <2>2, <2>3 DEF IInv, Typed
<1>8. CASE fresh # {}
  <2>1. /\ EnsureConnected /\ Send(asked \cup fresh)
        /\ IF es # "none" THEN Reconnecting ELSE UNCHANGED status
        /\ queue' = queue \cup (fresh \ ticks)
    BY <1>8 DEF Subscribe
  <2>2. asked \cup fresh \in SUBSET Symbols
    BY <1>1, <1>3 DEF Shapes
  <2>3. /\ es' = "none" /\ asked' \subseteq Symbols /\ wire' \subseteq Symbols
        /\ ws = "open" => asked' = asked \cup fresh
        /\ Connected => ws' # "none" \/ timer'
        /\ timer => timer'
    BY <1>2, <1>3, <2>1, <2>2, SendOverOne
  <2>4. status' \in {"idle", "connecting", "reconnecting", "closed", "on"}
    BY <1>3, <2>1 DEF Shapes, Reconnecting
  <2>5. Shapes' /\ OneTransport'
    BY <1>1, <1>2, <1>3, <1>4, <2>1, <2>3, <2>4 DEF Shapes, OneTransport
  <2>6. AsksForThePage'
    BY <1>2, <1>6, <2>3 DEF IInv, AsksForThePage
  <2>7. dialing' \/ Connected \/ dialing
    BY <2>1 DEF EnsureConnected
  <2>8. dialing => dialing'
    BY <2>1 DEF EnsureConnected
  <2>9. NeverStranded'
    BY <2>3, <2>7, <2>8 DEF NeverStranded, Connected
  <2> QED BY <1>5, <2>5, <2>6, <2>9 DEF IInv, Typed
<1> QED BY <1>7, <1>8

LEMMA UnsubscribeStep ==
    ASSUME IInv, NEW c \in Cells, Unsubscribe(c)
    PROVE  IInv'
<1> DEFINE gone == {s \in cells[c] : refs[s] = 1}
<1>1. /\ cells' = [cells EXCEPT ![c] = {}]
      /\ refs' = [s \in Symbols |-> IF s \in cells[c] THEN refs[s] - 1 ELSE refs[s]]
      /\ ticks' = ticks \ gone /\ status' = Status
      /\ UNCHANGED <<dialing, ws, failures, pending, queue, fetches>>
  BY DEF Unsubscribe
<1>2. Typed /\ Shapes /\ OneTransport /\ cells[c] \subseteq Symbols
  BY DEF IInv, Typed, Shapes
<1>3. ASSUME NEW s \in Symbols
      PROVE  refs'[s] = Cardinality(Holders(cells', s)) /\ (s \in cells[c] => refs[s] > 0)
  BY <1>1, <1>2, OneHolderLess
<1>4. Counted'
  BY <1>3 DEF Counted, Holders
<1>5. cells' \in [Cells -> SUBSET Symbols] /\ refs' \in [Symbols -> Nat]
  BY <1>1, <1>2, <1>3 DEF Shapes
<1>6. Wanted' = Wanted \ gone
  BY <1>1, <1>2, <1>3 DEF Wanted, Shapes
<1>7. status' \in {"idle", "connecting", "reconnecting", "closed", "on"}
  BY <1>1 DEF Status
<1>8. CASE gone = {}
  <2>1. UNCHANGED <<es, asked, wire, timer, useSse>>
    BY <1>8 DEF Unsubscribe
  <2>2. Shapes' /\ OneTransport'
    BY <1>1, <1>2, <1>5, <1>7, <2>1 DEF Shapes, OneTransport
  <2>3. AsksForThePage' /\ NeverStranded'
    BY <1>1, <1>6, <1>8, <2>1 DEF IInv, AsksForThePage, NeverStranded, Connected
  <2> QED BY <1>4, <2>2, <2>3 DEF IInv, Typed
<1>9. CASE gone # {}
  <2>1. Send(asked \ gone) /\ asked \ gone \in SUBSET Symbols
    BY <1>2, <1>9 DEF Unsubscribe, Shapes
  <2>2. /\ es' = "none" /\ asked' \subseteq Symbols /\ wire' \subseteq Symbols
        /\ ws = "open" => asked' = asked \ gone
        /\ Connected => ws' # "none" \/ timer'
        /\ timer => timer'
    BY <1>1, <1>2, <2>1, SendOverOne
  <2>3. Shapes' /\ OneTransport'
    BY <1>1, <1>2, <1>5, <1>7, <2>2 DEF Shapes, OneTransport
  <2>4. AsksForThePage'
    BY <1>1, <1>6, <2>2 DEF IInv, AsksForThePage
  <2>5. NeverStranded'
    BY <1>1, <1>6, <2>2 DEF IInv, NeverStranded, Connected
  <2> QED BY <1>4, <2>3, <2>4, <2>5 DEF IInv, Typed
<1> QED BY <1>8, <1>9

\* The connection is dialled, opened, lost and retried ...
ConnectionStep ==
    \/ TokenArrives \/ WsThrows \/ WsOpen \/ WsError \/ WsClose
    \/ SseOpen \/ SseError \/ TimerFires \/ Evaluate

\* ... and prices arrive.
PriceStep ==
    \/ \E s \in Symbols : ServerTick(s) \/ OnFrame(s)
    \/ Flush \/ SeedTimer
    \/ \E i \in 1..Len(fetches) : \E quotes \in SUBSET fetches[i] : SeedAnswer(i, quotes)

\* While nobody mounts or unmounts, the page is what it was.
LEMMA SamePage ==
    ASSUME Typed, UNCHANGED demand
    PROVE  Counted' /\ Wanted' = Wanted
  BY DEF Typed, Counted, Holders, Wanted, demand

LEMMA TransportStep ==
    ASSUME IInv, ConnectionStep
    PROVE  IInv'
<1>1. Typed /\ Shapes /\ OneTransport /\ AsksForThePage /\ NeverStranded
  BY DEF IInv, Typed
<1>2. UNCHANGED demand
  BY DEF ConnectionStep, TokenArrives, WsThrows, WsOpen, WsError, WsClose,
         SseOpen, SseError, TimerFires, Evaluate
<1>3. Counted' /\ Wanted' = Wanted
  BY <1>1, <1>2, SamePage
<1>4. UNCHANGED <<ticks, pending, queue, fetches>>
  BY DEF ConnectionStep, TokenArrives, WsThrows, WsOpen, WsError, WsClose,
         SseOpen, SseError, TimerFires, Evaluate, prices
<1>5. Wanted \subseteq Symbols /\ Failed \in 0..GiveUp /\ 0 \in 0..GiveUp
  BY <1>1, StoreAssumption DEF Wanted, Failed, Shapes
<1>6. Status \in {"idle", "connecting", "reconnecting", "closed", "on"}
  BY DEF Status
<1>7. CASE TokenArrives
  <2> USE DEF TokenArrives
  <2>1. Shapes' /\ OneTransport'
    BY <1>1, <1>2, <1>4, <1>5, <1>7 DEF Shapes, OneTransport, Connected, demand
  <2>2. AsksForThePage' /\ NeverStranded'
    BY <1>1, <1>3, <1>7 DEF AsksForThePage, NeverStranded, Connected, Shapes
  <2> QED BY <1>3, <2>1, <2>2 DEF IInv, Typed
<1>8. CASE WsThrows
  <2> USE DEF WsThrows, ScheduleReconnect, Reconnecting
  <2>1. Shapes' /\ OneTransport'
    BY <1>1, <1>2, <1>4, <1>5, <1>8 DEF Shapes, OneTransport, demand
  <2>2. AsksForThePage' /\ NeverStranded'
    BY <1>1, <1>3, <1>8 DEF AsksForThePage, NeverStranded
  <2> QED BY <1>3, <2>1, <2>2 DEF IInv, Typed
<1>9. CASE WsOpen
  <2> USE DEF WsOpen
  <2>1. Shapes' /\ OneTransport'
    BY <1>1, <1>2, <1>4, <1>5, <1>6, <1>9 DEF Shapes, OneTransport, demand
  <2>2. AsksForThePage' /\ NeverStranded'
    BY <1>1, <1>3, <1>9 DEF AsksForThePage, NeverStranded, Connected
  <2> QED BY <1>3, <2>1, <2>2 DEF IInv, Typed
<1>10. CASE WsError
  <2> USE DEF WsError
  <2>1. Shapes' /\ OneTransport'
    BY <1>1, <1>2, <1>4, <1>5, <1>10 DEF Shapes, OneTransport, demand, badge
  <2>2. AsksForThePage' /\ NeverStranded'
    BY <1>1, <1>3, <1>10 DEF AsksForThePage, NeverStranded, Connected, OneTransport
  <2> QED BY <1>3, <2>1, <2>2 DEF IInv, Typed
<1>11. CASE WsClose \/ SseError
  <2> USE DEF WsClose, SseError, ScheduleReconnect, Reconnecting
  <2>1. Shapes' /\ OneTransport'
    BY <1>1, <1>2, <1>4, <1>11 DEF Shapes, OneTransport, demand
  <2>2. AsksForThePage' /\ NeverStranded'
    BY <1>1, <1>3, <1>11 DEF AsksForThePage, NeverStranded, OneTransport, Shapes
  <2> QED BY <1>3, <2>1, <2>2 DEF IInv, Typed
<1>12. CASE SseOpen
  <2> USE DEF SseOpen
  <2>1. Shapes' /\ OneTransport'
    BY <1>1, <1>2, <1>4, <1>6, <1>12 DEF Shapes, OneTransport, demand
  <2>2. AsksForThePage' /\ NeverStranded'
    BY <1>1, <1>3, <1>12 DEF AsksForThePage, NeverStranded, Connected
  <2> QED BY <1>3, <2>1, <2>2 DEF IInv, Typed
<1>13. CASE TimerFires
  <2> USE DEF TimerFires, EnsureConnected
  <2>1. Shapes' /\ OneTransport'
    BY <1>1, <1>2, <1>4, <1>13 DEF Shapes, OneTransport, demand
  <2>2. AsksForThePage' /\ NeverStranded'
    BY <1>1, <1>3, <1>13 DEF AsksForThePage, NeverStranded, Connected
  <2> QED BY <1>3, <2>1, <2>2 DEF IInv, Typed
<1>14. CASE Evaluate
  <2> USE DEF Evaluate
  <2>1. Shapes' /\ OneTransport'
    BY <1>1, <1>2, <1>4, <1>6, <1>14 DEF Shapes, OneTransport, demand, link
  <2>2. AsksForThePage' /\ NeverStranded'
    BY <1>1, <1>3, <1>14 DEF AsksForThePage, NeverStranded, Connected, link
  <2> QED BY <1>3, <2>1, <2>2 DEF IInv, Typed
<1> QED BY <1>7, <1>8, <1>9, <1>10, <1>11, <1>12, <1>13, <1>14 DEF ConnectionStep

LEMMA PricesStep ==
    ASSUME IInv, PriceStep
    PROVE  IInv'
<1>1. Typed /\ Shapes /\ OneTransport /\ AsksForThePage /\ NeverStranded
  BY DEF IInv, Typed
<1>2. UNCHANGED <<cells, refs, dialing, ws, es, asked, failures, timer, status>>
  BY DEF PriceStep, ServerTick, OnFrame, Flush, SeedTimer, SeedAnswer, demand, link, badge
<1>3. Counted' /\ Wanted' = Wanted
  BY <1>1, <1>2, SamePage DEF demand
<1>4. OneTransport' /\ AsksForThePage' /\ NeverStranded'
  BY <1>1, <1>2, <1>3 DEF OneTransport, AsksForThePage, NeverStranded, Connected
<1>5. /\ wire' \subseteq Symbols
      /\ ticks' \subseteq Symbols /\ pending' \subseteq Symbols /\ queue' \subseteq Symbols
      /\ fetches' \in Seq(SUBSET Symbols)
  <2>1. CASE \E s \in Symbols : ServerTick(s) \/ OnFrame(s)
    BY <1>1, <2>1 DEF ServerTick, OnFrame, Shapes, prices
  <2>2. CASE Flush
    BY <1>1, <2>2 DEF Flush, Shapes, link
  <2>3. CASE SeedTimer
    <3>1. queue \ ticks \in SUBSET Symbols
      BY <1>1 DEF Shapes
    <3> QED BY <1>1, <2>3, <3>1 DEF SeedTimer, Shapes, link
  <2>4. ASSUME NEW i \in 1..Len(fetches), NEW quotes \in SUBSET fetches[i], SeedAnswer(i, quotes)
        PROVE  /\ wire' \subseteq Symbols
               /\ ticks' \subseteq Symbols /\ pending' \subseteq Symbols /\ queue' \subseteq Symbols
               /\ fetches' \in Seq(SUBSET Symbols)
    <3>1. fetches \in Seq(SUBSET Symbols) /\ fetches[i] \in SUBSET Symbols
      BY <1>1 DEF Shapes
    <3>2. RemoveAt(fetches, i) \in Seq(SUBSET Symbols)
      BY <3>1, RemoveAtType
    <3>3. UNCHANGED <<wire, pending, queue>> /\ ticks' = ticks \cup quotes /\ fetches' = RemoveAt(fetches, i)
      BY <2>4 DEF SeedAnswer, link
    <3> QED BY <1>1, <3>1, <3>2, <3>3 DEF Shapes
  <2> QED BY <2>1, <2>2, <2>3, <2>4 DEF PriceStep
<1>6. Shapes'
  BY <1>1, <1>2, <1>5 DEF Shapes
<1> QED BY <1>3, <1>4, <1>6 DEF IInv, Typed

LEMMA StoreStep == IInv /\ [Next]_vars => IInv'
<1>1. ASSUME IInv, UNCHANGED vars PROVE IInv'
  BY <1>1 DEF IInv, Typed, Shapes, Counted, Holders, OneTransport, AsksForThePage, NeverStranded,
              Wanted, Connected, vars, demand, link, badge, prices
<1> QED BY <1>1, SubscribeStep, UnsubscribeStep, TransportStep, PricesStep
        DEF Next, ConnectionStep, PriceStep

THEOREM InvAlways == Spec => []IInv
  BY StoreInit, StoreStep, PTL DEF Spec

\* The reference counts are the components on the page, and the variables of the
\* store have the values the code gives them, however components come and go.
THEOREM TypeOKAlways == Spec => []TypeOK
<1>1. IInv => TypeOK
  BY DEF IInv, Typed, Shapes, Counted, Holders, OneTransport, TypeOK
<1> QED BY <1>1, InvAlways, PTL

\* The server is asked for exactly the symbols on the page, whichever way they were
\* told and whatever connection was lost in between.
THEOREM AsksForThePageAlways == Spec => []AsksForThePage
<1>1. IInv => AsksForThePage
  BY DEF IInv
<1> QED BY <1>1, InvAlways, PTL

\* While anything is on the page there is a connection, a dial under way or a
\* timer that will start one.
THEOREM NeverStrandedAlways == Spec => []NeverStranded
<1>1. IInv => NeverStranded
  BY DEF IInv
<1> QED BY <1>1, InvAlways, PTL
=============================================================================
