----------------------------- MODULE AlertsProofs -----------------------------
(***************************************************************************)
(* The alert documents for every number of users, request threads, alerts  *)
(* and devices, whatever the ceiling of the plan and the length of the     *)
(* feed.                                                                   *)
(*                                                                         *)
(* A handler writes back a whole document it read some time ago, and so    *)
(* does the evaluator; nothing merges.  So what holds of the file has to   *)
(* hold of every copy of a document anybody may still write: each is Good, *)
(* and it mentions alerts of its own user only, none of them buried.       *)
(***************************************************************************)
EXTENDS Alerts, FiniteSetTheorems, SequenceTheorems, TLAPS

\* No more than n of the things in A, none of them twice.
OneOfEach(list, A, n) == list \in Seq(A) /\ IsInjective(list) /\ Len(list) <= n

\* A document of one piece, within its limits.
Good(doc) ==
    /\ doc = [alerts |-> doc.alerts, events |-> doc.events, devices |-> doc.devices,
              email |-> doc.email, code |-> doc.code, linked |-> doc.linked]
    /\ doc.alerts = [x \in DOMAIN doc.alerts |-> doc.alerts[x]]
    /\ IsFiniteSet(DOMAIN doc.alerts) /\ Cardinality(DOMAIN doc.alerts) <= MaxAlerts
    /\ doc.events \in Seq(Alerts) /\ Len(doc.events) <= MaxEvents
    /\ OneOfEach(doc.devices, Devices, MaxDevices)
    /\ \A x \in ToSet(doc.events) \cap DOMAIN doc.alerts : ~doc.alerts[x]

\* A document whose feed is of alerts there have been.
Known(doc, made) == ToSet(doc.events) \subseteq made

\* An edit under way: what it was checked against is the copy it will change.
Sound(job, made) ==
    /\ job = [edit |-> job.edit, user |-> job.user, doc |-> job.doc]
    /\ job.edit \in Edits /\ job.user \in Users
    /\ Good(job.doc) /\ Known(job.doc, made)
    /\ Allowed(job.doc, job.edit)
    /\ job.edit.op = "create" => job.edit.alert \notin ToSet(job.doc.events)

\* The alert x is in a document of u, in the file, with a thread or with the pass.
Creating(job, x) == job.edit.op = "create" /\ job.edit.alert = x
Mentioned(x, u, file, threads, pass) ==
    \/ x \in DOMAIN file[u].alerts \/ x \in DOMAIN pass[u].alerts
    \/ \E w \in Workers : threads[w].user = u /\ (x \in DOMAIN threads[w].doc.alerts \/ Creating(threads[w], x))

Shapes ==
    /\ docs = [u \in Users |-> docs[u]] /\ copy = [u \in Users |-> copy[u]]
    /\ worker = [w \in Workers |-> worker[w]]
    /\ current \in Users \cup {None} /\ todo \subseteq Users /\ dirty \in BOOLEAN
    /\ current = None => copy = NoCopy /\ ~dirty /\ todo = {}

Pieces ==
    /\ \A u \in Users : Good(docs[u]) /\ Known(docs[u], created) /\ Good(copy[u]) /\ Known(copy[u], created)
    /\ \A w \in Workers : worker[w] = Idle \/ Sound(worker[w], created)

OneOwner == \A x : \A u, v \in Users : Mentioned(x, u, docs, worker, copy) /\ Mentioned(x, v, docs, worker, copy) => u = v
Accounted == \A x : \A u \in Users : Mentioned(x, u, docs, worker, copy) => x \in created /\ x \notin buried

Owned == OneOwner /\ Accounted /\ buried \subseteq created
IInv == Shapes /\ Pieces /\ Owned

-----------------------------------------------------------------------------
\* The newest of a list with one thing more: of the same kind, no more of them, and
\* nothing but what was there and the new one, which is there twice only if it was there.
LEMMA NewestOf ==
    ASSUME NEW A, NEW list \in Seq(A), NEW x \in A, NEW n \in Nat \ {0}
    PROVE  /\ Newest(Append(list, x), n) \in Seq(A)
           /\ ToSet(Newest(Append(list, x), n)) \subseteq ToSet(list) \cup {x}
           /\ Len(Newest(Append(list, x), n)) <= n
           /\ IsInjective(list) /\ x \notin ToSet(list) => IsInjective(Newest(Append(list, x), n))
<1> DEFINE longer == Append(list, x)
<1>1. /\ longer \in Seq(A) /\ Len(longer) = Len(list) + 1
      /\ \A i \in 1..Len(longer) : longer[i] \in ToSet(list) \cup {x}
  BY DEF ToSet
<1>2. IsInjective(list) /\ x \notin ToSet(list) => \A i, j \in 1..Len(longer) : longer[i] = longer[j] => i = j
  BY <1>1 DEF ToSet, IsInjective
<1>3. CASE Len(longer) <= n
  <2>1. Newest(longer, n) = longer
    BY <1>3 DEF Newest
  <2> HIDE DEF longer
  <2>2. ToSet(longer) \subseteq ToSet(list) \cup {x}
    BY <1>1 DEF ToSet
  <2> QED BY <1>1, <1>2, <1>3, <2>1, <2>2 DEF IsInjective, longer
<1>4. CASE ~(Len(longer) <= n)
  <2> DEFINE m == Len(longer) - n + 1
             tail == SubSeq(longer, m, Len(longer))
  <2>1. m \in Int /\ m >= 1 /\ Len(longer) \in Int /\ Len(longer) - m + 1 = n
    BY <1>1, <1>4
  <2>2. Newest(longer, n) = tail
    BY <1>4 DEF Newest
  <2> HIDE DEF m, longer
  <2>3. /\ tail \in Seq(A) /\ Len(tail) = n
        /\ \A i \in 1..n : tail[i] = longer[m + i - 1]
    <3>1. \A i \in m..Len(longer) : longer[i] \in A
      BY <1>1, <2>1
    <3>2. m <= Len(longer) + 1
      BY <2>1
    <3> QED BY <2>1, <3>1, <3>2, SubSeqProperties
  <2> HIDE DEF tail
  <2>4. \A i \in 1..n : m + i - 1 \in 1..Len(longer)
    BY <2>1
  <2>5. ToSet(tail) \subseteq ToSet(list) \cup {x}
    BY <1>1, <2>3, <2>4 DEF ToSet
  <2>6. ASSUME IsInjective(list), x \notin ToSet(list) PROVE IsInjective(tail)
    <3>1. ASSUME NEW i \in 1..n, NEW j \in 1..n, tail[i] = tail[j] PROVE i = j
      <4>1. longer[m + i - 1] = longer[m + j - 1]
        BY <2>3, <3>1
      <4>2. m + i - 1 = m + j - 1
        BY <1>2, <2>4, <2>6, <4>1
      <4> QED BY <2>1, <4>2
    <3>2. DOMAIN tail = 1..n
      BY <2>3
    <3> QED BY <3>1, <3>2 DEF IsInjective
  <2> QED BY <2>2, <2>3, <2>5, <2>6 DEF longer
<1> QED BY <1>3, <1>4

\* What remains of a list without x.
LEMMA WithoutOf ==
    ASSUME NEW A, NEW list \in Seq(A), IsInjective(list), NEW x
    PROVE  Without(list, x) \in Seq(A) /\ IsInjective(Without(list, x)) /\ x \notin ToSet(Without(list, x))
<1> DEFINE at == {i \in DOMAIN list : list[i] = x}
           k == CHOOSE i \in at : TRUE
<1>1. CASE at = {}
  BY <1>1 DEF Without, ToSet
<1>2. CASE at # {}
  <2>1. k \in 1..Len(list) /\ list[k] = x
    BY <1>2
  <2>2. Without(list, x) = SubSeq(list, 1, k - 1) \o SubSeq(list, k + 1, Len(list))
    BY <1>2 DEF Without, RemoveAt
  <2> HIDE DEF k, at
  <2> DEFINE front == SubSeq(list, 1, k - 1)
             back == SubSeq(list, k + 1, Len(list))
             rest == front \o back
  <2>3. front \in Seq(A) /\ Len(front) = k - 1 /\ \A i \in 1..(k - 1) : front[i] = list[i]
    BY <2>1, SubSeqProperties
  <2>4. back \in Seq(A) /\ Len(back) = Len(list) - k /\ \A i \in 1..(Len(list) - k) : back[i] = list[k + i]
    BY <2>1, SubSeqProperties
  <2>5. Without(list, x) = rest
    BY <2>2
  <2> HIDE DEF front, back
  <2>6. /\ rest \in Seq(A) /\ Len(rest) = Len(front) + Len(back)
        /\ \A i \in 1..(Len(front) + Len(back)) :
              rest[i] = IF i <= Len(front) THEN front[i] ELSE back[i - Len(front)]
    BY <2>3, <2>4, ConcatProperties
  <2> HIDE DEF rest
  <2> DEFINE here(i) == IF i < k THEN i ELSE i + 1
  <2>7. ASSUME NEW i \in 1..Len(rest)
        PROVE  here(i) \in 1..Len(list) /\ here(i) # k /\ rest[i] = list[here(i)]
    <3>1. CASE i < k
      BY <2>1, <2>3, <2>4, <2>6, <3>1
    <3>2. CASE ~(i < k)
      <4>1. i - (k - 1) \in 1..(Len(list) - k) /\ k + (i - (k - 1)) = i + 1 /\ ~(i <= Len(front))
        BY <2>1, <2>3, <2>4, <2>6, <3>2
      <4>2. rest[i] = back[i - (k - 1)] /\ back[i - (k - 1)] = list[k + (i - (k - 1))]
        BY <2>3, <2>4, <2>6, <4>1
      <4>3. here(i) = i + 1 /\ i + 1 \in 1..Len(list) /\ i + 1 # k
        BY <2>1, <2>3, <2>4, <2>6, <3>2
      <4> QED BY <4>1, <4>2, <4>3
    <3> QED BY <3>1, <3>2
  <2>8. x \notin ToSet(rest)
    BY <2>1, <2>6, <2>7 DEF ToSet, IsInjective
  <2>9. ASSUME NEW i \in 1..Len(rest), NEW j \in 1..Len(rest), rest[i] = rest[j] PROVE i = j
    <3>1. here(i) = here(j)
      BY <2>7, <2>9 DEF IsInjective
    <3> QED BY <2>1, <3>1
  <2>10. IsInjective(rest)
    BY <2>6, <2>9 DEF IsInjective
  <2> QED BY <2>5, <2>6, <2>8, <2>10
<1> QED BY <1>1, <1>2

\* A device subscribes: it is the newest of no more than are kept.
LEMMA SubscribedOf ==
    ASSUME NEW list, OneOfEach(list, Devices, MaxDevices), NEW d \in Devices
    PROVE  OneOfEach(Newest(Append(Without(list, d), d), MaxDevices), Devices, MaxDevices)
<1>1. /\ Without(list, d) \in Seq(Devices) /\ IsInjective(Without(list, d))
      /\ d \notin ToSet(Without(list, d))
  BY WithoutOf DEF OneOfEach
<1> QED BY <1>1, NewestOf, AlertsAssumption DEF OneOfEach

\* Some devices no longer answer: the others are as they were.
LEMMA SublistOf ==
    ASSUME NEW list, OneOfEach(list, Devices, MaxDevices), NEW less \in Sublists(list)
    PROVE  OneOfEach(less, Devices, MaxDevices)
<1>1. PICK n \in 0..Len(list) : \E f \in Increasing(n, list) : less = [i \in 1..n |-> list[f[i]]]
  BY DEF Sublists
<1>2. PICK f \in Increasing(n, list) : less = [i \in 1..n |-> list[f[i]]]
  BY <1>1
<1>3. /\ n \in Nat /\ n <= Len(list) /\ DOMAIN list = 1..Len(list) /\ Len(list) \in Nat
      /\ \A i \in 1..n : f[i] \in DOMAIN list /\ f[i] \in Int /\ list[f[i]] \in Devices
      /\ \A i, j \in 1..n : i < j => f[i] < f[j]
  BY <1>2 DEF Increasing, OneOfEach
<1>4. less \in Seq(Devices) /\ Len(less) = n /\ DOMAIN less = 1..n
  BY <1>2, <1>3
<1>5. ASSUME NEW i \in 1..n, NEW j \in 1..n, less[i] = less[j] PROVE i = j
  <2>1. f[i] = f[j]
    BY <1>2, <1>3, <1>5 DEF OneOfEach, IsInjective
  <2> QED BY <1>3, <2>1
<1>6. IsInjective(less)
  BY <1>4, <1>5 DEF IsInjective
<1>7. MaxDevices \in Nat
  BY AlertsAssumption
<1> QED BY <1>3, <1>4, <1>6, <1>7 DEF OneOfEach

LEMMA EmptyGood == Good(EmptyDoc) /\ ToSet(EmptyDoc.events) = {} /\ DOMAIN EmptyDoc.alerts = {}
  BY AlertsAssumption, FS_EmptySet DEF Good, EmptyDoc, ToSet, OneOfEach, IsInjective

\* An edit that was allowed of a good document leaves a good one, with the same
\* feed and no other alerts than the one it creates.
LEMMA ApplyGood ==
    ASSUME NEW doc, Good(doc), NEW edit \in Edits, Allowed(doc, edit),
           edit.op = "create" => edit.alert \notin ToSet(doc.events)
    PROVE  /\ Good(Apply(doc, edit)) /\ Apply(doc, edit).events = doc.events
           /\ \A x \in DOMAIN Apply(doc, edit).alerts :
                 x \in DOMAIN doc.alerts \/ (edit.op = "create" /\ x = edit.alert)
           /\ edit.op = "delete" => edit.alert \in DOMAIN doc.alerts \ DOMAIN Apply(doc, edit).alerts
<1>1. CASE edit.op = "create"
  <2> DEFINE more == [x \in DOMAIN doc.alerts \cup {edit.alert} |-> x = edit.alert \/ doc.alerts[x]]
  <2>1. Apply(doc, edit) = [doc EXCEPT !.alerts = more]
    BY <1>1 DEF Apply
  <2>2. Cardinality(DOMAIN doc.alerts) < MaxAlerts
    BY <1>1 DEF Allowed
  <2>3. /\ IsFiniteSet(DOMAIN doc.alerts) /\ Cardinality(DOMAIN doc.alerts) \in Nat
        /\ MaxAlerts \in Nat
    BY AlertsAssumption, FS_CardinalityType DEF Good
  <2>4. /\ IsFiniteSet(DOMAIN doc.alerts \cup {edit.alert})
        /\ Cardinality(DOMAIN doc.alerts \cup {edit.alert}) <= Cardinality(DOMAIN doc.alerts) + 1
    BY <2>3, FS_AddElement
  <2>5. /\ DOMAIN more = DOMAIN doc.alerts \cup {edit.alert}
        /\ more = [x \in DOMAIN more |-> more[x]]
    OBVIOUS
  <2>6. IsFiniteSet(DOMAIN more) /\ Cardinality(DOMAIN more) <= MaxAlerts
    <3>1. Cardinality(DOMAIN doc.alerts \cup {edit.alert}) \in Nat
      BY <2>4, FS_CardinalityType
    <3> QED BY <2>2, <2>3, <2>4, <2>5, <3>1
  <2>7. \A x \in ToSet(doc.events) \cap DOMAIN more : ~more[x]
    BY <1>1 DEF Good
  <2> HIDE DEF more
  <2> QED BY <1>1, <2>1, <2>5, <2>6, <2>7 DEF Good
<1>2. CASE edit.op = "delete"
  <2> DEFINE fewer == [x \in DOMAIN doc.alerts \ {edit.alert} |-> doc.alerts[x]]
  <2>1. Apply(doc, edit) = [doc EXCEPT !.alerts = fewer] /\ edit.alert \in DOMAIN doc.alerts
    BY <1>2 DEF Apply, Allowed
  <2>2. /\ IsFiniteSet(DOMAIN doc.alerts) /\ Cardinality(DOMAIN doc.alerts) \in Nat
        /\ MaxAlerts \in Nat
    BY AlertsAssumption, FS_CardinalityType DEF Good
  <2>3. /\ IsFiniteSet(DOMAIN doc.alerts \ {edit.alert})
        /\ Cardinality(DOMAIN doc.alerts \ {edit.alert}) <= Cardinality(DOMAIN doc.alerts)
    BY <2>2, FS_Subset
  <2>4. /\ DOMAIN fewer = DOMAIN doc.alerts \ {edit.alert}
        /\ fewer = [x \in DOMAIN fewer |-> fewer[x]]
    OBVIOUS
  <2>5. IsFiniteSet(DOMAIN fewer) /\ Cardinality(DOMAIN fewer) <= MaxAlerts
    <3>1. Cardinality(DOMAIN doc.alerts \ {edit.alert}) \in Nat
      BY <2>3, FS_CardinalityType
    <3> QED BY <2>2, <2>3, <2>4, <3>1 DEF Good
  <2>6. \A x \in ToSet(doc.events) \cap DOMAIN fewer : ~fewer[x]
    BY DEF Good
  <2> HIDE DEF fewer
  <2> QED BY <1>2, <2>1, <2>4, <2>5, <2>6 DEF Good
<1>3. CASE edit.op \in {"subscribe", "email", "telegram_start", "telegram_verify", "telegram_unlink"}
  <2>1. /\ Apply(doc, edit).alerts = doc.alerts /\ Apply(doc, edit).events = doc.events
        /\ Apply(doc, edit) = [alerts |-> doc.alerts, events |-> doc.events,
               devices |-> Apply(doc, edit).devices, email |-> Apply(doc, edit).email,
               code |-> Apply(doc, edit).code, linked |-> Apply(doc, edit).linked]
    BY <1>3 DEF Apply, Good
  <2>2. OneOfEach(Apply(doc, edit).devices, Devices, MaxDevices)
    <3>1. CASE edit.op = "subscribe"
      <4>1. edit.device \in Devices
        BY <3>1 DEF Edits
      <4>2. Apply(doc, edit).devices = Newest(Append(Without(doc.devices, edit.device), edit.device), MaxDevices)
        BY <3>1 DEF Apply, Good
      <4> QED BY <4>1, <4>2, SubscribedOf DEF Good
    <3>2. CASE edit.op # "subscribe"
      <4>1. Apply(doc, edit).devices = doc.devices
        BY <1>3, <3>2 DEF Apply, Good
      <4> QED BY <4>1 DEF Good
    <3> QED BY <3>1, <3>2
  <2> QED BY <1>3, <2>1, <2>2 DEF Good
<1> QED BY <1>1, <1>2, <1>3 DEF Edits

\* An alert that fires leaves a good document: it is inactive and in the feed.
LEMMA FiredGood ==
    ASSUME NEW doc, Good(doc), NEW x \in Alerts, x \in DOMAIN doc.alerts,
           NEW devices \in Sublists(doc.devices)
    PROVE  /\ Good(Fired(doc, x, devices))
           /\ DOMAIN Fired(doc, x, devices).alerts = DOMAIN doc.alerts
           /\ ToSet(Fired(doc, x, devices).events) \subseteq ToSet(doc.events) \cup {x}
<1> DEFINE off == [doc.alerts EXCEPT ![x] = FALSE]
           feed == Newest(Append(doc.events, x), MaxEvents)
<1>1. Fired(doc, x, devices) = [alerts |-> off, events |-> feed, devices |-> devices,
              email |-> doc.email, code |-> doc.code, linked |-> doc.linked]
  <2>1. doc = [alerts |-> doc.alerts, events |-> doc.events, devices |-> doc.devices,
               email |-> doc.email, code |-> doc.code, linked |-> doc.linked]
    BY DEF Good
  <2>2. Fired(doc, x, devices) = [doc EXCEPT !.alerts = off, !.events = feed, !.devices = devices]
    BY DEF Fired
  <2> HIDE DEF off, feed
  <2> QED BY <2>1, <2>2
<1>2. DOMAIN off = DOMAIN doc.alerts /\ off = [y \in DOMAIN off |-> off[y]]
  BY DEF Good
<1>3. /\ feed \in Seq(Alerts) /\ ToSet(feed) \subseteq ToSet(doc.events) \cup {x}
      /\ Len(feed) <= MaxEvents
  BY AlertsAssumption, NewestOf DEF Good
<1>4. \A y \in ToSet(feed) \cap DOMAIN off : ~off[y]
  BY <1>2, <1>3 DEF Good
<1>5. OneOfEach(devices, Devices, MaxDevices)
  BY SublistOf DEF Good
<1> HIDE DEF off, feed
<1> QED BY <1>1, <1>2, <1>3, <1>4, <1>5 DEF Good

-----------------------------------------------------------------------------
LEMMA AlertsInit == Init => IInv
<1> SUFFICES ASSUME Init PROVE IInv
  OBVIOUS
<1>1. PICK S \in SUBSET Users : docs = [u \in Users |-> [EmptyDoc EXCEPT !.code = u \in S]]
  BY DEF Init
<1>2. \A u \in Users : Good(docs[u]) /\ ToSet(docs[u].events) = {} /\ DOMAIN docs[u].alerts = {}
  <2> TAKE u \in Users
  <2>1. docs[u] = [alerts |-> EmptyDoc.alerts, events |-> EmptyDoc.events, devices |-> EmptyDoc.devices,
                   email |-> EmptyDoc.email, code |-> u \in S, linked |-> EmptyDoc.linked]
    BY <1>1 DEF EmptyDoc
  <2>2. /\ docs[u].alerts = EmptyDoc.alerts /\ docs[u].events = EmptyDoc.events
        /\ docs[u].devices = EmptyDoc.devices
    BY <2>1
  <2> QED BY <2>1, <2>2, EmptyGood DEF Good
<1>3. Shapes
  BY <1>1 DEF Init, Shapes, NoCopy
<1>4. Pieces
  BY <1>2, EmptyGood DEF Init, Pieces, NoCopy, Known
<1>5. \A x : \A u \in Users : ~Mentioned(x, u, docs, worker, copy)
  BY <1>2, EmptyGood, AlertsAssumption DEF Init, Mentioned, NoCopy, Idle
<1> QED BY <1>3, <1>4, <1>5 DEF Init, IInv, Owned, OneOwner, Accounted

\* A step that mentions nothing anew keeps the alerts with their owners.
LEMMA NothingAnew ==
    ASSUME Owned, created \subseteq created', buried' = buried,
           \A x : \A u \in Users : Mentioned(x, u, docs', worker', copy') => Mentioned(x, u, docs, worker, copy)
    PROVE  Owned'
  BY DEF Owned, OneOwner, Accounted

LEMMA BeginStep ==
    ASSUME IInv, NEW w \in Workers, NEW u \in Users, NEW edit \in Edits, Begin(w, u, edit)
    PROVE  IInv'
<1> DEFINE job == [edit |-> edit, user |-> u, doc |-> docs[u]]
<1>1. /\ worker[w] = Idle /\ Allowed(docs[u], edit)
      /\ edit.op = "create" => edit.alert \notin created
      /\ created' = IF edit.op = "create" THEN created \cup {edit.alert} ELSE created
      /\ worker' = [worker EXCEPT ![w] = job]
      /\ UNCHANGED <<docs, copy, todo, current, dirty, buried>>
  BY DEF Begin, evaluator
<1>2. Shapes /\ Pieces /\ Owned
  BY DEF IInv
<1>3. Shapes'
  BY <1>1, <1>2 DEF Shapes
<1>4. \A doc : Known(doc, created) => Known(doc, created')
  BY <1>1 DEF Known
<1>5. Sound(job, created')
  BY <1>1, <1>2, <1>4 DEF Pieces, Sound, Known
<1>6. \A v \in Workers \ {w} : worker[v] # Idle => Sound(worker'[v], created')
  BY <1>1, <1>2, <1>4 DEF Pieces, Shapes, Sound
<1>7. Pieces'
  <2>1. \A v \in Workers : worker'[v] = IF v = w THEN job ELSE worker[v]
    BY <1>1, <1>2 DEF Shapes
  <2>2. \A v \in Workers : worker'[v] = Idle \/ Sound(worker'[v], created')
    BY <2>1, <1>5, <1>6
  <2>3. \A v \in Users : Good(docs'[v]) /\ Known(docs'[v], created') /\ Good(copy'[v]) /\ Known(copy'[v], created')
    BY <1>1, <1>2, <1>4 DEF Pieces
  <2> QED BY <2>2, <2>3 DEF Pieces, Known, Sound
<1>8. \A x : \A v \in Users : Mentioned(x, v, docs', worker', copy') =>
          Mentioned(x, v, docs, worker, copy) \/ (edit.op = "create" /\ edit.alert = x /\ v = u)
  BY <1>1, <1>2 DEF Mentioned, Creating, Shapes
<1>9. Owned'
  <2>1. OneOwner /\ Accounted /\ buried \subseteq created
    BY <1>2 DEF Owned
  <2>2. OneOwner'
    BY <1>1, <1>8, <2>1 DEF OneOwner, Accounted
  <2>3. Accounted'
    BY <1>1, <1>8, <2>1 DEF Accounted
  <2> QED BY <1>1, <2>1, <2>2, <2>3 DEF Owned
<1> QED BY <1>3, <1>7, <1>9 DEF IInv

LEMMA FinishStep ==
    ASSUME IInv, NEW w \in Workers, Finish(w)
    PROVE  IInv'
<1> DEFINE edit == worker[w].edit
           u == worker[w].user
           new == Apply(worker[w].doc, edit)
<1>1. /\ worker[w] # Idle
      /\ docs' = [docs EXCEPT ![u] = new]
      /\ worker' = [worker EXCEPT ![w] = Idle]
      /\ buried' = IF edit.op = "delete" /\ HoldsCopy(u) = {w} /\ current = None
                   THEN buried \cup {edit.alert} ELSE buried
      /\ UNCHANGED <<copy, todo, current, dirty, created>>
  BY DEF Finish, Save, evaluator
<1>2. Shapes /\ Pieces /\ Owned
  BY DEF IInv
<1>3. Sound(worker[w], created) /\ u \in Users /\ edit \in Edits
  BY <1>1, <1>2 DEF Pieces, Sound
<1>4. /\ Good(new) /\ new.events = worker[w].doc.events
      /\ \A x \in DOMAIN new.alerts :
            x \in DOMAIN worker[w].doc.alerts \/ (edit.op = "create" /\ x = edit.alert)
      /\ edit.op = "delete" => edit.alert \in DOMAIN worker[w].doc.alerts \ DOMAIN new.alerts
  BY <1>3, ApplyGood DEF Sound
<1> HIDE DEF new
<1>5. Known(new, created)
  BY <1>3, <1>4 DEF Sound, Known
<1>6. Shapes'
  BY <1>1, <1>2, <1>3 DEF Shapes
<1>7. Pieces'
  <2>1. \A v \in Users : docs'[v] = IF v = u THEN new ELSE docs[v]
    BY <1>1, <1>2, <1>3 DEF Shapes
  <2>2. \A v \in Workers : worker'[v] = IF v = w THEN Idle ELSE worker[v]
    BY <1>1, <1>2 DEF Shapes
  <2> QED BY <1>1, <1>2, <1>4, <1>5, <2>1, <2>2 DEF Pieces, Known, Sound
<1>8. \A x : \A v \in Users : Mentioned(x, v, docs', worker', copy') => Mentioned(x, v, docs, worker, copy)
  BY <1>1, <1>2, <1>3, <1>4, AlertsAssumption DEF Mentioned, Creating, Shapes, Idle
<1>9. CASE buried' = buried
  <2>1. Owned'
    BY <1>1, <1>2, <1>8, <1>9, NothingAnew
  <2> QED BY <1>6, <1>7, <2>1 DEF IInv
<1>10. CASE edit.op = "delete" /\ HoldsCopy(u) = {w} /\ current = None
  <2>1. Mentioned(edit.alert, u, docs, worker, copy) /\ edit.alert \in created
    BY <1>2, <1>3, <1>4, <1>10 DEF Mentioned, Owned, Accounted
  <2>2. \A v \in Users : Mentioned(edit.alert, v, docs', worker', copy') => v = u
    BY <1>2, <1>3, <1>8, <2>1 DEF Owned, OneOwner
  <2>3. ~Mentioned(edit.alert, u, docs', worker', copy')
    <3>1. edit.alert \notin DOMAIN docs'[u].alerts
      BY <1>1, <1>2, <1>3, <1>4, <1>10 DEF Shapes
    <3>2. edit.alert \notin DOMAIN copy'[u].alerts
      BY <1>1, <1>2, <1>3, <1>10, EmptyGood DEF Shapes, NoCopy
    <3>3. \A v \in Workers : worker'[v].user # u
      BY <1>1, <1>2, <1>3, <1>10, AlertsAssumption DEF Shapes, HoldsCopy, Idle
    <3> QED BY <3>1, <3>2, <3>3 DEF Mentioned
  <2>4. buried' = buried \cup {edit.alert}
    BY <1>1, <1>10
  <2>5. OneOwner /\ Accounted /\ buried \subseteq created
    BY <1>2 DEF Owned
  <2>6. OneOwner'
    BY <1>8, <2>5 DEF OneOwner
  <2>7. Accounted'
    BY <1>1, <1>8, <2>2, <2>3, <2>4, <2>5 DEF Accounted
  <2> QED BY <1>1, <1>6, <1>7, <2>1, <2>4, <2>5, <2>6, <2>7 DEF IInv, Owned
<1> QED BY <1>1, <1>6, <1>7, <1>9, <1>10 DEF IInv

LEMMA AbandonStep ==
    ASSUME IInv, NEW w \in Workers, Abandon(w)
    PROVE  IInv'
<1>1. worker' = [worker EXCEPT ![w] = Idle] /\ UNCHANGED <<docs, copy, todo, current, dirty, created, buried>>
  BY DEF Abandon, evaluator, history
<1>2. Shapes /\ Pieces /\ Owned
  BY DEF IInv
<1>3. Shapes' /\ Pieces'
  BY <1>1, <1>2 DEF Shapes, Pieces, Known, Sound
<1>4. \A x : \A v \in Users : Mentioned(x, v, docs', worker', copy') => Mentioned(x, v, docs, worker, copy)
  BY <1>1, <1>2, AlertsAssumption DEF Mentioned, Creating, Shapes, Idle
<1> QED BY <1>1, <1>2, <1>3, <1>4, NothingAnew DEF IInv

LEMMA EvalStartStep ==
    ASSUME IInv, NEW u \in Users, EvalStart(u)
    PROVE  IInv'
<1>1. /\ copy' = docs /\ current' = u /\ todo' \subseteq Users /\ dirty' = FALSE
      /\ UNCHANGED <<docs, worker, created, buried>>
  BY DEF EvalStart, history
<1>2. Shapes /\ Pieces /\ Owned
  BY DEF IInv
<1>3. Shapes' /\ Pieces'
  BY <1>1, <1>2, AlertsAssumption DEF Shapes, Pieces
<1>4. \A x : \A v \in Users : Mentioned(x, v, docs', worker', copy') => Mentioned(x, v, docs, worker, copy)
  BY <1>1 DEF Mentioned
<1> QED BY <1>1, <1>2, <1>3, <1>4, NothingAnew DEF IInv

LEMMA EvalFireStep ==
    ASSUME IInv, NEW x \in Alerts, EvalFire(x)
    PROVE  IInv'
<1>1. Shapes /\ Pieces /\ Owned
  BY DEF IInv
<1>2. /\ current \in Users /\ current # None
      /\ x \in DOMAIN copy[current].alerts
      /\ dirty' = TRUE /\ UNCHANGED <<docs, worker, todo, current, created, buried>>
  BY <1>1 DEF EvalFire, Shapes
<1>3. PICK devices \in Sublists(copy[current].devices) : copy' = [copy EXCEPT ![current] = Fired(copy[current], x, devices)]
  BY DEF EvalFire
<1> DEFINE new == Fired(copy[current], x, devices)
<1>4. /\ Good(new) /\ DOMAIN new.alerts = DOMAIN copy[current].alerts
      /\ ToSet(new.events) \subseteq ToSet(copy[current].events) \cup {x}
  BY <1>1, <1>2, FiredGood DEF Pieces
<1>5. copy' = [copy EXCEPT ![current] = new]
  BY <1>3
<1> HIDE DEF new
<1>6. x \in created
  BY <1>1, <1>2 DEF Owned, Accounted, Mentioned
<1>7. Known(new, created)
  BY <1>1, <1>2, <1>4, <1>6 DEF Known, Pieces
<1>8. \A v \in Users : copy'[v] = IF v = current THEN new ELSE copy[v]
  BY <1>1, <1>2, <1>5 DEF Shapes
<1>9. Shapes' /\ Pieces'
  BY <1>1, <1>2, <1>4, <1>5, <1>7, <1>8 DEF Shapes, Pieces
<1>10. \A y : \A v \in Users : Mentioned(y, v, docs', worker', copy') => Mentioned(y, v, docs, worker, copy)
  BY <1>2, <1>4, <1>8 DEF Mentioned
<1> QED BY <1>1, <1>2, <1>9, <1>10, NothingAnew DEF IInv

LEMMA EvalSaveStep ==
    ASSUME IInv, EvalSave
    PROVE  IInv'
<1>1. Shapes /\ Pieces /\ Owned
  BY DEF IInv
<1>2. /\ current \in Users
      /\ docs' = docs \/ docs' = [docs EXCEPT ![current] = copy[current]]
      /\ copy' = NoCopy \/ copy' = [copy EXCEPT ![current] = EmptyDoc]
      /\ current' \in Users \cup {None} /\ todo' \subseteq Users
      /\ dirty' = FALSE
      /\ current' = None => copy' = NoCopy /\ todo' = {}
      /\ UNCHANGED <<worker, created, buried>>
  BY <1>1, AlertsAssumption DEF EvalSave, Save, Shapes, history
<1>3. \A v \in Users : docs'[v] \in {docs[v], copy[v]} /\ copy'[v] \in {copy[v], EmptyDoc}
  BY <1>1, <1>2 DEF Shapes, NoCopy
<1>4. docs' = [v \in Users |-> docs'[v]] /\ copy' = [v \in Users |-> copy'[v]]
  BY <1>1, <1>2 DEF Shapes, NoCopy
<1>5. Known(EmptyDoc, created)
  BY EmptyGood DEF Known
<1>6. Shapes'
  BY <1>1, <1>2, <1>4 DEF Shapes
<1>7. Pieces'
  BY <1>1, <1>2, <1>3, <1>5, EmptyGood DEF Pieces
<1>8. \A x : \A v \in Users : Mentioned(x, v, docs', worker', copy') => Mentioned(x, v, docs, worker, copy)
  BY <1>2, <1>3, EmptyGood DEF Mentioned
<1> QED BY <1>1, <1>2, <1>6, <1>7, <1>8, NothingAnew DEF IInv

\* The pass, or everything, ends where it is: only the file remains of it.
LEMMA EndStep ==
    ASSUME IInv, EvalFails \/ Restart
    PROVE  IInv'
<1>1. Shapes /\ Pieces /\ Owned
  BY DEF IInv
<1>2. /\ copy' = NoCopy /\ current' = None /\ todo' = {} /\ dirty' = FALSE
      /\ worker' = worker \/ worker' = [w \in Workers |-> Idle]
      /\ UNCHANGED <<docs, created, buried>>
  BY DEF EvalFails, Restart, history
<1>3. Known(EmptyDoc, created)
  BY EmptyGood DEF Known
<1>4. Shapes' /\ Pieces'
  BY <1>1, <1>2, <1>3, EmptyGood DEF Shapes, Pieces, NoCopy
<1>5. \A x : \A v \in Users : Mentioned(x, v, docs', worker', copy') => Mentioned(x, v, docs, worker, copy)
  BY <1>1, <1>2, EmptyGood, AlertsAssumption DEF Mentioned, NoCopy, Idle
<1> QED BY <1>1, <1>2, <1>4, <1>5, NothingAnew DEF IInv

LEMMA AlertsStep == IInv /\ [Next]_vars => IInv'
<1>1. ASSUME IInv, UNCHANGED vars PROVE IInv'
  <2>1. UNCHANGED <<docs, worker, copy, todo, current, dirty, created, buried>>
    BY <1>1 DEF vars, evaluator, history
  <2> QED BY <1>1, <2>1 DEF IInv, Shapes, Pieces, Owned, OneOwner, Accounted
<1> QED BY <1>1, BeginStep, FinishStep, AbandonStep, EvalStartStep, EvalFireStep, EvalSaveStep, EndStep
        DEF Next

THEOREM InvAlways == Spec => []IInv
  BY AlertsInit, AlertsStep, PTL DEF Spec

\* However requests, evaluation passes and restarts overlap, a stored document is of
\* one piece: an alert that stands in the feed is no longer active.
THEOREM FeedMatchesAlways == Spec => []FeedMatches
<1>1. IInv => FeedMatches
  BY DEF IInv, Pieces, Good, FeedMatches
<1> QED BY <1>1, InvAlways, PTL

\* The documents and what the evaluator keeps are of their types.
THEOREM TypeOKAlways == Spec => []TypeOK
<1>1. IInv => TypeOK
  BY DEF IInv, Shapes, Pieces, Good, OneOfEach, Owned, Accounted, Mentioned, TypeOK
<1> QED BY <1>1, InvAlways, PTL

\* No interleaving of creations passes the ceiling of the plan, and no document keeps
\* more events or devices than the newest of them, or a device twice.
THEOREM WithinPlanAlways == Spec => []WithinPlan
<1>1. IInv => WithinPlan
  BY DEF IInv, Pieces, Good, OneOfEach, WithinPlan
<1> QED BY <1>1, InvAlways, PTL

\* A deletion that overlapped no other request of its user and no evaluation pass is
\* for good: nothing brings the alert back.
THEOREM DeletedStaysDeletedAlways == Spec => []DeletedStaysDeleted
<1>1. IInv => DeletedStaysDeleted
  BY DEF IInv, Owned, Accounted, Mentioned, DeletedStaysDeleted
<1> QED BY <1>1, InvAlways, PTL
=============================================================================
