-------------------------------- MODULE Alerts --------------------------------
(***************************************************************************)
(* Alerts and their delivery settings: backend/routes/alerts.py over the   *)
(* per-user documents of backend/storage/__init__.py, with the evaluation  *)
(* loop of backend/app.py.                                                 *)
(*                                                                         *)
(* user_doc and save_user_doc lock, but not together: a handler reads its  *)
(* user's whole document, edits its copy and writes the copy back.  The    *)
(* evaluator does the same with a copy of everybody's documents and may be *)
(* at it for minutes, since every alert costs a provider call.             *)
(***************************************************************************)
EXTENDS Integers, FiniteSets, SequencesExt

CONSTANTS
    Users, Workers,
    Alerts,         \* alert ids (uuid4: never used twice)
    Devices,        \* push endpoints
    MaxAlerts,      \* max_alerts of the plan
    MaxEvents,      \* _MAX_EVENTS
    MaxDevices,     \* _MAX_PUSH_SUBS
    None

ASSUME AlertsAssumption ==
    /\ MaxAlerts \in Nat /\ MaxEvents \in Nat \ {0} /\ MaxDevices \in Nat \ {0}
    /\ None \notin Users

VARIABLES
    docs,       \* alerts.json
    worker,     \* per request thread: the copy it edits, or idle
    copy,       \* the evaluator's copy of every document
    todo,       \* users it has still to look at
    current,    \* the user it is at, or None
    dirty,
    created,    \* history: ids ever handed out
    delivered,  \* history: how often each alert was delivered
    buried      \* history: alerts deleted while nobody else held a copy

evaluator == <<copy, todo, current, dirty>>
history == <<created, delivered, buried>>
vars == <<docs, worker, evaluator, history>>

\* alerts maps an id to whether it is active; code and linked are the two
\* halves of the Telegram linking.
EmptyDoc == [alerts |-> [x \in {} |-> FALSE], events |-> << >>, devices |-> << >>,
             email |-> FALSE, code |-> FALSE, linked |-> FALSE]

Idle == [edit |-> [op |-> "idle"], user |-> None, doc |-> EmptyDoc]

NoCopy == [u \in Users |-> EmptyDoc]

\* The list without x, if it has it; what may be left of a list; the last n of it.
Without(list, x) ==
    LET at == {i \in DOMAIN list : list[i] = x}
    IN  IF at = {} THEN list ELSE RemoveAt(list, CHOOSE i \in at : TRUE)

Increasing(n, list) == {f \in [1..n -> DOMAIN list] : \A i, j \in 1..n : i < j => f[i] < f[j]}
Sublists(list) == UNION {{[i \in 1..n |-> list[f[i]]] : f \in Increasing(n, list)} : n \in 0..Len(list)}

Newest(seq, n) == IF Len(seq) <= n THEN seq ELSE SubSeq(seq, Len(seq) - n + 1, Len(seq))

-----------------------------------------------------------------------------
\* The edits a request may ask for, and when the handler goes through with it.
Edits ==
    [op : {"create", "delete"}, alert : Alerts]
    \cup [op : {"subscribe"}, device : Devices]
    \cup [op : {"email"}, set : BOOLEAN]
    \cup [op : {"telegram_start", "telegram_verify", "telegram_unlink"}]

AllowedAnyway(doc, edit) ==
    CASE edit.op = "delete" -> edit.alert \in DOMAIN doc.alerts
      [] edit.op = "telegram_verify" -> doc.code
      [] OTHER -> TRUE

Allowed(doc, edit) ==
    CASE edit.op = "create" -> Cardinality(DOMAIN doc.alerts) < MaxAlerts
      [] edit.op = "delete" -> edit.alert \in DOMAIN doc.alerts
      [] edit.op = "telegram_verify" -> doc.code
      [] OTHER -> TRUE

Apply(doc, edit) ==
    CASE edit.op = "create" ->
           [doc EXCEPT !.alerts = [x \in DOMAIN doc.alerts \cup {edit.alert} |->
                                      x = edit.alert \/ doc.alerts[x]]]
      [] edit.op = "delete" ->
           [doc EXCEPT !.alerts = [x \in DOMAIN doc.alerts \ {edit.alert} |-> doc.alerts[x]]]
      [] edit.op = "subscribe" ->
           [doc EXCEPT !.devices =
               Newest(Append(Without(doc.devices, edit.device), edit.device), MaxDevices)]
      [] edit.op = "email" -> [doc EXCEPT !.email = edit.set]
      [] edit.op = "telegram_start" -> [doc EXCEPT !.code = TRUE]
      [] edit.op = "telegram_verify" -> [doc EXCEPT !.code = FALSE, !.linked = TRUE]
      [] edit.op = "telegram_unlink" -> [doc EXCEPT !.linked = FALSE]

-----------------------------------------------------------------------------
\* The file may be from an earlier run; some have begun to link Telegram.
Init ==
    /\ \E S \in SUBSET Users : docs = [u \in Users |-> [EmptyDoc EXCEPT !.code = u \in S]]
    /\ worker = [w \in Workers |-> Idle]
    /\ copy = NoCopy /\ todo = {} /\ current = None /\ dirty = FALSE
    /\ created = {} /\ delivered = [x \in Alerts |-> 0] /\ buried = {}

\* A handler reads its user's document (user_doc) and checks the request.
Begin(w, u, edit) ==
    /\ worker[w] = Idle
    /\ Allowed(docs[u], edit)
    /\ edit.op = "create" => edit.alert \notin created
    /\ created' = IF edit.op = "create" THEN created \cup {edit.alert} ELSE created
    /\ worker' = [worker EXCEPT ![w] = [edit |-> edit, user |-> u, doc |-> docs[u]]]
    /\ UNCHANGED <<docs, evaluator, delivered, buried>>

HoldsCopy(u) == {w \in Workers : worker[w].user = u}

SaveMerging(u, doc) ==
    docs' = [docs EXCEPT ![u] = [doc EXCEPT !.alerts =
        [x \in DOMAIN doc.alerts \cup DOMAIN docs[u].alerts |->
            IF x \in DOMAIN doc.alerts THEN doc.alerts[x] ELSE docs[u].alerts[x]]]]

\* save_user_doc: the whole document, and nobody else's.
Save(u, doc) == docs' = [docs EXCEPT ![u] = doc]

\* The handler writes its edited copy back.
Finish(w) ==
    LET edit == worker[w].edit
        u == worker[w].user
    IN  /\ worker[w] # Idle
        /\ Save(u, Apply(worker[w].doc, edit))
        /\ worker' = [worker EXCEPT ![w] = Idle]
        /\ buried' = IF edit.op = "delete" /\ HoldsCopy(u) = {w} /\ current = None
                     THEN buried \cup {edit.alert} ELSE buried
        /\ UNCHANGED <<evaluator, created, delivered>>

\* The handler ends without saving: no Telegram message yet, or a failed write.
Abandon(w) ==
    /\ worker[w] # Idle
    /\ worker' = [worker EXCEPT ![w] = Idle]
    /\ UNCHANGED <<docs, evaluator, history>>

-----------------------------------------------------------------------------
\* evaluate_all: one copy of every document, then one user after the other.
EvalStart(u) ==
    /\ current = None
    /\ copy' = docs
    /\ current' = u /\ todo' = Users \ {u} /\ dirty' = FALSE
    /\ UNCHANGED <<docs, worker, history>>

FiredActive(doc, x, devices) ==
    [doc EXCEPT !.events = Newest(Append(doc.events, x), MaxEvents),
                !.devices = devices]

\* The condition of an active alert holds: deactivate, deliver (dropping the
\* devices that no longer answer), add to the feed.
Fired(doc, x, devices) ==
    [doc EXCEPT !.alerts[x] = FALSE,
                !.events = Newest(Append(doc.events, x), MaxEvents),
                !.devices = devices]

EvalFire(x) ==
    /\ current # None
    /\ x \in DOMAIN copy[current].alerts /\ copy[current].alerts[x]
    /\ \E devices \in Sublists(copy[current].devices) :
          copy' = [copy EXCEPT ![current] = Fired(@, x, devices)]
    /\ delivered' = [delivered EXCEPT ![x] = @ + 1]
    /\ dirty' = TRUE
    /\ UNCHANGED <<docs, worker, todo, current, created, buried>>

\* What is left of the user's alerts does not fire: save if anything did, and
\* go on to the next user.
EvalSave ==
    /\ current # None
    /\ IF dirty THEN Save(current, copy[current]) ELSE UNCHANGED docs
    /\ dirty' = FALSE
    /\ IF todo = {} THEN current' = None /\ copy' = NoCopy /\ UNCHANGED todo
       ELSE \E u \in todo :
               current' = u /\ todo' = todo \ {u} /\ copy' = [copy EXCEPT ![current] = EmptyDoc]
    /\ UNCHANGED <<worker, history>>

\* The write fails and the pass ends there (app.py swallows it and sleeps).
EvalFails ==
    /\ current # None /\ dirty
    /\ current' = None /\ copy' = NoCopy /\ todo' = {} /\ dirty' = FALSE
    /\ UNCHANGED <<docs, worker, history>>

\* The process restarts: only the documents remain.
Restart ==
    /\ worker' = [w \in Workers |-> Idle]
    /\ current' = None /\ copy' = NoCopy /\ todo' = {} /\ dirty' = FALSE
    /\ UNCHANGED <<docs, history>>

Next ==
    \/ \E w \in Workers :
          \/ \E u \in Users, edit \in Edits : Begin(w, u, edit)
          \/ Finish(w) \/ Abandon(w)
    \/ \E u \in Users : EvalStart(u)
    \/ \E x \in Alerts : EvalFire(x)
    \/ EvalSave \/ EvalFails \/ Restart

Spec == Init /\ [][Next]_vars

-----------------------------------------------------------------------------
TypeOK ==
    /\ \A u \in Users :
          /\ DOMAIN docs[u].alerts \subseteq created
          /\ docs[u].events \in Seq(Alerts) /\ docs[u].devices \in Seq(Devices)
    /\ todo \subseteq Users /\ current \in Users \cup {None} /\ dirty \in BOOLEAN
    /\ current = None => ~dirty /\ todo = {}

\* However requests, evaluation passes and restarts overlap, a stored document
\* is of one piece: an alert that stands in the feed is no longer active.
FeedMatches ==
    \A u \in Users : \A x \in ToSet(docs[u].events) \cap DOMAIN docs[u].alerts :
        ~docs[u].alerts[x]

\* No interleaving of creations passes the ceiling of the plan, and whatever is
\* written back over what else, a document keeps no more events and devices than the
\* newest of them, and no device twice.
WithinPlan ==
    \A u \in Users :
        /\ Cardinality(DOMAIN docs[u].alerts) <= MaxAlerts
        /\ Len(docs[u].events) <= MaxEvents
        /\ Len(docs[u].devices) <= MaxDevices /\ IsInjective(docs[u].devices)

\* A deletion that overlapped no other request and no evaluation pass is for
\* good: nothing brings the alert back.
DeletedStaysDeleted == \A u \in Users : DOMAIN docs[u].alerts \cap buried = {}

\* An alert is delivered once (alerts.py:4-5: "Triggered alerts deactivate and
\* land in the user's event feed").
DeliveredOnce == \A x \in Alerts : delivered[x] <= 1
=============================================================================
