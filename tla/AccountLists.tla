---------------------------- MODULE AccountLists ----------------------------
(***************************************************************************)
(* The lists an account keeps on the server and edits from the browser:    *)
(* passkeys (PasskeyManager.tsx), sessions (SessionManager.tsx), API       *)
(* tokens (ApiTokens.tsx) and, for the administrator, accounts             *)
(* (app/admin/page.tsx).  The panels differ in what they do while a        *)
(* request is under way, in what they show when one fails, and in whether  *)
(* they edit their own copy of the list or load it again.                  *)
(*                                                                         *)
(* `srv' is the list on the server, `page.asked' the requests under way    *)
(* with what the server said once it had handled them.                     *)
(***************************************************************************)
EXTENDS Naturals, FiniteSets

CONSTANTS
    Items,      \* passkeys, sessions, tokens or accounts
    MaxAsked    \* bound: requests under way at once

VARIABLES page, srv

vars == <<page, srv>>

Kinds == {"passkeys", "sessions", "tokens", "admin"}
Open(name) == page.name = name
Listing == page.name \in Kinds
To(p) == page' = p /\ UNCHANGED srv

Ops == {"list", "reload", "create", "remove", "all"}
Request(op, item) == [op |-> op, item |-> item, stage |-> "sent", got |-> {}]
Room == Cardinality(page.asked) < MaxAsked
Ask(p, op, item) == [p EXCEPT !.asked = @ \cup {Request(op, item)}]
Failed(p) == [p EXCEPT !.error = TRUE]

\* `rows' is what the panel shows once `loaded'; `was' the
\* sessions it was first told of.
ListPage(kind) ==
    [name |-> kind, rows |-> {}, loaded |-> FALSE, was |-> {}, busy |-> 0,
     error |-> FALSE, fresh |-> 0, forbidden |-> FALSE, left |-> FALSE,
     asked |-> {Request("list", 0)}]

Init == \E kind \in Kinds : page = ListPage(kind) /\ srv \in SUBSET Items

\* busy: nothing, the item whose request is under way, or one of these.
Nobody == 0
Creating == 100
Everything == 101
Prompting == 102

Show(p, got) == [p EXCEPT !.rows = got, !.loaded = TRUE, !.was = IF p.loaded \/ p.name # "sessions" THEN @ ELSE got]

-----------------------------------------------------------------------------
(* Which of their controls the panels leave enabled. *)

PasskeyControls == Open("passkeys") /\ page.busy = Nobody
\* Only the button of the session itself is disabled while it is revoked.
SessionControls(i) == Open("sessions") /\ ~page.left /\ page.busy # i /\ i \in page.rows
\* The button is disabled while busy, the Enter key is not.
TokenControls == Open("tokens")
\* Nothing is disabled; no master admin is in Items.
AdminControls == Open("admin") /\ ~page.forbidden

(* What the user does. *)

\* PasskeyManager.enrol, remove: one thing at a time.
Enrol ==
    /\ PasskeyControls
    /\ To([page EXCEPT !.busy = Prompting, !.error = FALSE])

\* The ceremony of the device (createCredential) is over; dismissing it is
\* not an error.
Ceremony == {"done", "dismissed", "failed"}
EnrolPrompt ==
    /\ Open("passkeys") /\ page.busy = Prompting
    /\ \E c \in Ceremony :
          \/ /\ c = "done" /\ Room
             /\ To(Ask([page EXCEPT !.busy = Creating], "create", 0))
          \/ /\ c = "dismissed"
             /\ To([page EXCEPT !.busy = Nobody])
          \/ /\ c = "failed"
             /\ To(Failed([page EXCEPT !.busy = Nobody]))

RemovePasskey(i) ==
    /\ PasskeyControls /\ i \in page.rows /\ Room
    /\ To(Ask([page EXCEPT !.busy = i, !.error = FALSE], "remove", i))

RevokeSession(i) ==
    /\ SessionControls(i) /\ Room
    /\ To(Ask([page EXCEPT !.busy = i, !.error = FALSE], "remove", i))

RevokeAll ==
    /\ Open("sessions") /\ ~page.left /\ page.loaded /\ page.busy = Nobody /\ Room
    /\ To(Ask([page EXCEPT !.busy = Everything, !.error = FALSE], "all", 0))

CreateToken ==
    /\ TokenControls /\ Room
    /\ To(Ask([page EXCEPT !.busy = Creating, !.error = FALSE], "create", 0))

RevokeToken(i) ==
    /\ TokenControls /\ i \in page.rows /\ Room
    /\ To(Ask(page, "remove", i))

HideFresh == TokenControls /\ page.fresh # 0 /\ To([page EXCEPT !.fresh = 0])
RetryTokens == TokenControls /\ page.error /\ Room /\ To(Ask(page, "list", 0))

CreateUser ==
    /\ AdminControls /\ Room
    /\ \/ To(Failed(page))
       \/ To(Ask(page, "create", 0))

Deactivate(i) ==
    /\ AdminControls /\ i \in page.rows /\ Room
    /\ To(Ask(page, "remove", i))

Act ==
    \/ Enrol \/ RevokeAll \/ CreateToken \/ HideFresh \/ RetryTokens \/ CreateUser
    \/ \E i \in Items : RemovePasskey(i) \/ RevokeSession(i) \/ RevokeToken(i) \/ Deactivate(i)

-----------------------------------------------------------------------------
(* What the server does with a request, and what else happens to its list. *)

Handled(q, item, got) ==
    page' = [page EXCEPT !.asked = (@ \ {q}) \cup
                 {[q EXCEPT !.stage = "ok", !.item = item, !.got = got]}]

ServerHandles(q) ==
    /\ q.stage = "sent"
    /\ \/ /\ q.op \in {"list", "reload"}
          /\ Handled(q, q.item, srv) /\ UNCHANGED srv
       \/ /\ q.op = "remove"
          /\ Handled(q, q.item, {}) /\ srv' = srv \ {q.item}
       \/ /\ q.op = "all"
          /\ Handled(q, q.item, {}) /\ srv' = {}
       \/ /\ q.op = "create"
          /\ \E i \in Items \ srv :
                Handled(q, i, srv \cup {i}) /\ srv' = srv \cup {i}

Elsewhere(i) ==
    /\ Listing /\ i \in srv
    /\ srv' = srv \ {i} /\ UNCHANGED page

-----------------------------------------------------------------------------
(* What each panel does with an answer.  p is the page without the request. *)

PasskeysAnswer(p, q, ok) ==
    CASE q.op = "list" -> Show(p, IF ok THEN q.got ELSE {})
      [] q.op = "create" -> IF ok THEN Show([p EXCEPT !.busy = Nobody], q.got)
                            ELSE Failed([p EXCEPT !.busy = Nobody])
      [] q.op = "remove" -> IF ok THEN Ask(p, "reload", 0)
                            ELSE Failed([p EXCEPT !.busy = Nobody])
      [] q.op = "reload" -> Show([p EXCEPT !.busy = Nobody], IF ok THEN q.got ELSE {})

SessionsAnswer(p, q, ok) ==
    CASE q.op = "list" -> IF ok THEN Show(p, q.got) ELSE Failed(p)
      [] q.op = "remove" /\ ok -> [p EXCEPT !.busy = Nobody, !.rows = @ \ {q.item}]
      [] q.op = "remove" /\ ~ok -> Failed([p EXCEPT !.busy = Nobody])
      [] q.op = "all" -> IF ok THEN [p EXCEPT !.left = TRUE]
                         ELSE Failed([p EXCEPT !.busy = Nobody])

TokensAnswer(p, q, ok) ==
    CASE q.op \in {"list", "reload"} ->
            LET r == IF q.op = "reload" THEN [p EXCEPT !.busy = Nobody] ELSE p
            IN  IF ok THEN [Show(r, q.got) EXCEPT !.error = FALSE] ELSE Failed(r)
      [] q.op = "create" -> IF ok THEN Ask([p EXCEPT !.fresh = q.item], "reload", 0)
                            ELSE Failed([p EXCEPT !.busy = Nobody])
      [] q.op = "remove" -> IF ok THEN Ask(p, "list", 0) ELSE Failed(p)

\* A 403 closes the page, any other failure shows an empty list.
AdminAnswer(p, q, ok) ==
    CASE q.op = "list" -> Show(p, IF ok THEN q.got ELSE {})
      [] q.op = "create" -> IF ok THEN Ask([p EXCEPT !.error = FALSE], "list", 0) ELSE Failed(p)
      [] q.op = "remove" -> IF ok THEN Ask(p, "list", 0) ELSE p

Forbidden ==
    /\ Open("admin")
    /\ \E q \in page.asked :
          /\ q.op = "list" /\ q.stage = "sent"
          /\ To([page EXCEPT !.asked = @ \ {q}, !.forbidden = TRUE])

\* The answer arrives, or the request fails, before the server acted or after.
Answer(q) ==
    \E ok \in BOOLEAN :
        LET p == [page EXCEPT !.asked = @ \ {q}] IN
        /\ ok => q.stage = "ok"
        /\ \/ Open("passkeys") /\ To(PasskeysAnswer(p, q, ok))
           \/ Open("sessions") /\ To(SessionsAnswer(p, q, ok))
           \/ Open("tokens") /\ To(TokensAnswer(p, q, ok))
           \/ Open("admin") /\ To(AdminAnswer(p, q, ok))

Next ==
    \/ Act \/ EnrolPrompt \/ Forbidden
    \/ Listing /\ \E q \in page.asked : ServerHandles(q) \/ Answer(q)
    \/ \E i \in Items : Elsewhere(i)

Fairness ==
    /\ WF_vars(EnrolPrompt)
    /\ \A op \in Ops \ {"list"} : WF_vars(Listing /\ \E q \in page.asked : q.op = op /\ Answer(q))

-----------------------------------------------------------------------------
TypeOK ==
    Listing =>
        /\ page.rows \subseteq Items /\ srv \subseteq Items
        /\ page.busy \in Items \cup {Nobody, Creating, Everything, Prompting}
        /\ Cardinality(page.asked) <= MaxAsked

\* A session leaves the list only when it has ended, whatever the order of the
\* answers and whichever of them are lost: someone who signs a device out must
\* not be told so while it is still signed in (SessionManager.tsx:29-39).
GoneMeansEnded == Open("sessions") /\ page.loaded => (page.was \ page.rows) \cap srv = {}

\* No panel stays busy.
Settles == Listing /\ page.busy # Nobody ~> ~(Listing /\ page.busy # Nobody /\ ~page.left)
=============================================================================
