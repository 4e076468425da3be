---------------------------- MODULE SignInPages -----------------------------
(***************************************************************************)
(* The login page (app/login/page.tsx, lib/passkey.ts) and the page that   *)
(* an invitation or a reset link opens (app/set-password/page.tsx).        *)
(*                                                                         *)
(* `page' is the open page with its React state, `srv' the link as the     *)
(* server knows it.  Each await is a step; the answer of a request may be  *)
(* lost after the server has acted on it.                                  *)
(***************************************************************************)
EXTENDS Naturals

VARIABLES page, srv

vars == <<page, srv>>

Open(name) == page.name = name
To(p) == page' = p /\ UNCHANGED srv

-----------------------------------------------------------------------------
(* The login page. *)

LoginPage ==
    [name |-> "login", can |-> "unknown", primary |-> FALSE, shown |-> FALSE,
     step |-> "idle", error |-> FALSE, reset |-> "no", in |-> FALSE]

\* What is on the screen.
PasskeyButton(p) == p.can = "yes"
PasswordForm(p) == p.shown \/ p.can = "no"
ResetForm(p) == p.reset = "asking"
Busy(p) == p.step # "idle"

\* available(): a browser without the interface, and a probe that fails, is
\* a no.
Available == {"yes", "no"}

Probe ==
    /\ Open("login") /\ page.can = "unknown"
    /\ \E c \in Available : To([page EXCEPT !.can = c])

Begin(step) ==
    /\ ~page.in /\ ~Busy(page)
    /\ To([page EXCEPT !.step = step, !.error = FALSE])
StartPasskey == Open("login") /\ PasskeyButton(page) /\ Begin("begin")
SubmitPassword == Open("login") /\ PasswordForm(page) /\ Begin("login")
SubmitReset == Open("login") /\ ResetForm(page) /\ Begin("forgot")

PasskeyFailedOnly(p) == [p EXCEPT !.step = "idle", !.error = TRUE]
PasskeyFailed(p) == [p EXCEPT !.step = "idle", !.error = TRUE, !.shown = TRUE]

\* getAssertion() returns, or throws an error that isCancellation() tells apart.
Ceremony == {"done", "dismissed", "failed"}

\* signInWithPasskey, from one await to the next.  A dismissed prompt is a
\* choice and not a failure.
PasskeyProceeds ==
    /\ Open("login")
    /\ \/ /\ page.step = "begin"
          /\ \E p \in {[page EXCEPT !.step = "prompt"], PasskeyFailed(page)} : To(p)
       \/ /\ page.step = "prompt"
          /\ \E c \in Ceremony :
                To(CASE c = "done" -> [page EXCEPT !.step = "finish"]
                     [] c = "dismissed" -> [page EXCEPT !.step = "idle"]
                     [] c = "failed" -> PasskeyFailed(page))
       \/ /\ page.step = "finish"
          /\ \E p \in {[page EXCEPT !.step = "idle", !.in = TRUE, !.primary = TRUE],
                       PasskeyFailed(page)} : To(p)

PasswordAnswers ==
    /\ Open("login") /\ page.step = "login"
    /\ \E ok \in BOOLEAN : To([page EXCEPT !.step = "idle", !.in = ok, !.error = ~ok])

\* Success and failure look the same.
ResetAnswers ==
    /\ Open("login") /\ page.step = "forgot"
    /\ To([page EXCEPT !.step = "idle", !.reset = "sent"])

LoginClicks ==
    /\ Open("login") /\ ~page.in
    /\ \/ /\ PasskeyButton(page) /\ ~PasswordForm(page)
          /\ To([page EXCEPT !.shown = TRUE, !.error = FALSE])
       \/ /\ PasswordForm(page) /\ page.primary
          /\ To([page EXCEPT !.primary = FALSE])
       \/ /\ PasswordForm(page) /\ page.reset = "no"
          /\ To([page EXCEPT !.reset = "asking", !.error = FALSE])

-----------------------------------------------------------------------------
(* The page of a link.  `accept' carries whether the two passwords are the  *)
(* same; the request spends the link, whatever becomes of its answer.       *)

LinkPage ==
    [name |-> "link", checking |-> TRUE, usable |-> FALSE,
     asked |-> "no", answer |-> "none", same |-> FALSE, error |-> FALSE, in |-> FALSE]

LinkForm(p) == ~p.checking /\ p.usable /\ ~p.in
Ask(p, what) == [p EXCEPT !.asked = what, !.answer = "none"]

\* Without a token in the address nothing is asked.
MountLink ==
    /\ Open("link") /\ page.checking /\ page.asked = "no"
    /\ \/ To([page EXCEPT !.checking = FALSE])
       \/ To(Ask(page, "inspect"))

\* The passwords are compared and measured before anything is sent; the
\* button is disabled while a request is under way.
SubmitLink ==
    /\ Open("link") /\ LinkForm(page) /\ page.asked = "no"
    /\ \/ To([page EXCEPT !.error = TRUE])
       \/ To(Ask([page EXCEPT !.same = TRUE, !.error = FALSE], "accept"))

LinkHandled ==
    /\ Open("link") /\ page.asked # "no" /\ page.answer = "none"
    /\ page' = [page EXCEPT !.answer = IF srv = "valid" THEN "ok" ELSE "refused"]
    /\ srv' = IF page.asked # "accept" \/ srv # "valid" THEN srv
              ELSE IF page.same THEN "spent" ELSE "wasted"

LinkAnswers ==
    /\ Open("link") /\ page.asked # "no"
    /\ \E ok \in BOOLEAN :
          LET p == [page EXCEPT !.asked = "no", !.answer = "none"] IN
          /\ ok => page.answer = "ok"
          /\ To(IF page.asked = "inspect" THEN [p EXCEPT !.checking = FALSE, !.usable = ok]
                ELSE [p EXCEPT !.in = ok, !.error = ~ok])

\* Someone else opens the same link, or it expires.
LinkEnds == /\ Open("link") /\ srv = "valid" /\ srv' = "spent" /\ UNCHANGED page

\* The page is opened again; the account this device offers is remembered.
OpenAgain ==
    /\ Open("login") \/ Open("link")
    /\ \/ To([LoginPage EXCEPT !.primary = Open("login") /\ page.primary])
       \/ page' = LinkPage /\ srv' \in {srv, "valid"}

-----------------------------------------------------------------------------
Init == page = LoginPage /\ srv = "valid"

Answers == Probe \/ PasskeyProceeds \/ PasswordAnswers \/ ResetAnswers
           \/ LinkHandled \/ LinkAnswers

Next ==
    \/ StartPasskey \/ SubmitPassword \/ SubmitReset \/ LoginClicks
    \/ Answers \/ MountLink \/ SubmitLink \/ LinkEnds \/ OpenAgain

\* The browser probes the device and requests end; so do effects on mount.
Fairness == WF_vars(Probe) /\ WF_vars(PasskeyProceeds \/ PasswordAnswers \/ ResetAnswers)
            /\ WF_vars(LinkAnswers) /\ WF_vars(MountLink)

TypeOK ==
    /\ Open("login") =>
          /\ page.can \in {"unknown", "yes", "no"}
          /\ page.step \in {"idle", "begin", "prompt", "finish", "login", "forgot"}
          /\ page.reset \in {"no", "asking", "sent"}
    /\ Open("link") => page.asked \in {"no", "inspect", "accept"}
    /\ srv \in {"valid", "spent", "wasted"}

\* A passkey that is refused or fails, at either request or in the ceremony
\* between them, says so and leaves the password form on the screen
\* (login/page.tsx:74-79).  A prompt that the reader cancels says nothing and is
\* not covered: see AlwaysAPassword.
NeverALockedDoor == Open("login") /\ page.error => PasswordForm(page)

\* "Every way the fast path can fail", a cancelled prompt among them, "lands on
\* the password form" (login/page.tsx:6-10).  No run checks this: a cancellation
\* returns before the form is shown (70-73), and what is left is the passkey
\* button and the click that shows the form.
AlwaysAPassword ==
    [][PasskeyProceeds /\ ~Busy(page') => page'.in \/ PasswordForm(page')]_vars

\* A link is spent only by two passwords that match: a slip of the hand does
\* not cost the user the link (set-password/page.tsx:65-67).
NeverWasted == srv # "wasted"

\* The page asks for as long as a request lasts, and never for ever.
Settles == Open("login") /\ Busy(page) ~> ~(Open("login") /\ Busy(page))
=============================================================================
