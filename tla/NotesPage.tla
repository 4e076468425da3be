----------------------------- MODULE NotesPage ------------------------------
(***************************************************************************)
(* Research notes (components/Notes.tsx, lib/noteDraft.ts) on the loading  *)
(* hook of every panel (lib/useAsync.ts): a text per ticker, autosaved on  *)
(* a timer, with a draft in localStorage behind it.                        *)
(*                                                                         *)
(* A text is a number: 0 is the empty one, and every edit types a new one. *)
(* srv is what outlives the page: the server's notes, the drafts, and the  *)
(* number of the last edit or save, which stands for the clock.            *)
(***************************************************************************)
EXTENDS Naturals, FiniteSets

CONSTANTS
    Tickers,
    MaxText,    \* bound: edits
    MaxLoads, MaxSaves, \* bounds: requests under way at once
    None

VARIABLES page, srv

vars == <<page, srv>>

Open == page.name = "notes"
To(p) == page' = p /\ UNCHANGED srv

\* What the three flags saving, saved and saveErr make the page say.
Status == {"idle", "saving", "saved", "failed"}
Quiet(p) == [p EXCEPT !.status = IF @ = "saving" THEN @ ELSE "idle"]

Clean(p, text) == [Quiet(p) EXCEPT !.text = text, !.serverText = text]

\* saveDraft: a text that is the saved one needs no draft.
SaveDraft(text, saved, at) == IF text = saved THEN None ELSE [text |-> text, at |-> at]
\* shouldRecover: only a draft that differs from the note and is newer.
ShouldRecover(draft, saved, savedAt) ==
    draft # None /\ draft.text # saved /\ (savedAt = None \/ draft.at > savedAt)

\* The effect on [ticker]: a load that replaces any other as the latest
\* (useAsync's reqRef), and an empty editor.  When there was no note on the
\* screen the editor is empty already, and what it is compared with stays.
Blank(p) == p.busy \/ p.error
Loading(p, ticker) ==
    [Clean(p, 0) EXCEPT !.ticker = ticker, !.busy = TRUE, !.error = FALSE, !.recover = None,
        !.timer = None,
        !.serverText = IF Blank(p) THEN p.serverText ELSE 0,
        !.loads = {[q EXCEPT !.latest = FALSE] : q \in @} \cup {[ticker |-> ticker, latest |-> TRUE, got |-> None]}]

Start(ticker) ==
    Loading([name |-> "notes", ticker |-> ticker, loads |-> {}, busy |-> TRUE, error |-> FALSE,
             text |-> 0, serverText |-> 0, timer |-> None,
             status |-> "idle", recover |-> None, asked |-> {}], ticker)

\* `texts' are those the reader typed for a ticker, or saved under it with the
\* shortcut before it was drawn.  No code keeps them.
Init == \E t \in Tickers :
            /\ page = Start(t)
            /\ srv = [note |-> [x \in Tickers |-> [text |-> 0, at |-> None]],
                      draft |-> [x \in Tickers |-> None], texts |-> [x \in Tickers |-> {0}], clock |-> 0]

Stored(q) == [srv EXCEPT !.note[q.ticker] = [text |-> q.text, at |-> srv.clock]]
Dirty == page.text # page.serverText
\* What the page shows: one of the three; above the editor the line that tells
\* how the text stands, the button that saves, and the draft on offer.
NoteView ==
    [loading |-> page.busy, error |-> ~page.busy /\ page.error, editor |-> ~Blank(page),
     line |-> CASE page.status = "saving" -> "Saving" [] page.status = "failed" -> "Not saved, retry"
                [] Dirty -> "Unsaved" [] page.status = "saved" -> "Saved" [] OTHER -> "Up to date",
     save |-> page.status # "saving" /\ Dirty, warned |-> Dirty, draft |-> page.recover # None]
Shown == Open /\ NoteView.editor

-----------------------------------------------------------------------------
(* Loading.  Only the answer to the latest request is taken; a deadline    *)
(* gives up on it, and what answers later is ignored.                      *)

NoteRead(q) ==
    /\ q.got = None
    /\ To([page EXCEPT !.loads = (@ \ {q}) \cup {[q EXCEPT !.got = srv.note[q.ticker]]}])
Loaded(p, note, draft) ==
    [Clean(p, note.text) EXCEPT !.busy = FALSE,
        !.recover = IF ShouldRecover(draft, note.text, note.at) THEN draft ELSE None]
NoteArrives(q) ==
    /\ q.got # None
    /\ LET p == [page EXCEPT !.loads = @ \ {q}] IN
       To(IF q.latest THEN Loaded(p, q.got, srv.draft[page.ticker]) ELSE p)
\* A failure, or the deadline, after which no answer is the latest.
NoteFails(q) ==
    To(IF q.latest THEN [page EXCEPT !.loads = @ \ {q}, !.busy = FALSE, !.error = TRUE]
       ELSE [page EXCEPT !.loads = @ \ {q}])
LoadRequests == Open /\ \E q \in page.loads : NoteRead(q) \/ NoteArrives(q) \/ NoteFails(q)

LoadRoom == Cardinality(page.loads) < MaxLoads
RetryNote == Open /\ page.error /\ LoadRoom /\ To(Loading(page, page.ticker))

\* The tab dies, or is closed against the warning, and the page is opened
\* again; what it had sent may still be stored.
Reopen ==
    /\ Open /\ page' = Start(page.ticker)
    /\ \/ UNCHANGED srv
       \/ \E q \in page.asked : ~q.done /\ srv' = Stored(q)

-----------------------------------------------------------------------------
(* Editing and saving. *)

\* edit: keep the draft and restart the timer.
Edited(p, value) == [Quiet(p) EXCEPT !.text = value, !.recover = None,
                              !.timer = IF value # p.serverText THEN value ELSE None]
EditTo(value) ==
    /\ srv.clock < MaxText
    /\ page' = Edited(page, value)
    /\ srv' = [srv EXCEPT !.clock = @ + 1, !.texts[page.ticker] = @ \cup {value},
                       !.draft[page.ticker] = SaveDraft(value, page.serverText, srv.clock + 1)]
Type == Shown /\ EditTo(srv.clock + 1)
\* The stamp is an edit too.
TypeBack == Shown /\ Dirty /\ EditTo(page.serverText)
RestoreDraft == Shown /\ NoteView.draft /\ EditTo(page.recover.text)
DiscardDraft ==
    /\ Shown /\ NoteView.draft
    /\ page' = [page EXCEPT !.recover = None]
    /\ srv' = [srv EXCEPT !.draft[page.ticker] = None]

\* save: by the timer, the button (not while saving), the shortcut or the
\* retry.
Saving(p, value) ==
    [p EXCEPT !.timer = None, !.status = "saving",
              !.asked = @ \cup {[ticker |-> p.ticker, text |-> value, done |-> FALSE]}]
Room == Cardinality(page.asked) < MaxSaves
Autosave == Open /\ page.timer # None /\ Room /\ To(Saving(page, page.timer))
SaveNow == Shown /\ (NoteView.save \/ NoteView.line = "Not saved, retry") /\ Room /\ To(Saving(page, page.text))
\* The listener of the shortcut is there whatever is on the screen.
Shortcut == Open /\ Dirty /\ Room /\ To(Saving(page, page.text))

\* Another ticker: the pending autosave is dropped, a save under way is not.
\* Until React has drawn the change the listener still holds the text that was on
\* the screen, and already the new ticker: a press in that moment saves the one
\* under the other.  Such presses are bounded as edits are.
SwitchTicker ==
    /\ Open /\ LoadRoom
    /\ \E t \in Tickers \ {page.ticker} :
          \/ To(Loading(page, t))
          \/ /\ Dirty /\ Room /\ srv.clock < MaxText
             /\ page' = Saving(Loading(page, t), page.text)
             /\ srv' = [srv EXCEPT !.texts[t] = @ \cup {page.text}]

NoteStored(q) ==
    /\ ~q.done
    /\ page' = [page EXCEPT !.asked = (@ \ {q}) \cup {[q EXCEPT !.done = TRUE]}]
    /\ srv' = Stored(q)

\* The answer takes the text that was sent for the one on the server and
\* clears the draft of that ticker, whatever was typed since and whichever
\* ticker is open.
SaveSucceeds(q) ==
    /\ q.done
    /\ page' = [page EXCEPT !.asked = @ \ {q}, !.serverText = q.text,
                            !.status = IF @ = "failed" THEN @ ELSE "saved"]
    /\ srv' = [srv EXCEPT !.draft[q.ticker] = None]
SaveFails(q) == To([page EXCEPT !.asked = @ \ {q}, !.status = "failed"])

SaveRequests == Open /\ \E q \in page.asked : NoteStored(q) \/ SaveSucceeds(q) \/ SaveFails(q)

Next ==
    \/ LoadRequests \/ RetryNote \/ SwitchTicker \/ Reopen
    \/ Type \/ TypeBack \/ RestoreDraft \/ DiscardDraft \/ Autosave \/ SaveNow \/ Shortcut \/ SaveRequests

\* Requests end and timers fire.
Fairness == WF_vars(LoadRequests) /\ WF_vars(Autosave) /\ WF_vars(SaveRequests)

-----------------------------------------------------------------------------
\* The text under a ticker was typed for it, or saved under it by the shortcut
\* before React had drawn it (SwitchTicker): neither an answer to a load of the
\* ticker before, nor a save of its text, nor its timer puts it here
\* (Notes.tsx:33-36, 97-102).
NoteOfTicker ==
    /\ Open => page.text \in srv.texts[page.ticker]
    /\ Open => \A t \in Tickers : srv.note[t].text \in srv.texts[t]

\* What is saved under a ticker is the text of the editor that is on the screen:
\* "a later Save would write it to the wrong ticker" is what the guard is there
\* to prevent (Notes.tsx:33-36).  No run checks this.  The listener of the
\* shortcut (107-116) is live while a note loads and after it failed to: a late
\* answer to a save of the ticker before makes the empty editor "dirty" (72), and
\* the shortcut then empties the note; and until React has drawn the change of
\* ticker it saves the text of the one before.
SavesWhatIsShown ==
    [][Open /\ Cardinality(page'.asked) > Cardinality(page.asked) => Shown /\ page'.ticker = page.ticker]_vars

\* A save that failed leaves the draft (Notes.tsx:66-82).
DraftOutlivesFailure ==
    [][Open => \A t \in Tickers :
          srv.draft[t] # None /\ srv'.draft[t] = None =>
              \/ \E q \in page.asked \ page'.asked : q.ticker = t /\ q.done
              \/ page.ticker = t /\ page'.asked = page.asked]_vars

\* Text that was typed and is not on the server is kept as a draft
\* (Notes.tsx:22-24: "the draft is kept locally the moment it changes,
\* autosaved on a debounce, restorable if the tab died").
UnsavedHasDraft ==
    Shown /\ page.text # 0 /\ page.text # srv.note[page.ticker].text /\ page.text # page.serverText =>
        srv.draft[page.ticker] # None
=============================================================================
