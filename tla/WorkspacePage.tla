--------------------------- MODULE WorkspacePage ----------------------------
(***************************************************************************)
(* The tiling workspace: rows of panes with linked symbols                 *)
(* (lib/workspace.ts, components/workspace/PaneFrame.tsx), and the saved   *)
(* desks (app/workspace/page.tsx).                                         *)
(*                                                                         *)
(* Three pages: "desk" is the arrangement on the screen with every edit of *)
(* it, "grid" the weights of one row, "saving" the list of saved desks,    *)
(* where an arrangement is only a number.                                  *)
(***************************************************************************)
EXTENDS Integers, Sequences, FiniteSets, SequencesExt

CONSTANTS
    MaxRows, MaxPanes, MaxPanesPerRow,  \* limits of the arrangement
    Groups,         \* link groups
    FirstGroup,     \* the one a pane is born in
    Symbols, DefaultSymbol,
    MinWeight,      \* smallest share of a row, in hundredths
    Desks,          \* names of saved desks
    MaxContent,     \* bound: different arrangements
    None

VARIABLES page, srv

vars == <<page, srv>>

Open(name) == page.name = name
To(p) == page' = p /\ UNCHANGED srv

-----------------------------------------------------------------------------
(* The arrangement.  A row is [id, panes]; a pane [id, link, ticker].      *)

AllPanes(ws) == FlattenSeq([i \in DOMAIN ws.rows |-> ws.rows[i].panes])
PaneCount(ws) == Len(AllPanes(ws))
TickerFor(ws, p) == LET t == IF p.link = None THEN p.ticker ELSE ws.groups[p.link]
                    IN  IF t = None THEN DefaultSymbol ELSE t

\* newId: an identifier that nothing on the screen has.
Unused(used) == CHOOSE n \in 1..(Cardinality(used) + 1) : n \notin used
NewPane(ws) == [id |-> Unused({p.id : p \in Range(AllPanes(ws))}), link |-> FirstGroup, ticker |-> None]
NewRow(ws) == [id |-> Unused({r.id : r \in Range(ws.rows)}), panes |-> <<NewPane(ws)>>]

AddPane(ws, i) ==
    IF PaneCount(ws) >= MaxPanes \/ Len(ws.rows[i].panes) >= MaxPanesPerRow THEN ws
    ELSE [ws EXCEPT !.rows[i].panes = Append(@, NewPane(ws))]

\* A row that is left empty goes; the last pane stays.
Without(ws, id) ==
    LET keeps(r) == [r EXCEPT !.panes = SelectSeq(@, LAMBDA p : p.id # id)]
    IN  [ws EXCEPT !.rows = SelectSeq([i \in DOMAIN @ |-> keeps(@[i])], LAMBDA r : r.panes # <<>>)]
RemovePane(ws, id) == IF PaneCount(ws) <= 1 THEN ws ELSE Without(ws, id)

SetPane(ws, id, F(_)) ==
    [ws EXCEPT !.rows = [i \in DOMAIN @ |-> [@[i] EXCEPT !.panes =
        [j \in DOMAIN @ |-> IF @[j].id = id THEN F(@[j]) ELSE @[j]]]]]
PaneOf(ws, id) == CHOOSE p \in Range(AllPanes(ws)) : p.id = id

\* A linked pane writes to its group, an unlinked one to itself.
SetTickerFrom(ws, id, t) ==
    IF PaneOf(ws, id).link = None THEN SetPane(ws, id, LAMBDA p : [p EXCEPT !.ticker = t])
    ELSE [ws EXCEPT !.groups[PaneOf(ws, id).link] = t]

\* What the pane shows goes with it into an empty group, and stays when it
\* leaves one.
SetPaneLink(ws, id, link) ==
    LET current == TickerFor(ws, PaneOf(ws, id))
        next == SetPane(ws, id, LAMBDA p : [p EXCEPT !.link = link])
    IN  IF link = None THEN SetPane(next, id, LAMBDA p : [p EXCEPT !.ticker = current])
        ELSE IF ws.groups[link] # None THEN next ELSE [next EXCEPT !.groups[link] = current]

AddRow(ws) ==
    IF Len(ws.rows) >= MaxRows \/ PaneCount(ws) >= MaxPanes THEN ws
    ELSE [ws EXCEPT !.rows = Append(@, NewRow(ws))]
RemoveRow(ws, i) == IF Len(ws.rows) <= 1 THEN ws ELSE [ws EXCEPT !.rows = RemoveAt(@, i)]
Swapped(s, i, j) == IF j \in DOMAIN s THEN [s EXCEPT ![i] = s[j], ![j] = s[i]] ELSE s
MoveRow(ws, i, d) == [ws EXCEPT !.rows = Swapped(@, i, i + d)]
MovePane(ws, i, j, d) == [ws EXCEPT !.rows[i].panes = Swapped(@, j, j + d)]

\* normalize of what saveCurrent writes: the limits again, an identifier that
\* occurs twice replaced, and a symbol for the first group.
Kept(s, n) == SubSeq(s, 1, IF Len(s) < n THEN Len(s) ELSE n)
Normalize(doc) ==
    LET room(i) == MaxPanes - Len(FlattenSeq([k \in 1..(i - 1) |-> Kept(doc.rows[k].panes, MaxPanesPerRow)]))
        row(i) == [doc.rows[i] EXCEPT !.panes = Kept(Kept(@, MaxPanesPerRow), room(i))]
        rows == Kept([i \in DOMAIN doc.rows |-> row(i)], MaxRows)
    IN  [rows |-> rows,
         groups |-> [doc.groups EXCEPT ![FirstGroup] = IF @ = None THEN DefaultSymbol ELSE @]]

Preset == [rows |-> <<[id |-> 1, panes |-> <<[id |-> 1, link |-> FirstGroup, ticker |-> None]>>]>>,
           groups |-> [g \in Groups |-> IF g = FirstGroup THEN DefaultSymbol ELSE None]]
DeskPage == [name |-> "desk", ws |-> Preset, max |-> None]

\* What the page offers and shows.  A control of a row, of a pane or of the bar
\* is disabled at the limits of the arrangement.
PaneAt(ws, id) == CHOOSE at \in (DOMAIN ws.rows) \X (1..MaxPanesPerRow) :
    at[2] \in DOMAIN ws.rows[at[1]].panes /\ ws.rows[at[1]].panes[at[2]].id = id
CanMovePane(ws, id, d) == PaneAt(ws, id)[2] + d \in DOMAIN ws.rows[PaneAt(ws, id)[1]].panes
CanAddRow(ws) == ~(Len(ws.rows) >= MaxRows \/ PaneCount(ws) >= MaxPanes)
CanAddPane(ws, i) == ~(Len(ws.rows[i].panes) >= MaxPanesPerRow \/ PaneCount(ws) >= MaxPanes)
CanMoveRow(ws, i, d) == IF d = -1 THEN i # 1 ELSE i # Len(ws.rows)
CanRemoveRow(ws) == Len(ws.rows) > 1
Legend(ws) == {g \in Groups : ws.groups[g] # None}
\* The pane that fills the screen, or else every pane of the rows.
Maximized(p) == {x \in Range(AllPanes(p.ws)) : x.id = p.max}
PanesShown(p) == IF Maximized(p) # {} THEN Maximized(p) ELSE Range(AllPanes(p.ws))

Update(ws) == Open("desk") /\ ws # page.ws /\ To([page EXCEPT !.ws = ws])
OnPane(F(_, _)) == Open("desk") /\ \E p \in PanesShown(page) : Update(F(page.ws, p.id))

SetTicker == Open("desk") /\ \E t \in Symbols : OnPane(LAMBDA ws, id : SetTickerFrom(ws, id, t))
SetGroupTicker ==
    /\ Open("desk")
    /\ \E g \in Groups, t \in Symbols :
          g \in Legend(page.ws) /\ Update([page.ws EXCEPT !.groups[g] = t])
SetLink == Open("desk") /\ \E g \in Groups \cup {None} : OnPane(LAMBDA ws, id : SetPaneLink(ws, id, g))
Rearrange ==
    /\ Open("desk")
    /\ \/ CanAddRow(page.ws) /\ Update(AddRow(page.ws))
       \/ \E i \in DOMAIN page.ws.rows :
          /\ Maximized(page) = {}
          /\ \/ CanAddPane(page.ws, i) /\ Update(AddPane(page.ws, i))
             \/ CanRemoveRow(page.ws) /\ Update(RemoveRow(page.ws, i))
             \/ \E d \in {-1, 1} : CanMoveRow(page.ws, i, d) /\ Update(MoveRow(page.ws, i, d))
       \/ \E x \in PanesShown(page), d \in {-1, 1} :
             LET at == PaneAt(page.ws, x.id) IN
             CanMovePane(page.ws, x.id, d) /\ Update(MovePane(page.ws, at[1], at[2], d))

\* A pane that is closed stops being the one that fills the screen; Escape
\* restores it.
ClosePane(id) ==
    /\ Open("desk") /\ id \in {p.id : p \in PanesShown(page)}
    /\ To([page EXCEPT !.ws = RemovePane(@, id), !.max = None])
ToggleMax(id) ==
    /\ Open("desk") /\ id \in {p.id : p \in PanesShown(page)}
    /\ To([page EXCEPT !.max = IF @ = id THEN None ELSE id])
Escape == Open("desk") /\ page.max # None /\ To([page EXCEPT !.max = None])

-----------------------------------------------------------------------------
(* The weights of a row.  A divider moves weight between two neighbours.    *)

Total(split) == FoldLeft(LAMBDA a, b : a + b, 0, split)
Floor(split) == (Total(split) * MinWeight + 99) \div 100
Between(v, lo, hi) == IF v > hi THEN hi ELSE IF v < lo THEN lo ELSE v
ResizeColumn(split, i, delta) ==
    LET pair == split[i] + split[i + 1]
        floor == Floor(split)
        left == Between(split[i] + delta, floor, pair - floor)
    IN  IF pair < 2 * floor THEN split ELSE [split EXCEPT ![i] = left, ![i + 1] = pair - left]

GridPage == [name |-> "grid", split |-> <<4>>]
Drag ==
    /\ Open("grid")
    /\ \E i \in 1..(Len(page.split) - 1), d \in {-5, -1, 1, 5} :
          To([page EXCEPT !.split = ResizeColumn(@, i, d)])
\* A new pane takes the weight of one, a pane that leaves takes its own along.
SplitGrows == Open("grid") /\ Len(page.split) < MaxPanesPerRow /\ To([page EXCEPT !.split = Append(@, 4)])
SplitShrinks ==
    /\ Open("grid") /\ Len(page.split) > 1
    /\ \E i \in DOMAIN page.split : To([page EXCEPT !.split = RemoveAt(@, i)])
SplitSwaps == Open("grid") /\ \E i \in DOMAIN page.split : To([page EXCEPT !.split = Swapped(@, i, i + 1)])
EvenOut == Open("grid") /\ To([page EXCEPT !.split = [i \in DOMAIN @ |-> 4]])

-----------------------------------------------------------------------------
(* Saved desks.  `lists' is what the browser believes is stored, srv what   *)
(* is; a request replaces the whole list.                                   *)

NoDesk == [d \in Desks |-> 0]
SavingPage ==
    [name |-> "saving", content |-> 0, desk |-> None, lists |-> NoDesk, dirty |-> FALSE,
     saving |-> FALSE, saved |-> FALSE, err |-> FALSE, asked |-> {}]

\* The list on mount: the desk last used here, or the research preset.
Restore ==
    /\ Open("saving") /\ page.content = 0
    /\ \/ To([page EXCEPT !.content = 1])
       \/ \E d \in Desks :
             IF srv[d] = 0 THEN srv = NoDesk /\ To([page EXCEPT !.content = 1])
             ELSE To([page EXCEPT !.lists = srv, !.content = srv[d], !.desk = d])

Ready == Open("saving") /\ page.content # 0
EditDesk == Ready /\ page.content < MaxContent /\ To([page EXCEPT !.content = @ + 1, !.dirty = TRUE])

\* The bar: the mark of an unsaved arrangement and the one of a saved one, a
\* tab per saved desk, and the button that saves.
SaveBar(p) ==
    [unsaved |-> p.dirty /\ ~p.saving, saved |-> ~p.dirty /\ p.saved,
     tabs |-> {d \in Desks : p.lists[d] # 0}, save |-> ~p.saving, error |-> p.err]

Ask(p, what, name, list) ==
    [p EXCEPT !.lists = list,
              !.asked = @ \cup {[what |-> what, desk |-> name, list |-> list, done |-> FALSE]}]
SaveCurrent(d) ==
    /\ Ready /\ SaveBar(page).save /\ Cardinality(page.asked) < 2
    /\ To(Ask([page EXCEPT !.saving = TRUE, !.err = FALSE], "save", d, [page.lists EXCEPT ![d] = page.content]))
DeleteLayout(d) ==
    /\ Ready /\ d \in SaveBar(page).tabs /\ Cardinality(page.asked) < 2
    /\ To(Ask(page, "delete", d, [page.lists EXCEPT ![d] = 0]))
OpenLayout(d) ==
    /\ Ready /\ d \in SaveBar(page).tabs
    /\ To([page EXCEPT !.content = page.lists[d], !.desk = d, !.dirty = FALSE])

ListStored(q) ==
    /\ ~q.done /\ srv' = q.list
    /\ page' = [page EXCEPT !.asked = (@ \ {q}) \cup {[q EXCEPT !.done = TRUE]}]
\* Dirty is cleared by the server's answer alone.
SaveAnswersAnyhow(q, ok) ==
    LET p == [page EXCEPT !.asked = @ \ {q}] IN
    To(IF q.what = "delete" THEN [p EXCEPT !.err = @ \/ ~ok]
       ELSE [p EXCEPT !.saving = FALSE, !.dirty = FALSE, !.saved = TRUE, !.desk = q.desk, !.err = ~ok])
SaveAnswers(q, ok) ==
    LET p == [page EXCEPT !.asked = @ \ {q}] IN
    To(IF q.what = "delete" THEN [p EXCEPT !.err = @ \/ ~ok]
       ELSE IF ok THEN [p EXCEPT !.saving = FALSE, !.dirty = FALSE, !.saved = TRUE, !.desk = q.desk]
       ELSE [p EXCEPT !.saving = FALSE, !.err = TRUE])

DeskRequests ==
    /\ Open("saving")
    /\ \E q \in page.asked : ListStored(q) \/ \E ok \in BOOLEAN : (ok => q.done) /\ SaveAnswers(q, ok)

-----------------------------------------------------------------------------
Init ==
    \/ page \in {DeskPage, GridPage} /\ srv = None
    \/ page = SavingPage /\ srv \in {NoDesk, [d \in Desks |-> 1]}

Next ==
    \/ SetTicker \/ SetGroupTicker \/ SetLink \/ Rearrange \/ Escape
    \/ \E id \in 1..MaxPanes : ClosePane(id) \/ ToggleMax(id)
    \/ Drag \/ SplitGrows \/ SplitShrinks \/ SplitSwaps \/ EvenOut
    \/ Restore \/ EditDesk \/ DeskRequests
    \/ \E d \in Desks : SaveCurrent(d) \/ DeleteLayout(d) \/ OpenLayout(d)

Fairness == WF_vars(DeskRequests)

-----------------------------------------------------------------------------
\* However it was arranged, a desk is within the limits, no two panes or rows
\* share an identifier, one pane at most fills the screen, what is saved opens
\* as it was (workspace.ts:340-346, page.tsx:204-227), and a control is offered
\* exactly when the arrangement lets it act (page.tsx:358-443).
DeskSurvives ==
    Open("desk") =>
        LET ws == page.ws IN
        /\ PaneCount(ws) \in 1..MaxPanes /\ Len(ws.rows) \in 1..MaxRows
        /\ \A r \in Range(ws.rows) : Len(r.panes) \in 1..MaxPanesPerRow
        /\ Cardinality({p.id : p \in Range(AllPanes(ws))}) = PaneCount(ws)
        /\ Cardinality({r.id : r \in Range(ws.rows)}) = Len(ws.rows)
        /\ Normalize(ws) = ws
        /\ Cardinality(Maximized(page)) <= 1
        /\ (AddRow(ws) # ws) = CanAddRow(ws)
        /\ \A i \in DOMAIN ws.rows :
              /\ (AddPane(ws, i) # ws) = CanAddPane(ws, i)
              /\ (RemoveRow(ws, i) # ws) = CanRemoveRow(ws)
              /\ \A d \in {-1, 1} : (MoveRow(ws, i, d) # ws) = CanMoveRow(ws, i, d)

\* No pane of a row can be dragged below its smallest share, and a divider
\* moves nothing but its two neighbours (workspace.ts:276-281).
DragKeepsTheRow ==
    [][Open("grid") /\ Drag => /\ Total(page'.split) = Total(page.split)
                               /\ \A i \in DOMAIN page.split :
                                     page'.split[i] < page.split[i] => page'.split[i] >= Floor(page.split)]_vars

\* A pane that is linked to a group of no symbol yet goes on showing what it
\* showed, and so does one that leaves its group (workspace.ts:186-190).
LinkKeepsTheSymbol ==
    [][Open("desk") =>
          \A p \in Range(AllPanes(page.ws)), q \in Range(AllPanes(page'.ws)) :
              p.id = q.id /\ p.link # q.link /\ (q.link = None \/ (q.link # None /\ page.ws.groups[q.link] = None))
                  => TickerFor(page'.ws, q) = TickerFor(page.ws, p)]_vars

\* An arrangement stops being unsaved only when one of that name is stored or
\* a stored one is opened: a save that was refused never reads as saved
\* (page.tsx:206-212).
UnsavedUntilStored ==
    [][Open("saving") /\ page.dirty /\ ~page'.dirty =>
          (\E q \in page.asked : q.done /\ q.what = "save") \/ page.asked = page'.asked]_vars

\* The tick "saved": what is on the screen is what was stored.
SavedIsOnScreen ==
    Open("saving") /\ SaveBar(page).saved => page.desk # None /\ page.content = page.lists[page.desk]

\* A save ends.
SavesEnd == Open("saving") /\ page.saving ~> ~(Open("saving") /\ page.saving)
=============================================================================
