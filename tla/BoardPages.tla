----------------------------- MODULE BoardPages -----------------------------
(***************************************************************************)
(* The dashboard (lib/dashboardLayout.ts, app/page.tsx, TileSection.tsx,   *)
(* SectionPicker.tsx) and the watchlists on it (WatchlistBoard.tsx).       *)
(*                                                                         *)
(* Page "board": the arrangement on the screen; srv is what localStorage   *)
(* holds of it.  Page "watch": one watchlist as the browser last loaded    *)
(* it; srv is the list on the server.                                      *)
(***************************************************************************)
EXTENDS Integers, Sequences, FiniteSets, SequencesExt

CONSTANTS
    Symbols, HomeSymbol,    \* HomeSymbol is what a custom board starts with
    Presets,                \* preset boards; a preset is its own title
    PresetSymbols,          \* [Presets -> sequence of symbols]
    HomePresets,            \* [region -> sequence of presets]
    Unpriced,               \* symbols without a price
    MaxSections, MaxSymbols,
    MaxAsked,               \* bound: requests under way at once
    None

VARIABLES page, srv

vars == <<page, srv>>

Open(name) == page.name = name
To(p) == page' = p /\ UNCHANGED srv

-----------------------------------------------------------------------------
(* The arrangement: a region and sections [id, kind, title, symbols,       *)
(* collapsed].                                                             *)

Boards == {"movers", "watchlists"}
Unused(sections) == CHOOSE n \in 1..(Len(sections) + 1) : \A s \in ToSet(sections) : s.id # n
Section(id, kind, title, symbols) ==
    [id |-> id, kind |-> kind, title |-> title, symbols |-> symbols, collapsed |-> FALSE]

DefaultLayout(region) ==
    LET tiles == [i \in DOMAIN HomePresets[region] |->
                     Section(i, "tiles", HomePresets[region][i], PresetSymbols[HomePresets[region][i]])]
        n == Len(tiles)
    IN  [region |-> region, hide |-> FALSE,
         sections |-> tiles \o <<Section(n + 1, "movers", "movers", <<>>),
                                 Section(n + 2, "watchlists", "watchlists", <<>>)>>]

\* What is made of a stored arrangement: a tile board without a symbol is
\* dropped, and an arrangement without a section is no arrangement.
Normalize(l) ==
    LET worth == SelectSeq(l.sections, LAMBDA s : s.kind # "tiles" \/ s.symbols # <<>>)
        kept == SubSeq(worth, 1, IF Len(worth) < MaxSections THEN Len(worth) ELSE MaxSections)
    IN  IF kept = <<>> THEN None ELSE [l EXCEPT !.sections = kept]

IndexOf(sections, id) == CHOOSE i \in DOMAIN sections : sections[i].id = id
Swapped(s, i, j) == IF j \in DOMAIN s THEN [s EXCEPT ![i] = s[j], ![j] = s[i]] ELSE s
MoveSection(l, id, d) ==
    [l EXCEPT !.sections = Swapped(@, IndexOf(@, id), IndexOf(@, id) + d)]
RemoveSection(l, id) == [l EXCEPT !.sections = SelectSeq(@, LAMBDA s : s.id # id)]

\* A new tile board stands before the first of the other kinds.
AddTilesAtEnd(l, title, symbols) ==
    IF Len(l.sections) >= MaxSections THEN l
    ELSE [l EXCEPT !.sections = Append(@, Section(Unused(@), "tiles", title, symbols))]
AddTiles(l, title, symbols) ==
    LET n == Cardinality({i \in DOMAIN l.sections : \A j \in 1..i : l.sections[j].kind = "tiles"})
    IN  IF Len(l.sections) >= MaxSections THEN l
        ELSE [l EXCEPT !.sections = InsertAt(@, n + 1, Section(Unused(@), "tiles", title, symbols))]
AddBoard(l, kind) ==
    IF Len(l.sections) >= MaxSections \/ \E s \in ToSet(l.sections) : s.kind = kind THEN l
    ELSE [l EXCEPT !.sections = Append(@, Section(Unused(@), kind, kind, <<>>))]

OnSection(l, id, F(_)) == [l EXCEPT !.sections[IndexOf(l.sections, id)] = F(@)]
AddSymbol(l, id, sym) ==
    OnSection(l, id, LAMBDA s :
        IF s.kind # "tiles" \/ sym \in ToSet(s.symbols) \/ Len(s.symbols) >= MaxSymbols THEN s
        ELSE [s EXCEPT !.symbols = Append(@, sym)])
RemoveSymbol(l, id, sym) ==
    OnSection(l, id, LAMBDA s : [s EXCEPT !.symbols = SelectSeq(@, LAMBDA x : x # sym)])
MoveSymbol(l, id, i, d) == OnSection(l, id, LAMBDA s : [s EXCEPT !.symbols = Swapped(@, i, i + d)])

\* What the page asks prices for, and the presets it still offers.
AllSymbols(l) == UNION {ToSet(s.symbols) : s \in {x \in ToSet(l.sections) : x.kind = "tiles"}}
AvailablePresets(l) == Presets \ {s.title : s \in ToSet(l.sections)}
Tiles(l) == SelectSeq(l.sections, LAMBDA s : s.kind = "tiles")
Visible(l, s) == IF l.hide THEN SelectSeq(s.symbols, LAMBDA x : x \notin Unpriced) ELSE s.symbols

\* A tile board on the screen: its arrows, its tiles, how many are hidden, and
\* the line of one that shows none.
TileBoard(p, s) ==
    LET tiles == Tiles(p.layout)
        i == IndexOf(tiles, s.id)
        seen == Visible(p.layout, s)
        line == IF seen # <<>> \/ p.editing THEN "none" ELSE IF s.symbols = <<>> THEN "no instruments" ELSE "unpriced"
    IN  [up |-> p.editing /\ i > 1, down |-> p.editing /\ i < Len(tiles), rename |-> p.editing, remove |-> p.editing,
         add |-> p.editing /\ ~s.collapsed, tiles |-> IF s.collapsed THEN {} ELSE ToSet(seen),
         hidden |-> Len(s.symbols) - Len(seen), line |-> IF s.collapsed THEN "none" ELSE line]
\* A tile: priced by a tick, waiting for one, or without a free source; it is
\* a link unless it can be edited or has no source.
Tile(p, sym, tick) ==
    [price |-> IF tick # None THEN "price" ELSE IF sym \in Unpriced THEN "n/a" ELSE "awaiting tick",
     arrows |-> p.editing, link |-> ~p.editing /\ sym \notin Unpriced]
\* The picker: the presets that are left, a name of one's own, and each other
\* board the dashboard has not.
Picker(l) ==
    [presets |-> AvailablePresets(l), boards |-> {k \in Boards : \A s \in ToSet(l.sections) : s.kind # k}, unavailable |-> Unpriced]
\* The header of the dashboard and its boards: those of tiles, then the others.
Dashboard(p) ==
    [regions |-> DOMAIN HomePresets, reset |-> p.editing, subscribed |-> AllSymbols(p.layout) \ Unpriced,
     boards |-> Tiles(p.layout) \o SelectSeq(p.layout.sections, LAMBDA s : s.kind # "tiles")]

-----------------------------------------------------------------------------
(* The page.                                                               *)

BoardPage(stored, region) ==
    [name |-> "board", editing |-> FALSE,
     layout |-> IF stored # None /\ Normalize(stored) # None THEN Normalize(stored) ELSE DefaultLayout(region)]

\* Every edit is stored at once; one that changes nothing is not.
Update(l) ==
    /\ Open("board") /\ l # page.layout
    /\ page' = [page EXCEPT !.layout = l] /\ srv' = l
Editing == Open("board") /\ page.editing

Edit == Open("board") /\ To([page EXCEPT !.editing = ~@])
Hide == Open("board") /\ Update([page.layout EXCEPT !.hide = ~@])
AddPreset == Open("board") /\ \E p \in Picker(page.layout).presets : Update(AddTiles(page.layout, p, PresetSymbols[p]))
\* A board of one's own opens for editing.
AddCustom ==
    /\ Open("board")
    /\ LET l == AddTiles(page.layout, "custom", <<HomeSymbol>>) IN
       /\ page' = [page EXCEPT !.layout = l, !.editing = TRUE]
       /\ srv' = IF l = page.layout THEN srv ELSE l
AddOther == Open("board") /\ \E k \in Picker(page.layout).boards : Update(AddBoard(page.layout, k))

\* The arrows of a tile board; those of the first and the last are disabled.
Move ==
    /\ Editing
    /\ \E s \in ToSet(Tiles(page.layout)) :
          \/ TileBoard(page, s).up /\ Update(MoveSection(page.layout, s.id, -1))
          \/ TileBoard(page, s).down /\ Update(MoveSection(page.layout, s.id, 1))
RemoveBoard == Editing /\ \E s \in ToSet(page.layout.sections) : Update(RemoveSection(page.layout, s.id))
Rename == Editing /\ \E s \in ToSet(Tiles(page.layout)) :
             Update(OnSection(page.layout, s.id, LAMBDA x : [x EXCEPT !.title = "custom"]))
Collapse == Open("board") /\ \E s \in ToSet(Tiles(page.layout)) :
             Update(OnSection(page.layout, s.id, LAMBDA x : [x EXCEPT !.collapsed = ~@]))

EditSymbols ==
    /\ Editing
    /\ \E s \in {x \in ToSet(Tiles(page.layout)) : TileBoard(page, x).add} :
          \/ \E sym \in Symbols : Update(AddSymbol(page.layout, s.id, sym))
          \/ \E i \in DOMAIN s.symbols :
                /\ s.symbols[i] \in TileBoard(page, s).tiles /\ Tile(page, s.symbols[i], None).arrows
                /\ \/ Update(RemoveSymbol(page.layout, s.id, s.symbols[i]))
                   \/ \E d \in {-1, 1} : Update(MoveSymbol(page.layout, s.id, i, d))

\* Another region, or the default again: both after a confirmation, both
\* stored.
SwitchRegion == Open("board") /\ \E r \in DOMAIN HomePresets : Update(DefaultLayout(r))
Reset == Editing /\ Update(DefaultLayout(page.layout.region))
Reload == Open("board") /\ To(BoardPage(srv, page.layout.region))

-----------------------------------------------------------------------------
(* One watchlist.  An edit sends the whole list, made of the one the       *)
(* browser last loaded; a reload follows an edit that succeeded.           *)

WatchPage(list) ==
    [name |-> "watch", list |-> list, gone |-> FALSE, creating |-> FALSE, busy |-> FALSE, err |-> FALSE, waited |-> TRUE, asked |-> {}]

\* `waited': no two requests were ever under way at once.  The page does not
\* know.
Ask(p, what, list) ==
    [p EXCEPT !.asked = @ \cup {[what |-> what, list |-> list, done |-> FALSE]},
              !.waited = @ /\ p.asked = {}]
CanAsk == Open("watch") /\ Cardinality(page.asked) < MaxAsked
\* What the board shows: a card of the list, or that there is none.
WatchBoard(p) == [card |-> ~p.gone, empty |-> p.gone, error |-> p.err, create |-> ~p.creating]
\* The card: an add field and the button that deletes, once it is edited.
ListCard(p) == [empty |-> p.list = {}, rows |-> p.list, delete |-> ~p.busy]

Mutate(list) == To(Ask([page EXCEPT !.busy = TRUE, !.err = FALSE], "save", list))
EditList ==
    /\ CanAsk /\ WatchBoard(page).card
    /\ \E sym \in Symbols :
          Mutate(IF sym \in page.list THEN page.list \ {sym} ELSE page.list \cup {sym})
Delete == CanAsk /\ WatchBoard(page).card /\ ListCard(page).delete /\ To(Ask(page, "delete", {}))
\* Another list, with a symbol at least.
Create ==
    /\ CanAsk /\ WatchBoard(page).empty /\ WatchBoard(page).create
    /\ \E sym \in Symbols : To(Ask([page EXCEPT !.creating = TRUE, !.err = FALSE], "create", {sym}))
RetryLoad == CanAsk /\ page.err /\ To(Ask(page, "load", {}))

ServerAnswers(q) ==
    /\ ~q.done
    /\ page' = [page EXCEPT !.asked = (@ \ {q}) \cup
                  {[q EXCEPT !.done = TRUE, !.list = IF q.what = "load" /\ srv # None THEN srv ELSE @]}]
    /\ srv' = CASE q.what = "save" /\ srv # None -> q.list
                 [] q.what = "create" -> q.list
                 [] q.what = "delete" -> None
                 [] OTHER -> srv

\* onChanged is `load', and only after a success.
Answers(q, ok) ==
    LET p == [page EXCEPT !.asked = @ \ {q}] IN
    To(CASE q.what = "load" -> IF ~ok THEN [p EXCEPT !.err = TRUE] ELSE [p EXCEPT !.list = q.list, !.gone = srv = None, !.err = FALSE]
         [] q.what = "save" -> IF ok THEN Ask([p EXCEPT !.busy = FALSE], "load", {}) ELSE [p EXCEPT !.busy = FALSE, !.err = TRUE]
         [] q.what = "create" -> IF ok THEN Ask([p EXCEPT !.creating = FALSE], "load", {}) ELSE [p EXCEPT !.creating = FALSE, !.err = TRUE]
         [] OTHER -> IF ok THEN Ask(p, "load", {}) ELSE [p EXCEPT !.err = TRUE])

WatchRequests ==
    /\ Open("watch")
    /\ \E q \in page.asked :
          ServerAnswers(q) \/ \E ok \in BOOLEAN : (ok => q.done) /\ Answers(q, ok)

-----------------------------------------------------------------------------
Init ==
    \/ srv = None /\ \E r \in DOMAIN HomePresets : page = BoardPage(None, r)
    \/ srv \in SUBSET Symbols /\ page = WatchPage(srv)

Next ==
    \/ Edit \/ Hide \/ AddPreset \/ AddCustom \/ AddOther \/ Move \/ RemoveBoard \/ Rename \/ Collapse
    \/ EditSymbols \/ SwitchRegion \/ Reset \/ Reload
    \/ EditList \/ Delete \/ Create \/ RetryLoad \/ WatchRequests

Fairness == WF_vars(WatchRequests)

-----------------------------------------------------------------------------
\* However it was arranged, a dashboard is within its limits, has each of the
\* two other boards once at most and after every tile board (the arrows count
\* tile boards only but swap neighbours, page.tsx:195-206), each arrow that is
\* offered moves the board on the screen, and the dashboard is found again
\* after a reload unless a board of it was emptied (dashboardLayout.ts:100-138).
BoardHolds ==
    Open("board") =>
        LET l == page.layout
            s == l.sections
        IN  /\ Len(s) <= MaxSections
            /\ \A i, j \in DOMAIN s : i < j =>
                  /\ s[i].id # s[j].id
                  /\ s[i].kind = s[j].kind => s[i].kind = "tiles"
                  /\ s[j].kind = "tiles" => s[i].kind = "tiles"
            /\ \A x \in ToSet(s) : IsInjective(x.symbols) /\ Len(x.symbols) <= MaxSymbols
            /\ Dashboard(page).boards = s
            /\ \A x \in ToSet(Tiles(l)) : TileBoard(page, x).up \/ TileBoard(page, x).down =>
                  \E d \in {-1, 1} : ToSet(Tiles(MoveSection(l, x.id, d))) = ToSet(Tiles(l)) /\ Tiles(MoveSection(l, x.id, d)) # Tiles(l)
            /\ (s # <<>> /\ \A x \in ToSet(Tiles(l)) : x.symbols # <<>>) => Normalize(l) = l

\* A reader who waits for each request before the next sees the list the
\* server holds, unless the page says that something failed
\* (WatchlistBoard.tsx:78-92, 146-150).
ListIsCurrent ==
    Open("watch") /\ page.waited /\ page.asked = {} /\ ~page.err =>
        IF srv = None THEN page.gone ELSE page.list = srv
=============================================================================
