--------------------------- MODULE PortfolioPage ----------------------------
(***************************************************************************)
(* The page of the portfolios (app/portfolio/page.tsx) and the stress test *)
(* below it (StressTest.tsx).  The figures are in PortfolioData; here is   *)
(* which portfolio is chosen, of which one the figures are, and what is    *)
(* sent to the server.                                                     *)
(*                                                                         *)
(* srv are the portfolios on the server, in order; their positions are left *)
(* out.  `page.asked' are the requests under way, `page.poll'    *)
(* and `page.history' the two that are repeated: the summary (useLive,     *)
(* DataHooks) and the history.                                             *)
(***************************************************************************)
EXTENDS Integers, Sequences, FiniteSets, SequencesExt

CONSTANTS
    Ids,            \* portfolios, of which FirstId is there from the start
    FirstId,
    Files,          \* CSV files: how many of their rows parse
    Benchmarks, FirstBenchmark,
    Books,          \* what the stress test is held against, {} for nothing
    MaxAsked,       \* bound: requests under way at once
    None

VARIABLES page, srv

vars == <<page, srv>>

Open(name) == page.name = name
To(p) == page' = p /\ UNCHANGED srv
Room == Cardinality(page.asked) < MaxAsked
Ask(p, q) == [p EXCEPT !.asked = @ \cup {q}]
Answered(q) == [page EXCEPT !.asked = @ \ {q}]
Waiting(op) == {q \in page.asked : q.op = op}

\* The portfolio a request means: none given is the first.
Meant(pid) == IF pid = None THEN srv[1] ELSE pid
Known(pid) == Meant(pid) \in Range(srv)

-----------------------------------------------------------------------------
(* The choice.  A list that comes without it falls back to its first; the  *)
(* history is asked for again, the summary too unless one is under way.    *)

Refresh(p) == IF p.poll = None THEN [p EXCEPT !.poll = [pid |-> p.pid]] ELSE p
\* The effect on pid and on every reload: the request before no longer counts.
AskHistory(p) == [p EXCEPT !.wanted = [pid |-> p.pid]]
Choose(p, pid) ==
    IF pid = p.pid THEN p
    ELSE Refresh(AskHistory([p EXCEPT !.pid = pid, !.stored = IF pid = None THEN @ ELSE pid, !.data = None]))
ReloadPortfolios(p) == Ask(p, [op |-> "list", list |-> srv])
ReloadAll(p) == ReloadPortfolios(Refresh(AskHistory(p)))
BookPage(stored) ==
    Refresh(AskHistory(
        [name |-> "book", pid |-> stored, stored |-> stored, portfolios |-> <<>>, data |-> None, poll |-> None, history |-> None,
         wanted |-> None, csv |-> None,
         asked |-> {[op |-> "list", list |-> srv]}]))

FallBack(p, list) ==
    IF list = <<>> \/ p.pid \in Range(list) THEN [p EXCEPT !.portfolios = list]
    ELSE Choose([p EXCEPT !.portfolios = list], list[1])
\* The list as it was when it was asked for, or as it is now.
ListAnswers(q) ==
    /\ Open("book") /\ q \in Waiting("list")
    /\ (\E list \in {q.list, srv} : To(FallBack(Answered(q), list))) \/ To(Answered(q))
Pick(id) == Open("book") /\ id \in Range(page.portfolios) /\ To(Choose(page, id))
Tick == Open("book") /\ page.poll = None /\ To(Refresh(page))
SummaryAnswers ==
    /\ Open("book") /\ page.poll # None
    /\ \/ Known(page.poll.pid) /\ To([page EXCEPT !.data = Meant(page.poll.pid), !.poll = None])
       \/ To([page EXCEPT !.poll = None])
HistoryAnswers ==
    /\ Open("book") /\ page.wanted # None
    /\ \/ Known(page.wanted.pid) /\ To([page EXCEPT !.history = page.wanted, !.wanted = None])
       \/ To([page EXCEPT !.history = None, !.wanted = None])

-----------------------------------------------------------------------------
(* What is sent.  A request that fails may have been done or not; a button *)
(* stays enabled while what it sent is under way.  The messages are left   *)
(* out, and what the form refuses to send.                                 *)

CreatePortfolio(id) ==
    /\ Open("book") /\ Room /\ id \notin Range(srv) \cup {q.id : q \in Waiting("create")}
    /\ To(Ask(page, [op |-> "create", id |-> id]))
CreateAnswers(q) ==
    /\ Open("book") /\ q \in Waiting("create")
    /\ \/ /\ srv' = Append(srv, q.id)
          /\ \/ LET p == [Answered(q) EXCEPT !.pid = q.id, !.stored = q.id, !.data = None] IN
                page' = Ask(Refresh(AskHistory(p)), [op |-> "list", list |-> srv'])
             \/ page' = Answered(q)
       \/ To(Answered(q))
\* Deleting the one that is chosen leaves none chosen until a list comes; the
\* server drops the one with that id, of which there is one.
DeletePortfolio(id) ==
    /\ Open("book") /\ Room /\ id \in Range(page.portfolios)
    /\ To(Ask(page, [op |-> "delete", id |-> id, chosen |-> page.pid = id]))
DeleteAnswers(q) ==
    /\ Open("book") /\ q \in Waiting("delete")
    /\ \/ /\ Len(srv) > 1 /\ \E i \in DOMAIN srv : srv[i] = q.id /\ srv' = RemoveAt(srv, i)
          /\ \/ LET p == IF q.chosen THEN Choose(Answered(q), None) ELSE Answered(q) IN
                page' = Ask(p, [op |-> "list", list |-> srv'])
             \/ page' = Answered(q)
       \/ To(Answered(q))
\* An added, closed or imported position: the request and its answer.
PositionsSent(q) ==
    /\ Open("book") /\ q \in page.asked /\ q.op \in {"add", "close", "import"}
    /\ \/ LET p == ReloadAll(Answered(q)) IN
          Known(q.pid) /\ To(IF q.op = "import" THEN [p EXCEPT !.csv = None] ELSE p)
       \/ To(Answered(q))
\* With a ticker, a positive quantity and a cost; with no price or a valid one.
Add == Open("book") /\ Room /\ To(Ask(page, [op |-> "add", pid |-> page.pid]))
Close ==
    /\ Open("book") /\ Room /\ page.data # None
    /\ To(Ask(page, [op |-> "close", pid |-> page.pid]))
ChooseFile(f) == Open("book") /\ Room /\ To(Ask(page, [op |-> "read", file |-> f]))
FileRead(q) == Open("book") /\ q \in Waiting("read") /\ To([Answered(q) EXCEPT !.csv = [rows |-> q.file]])
ConfirmImport ==
    /\ Open("book") /\ Room /\ page.csv # None /\ page.csv.rows > 0
    /\ To(Ask(page, [op |-> "import", pid |-> page.pid]))
CancelImport == Open("book") /\ page.csv # None /\ To([page EXCEPT !.csv = None])

BookNext ==
    \/ \E id \in Ids : Pick(id) \/ CreatePortfolio(id) \/ DeletePortfolio(id)
    \/ Open("book") /\ (\E q \in page.asked : \/ ListAnswers(q) \/ CreateAnswers(q) \/ DeleteAnswers(q)
                                              \/ FileRead(q) \/ PositionsSent(q))
    \/ Add \/ Close
    \/ \E f \in Files : ChooseFile(f)
    \/ ConfirmImport \/ CancelImport \/ Tick \/ SummaryAnswers \/ HistoryAnswers

\* What is on the page: the figures and the tables below them, the history and
\* its chart, the preview of a file.
BookView ==
    [figures |-> page.data, history |-> page.history # None, preview |-> page.csv # None,
     current |-> {i \in DOMAIN page.portfolios : page.portfolios[i] = page.pid}]

-----------------------------------------------------------------------------
(* The stress test of a book: the histories of its holdings and of a       *)
(* benchmark, asked for when it is opened and when one of them changes.    *)

Load(p) ==
    IF ~p.open \/ p.book = {} THEN p
    ELSE [p EXCEPT !.latest = @ + 1, !.busy = TRUE, !.error = FALSE,
                   !.asked = @ \cup {[n |-> p.latest + 1, bench |-> p.bench, book |-> p.book]}]
StressPage(book) ==
    [name |-> "stress", open |-> FALSE, book |-> book, bench |-> FirstBenchmark, busy |-> FALSE, error |-> FALSE, latest |-> 0,
     series |-> None, asked |-> {}]
Hidden == page.book = {}
OpenStress == Open("stress") /\ ~Hidden /\ ~page.open /\ Room /\ page.latest < 2 * MaxAsked /\ To(Load([page EXCEPT !.open = TRUE]))
CloseStress == Open("stress") /\ ~Hidden /\ page.open /\ To([page EXCEPT !.open = FALSE])
SetBench(b) ==
    /\ Open("stress") /\ ~Hidden /\ page.open /\ b # page.bench /\ Room /\ page.latest < 2 * MaxAsked
    /\ To(Load([page EXCEPT !.bench = b]))
RetryLoad == Open("stress") /\ ~Hidden /\ page.open /\ page.error /\ Room /\ page.latest < 2 * MaxAsked /\ To(Load(page))
\* The holdings change with the prices: which are the largest, and in which order.
HoldingsChange(book) ==
    /\ Open("stress") /\ book # page.book /\ Room /\ page.latest < 2 * MaxAsked
    /\ To(Load([page EXCEPT !.book = book]))
SeriesAnswer(q) ==
    /\ Open("stress") /\ q \in page.asked
    /\ IF q.n # page.latest THEN To(Answered(q))
       ELSE \/ To([Answered(q) EXCEPT !.series = [bench |-> q.bench, book |-> q.book], !.busy = FALSE])
            \/ To([Answered(q) EXCEPT !.series = None, !.error = TRUE, !.busy = FALSE])
StressView == ~Hidden /\ page.open /\ ~page.busy /\ ~page.error /\ page.series # None
StressNext ==
    \/ OpenStress \/ CloseStress \/ RetryLoad
    \/ \E b \in Benchmarks : SetBench(b)
    \/ \E book \in Books : HoldingsChange(book)
    \/ Open("stress") /\ \E q \in page.asked : SeriesAnswer(q)

-----------------------------------------------------------------------------
Init ==
    /\ srv = <<FirstId>>
    /\ \/ \E stored \in Ids \cup {None} : page = BookPage(stored)
       \/ \E book \in Books : page = StressPage(book)
Next == BookNext \/ StressNext
Spec == Init /\ [][Next]_vars
Fairness ==
    /\ WF_vars(HistoryAnswers) /\ WF_vars(SummaryAnswers)
    /\ WF_vars(Open("stress") /\ \E q \in page.asked : q.n = page.latest /\ SeriesAnswer(q))

\* When no history is waited for, the one on the page is of the portfolio that
\* is chosen, however often it was changed meanwhile (app/portfolio/page.tsx:252-258).
HistoryOfChosen ==
    Open("book") /\ page.wanted = None /\ page.history # None => page.history.pid = page.pid

\* A portfolio that is chosen is the one the page starts with next time, and no
\* two portfolios are marked as chosen (app/portfolio/page.tsx:227-243).
ChosenIsRemembered ==
    Open("book") => (page.pid # None => page.stored = page.pid) /\ Cardinality(BookView.current) <= 1

\* The impact that is shown is of the benchmark that is named above it and of
\* the holdings of the book (StressTest.tsx:85-112).
StressOfBook ==
    Open("stress") /\ StressView => page.series = [bench |-> page.bench, book |-> page.book]

\* The spinner of the stress test and the wait for a summary end.
PagesSettle ==
    /\ (Open("stress") /\ page.busy) ~> (Open("stress") => ~page.busy)
    /\ (Open("book") /\ page.poll # None) ~> (Open("book") => page.poll = None)

\* "If the stored pid no longer exists, fall back to the first portfolio"
\* (app/portfolio/page.tsx:238): the page turns to another portfolio by itself
\* only when the one that was chosen does not exist.
FallsBackWhenGone ==
    [][Open("book") /\ page'.portfolios # page.portfolios /\ page.pid # None /\ page'.pid # page.pid
           => page.pid \notin Range(srv)]_vars
=============================================================================
