---------------------------- MODULE MCBrowserLive ----------------------------
(***************************************************************************)
(* What the browser waits for: the session of a tab (BrowserSession), and  *)
(* beside it one page at a time (Browser) that has asked for something.    *)
(* MCBrowser has the working pages without fairness and with more of their *)
(* steps at once.                                                          *)
(***************************************************************************)
EXTENDS BrowserSession, Browser, TLC

CONSTANT t1

\* What the constants that are functions or sequences are.
Bounds == [lists |-> 2, map |-> 3, board |-> 0, hook |-> 2, terminal |-> 2, research |-> 2, alert |-> 1, folio |-> 1]
Stamps == [research |-> 2, alert |-> 0]
Delays == [live |-> 1, reconnecting |-> 2]
Rail == <<"DES">>
NoPresets == <<>>

liveVars == <<vars, page, srv>>

\* Either the session runs, with no page of these open, or one of them is open
\* on a tab that is signed out and stays so: of the map, the workspace and the
\* terminal those that wait for something.
NoPage == page = [name |-> "none"] /\ srv = None
Waiting ==
    OpenIn(SignInNames \cup ListNames \cup {"map", "saving", "palette"} \cup HookPages \cup ResearchNames
           \cup AlertNames \cup FolioNames)

LiveInit == Init /\ (NoPage \/ (PagesInit /\ Waiting))
LiveNext ==
    \/ NoPage /\ Next /\ UNCHANGED <<page, srv>>
    \/ PagesNext /\ UNCHANGED vars

LiveSpec == LiveInit /\ [][LiveNext]_liveVars
FairLiveSpec ==
    LiveSpec /\ Fairness /\ SignIn!Fairness /\ Lists!Fairness
             /\ Hook!Fairness /\ Map!Fairness /\ Desk!Fairness /\ Terminal!Fairness
             /\ Research!Fairness /\ Alert!Fairness /\ Folio!Fairness

\* Whatever the browser asked for, it stops waiting: a request of the session,
\* the sign-in and the account pages, a panel, a map, a saved desk, a question,
\* a chain, a backtest, a screen, a message to the server; and a poll goes on.
NothingStaysBusy ==
    /\ EveryRequestEnds
    /\ SignIn!Settles /\ Lists!Settles
    /\ Hook!PanelEnds /\ Hook!PollGoesOn
    /\ Map!MapArrives /\ Desk!SavesEnd /\ Terminal!QuestionsEnd
    /\ Research!PagesSettle /\ Alert!PagesSettle /\ Folio!PagesSettle

\* What was shown as lost is found again: the shell without a network, the
\* badge of the stream.
Recovers == OfflineRecovers /\ Hook!BadgeTells
=============================================================================
