---------------------------- MODULE PageActions ----------------------------
(***************************************************************************)
(* The page actions that decide which page a workflow works on: go_to_url,  *)
(* go_back and click_element with its three ways of clicking and its search *)
(* for a popup (registry/actions/playwright.py). Every await is a step, and *)
(* between two steps the site opens and closes pages of the same browser    *)
(* context. What an action does to the fields of a page is in FieldActions.  *)
(***************************************************************************)
EXTENDS Naturals, FiniteSetsExt

CONSTANTS
  Calls,     \* the actions the executor may call
  MaxCalls,  \* bound: actions called
  MaxPages   \* bound: pages ever opened in the browser context

ASSUME PageAssumption ==
  /\ Calls \subseteq {"click_element", "go_to_url", "new_tab", "go_back"}
  /\ MaxCalls \in Nat
  /\ MaxPages \in Nat \ {0}

Pages == 1..MaxPages

VARIABLES
  pages,     \* page.context.pages: the open pages, numbered in the order they opened
  opened,    \* pages opened so far; the next one is opened + 1
  ctxPage,   \* "page" in the context of the action registry
  calls,     \* actions called
  call,      \* the action that runs
  pc,        \* the await it stands at
  page,      \* its local variable page
  attempt,   \* click_element: 1 locator.click, 2 js-click, 3 coordinate-click
  initial,   \* initial_pages of _run_click_and_wait
  popup,     \* popup_future, then popup_page (0 for none); the tab go_to_url opens
  report,    \* what the last action returned
  reached,   \* history: clicks of this call that had their effect on the page
  adopted    \* history: popups the context was moved to

vars == <<pages, opened, ctxPage, calls, call, pc, page, attempt, initial, popup,
          report, reached, adopted>>
world == <<pages, opened>>
click == <<attempt, initial, popup, reached>>

NoReport == [kind |-> "none", call |-> "none", new_tab |-> FALSE, page |-> 0]
Returned(new_tab, p) ==
  [kind |-> "returned", call |-> call, new_tab |-> new_tab, page |-> p]
Raised == [kind |-> "raised", call |-> call, new_tab |-> FALSE, page |-> page]

Init ==
  /\ pages = {1} /\ opened = 1
  /\ ctxPage = 1
  /\ calls = 0 /\ call = "none" /\ pc = "idle"
  /\ page = 1
  /\ attempt = 1 /\ initial = {} /\ popup = 0
  /\ report = NoReport
  /\ reached = 0 /\ adopted = {}

Open(p) == p \in pages

End(result) == report' = result /\ pc' = "idle"
-----------------------------------------------------------------------------
\* The site opens a page; the listener of a click that is under way hears it.
SiteOpens ==
  /\ opened < MaxPages
  /\ opened' = opened + 1
  /\ pages' = pages \cup {opened'}
  /\ popup' = IF pc = "clicking" /\ popup = 0 THEN opened' ELSE popup
  /\ UNCHANGED <<ctxPage, calls, call, pc, page, attempt, initial, report, reached,
                 adopted>>

SiteCloses ==
  /\ \E p \in pages : pages' = pages \ {p}
  /\ UNCHANGED <<opened, ctxPage, calls, call, pc, page, click, report, adopted>>
-----------------------------------------------------------------------------
\* The registry injects its context; _require_page takes the page out of it,
\* open or not.
Start ==
  /\ pc = "idle" /\ calls < MaxCalls
  /\ \E c \in Calls :
       /\ call' = c
       /\ pc' = IF c = "click_element" THEN "locate"
                ELSE IF c = "new_tab" THEN "new_page" ELSE "goto"
  /\ calls' = calls + 1
  /\ page' = ctxPage
  /\ attempt' = 1 /\ reached' = 0
  /\ UNCHANGED <<world, ctxPage, initial, popup, report, adopted>>

\* Playwright raises, at an await whose errors are not swallowed.
Fails ==
  /\ pc \in {"locate", "new_page", "goto", "goto_tab"}
  /\ End(Raised)
  /\ UNCHANGED <<world, ctxPage, calls, call, page, click, adopted>>

\* page.goto or page.go_back, and _wait_after_action
Goto ==
  /\ pc = "goto" /\ Open(page)
  /\ End(Returned(FALSE, page))
  /\ UNCHANGED <<world, ctxPage, calls, call, page, click, adopted>>

\* Mutant: the new tab becomes the page of the context before it has loaded.
NewPageAdopts ==
  /\ pc = "new_page" /\ opened < MaxPages
  /\ opened' = opened + 1
  /\ pages' = pages \cup {opened'}
  /\ popup' = opened'
  /\ ctxPage' = opened'
  /\ pc' = "goto_tab"
  /\ UNCHANGED <<calls, call, page, attempt, initial, reached, report, adopted>>

\* browser_context.new_page() of go_to_url
NewPage ==
  /\ pc = "new_page" /\ opened < MaxPages
  /\ opened' = opened + 1
  /\ pages' = pages \cup {opened'}
  /\ popup' = opened'
  /\ pc' = "goto_tab"
  /\ UNCHANGED <<ctxPage, calls, call, page, attempt, initial, reached, report,
                 adopted>>

\* The tab has loaded; its index is looked up, and ctx.page is left as it was.
NewTabDone ==
  /\ pc = "goto_tab" /\ Open(popup)
  /\ End(Returned(TRUE, popup))
  /\ UNCHANGED <<world, ctxPage, calls, call, page, click, adopted>>
-----------------------------------------------------------------------------
\* The selector matched and the locator was prepared.
Located ==
  /\ pc = "locate" /\ Open(page)
  /\ pc' = "attempt"
  /\ UNCHANGED <<world, ctxPage, calls, call, page, click, report, adopted>>

\* The next way to click, or the ActionError after the last.
NextAttempt ==
  IF attempt < 3 THEN /\ attempt' = attempt + 1 /\ pc' = "attempt"
                      /\ UNCHANGED report
  ELSE End(Raised) /\ UNCHANGED attempt

\* Mutant: a handle that is gone is not noticed.
NoTargetReported ==
  /\ pc = "attempt" /\ attempt > 1
  /\ End(Returned(FALSE, page))
  /\ UNCHANGED <<world, ctxPage, calls, call, page, click, adopted>>

\* The handle is gone or the element has no box: no click is made.
NoTarget ==
  /\ pc = "attempt" /\ attempt > 1
  /\ NextAttempt
  /\ UNCHANGED <<world, ctxPage, calls, call, page, initial, popup, reached, adopted>>

\* _run_click_and_wait remembers the pages and listens while it clicks.
BeginClick ==
  /\ pc = "attempt"
  /\ initial' = pages
  /\ popup' = 0
  /\ pc' = "clicking"
  /\ UNCHANGED <<world, ctxPage, calls, call, page, attempt, report, reached, adopted>>

\* click_func raises, with or without having clicked; what the listener heard
\* is forgotten with it.
ClickRaises ==
  /\ pc = "clicking"
  /\ reached' \in {reached, reached + 1}
  /\ NextAttempt
  /\ UNCHANGED <<world, ctxPage, calls, call, page, initial, popup, adopted>>

\* click_func returned and the listener is gone; asyncio.sleep(0).
ClickReturns ==
  /\ pc = "clicking" /\ Open(page)
  /\ reached' = reached + 1
  /\ pc' = "clicked"
  /\ UNCHANGED <<world, ctxPage, calls, call, page, attempt, initial, popup, report,
                 adopted>>

\* Mutant: the last page is the popup, whenever it opened.
FoundPopupLast == IF popup # 0 THEN popup ELSE IF pages = {} THEN 0 ELSE Max(pages)

\* The page the listener heard of, else the last one that was not there before.
FoundPopup ==
  IF popup # 0 THEN popup
  ELSE IF pages \subseteq initial THEN 0 ELSE Max(pages \ initial)

\* Then the popup, or the page itself, is given time to load.
LookForPopup ==
  /\ pc = "clicked"
  /\ popup' = FoundPopup
  /\ pc' = IF popup' = 0 THEN "loading" ELSE "popup_loading"
  /\ UNCHANGED <<world, ctxPage, calls, call, page, attempt, initial, report, reached,
                 adopted>>

\* No popup: wait_for_load_state, whose errors are swallowed.
Loaded ==
  /\ pc = "loading"
  /\ End(Returned(FALSE, page))
  /\ UNCHANGED <<world, ctxPage, calls, call, page, click, adopted>>

\* The context moves to the popup before its index is looked up: when it closed
\* while it was loading, the ValueError sends click_element to its next attempt,
\* on the page it started with.
Adopt ==
  /\ pc = "popup_loading"
  /\ ctxPage' = popup
  /\ adopted' = adopted \cup {popup}
  /\ IF Open(popup) THEN End(Returned(TRUE, popup)) /\ UNCHANGED attempt
     ELSE NextAttempt
  /\ UNCHANGED <<world, calls, call, page, initial, popup, reached>>
-----------------------------------------------------------------------------
Run ==
  \/ Start \/ Fails \/ Goto \/ NewPage \/ NewTabDone
  \/ Located \/ NoTarget \/ BeginClick \/ ClickRaises \/ ClickReturns
  \/ LookForPopup \/ Loaded \/ Adopt

Next == Run \/ SiteOpens \/ SiteCloses

Spec == Init /\ [][Next]_vars /\ WF_vars(Run)
-----------------------------------------------------------------------------
(* Properties *)

Awaits == {"idle", "locate", "goto", "new_page", "goto_tab", "attempt", "clicking",
           "clicked", "loading", "popup_loading"}

\* Page variables name pages that were opened, and a call clicks at most once per
\* attempt.
TypeOk ==
  /\ opened \in Pages
  /\ {ctxPage, page} \cup pages \cup initial \cup adopted \subseteq 1..opened
  /\ popup \in 0..opened
  /\ calls \in 0..MaxCalls /\ call \in Calls \cup {"none"}
  /\ pc \in Awaits
  /\ attempt \in 1..3 /\ reached \in 0..attempt
  /\ report \in [kind : {"none", "returned", "raised"}, call : Calls \cup {"none"},
                 new_tab : BOOLEAN, page : 0..opened]

ClickReported ==
  pc = "idle" /\ report.kind = "returned" /\ report.call = "click_element"

\* Clicking says "new_tab" only of a page that opened after the attempt that
\* worked had begun, and then the workflow goes on with that page: a page that was
\* there before is never taken for a popup.
PopupIsNew ==
  ClickReported /\ report.new_tab =>
    /\ ctxPage = report.page
    /\ report.page \notin initial /\ report.page # page

\* Between two actions an open page is what the context holds only if the
\* workflow started with it or a click reported it: neither a click that failed
\* nor a navigation moves the workflow to another live page.
OnlyReportedPagesAreAdopted ==
  pc = "idle" /\ Open(ctxPage) /\ calls > 0 =>
    IF report.call = "click_element" /\ report.new_tab
    THEN ctxPage = report.page
    ELSE ctxPage = page

\* A click that is reported was made, on the page the action began with; when it
\* was made by a later attempt, each earlier one may have been made too, but never
\* more than one each.
ReportedClicksHappened ==
  ClickReported => reached \in 1..attempt

\* The context changes only to a page that opened while click_element was
\* running, and a new one only after the click had its effect ("ctx.page =
\* popup_page").
ContextMovesByClicks ==
  [][ctxPage' # ctxPage =>
       call = "click_element" /\ reached > 0 /\ ctxPage' \notin initial]_vars
=============================================================================
