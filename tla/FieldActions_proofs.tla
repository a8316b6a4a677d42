------------------------- MODULE FieldActions_proofs -------------------------
(***************************************************************************)
(* The page actions for any number of calls, pages, characters and          *)
(* containers: which page the context holds, what a click reports, what a    *)
(* field holds, and how often an effect happened.                           *)
(***************************************************************************)
EXTENDS FieldActions, FiniteSetTheorems, WellFoundedInduction, TLAPS

\* Which action stands at an await.
CallOk ==
  /\ pc \in {"locate", "attempt", "clicking", "clicked", "loading", "popup_loading"}
       => call = "click_element"
  /\ pc \in {"goto", "new_page", "goto_tab"} => call # "click_element"

\* A popup, found or heard of, opened after the click had begun.
PopupOk ==
  /\ pc \in {"clicking", "clicked"} => /\ page \notin pages \ initial
                                       /\ popup \notin initial /\ popup # page
  /\ pc = "popup_loading" => popup # 0 /\ popup \notin initial /\ popup # page

\* Clicks made by the attempts so far.
ReachedOk ==
  /\ pc = "locate" => reached = 0
  /\ pc \in {"attempt", "clicking"} => reached < attempt
  /\ pc \in {"clicked", "loading", "popup_loading"} => reached # 0

\* The context holds the page of the action, a popup that was reported, or one that
\* closed before it could be.
ContextOk ==
  IF pc = "idle" /\ report.call = "click_element" /\ report.new_tab
  THEN ctxPage = report.page
  ELSE ctxPage = page \/ ~Open(ctxPage)

PageInv ==
  /\ TypeOk /\ CallOk /\ PopupOk /\ ReachedOk /\ ContextOk
  /\ PopupIsNew /\ ReportedClicksHappened

\* s is what is left of the first n elements of t without some of them.
PlacedIn(s, t, n) ==
  \E place \in [1..Len(s) -> 1..n] :
    /\ \A k \in 1..Len(s) : s[k] = t[place[k]]
    /\ \A j, k \in 1..Len(s) : j < k => place[j] < place[k]

\* What a field that was cleared holds: of what was typed so far, in its order, what
\* found the focus there; all of it if the focus was never moved.
ContentOk ==
  doing = "input_text" /\ cleared =>
    /\ way \in {1, 3}
    /\ content \in Seq(ToSet(Text)) /\ PlacedIn(content, Text, typed)
    /\ ~stolen => /\ focused /\ Len(content) = typed
                  /\ \A k \in 1..Len(content) : content[k] = Text[k]

\* What happened so far is what ways did that raised afterwards.
EffectsOk ==
  /\ doing \in {"input_text", "wait", "assert_media_playing", "scroll"} => effects = 0
  /\ doing \in {"select_dropdown_option", "scroll_to_text"} => effects = late
  /\ doing = "send_keys" => effects = 0 \/ way = 2
  /\ effects = 0 => late = 0

FieldInv ==
  /\ FieldTypeOk /\ ContentOk /\ EffectsOk
  /\ doing # "none" => pc = "idle"
  /\ EnteredTextIsExact /\ EffectsAreAccountedFor

IInv == PageInv /\ FieldInv
-----------------------------------------------------------------------------
\* A set of numbers up to a bound that is not empty has a greatest element.
LEMMA MaxIsIn ==
  ASSUME NEW n \in Nat, NEW S \in SUBSET (1..n), S # {}
  PROVE  Max(S) \in S
  <1> DEFINE T == {n - p : p \in S}
  <1>1. \A p \in S : p \in Nat /\ n - p \in Nat
    OBVIOUS
  <1>2. T \subseteq Nat /\ T # {}
    BY <1>1, Zenon
  <1>3. PICK m \in T : \A k \in T : ~(<<k, m>> \in OpToRel(<, Nat))
    <2> HIDE DEF T
    <2> QED
      BY <1>2, NatLessThanWellFounded, WFMin
  <1>4. \A k \in T : ~(k < m)
    BY <1>2, <1>3, Zenon DEF OpToRel
  <1>5. PICK p \in S : m = n - p
    BY <1>3, Zenon
  <1>6. \A q \in S : p >= q
    <2> TAKE q \in S
    <2>1. n - q \in T
      BY Zenon
    <2>2. ~(n - q < n - p)
      BY <1>4, <1>5, <2>1, Zenon
    <2> QED
      BY <1>1, <2>2
  <1> QED
    BY <1>5, <1>6 DEF Max

\* The popup looked for is a page that was not there before the click.
LEMMA FoundIsNew ==
  ASSUME TypeOk, PopupOk, pc = "clicked", FoundPopup # 0
  PROVE  /\ FoundPopup \in 1..opened
         /\ FoundPopup \notin initial /\ FoundPopup # page
  <1>1. CASE popup # 0
    BY <1>1 DEF FoundPopup, TypeOk, PopupOk
  <1>2. CASE popup = 0
    <2> DEFINE new == pages \ initial
    <2>1. new \in SUBSET (1..opened) /\ opened \in Nat
      BY DEF TypeOk, Pages
    <2>2. new # {} /\ FoundPopup = Max(new)
      BY <1>2 DEF FoundPopup
    <2>3. FoundPopup \in new
      BY <2>1, <2>2, MaxIsIn
    <2> QED
      BY <2>1, <2>3 DEF PopupOk
  <1> QED
    BY <1>1, <1>2

Reports == [kind : {"none", "returned", "raised"}, call : Calls \cup {"none"},
            new_tab : BOOLEAN, page : 0..opened]

\* What an action returns or raises is of the type of reports.
LEMMA ReportType ==
  ASSUME TypeOk
  PROVE  /\ Raised \in Reports
         /\ \A tab \in BOOLEAN, p \in 0..opened : Returned(tab, p) \in Reports
  BY DEF TypeOk, Raised, Returned, Reports, Pages

\* The first page is open and nothing runs.
LEMMA InitPage == Init => PageInv
  BY PageAssumption DEF Init, PageInv, TypeOk, CallOk, PopupOk, ReachedOk, ContextOk, PopupIsNew,
     ReportedClicksHappened, ClickReported, Pages, NoReport, Awaits

\* A page the site opens is new to everything.
LEMMA SiteOpensStep == ASSUME PageInv, SiteOpens PROVE PageInv'
  <1> USE PageAssumption DEF PageInv, SiteOpens, Open, Pages
  <1>1. TypeOk'
    BY DEF TypeOk, Awaits, CallOk, ReachedOk
  <1>2. CallOk'
    BY DEF TypeOk, CallOk
  <1>3. PopupOk'
    BY DEF TypeOk, PopupOk
  <1>4. ReachedOk'
    BY DEF TypeOk, ReachedOk
  <1>5. ContextOk'
    BY DEF TypeOk, ContextOk, CallOk
  <1>6. PopupIsNew'
    BY DEF TypeOk, PopupOk, CallOk, ContextOk, PopupIsNew, ClickReported
  <1>7. ReportedClicksHappened'
    BY DEF TypeOk, ReachedOk, CallOk, ReportedClicksHappened, ClickReported
  <1> QED
    BY <1>1, <1>2, <1>3, <1>4, <1>5, <1>6, <1>7

\* A page that closed does not come back.
LEMMA SiteClosesStep == ASSUME PageInv, SiteCloses PROVE PageInv'
  <1> USE PageAssumption DEF PageInv, SiteCloses, click, Open, Pages
  <1>1. TypeOk'
    BY DEF TypeOk, Awaits, CallOk, ReachedOk
  <1>2. CallOk'
    BY DEF TypeOk, CallOk
  <1>3. PopupOk'
    BY DEF TypeOk, PopupOk
  <1>4. ReachedOk'
    BY DEF TypeOk, ReachedOk
  <1>5. ContextOk'
    BY DEF TypeOk, ContextOk, CallOk
  <1>6. PopupIsNew'
    BY DEF TypeOk, PopupOk, CallOk, ContextOk, PopupIsNew, ClickReported
  <1>7. ReportedClicksHappened'
    BY DEF TypeOk, ReachedOk, CallOk, ReportedClicksHappened, ClickReported
  <1> QED
    BY <1>1, <1>2, <1>3, <1>4, <1>5, <1>6, <1>7

\* An action starts on the page of the context.
LEMMA StartStep == ASSUME PageInv, Start PROVE PageInv'
  <1> USE PageAssumption DEF PageInv, Start, world, Open, Pages
  <1>1. TypeOk'
    BY DEF TypeOk, Awaits, CallOk, ReachedOk
  <1>2. CallOk'
    BY DEF TypeOk, CallOk
  <1>3. PopupOk'
    BY DEF TypeOk, PopupOk
  <1>4. ReachedOk'
    BY DEF TypeOk, ReachedOk
  <1>5. ContextOk'
    BY DEF TypeOk, ContextOk, CallOk
  <1>6. PopupIsNew'
    BY DEF TypeOk, PopupOk, CallOk, ContextOk, PopupIsNew, ClickReported
  <1>7. ReportedClicksHappened'
    BY DEF TypeOk, ReachedOk, CallOk, ReportedClicksHappened, ClickReported
  <1> QED
    BY <1>1, <1>2, <1>3, <1>4, <1>5, <1>6, <1>7

\* An action raises.
LEMMA FailsStep == ASSUME PageInv, Fails PROVE PageInv'
  <1> USE PageAssumption DEF PageInv, Fails, world, click, End, Raised, Open, Pages
  <1>1. TypeOk'
    BY DEF TypeOk, Awaits, CallOk, ReachedOk
  <1>2. CallOk'
    BY DEF TypeOk, CallOk
  <1>3. PopupOk'
    BY DEF TypeOk, PopupOk
  <1>4. ReachedOk'
    BY DEF TypeOk, ReachedOk
  <1>5. ContextOk'
    BY DEF TypeOk, ContextOk, CallOk
  <1>6. PopupIsNew'
    BY DEF TypeOk, PopupOk, CallOk, ContextOk, PopupIsNew, ClickReported
  <1>7. ReportedClicksHappened'
    BY DEF TypeOk, ReachedOk, CallOk, ReportedClicksHappened, ClickReported
  <1> QED
    BY <1>1, <1>2, <1>3, <1>4, <1>5, <1>6, <1>7

\* A navigation ends.
LEMMA GotoStep == ASSUME PageInv, Goto PROVE PageInv'
  <1> USE PageAssumption DEF PageInv, Goto, world, click, End, Returned, Open, Pages
  <1>1. TypeOk'
    BY DEF TypeOk, Awaits, CallOk, ReachedOk
  <1>2. CallOk'
    BY DEF TypeOk, CallOk
  <1>3. PopupOk'
    BY DEF TypeOk, PopupOk
  <1>4. ReachedOk'
    BY DEF TypeOk, ReachedOk
  <1>5. ContextOk'
    BY DEF TypeOk, ContextOk, CallOk
  <1>6. PopupIsNew'
    BY DEF TypeOk, PopupOk, CallOk, ContextOk, PopupIsNew, ClickReported
  <1>7. ReportedClicksHappened'
    BY DEF TypeOk, ReachedOk, CallOk, ReportedClicksHappened, ClickReported
  <1> QED
    BY <1>1, <1>2, <1>3, <1>4, <1>5, <1>6, <1>7

\* A tab is opened.
LEMMA NewPageStep == ASSUME PageInv, NewPage PROVE PageInv'
  <1> USE PageAssumption DEF PageInv, NewPage, Open, Pages
  <1>1. TypeOk'
    BY DEF TypeOk, Awaits, CallOk, ReachedOk
  <1>2. CallOk'
    BY DEF TypeOk, CallOk
  <1>3. PopupOk'
    BY DEF TypeOk, PopupOk
  <1>4. ReachedOk'
    BY DEF TypeOk, ReachedOk
  <1>5. ContextOk'
    BY DEF TypeOk, ContextOk, CallOk
  <1>6. PopupIsNew'
    BY DEF TypeOk, PopupOk, CallOk, ContextOk, PopupIsNew, ClickReported
  <1>7. ReportedClicksHappened'
    BY DEF TypeOk, ReachedOk, CallOk, ReportedClicksHappened, ClickReported
  <1> QED
    BY <1>1, <1>2, <1>3, <1>4, <1>5, <1>6, <1>7

\* The tab is reported.
LEMMA NewTabDoneStep == ASSUME PageInv, NewTabDone PROVE PageInv'
  <1> USE PageAssumption DEF PageInv, NewTabDone, world, click, End, Returned, Open, Pages
  <1>1. TypeOk'
    BY DEF TypeOk, Awaits, CallOk, ReachedOk
  <1>2. CallOk'
    BY DEF TypeOk, CallOk
  <1>3. PopupOk'
    BY DEF TypeOk, PopupOk
  <1>4. ReachedOk'
    BY DEF TypeOk, ReachedOk
  <1>5. ContextOk'
    BY DEF TypeOk, ContextOk, CallOk
  <1>6. PopupIsNew'
    BY DEF TypeOk, PopupOk, CallOk, ContextOk, PopupIsNew, ClickReported
  <1>7. ReportedClicksHappened'
    BY DEF TypeOk, ReachedOk, CallOk, ReportedClicksHappened, ClickReported
  <1> QED
    BY <1>1, <1>2, <1>3, <1>4, <1>5, <1>6, <1>7

\* The element was found.
LEMMA LocatedStep == ASSUME PageInv, Located PROVE PageInv'
  <1> USE PageAssumption DEF PageInv, Located, world, click, Open, Pages
  <1>1. TypeOk'
    BY DEF TypeOk, Awaits, CallOk, ReachedOk
  <1>2. CallOk'
    BY DEF TypeOk, CallOk
  <1>3. PopupOk'
    BY DEF TypeOk, PopupOk
  <1>4. ReachedOk'
    BY DEF TypeOk, ReachedOk
  <1>5. ContextOk'
    BY DEF TypeOk, ContextOk, CallOk
  <1>6. PopupIsNew'
    BY DEF TypeOk, PopupOk, CallOk, ContextOk, PopupIsNew, ClickReported
  <1>7. ReportedClicksHappened'
    BY DEF TypeOk, ReachedOk, CallOk, ReportedClicksHappened, ClickReported
  <1> QED
    BY <1>1, <1>2, <1>3, <1>4, <1>5, <1>6, <1>7

\* There is nothing to click on.
LEMMA NoTargetStep == ASSUME PageInv, NoTarget PROVE PageInv'
  <1> USE PageAssumption DEF PageInv, NoTarget, world, End, Raised, NextAttempt, Open, Pages
  <1>1. TypeOk'
    <2>1. report' \in Reports
      BY ReportType DEF TypeOk, Reports
    <2>2. attempt' \in 1..3 /\ reached' \in 0..attempt' /\ pc' \in Awaits
      BY DEF TypeOk, ReachedOk, Awaits
    <2> QED
      BY <2>1, <2>2 DEF TypeOk, Reports
  <1>2. CallOk'
    BY DEF TypeOk, CallOk
  <1>3. PopupOk'
    BY DEF TypeOk, PopupOk
  <1>4. ReachedOk'
    BY DEF TypeOk, ReachedOk
  <1>5. ContextOk'
    BY DEF TypeOk, ContextOk, CallOk
  <1>6. PopupIsNew'
    BY DEF TypeOk, PopupOk, CallOk, ContextOk, PopupIsNew, ClickReported
  <1>7. ReportedClicksHappened'
    BY DEF TypeOk, ReachedOk, CallOk, ReportedClicksHappened, ClickReported
  <1> QED
    BY <1>1, <1>2, <1>3, <1>4, <1>5, <1>6, <1>7

\* A click begins.
LEMMA BeginClickStep == ASSUME PageInv, BeginClick PROVE PageInv'
  <1> USE PageAssumption DEF PageInv, BeginClick, world, Open, Pages
  <1>1. TypeOk'
    BY DEF TypeOk, Awaits, CallOk, ReachedOk
  <1>2. CallOk'
    BY DEF TypeOk, CallOk
  <1>3. PopupOk'
    BY DEF TypeOk, PopupOk
  <1>4. ReachedOk'
    BY DEF TypeOk, ReachedOk
  <1>5. ContextOk'
    BY DEF TypeOk, ContextOk, CallOk
  <1>6. PopupIsNew'
    BY DEF TypeOk, PopupOk, CallOk, ContextOk, PopupIsNew, ClickReported
  <1>7. ReportedClicksHappened'
    BY DEF TypeOk, ReachedOk, CallOk, ReportedClicksHappened, ClickReported
  <1> QED
    BY <1>1, <1>2, <1>3, <1>4, <1>5, <1>6, <1>7

\* A click raises.
LEMMA ClickRaisesStep == ASSUME PageInv, ClickRaises PROVE PageInv'
  <1> USE PageAssumption DEF PageInv, ClickRaises, world, End, Raised, NextAttempt, Open, Pages
  <1>1. TypeOk'
    <2>1. report' \in Reports
      BY ReportType DEF TypeOk, Reports
    <2>2. attempt' \in 1..3 /\ reached' \in 0..attempt' /\ pc' \in Awaits
      BY DEF TypeOk, ReachedOk, Awaits
    <2> QED
      BY <2>1, <2>2 DEF TypeOk, Reports
  <1>2. CallOk'
    BY DEF TypeOk, CallOk
  <1>3. PopupOk'
    BY DEF TypeOk, PopupOk
  <1>4. ReachedOk'
    BY DEF TypeOk, ReachedOk
  <1>5. ContextOk'
    BY DEF TypeOk, ContextOk, CallOk
  <1>6. PopupIsNew'
    BY DEF TypeOk, PopupOk, CallOk, ContextOk, PopupIsNew, ClickReported
  <1>7. ReportedClicksHappened'
    BY DEF TypeOk, ReachedOk, CallOk, ReportedClicksHappened, ClickReported
  <1> QED
    BY <1>1, <1>2, <1>3, <1>4, <1>5, <1>6, <1>7

\* A click had its effect.
LEMMA ClickReturnsStep == ASSUME PageInv, ClickReturns PROVE PageInv'
  <1> USE PageAssumption DEF PageInv, ClickReturns, world, Open, Pages
  <1>1. TypeOk'
    BY DEF TypeOk, Awaits, CallOk, ReachedOk
  <1>2. CallOk'
    BY DEF TypeOk, CallOk
  <1>3. PopupOk'
    BY DEF TypeOk, PopupOk
  <1>4. ReachedOk'
    BY DEF TypeOk, ReachedOk
  <1>5. ContextOk'
    BY DEF TypeOk, ContextOk, CallOk
  <1>6. PopupIsNew'
    BY DEF TypeOk, PopupOk, CallOk, ContextOk, PopupIsNew, ClickReported
  <1>7. ReportedClicksHappened'
    BY DEF TypeOk, ReachedOk, CallOk, ReportedClicksHappened, ClickReported
  <1> QED
    BY <1>1, <1>2, <1>3, <1>4, <1>5, <1>6, <1>7

\* The popup is looked for.
LEMMA LookForPopupStep == ASSUME PageInv, LookForPopup PROVE PageInv'
  <1> USE PageAssumption DEF PageInv, LookForPopup, world, Open, Pages
  <1>1. TypeOk'
    BY FoundIsNew DEF TypeOk, Awaits, CallOk, ReachedOk
  <1>2. CallOk'
    BY DEF TypeOk, CallOk
  <1>3. PopupOk'
    BY FoundIsNew DEF TypeOk, PopupOk
  <1>4. ReachedOk'
    BY DEF TypeOk, ReachedOk
  <1>5. ContextOk'
    BY DEF TypeOk, ContextOk, CallOk
  <1>6. PopupIsNew'
    BY DEF TypeOk, PopupOk, CallOk, ContextOk, PopupIsNew, ClickReported
  <1>7. ReportedClicksHappened'
    BY DEF TypeOk, ReachedOk, CallOk, ReportedClicksHappened, ClickReported
  <1> QED
    BY <1>1, <1>2, <1>3, <1>4, <1>5, <1>6, <1>7

\* There was no popup.
LEMMA LoadedStep == ASSUME PageInv, Loaded PROVE PageInv'
  <1> USE PageAssumption DEF PageInv, Loaded, world, click, End, Returned, Open, Pages
  <1>1. TypeOk'
    BY DEF TypeOk, Awaits, CallOk, ReachedOk
  <1>2. CallOk'
    BY DEF TypeOk, CallOk
  <1>3. PopupOk'
    BY DEF TypeOk, PopupOk
  <1>4. ReachedOk'
    BY DEF TypeOk, ReachedOk
  <1>5. ContextOk'
    BY DEF TypeOk, ContextOk, CallOk
  <1>6. PopupIsNew'
    BY DEF TypeOk, PopupOk, CallOk, ContextOk, PopupIsNew, ClickReported
  <1>7. ReportedClicksHappened'
    BY DEF TypeOk, ReachedOk, CallOk, ReportedClicksHappened, ClickReported
  <1> QED
    BY <1>1, <1>2, <1>3, <1>4, <1>5, <1>6, <1>7

\* What the popup is reported as.
LEMMA AdoptReport ==
  ASSUME TypeOk, Adopt
  PROVE  report' \in Reports
  <1>1. CASE Open(popup)
    <2>1. report' = Returned(TRUE, popup)
      BY <1>1 DEF Adopt, End
    <2>2. popup \in 0..opened
      BY DEF TypeOk
    <2> QED
      BY <2>1, <2>2, ReportType
  <1>2. CASE ~Open(popup)
    <2>1. report' = Raised \/ report' = report
      BY <1>2 DEF Adopt, End, NextAttempt
    <2>2. report \in Reports
      BY DEF TypeOk, Reports
    <2> QED
      BY <2>1, <2>2, ReportType
  <1> QED
    BY <1>1, <1>2

\* The popup becomes the page of the context.
LEMMA AdoptStep == ASSUME PageInv, Adopt PROVE PageInv'
  <1> USE PageAssumption DEF PageInv, Adopt, world, End, Raised, Returned, NextAttempt, Open, Pages
  <1>1. TypeOk'
    <2>0. popup \in 1..opened
      BY DEF TypeOk, PopupOk
    <2>1. report' \in Reports
      BY AdoptReport
    <2>2. attempt' \in 1..3 /\ reached' \in 0..attempt' /\ pc' \in Awaits
      BY DEF TypeOk, ReachedOk, Awaits
    <2> QED
      BY <2>0, <2>1, <2>2 DEF TypeOk, Reports
  <1>2. CallOk'
    BY DEF TypeOk, CallOk
  <1>3. PopupOk'
    BY DEF TypeOk, PopupOk
  <1>4. ReachedOk'
    BY DEF TypeOk, ReachedOk
  <1>5. ContextOk'
    BY DEF TypeOk, ContextOk, CallOk
  <1>6. PopupIsNew'
    BY DEF TypeOk, PopupOk, CallOk, ContextOk, PopupIsNew, ClickReported
  <1>7. ReportedClicksHappened'
    BY DEF TypeOk, ReachedOk, CallOk, ReportedClicksHappened, ClickReported
  <1> QED
    BY <1>1, <1>2, <1>3, <1>4, <1>5, <1>6, <1>7

\* A step of an action that moves between pages.
LEMMA PageSteps == ASSUME PageInv, Next PROVE PageInv'
  BY SiteOpensStep, SiteClosesStep, StartStep, FailsStep, GotoStep, NewPageStep, NewTabDoneStep,
     LocatedStep, NoTargetStep, BeginClickStep, ClickRaisesStep, ClickReturnsStep,
     LookForPopupStep, LoadedStep, AdoptStep DEF Next, Run

\* What the page part says does not depend on the fields.
LEMMA PageKept ==
  ASSUME PageInv, UNCHANGED <<world, ctxPage, call, pc, page, click, report, adopted>>,
         calls' \in 0..MaxCalls
  PROVE  PageInv'
  BY DEF PageInv, world, click, TypeOk, CallOk, PopupOk, ReachedOk, ContextOk, Open, PopupIsNew,
     ReportedClicksHappened, ClickReported
-----------------------------------------------------------------------------
\* The text has a length.
LEMMA TextType == Text \in Seq(ToSet(Text)) /\ Len(Text) \in Nat
  BY FieldAssumption

\* A sequence that is emptied is part of everything.
LEMMA PlacedEmpty == ASSUME NEW t PROVE PlacedIn(<<>>, t, 0)
  <1> DEFINE place == [k \in 1..Len(<<>>) |-> 0]
  <1>1. Len(<<>>) = 0
    OBVIOUS
  <1>2. 1..Len(<<>>) = {}
    BY <1>1
  <1>3. place \in [1..Len(<<>>) -> 1..0]
    BY <1>2
  <1> HIDE DEF place
  <1> QED
    BY <1>2, <1>3, Zenon DEF PlacedIn

\* The next element may be left out, or come last.
LEMMA PlacedGrows ==
  ASSUME NEW S, NEW t \in Seq(S), NEW s \in Seq(S), NEW n \in Nat, n < Len(t), PlacedIn(s, t, n)
  PROVE  PlacedIn(s, t, n + 1) /\ PlacedIn(Append(s, t[n + 1]), t, n + 1)
  <1>1. PICK place \in [1..Len(s) -> 1..n] :
          /\ \A k \in 1..Len(s) : s[k] = t[place[k]]
          /\ \A j, k \in 1..Len(s) : j < k => place[j] < place[k]
    BY DEF PlacedIn
  <1>2. PlacedIn(s, t, n + 1)
    <2>1. place \in [1..Len(s) -> 1..(n + 1)]
      BY <1>1
    <2> QED
      BY <1>1, <2>1 DEF PlacedIn
  <1>3. PlacedIn(Append(s, t[n + 1]), t, n + 1)
    <2> DEFINE r == Append(s, t[n + 1])
               at == [k \in 1..(Len(s) + 1) |-> IF k <= Len(s) THEN place[k] ELSE n + 1]
    <2>1. /\ Len(s) \in Nat /\ Len(t) \in Nat /\ Len(r) = Len(s) + 1
          /\ \A k \in 1..Len(s) : r[k] = s[k]
          /\ r[Len(s) + 1] = t[n + 1]
      OBVIOUS
    <2>2. at \in [1..Len(r) -> 1..(n + 1)]
      BY <1>1, <2>1
    <2>3. \A k \in 1..Len(r) : r[k] = t[at[k]]
      BY <1>1, <2>1
    <2>4. \A j, k \in 1..Len(r) : j < k => at[j] < at[k]
      BY <1>1, <2>1
    <2> HIDE DEF r, at
    <2>5. PlacedIn(r, t, n + 1)
      BY <2>2, <2>3, <2>4 DEF PlacedIn
    <2> QED
      BY <2>5 DEF r
  <1> QED
    BY <1>2, <1>3

\* What is left of all of t is left of t, and t itself is.
LEMMA PlacedWhole ==
  ASSUME NEW S, NEW t \in Seq(S)
  PROVE  /\ \A s \in Seq(S) : PlacedIn(s, t, Len(t)) => LeavesOut(s, t)
         /\ LeavesOut(t, t)
  <1>1. \A s \in Seq(S) : DOMAIN s = 1..Len(s)
    OBVIOUS
  <1>2. \A s \in Seq(S) : PlacedIn(s, t, Len(t)) => LeavesOut(s, t)
    BY <1>1 DEF PlacedIn, LeavesOut
  <1>3. LeavesOut(t, t)
    <2> DEFINE place == [k \in DOMAIN t |-> k]
    <2>1. place \in [DOMAIN t -> DOMAIN t]
      OBVIOUS
    <2> QED
      BY <2>1 DEF LeavesOut
  <1> QED
    BY <1>2, <1>3

\* No field action runs at first.
LEMMA InitField == FieldInit => FieldInv
  <1> SUFFICES ASSUME FieldInit PROVE FieldInv
    OBVIOUS
  <1> USE DEF FieldInit
  <1>1. content \in Seq(ToSet(Text)) \cup Before
    BY Zenon
  <1>2. typed \in 0..Len(Text) /\ way \in 1..11 /\ effects \in Nat /\ late \in 0..effects
    BY TextType
  <1>3. doing \in Doings \cup {"none"} /\ {cleared, focused, stolen} \subseteq BOOLEAN
    OBVIOUS
  <1>4. FieldTypeOk
    BY <1>1, <1>2, <1>3 DEF FieldTypeOk
  <1>5. ContentOk /\ EffectsOk
    BY DEF ContentOk, EffectsOk
  <1>6. doing # "none" => pc = "idle"
    OBVIOUS
  <1>7. EnteredTextIsExact /\ EffectsAreAccountedFor
    BY DEF EnteredTextIsExact, EffectsAreAccountedFor
  <1> QED
    BY <1>4, <1>5, <1>6, <1>7 DEF FieldInv

\* At most one container, or the window, is the target of a scroll.
LEMMA OneTarget ==
  ASSUME NEW rooms
  PROVE  Cardinality(ScrollTargets(rooms)) = 1
  <1> DEFINE able == {k \in DOMAIN rooms : k <= 10 /\ rooms[k] > 0}
  <1>1. PICK e : ScrollTargets(rooms) = {e}
    BY Zenon DEF ScrollTargets
  <1> QED
    BY <1>1, FS_Singleton

\* Between two field actions nothing is said that is not kept.
LEMMA FieldKept ==
  ASSUME FieldInv, UNCHANGED fields, doing = "none" \/ pc' = pc
  PROVE  FieldInv'
  BY DEF FieldInv, fields, FieldTypeOk, ContentOk, EffectsOk, EnteredTextIsExact,
     EffectsAreAccountedFor

\* A field action starts.
LEMMA FieldStartStep == ASSUME FieldInv, FieldStart PROVE FieldInv'
  <1> USE FieldAssumption DEF FieldInv, FieldStart, vars
  <1>1. FieldTypeOk'
    <2>1. content' \in Seq(ToSet(Text)) \cup Before
      BY Zenon
    <2>2. typed' \in 0..Len(Text) /\ way' \in 1..11 /\ effects' \in Nat /\ late' \in 0..effects'
      BY TextType
    <2>3. doing' \in Doings \cup {"none"} /\ {cleared', focused', stolen'} \subseteq BOOLEAN
      OBVIOUS
    <2> QED
      BY <2>1, <2>2, <2>3 DEF FieldTypeOk
  <1>2. ContentOk'
    BY DEF FieldTypeOk, ContentOk
  <1>3. EffectsOk'
    BY DEF FieldTypeOk, EffectsOk
  <1>4. doing' # "none" => pc' = "idle"
    OBVIOUS
  <1>5. EnteredTextIsExact'
    BY DEF FieldTypeOk, ContentOk, EnteredTextIsExact
  <1>6. EffectsAreAccountedFor'
    BY DEF FieldTypeOk, EffectsOk, EffectsAreAccountedFor
  <1> QED
    BY <1>1, <1>2, <1>3, <1>4, <1>5, <1>6

\* An action gives up before it did anything.
LEMMA GivesUpStep == ASSUME FieldInv, GivesUp PROVE FieldInv'
  <1> USE FieldAssumption DEF FieldInv, GivesUp, Finished, typing, vars
  <1>1. FieldTypeOk'
    BY DEF FieldTypeOk, EffectsOk, ContentOk
  <1>2. ContentOk'
    BY DEF FieldTypeOk, ContentOk
  <1>3. EffectsOk'
    BY DEF FieldTypeOk, EffectsOk
  <1>4. doing' # "none" => pc' = "idle"
    OBVIOUS
  <1>5. EnteredTextIsExact'
    BY DEF FieldTypeOk, ContentOk, EnteredTextIsExact
  <1>6. EffectsAreAccountedFor'
    BY DEF FieldTypeOk, EffectsOk, EffectsAreAccountedFor
  <1> QED
    BY <1>1, <1>2, <1>3, <1>4, <1>5, <1>6

\* An action ends with what it found.
LEMMA PassesStep == ASSUME FieldInv, Passes PROVE FieldInv'
  <1> USE FieldAssumption DEF FieldInv, Passes, Finished, typing, vars
  <1>1. FieldTypeOk'
    BY DEF FieldTypeOk, EffectsOk, ContentOk
  <1>2. ContentOk'
    BY DEF FieldTypeOk, ContentOk
  <1>3. EffectsOk'
    BY DEF FieldTypeOk, EffectsOk
  <1>4. doing' # "none" => pc' = "idle"
    OBVIOUS
  <1>5. EnteredTextIsExact'
    BY DEF FieldTypeOk, ContentOk, EnteredTextIsExact
  <1>6. EffectsAreAccountedFor'
    BY DEF FieldTypeOk, EffectsOk, EffectsAreAccountedFor
  <1> QED
    BY <1>1, <1>2, <1>3, <1>4, <1>5, <1>6

\* One container, or the window, is scrolled.
LEMMA ScrollStep == ASSUME FieldInv, Scroll PROVE FieldInv'
  <1> USE FieldAssumption DEF FieldInv, Scroll, Doing, Finished, typing, vars
  <1>0. effects' = 1
    BY OneTarget, Zenon
  <1>1. FieldTypeOk'
    BY <1>0 DEF FieldTypeOk, EffectsOk
  <1>2. ContentOk'
    BY DEF FieldTypeOk, ContentOk
  <1>3. EffectsOk'
    BY DEF FieldTypeOk, EffectsOk
  <1>4. doing' # "none" => pc' = "idle"
    OBVIOUS
  <1>5. EnteredTextIsExact'
    BY DEF FieldTypeOk, ContentOk, EnteredTextIsExact
  <1>6. EffectsAreAccountedFor'
    BY <1>0 DEF FieldTypeOk, EffectsOk, EffectsAreAccountedFor
  <1> QED
    BY <1>1, <1>2, <1>3, <1>4, <1>5, <1>6

\* A locator finds nothing.
LEMMA SkipsStep == ASSUME FieldInv, Skips PROVE FieldInv'
  <1> USE FieldAssumption DEF FieldInv, Skips, LastWay, typing, vars
  <1>1. FieldTypeOk'
    BY DEF FieldTypeOk, EffectsOk, ContentOk
  <1>2. ContentOk'
    BY DEF FieldTypeOk, ContentOk
  <1>3. EffectsOk'
    BY DEF FieldTypeOk, EffectsOk
  <1>4. doing' # "none" => pc' = "idle"
    OBVIOUS
  <1>5. EnteredTextIsExact'
    BY DEF FieldTypeOk, ContentOk, EnteredTextIsExact
  <1>6. EffectsAreAccountedFor'
    BY DEF FieldTypeOk, EffectsOk, EffectsAreAccountedFor
  <1> QED
    BY <1>1, <1>2, <1>3, <1>4, <1>5, <1>6

\* No locator found the text.
LEMMA NotFoundStep == ASSUME FieldInv, NotFound PROVE FieldInv'
  <1> USE FieldAssumption DEF FieldInv, NotFound, Doing, Finished, LastWay, typing, vars
  <1>1. FieldTypeOk'
    BY DEF FieldTypeOk, EffectsOk, ContentOk
  <1>2. ContentOk'
    BY DEF FieldTypeOk, ContentOk
  <1>3. EffectsOk'
    BY DEF FieldTypeOk, EffectsOk
  <1>4. doing' # "none" => pc' = "idle"
    OBVIOUS
  <1>5. EnteredTextIsExact'
    BY DEF FieldTypeOk, ContentOk, EnteredTextIsExact
  <1>6. EffectsAreAccountedFor'
    BY DEF FieldTypeOk, EffectsOk, EffectsAreAccountedFor
  <1> QED
    BY <1>1, <1>2, <1>3, <1>4, <1>5, <1>6

\* A way of selecting works.
LEMMA SelectsStep == ASSUME FieldInv, Selects PROVE FieldInv'
  <1> USE FieldAssumption DEF FieldInv, Selects, Doing, Finished, typing, vars
  <1>1. FieldTypeOk'
    BY DEF FieldTypeOk, EffectsOk, ContentOk
  <1>2. ContentOk'
    BY DEF FieldTypeOk, ContentOk
  <1>3. EffectsOk'
    BY DEF FieldTypeOk, EffectsOk
  <1>4. doing' # "none" => pc' = "idle"
    OBVIOUS
  <1>5. EnteredTextIsExact'
    BY DEF FieldTypeOk, ContentOk, EnteredTextIsExact
  <1>6. EffectsAreAccountedFor'
    BY DEF FieldTypeOk, EffectsOk, EffectsAreAccountedFor
  <1> QED
    BY <1>1, <1>2, <1>3, <1>4, <1>5, <1>6

\* The menu is opened.
LEMMA OpensMenuStep == ASSUME FieldInv, OpensMenu PROVE FieldInv'
  <1> USE FieldAssumption DEF FieldInv, OpensMenu, Doing, typing, vars
  <1>1. FieldTypeOk'
    BY DEF FieldTypeOk, EffectsOk, ContentOk
  <1>2. ContentOk'
    BY DEF FieldTypeOk, ContentOk
  <1>3. EffectsOk'
    BY DEF FieldTypeOk, EffectsOk
  <1>4. doing' # "none" => pc' = "idle"
    OBVIOUS
  <1>5. EnteredTextIsExact'
    BY DEF FieldTypeOk, ContentOk, EnteredTextIsExact
  <1>6. EffectsAreAccountedFor'
    BY DEF FieldTypeOk, EffectsOk, EffectsAreAccountedFor
  <1> QED
    BY <1>1, <1>2, <1>3, <1>4, <1>5, <1>6

\* A way of selecting raises.
LEMMA WayRaisesStep == ASSUME FieldInv, WayRaises PROVE FieldInv'
  <1> USE FieldAssumption DEF FieldInv, WayRaises, Finished, LastWay, typing, vars
  <1>1. FieldTypeOk'
    BY DEF FieldTypeOk, EffectsOk, ContentOk
  <1>2. ContentOk'
    BY DEF FieldTypeOk, ContentOk
  <1>3. EffectsOk'
    BY DEF FieldTypeOk, EffectsOk
  <1>4. doing' # "none" => pc' = "idle"
    OBVIOUS
  <1>5. EnteredTextIsExact'
    BY DEF FieldTypeOk, ContentOk, EnteredTextIsExact
  <1>6. EffectsAreAccountedFor'
    BY DEF FieldTypeOk, EffectsOk, EffectsAreAccountedFor
  <1> QED
    BY <1>1, <1>2, <1>3, <1>4, <1>5, <1>6

\* There is no such option.
LEMMA NoOptionStep == ASSUME FieldInv, NoOption PROVE FieldInv'
  <1> USE FieldAssumption DEF FieldInv, NoOption, Doing, Finished, LastWay, typing, vars
  <1>1. FieldTypeOk'
    BY DEF FieldTypeOk, EffectsOk, ContentOk
  <1>2. ContentOk'
    BY DEF FieldTypeOk, ContentOk
  <1>3. EffectsOk'
    BY DEF FieldTypeOk, EffectsOk
  <1>4. doing' # "none" => pc' = "idle"
    OBVIOUS
  <1>5. EnteredTextIsExact'
    BY DEF FieldTypeOk, ContentOk, EnteredTextIsExact
  <1>6. EffectsAreAccountedFor'
    BY DEF FieldTypeOk, EffectsOk, EffectsAreAccountedFor
  <1> QED
    BY <1>1, <1>2, <1>3, <1>4, <1>5, <1>6

\* The keys are pressed at once.
LEMMA PressesStep == ASSUME FieldInv, Presses PROVE FieldInv'
  <1> USE FieldAssumption DEF FieldInv, Presses, Doing, Finished, typing, vars
  <1>1. FieldTypeOk'
    BY DEF FieldTypeOk, EffectsOk, ContentOk
  <1>2. ContentOk'
    BY DEF FieldTypeOk, ContentOk
  <1>3. EffectsOk'
    BY DEF FieldTypeOk, EffectsOk
  <1>4. doing' # "none" => pc' = "idle"
    OBVIOUS
  <1>5. EnteredTextIsExact'
    BY DEF FieldTypeOk, ContentOk, EnteredTextIsExact
  <1>6. EffectsAreAccountedFor'
    BY DEF FieldTypeOk, EffectsOk, EffectsAreAccountedFor
  <1> QED
    BY <1>1, <1>2, <1>3, <1>4, <1>5, <1>6

\* Pressing them at once raises.
LEMMA PressRaisesStep == ASSUME FieldInv, PressRaises PROVE FieldInv'
  <1> USE FieldAssumption DEF FieldInv, PressRaises, Doing, Finished, typing, vars
  <1>1. FieldTypeOk'
    BY DEF FieldTypeOk, EffectsOk, ContentOk
  <1>2. ContentOk'
    BY DEF FieldTypeOk, ContentOk
  <1>3. EffectsOk'
    BY DEF FieldTypeOk, EffectsOk
  <1>4. doing' # "none" => pc' = "idle"
    OBVIOUS
  <1>5. EnteredTextIsExact'
    BY DEF FieldTypeOk, ContentOk, EnteredTextIsExact
  <1>6. EffectsAreAccountedFor'
    BY DEF FieldTypeOk, EffectsOk, EffectsAreAccountedFor
  <1> QED
    BY <1>1, <1>2, <1>3, <1>4, <1>5, <1>6

\* One of the keys is pressed.
LEMMA PressesEachStep == ASSUME FieldInv, PressesEach PROVE FieldInv'
  <1> USE FieldAssumption DEF FieldInv, PressesEach, Doing, Finished, typing, vars
  <1>1. FieldTypeOk'
    BY DEF FieldTypeOk, EffectsOk, ContentOk
  <1>2. ContentOk'
    BY DEF FieldTypeOk, ContentOk
  <1>3. EffectsOk'
    BY DEF FieldTypeOk, EffectsOk
  <1>4. doing' # "none" => pc' = "idle"
    OBVIOUS
  <1>5. EnteredTextIsExact'
    BY DEF FieldTypeOk, ContentOk, EnteredTextIsExact
  <1>6. EffectsAreAccountedFor'
    BY DEF FieldTypeOk, EffectsOk, EffectsAreAccountedFor
  <1> QED
    BY <1>1, <1>2, <1>3, <1>4, <1>5, <1>6

\* The field is emptied.
LEMMA ClearsStep == ASSUME FieldInv, Clears PROVE FieldInv'
  <1> USE FieldAssumption DEF FieldInv, Clears, Doing, vars
  <1>1. FieldTypeOk'
    <2>1. typed' \in 0..Len(Text) /\ content' \in Seq(ToSet(Text))
      BY TextType
    <2> QED
      BY <2>1 DEF FieldTypeOk
  <1>2. ContentOk'
    BY PlacedEmpty DEF FieldTypeOk, ContentOk
  <1>3. EffectsOk'
    BY DEF FieldTypeOk, EffectsOk
  <1>4. doing' # "none" => pc' = "idle"
    OBVIOUS
  <1>5. EnteredTextIsExact'
    BY DEF FieldTypeOk, ContentOk, EnteredTextIsExact
  <1>6. EffectsAreAccountedFor'
    BY DEF FieldTypeOk, EffectsOk, EffectsAreAccountedFor
  <1> QED
    BY <1>1, <1>2, <1>3, <1>4, <1>5, <1>6

\* One character is typed.
LEMMA TypesStep == ASSUME FieldInv, Types PROVE FieldInv'
  <1> USE FieldAssumption DEF FieldInv, Types, Doing, vars
  <1>1. FieldTypeOk'
    BY DEF FieldTypeOk, EffectsOk, ContentOk
  <1>2. ContentOk'
    <2> DEFINE S == ToSet(Text)
    <2>1. /\ content \in Seq(S) /\ PlacedIn(content, Text, typed)
          /\ ~stolen => /\ focused /\ Len(content) = typed
                        /\ \A k \in 1..Len(content) : content[k] = Text[k]
      BY DEF ContentOk
    <2>2. typed \in Nat /\ typed < Len(Text) /\ typed' = typed + 1 /\ Len(content) \in Nat
      BY <2>1, TextType DEF FieldTypeOk
    <2>3. Text[typed'] \in S
      BY <2>2, TextType
    <2> HIDE DEF S
    <2>4. PlacedIn(content, Text, typed') /\ PlacedIn(Append(content, Text[typed']), Text, typed')
      BY <2>1, <2>2, TextType, PlacedGrows DEF S
    <2>5. content' \in Seq(S) /\ PlacedIn(content', Text, typed')
      BY <2>1, <2>3, <2>4
    <2>6. ASSUME ~stolen' PROVE /\ focused' /\ Len(content') = typed'
                               /\ \A k \in 1..Len(content') : content'[k] = Text[k]
      <3>1. /\ focused /\ Len(content) = typed /\ content' = Append(content, Text[typed'])
            /\ \A k \in 1..Len(content) : content[k] = Text[k]
        BY <2>1, <2>6
      <3>2. Len(content') = typed'
        BY <2>1, <2>2, <2>3, <3>1
      <3>3. ASSUME NEW k \in 1..Len(content') PROVE content'[k] = Text[k]
        <4>1. CASE k <= Len(content)
          BY <2>1, <2>2, <2>3, <3>1, <3>2, <4>1
        <4>2. CASE k > Len(content)
          BY <2>1, <2>2, <2>3, <3>1, <3>2, <4>2
        <4> QED
          BY <2>2, <3>2, <4>1, <4>2
      <3> QED
        BY <3>1, <3>2, <3>3
    <2> QED
      BY <2>5, <2>6 DEF ContentOk, S
  <1>3. EffectsOk'
    BY DEF FieldTypeOk, EffectsOk
  <1>4. doing' # "none" => pc' = "idle"
    OBVIOUS
  <1>5. EnteredTextIsExact'
    BY DEF FieldTypeOk, ContentOk, EnteredTextIsExact
  <1>6. EffectsAreAccountedFor'
    BY DEF FieldTypeOk, EffectsOk, EffectsAreAccountedFor
  <1> QED
    BY <1>1, <1>2, <1>3, <1>4, <1>5, <1>6

\* The text is typed.
LEMMA TypedStep == ASSUME FieldInv, Typed PROVE FieldInv'
  <1> USE FieldAssumption DEF FieldInv, Typed, Doing, Finished, typing, vars
  <1>1. FieldTypeOk'
    BY DEF FieldTypeOk, EffectsOk, ContentOk
  <1>2. ContentOk'
    BY DEF FieldTypeOk, ContentOk
  <1>3. EffectsOk'
    BY DEF FieldTypeOk, EffectsOk
  <1>4. doing' # "none" => pc' = "idle"
    OBVIOUS
  <1>5. EnteredTextIsExact'
    <2>1. content \in Seq(ToSet(Text)) /\ PlacedIn(content, Text, Len(Text))
      BY DEF ContentOk
    <2>2. LeavesOut(content, Text)
      BY <2>1, TextType, PlacedWhole
    <2>3. ~stolen => content = Text
      BY <2>1, TextType DEF ContentOk
    <2>4. content' = content /\ stolen' = stolen
      OBVIOUS
    <2>5. LeavesOut(content', Text) /\ (~stolen' => content' = Text)
      BY <2>2, <2>3, <2>4
    <2> QED
      BY <2>5 DEF ContentOk, EnteredTextIsExact
  <1>6. EffectsAreAccountedFor'
    BY DEF FieldTypeOk, EffectsOk, EffectsAreAccountedFor
  <1> QED
    BY <1>1, <1>2, <1>3, <1>4, <1>5, <1>6

\* The field is filled.
LEMMA FillsStep == ASSUME FieldInv, Fills PROVE FieldInv'
  <1> USE FieldAssumption DEF FieldInv, Fills, Doing, Finished, vars
  <1>1. FieldTypeOk'
    BY DEF FieldTypeOk, EffectsOk, ContentOk
  <1>2. ContentOk'
    BY DEF FieldTypeOk, ContentOk
  <1>3. EffectsOk'
    BY DEF FieldTypeOk, EffectsOk
  <1>4. doing' # "none" => pc' = "idle"
    OBVIOUS
  <1>5. EnteredTextIsExact'
    <2>1. LeavesOut(Text, Text)
      BY TextType, PlacedWhole
    <2> QED
      BY <2>1 DEF FieldTypeOk, EnteredTextIsExact
  <1>6. EffectsAreAccountedFor'
    BY DEF FieldTypeOk, EffectsOk, EffectsAreAccountedFor
  <1> QED
    BY <1>1, <1>2, <1>3, <1>4, <1>5, <1>6

\* A way of entering the text raises.
LEMMA InputRaisesStep == ASSUME FieldInv, InputRaises PROVE FieldInv'
  <1> USE FieldAssumption DEF FieldInv, InputRaises, Doing, Finished, LastWay, vars
  <1>1. FieldTypeOk'
    <2>1. content' \in Seq(ToSet(Text)) \cup Before
      BY TextType, Zenon DEF FieldTypeOk
    <2>2. typed' \in 0..Len(Text) /\ way' \in 1..11 /\ effects' \in Nat /\ late' \in 0..effects'
      BY TextType DEF FieldTypeOk
    <2>3. doing' \in Doings \cup {"none"} /\ {cleared', focused', stolen'} \subseteq BOOLEAN
      BY DEF FieldTypeOk
    <2> QED
      BY <2>1, <2>2, <2>3 DEF FieldTypeOk
  <1>2. ContentOk'
    BY DEF FieldTypeOk, ContentOk
  <1>3. EffectsOk'
    BY DEF FieldTypeOk, EffectsOk
  <1>4. doing' # "none" => pc' = "idle"
    OBVIOUS
  <1>5. EnteredTextIsExact'
    BY DEF FieldTypeOk, ContentOk, EnteredTextIsExact
  <1>6. EffectsAreAccountedFor'
    BY DEF FieldTypeOk, EffectsOk, EffectsAreAccountedFor
  <1> QED
    BY <1>1, <1>2, <1>3, <1>4, <1>5, <1>6

\* The focus is moved.
LEMMA MovesFocusStep == ASSUME FieldInv, MovesFocus PROVE FieldInv'
  <1> USE FieldAssumption DEF FieldInv, MovesFocus, Doing, vars
  <1>1. FieldTypeOk'
    BY DEF FieldTypeOk, EffectsOk, ContentOk
  <1>2. ContentOk'
    BY DEF FieldTypeOk, ContentOk
  <1>3. EffectsOk'
    BY DEF FieldTypeOk, EffectsOk
  <1>4. doing' # "none" => pc' = "idle"
    OBVIOUS
  <1>5. EnteredTextIsExact'
    BY DEF FieldTypeOk, ContentOk, EnteredTextIsExact
  <1>6. EffectsAreAccountedFor'
    BY DEF FieldTypeOk, EffectsOk, EffectsAreAccountedFor
  <1> QED
    BY <1>1, <1>2, <1>3, <1>4, <1>5, <1>6
\* A step of a field action.
LEMMA FieldSteps == ASSUME FieldInv, FieldRun PROVE FieldInv'
  BY FieldStartStep, GivesUpStep, PassesStep, ScrollStep, SkipsStep, NotFoundStep, SelectsStep,
     OpensMenuStep, WayRaisesStep, NoOptionStep, PressesStep, PressRaisesStep, PressesEachStep,
     ClearsStep, TypesStep, TypedStep, FillsStep, InputRaisesStep, MovesFocusStep DEF FieldRun

\* No field action moves between pages.
LEMMA FieldLeavesPages ==
  ASSUME PageInv, FieldRun
  PROVE  PageInv'
  <1>1. calls' \in 0..MaxCalls
    BY PageAssumption DEF PageInv, TypeOk, FieldRun, FieldStart, GivesUp, Passes, Scroll, Skips,
       NotFound, Selects, OpensMenu, WayRaises, NoOption, Presses, PressRaises, PressesEach,
       Clears, Types, Typed, Fills, InputRaises, MovesFocus, Doing, vars
  <1>2. UNCHANGED <<world, ctxPage, call, pc, page, click, report, adopted>>
    BY DEF FieldRun, FieldStart, GivesUp, Passes, Scroll, Skips,
       NotFound, Selects, OpensMenu, WayRaises, NoOption, Presses, PressRaises, PressesEach,
       Clears, Types, Typed, Fills, InputRaises, MovesFocus, Doing, vars, world, click
  <1> QED
    BY <1>1, <1>2, PageKept
-----------------------------------------------------------------------------
\* The invariant holds when the browser has its first page.
THEOREM InitIInv == FieldInit => IInv
  BY InitPage, InitField DEF FieldInit, IInv

\* Every step of an action and of the site keeps the invariant.
THEOREM StepIInv == IInv /\ [FieldNext]_allVars => IInv'
  <1> SUFFICES ASSUME IInv, [FieldNext]_allVars PROVE IInv'
    OBVIOUS
  <1> USE DEF IInv
  <1>1. CASE FieldRun
    BY <1>1, FieldSteps, FieldLeavesPages
  <1>2. CASE PageStep
    BY <1>2, PageSteps, FieldKept DEF PageStep
  <1>3. CASE UNCHANGED allVars
    <2>1. FieldInv'
      BY <1>3, FieldKept DEF allVars, vars
    <2>2. PageInv'
      <3>1. calls' \in 0..MaxCalls
        BY <1>3 DEF allVars, vars, PageInv, TypeOk
      <3> QED
        BY <1>3, <3>1, PageKept DEF allVars, vars, world, click
    <2> QED
      BY <2>1, <2>2
  <1> QED
    BY <1>1, <1>2, <1>3 DEF FieldNext

\* The invariant holds throughout.
THEOREM SpecIInv == FieldSpec => []IInv
  BY InitIInv, StepIInv, PTL DEF FieldSpec

\* The variables of the actions keep their types: at most one click per attempt
\* of click_element, and no more effects that raised than effects.
THEOREM TypesAreKept == FieldSpec => [](TypeOk /\ FieldTypeOk)
  <1>1. IInv => TypeOk /\ FieldTypeOk
    BY DEF IInv, PageInv, FieldInv
  <1> QED
    BY <1>1, SpecIInv, PTL

\* click_element says "new_tab" only of a page that opened during the attempt that
\* worked, however often the site opens and closes pages meanwhile.
THEOREM PopupsAreNew == FieldSpec => []PopupIsNew
  <1>1. IInv => PopupIsNew
    BY DEF IInv, PageInv
  <1> QED
    BY <1>1, SpecIInv, PTL

\* Between two actions the context holds the page of the action, or a reported
\* popup, or a page that is closed.
THEOREM OnlyReported == FieldSpec => []OnlyReportedPagesAreAdopted
  <1>1. IInv => OnlyReportedPagesAreAdopted
    BY DEF IInv, PageInv, ContextOk, OnlyReportedPagesAreAdopted, TypeOk
  <1> QED
    BY <1>1, SpecIInv, PTL

\* A click that is reported happened, at most once per attempt.
THEOREM ClicksHappened == FieldSpec => []ReportedClicksHappened
  <1>1. IInv => ReportedClicksHappened
    BY DEF IInv, PageInv
  <1> QED
    BY <1>1, SpecIInv, PTL

\* A field whose input is reported holds nothing but the text, in its order and once,
\* and all of it if it was filled, or typed with no script moving the focus
\* meanwhile.
THEOREM TextIsExact == FieldSpec => []EnteredTextIsExact
  <1>1. IInv => EnteredTextIsExact
    BY DEF IInv, FieldInv
  <1> QED
    BY <1>1, SpecIInv, PTL

\* Selections, key presses and scrolls happen once for each that is reported, and
\* once more at most for each way that raised.
THEOREM EffectsAccounted == FieldSpec => []EffectsAreAccountedFor
  <1>1. IInv => EffectsAreAccountedFor
    BY DEF IInv, FieldInv
  <1> QED
    BY <1>1, SpecIInv, PTL

\* The context of the registry moves to another page only while click_element
\* runs, after a click had its effect, to a page that was not there before it.
THEOREM ContextMoves == FieldSpec => ContextMovesByClicks
  <1> DEFINE Moves == ctxPage' # ctxPage =>
                        call = "click_element" /\ reached > 0 /\ ctxPage' \notin initial
  <1>1. IInv /\ [FieldNext]_allVars => [Moves]_vars
    <2> SUFFICES ASSUME IInv, FieldNext, ctxPage' # ctxPage
                 PROVE  call = "click_element" /\ reached > 0 /\ ctxPage' \notin initial
      BY DEF allVars
    <2>1. ~FieldRun
      BY DEF FieldRun, FieldStart, GivesUp, Passes, Scroll, Skips,
         NotFound, Selects, OpensMenu, WayRaises, NoOption, Presses, PressRaises, PressesEach,
         Clears, Types, Typed, Fills, InputRaises, MovesFocus, Doing, vars
    <2>2. Adopt
      BY <2>1 DEF FieldNext, PageStep, Next, Run, SiteOpens, SiteCloses, Start, Fails, Goto, NewPage,
         NewTabDone, Located, NoTarget, BeginClick, ClickRaises, ClickReturns, LookForPopup, Loaded
    <2> QED
      BY <2>2 DEF Adopt, IInv, PageInv, TypeOk, CallOk, PopupOk, ReachedOk
  <1>2. (FieldSpec => []IInv) => (FieldSpec => [][Moves]_vars)
    BY <1>1, PTL DEF FieldSpec
  <1> QED
    BY <1>2, SpecIInv DEF ContextMovesByClicks
=============================================================================
