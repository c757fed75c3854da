------------------------------ MODULE NdChecks ------------------------------
(***************************************************************************)
(* The card of the periodic checks of the instance dashboard               *)
(* (nd-checks.js), a slow task beside the chart of NdTop, and the details  *)
(* of a check in the drawer that nd-top.js lends it.  The chart does not   *)
(* matter here but for the windows it announces, at any time.              *)
(*                                                                         *)
(* An answer is the set of severities of which it has an item; passed      *)
(* checks are not drawn.                                                   *)
(***************************************************************************)
EXTENDS NdTop

CONSTANT Severity      \* severities of the items that can come

ASSUME SeverityAssumption == Severity \subseteq {"CRIT", "WARN", "INFO", "ERROR"} /\ None \notin Severity

VARIABLES
  answer,     \* st.data: which database answered, and its items
  filter,     \* st.filter
  cards,      \* items on the screen, and the database they came from
  detail,     \* the item the drawer is open for, and the database it shows
  detailAsks  \* databases that are asked for the item of the drawer

checkVars == <<answer, filter, cards, detail, detailAsks>>

-----------------------------------------------------------------------------
NoItems == [db |-> None, items |-> {}]
NoDetail == [card |-> None, item |-> None, of |-> None]
\* A failed check has no button of its own.
Filters == {"all"} \cup (Severity \ {"ERROR"})

ChecksTypeOK ==
  /\ TopTypeOK
  /\ answer \in [db : Databases \cup {None}, items : SUBSET Severity]
  /\ filter \in Filters
  /\ cards \in [db : Databases \cup {None}, items : SUBSET Severity]
  /\ detail \in [card : Databases \cup {None}, item : Severity \cup {None}, of : Databases \cup {None}]
  /\ detailAsks \subseteq Databases

ChecksInit ==
  /\ TopInit
  /\ answer = NoItems /\ filter = "all" /\ cards = NoItems
  /\ detail = NoDetail /\ detailAsks = {}

\* render: nothing before the first answer.
RenderCards(data, chosen) ==
  IF data.db = None THEN UNCHANGED cards
  ELSE cards' = [data EXCEPT !.items = {s \in @ : chosen \in {"all", s}}]

\* The hook of this card, which keeps the filter, and that of the drawer.
ResetChecks == answer' = NoItems /\ UNCHANGED filter /\ cards' = NoItems /\ detail' = NoDetail /\ detailAsks' = {}

-----------------------------------------------------------------------------
\* load after its await, unless ctx.isStale(); without a document nothing happens.
ChecksLoaded(d, items) ==
  /\ d \in loads /\ loads' = loads \ {d}
  /\ IF d # currentDbId \/ ~active THEN UNCHANGED <<answer, cards>>
     ELSE answer' = [db |-> d, items |-> items] /\ RenderCards(answer', filter)
  /\ UNCHANGED <<pageRest, clock, otherRange, chart, listVars, filter, detail, detailAsks>>

ChooseFilter(f) ==
  /\ IsVisible /\ filter' = f /\ RenderCards(answer, f)
  /\ UNCHANGED <<vars, topVars, answer, detail, detailAsks>>

\* paintDrawer up to its await: viewDetail asks the database chosen now.
AskDetail(card, item) ==
  /\ detail' = [card |-> card, item |-> item, of |-> None]
  /\ detailAsks' = {currentDbId}
  /\ UNCHANGED <<vars, topVars, answer, filter, cards>>

OpenCheck(item) == IsVisible /\ item \in cards.items /\ AskDetail(cards.db, item)

\* Another window was announced, which is none of this card's business.
NewWindow == active /\ detail.item # None /\ AskDetail(detail.card, detail.item)

\* The rest of paintDrawer; a failure shows an error.
DetailAnswered(d, ok) ==
  /\ d \in detailAsks /\ detailAsks' = detailAsks \ {d}
  /\ detail' = IF ok THEN [detail EXCEPT !.of = d] ELSE detail
  /\ UNCHANGED <<vars, topVars, answer, filter, cards>>

CloseDetail ==
  /\ detail.item # None /\ detail' = NoDetail /\ detailAsks' = {}
  /\ UNCHANGED <<vars, topVars, answer, filter, cards>>

\* What the engine does, with the hook of this card wherever it resets.
ChecksEngine ==
  \/ /\ \/ (\E d \in loads : ChartFailed(d)) \/ RunSlowTasks \/ ChooseOtherRange
        \/ \E d \in Databases : SelectInstance(d) /\ ~(active /\ dbId # d)
        \/ SwitchView(FALSE)
     /\ UNCHANGED checkVars
  \/ /\ \/ \E d \in Databases : SelectInstance(d) /\ active /\ dbId # d
        \/ SwitchView(TRUE)
     /\ ResetChecks

ChecksNext ==
  \/ watched # "checks" /\ TopNext /\ UNCHANGED checkVars
  \/ /\ watched = "checks"
     /\ \/ ChecksEngine
        \/ \E d \in loads, items \in SUBSET Severity : ChecksLoaded(d, items)
        \/ \E f \in Filters : ChooseFilter(f)
        \/ \E item \in Severity : OpenCheck(item)
        \/ NewWindow \/ CloseDetail
        \/ \E d \in detailAsks, ok \in BOOLEAN : DetailAnswered(d, ok)

ChecksSpec == ChecksInit /\ [][ChecksNext]_<<vars, topVars, checkVars>> /\ Fairness

-----------------------------------------------------------------------------
\* While the view is chosen, no card and no open detail of a check, and no lock, is of
\* another database than the chosen one, however late its answer comes: a detail is
\* asked of the database that is chosen when it is fetched or fetched again, so its
\* card must not outlive a change of database.
ChecksOfDatabase ==
  active =>
    /\ cards.db \in {None, currentDbId}
    /\ detail.of # None => detail.of = detail.card
\* The cards are those of the last answer that the pressed button admits: the button
\* stays pressed when the database changes.
CardsUnderFilter == cards.items = {s \in answer.items : filter \in {"all", s}}

\* Both cards of the view tell of the chosen database, and the kill panel of the lock
\* card lists and ticks nobody the operator was not shown.
CardsOfDatabase ==
  ChecksTypeOK /\ LockOfCurrentDatabase /\ PanelIsApproved /\ ChecksOfDatabase /\ CardsUnderFilter
=============================================================================
