--------------------------- MODULE PerfAnalysis ---------------------------
(***************************************************************************)
(* The performance analysis menu (perf-analysis.js): a chart of a range,   *)
(* below it the events of the range or of a part of it that was dragged    *)
(* out, and a clock that notices once a second that the menu was opened or *)
(* that another database was chosen.  A range stands for its times, the    *)
(* filters and the source it was searched with.                            *)
(***************************************************************************)
EXTENDS MonitorPanels

CONSTANT MaxPerf      \* bound: requests on their way where the user makes one more

ASSUME MaxPerfAssumption == MaxPerf \in Nat

VARIABLES
  pfDb, pfRange,  \* st.dbId and st.range: searched last
  pfSel,          \* st.sel: is a part of the range selected?
  pfInit,         \* st.initFor: whose clock was read for the default range
  pfHead,         \* the heading over the events; where it names a range there is a chart
  pfEvents,       \* the events below it, if any are drawn
  pfOverlay,
  pfAsks          \* requests on their way

perfVars == <<pfDb, pfRange, pfSel, pfInit, pfHead, pfEvents, pfOverlay, pfAsks>>

-----------------------------------------------------------------------------
\* The last quarter of an hour, one that ends in the future, and what the server
\* makes of that.
PerfRange == {"recent", "late", "cut"}
ASSUME RangeAssumption == None \notin PerfRange
Cut(range) == IF range = "late" THEN "cut" ELSE range

\* "drawn": nothing has increased eventsGen since; "awaited": the newest search waits
\* for these events before it hides the overlay.
Ask == [kind : {"now", "search", "events"}, db : Databases, range : PerfRange \cup {None},
        sel : BOOLEAN, drawn : BOOLEAN, awaited : BOOLEAN]

PerfTypeOK ==
  /\ pfDb \in Databases \cup {None} /\ pfRange \in PerfRange \cup {None} /\ pfSel \in BOOLEAN
  /\ pfInit \in Databases \cup {None} /\ pfOverlay \in BOOLEAN
  /\ pfHead = None \/ pfHead \in [range : PerfRange, sel : BOOLEAN]
  /\ pfEvents = None \/ pfEvents \in [range : PerfRange, sel : BOOLEAN]
  /\ pfAsks \subseteq Ask

PerfInit ==
  /\ pfDb = None /\ pfRange = None /\ pfSel = FALSE /\ pfInit = None
  /\ pfHead = None /\ pfEvents = None /\ pfOverlay = FALSE /\ pfAsks = {}

InMenu == watched = "history" /\ section = "history"
Room == Cardinality(pfAsks) < MaxPerf

-----------------------------------------------------------------------------
\* An old request's answer changes nothing any more, so that it is forgotten here.
NotOld(asks) == {a \in asks : a.drawn \/ a.awaited}
\* ++gen: searches under way are old, and none of them waits for events any more.
SearchesOld(asks) ==
  NotOld({[a EXCEPT !.drawn = @ /\ a.kind # "search", !.awaited = FALSE] : a \in asks})
\* ++eventsGen
EventsOld(asks) == NotOld({[a EXCEPT !.drawn = @ /\ a.kind # "events"] : a \in asks})

\* search() up to its await, with inputs it accepts.
StartSearch(d, range, asks) ==
  /\ pfDb' = d /\ pfRange' = range /\ pfSel' = FALSE /\ pfOverlay' = TRUE
  /\ pfAsks' = SearchesOld(asks) \cup
       {[kind |-> "search", db |-> d, range |-> range, sel |-> FALSE, drawn |-> TRUE, awaited |-> FALSE]}

\* renderSelection and loadEvents up to its await.
LoadEvents(d, range, sel, asks, awaited) ==
  /\ pfHead' = [range |-> range, sel |-> sel]
  /\ pfEvents' = None
  /\ pfAsks' = EventsOld(asks) \cup
       {[kind |-> "events", db |-> d, range |-> range, sel |-> sel, drawn |-> TRUE, awaited |-> awaited]}

\* The search button.
Search(range) ==
  /\ InMenu /\ Room /\ currentDbId # None /\ range \in {"recent", "late"}
  /\ StartSearch(currentDbId, range, pfAsks)
  /\ UNCHANGED <<panelVars, watched, pfInit, pfHead, pfEvents>>

\* "finally": drawn or not; a search that is drawn waits for its events first.
Hides(drawn) == ~drawn

\* search() after its await.
SearchAnswered(a, ok) ==
  /\ a \in pfAsks /\ a.kind = "search"
  /\ LET drawn == ok /\ a.db = currentDbId
         rest == pfAsks \ {a}
     IN /\ pfOverlay' = (pfOverlay /\ ~Hides(drawn))
        /\ IF drawn
           THEN /\ pfRange' = Cut(a.range)
                /\ LoadEvents(a.db, pfRange', pfSel, rest, TRUE)
           ELSE /\ pfAsks' = rest /\ UNCHANGED <<pfRange, pfHead>>
                /\ pfEvents' = IF ~ok THEN None ELSE pfEvents
  /\ UNCHANGED <<panelVars, watched, pfDb, pfSel, pfInit>>

\* loadEvents after its await, and the search that waited for it.
EventsAnswered(a, ok) ==
  /\ a \in pfAsks /\ a.kind = "events"
  /\ pfAsks' = pfAsks \ {a}
  /\ pfEvents' = IF ~a.drawn \/ (ok /\ a.db # currentDbId) THEN pfEvents
                 ELSE IF ok THEN [range |-> a.range, sel |-> a.sel] ELSE None
  /\ pfOverlay' = (pfOverlay /\ ~a.awaited)
  /\ UNCHANGED <<panelVars, watched, pfDb, pfRange, pfSel, pfInit, pfHead>>

\* A drag over the chart selects a part, the link beside the heading the whole again.
SelectPart(sel) ==
  /\ InMenu /\ Room /\ pfRange # None
  /\ pfHead # None /\ (sel \/ pfHead.sel)
  /\ pfSel' = sel
  /\ LoadEvents(pfDb, pfRange, sel, pfAsks, FALSE)
  /\ UNCHANGED <<panelVars, watched, pfDb, pfRange, pfInit, pfOverlay>>

-----------------------------------------------------------------------------
\* ensureDefaultRange up to its await.
AskNow(d, asks) ==
  IF d = None \/ pfInit = d THEN pfAsks' = asks /\ UNCHANGED pfInit
  ELSE /\ pfInit' = d
       /\ pfAsks' = asks \cup {[kind |-> "now", db |-> d, range |-> None, sel |-> FALSE,
                                drawn |-> TRUE, awaited |-> FALSE]}

\* The clock: another database's results go, but not the overlay; then the default range.
HistoryTick ==
  /\ InMenu
  /\ IF pfRange # None /\ pfDb # currentDbId
     THEN /\ pfRange' = None /\ pfSel' = FALSE /\ pfHead' = None
          /\ pfEvents' = None
          /\ AskNow(currentDbId, SearchesOld(EventsOld(pfAsks)))
     ELSE AskNow(currentDbId, pfAsks) /\ UNCHANGED <<pfRange, pfSel, pfHead, pfEvents>>
  /\ UNCHANGED <<panelVars, watched, pfDb, pfOverlay>>

InitAfterFailure == None

\* ensureDefaultRange after its await: the first look at a database searches at once.
NowAnswered(a, ok) ==
  /\ a \in pfAsks /\ a.kind = "now"
  /\ IF ok /\ pfRange = None /\ a.db = currentDbId
     THEN StartSearch(a.db, "recent", pfAsks \ {a})
     ELSE pfAsks' = pfAsks \ {a} /\ UNCHANGED <<pfDb, pfRange, pfSel, pfOverlay>>
  /\ pfInit' = IF ok THEN pfInit ELSE InitAfterFailure
  /\ UNCHANGED <<panelVars, watched, pfHead, pfEvents>>

-----------------------------------------------------------------------------
PerfAnswers == \E a \in pfAsks, ok \in BOOLEAN :
  SearchAnswered(a, ok) \/ EventsAnswered(a, ok) \/ NowAnswered(a, ok)
ClockRead(d) == \E a \in pfAsks : a.db = d /\ NowAnswered(a, TRUE)

PerfNext ==
  \/ \E range \in PerfRange : Search(range)
  \/ \E sel \in BOOLEAN : SelectPart(sel)
  \/ HistoryTick \/ PerfAnswers

-----------------------------------------------------------------------------
\* The events below a heading are those of the range, or of the part of it, that the
\* heading names, however searches, drags, answers and the clock follow one another.
EventsUnderHeading == pfEvents \in {None, pfHead}

\* The overlay over a result goes: the search it belongs to, or the events that search
\* waits for, are on their way.
OverlayAwaits ==
  pfOverlay /\ pfRange # None => \E a \in pfAsks : a.awaited \/ a.kind = "search"

\* Who opens the menu for a database and stays sees it searched, also if its clock
\* could not be read at first.  The premise leaves out a database that was left and
\* chosen again while its clock was read: it counts as done, and the page stays empty.
Stays(d) == InMenu /\ currentDbId = d
AnalysisArrives == \A d \in Databases :
  Stays(d) /\ pfInit # d ~> (~Stays(d) \/ (pfDb = d /\ pfRange # None))
=============================================================================
