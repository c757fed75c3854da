--------------------------- MODULE SessionMonitor ---------------------------
(***************************************************************************)
(* The Current Session menu of app.js: the session list with its automatic *)
(* refresh, the two ASH charts with their 30 second polling, the range     *)
(* buttons, and the clicks that change database or menu under them.        *)
(*                                                                         *)
(* Every event handler runs to its first await without being interrupted,  *)
(* so a handler up to its requests is one action and the rest of it, when  *)
(* the answer is there, another.  Superseded requests that are alike       *)
(* (same database, same continuation) are kept as one.  The list and the   *)
(* charts share the chosen database and the open menu and never read each  *)
(* other's state, so a behaviour follows the requests of one of the two.   *)
(***************************************************************************)
EXTENDS Naturals, Sequences, FiniteSets

CONSTANTS
  Databases,      \* instances of the configuration tree
  Session,        \* (SID, SERIAL#) pairs; both databases may know the same pair
  SortsWhileWaiting, \* does the user sort a list whose answer is still awaited?
  Blank, Error,   \* a panel that was cleared; a panel that reports a failure
  MaxSuperseded,  \* bound: superseded requests and polling rounds on their way
  MaxClicks       \* bound: delayed clicks of the refresh button on their way

ASSUME BlankAssumption == Blank \notin Databases /\ Error \notin Databases /\ Blank # Error
ASSUME SortAssumption == SortsWhileWaiting \in BOOLEAN
ASSUME BoundAssumption == MaxSuperseded \in Nat /\ MaxClicks \in Nat

VARIABLES
  watched,        \* the part this behaviour follows: "list" or "charts"
  currentDbId,    \* window.currentDbId
  tab,            \* the active section: "session" or any "other"
  hidden,         \* document.hidden
  sessionReqs,    \* session list requests on their way
  sessionRows,    \* sessionTbody: Blank, Error or whose sessions it lists
  listed,         \* the active sessions it lists
  checked,        \* those whose box is ticked
  lastActive,     \* lastActiveSessions: what the last answer said, and of whom
  killing,        \* databases with a kill_session call on its way
  sessionPainted, \* flips when the list is painted (history variable)
  spinning,       \* the spinner of the refresh button
  auto,           \* isSessionAutoRefreshing
  sessionTimers,  \* pending session timers, oldest first; sessionTimer is the last
  toggleClicks,   \* clicks of the toggle that switchTab put off by 100 ms
  ashRounds,      \* rounds of fetchAshPanels on their way
  ashTimers,      \* pending ASH timers, oldest first; ashActivityTimer is the last
  ashChart,       \* lastAshActivityData: Blank, Error message or whose data
  topChart,       \* lastAshTopSqlData likewise
  longRange,      \* isAshLongRange()
  topNotice       \* the "30 minutes and 1 hour only" notice over the chart

pageVars == <<watched, currentDbId, tab, hidden>>
rowVars == <<sessionRows, listed, checked, lastActive, sessionPainted>>
listVars == <<sessionReqs, spinning, killing, rowVars>>
refreshVars == <<auto, sessionTimers, toggleClicks>>
ashVars == <<ashRounds, ashTimers, ashChart, topChart, longRange, topNotice>>
vars == <<pageVars, listVars, refreshVars, ashVars>>

-----------------------------------------------------------------------------
\* What a continuation closed over: no generation, the newest, an older one.
Gen == {"none", "newest", "older"}

\* ++generation: what closed over the newest generation holds an older one now.
Age(g) == IF g = "newest" THEN "older" ELSE g
AgeAll(reqs) == {[r EXCEPT !.gen = Age(@)] : r \in reqs}
\* clearTimeout drops the timer scheduled last; ++generation ages the others.
Cancelled(timers) == [i \in 1..(Len(timers) - 1) |-> Age(timers[i])]

SessionReq == [db : Databases, latest : BOOLEAN, gen : Gen]
AshRound == [db : Databases, gen : Gen,
             ash : {"history", "realtime", "done"}, ashLatest : BOOLEAN,
             top : {"wait", "done"}, topLatest : BOOLEAN]

TypeOK ==
  /\ watched \in {"list", "charts"}
  /\ currentDbId \in Databases \cup {Blank}
  /\ tab \in {"session", "other"} /\ hidden \in BOOLEAN
  /\ sessionReqs \subseteq SessionReq
  /\ sessionRows \in Databases \cup {Blank, Error}
  /\ listed \subseteq Session /\ checked \subseteq Session /\ killing \subseteq Databases
  /\ lastActive \in [db : Databases \cup {Blank}, rows : SUBSET Session]
  /\ sessionPainted \in BOOLEAN /\ spinning \in BOOLEAN /\ auto \in BOOLEAN
  /\ sessionTimers \in Seq(Gen) /\ ashTimers \in Seq(Gen)
  /\ toggleClicks \in 0..MaxClicks
  /\ ashRounds \subseteq AshRound
  /\ ashChart \in Databases \cup {Blank, Error}
  /\ topChart \in Databases \cup {Blank, Error}
  /\ longRange \in BOOLEAN /\ topNotice \in BOOLEAN

Init ==
  /\ watched \in {"list", "charts"}
  /\ currentDbId = Blank /\ tab \in {"session", "other"} /\ hidden = FALSE
  /\ sessionReqs = {} /\ sessionRows = Blank /\ sessionPainted = FALSE
  /\ spinning = FALSE /\ listed = {} /\ checked = {} /\ killing = {}
  /\ lastActive = [db |-> Blank, rows |-> {}]
  /\ auto = FALSE /\ sessionTimers = <<>> /\ toggleClicks = 0
  /\ ashRounds = {} /\ ashTimers = <<>> /\ ashChart = Blank /\ topChart = Blank
  /\ longRange = FALSE /\ topNotice = FALSE

-----------------------------------------------------------------------------
SectionVisible(section, off) == section = "session" /\ ~off

\* begin(): the new request is the newest, the others no longer are.
Begin(reqs, d, g) ==
  {[r EXCEPT !.latest = FALSE] : r \in reqs} \cup {[db |-> d, latest |-> TRUE, gen |-> g]}

\* Mutant: only the sequence number is compared, not the database.
StaleBySequence(latest, d) == ~latest
\* Mutant: only the database is compared, as before the guard existed.
StaleByDatabase(latest, d) == d # currentDbId
IsStale(latest, d) == ~latest \/ d # currentDbId

Asking(part) == watched = part /\ SectionVisible(tab, hidden) /\ currentDbId # Blank

\* fetchSessions up to its await, called with the page's state as it is.
FetchSessions(g) ==
  /\ IF Asking("list")
     THEN sessionReqs' = Begin(AgeAll(sessionReqs), currentDbId, g) /\ spinning' = TRUE
     ELSE sessionReqs' = AgeAll(sessionReqs) /\ UNCHANGED spinning
  /\ UNCHANGED <<rowVars, killing>>

\* Mutant: a stopped refresh is taken up again by the request it left behind.
ResumesIfOn(g) == auto /\ g # "none"
\* Mutant: a refresh whose menu was left is not taken up again.
ResumesWhenShown(g) == auto /\ g = "newest" /\ SectionVisible(tab, hidden)
\* generation === sessionRefreshGeneration && isSessionAutoRefreshing
Resumes(g) == auto /\ g = "newest"

SpinnerAfter(r) == IF r.latest THEN FALSE ELSE spinning

\* renderActiveSessionRows: the rows of the last answer, with the boxes ticked
\* whose (SID, SERIAL#) was ticked before.
RenderRows(last) ==
  /\ sessionRows' = last.db
  /\ listed' = last.rows
  /\ checked' = checked \cap last.rows

\* A message row takes the place of the list, and of its boxes.
RowsReplacedBy(message) == sessionRows' = message /\ listed' = {} /\ checked' = {}

\* The list and, from the same answer, the tabs beside it: transactions, sessions
\* over database links, parallel ones and pending distributed transactions.
PaintList == sessionPainted' = ~sessionPainted

\* The rest of fetchSessions and of what awaited it: the list and the extra
\* tabs are painted, or the error, unless the answer is stale.
SessionsAnswered(r, ok, rows) ==
  /\ r \in sessionReqs
  /\ sessionReqs' = sessionReqs \ {r}
  /\ spinning' = SpinnerAfter(r)
  /\ CASE IsStale(r.latest, r.db) -> UNCHANGED rowVars
       [] ~IsStale(r.latest, r.db) /\ ok ->
            /\ lastActive' = [db |-> r.db, rows |-> rows]
            /\ RenderRows(lastActive')
            /\ PaintList
       [] OTHER -> /\ RowsReplacedBy(Error)
                   /\ PaintList
                   /\ UNCHANGED lastActive
  /\ sessionTimers' = IF Resumes(r.gen) THEN Append(sessionTimers, "newest") ELSE sessionTimers
  /\ UNCHANGED <<pageVars, killing, auto, toggleClicks, ashVars>>

\* The header of the duration column: the kept rows are drawn again, sorted.
SortByDuration ==
  /\ watched = "list" /\ SectionVisible(tab, hidden)
  /\ SortsWhileWaiting \/ sessionRows \in Databases
  /\ lastActive.db # Blank
  /\ RenderRows(lastActive)
  /\ UNCHANGED <<pageVars, sessionReqs, spinning, killing, lastActive, sessionPainted,
                 refreshVars, ashVars>>

\* A box of the list, or the box that ticks them all.
TickBoxes(ticked) ==
  /\ ticked \subseteq listed /\ ticked # checked
  /\ SectionVisible(tab, hidden)
  /\ checked' = ticked
  /\ UNCHANGED <<pageVars, sessionReqs, spinning, killing, sessionRows, listed, lastActive,
                 sessionPainted, refreshVars, ashVars>>

\* killSessions up to its await: the ticked pairs go to the chosen database.
KillSessions ==
  /\ SectionVisible(tab, hidden)
  /\ checked # {} /\ killing = {}
  /\ killing' = {currentDbId}
  /\ UNCHANGED <<pageVars, sessionReqs, spinning, rowVars, refreshVars, ashVars>>

\* The rest of it: on success the refresh button is pressed, which does nothing
\* while the automatic refresh has it disabled.
KillAnswered(ok) ==
  /\ killing # {}
  /\ killing' = {}
  /\ IF ok /\ ~auto /\ Asking("list")
     THEN sessionReqs' = Begin(sessionReqs, currentDbId, "none") /\ spinning' = TRUE
     ELSE UNCHANGED <<sessionReqs, spinning>>
  /\ UNCHANGED <<pageVars, rowVars, refreshVars, ashVars>>

\* The refresh button.
Refresh ==
  /\ watched = "list" /\ ~auto /\ SectionVisible(tab, hidden)
  /\ IF Asking("list")
     THEN /\ sessionReqs' = Begin(sessionReqs, currentDbId, "none")
          /\ spinning' = TRUE
     ELSE UNCHANGED <<sessionReqs, spinning>>
  /\ UNCHANGED <<pageVars, killing, rowVars, refreshVars, ashVars>>

\* scheduleNextSessionFetch's timer fires; a hidden menu only reschedules.
SessionTick ==
  /\ sessionTimers # <<>>
  /\ LET g == Head(sessionTimers) IN
       IF Asking("list")
       THEN /\ sessionReqs' = Begin(sessionReqs, currentDbId, g)
            /\ spinning' = TRUE
            /\ sessionTimers' = Tail(sessionTimers)
       ELSE /\ sessionTimers' = IF Resumes(g) THEN Append(Tail(sessionTimers), g)
                                              ELSE Tail(sessionTimers)
            /\ UNCHANGED <<sessionReqs, spinning>>
  /\ UNCHANGED <<pageVars, killing, rowVars, auto, toggleClicks, ashVars>>

\* The toggle's handler: stop and start both make a new generation.
Toggled ==
  /\ auto' = ~auto
  /\ IF auto
     THEN /\ sessionTimers' = Cancelled(sessionTimers)
          /\ sessionReqs' = AgeAll(sessionReqs)
          /\ UNCHANGED <<spinning, killing, rowVars>>
     ELSE /\ FetchSessions("newest")
          /\ sessionTimers' = LET left == [i \in DOMAIN sessionTimers |-> Age(sessionTimers[i])]
                              IN IF Asking("list") THEN left ELSE Append(left, "newest")

ToggleByUser ==
  /\ watched = "list" /\ SectionVisible(tab, hidden)
  /\ Toggled
  /\ UNCHANGED <<pageVars, toggleClicks, ashVars>>

\* The click that switchTab("session") put off by 100 ms.
ToggleDelayed ==
  /\ toggleClicks > 0
  /\ toggleClicks' = toggleClicks - 1
  /\ Toggled
  /\ UNCHANGED <<pageVars, ashVars>>

-----------------------------------------------------------------------------
\* fetchAshPanels: both charts ask, the Top SQL chart only in a short range.
Round(d, g) == [db |-> d, gen |-> g, ash |-> "history", ashLatest |-> TRUE,
                top |-> IF longRange' THEN "done" ELSE "wait", topLatest |-> ~longRange']
StartRound(rounds, d, g) ==
  {[q EXCEPT !.ashLatest = FALSE, !.topLatest = @ /\ longRange'] : q \in rounds}
    \cup {Round(d, g)}
\* invalidate() on both guards.
Invalidated(rounds) == {[q EXCEPT !.ashLatest = FALSE, !.topLatest = FALSE] : q \in rounds}

\* restartAshActivityPolling: cancel the timer, new generation, ask at once;
\* with nothing to ask the first timer starts at once.
RestartAshPolling(rounds, timers, d, asking) ==
  /\ ashRounds' = IF asking THEN StartRound(AgeAll(rounds), d, "newest") ELSE AgeAll(rounds)
  /\ ashTimers' = IF asking THEN Cancelled(timers) ELSE Append(Cancelled(timers), "newest")

\* A round goes on while one of its two charts waits; its end starts the
\* next timer of its generation.
RoundAfter(q, changed) ==
  IF changed.ash = "done" /\ changed.top = "done"
  THEN /\ ashRounds' = ashRounds \ {q}
       /\ ashTimers' = IF q.gen = "newest" THEN Append(ashTimers, "newest") ELSE ashTimers
  ELSE /\ ashRounds' = (ashRounds \ {q}) \cup {changed}
       /\ UNCHANGED ashTimers

\* Whose series the chart shows: key figures, legend, table and areas are all drawn
\* from one answer.
ChartOf(q) == q.db
\* The same for the bars of the Top SQL chart and their legend.
TopChartOf(q) == q.db

\* fetchAshActivity after an await: the stored series, the real-time one when
\* nothing is stored for a short range, and the chart drawn from it.
AshActivityAnswered(q, answer) ==
  LET stale == IsStale(q.ashLatest, q.db)
      again == q.ash = "history" /\ answer = "empty" /\ ~longRange /\ ~stale
  IN /\ q \in ashRounds /\ q.ash # "done"
     /\ RoundAfter(q, IF again THEN [q EXCEPT !.ash = "realtime"]
                               ELSE [q EXCEPT !.ash = "done", !.ashLatest = FALSE])
     /\ ashChart' = CASE stale \/ again -> ashChart
                      [] ~stale /\ answer = "error" -> IF ashChart = Blank THEN Error ELSE ashChart
                      [] OTHER -> ChartOf(q)
     /\ UNCHANGED <<pageVars, listVars, refreshVars, topChart, longRange, topNotice>>

\* fetchAshTopSql after its await; drawing the chart removes the notice.
AshTopSqlAnswered(q, ok) ==
  LET stale == IsStale(q.topLatest, q.db)
  IN /\ q \in ashRounds /\ q.top = "wait"
     /\ RoundAfter(q, [q EXCEPT !.top = "done", !.topLatest = FALSE])
     /\ topChart' = CASE stale -> topChart
                      [] ~stale /\ ~ok -> IF topChart = Blank THEN Error ELSE topChart
                      [] OTHER -> TopChartOf(q)
     /\ topNotice' = IF ok /\ ~stale THEN FALSE ELSE topNotice
     /\ UNCHANGED <<pageVars, listVars, refreshVars, ashChart, longRange>>

\* renderAshTopSqlLongRangeNotice, which every round of a long range calls.
TopSqlOfRange(asking, chart) ==
  /\ topChart' = IF asking /\ longRange' THEN Blank ELSE chart
  /\ topNotice' = IF asking /\ longRange' THEN TRUE ELSE topNotice

AshTick ==
  /\ ashTimers # <<>>
  /\ UNCHANGED longRange
  /\ IF Asking("charts")
     THEN /\ ashRounds' = StartRound(ashRounds, currentDbId, Head(ashTimers))
          /\ ashTimers' = Tail(ashTimers)
     ELSE /\ ashTimers' = IF Head(ashTimers) = "newest"
                          THEN Append(Tail(ashTimers), "newest") ELSE Tail(ashTimers)
          /\ UNCHANGED ashRounds
  /\ TopSqlOfRange(Asking("charts"), topChart)
  /\ UNCHANGED <<pageVars, listVars, refreshVars, ashChart>>

\* A range button.
ChooseRange(long) ==
  /\ watched = "charts" /\ SectionVisible(tab, hidden)
  /\ longRange' = long
  /\ RestartAshPolling(ashRounds, ashTimers, currentDbId, Asking("charts"))
  /\ TopSqlOfRange(Asking("charts"), topChart)
  /\ UNCHANGED <<pageVars, listVars, refreshVars, ashChart>>

-----------------------------------------------------------------------------
\* resetSessionMonitor's part in the list: the tables say "connecting"; the
\* rows kept for sorting stay.
ResetSessionMonitor == RowsReplacedBy(Blank)

\* switchTab("session") turns a refresh that is off on, 100 ms later.
PutOffToggle == IF watched = "list" /\ ~auto THEN toggleClicks + 1 ELSE toggleClicks

\* The click on an instance (in the tree, or passed on by the drop-down):
\* resetSessionMonitor and then switchTab of the menu that is open, so that
\* with the session menu open the list and the charts are asked for twice.
SelectDatabase(d) ==
  LET visible == SectionVisible(tab, hidden)
      list == visible /\ watched = "list"
      charts == visible /\ watched = "charts"
      first == IF charts THEN {[q EXCEPT !.gen = "older"] :
                                  q \in StartRound(Invalidated(AgeAll(ashRounds)), d, "newest")}
                         ELSE Invalidated(ashRounds)
  IN /\ currentDbId' = d
     /\ UNCHANGED longRange
     /\ sessionReqs' = IF list THEN Begin(Begin(sessionReqs, d, "none"), d, "none") ELSE sessionReqs
     /\ spinning' = (spinning \/ list)
     /\ ResetSessionMonitor
     /\ UNCHANGED <<killing, lastActive, sessionPainted>>
     /\ RestartAshPolling(first, ashTimers, d, charts)
     /\ ashChart' = Blank
     /\ TopSqlOfRange(charts, Blank)
     /\ toggleClicks' = IF tab = "session" THEN PutOffToggle ELSE toggleClicks
     /\ UNCHANGED <<watched, tab, hidden, auto, sessionTimers>>

\* switchTab("session"): the refresh is turned on, and list and charts asked for.
OpenSessionMenu ==
  LET list == watched = "list" /\ currentDbId # Blank
      charts == watched = "charts" /\ currentDbId # Blank
  IN /\ ~hidden
     /\ tab' = "session"
     /\ UNCHANGED <<watched, currentDbId, hidden, longRange, auto, sessionTimers>>
     /\ toggleClicks' = PutOffToggle
     /\ sessionReqs' = IF list THEN Begin(sessionReqs, currentDbId, "none") ELSE sessionReqs
     /\ spinning' = (spinning \/ list)
     /\ UNCHANGED <<killing, rowVars, ashChart>>
     /\ IF currentDbId = Blank
        THEN UNCHANGED <<ashRounds, ashTimers, topChart, topNotice>>
        ELSE /\ RestartAshPolling(ashRounds, ashTimers, currentDbId, charts)
             /\ TopSqlOfRange(charts, topChart)

\* switchTab of another menu, as far as this one goes.
OpenOtherMenu ==
  /\ ~hidden /\ tab = "session"
  /\ tab' = "other"
  /\ UNCHANGED <<watched, currentDbId, hidden, listVars, refreshVars, ashVars>>

\* The browser tab goes to the background or comes back.
HideOrShow ==
  /\ hidden' = ~hidden
  /\ UNCHANGED <<watched, currentDbId, tab, listVars, refreshVars, ashVars>>

-----------------------------------------------------------------------------
\* The bounds, not the code's.
Bounded ==
  /\ toggleClicks' <= MaxClicks
  /\ Cardinality({r \in sessionReqs' : ~r.latest}) +
       Cardinality({q \in ashRounds' : ~q.ashLatest /\ (q.ash # "done" \/ ~q.topLatest)})
       <= MaxSuperseded

AnswerSessions == \E r \in sessionReqs : \E ok \in BOOLEAN, rows \in SUBSET Session : SessionsAnswered(r, ok, rows)
AnswerAsh == \E q \in ashRounds :
                \/ \E answer \in {"rows", "empty", "error"} : AshActivityAnswered(q, answer)
                \/ \E ok \in BOOLEAN : AshTopSqlAnswered(q, ok)

Next ==
  /\ \/ AnswerSessions \/ AnswerAsh
     \/ SortByDuration \/ \E ticked \in SUBSET Session : TickBoxes(ticked)
     \/ KillSessions \/ \E ok \in BOOLEAN : KillAnswered(ok)
     \/ Refresh \/ SessionTick \/ ToggleByUser \/ ToggleDelayed
     \/ AshTick \/ \E long \in BOOLEAN : ChooseRange(long)
     \/ \E d \in Databases : SelectDatabase(d)
     \/ OpenSessionMenu \/ OpenOtherMenu \/ HideOrShow
  /\ Bounded

Spec == Init /\ [][Next]_vars

\* A request is answered or fails in the end, whichever it is of those on
\* their way, and a timer fires.  Nothing is assumed of the user.
Answered(reqs) == (\E r \in reqs : \E ok \in BOOLEAN, rows \in SUBSET Session : SessionsAnswered(r, ok, rows)) /\ Bounded
Fairness ==
  /\ WF_vars(Answered({r \in sessionReqs : r.latest}))
  /\ WF_vars(Answered({r \in sessionReqs : r.gen = "newest"}))
  /\ WF_vars(Answered({r \in sessionReqs : ~r.latest}))
  /\ WF_vars(SessionTick /\ Bounded)
FairSpec == Spec /\ Fairness

-----------------------------------------------------------------------------
\* The list never shows the sessions of a database that is not the chosen one,
\* and neither chart does, however late the answers come and however often the
\* user goes from one database to another and back.
ShowsCurrentDatabase ==
  /\ sessionRows \in {Blank, Error, currentDbId}
  /\ ashChart \in {Blank, Error, currentDbId}
  /\ topChart \in {Blank, Error, currentDbId}

\* What is ticked in the list, and would be killed in the chosen database, was
\* listed for that database: neither a change of database, nor a list that
\* another answer replaced, leaves a box ticked that belongs elsewhere.
TickedOfCurrentDatabase ==
  checked # {} => sessionRows = currentDbId /\ checked \subseteq listed

\* How many continuations of the newest generation are alive in a set of
\* requests and a queue of timers.
Live(reqs, timers) == Cardinality({r \in reqs : r.gen = "newest"})
                        + Cardinality({i \in DOMAIN timers : timers[i] = "newest"})

\* Start, stop and start again, at any moment of a request: while the refresh is
\* on exactly one chain polls the sessions, while it is off none will resume,
\* and two timers are never pending.
OneSessionChain ==
  /\ Live(sessionReqs, sessionTimers) = IF auto THEN 1 ELSE 0
  /\ Len(sessionTimers) <= 1

\* Once a database was chosen exactly one chain polls the ASH charts, through
\* every change of range, database and menu.
OneAshChain ==
  /\ currentDbId # Blank => Live(ashRounds, ashTimers) = 1
  /\ Len(ashTimers) <= 1

\* The list keeps the promise of the guard: it is painted once per question and
\* by the newest request only.
List == INSTANCE LatestRequest WITH
  subject <- currentDbId,
  asked <- \E r \in sessionReqs : r.latest /\ r.db = currentDbId,
  shown <- sessionRows,
  painted <- sessionPainted
ListKeepsPromise == List!Spec

\* The spinner of the refresh button stops, whether answers fail, are stale or
\* overtake each other.
SpinnerStops == spinning ~> ~spinning

\* With the refresh on and the menu open the sessions are asked for again and again.
RefreshGoesOn == <>[](auto /\ Asking("list")) => []<><<SessionTick>>_vars

\* Whatever is on the page, and whoever is ticked on it, belongs to the chosen database.
PageOfCurrentDatabase == TypeOK /\ ShowsCurrentDatabase /\ TickedOfCurrentDatabase

\* Neither polling chain is doubled or lost.
OneChainEach == OneSessionChain /\ OneAshChain

\* Waiting ends: the spinner stops, and the refresh goes on.
WaitingEnds == SpinnerStops /\ RefreshGoesOn
=============================================================================
