---------------------------- MODULE NdDashboard ----------------------------
(***************************************************************************)
(* The instance dashboard: the polling engine of nd-dashboard.js with its  *)
(* fast (lock) and slow (everything else) tasks, and the lock card of      *)
(* nd-lock.js with the panel from which TM lock holders are killed.        *)
(*                                                                         *)
(* A generation number is only ever compared with the newest one, so what  *)
(* closed over it carries "newest" or "older".  Runs of an older           *)
(* generation that are alike are kept as one.  Every ++gen cancels the two *)
(* timers or finds none, so a pending timer is always of the newest        *)
(* generation and only whether it is pending is kept.  The engine never    *)
(* reads the card, and the card only the chosen database, so a behaviour   *)
(* follows one of the two, or the chart and lists of NdTop.                *)
(***************************************************************************)
EXTENDS Naturals, FiniteSets

CONSTANTS
  Databases,
  None,          \* no database is chosen yet, nothing was answered yet
  Holder,        \* (SID, SERIAL#) pairs; a pair can exist in every database
  ReturnsByHash, \* does the user come back to the dashboard by the Back button?
  MaxOlder       \* bound: runs of an older generation on their way

ASSUME NoneAssumption == None \notin Databases
ASSUME HashAssumption == ReturnsByHash \in BOOLEAN
ASSUME OlderAssumption == MaxOlder \in Nat

VARIABLES
  watched,      \* the part this behaviour follows: "engine", "card", "top" or "checks"
  currentDbId,  \* window.currentDbId
  menu,         \* is the dashboard the active section?
  hidden,       \* document.hidden
  active,       \* state.active: this view, not the other dashboard, is chosen
  hooks,        \* put-off parts of menu clicks: "pause" (0 ms), "resume" (50 ms)
  dbId,         \* state.dbId
  auto,         \* state.auto
  fastTimer, slowTimer, \* is state.fastTimer, state.slowTimer pending?
  refreshes,    \* refreshNow calls on their way, and which parts still wait
  fastRuns,     \* run('fast') calls of a timer
  slowRuns,     \* run('slow') calls of a timer or of a range button
  last,         \* st.last: whose lock answer the card shows, and what it said
  pending,      \* st.pending
  panel,        \* the panel and its rows
  killCalls,    \* kill requests on their way
  approved      \* holders the operator saw ticked or ticked (history variable)

pageVars == <<watched, currentDbId, menu, hidden, active>>
runVars == <<fastTimer, slowTimer, refreshes, fastRuns, slowRuns>>
cardVars == <<last, pending, panel, approved>>
vars == <<pageVars, hooks, dbId, auto, runVars, cardVars, killCalls>>

-----------------------------------------------------------------------------
NoAnswer == [db |-> None, holders |-> {}, incident |-> FALSE]
\* Blocking holders make an incident; those an answer lists can be killed, and need not
\* be among the blocking ones.
Answers(d) == [db : {d}, holders : SUBSET Holder, incident : BOOLEAN]
NoPanel == [open |-> FALSE, db |-> None, listed |-> {}, checked |-> {}, gone |-> {}, busy |-> FALSE]

Gen == {"newest", "older"}
Refresh == [db : Databases, gen : Gen, fast : BOOLEAN, slow : BOOLEAN]
FastRun == [db : Databases, gen : Gen]
SlowRun == [db : Databases, gen : Gen, by : {"timer", "range"}]

TypeOK ==
  /\ watched \in {"engine", "card", "top", "checks"}
  /\ currentDbId \in Databases \cup {None} /\ dbId \in Databases \cup {None}
  /\ menu \in BOOLEAN /\ hidden \in BOOLEAN /\ active \in BOOLEAN /\ auto \in BOOLEAN
  /\ hooks \subseteq {"pause", "resume"}
  /\ fastTimer \in BOOLEAN /\ slowTimer \in BOOLEAN
  /\ refreshes \subseteq Refresh /\ fastRuns \subseteq FastRun /\ slowRuns \subseteq SlowRun
  /\ last \in [db : Databases \cup {None}, holders : SUBSET Holder, incident : BOOLEAN]
  /\ pending \in BOOLEAN
  /\ panel \in [open : BOOLEAN, db : Databases \cup {None}, listed : SUBSET Holder,
                checked : SUBSET Holder, gone : SUBSET Holder, busy : BOOLEAN]
  /\ killCalls \subseteq [db : Databases, targets : SUBSET Holder]
  /\ approved \subseteq Holder

\* The page when setView("nd") has just shown the view, no database chosen yet.
Init ==
  /\ watched \in {"engine", "card", "top", "checks"}
  /\ currentDbId = None /\ menu = TRUE /\ hidden = FALSE /\ active = TRUE
  /\ hooks = {} /\ dbId = None /\ auto = TRUE
  /\ fastTimer = FALSE /\ slowTimer = FALSE
  /\ refreshes = {} /\ fastRuns = {} /\ slowRuns = {}
  /\ last = NoAnswer /\ pending = FALSE /\ panel = NoPanel
  /\ killCalls = {} /\ approved = {}

-----------------------------------------------------------------------------
\* isVisible()
Shown(chosen, onMenu, off, d) == chosen /\ ~off /\ onMenu /\ d # None
IsVisible == Shown(active, menu, hidden, currentDbId)

\* ++state.gen for everything on its way.
Aged(runs) == {[r EXCEPT !.gen = "older"] : r \in runs}
Newest(runs) == {r \in runs : r.gen = "newest"}

\* Mutant: an answer is dropped only when another view was chosen.
StaleWhenHidden(r) == ~active
\* ctx.isStale()
IsStale(r) == r.gen # "newest" \/ r.db # currentDbId \/ ~active

\* Mutant: a run that was on its way when the refresh was stopped goes on.
SchedulesWhileShown == IsVisible
\* scheduleFast and scheduleSlow start a timer only then.
Schedules == auto /\ IsVisible

\* refreshNow: both kinds at once, unless this generation is refreshing already;
\* in a view that is not visible it is over before anything else happens.
RefreshNow(ongoing, visible, d) ==
  IF Newest(ongoing) # {}
  THEN refreshes' = ongoing /\ UNCHANGED <<fastTimer, slowTimer>>
  ELSE /\ refreshes' = ongoing \cup
             (IF visible THEN {[db |-> d, gen |-> "newest", fast |-> TRUE, slow |-> watched = "engine"]} ELSE {})
       /\ fastTimer' = FALSE /\ slowTimer' = FALSE

\* The reset hook of the lock card.
CardReset == last' = NoAnswer /\ pending' = FALSE /\ panel' = NoPanel /\ approved' = {}

\* reset(): new generation, no timers, empty panels, and a refresh if visible.
Reset(visible, d) ==
  /\ dbId' = d
  /\ RefreshNow(Aged(refreshes), visible, d)
  /\ fastRuns' = Aged(fastRuns) /\ slowRuns' = Aged(slowRuns)
  /\ CardReset

\* resume() and the active half of onDbChange().
Resume(visible, d) ==
  IF dbId # d THEN Reset(visible, d)
  ELSE /\ IF visible THEN RefreshNow(refreshes, visible, d)
                     ELSE UNCHANGED <<refreshes, fastTimer, slowTimer>>
       /\ UNCHANGED <<dbId, fastRuns, slowRuns, cardVars>>

-----------------------------------------------------------------------------
\* refreshPanel: sessions that ended are unticked for good, new ones are added unticked.
RefreshPanel(p, d) ==
  [p EXCEPT !.listed = @ \cup d.holders, !.gone = @ \cup (p.listed \ d.holders),
            !.checked = @ \ (p.listed \ d.holders)]

\* render: the figures, the incident bar and the chart follow the last answer; an open
\* panel follows it too, unless its kill is on its way.
Render(p, d) == IF p.open /\ ~p.busy THEN RefreshPanel(p, d) ELSE p

\* The 'lock' event and the render it ends with.  A refusal (403) raises none.
LockEvent(answer) ==
  CASE answer.outcome = "refused" -> UNCHANGED cardVars
    [] answer.outcome = "failed" -> pending' = TRUE /\ UNCHANGED <<last, panel, approved>>
    [] answer.outcome = "ok" ->
         /\ last' = answer.lock /\ pending' = FALSE
         /\ panel' = Render(panel, answer.lock)
         /\ UNCHANGED approved

\* loadLock when its answer is there.
LoadLock(r, answer) == IF IsStale(r) THEN UNCHANGED cardVars ELSE LockEvent(answer)

\* The fast timer's callback up to its await, and the rest of it.
FastTick ==
  /\ fastTimer
  /\ fastTimer' = FALSE
  /\ fastRuns' = IF IsVisible THEN fastRuns \cup {[db |-> currentDbId, gen |-> "newest"]} ELSE fastRuns
  /\ UNCHANGED <<pageVars, hooks, dbId, auto, slowTimer, refreshes, slowRuns, cardVars, killCalls>>

FastRunEnds(r, answer) ==
  /\ r \in fastRuns
  /\ fastRuns' = fastRuns \ {r}
  /\ LoadLock(r, answer)
  /\ fastTimer' = IF r.gen = "newest" THEN Schedules ELSE fastTimer
  /\ UNCHANGED <<pageVars, hooks, dbId, auto, slowTimer, refreshes, slowRuns, killCalls>>

SlowTick ==
  /\ watched = "engine"
  /\ slowTimer
  /\ slowTimer' = FALSE
  /\ slowRuns' = IF IsVisible
                 THEN slowRuns \cup {[db |-> currentDbId, gen |-> "newest", by |-> "timer"]} ELSE slowRuns
  /\ UNCHANGED <<pageVars, hooks, dbId, auto, fastTimer, refreshes, fastRuns, cardVars, killCalls>>

\* The run of a range button starts both timers, whatever generation it is now.
SlowRunEnds(r) ==
  /\ r \in slowRuns
  /\ slowRuns' = slowRuns \ {r}
  /\ slowTimer' = IF r.by = "range" \/ r.gen = "newest" THEN Schedules ELSE slowTimer
  /\ fastTimer' = IF r.by = "range" THEN Schedules ELSE fastTimer
  /\ UNCHANGED <<pageVars, hooks, dbId, auto, refreshes, fastRuns, cardVars, killCalls>>

\* One half of a refresh is answered; after the second both timers start.
RefreshHalfEnds(q, changed) ==
  IF changed.fast \/ changed.slow
  THEN refreshes' = (refreshes \ {q}) \cup {changed} /\ UNCHANGED <<fastTimer, slowTimer>>
  ELSE /\ refreshes' = refreshes \ {q}
       /\ IF q.gen = "newest" THEN fastTimer' = Schedules /\ slowTimer' = Schedules
                              ELSE UNCHANGED <<fastTimer, slowTimer>>

RefreshFastEnds(q, answer) ==
  /\ q \in refreshes /\ q.fast
  /\ LoadLock(q, answer)
  /\ RefreshHalfEnds(q, [q EXCEPT !.fast = FALSE])
  /\ UNCHANGED <<pageVars, hooks, dbId, auto, fastRuns, slowRuns, killCalls>>

RefreshSlowEnds(q) ==
  /\ q \in refreshes /\ q.slow
  /\ RefreshHalfEnds(q, [q EXCEPT !.slow = FALSE])
  /\ UNCHANGED <<pageVars, hooks, dbId, auto, fastRuns, slowRuns, cardVars, killCalls>>

-----------------------------------------------------------------------------
\* The click on an instance, which ends in onDbChange().
SelectDatabase(d) ==
  /\ currentDbId' = d
  /\ IF active THEN Resume(Shown(active, menu, hidden, d), d)
               ELSE UNCHANGED <<dbId, runVars, cardVars>>
  /\ UNCHANGED <<watched, menu, hidden, active, hooks, auto, killCalls>>

\* show() and hide(), by the switch between the two dashboards.
ChooseView(nd) ==
  /\ menu /\ ~hidden
  /\ active' = nd
  /\ IF nd THEN Reset(Shown(TRUE, menu, hidden, currentDbId), currentDbId)
     ELSE /\ fastTimer' = FALSE /\ slowTimer' = FALSE
          /\ UNCHANGED <<dbId, refreshes, fastRuns, slowRuns, cardVars>>
  /\ UNCHANGED <<watched, currentDbId, menu, hidden, hooks, auto, killCalls>>

\* A click on a menu: what the listeners do with it they put off.
ClickMenu(dashboard) ==
  /\ watched = "engine"
  /\ ~hidden
  /\ menu' = dashboard
  /\ hooks' = hooks \cup (IF dashboard THEN {"pause", "resume"} ELSE {"pause"})
  /\ UNCHANGED <<watched, currentDbId, hidden, active, dbId, auto, runVars, cardVars, killCalls>>

\* Back and forward change the hash; no listener of this view hears of it.
GoBack ==
  /\ watched = "engine"
  /\ ~hidden
  /\ menu \/ ReturnsByHash
  /\ menu' = ~menu
  /\ UNCHANGED <<watched, currentDbId, hidden, active, hooks, dbId, auto, runVars, cardVars, killCalls>>

\* pause() if another menu is open by then.
PauseHook ==
  /\ "pause" \in hooks
  /\ hooks' = hooks \ {"pause"}
  /\ fastTimer' = (fastTimer /\ IsVisible)
  /\ slowTimer' = (slowTimer /\ IsVisible)
  /\ UNCHANGED <<pageVars, dbId, auto, refreshes, fastRuns, slowRuns, cardVars, killCalls>>

\* fetchActiveDashboardView(), 50 ms after the click on the dashboard's menu.
ResumeHook ==
  /\ "resume" \in hooks
  /\ hooks' = hooks \ {"resume"}
  /\ IF active THEN Resume(IsVisible, currentDbId) ELSE UNCHANGED <<dbId, runVars, cardVars>>
  /\ UNCHANGED <<pageVars, auto, killCalls>>

\* visibilitychange
HideOrShow ==
  /\ watched = "engine"
  /\ hidden' = ~hidden
  /\ IF hidden
     THEN IF Shown(active, menu, FALSE, currentDbId) THEN Resume(TRUE, currentDbId)
                                                     ELSE UNCHANGED <<dbId, runVars, cardVars>>
     ELSE /\ fastTimer' = FALSE /\ slowTimer' = FALSE
          /\ UNCHANGED <<dbId, refreshes, fastRuns, slowRuns, cardVars>>
  /\ UNCHANGED <<watched, currentDbId, menu, active, hooks, auto, killCalls>>

\* Mutant: the timers are cancelled and the slow run's end starts the slow one only.
RangeOfSlowTasks == slowTimer' = FALSE /\ fastTimer' = FALSE /\ slowRuns' =
  Aged(slowRuns) \cup {[db |-> currentDbId, gen |-> "newest", by |-> "timer"]}
\* A range button: new generation, the slow tasks at once, then both timers.
RangeRun == slowTimer' = FALSE /\ fastTimer' = FALSE /\ slowRuns' =
  Aged(slowRuns) \cup {[db |-> currentDbId, gen |-> "newest", by |-> "range"]}

ChooseRange ==
  /\ watched = "engine"
  /\ IsVisible
  /\ refreshes' = Aged(refreshes) /\ fastRuns' = Aged(fastRuns)
  /\ RangeRun
  /\ UNCHANGED <<pageVars, hooks, dbId, auto, cardVars, killCalls>>

\* The period was changed: the fast timer starts again.
ChangePeriod ==
  /\ watched = "engine"
  /\ IsVisible
  /\ fastTimer' = Schedules
  /\ UNCHANGED <<pageVars, hooks, dbId, auto, slowTimer, refreshes, fastRuns, slowRuns,
                 cardVars, killCalls>>

PressRefresh ==
  /\ IsVisible
  /\ RefreshNow(refreshes, TRUE, currentDbId)
  /\ UNCHANGED <<pageVars, hooks, dbId, auto, fastRuns, slowRuns, cardVars, killCalls>>

\* Stop or resume the automatic refresh.
Toggle ==
  /\ watched = "engine"
  /\ IsVisible
  /\ auto' = ~auto
  /\ IF auto THEN fastTimer' = FALSE /\ slowTimer' = FALSE /\ UNCHANGED refreshes
             ELSE RefreshNow(refreshes, TRUE, currentDbId)
  /\ UNCHANGED <<pageVars, hooks, dbId, fastRuns, slowRuns, cardVars, killCalls>>

-----------------------------------------------------------------------------
\* openPanel, by the button of the incident bar: every holder is ticked.
OpenPanel ==
  /\ watched = "card"
  /\ IsVisible /\ ~panel.open
  /\ last.incident /\ ~pending
  /\ panel' = [open |-> TRUE, db |-> currentDbId, listed |-> last.holders,
               checked |-> last.holders, gone |-> {}, busy |-> FALSE]
  /\ approved' = last.holders
  /\ UNCHANGED <<pageVars, hooks, dbId, auto, runVars, last, pending, killCalls>>

TickRow(h) ==
  /\ IsVisible /\ panel.open /\ h \in panel.listed \ panel.gone
  /\ panel' = [panel EXCEPT !.checked = IF h \in @ THEN @ \ {h} ELSE @ \cup {h}]
  /\ approved' = approved \cup {h}
  /\ UNCHANGED <<pageVars, hooks, dbId, auto, runVars, last, pending, killCalls>>

\* closePanel, by its button, the button of the incident bar, or Escape.
ClosePanel ==
  /\ IsVisible /\ panel.open
  /\ panel' = NoPanel /\ approved' = {}
  /\ UNCHANGED <<pageVars, hooks, dbId, auto, runVars, last, pending, killCalls>>

\* execKill up to its await.
ExecKill ==
  /\ IsVisible /\ panel.open
  /\ panel.checked # {} /\ ~panel.busy /\ ~pending
  /\ killCalls' = killCalls \cup {[db |-> panel.db, targets |-> panel.checked]}
  /\ panel' = [panel EXCEPT !.busy = TRUE]
  /\ UNCHANGED <<pageVars, hooks, dbId, auto, runVars, last, pending, approved>>

\* The rest of it: whichever panel is open by then is closed.
KillAnswered(c) ==
  /\ c \in killCalls
  /\ killCalls' = killCalls \ {c}
  /\ panel' = NoPanel /\ approved' = {}
  /\ IF c.db = currentDbId THEN RefreshNow(refreshes, IsVisible, currentDbId)
                           ELSE UNCHANGED <<refreshes, fastTimer, slowTimer>>
  /\ UNCHANGED <<pageVars, hooks, dbId, auto, fastRuns, slowRuns, last, pending>>

-----------------------------------------------------------------------------
\* The bounds, not the code's.
Bounded ==
  /\ Cardinality(refreshes' \ Newest(refreshes')) + Cardinality(fastRuns' \ Newest(fastRuns'))
       + Cardinality(slowRuns' \ Newest(slowRuns')) <= MaxOlder
  /\ Cardinality(killCalls') <= 1

\* An engine's behaviour learns of every answer only that it came.
LockAnswer(r) == IF watched = "engine" THEN [outcome : {"refused"}, lock : {NoAnswer}] ELSE
  [outcome : {"failed", "refused"}, lock : {NoAnswer}] \cup [outcome : {"ok"}, lock : Answers(r.db)]
FastEnds(runs) == \E r \in runs : \E answer \in LockAnswer(r) : FastRunEnds(r, answer)
RefreshEnds(runs) == \E q \in runs : \/ \E answer \in LockAnswer(q) : RefreshFastEnds(q, answer)
                                     \/ RefreshSlowEnds(q)
SlowEnds(runs) == \E r \in runs : SlowRunEnds(r)

Next ==
  /\ \/ FastEnds(fastRuns) \/ SlowEnds(slowRuns) \/ RefreshEnds(refreshes)
     \/ FastTick \/ SlowTick \/ PauseHook \/ ResumeHook
     \/ \E d \in Databases : SelectDatabase(d)
     \/ \E b \in BOOLEAN : ChooseView(b) \/ ClickMenu(b)
     \/ GoBack \/ HideOrShow \/ ChooseRange \/ ChangePeriod \/ PressRefresh \/ Toggle
     \/ OpenPanel \/ (\E h \in Holder : TickRow(h)) \/ ClosePanel \/ ExecKill
     \/ \E c \in killCalls : KillAnswered(c)
  /\ Bounded

Spec == Init /\ [][Next]_vars

\* Requests are answered or fail, timers and put-off hooks run.  Nothing is
\* assumed of the user.
Fairness ==
  /\ WF_vars(FastEnds(Newest(fastRuns)) /\ Bounded)
  /\ WF_vars(SlowEnds(Newest(slowRuns)) /\ Bounded)
  /\ WF_vars(RefreshEnds(Newest(refreshes)) /\ Bounded)
  /\ WF_vars(SlowEnds({r \in slowRuns : r.by = "range"}) /\ Bounded)
  /\ WF_vars(FastTick /\ Bounded) /\ WF_vars(ResumeHook /\ Bounded)
FairSpec == Spec /\ Fairness

-----------------------------------------------------------------------------
\* While this view is chosen its lock card never shows another database's locks,
\* however late the answers come and however often the database changes.
LockOfCurrentDatabase == active /\ last # NoAnswer => last.db = currentDbId

\* A kill panel that can be used is about the chosen database, its rows came from
\* that database, and nothing is ticked in it that the operator was not shown
\* ticked at the start or ticked: who appears later is not killed unasked.
PanelIsApproved ==
  /\ active /\ panel.open => panel.db = currentDbId
  /\ panel.checked \subseteq approved \cap (panel.listed \ panel.gone)

\* A stopped refresh stays stopped: no run that was on its way starts a timer.
StoppedStaysStopped == ~auto => ~fastTimer /\ ~slowTimer

\* The visible card with the refresh on is never left without anybody who will
\* ask again: a timer, a run or a refresh of this generation, a range button's run,
\* or a hook.
SomebodyAsksAgain ==
  watched \in {"engine", "card"} /\ IsVisible /\ auto =>
    \/ fastTimer \/ Newest(fastRuns) # {} \/ Newest(refreshes) # {}
    \/ \E r \in slowRuns : r.by = "range"
    \/ "resume" \in hooks

\* The lock card is polled for ever while it is visible and the refresh is on,
\* unless the user for ever chooses ranges or periods, which starts the timer anew.
Asking == Newest(fastRuns) # {} \/ \E q \in Newest(refreshes) : q.fast
PollingGoesOn ==
  <>[](watched = "engine" /\ IsVisible /\ auto) /\ <>[][~(ChooseRange \/ ChangePeriod)]_vars => []<>Asking

\* A loop runs exactly where it should: none while the refresh is stopped, and always
\* somebody who will ask again while it is on and the card is visible.
LoopsAsWanted == StoppedStaysStopped /\ SomebodyAsksAgain
=============================================================================
