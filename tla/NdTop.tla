------------------------------- MODULE NdTop -------------------------------
(***************************************************************************)
(* The load chart of the instance dashboard with its selected window       *)
(* (nd-aas.js), and the lists and the drawer that follow the selection     *)
(* (nd-top.js).  The chart is a slow task of the engine in NdDashboard; of *)
(* the engine it only matters here that such tasks run at any time while   *)
(* the view is shown, and which of them a new generation makes stale.      *)
(*                                                                         *)
(* An answer of the chart is the minute it starts with and the place of    *)
(* its busiest window; a window is a place, counted in minutes.            *)
(***************************************************************************)
EXTENDS NdDashboard

CONSTANTS
  Minute,       \* minutes of the database's clock at which an answer may start
  Place         \* places of a window within the chart

ASSUME MinuteAssumption == Minute \subseteq Nat /\ Minute # {} /\ Place \subseteq Nat

VARIABLES
  clock,        \* the database's clock
  loads,        \* databases the chart of this generation is loaded of
  otherRange,   \* is another range chosen than the chart was drawn for?
  chart,        \* rows, best and sel of the chart
  sel, key,     \* st.sel and st.key of the lists
  lists,        \* what the lists show
  topAsks,      \* requests of the lists on their way
  drawer,       \* views on its stack, and what it shows
  drawerAsks    \* requests of the drawer on their way

topVars == <<clock, loads, otherRange, chart, sel, key, lists, topAsks, drawer, drawerAsks>>

-----------------------------------------------------------------------------
Window == {m + p : m \in Minute, p \in Place}
Of == [db : Databases, window : Window]
ASSUME NoWindowAssumption == None \notin Window \cup Of

NoChart == [base |-> None, best |-> None, at |-> None, user |-> FALSE]
\* "kept": the last answer was a refusal, which leaves the lists as they are.
NoLists == [shown |-> "skeleton", of |-> None, caption |-> None, kept |-> FALSE]
NoDrawer == [depth |-> 0, of |-> None]

TopTypeOK ==
  /\ TypeOK
  /\ clock \in Minute /\ loads \subseteq Databases /\ otherRange \in BOOLEAN
  /\ chart \in [base : Minute \cup {None}, best : Place \cup {None}, at : Place \cup {None},
                user : BOOLEAN]
  /\ sel \in Window \cup {None} /\ key \in Of \cup {None}
  /\ lists \in [shown : {"skeleton", "empty", "error", "rows"}, of : Of \cup {None}, caption : Window \cup {None}, kept : BOOLEAN]
  /\ topAsks \subseteq Of
  /\ drawer \in [depth : 0..2, of : Of \cup {None}] /\ drawerAsks \subseteq Of

TopInit ==
  /\ Init
  /\ clock = (CHOOSE m \in Minute : \A n \in Minute : m <= n)
  /\ loads = {} /\ otherRange = FALSE /\ chart = NoChart
  /\ sel = None /\ key = None /\ lists = NoLists /\ topAsks = {}
  /\ drawer = NoDrawer /\ drawerAsks = {}

-----------------------------------------------------------------------------
\* An old request's answer changes nothing, so that ++gen forgets it here.
OldGone(asks) == {}

\* paintDrawer up to its await; without a window its view fails at once.
PaintDrawer(stack, window) ==
  IF stack.depth = 0 THEN drawer' = stack /\ UNCHANGED drawerAsks
  ELSE /\ drawer' = [stack EXCEPT !.of = None]
       /\ drawerAsks' = OldGone(drawerAsks) \cup
            (IF window = None THEN {} ELSE {[db |-> currentDbId, window |-> window]})

\* An open drawer follows the window.
Repaint(window) == PaintDrawer(drawer, window)

\* loadTop up to its await.
LoadTop(window) ==
  topAsks' = OldGone(topAsks) \cup {[db |-> currentDbId, window |-> window]}

\* The listener of the selection: no window empties the lists; the window that was
\* asked for last is not asked for again.
Selected(window) ==
  LET k == [db |-> currentDbId, window |-> window] IN
  /\ sel' = window
  /\ IF window = None
     THEN /\ lists' = [NoLists EXCEPT !.shown = "empty"]
          /\ UNCHANGED <<key, topAsks, drawer, drawerAsks>>
     ELSE IF k = key THEN UNCHANGED <<key, lists, topAsks, drawer, drawerAsks>>
     ELSE /\ key' = k /\ LoadTop(window) /\ Repaint(window)
          /\ lists' = [lists EXCEPT !.kept = FALSE]

WindowAt(c) == IF c.at = None THEN None ELSE c.base + c.at
EmitSelection(c) == chart' = c /\ Selected(WindowAt(c))

\* The hook of the lists and that of the chart.
\* Mutant: the lists forget everything but what they asked for last.
TopResetKeepsKey ==
  /\ UNCHANGED key
  /\ chart' = NoChart /\ sel' = None /\ lists' = NoLists /\ topAsks' = OldGone(topAsks)
  /\ drawer' = NoDrawer /\ drawerAsks' = OldGone(drawerAsks)
TopReset ==
  /\ key' = None
  /\ chart' = NoChart /\ sel' = None /\ lists' = NoLists /\ topAsks' = OldGone(topAsks)
  /\ drawer' = NoDrawer /\ drawerAsks' = OldGone(drawerAsks)

-----------------------------------------------------------------------------
\* load: a selection of the user stays, an automatic one is made anew.
Selects(c) == ~c.user \/ c.at = None

AutoSelect(c) == EmitSelection([c EXCEPT !.at = c.best])

listVars == <<sel, key, lists, topAsks, drawer, drawerAsks>>
engineVars == <<watched, menu, hidden, hooks, auto, runVars, cardVars, killCalls>>
pageRest == <<engineVars, currentDbId, active, dbId>>

\* load after its await, unless ctx.isStale(): another range forgets the selection.
ChartLoaded(d, best) ==
  /\ d \in loads /\ loads' = loads \ {d}
  /\ IF d # currentDbId \/ ~active THEN UNCHANGED <<otherRange, chart, listVars>>
     ELSE LET c == [base |-> clock, best |-> best, user |-> chart.user /\ ~otherRange,
                    at |-> IF otherRange THEN None ELSE chart.at]
          IN /\ otherRange' = FALSE
             /\ IF Selects(c) THEN AutoSelect(c) ELSE chart' = c /\ UNCHANGED listVars
  /\ UNCHANGED <<pageRest, clock>>

ChartFailed(d) ==
  /\ d \in loads /\ loads' = loads \ {d}
  /\ UNCHANGED <<pageRest, clock, otherRange, chart, listVars>>

-----------------------------------------------------------------------------
\* The engine runs its slow tasks; a range button starts a new generation of them.
RunSlowTasks ==
  /\ IsVisible /\ loads' = loads \cup {currentDbId}
  /\ UNCHANGED <<pageRest, clock, otherRange, chart, listVars>>
ChooseOtherRange ==
  /\ IsVisible /\ loads' = {currentDbId} /\ otherRange' \in BOOLEAN
  /\ UNCHANGED <<pageRest, clock, chart, listVars>>

\* The refresh button: the lists are to be asked for again.
RefreshTop ==
  /\ IsVisible /\ loads' = loads \cup {currentDbId} /\ key' = None
  /\ UNCHANGED <<pageRest, clock, otherRange, chart, sel, lists,
                 topAsks, drawer, drawerAsks>>

\* reset() of the engine, with the tasks it runs.
ResetEngine(visible, d) ==
  /\ dbId' = d /\ TopReset
  /\ loads' = IF visible THEN {d} ELSE {}

SelectInstance(d) ==
  /\ currentDbId' = d
  /\ IF active /\ dbId # d THEN ResetEngine(TRUE, d) ELSE UNCHANGED <<dbId, loads, chart, listVars>>
  /\ UNCHANGED <<engineVars, active, clock, otherRange>>

SwitchView(nd) ==
  /\ active' = nd
  /\ IF nd THEN ResetEngine(currentDbId # None, currentDbId) ELSE UNCHANGED <<dbId, loads, chart, listVars>>
  /\ UNCHANGED <<engineVars, currentDbId, clock, otherRange>>

\* pointermove while dragging: the selection follows the pointer, nobody is told.
Drag(p) ==
  /\ IsVisible /\ chart.base # None
  /\ chart' = [chart EXCEPT !.at = p, !.user = TRUE]
  /\ UNCHANGED <<pageRest, clock, loads, otherRange, listVars>>

\* pointerup after a drag, a click, Enter: a reset in between has ended the drag.
SelectWindow(p) ==
  /\ IsVisible /\ chart.base # None
  /\ EmitSelection([chart EXCEPT !.at = p, !.user = TRUE])
  /\ UNCHANGED <<pageRest, clock, loads, otherRange>>

\* The button that gives the selection back.
ClearSelection ==
  /\ IsVisible /\ chart.base # None /\ chart.user
  /\ AutoSelect([chart EXCEPT !.user = FALSE])
  /\ UNCHANGED <<pageRest, clock, loads, otherRange>>

-----------------------------------------------------------------------------
\* loadTop after its await.  Without a window the lists cannot be drawn.
TopAnswered(a, outcome) ==
  /\ a \in topAsks /\ topAsks' = topAsks \ {a}
  /\ lists' = IF a.db # currentDbId \/ (outcome = "ok" /\ sel = None) THEN lists
              ELSE CASE outcome = "refused" -> [lists EXCEPT !.kept = TRUE]
                     [] outcome = "failed" -> [NoLists EXCEPT !.shown = "error"]
                     [] outcome = "ok" -> [shown |-> "rows", of |-> a, caption |-> sel, kept |-> FALSE]
  /\ UNCHANGED <<pageRest, clock, loads, otherRange, chart, sel, key, drawer, drawerAsks>>

\* The button below an error.
Retry ==
  /\ IsVisible /\ lists.shown = "error" /\ topAsks = {} /\ sel # None
  /\ key' = None /\ LoadTop(sel) /\ lists' = [lists EXCEPT !.kept = FALSE]
  /\ UNCHANGED <<pageRest, clock, loads, otherRange, chart, sel, drawer, drawerAsks>>

\* A row of the lists, or of what the drawer shows, and the way back.
OpenDrawer ==
  /\ IsVisible /\ lists.of # None /\ PaintDrawer([drawer EXCEPT !.depth = 1], sel)
  /\ UNCHANGED <<pageRest, clock, loads, otherRange, chart, sel, key, lists, topAsks>>
PushDrawer ==
  /\ drawer.depth = 1 /\ drawer.of # None /\ PaintDrawer([drawer EXCEPT !.depth = 2], sel)
  /\ UNCHANGED <<pageRest, clock, loads, otherRange, chart, sel, key, lists, topAsks>>
Back ==
  /\ drawer.depth = 2 /\ PaintDrawer([drawer EXCEPT !.depth = 1], sel)
  /\ UNCHANGED <<pageRest, clock, loads, otherRange, chart, sel, key, lists, topAsks>>
CloseDrawer ==
  /\ drawer.depth > 0 /\ drawer' = NoDrawer /\ drawerAsks' = OldGone(drawerAsks)
  /\ UNCHANGED <<pageRest, clock, loads, otherRange, chart, sel, key, lists, topAsks>>

\* The rest of paintDrawer; a failure, or a window that is gone, shows an error.
DrawerAnswered(a, ok) ==
  /\ a \in drawerAsks /\ drawerAsks' = drawerAsks \ {a}
  /\ drawer' = IF ok /\ sel # None THEN [drawer EXCEPT !.of = a] ELSE drawer
  /\ UNCHANGED <<pageRest, clock, loads, otherRange, chart, sel, key, lists, topAsks>>

\* A minute passes.
Pass ==
  /\ clock + 1 \in Minute /\ clock' = clock + 1
  /\ UNCHANGED <<pageRest, loads, otherRange, chart, listVars>>

-----------------------------------------------------------------------------
EngineStep ==
  \/ \E d \in loads : ChartFailed(d) \/ \E best \in Place \cup {None} : ChartLoaded(d, best)
  \/ RunSlowTasks \/ ChooseOtherRange \/ RefreshTop
  \/ \E d \in Databases : SelectInstance(d)
  \/ \E nd \in BOOLEAN : SwitchView(nd)

UserStep ==
  \/ \E p \in Place : Drag(p) \/ SelectWindow(p)
  \/ ClearSelection \/ Retry \/ OpenDrawer \/ PushDrawer \/ Back \/ CloseDrawer

AnswerStep ==
  \/ \E a \in topAsks, outcome \in {"ok", "failed", "refused"} : TopAnswered(a, outcome)
  \/ \E a \in drawerAsks, ok \in BOOLEAN : DrawerAnswered(a, ok)
  \/ Pass

TopNext ==
  \/ watched \in {"engine", "card"} /\ Next /\ UNCHANGED topVars
  \/ watched = "top" /\ (EngineStep \/ UserStep \/ AnswerStep)

TopSpec == TopInit /\ [][TopNext]_<<vars, topVars>> /\ Fairness

-----------------------------------------------------------------------------
\* The lists stand under the window they were read for, and are the chosen database's.
ListsUnderCaption ==
  lists.of # None => lists.caption = lists.of.window /\ (active => lists.of.db = currentDbId)

\* Lists that wait for nothing have the rows of the selected window or say what went
\* wrong, unless the server refused to answer or the window had vanished in between.
ListsOfSelection ==
  active /\ sel # None /\ topAsks = {} /\ ~lists.kept /\ lists.shown # "empty" =>
    lists.shown = "error" \/ (lists.shown = "rows" /\ lists.of.window = sel)

\* A selection that nobody made is the busiest window, also while minutes pass and
\* whatever was selected before, and the lists were told of it.
ListsFollowChart ==
  chart.base # None /\ ~chart.user => chart.at = chart.best /\ sel = WindowAt(chart)

\* A detail view never stays open over another window or database than its own.
DrawerOfSelection ==
  active /\ drawer.of # None /\ sel # None => drawer.of = [db |-> currentDbId, window |-> sel]

\* Chart, lists and drawer tell of one window: the selected one.
FollowSelection ==
  TopTypeOK /\ ListsUnderCaption /\ ListsOfSelection /\ ListsFollowChart /\ DrawerOfSelection
=============================================================================
