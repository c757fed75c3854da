------------------------------ MODULE RdbViews ------------------------------
(***************************************************************************)
(* The tabs rdb-session-views.js adds to the dashboards of the other       *)
(* engines: session list, lock tree, capacity; the one modal window they   *)
(* share for details, kill confirmation and kill results; and the loads    *)
(* that fill them, which nothing guards against each other.                *)
(*                                                                         *)
(* A row of the lock tree is the path from its root down to its session,   *)
(* as deep as it is indented; a row of another tab is a path of length 1.  *)
(* The tabs share the modal and nothing else, so a behaviour follows the   *)
(* loads of one of them; the modal, whose code is the same for all of      *)
(* them, is opened from the session list and the capacity tab.             *)
(***************************************************************************)
EXTENDS Naturals, Sequences, FiniteSets

CONSTANTS
  Session,   \* session ids of the database
  Unit,      \* storage units of the capacity tab
  Unknown,   \* the blocker of a wait whose holder the engine does not tell
  Listed,    \* those of them a session list can show
  LockAnswers, \* the sets of waits an answer can list
  MaxLoads,  \* bound: loads of the tab on their way
  MaxCalls   \* bound: detail and kill requests on their way

ASSUME UnknownAssumption == Unknown \notin Session
ASSUME SessionAssumption == IsFiniteSet(Session)
ASSUME AnswersAssumption ==
  Listed \subseteq Session /\ LockAnswers \subseteq SUBSET (Session \X (Session \cup {Unknown}))
ASSUME RdbBoundAssumption == MaxLoads \in Nat \ {0} /\ MaxCalls \in Nat \ {0}

VARIABLES
  followed,    \* the tab whose loads this behaviour follows
  admin,      \* isAdmin() when the page was built
  dbId,       \* was the page opened with an instance?
  visible,    \* tabs whose button the menu settings leave visible
  activeView, \* the tab whose panel is displayed
  loads,      \* loads of the followed tab on their way, by who asked
  busy,       \* its reload button is disabled
  table,      \* what its panel shows
  checked,    \* checkedSessions or checkedLocks
  boxes,      \* the rows whose box is ticked on the screen
  modal,      \* the modal window
  details,    \* detail requests on their way: sessions or units
  kills       \* kill requests on their way: the sessions of each

tabVars == <<admin, dbId, visible, activeView>>
tableVars == <<table, checked, boxes>>
callVars == <<details, kills>>
rdbVars == <<followed, tabVars, loads, busy, tableVars, modal, callVars>>

-----------------------------------------------------------------------------
Tab == {"detail", "sessions", "locks", "capacity"}
\* The tabs with a load, and of those the ones the interval refreshes.
Loaded == {"sessions", "locks", "capacity"}
Refreshed == {"sessions", "locks"}

\* buildLockTree: a wait is a pair of waiter and blocker.
Nodes(waits) == {w[1] : w \in waits} \cup ({w[2] : w \in waits} \ {Unknown})
Children(waits, b) == {w[1] : w \in {x \in waits : x[2] = b}}
Parentless(waits) == {n \in Nodes(waits) : \A b \in Session : n \notin Children(waits, b)}

\* Mutant: a session that waits is never a root, as it was before.
RootsByRole(waits, longest) == {n \in Nodes(waits) : \A w \in waits : w[1] # n}
\* The roots: who has no parent; if everybody has one, who waits longest.
Roots(waits, longest) ==
  IF Nodes(waits) = {} \/ Parentless(waits) # {} THEN Parentless(waits) ELSE {longest}

Distinct(path) == \A i, j \in DOMAIN path : path[i] = path[j] => i = j
\* flattenTree: a branch ends at the row that repeats a session above it.
Repeated(path) == ~Distinct(path)

\* The rows: a branch goes from a root down, each session waiting for the one above it.
\* The bound on its length, not the code's, is above what such a branch can reach.
LockRows(waits, longest) ==
  LET roots == Roots(waits, longest)
      nodes == Nodes(waits)
  IN {path \in UNION {[1..k -> nodes] : k \in 1..(Cardinality(Session) + 2)} :
        /\ path[1] \in roots
        /\ \A i \in 2..Len(path) : <<path[i], path[i - 1]>> \in waits
        /\ ~Repeated(SubSeq(path, 1, Len(path) - 1))}

Sid(row) == row[Len(row)]
Sids(rows) == {Sid(r) : r \in rows}

RdbTypeOK ==
  /\ followed \in Loaded /\ admin \in BOOLEAN /\ dbId \in BOOLEAN
  /\ visible \subseteq Tab /\ activeView \in Tab
  /\ loads \in [{"tab", "reload", "kill"} -> 0..MaxLoads] /\ busy \in BOOLEAN
  /\ table.shown \in {"blank", "error", "rows"}
  /\ table.waits \subseteq Session \X (Session \cup {Unknown})
  /\ Sids(table.rows) \subseteq Session \cup Unit
  /\ checked \subseteq Session /\ boxes \subseteq table.rows
  /\ modal.title \in {"none", "detail", "confirm", "kill"}
  /\ modal.body \in {"none", "loading", "list", "answer"}
  /\ modal.go \subseteq Session /\ modal.of \subseteq Session \cup Unit
  /\ details \subseteq Session \cup Unit /\ kills \subseteq SUBSET Session

NoTable(s) == [shown |-> s, rows |-> {}, waits |-> {}]
NoModal == [open |-> FALSE, title |-> "none", of |-> {}, body |-> "none", go |-> {}]

\* buildPane: empty panels; the tab in the browser's storage is shown at the end.
RdbInit ==
  /\ followed \in Loaded /\ admin \in BOOLEAN /\ dbId \in BOOLEAN
  /\ visible = Tab /\ activeView = "detail"
  /\ loads = [by \in {"tab", "reload", "kill"} |-> 0] /\ busy = FALSE
  /\ table = NoTable("blank") /\ checked = {} /\ boxes = {}
  /\ modal = NoModal /\ details = {} /\ kills = {}

-----------------------------------------------------------------------------
\* guardNoDbId: without an instance the panel says so and nothing is asked.
Load(tab, by) ==
  IF tab # followed THEN UNCHANGED <<loads, table, boxes>>
  ELSE IF dbId THEN loads' = [loads EXCEPT ![by] = @ + 1] /\ UNCHANGED <<table, boxes>>
  ELSE table' = NoTable("error") /\ boxes' = {} /\ UNCHANGED loads

\* showView: a hidden tab gives way to the first visible one, in the order of TABS.
FirstVisible(tabs) ==
  CASE "detail" \in tabs -> "detail" [] "sessions" \in tabs -> "sessions"
    [] "locks" \in tabs -> "locks" [] "capacity" \in tabs -> "capacity" [] OTHER -> "detail"
TabToShow(tabs, tab) == IF tab \in tabs THEN tab ELSE FirstVisible(tabs)

ShowView(tabs, tab) ==
  /\ activeView' = TabToShow(tabs, tab)
  /\ Load(activeView', "tab")

ClickTab(tab) ==
  /\ ~modal.open /\ tab \in visible
  /\ ShowView(visible, tab)
  /\ UNCHANGED <<followed, admin, dbId, visible, busy, checked, modal, callVars>>

\* dbagentSyncRdbActiveTab, when the menu settings hid or showed tabs.
SyncActiveTab(tabs) ==
  /\ visible' = tabs
  /\ ShowView(tabs, activeView)
  /\ UNCHANGED <<followed, admin, dbId, busy, checked, modal, callVars>>

\* dbagentRefreshRdbSessionViews, every interval.
RefreshViews ==
  /\ ~modal.open /\ activeView \in Refreshed
  /\ Load(activeView, "tab")
  /\ UNCHANGED <<followed, tabVars, busy, checked, modal, callVars>>

\* Mutant: the button waits for an answer that was never asked for.
BusyAlways == TRUE
\* wireReloadButton: disabled until its own load is over, if there is one.
BusyWhileLoading == dbId

Reload ==
  /\ ~modal.open /\ activeView = followed /\ ~busy
  /\ busy' = BusyWhileLoading
  /\ Load(followed, "reload")
  /\ UNCHANGED <<followed, tabVars, checked, modal, callVars>>

\* wireChecks: the boxes of selected sessions are ticked again, and who is
\* no longer listed is no longer selected.  Only an administrator has boxes.
\* Mutant: the selection is only given back to the boxes.
WireChecksOnly(rows) == UNCHANGED checked /\ boxes' = {r \in rows : Sid(r) \in checked}
WireChecks(rows) ==
  /\ checked' = IF admin /\ followed # "capacity" THEN checked \cap Sids(rows) ELSE checked
  /\ boxes' = IF admin /\ followed # "capacity" THEN {r \in rows : Sid(r) \in checked} ELSE {}

\* renderSessions, renderLockTree, renderCapacity
RenderSessions(ids) == {<<s>> : s \in ids}
RenderLockTree(waits, longest) == LockRows(waits, longest)
RenderCapacity(units) == {<<u>> : u \in units}

Rendered(rows, waits) ==
  /\ table' = [shown |-> "rows", rows |-> rows, waits |-> waits]
  /\ WireChecks(rows)
\* renderError; the selection stays.
RenderError == table' = NoTable("error") /\ boxes' = {} /\ UNCHANGED checked

LoadOver(by) ==
  /\ loads[by] > 0
  /\ loads' = [loads EXCEPT ![by] = @ - 1]
  /\ busy' = (busy /\ by # "reload")
  /\ UNCHANGED <<followed, tabVars, modal, callVars>>

\* loadSessions, loadLocks, loadCapacity when their answer is there.
LoadFailed(by) == LoadOver(by) /\ RenderError
SessionsLoaded(by, ids) ==
  followed = "sessions" /\ LoadOver(by) /\ Rendered(RenderSessions(ids), {})
LocksLoaded(by, waits, longest) ==
  followed = "locks" /\ LoadOver(by) /\ Rendered(RenderLockTree(waits, longest), waits)
CapacityLoaded(by, units) ==
  followed = "capacity" /\ LoadOver(by) /\ Rendered(RenderCapacity(units), {})

-----------------------------------------------------------------------------
\* The change handler of one row's box: the selection is by session, so other
\* rows of the same session keep their box as it is.
TickBox(row) ==
  /\ ~modal.open /\ activeView = followed /\ admin /\ followed # "capacity"
  /\ row \in table.rows
  /\ boxes' = IF row \in boxes THEN boxes \ {row} ELSE boxes \cup {row}
  /\ checked' = IF row \in boxes THEN checked \ {Sid(row)} ELSE checked \cup {Sid(row)}
  /\ UNCHANGED <<followed, tabVars, loads, busy, table, modal, callVars>>

\* The box in the head of the session list.
TickAll(on) ==
  /\ ~modal.open /\ activeView = followed /\ admin /\ followed = "sessions"
  /\ boxes' = IF on THEN table.rows ELSE {}
  /\ checked' = IF on THEN checked \cup Sids(table.rows) ELSE checked \ Sids(table.rows)
  /\ UNCHANGED <<followed, tabVars, loads, busy, table, modal, callVars>>

\* openModal and closeModal; closing empties the foot and leaves the body.
OpenModal(title, of, body, go) ==
  modal' = [open |-> TRUE, title |-> title, of |-> of, body |-> body, go |-> go]
CloseModal ==
  /\ modal.open
  /\ modal' = [modal EXCEPT !.open = FALSE, !.go = {}]
  /\ UNCHANGED <<followed, tabVars, loads, busy, tableVars, callVars>>

\* openDetail and openCapacityDetail, by a click on a row.
OpenDetail(row) ==
  /\ followed # "locks"
  /\ ~modal.open /\ activeView = followed /\ row \in table.rows
  /\ OpenModal("detail", {Sid(row)}, "loading", {})
  /\ details' = details \cup {Sid(row)}
  /\ UNCHANGED <<followed, tabVars, loads, busy, tableVars, kills>>

\* The rest of them: the body is the modal's, whatever it is open for by now.
DetailAnswered(x) ==
  /\ x \in details
  /\ details' = details \ {x}
  /\ modal' = [modal EXCEPT !.body = "answer"]
  /\ UNCHANGED <<followed, tabVars, loads, busy, tableVars, kills>>

\* confirmKill: what is selected now is listed, and what its button will kill.
ConfirmKill ==
  /\ followed # "locks"
  /\ ~modal.open /\ activeView = followed /\ admin /\ checked # {}
  /\ OpenModal("confirm", checked, "list", checked)
  /\ UNCHANGED <<followed, tabVars, loads, busy, tableVars, callVars>>

\* Mutant: the sessions are those selected when the button is pressed.
SelectedNow == checked
\* The sessions the button was made for.
Confirmed == modal.go

\* runKill up to its request.
RunKill ==
  /\ modal.open /\ modal.go # {}
  /\ kills' = kills \cup {Confirmed}
  /\ OpenModal("kill", Confirmed, "loading", {})
  /\ UNCHANGED <<followed, tabVars, loads, busy, tableVars, details>>

\* The rest of it: results clear the selection and reload, an error answer
\* only reloads, a failed request does neither.  The button stays.
KillAnswered(ids, outcome) ==
  /\ ids \in kills
  /\ kills' = kills \ {ids}
  /\ modal' = [modal EXCEPT !.body = "answer"]
  /\ checked' = IF outcome = "results" THEN {} ELSE checked
  /\ loads' = IF outcome = "failed" THEN loads ELSE [loads EXCEPT !["kill"] = @ + 1]
  /\ UNCHANGED <<followed, tabVars, busy, table, boxes, details>>

-----------------------------------------------------------------------------
\* The bounds, not the code's.
RdbBounded ==
  /\ loads'["tab"] + loads'["reload"] + loads'["kill"] <= MaxLoads
  /\ Cardinality(details') + Cardinality(kills') <= MaxCalls

LoadAnswered(by) ==
  \/ LoadFailed(by)
  \/ \E ids \in SUBSET Listed : SessionsLoaded(by, ids)
  \/ \E waits \in LockAnswers :
       \E longest \in IF Parentless(waits) = {} /\ waits # {} THEN Nodes(waits) ELSE {Unknown} :
         LocksLoaded(by, waits, longest)
  \/ \E units \in SUBSET Unit : CapacityLoaded(by, units)

RdbNext ==
  /\ \/ \E v \in Tab : ClickTab(v)
     \/ \E tabs \in {Tab, Tab \ {followed}} : SyncActiveTab(tabs)
     \/ RefreshViews \/ Reload
     \/ \E by \in {"tab", "reload", "kill"} : LoadAnswered(by)
     \/ \E r \in table.rows : TickBox(r) \/ OpenDetail(r)
     \/ \E on \in BOOLEAN : TickAll(on)
     \/ CloseModal \/ ConfirmKill \/ RunKill
     \/ \E x \in details : DetailAnswered(x)
     \/ \E ids \in kills, outcome \in {"results", "error", "failed"} : KillAnswered(ids, outcome)
  /\ RdbBounded

RdbSpec == RdbInit /\ [][RdbNext]_rdbVars
\* A load is answered or fails in the end.
RdbFairSpec == RdbSpec /\ WF_rdbVars(LoadAnswered("reload") /\ RdbBounded)

-----------------------------------------------------------------------------
\* The panel that is displayed has a visible button whenever one is visible, however
\* the menu settings hide and show tabs.
ActiveTabIsVisible == activeView \in visible \/ visible = {}

\* Who is selected, and can be killed, is in the list on the screen, whatever order
\* the answers of overlapping loads come in; a failed load is the exception.
SelectedIsListed == table.shown = "rows" => checked \subseteq Sids(table.rows)

\* The kill button kills the sessions its dialog was opened to confirm: not those
\* that a load or an earlier kill left selected while it was open.
KillsWhatWasConfirmed ==
  [][\A ids \in kills' \ kills : modal.title = "confirm" /\ ids = modal.of]_rdbVars

\* The lock tree misses no session that waits or is waited for, however the chains
\* join and with a holder or without, unless sessions wait for each other in a
\* cycle that nobody outside it blocks.
Parents(waits, n) == {b \in Nodes(waits) : n \in Children(waits, b)}
Deadlocked(waits) == \E C \in SUBSET Nodes(waits) :
  C # {} /\ \A n \in C : Parents(waits, n) # {} /\ Parents(waits, n) \subseteq C
EverybodyInTree ==
  followed = "locks" /\ ~Deadlocked(table.waits) => Sids(table.rows) = Nodes(table.waits)

\* The tree is finite whatever cycles the waits have: no branch is longer than
\* all sessions and the row that repeats one of them.
TreeIsFinite == followed = "locks" => \A r \in table.rows : Len(r) <= Cardinality(Nodes(table.waits)) + 1

\* The reload button comes back, with an instance or without.
ReloadEnds == busy ~> ~busy

\* Nobody is missing from the tree, whoever waits for whom.
NobodyMissing == table.shown = "rows" /\ followed = "locks" => Sids(table.rows) = Nodes(table.waits)

\* A dialog with a kill button says which sessions it kills.
KillButtonIsExplained == modal.open /\ modal.go # {} => modal.body = "list"

\* What is displayed and selected is what the user can see and reach.
PageIsCoherent == RdbTypeOK /\ ActiveTabIsVisible /\ SelectedIsListed

\* The tree draws every lock wait there is, and ends.
TreeIsWhole == EverybodyInTree /\ TreeIsFinite
=============================================================================
