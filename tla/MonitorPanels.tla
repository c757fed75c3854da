--------------------------- MODULE MonitorPanels ---------------------------
(***************************************************************************)
(* Three panels of app.js that poll the chosen database: the tablespace    *)
(* menu, the lock tree menu with its refresh loop and kill button, and the *)
(* UI-1 dashboard with its rounds of widget requests and the incident      *)
(* button, which its gate offers.  They share the chosen database and the  *)
(* open menu and never read each other's state, so a behaviour follows one *)
(* of them; ConsolePage puts the page around them.                         *)
(***************************************************************************)
EXTENDS Naturals, FiniteSets

CONSTANTS
  Databases,    \* Oracle instances
  None,
  Sid, Serial,  \* a session is a SID with a SERIAL#, and a SID is used again
  MaxAsked,     \* bound: lock tree requests of the loop, and others, on their way
  MaxTimers,    \* bound: timers of the lock tree's loops
  MaxRounds,    \* bound: rounds of the dashboard with requests on their way
  MaxIncidents  \* bound: presses of one of the two kill buttons on their way

ASSUME NoneAssumption == None \notin Databases
ASSUME BoundAssumption == {MaxAsked, MaxTimers, MaxRounds, MaxIncidents} \subseteq Nat /\ MaxTimers > 0

VARIABLES
  watched,      \* the part followed: "tablespace", "tmlock" (the loop), "lockkill" (rows and KILLs,
                \* the loop stopped), "v2", "incident" or one of ConsolePage's
  currentDbId,  \* window.currentDbId
  section,      \* the open menu
  lucide,       \* did lucide.createIcons replace the icons?  Then nothing spins.
  tsReqs, tsRows, tsOverlay, tsSpinning,
  tsInFlight,   \* window.tablespaceInFlightDbId
  tmAuto,       \* isAutoRefreshing
  tmSpinning,
  tmTimers,     \* pending timers of loop(); tmTimer knows the last one only
  tmAsked,      \* requests on their way, per database and whether a loop awaits them
  tmRows, tmTicked,     \* sessions listed, and those whose box is ticked
  tmOf,         \* the database they are listed of
  tmApproved,   \* boxes the user ticked, by database and session (history variable)
  tmAstray,     \* with sessions listed, another database was chosen, or a late answer
                \* listed another one's (history variable)
  tmKills,      \* KILLs of the lock tree on their way
  view,         \* currentView: "v2" or "nd"
  rounds,       \* rounds of the widgets, as far as their requests are on their way
  inFlight,     \* iv2FetchInFlightDbIds
  painted,      \* whose answer each widget shows; of the overview, iv2LastInstanceNameDbId
  label,        \* iv2-session-db-name: whose name it says, if any
  killOffered,  \* does the incident button show?
  alarmAstray,  \* tmAstray of the alarm that offers it (history variable)
  hook,         \* a put-off fetchActiveDashboardView
  incidents     \* presses of the incident button on their way

tsVars == <<tsReqs, tsRows, tsOverlay, tsSpinning, tsInFlight>>
tmListed == <<tmRows, tmTicked, tmOf, tmApproved>>
tmVars == <<tmAuto, tmSpinning, tmTimers, tmAsked, tmListed, tmAstray, tmKills>>
v2Vars == <<view, rounds, inFlight, painted, label, killOffered, alarmAstray, hook, incidents>>
menuVars == <<currentDbId, section, lucide>>
panelVars == <<menuVars, tsVars, tmVars, v2Vars>>

-----------------------------------------------------------------------------
Section == {"dashboard", "tablespace", "tmlock", "history", "other"}
Session == Sid \X Serial
\* The widgets that differ: overview and session list draw the label, the gate offers
\* the incident button and catches its own failure.  The other three are like the
\* overview without its label.  A request waits for its headers, then reads its body.
Widget == {"overview", "session", "gate"}
Followed == IF watched = "incident" THEN {"gate"} ELSE {"overview", "session"}
Listable == IF watched = "lockkill" THEN Session ELSE {}
MenuOfPart == IF watched \in {"v2", "incident"} THEN "dashboard" ELSE IF watched = "lockkill" THEN "tmlock" ELSE watched
Round == [db : Databases, waiting : SUBSET Widget, reading : SUBSET Widget, open : BOOLEAN]
\* "alarm" and "astray": whose alarm offered the button when it was pressed (history).
Incident == [db : Databases, step : {"reading", "killing"}, sentTo : Databases \cup {None},
             kinds : SUBSET {"TM", "TX"}, alarm : Databases \cup {None}, astray : BOOLEAN]
LockKill == [to : Databases, sessions : SUBSET Session]

PanelsTypeOK ==
  /\ currentDbId \in Databases \cup {None} /\ section \in Section /\ lucide \in BOOLEAN
  /\ tsReqs \subseteq [db : Databases, latest : BOOLEAN]
  /\ tsRows \in Databases \cup {"blank", "choose", "error"}
  /\ tsOverlay \in BOOLEAN /\ tsSpinning \in BOOLEAN /\ tsInFlight \in Databases \cup {None}
  /\ tmAuto \in BOOLEAN /\ tmSpinning \in BOOLEAN /\ tmTimers \in 0..MaxTimers
  /\ tmAsked \in [Databases \X BOOLEAN -> 0..MaxAsked]
  /\ tmRows \subseteq Session /\ tmTicked \subseteq tmRows /\ tmOf \in Databases \cup {None}
  /\ tmApproved \subseteq Databases \X Session /\ tmAstray \in BOOLEAN /\ tmKills \subseteq LockKill
  /\ view \in {"v2", "nd"} /\ rounds \subseteq Round /\ inFlight \subseteq Databases
  /\ painted \in [Widget -> Databases \cup {None}] /\ label \in Databases \cup {None}
  /\ killOffered \in BOOLEAN /\ alarmAstray \in BOOLEAN /\ hook \in BOOLEAN /\ incidents \subseteq Incident

\* The page before a database is chosen; the loop of the lock tree has started
\* with the page and waits for its first timer, unless it was stopped at once.
PanelsInit ==
  /\ currentDbId = None /\ lucide \in (IF watched \in {"tablespace", "tmlock"} THEN BOOLEAN ELSE {TRUE})
  /\ section = "dashboard"
  /\ tsReqs = {} /\ tsRows = "blank" /\ tsOverlay = FALSE /\ tsSpinning = FALSE /\ tsInFlight = None
  /\ tmAuto = (watched # "lockkill") /\ tmSpinning = FALSE /\ tmTimers = (IF tmAuto THEN 1 ELSE 0)
  /\ tmAsked = [q \in Databases \X BOOLEAN |-> 0] /\ tmRows = {} /\ tmTicked = {} /\ tmOf = None
  /\ tmApproved = {} /\ tmAstray = FALSE /\ tmKills = {}
  /\ view \in (IF watched = "v2" THEN {"v2", "nd"} ELSE {"v2"})
  /\ rounds = {} /\ inFlight = {} /\ painted = [w \in Widget |-> None] /\ label = None
  /\ killOffered = FALSE /\ alarmAstray = FALSE /\ hook = FALSE /\ incidents = {}

-----------------------------------------------------------------------------
\* The tablespace menu.

\* The click on its refresh button up to the await.
AskTablespaces(d) ==
  IF d = None
  THEN tsRows' = "choose" /\ UNCHANGED <<tsReqs, tsOverlay, tsSpinning, tsInFlight>>
  ELSE /\ tsReqs' = {[r EXCEPT !.latest = FALSE] : r \in tsReqs} \cup {[db |-> d, latest |-> TRUE]}
       /\ tsRows' = "blank" /\ tsInFlight' = d
       /\ tsOverlay' = TRUE /\ tsSpinning' = ~lucide

\* switchTab: the database it is asking already is not asked again.  The check
\* looks for the icon, so it only works where lucide left the icon there.
SkipsOpening(d) == tsSpinning /\ tsInFlight = d
OpenTablespaces(d) == IF SkipsOpening(d) THEN UNCHANGED tsVars ELSE AskTablespaces(d)

RefreshTablespaces ==
  /\ watched = "tablespace" /\ section = "tablespace"
  /\ AskTablespaces(currentDbId)
  /\ UNCHANGED <<watched, menuVars, tmVars, v2Vars>>

\* The rest of it; only the newest request takes overlay and spinner away.
TablespacesAnswered(r, ok) ==
  /\ r \in tsReqs
  /\ tsReqs' = tsReqs \ {r}
  /\ tsRows' = IF ~r.latest \/ r.db # currentDbId THEN tsRows ELSE IF ok THEN r.db ELSE "error"
  /\ IF r.latest THEN tsOverlay' = FALSE /\ tsSpinning' = FALSE /\ tsInFlight' = None
                 ELSE UNCHANGED <<tsOverlay, tsSpinning, tsInFlight>>
  /\ UNCHANGED <<watched, menuVars, tmVars, v2Vars>>

-----------------------------------------------------------------------------
\* The lock tree menu.

\* fetchTMLocks asks only while its menu is shown, and says so without a database.
TmAsks(menu, d) == menu = "tmlock" /\ d # None
AskLocks(n, d, loop) == tmAsked' = [tmAsked EXCEPT ![<<d, loop>>] = @ + n]

\* loop() after fetchTMLocks, or where that returned at once.
NextTimer(n) == IF tmAuto THEN n + 1 ELSE n

LoopTick ==
  /\ watched = "tmlock" /\ tmTimers > 0
  /\ IF ~tmAuto THEN tmTimers' = tmTimers - 1 /\ UNCHANGED <<tmAsked, tmSpinning>>
     ELSE IF TmAsks(section, currentDbId)
     THEN tmTimers' = tmTimers - 1 /\ AskLocks(1, currentDbId, TRUE) /\ tmSpinning' = ~lucide
     ELSE UNCHANGED <<tmTimers, tmAsked, tmSpinning>>
  /\ UNCHANGED <<watched, menuVars, tsVars, tmAuto, tmListed, tmAstray, tmKills, v2Vars>>

\* Mutant: boxes are ticked again by SID.
TickedBySid(rows) == {s \in rows : \E t \in tmTicked : s[1] = t[1]}
\* Boxes are ticked again by SID and SERIAL#, whichever database the rows are of.
TickedAgain(rows) == tmTicked \cap rows

\* fetchTMLocks after its await: nothing compares the database.  A failure
\* replaces the rows and leaves the spinner.
LocksAnswered(d, loop, ok, rows) ==
  /\ tmAsked[<<d, loop>>] > 0
  /\ tmAsked' = [tmAsked EXCEPT ![<<d, loop>>] = @ - 1]
  /\ tmRows' = rows /\ tmOf' = (IF rows = {} THEN None ELSE d) /\ tmTicked' = TickedAgain(rows)
  /\ tmApproved' = {a \in tmApproved : a[2] \in rows}
  /\ tmAstray' = (rows # {} /\ (d # currentDbId \/ (tmAstray /\ tmTicked' # {})))
  /\ IF ok THEN tmSpinning' = FALSE ELSE rows = {} /\ UNCHANGED tmSpinning
  /\ tmTimers' = IF loop THEN NextTimer(tmTimers) ELSE tmTimers
  /\ UNCHANGED <<watched, menuVars, tsVars, tmAuto, tmKills, v2Vars>>

\* The click on the refresh button, n times or by name.
FetchLocks(n, d) ==
  IF TmAsks("tmlock", d) THEN AskLocks(n, d, FALSE) /\ tmSpinning' = ~lucide
                         ELSE UNCHANGED <<tmAsked, tmSpinning>>

\* switchTab clicks the button, which the automatic refresh disables, unless it spins,
\* and makes the call itself as well.
OpenLocks(d) ==
  /\ FetchLocks(IF tmAuto \/ tmSpinning THEN 1 ELSE 2, d)
  /\ UNCHANGED <<tmAuto, tmTimers, tmListed, tmKills>>

RefreshLocks ==
  /\ section = "tmlock" /\ ~tmAuto
  /\ FetchLocks(1, currentDbId)
  /\ UNCHANGED <<watched, menuVars, tsVars, tmAuto, tmTimers, tmListed, tmAstray, tmKills, v2Vars>>

LoopAsks == \E d \in Databases : tmAsked[<<d, TRUE>>] > 0

\* clearTimeout of the timer scheduled last; while a request is on its way that one may
\* have fired already.
TimersCleared == {n \in 0..tmTimers : n = tmTimers - 1 \/ (n = tmTimers /\ LoopAsks)}

\* Stop clears that timer; start runs the loop's first turn.
ToggleLocks ==
  /\ watched = "tmlock" /\ section = "tmlock"
  /\ tmAuto' = ~tmAuto
  /\ IF tmAuto
     THEN tmTimers' \in TimersCleared /\ UNCHANGED <<tmAsked, tmSpinning>>
     ELSE IF TmAsks(section, currentDbId)
     THEN AskLocks(1, currentDbId, TRUE) /\ tmSpinning' = ~lucide /\ UNCHANGED tmTimers
     ELSE tmTimers' = tmTimers + 1 /\ UNCHANGED <<tmAsked, tmSpinning>>
  /\ UNCHANGED <<watched, menuVars, tsVars, tmListed, tmAstray, tmKills, v2Vars>>

\* A box, or the box that ticks or unticks them all.
TickLocks(ticked) ==
  /\ section = "tmlock"
  /\ ticked \subseteq tmRows /\ ticked # tmTicked
  /\ tmTicked' = ticked
  /\ tmApproved' = {a \in tmApproved : a[2] \in ticked} \cup {<<tmOf, s>> : s \in ticked \ tmTicked}
  /\ UNCHANGED <<watched, menuVars, tsVars, tmAuto, tmSpinning, tmTimers, tmAsked, tmRows, tmOf,
                 tmAstray, tmKills, v2Vars>>

\* The kill button, once the user has confirmed: what is ticked, in the database chosen by now.
KillLocks ==
  /\ section = "tmlock" /\ tmTicked # {} /\ currentDbId # None
  /\ tmKills' = tmKills \cup {[to |-> currentDbId, sessions |-> tmTicked]}
  /\ UNCHANGED <<watched, menuVars, tsVars, tmAuto, tmSpinning, tmTimers, tmAsked, tmListed, tmAstray, v2Vars>>

\* When the server has done it the list is asked for again; an error is only told.
LockKillAnswered(k, ok) ==
  /\ k \in tmKills /\ tmKills' = tmKills \ {k}
  /\ IF ok /\ section = "tmlock" THEN FetchLocks(1, currentDbId) ELSE UNCHANGED <<tmAsked, tmSpinning>>
  /\ UNCHANGED <<watched, menuVars, tsVars, tmAuto, tmTimers, tmListed, tmAstray, v2Vars>>

-----------------------------------------------------------------------------
\* The UI-1 dashboard.

\* Mutant: only the database whose round started last is remembered.
LastStarted(d) == {d}
Started(d) == inFlight \cup {d}

\* fetchInstanceDashboardV2 up to its await.
StartRound(menu, v, d) ==
  IF watched \in {"v2", "incident"} /\ menu = "dashboard" /\ v = "v2" /\ d # None /\ d \notin inFlight
  THEN /\ rounds' = rounds \cup {[db |-> d, waiting |-> Followed, reading |-> {}, open |-> TRUE]}
       /\ inFlight' = Started(d)
  ELSE UNCHANGED <<rounds, inFlight>>

shownVars == <<painted, label, killOffered, alarmAstray>>

PollTick ==
  /\ watched \in {"v2", "incident"} /\ view = "v2"
  /\ StartRound(section, view, currentDbId)
  /\ UNCHANGED <<watched, menuVars, tsVars, tmVars, view, shownVars, hook, incidents>>

\* What is left of a round after one of its requests; a rejection ends the wait of
\* Promise.all at once, and the requests that are left paint all the same.
RoundAfter(r, w, rejected) ==
  LET rest == [r EXCEPT !.waiting = @ \ {w}, !.reading = @ \ {w}]
      none == rest.waiting \cup rest.reading = {}
      now == [rest EXCEPT !.open = @ /\ ~rejected /\ ~none]
  IN /\ rounds' = (rounds \ {r}) \cup (IF none THEN {} ELSE {now})
     /\ inFlight' = IF r.open /\ ~now.open THEN inFlight \ {r.db} ELSE inFlight

\* The gate's button; where the gate is not read it goes.
Offer(w, d, on) ==
  IF w = "gate" THEN killOffered' = on /\ alarmAstray' = (on /\ d # currentDbId)
                ELSE UNCHANGED <<killOffered, alarmAstray>>

\* Mutant: requests have no time limit.
NeverAborts(r, w) == FALSE
Aborts(r, w) == w \in r.waiting
\* iv2Fetch: no headers for eight seconds, or a failure: a rejection, but not of the gate.
WidgetAborted(r, w) ==
  /\ r \in rounds /\ Aborts(r, w)
  /\ RoundAfter(r, w, w # "gate") /\ Offer(w, r.db, FALSE)
  /\ UNCHANGED <<watched, menuVars, tsVars, tmVars, view, painted, label, hook, incidents>>

\* With the headers the time limit ends: iv2Fetch clears it before the body is there.
HeadersArrived(r, w, ok) ==
  /\ r \in rounds /\ w \in r.waiting
  /\ IF ok
     THEN /\ rounds' = (rounds \ {r}) \cup {[r EXCEPT !.waiting = @ \ {w}, !.reading = @ \cup {w}]}
          /\ UNCHANGED <<inFlight, killOffered, alarmAstray>>
     ELSE RoundAfter(r, w, FALSE) /\ Offer(w, r.db, FALSE)
  /\ UNCHANGED <<watched, menuVars, tsVars, tmVars, view, painted, label, hook, incidents>>

\* iv2RenderSessionDbNameLabel: the name that was read last, if it is the chosen one's.
NameOf(of, d) == IF of = d THEN of ELSE None

\* The body is painted whichever database is chosen by now, unless it is an error in the
\* place of an overview.
BodyRead(r, w, ok, on) ==
  /\ r \in rounds /\ w \in r.reading /\ (ok \/ w = "overview")
  /\ RoundAfter(r, w, FALSE) /\ Offer(w, r.db, on)
  /\ painted' = IF ok THEN [painted EXCEPT ![w] = r.db] ELSE painted
  /\ label' = IF ok /\ w # "gate" THEN NameOf(painted'["overview"], currentDbId) ELSE label
  /\ UNCHANGED <<watched, menuVars, tsVars, tmVars, view, hook, incidents>>

BodyFailed(r, w) ==
  /\ r \in rounds /\ w \in r.reading
  /\ RoundAfter(r, w, w # "gate") /\ Offer(w, r.db, FALSE)
  /\ UNCHANGED <<watched, menuVars, tsVars, tmVars, view, painted, label, hook, incidents>>

\* setView
SetView(v) ==
  /\ watched = "v2" /\ section = "dashboard"
  /\ view' = v
  /\ StartRound(section, v, currentDbId)
  /\ UNCHANGED <<watched, menuVars, tsVars, tmVars, shownVars, hook, incidents>>

\* The 50 ms after the click on the dashboard's menu are over.
DashboardHook ==
  /\ hook /\ hook' = FALSE
  /\ StartRound(section, view, currentDbId)
  /\ UNCHANGED <<watched, menuVars, tsVars, tmVars, view, shownVars, incidents>>

\* The incident button: the holders of the chosen database are read ...
PressIncident ==
  /\ watched = "incident" /\ section = "dashboard" /\ killOffered /\ currentDbId # None
  /\ incidents' = incidents \cup
       {[db |-> currentDbId, step |-> "reading", sentTo |-> None, kinds |-> {},
         alarm |-> painted["gate"], astray |-> alarmAstray]}
  /\ UNCHANGED <<watched, menuVars, tsVars, tmVars, view, rounds, inFlight, shownVars, hook>>

\* Mutant: the kill goes to the database that is chosen by then.
SentToChosen(i) == currentDbId
SentTo(i) == i.db
KindsKilled(held) == held \cap {"TM"}

\* ... the TM holders among them, if the user confirms, are killed in that database ...
HoldersRead(i, held, confirmed) ==
  /\ i \in incidents /\ i.step = "reading"
  /\ incidents' = (incidents \ {i}) \cup
       (IF confirmed /\ KindsKilled(held) # {}
        THEN {[i EXCEPT !.step = "killing", !.sentTo = SentTo(i), !.kinds = KindsKilled(held)]} ELSE {})
  /\ UNCHANGED <<watched, menuVars, tsVars, tmVars, view, rounds, inFlight, shownVars, hook>>

\* ... and the chosen one's widgets are asked for anew, unless that failed.
IncidentKilled(i, ok) ==
  /\ i \in incidents /\ i.step = "killing"
  /\ incidents' = incidents \ {i}
  /\ IF ok THEN StartRound(section, view, currentDbId) ELSE UNCHANGED <<rounds, inFlight>>
  /\ UNCHANGED <<watched, menuVars, tsVars, tmVars, view, shownVars, hook>>

-----------------------------------------------------------------------------
\* What the panels do in switchTab(menu) with d chosen; only the followed one's
\* menu is ever open, so that the others do nothing.
SwitchTab(menu, d) ==
  /\ IF menu = "tablespace" THEN OpenTablespaces(d) ELSE UNCHANGED tsVars
  /\ IF menu = "tmlock" THEN OpenLocks(d)
     ELSE UNCHANGED <<tmAuto, tmSpinning, tmTimers, tmAsked, tmListed, tmKills>>
  /\ tmAstray' = (tmAstray \/ (d # currentDbId /\ tmRows # {}))

\* The click on a menu.
OpenMenu(menu) ==
  /\ watched \in {"tablespace", "tmlock", "lockkill", "v2", "incident", "history"} /\ section # menu
  /\ menu \in {"other", MenuOfPart}
  /\ section' = menu
  /\ SwitchTab(menu, currentDbId)
  /\ hook' = (hook \/ menu = "dashboard")
  /\ UNCHANGED <<watched, currentDbId, lucide, view, rounds, inFlight, shownVars, incidents>>

\* The click on an instance: the database, switchTab of the open menu, and a round
\* of the dashboard if that is what is open.
SelectDatabase(d) ==
  /\ currentDbId' = d
  /\ SwitchTab(section, d)
  /\ StartRound(section, view, d)
  /\ alarmAstray' = (alarmAstray \/ (killOffered /\ d # currentDbId))
  /\ UNCHANGED <<watched, section, lucide, view, painted, label, killOffered, hook, incidents>>

-----------------------------------------------------------------------------
PanelsBounded ==
  /\ \A p, q \in DOMAIN tmAsked' :
       p[2] = q[2] => tmAsked'[q] + (IF p = q THEN 0 ELSE tmAsked'[p]) <= MaxAsked
  /\ tmTimers' <= MaxTimers
  /\ Cardinality(rounds') <= MaxRounds
  /\ Cardinality(incidents') <= MaxIncidents /\ Cardinality(tmKills') <= MaxIncidents

TsAnswers(reqs) == \E r \in reqs, ok \in BOOLEAN : TablespacesAnswered(r, ok)
TmAnswers(loop) == \E d \in Databases :
  \/ LocksAnswered(d, loop, FALSE, {})
  \/ \E rows \in SUBSET Listable : LocksAnswered(d, loop, TRUE, rows)
WidgetAnswers == \E r \in rounds, w \in Widget, ok \in BOOLEAN :
  HeadersArrived(r, w, ok) \/ BodyFailed(r, w) \/ \E on \in BOOLEAN : (w = "gate" \/ ~on) /\ BodyRead(r, w, ok, on)
TimeLimit(d) == \E r \in rounds, w \in Widget : r.db = d /\ WidgetAborted(r, w)

LocksNext ==
  \/ LoopTick \/ (\E loop \in BOOLEAN : TmAnswers(loop)) \/ RefreshLocks \/ ToggleLocks
  \/ (\E ticked \in SUBSET tmRows : TickLocks(ticked)) \/ KillLocks
  \/ \E k \in tmKills, ok \in BOOLEAN : LockKillAnswered(k, ok)
IncidentNext ==
  \/ PressIncident
  \/ \E i \in incidents : \/ \E held \in SUBSET {"TM", "TX"}, yes \in BOOLEAN : HoldersRead(i, held, yes)
                          \/ \E ok \in BOOLEAN : IncidentKilled(i, ok)

PanelsNext ==
  \/ RefreshTablespaces \/ TsAnswers(tsReqs)
  \/ LocksNext
  \/ PollTick \/ WidgetAnswers \/ (\E d \in Databases : TimeLimit(d))
  \/ (\E v \in {"v2", "nd"} : SetView(v)) \/ DashboardHook
  \/ IncidentNext
  \/ \E menu \in Section : OpenMenu(menu)

-----------------------------------------------------------------------------
\* The tablespaces that can be seen without the overlay are those of the chosen
\* database, whatever was chosen and asked while another menu was open.
TablespacesOfChosen ==
  watched = "tablespace" /\ section = "tablespace" /\ ~tsOverlay =>
    tsRows \in {"choose", "error", currentDbId} \/ currentDbId = None

\* A KILL of the lock tree names sessions the user ticked, not one that took over the SID
\* of such a session, and goes to the database they were ticked in, unless with sessions
\* listed another one was chosen, or answered late.
KillsWhereTicked ==
  [][\A k \in tmKills' \ tmKills :
       /\ k.sessions \subseteq {a[2] : a \in tmApproved}
       /\ tmAstray \/ \A s \in k.sessions : <<k.to, s>> \in tmApproved]_<<tmKills, tmApproved, tmAstray>>

\* One round of a database at a time, and the set of databases that are being asked
\* knows exactly those, through A, B and A again and through failing requests.
OneRoundPerDatabase ==
  \A d \in Databases : Cardinality({r \in rounds : r.open /\ r.db = d}) = IF d \in inFlight THEN 1 ELSE 0

HitsAlarm(i) == i.step = "killing" => i.kinds = {"TM"} /\ (i.astray \/ i.sentTo = i.alarm)
\* The incident button kills holders of TM locks only, and those of the database whose
\* alarm offered it, whichever is chosen when they are read and confirmed, unless another
\* one was chosen, or answered late, before it was pressed.
IncidentHitsAlarm == [][\A i \in incidents' \ incidents : HitsAlarm(i)]_incidents

\* The database of a widget: a late answer of another one is painted all the same, and its
\* name over the session list goes; but who stays with a database to which the widget is
\* answered again and again comes to see that one for good, under its name.
WidgetsSettle ==
  \A d \in Databases, w \in Widget :
    <>[](currentDbId = d) /\ []<><<\E r \in rounds, on \in BOOLEAN : r.db = d /\ BodyRead(r, w, TRUE, on)>>_rounds
      => <>[](painted[w] = d /\ (w = "overview" => label = d))

\* Only an answer that stops half-way bars a database from the dashboard: a request whose
\* answer never begins does not.
RoundsEnd == \A d \in Databases :
  <>[](d \in inFlight) =>
    <>[](\E r \in rounds : r.db = d /\ r.open /\ r.waiting = {} /\ r.reading # {})

\* With the refresh on and the menu open the lock tree is asked for again and again, also
\* after failures and however often the refresh was stopped and started, unless from some
\* point on a request of the loop is on its way and none is answered any more.
LoopAskedAgain == \E d \in Databases : tmAsked'[<<d, TRUE>>] > tmAsked[<<d, TRUE>>]
LoopAnswered == \E d \in Databases : tmAsked'[<<d, TRUE>>] < tmAsked[<<d, TRUE>>]
LoopGoesOn ==
  <>[](watched = "tmlock" /\ tmAuto /\ TmAsks(section, currentDbId)) =>
    \/ []<><<LoopAskedAgain>>_tmAsked
    \/ <>[]LoopAsks /\ <>[][~LoopAnswered]_tmAsked
=============================================================================
