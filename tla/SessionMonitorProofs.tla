------------------------ MODULE SessionMonitorProofs ------------------------
(***************************************************************************)
(* Proofs about the Current Session menu, for any databases and sessions   *)
(* and any number of requests on their way: what is on the page belongs to *)
(* the chosen database, and the list implements the guard LatestRequest.   *)
(***************************************************************************)
EXTENDS SessionMonitor, FiniteSetTheorems, TLAPS

\* A guard knows one newest request.
OneLatest(reqs) == \A r, s \in reqs : r.latest /\ s.latest => r = s
\* An answer about a database is awaited.
Asked(reqs, d) == \E r \in reqs : r.latest /\ r.db = d

\* The list: whose sessions are listed and ticked, and that what is listed is what
\* the last answer said, so that sorting it shows nothing else.
ListInv ==
  /\ currentDbId \in Databases \cup {Blank}
  /\ sessionReqs \in SUBSET SessionReq /\ OneLatest(sessionReqs)
  /\ sessionRows \in {Blank, Error, currentDbId}
  /\ listed \in SUBSET Session /\ checked \in SUBSET Session
  /\ lastActive \in [db : Databases \cup {Blank}, rows : SUBSET Session]
  /\ sessionPainted \in BOOLEAN
  /\ checked \subseteq listed
  /\ listed # {} => sessionRows = currentDbId /\ currentDbId \in Databases
  /\ sessionRows \in Databases => sessionRows = lastActive.db

\* The charts.
ChartInv ==
  /\ ashRounds \in SUBSET AshRound /\ ashTimers \in Seq(Gen)
  /\ ashChart \in {Blank, Error, currentDbId} /\ topChart \in {Blank, Error, currentDbId}
  /\ longRange \in BOOLEAN /\ topNotice \in BOOLEAN

\* The rest of the types.
RestTyped ==
  /\ watched \in {"list", "charts"} /\ tab \in {"session", "other"} /\ hidden \in BOOLEAN
  /\ killing \in SUBSET Databases /\ spinning \in BOOLEAN /\ auto \in BOOLEAN
  /\ sessionTimers \in Seq(Gen) /\ toggleClicks \in 0..MaxClicks

Inv == ListInv /\ ChartInv /\ RestTyped

-----------------------------------------------------------------------------
\* Requests and timers.

\* A generation that grows older is one.
LEMMA GenAged == \A g \in Gen : Age(g) \in Gen
  BY DEF Gen, Age

\* begin() leaves one newest request, which is about the database it was given.
LEMMA BeginLatest ==
  ASSUME NEW reqs \in SUBSET SessionReq, NEW d \in Databases, NEW g \in Gen
  PROVE  /\ Begin(reqs, d, g) \in SUBSET SessionReq
         /\ OneLatest(Begin(reqs, d, g))
         /\ Asked(Begin(reqs, d, g), d)
<1> DEFINE new == [db |-> d, latest |-> TRUE, gen |-> g]
<1>1. new \in SessionReq
  BY DEF SessionReq
<1>2. \A r \in reqs : [r EXCEPT !.latest = FALSE] \in SessionReq /\ [r EXCEPT !.latest = FALSE].latest = FALSE
  BY DEF SessionReq
<1>3. \A r \in Begin(reqs, d, g) : r \in SessionReq /\ (r.latest => r = new)
  BY <1>1, <1>2 DEF Begin
<1>4. new \in Begin(reqs, d, g)
  BY DEF Begin
<1> QED
  BY <1>3, <1>4 DEF OneLatest, Asked

\* A new generation does not change which request is the newest.
LEMMA AgeLatest ==
  ASSUME NEW reqs \in SUBSET SessionReq
  PROVE  /\ AgeAll(reqs) \in SUBSET SessionReq
         /\ OneLatest(reqs) => OneLatest(AgeAll(reqs))
         /\ \A d : Asked(AgeAll(reqs), d) <=> Asked(reqs, d)
<1> DEFINE aged(r) == [r EXCEPT !.gen = Age(@)]
<1>1. \A r \in reqs : aged(r) \in SessionReq /\ aged(r).latest = r.latest /\ aged(r).db = r.db
  BY GenAged DEF SessionReq
<1>2. AgeAll(reqs) = {aged(r) : r \in reqs}
  BY DEF AgeAll
<1> HIDE DEF aged
<1>3. AgeAll(reqs) \in SUBSET SessionReq
  BY <1>1, <1>2
<1>4. OneLatest(reqs) => OneLatest(AgeAll(reqs))
  <2> SUFFICES ASSUME OneLatest(reqs), NEW r \in reqs, NEW s \in reqs, aged(r).latest, aged(s).latest
               PROVE  aged(r) = aged(s)
    BY <1>2 DEF OneLatest
  <2> QED
    BY <1>1 DEF OneLatest
<1>5. \A d : Asked(AgeAll(reqs), d) <=> Asked(reqs, d)
  BY <1>1, <1>2 DEF Asked
<1> QED
  BY <1>3, <1>4, <1>5

\* Without one of its requests a guard has no other newest one.
LEMMA RemoveLatest ==
  ASSUME NEW reqs \in SUBSET SessionReq, OneLatest(reqs), NEW r \in reqs
  PROVE  /\ reqs \ {r} \in SUBSET SessionReq
         /\ OneLatest(reqs \ {r})
         /\ r.latest => \A d : ~Asked(reqs \ {r}, d)
         /\ \A d : ~r.latest \/ r.db # d => (Asked(reqs \ {r}, d) <=> Asked(reqs, d))
  BY DEF OneLatest, Asked

\* Timers that are cancelled, aged, added and taken are timers.
LEMMA TimersTyped ==
  ASSUME NEW timers \in Seq(Gen)
  PROVE  /\ Cancelled(timers) \in Seq(Gen)
         /\ [i \in DOMAIN timers |-> Age(timers[i])] \in Seq(Gen)
         /\ \A g \in Gen : Append(timers, g) \in Seq(Gen)
         /\ timers # <<>> => Head(timers) \in Gen /\ Tail(timers) \in Seq(Gen)
<1>1. \A i \in 1..Len(timers) : Age(timers[i]) \in Gen
  BY GenAged
<1>2. Cancelled(timers) \in Seq(Gen)
  <2>1. CASE Len(timers) = 0
    <3>1. Cancelled(timers) = [i \in 1..0 |-> Age(timers[i])]
      BY <2>1 DEF Cancelled
    <3> QED
      BY <3>1
  <2>2. CASE Len(timers) # 0
    <3>1. Len(timers) - 1 \in Nat /\ \A i \in 1..(Len(timers) - 1) : Age(timers[i]) \in Gen
      BY <1>1, <2>2
    <3> QED
      BY <3>1 DEF Cancelled
  <2> QED
    BY <2>1, <2>2
<1>3. [i \in DOMAIN timers |-> Age(timers[i])] \in Seq(Gen)
  BY <1>1
<1> QED
  BY <1>2, <1>3

-----------------------------------------------------------------------------
\* The list.

\* A step that asks, or forgets that it asked before, leaves the list as it is.
LEMMA AskStep ==
  ASSUME ListInv, UNCHANGED <<currentDbId, rowVars>>,
         sessionReqs' \in SUBSET SessionReq, OneLatest(sessionReqs'),
         \/ Asked(sessionReqs', currentDbId)
         \/ Asked(sessionReqs', currentDbId) <=> Asked(sessionReqs, currentDbId)
  PROVE  ListInv' /\ [List!Next]_(List!vars)
<1>1. ListInv'
  BY DEF ListInv, rowVars
<1>2. CASE Asked(sessionReqs', currentDbId)
  <2>1. List!Ask
    BY <1>2 DEF List!Ask, Asked, rowVars
  <2> QED
    BY <1>1, <2>1 DEF List!Next
<1>3. CASE Asked(sessionReqs', currentDbId) <=> Asked(sessionReqs, currentDbId)
  <2>1. UNCHANGED List!vars
    BY <1>3 DEF List!vars, Asked, rowVars
  <2> QED
    BY <1>1, <2>1
<1> QED
  BY <1>2, <1>3

\* An answer is painted when it is the newest one about the chosen database, and dropped otherwise.
LEMMA AnswerStep ==
  ASSUME ListInv, NEW r \in sessionReqs, NEW ok \in BOOLEAN, NEW rows \in SUBSET Session,
         SessionsAnswered(r, ok, rows)
  PROVE  ListInv' /\ [List!Next]_(List!vars)
<1>1. r \in SessionReq /\ r.latest \in BOOLEAN /\ r.db \in Databases
  BY DEF ListInv, SessionReq
<1>2. sessionReqs' = sessionReqs \ {r} /\ currentDbId' = currentDbId
  BY DEF SessionsAnswered, pageVars
<1>3. /\ sessionReqs' \in SUBSET SessionReq /\ OneLatest(sessionReqs')
      /\ r.latest => ~Asked(sessionReqs', currentDbId)
      /\ ~r.latest \/ r.db # currentDbId =>
           (Asked(sessionReqs', currentDbId) <=> Asked(sessionReqs, currentDbId))
  BY <1>2, RemoveLatest DEF ListInv
<1>4. CASE IsStale(r.latest, r.db)
  <2>1. UNCHANGED rowVars
    BY <1>4 DEF SessionsAnswered
  <2>2. Asked(sessionReqs', currentDbId) <=> Asked(sessionReqs, currentDbId)
    BY <1>3, <1>4 DEF IsStale
  <2> QED
    BY <1>2, <1>3, <2>1, <2>2, AskStep
<1>5. CASE ~IsStale(r.latest, r.db)
  <2>1. r.latest /\ r.db = currentDbId
    BY <1>1, <1>5 DEF IsStale
  <2>2. Asked(sessionReqs, currentDbId) /\ ~Asked(sessionReqs', currentDbId)
    BY <1>3, <2>1 DEF Asked
  <2>3. CASE ok
    <3>1. /\ lastActive' = [db |-> currentDbId, rows |-> rows]
          /\ sessionRows' = currentDbId /\ listed' = rows /\ checked' = checked \cap rows
          /\ sessionPainted' = ~sessionPainted
      BY <1>5, <2>1, <2>3 DEF SessionsAnswered, RenderRows, PaintList
    <3>2. ListInv'
      <4>1. currentDbId \in Databases /\ currentDbId' = currentDbId
        BY <1>1, <1>2, <2>1
      <4>2. checked' \in SUBSET Session /\ lastActive' \in [db : Databases \cup {Blank}, rows : SUBSET Session]
        BY <3>1, <4>1 DEF ListInv
      <4>3. sessionPainted' \in BOOLEAN /\ checked' \subseteq listed' /\ lastActive'.db = currentDbId
        BY <3>1 DEF ListInv
      <4> QED
        BY <1>3, <3>1, <4>1, <4>2, <4>3 DEF ListInv
    <3>3. List!Answer
      BY <1>2, <2>2, <3>1 DEF List!Answer, Asked
    <3> QED
      BY <3>2, <3>3 DEF List!Next
  <2>4. CASE ~ok
    <3>1. /\ sessionRows' = Error /\ listed' = {} /\ checked' = {} /\ lastActive' = lastActive
          /\ sessionPainted' = ~sessionPainted
      BY <1>5, <2>4 DEF SessionsAnswered, RowsReplacedBy, PaintList
    <3>2. ListInv'
      BY <1>2, <1>3, <3>1, BlankAssumption DEF ListInv
    <3>3. List!Answer
      BY <1>2, <2>2, <3>1 DEF List!Answer, Asked
    <3> QED
      BY <3>2, <3>3 DEF List!Next
  <2> QED
    BY <2>3, <2>4
<1> QED
  BY <1>4, <1>5

\* Rows are only drawn again where they are those of the last answer.
LEMMA SortStep ==
  ASSUME ListInv, SortByDuration, SortsWhileWaiting = FALSE
  PROVE  ListInv' /\ [List!Next]_(List!vars)
<1>1. /\ sessionRows \in Databases /\ sessionRows = lastActive.db
      /\ currentDbId' = currentDbId /\ sessionReqs' = sessionReqs
      /\ lastActive' = lastActive /\ sessionPainted' = sessionPainted
      /\ sessionRows' = lastActive.db /\ listed' = lastActive.rows
      /\ checked' = checked \cap lastActive.rows
  BY DEF ListInv, SortByDuration, RenderRows, pageVars
<1>2. ListInv'
  BY <1>1, BlankAssumption DEF ListInv
<1>3. UNCHANGED List!vars
  BY <1>1 DEF List!vars
<1> QED
  BY <1>2, <1>3

\* Ticking boxes changes nothing else of the list.
LEMMA TickStep ==
  ASSUME ListInv, NEW ticked \in SUBSET Session, TickBoxes(ticked)
  PROVE  ListInv' /\ [List!Next]_(List!vars)
<1>1. /\ ticked \subseteq listed /\ checked' = ticked
      /\ currentDbId' = currentDbId /\ sessionReqs' = sessionReqs /\ listed' = listed
      /\ lastActive' = lastActive /\ sessionPainted' = sessionPainted /\ sessionRows' = sessionRows
  BY DEF TickBoxes, pageVars
<1>2. ListInv'
  <2>1. /\ currentDbId' \in Databases \cup {Blank}
        /\ sessionReqs' \in SUBSET SessionReq /\ OneLatest(sessionReqs')
        /\ sessionRows' \in {Blank, Error, currentDbId'}
        /\ lastActive' \in [db : Databases \cup {Blank}, rows : SUBSET Session]
        /\ sessionPainted' \in BOOLEAN
        /\ sessionRows' \in Databases => sessionRows' = lastActive'.db
    BY <1>1 DEF ListInv
  <2>2. listed' \in SUBSET Session /\ checked' \in SUBSET Session
    BY <1>1 DEF ListInv
  <2>3. checked' \subseteq listed' /\ (listed' # {} => sessionRows' = currentDbId' /\ currentDbId' \in Databases)
    BY <1>1 DEF ListInv
  <2> QED
    BY <2>1, <2>2, <2>3 DEF ListInv
<1>3. UNCHANGED List!vars
  BY <1>1 DEF List!vars
<1> QED
  BY <1>2, <1>3

\* Asking the chosen database, in this generation or a new one.
LEMMA BeginStep ==
  ASSUME ListInv, NEW g \in Gen, currentDbId # Blank, UNCHANGED <<currentDbId, rowVars>>,
         \/ sessionReqs' = Begin(sessionReqs, currentDbId, g)
         \/ sessionReqs' = Begin(AgeAll(sessionReqs), currentDbId, g)
  PROVE  ListInv' /\ [List!Next]_(List!vars)
<1>1. currentDbId \in Databases /\ sessionReqs \in SUBSET SessionReq
  BY DEF ListInv
<1>2. AgeAll(sessionReqs) \in SUBSET SessionReq
  BY <1>1, AgeLatest
<1>3. /\ sessionReqs' \in SUBSET SessionReq /\ OneLatest(sessionReqs')
      /\ Asked(sessionReqs', currentDbId)
  BY <1>1, <1>2, BeginLatest
<1> QED
  BY <1>3, AskStep

\* A new generation alone.
LEMMA AgeStep ==
  ASSUME ListInv, UNCHANGED <<currentDbId, rowVars>>,
         sessionReqs' = sessionReqs \/ sessionReqs' = AgeAll(sessionReqs)
  PROVE  ListInv' /\ [List!Next]_(List!vars)
<1>1. sessionReqs \in SUBSET SessionReq /\ OneLatest(sessionReqs)
  BY DEF ListInv
<1>2. /\ sessionReqs' \in SUBSET SessionReq /\ OneLatest(sessionReqs')
      /\ Asked(sessionReqs', currentDbId) <=> Asked(sessionReqs, currentDbId)
  BY <1>1, AgeLatest
<1> QED
  BY <1>2, AskStep

\* The toggle: both ways make a new generation, and turning it on asks.
LEMMA ToggleStep ==
  ASSUME ListInv, Toggled, UNCHANGED pageVars
  PROVE  ListInv' /\ [List!Next]_(List!vars)
<1>1. currentDbId' = currentDbId /\ UNCHANGED rowVars
  BY DEF Toggled, FetchSessions, pageVars
<1>2. CASE ~auto /\ Asking("list")
  <2>1. currentDbId # Blank /\ sessionReqs' = Begin(AgeAll(sessionReqs), currentDbId, "newest")
    BY <1>2 DEF Toggled, FetchSessions, Asking
  <2> QED
    BY <1>1, <2>1, BeginStep DEF Gen
<1>3. CASE auto \/ ~Asking("list")
  <2>1. sessionReqs' = AgeAll(sessionReqs)
    BY <1>3 DEF Toggled, FetchSessions
  <2> QED
    BY <1>1, <2>1, AgeStep
<1> QED
  BY <1>2, <1>3

\* A timer asks again, or waits for the menu.
LEMMA TimerStep ==
  ASSUME ListInv, RestTyped, SessionTick
  PROVE  ListInv' /\ [List!Next]_(List!vars)
<1>1. currentDbId' = currentDbId /\ UNCHANGED rowVars
  BY DEF SessionTick, pageVars
<1>2. Head(sessionTimers) \in Gen
  BY TimersTyped DEF RestTyped, SessionTick
<1>3. CASE Asking("list")
  <2>1. currentDbId # Blank /\ sessionReqs' = Begin(sessionReqs, currentDbId, Head(sessionTimers))
    BY <1>3 DEF SessionTick, Asking
  <2> QED
    BY <1>1, <1>2, <2>1, BeginStep
<1>4. CASE ~Asking("list")
  <2>1. sessionReqs' = sessionReqs
    BY <1>4 DEF SessionTick
  <2> QED
    BY <1>1, <2>1, AgeStep
<1> QED
  BY <1>3, <1>4

\* The refresh button, pressed by the user or by an answered KILL, and the menu.
LEMMA ButtonStep ==
  ASSUME ListInv, Refresh \/ (\E ok \in BOOLEAN : KillAnswered(ok)) \/ OpenSessionMenu
  PROVE  ListInv' /\ [List!Next]_(List!vars)
<1>1. currentDbId' = currentDbId /\ UNCHANGED rowVars
  BY DEF Refresh, KillAnswered, OpenSessionMenu, pageVars
<1>2. \/ currentDbId # Blank /\ sessionReqs' = Begin(sessionReqs, currentDbId, "none")
      \/ sessionReqs' = sessionReqs
  BY DEF Refresh, KillAnswered, OpenSessionMenu, Asking
<1> QED
  BY <1>1, <1>2, BeginStep, AgeStep DEF Gen

\* Another database: the list is cleared, whatever is still asked.
LEMMA SelectStep ==
  ASSUME ListInv, NEW d \in Databases, SelectDatabase(d)
  PROVE  ListInv' /\ [List!Next]_(List!vars)
<1>1. /\ currentDbId' = d /\ sessionRows' = Blank /\ listed' = {} /\ checked' = {}
      /\ lastActive' = lastActive /\ sessionPainted' = sessionPainted
      /\ \/ sessionReqs' = Begin(Begin(sessionReqs, d, "none"), d, "none")
         \/ sessionReqs' = sessionReqs
  BY DEF SelectDatabase, ResetSessionMonitor, RowsReplacedBy
<1>2. sessionReqs \in SUBSET SessionReq /\ OneLatest(sessionReqs) /\ "none" \in Gen
  BY DEF ListInv, Gen
<1>3. Begin(sessionReqs, d, "none") \in SUBSET SessionReq
  BY <1>2, BeginLatest
<1>4. sessionReqs' \in SUBSET SessionReq /\ OneLatest(sessionReqs')
  BY <1>1, <1>2, <1>3, BeginLatest
<1>5. ListInv'
  BY <1>1, <1>4, BlankAssumption DEF ListInv
<1>6. List!Select(d)
  BY <1>1 DEF List!Select
<1> QED
  BY <1>5, <1>6 DEF List!Next

\* Every step keeps the invariant of the list, and is a step of the guard or nothing to it.
LEMMA ListStep ==
  ASSUME Inv, [Next]_vars, SortsWhileWaiting = FALSE
  PROVE  ListInv' /\ [List!Next]_(List!vars)
<1> USE DEF Inv
<1>1. CASE AnswerSessions
  BY <1>1, AnswerStep DEF AnswerSessions
<1>2. CASE SortByDuration
  BY <1>2, SortStep
<1>3. CASE \E ticked \in SUBSET Session : TickBoxes(ticked)
  BY <1>3, TickStep
<1>4. CASE Refresh \/ (\E ok \in BOOLEAN : KillAnswered(ok)) \/ OpenSessionMenu
  BY <1>4, ButtonStep
<1>5. CASE SessionTick
  BY <1>5, TimerStep
<1>6. CASE ToggleByUser \/ ToggleDelayed
  <2>1. Toggled /\ UNCHANGED pageVars
    BY <1>6 DEF ToggleByUser, ToggleDelayed
  <2> QED
    BY <2>1, ToggleStep
<1>7. CASE \E d \in Databases : SelectDatabase(d)
  BY <1>7, SelectStep
<1>8. CASE AnswerAsh \/ KillSessions \/ AshTick \/ (\E long \in BOOLEAN : ChooseRange(long))
           \/ OpenOtherMenu \/ HideOrShow \/ UNCHANGED vars
  <2>1. currentDbId' = currentDbId /\ sessionReqs' = sessionReqs /\ UNCHANGED rowVars
    BY <1>8 DEF AnswerAsh, AshActivityAnswered, AshTopSqlAnswered, KillSessions, AshTick, ChooseRange,
                OpenOtherMenu, HideOrShow, vars, pageVars, listVars
  <2> QED
    BY <2>1, AgeStep
<1> QED
  BY <1>1, <1>2, <1>3, <1>4, <1>5, <1>6, <1>7, <1>8 DEF Next

-----------------------------------------------------------------------------
\* The charts.

\* Rounds stay rounds through a new generation, a new request and an invalidation.
LEMMA RoundsTyped ==
  ASSUME NEW rounds \in SUBSET AshRound
  PROVE  /\ AgeAll(rounds) \in SUBSET AshRound
         /\ Invalidated(rounds) \in SUBSET AshRound
         /\ {[q EXCEPT !.gen = "older"] : q \in rounds} \in SUBSET AshRound
<1>1. \A q \in rounds : [q EXCEPT !.gen = Age(@)] \in AshRound
  BY GenAged DEF AshRound
<1>2. \A q \in rounds : [q EXCEPT !.ashLatest = FALSE, !.topLatest = FALSE] \in AshRound
  BY DEF AshRound
<1>3. \A q \in rounds : [q EXCEPT !.gen = "older"] \in AshRound
  BY DEF AshRound, Gen
<1> QED
  BY <1>1, <1>2, <1>3 DEF AgeAll, Invalidated

\* So they do when a new round is begun.
LEMMA StartedTyped ==
  ASSUME NEW rounds \in SUBSET AshRound, NEW d \in Databases, NEW g \in Gen, longRange' \in BOOLEAN
  PROVE  StartRound(rounds, d, g) \in SUBSET AshRound
<1>1. Round(d, g) \in AshRound
  <2>1. CASE longRange'
    BY <2>1 DEF Round, AshRound
  <2>2. CASE ~longRange'
    BY <2>2 DEF Round, AshRound
  <2> QED
    BY <2>1, <2>2
<1>2. \A q \in rounds : (q.topLatest /\ longRange') \in BOOLEAN
  OBVIOUS
<1>3. \A q \in rounds : [q EXCEPT !.ashLatest = FALSE, !.topLatest = @ /\ longRange'] \in AshRound
  BY <1>2 DEF AshRound
<1> QED
  BY <1>1, <1>3 DEF StartRound

\* The polling starts again with rounds and timers.
LEMMA RestartTyped ==
  ASSUME NEW rounds \in SUBSET AshRound, NEW timers \in Seq(Gen), NEW d, NEW asking \in BOOLEAN,
         asking => d \in Databases, longRange' \in BOOLEAN, RestartAshPolling(rounds, timers, d, asking)
  PROVE  ashRounds' \in SUBSET AshRound /\ ashTimers' \in Seq(Gen)
<1>1. AgeAll(rounds) \in SUBSET AshRound
  BY RoundsTyped
<1>2. Cancelled(timers) \in Seq(Gen) /\ "newest" \in Gen
  BY TimersTyped DEF Gen
<1>3. Append(Cancelled(timers), "newest") \in Seq(Gen)
  BY <1>2, TimersTyped
<1>4. CASE asking
  <2>1. StartRound(AgeAll(rounds), d, "newest") \in SUBSET AshRound
    BY <1>1, <1>2, <1>4, StartedTyped
  <2> QED
    BY <1>2, <1>4, <2>1 DEF RestartAshPolling
<1>5. CASE ~asking
  BY <1>1, <1>3, <1>5 DEF RestartAshPolling
<1> QED
  BY <1>4, <1>5

\* A round goes on, or ends and starts its timer.
LEMMA RoundAfterTyped ==
  ASSUME ChartInv, NEW q \in ashRounds, NEW changed \in AshRound, RoundAfter(q, changed)
  PROVE  ashRounds' \in SUBSET AshRound /\ ashTimers' \in Seq(Gen)
<1>1. Append(ashTimers, "newest") \in Seq(Gen)
  BY TimersTyped DEF ChartInv, Gen
<1> QED
  BY <1>1 DEF RoundAfter, ChartInv

\* The activity chart after an await.
LEMMA ActivityStep ==
  ASSUME ChartInv, ListInv, NEW q \in ashRounds, NEW answer \in {"rows", "empty", "error"},
         AshActivityAnswered(q, answer)
  PROVE  ChartInv'
<1> DEFINE stale == IsStale(q.ashLatest, q.db)
           again == q.ash = "history" /\ answer = "empty" /\ ~longRange /\ ~stale
           changed == IF again THEN [q EXCEPT !.ash = "realtime"]
                               ELSE [q EXCEPT !.ash = "done", !.ashLatest = FALSE]
<1>1. q \in AshRound
  BY DEF ChartInv
<1>2. changed \in AshRound
  <2>1. [q EXCEPT !.ash = "realtime"] \in AshRound
    BY <1>1 DEF AshRound
  <2>2. [q EXCEPT !.ash = "done", !.ashLatest = FALSE] \in AshRound
    BY <1>1 DEF AshRound
  <2> QED
    BY <2>1, <2>2
<1>3. /\ RoundAfter(q, changed)
      /\ ashChart' = CASE stale \/ again -> ashChart
                       [] ~stale /\ answer = "error" -> IF ashChart = Blank THEN Error ELSE ashChart
                       [] OTHER -> ChartOf(q)
      /\ currentDbId' = currentDbId /\ topChart' = topChart
      /\ longRange' = longRange /\ topNotice' = topNotice
  BY DEF AshActivityAnswered, pageVars
<1>4. ashRounds' \in SUBSET AshRound /\ ashTimers' \in Seq(Gen)
  <2> HIDE DEF changed
  <2> QED
    BY <1>2, <1>3, RoundAfterTyped
<1>5. ~stale => q.db = currentDbId
  BY DEF IsStale
<1>6. ashChart' \in {ashChart, Error, currentDbId}
  <2> HIDE DEF stale, again
  <2> QED
    BY <1>3, <1>5 DEF ChartOf
<1> QED
  BY <1>3, <1>4, <1>6 DEF ChartInv

\* The Top SQL chart after its await.
LEMMA TopSqlStep ==
  ASSUME ChartInv, ListInv, NEW q \in ashRounds, NEW ok \in BOOLEAN, AshTopSqlAnswered(q, ok)
  PROVE  ChartInv'
<1> DEFINE stale == IsStale(q.topLatest, q.db)
           changed == [q EXCEPT !.top = "done", !.topLatest = FALSE]
<1>1. changed \in AshRound
  BY DEF ChartInv, AshRound
<1>2. /\ RoundAfter(q, changed)
      /\ topChart' = CASE stale -> topChart
                       [] ~stale /\ ~ok -> IF topChart = Blank THEN Error ELSE topChart
                       [] OTHER -> TopChartOf(q)
      /\ topNotice' = IF ok /\ ~stale THEN FALSE ELSE topNotice
      /\ currentDbId' = currentDbId /\ ashChart' = ashChart /\ longRange' = longRange
  BY DEF AshTopSqlAnswered, pageVars
<1>3. ashRounds' \in SUBSET AshRound /\ ashTimers' \in Seq(Gen)
  <2> HIDE DEF changed
  <2> QED
    BY <1>1, <1>2, RoundAfterTyped
<1>4. ~stale => q.db = currentDbId
  BY DEF IsStale
<1>5. topChart' \in {topChart, Error, currentDbId}
  <2> HIDE DEF stale
  <2> QED
    BY <1>2, <1>4 DEF TopChartOf
<1>6. topNotice' \in BOOLEAN
  <2> HIDE DEF stale
  <2> QED
    BY <1>2 DEF ChartInv
<1> QED
  BY <1>2, <1>3, <1>5, <1>6 DEF ChartInv

\* The Top SQL chart of a range: cleared, or as it was.
LEMMA RangeTyped ==
  ASSUME NEW asking \in BOOLEAN, NEW chart, TopSqlOfRange(asking, chart), topNotice \in BOOLEAN
  PROVE  topChart' \in {chart, Blank} /\ topNotice' \in BOOLEAN
  BY DEF TopSqlOfRange

\* The timer of the charts.
LEMMA ChartTickStep ==
  ASSUME ChartInv, ListInv, AshTick
  PROVE  ChartInv'
<1>1. /\ longRange' = longRange /\ currentDbId' = currentDbId /\ ashChart' = ashChart
      /\ Asking("charts") \in BOOLEAN /\ TopSqlOfRange(Asking("charts"), topChart)
  BY DEF AshTick, pageVars, Asking
<1>2. topChart' \in {topChart, Blank} /\ topNotice' \in BOOLEAN
  BY <1>1, RangeTyped DEF ChartInv
<1>3. Head(ashTimers) \in Gen /\ Tail(ashTimers) \in Seq(Gen)
  BY TimersTyped DEF AshTick, ChartInv
<1>4. CASE Asking("charts")
  <2>1. currentDbId \in Databases
    BY <1>4 DEF Asking, ListInv
  <2>2. ashRounds' = StartRound(ashRounds, currentDbId, Head(ashTimers)) /\ ashTimers' = Tail(ashTimers)
    BY <1>4 DEF AshTick
  <2>3. ashRounds' \in SUBSET AshRound
    BY <1>1, <1>3, <2>1, <2>2, StartedTyped DEF ChartInv
  <2> QED
    BY <1>1, <1>2, <1>3, <2>2, <2>3 DEF ChartInv
<1>5. CASE ~Asking("charts")
  <2>1. /\ ashRounds' = ashRounds
        /\ ashTimers' \in {Append(Tail(ashTimers), "newest"), Tail(ashTimers)}
    BY <1>5 DEF AshTick
  <2>2. ashTimers' \in Seq(Gen)
    BY <1>3, <2>1, TimersTyped DEF Gen
  <2> QED
    BY <1>1, <1>2, <2>1, <2>2 DEF ChartInv
<1> QED
  BY <1>4, <1>5

\* A range button, and the menu that is opened for a chosen database.
LEMMA RangeStep ==
  ASSUME ChartInv, ListInv, NEW asking \in BOOLEAN, asking => currentDbId \in Databases,
         longRange' \in BOOLEAN, currentDbId' = currentDbId, ashChart' = ashChart,
         RestartAshPolling(ashRounds, ashTimers, currentDbId, asking), TopSqlOfRange(asking, topChart)
  PROVE  ChartInv'
<1>1. ashRounds' \in SUBSET AshRound /\ ashTimers' \in Seq(Gen)
  BY RestartTyped DEF ChartInv
<1>2. topChart' \in {topChart, Blank} /\ topNotice' \in BOOLEAN
  BY RangeTyped DEF ChartInv
<1> QED
  BY <1>1, <1>2 DEF ChartInv

\* Another database: both charts are cleared and every round on its way is stale.
LEMMA ChartSelectStep ==
  ASSUME ChartInv, ListInv, NEW d \in Databases, SelectDatabase(d)
  PROVE  ChartInv'
<1> DEFINE charts == SectionVisible(tab, hidden) /\ watched = "charts"
           asked == StartRound(Invalidated(AgeAll(ashRounds)), d, "newest")
           first == IF charts THEN {[q EXCEPT !.gen = "older"] : q \in asked}
                              ELSE Invalidated(ashRounds)
<1>1. /\ currentDbId' = d /\ longRange' = longRange /\ ashChart' = Blank
      /\ RestartAshPolling(first, ashTimers, d, charts) /\ TopSqlOfRange(charts, Blank)
  BY DEF SelectDatabase
<1>2. first \in SUBSET AshRound
  <2>1. ashRounds \in SUBSET AshRound /\ longRange' \in BOOLEAN /\ "newest" \in Gen
    BY <1>1 DEF ChartInv, Gen
  <2>2. Invalidated(ashRounds) \in SUBSET AshRound /\ Invalidated(AgeAll(ashRounds)) \in SUBSET AshRound
    BY <2>1, RoundsTyped
  <2>3. asked \in SUBSET AshRound
    BY <2>1, <2>2, StartedTyped
  <2> HIDE DEF asked, charts
  <2> QED
    BY <2>2, <2>3, RoundsTyped
<1>3. charts \in BOOLEAN
  BY DEF SectionVisible
<1> HIDE DEF first, charts
<1>4. ashRounds' \in SUBSET AshRound /\ ashTimers' \in Seq(Gen)
  BY <1>1, <1>2, <1>3, RestartTyped DEF ChartInv
<1>5. topChart' = Blank /\ topNotice' \in BOOLEAN
  BY <1>1, <1>3, RangeTyped DEF ChartInv
<1> QED
  BY <1>1, <1>4, <1>5 DEF ChartInv

\* Every step keeps the invariant of the charts.
LEMMA ChartStep ==
  ASSUME Inv, [Next]_vars
  PROVE  ChartInv'
<1> USE DEF Inv
<1>1. CASE AnswerAsh
  BY <1>1, ActivityStep, TopSqlStep DEF AnswerAsh
<1>2. CASE AshTick
  BY <1>2, ChartTickStep
<1>3. CASE \E long \in BOOLEAN : ChooseRange(long)
  <2>1. PICK long \in BOOLEAN : ChooseRange(long)
    BY <1>3
  <2>2. /\ longRange' \in BOOLEAN /\ currentDbId' = currentDbId /\ ashChart' = ashChart
        /\ RestartAshPolling(ashRounds, ashTimers, currentDbId, Asking("charts"))
        /\ TopSqlOfRange(Asking("charts"), topChart)
    BY <2>1 DEF ChooseRange, pageVars
  <2>3. Asking("charts") \in BOOLEAN /\ (Asking("charts") => currentDbId \in Databases)
    BY DEF Asking, ListInv
  <2> QED
    BY <2>2, <2>3, RangeStep
<1>4. CASE \E d \in Databases : SelectDatabase(d)
  BY <1>4, ChartSelectStep
<1>5. CASE OpenSessionMenu
  <2> DEFINE charts == watched = "charts" /\ currentDbId # Blank
  <2>1. longRange' = longRange /\ currentDbId' = currentDbId /\ ashChart' = ashChart
    BY <1>5 DEF OpenSessionMenu
  <2>2. CASE currentDbId = Blank
    BY <1>5, <2>1, <2>2 DEF OpenSessionMenu, ChartInv
  <2>3. CASE currentDbId # Blank
    <3>1. RestartAshPolling(ashRounds, ashTimers, currentDbId, charts) /\ TopSqlOfRange(charts, topChart)
      BY <1>5, <2>3 DEF OpenSessionMenu
    <3>2. charts \in BOOLEAN /\ currentDbId \in Databases /\ longRange' \in BOOLEAN
      BY <2>1, <2>3 DEF ListInv, ChartInv
    <3> HIDE DEF charts
    <3> QED
      BY <2>1, <3>1, <3>2, RangeStep
  <2> QED
    BY <2>2, <2>3
<1>6. CASE AnswerSessions \/ SortByDuration \/ (\E ticked \in SUBSET Session : TickBoxes(ticked))
           \/ KillSessions \/ (\E ok \in BOOLEAN : KillAnswered(ok)) \/ Refresh \/ SessionTick
           \/ ToggleByUser \/ ToggleDelayed \/ OpenOtherMenu \/ HideOrShow \/ UNCHANGED vars
  <2>1. currentDbId' = currentDbId /\ UNCHANGED ashVars
    BY <1>6 DEF AnswerSessions, SessionsAnswered, SortByDuration, TickBoxes, KillSessions, KillAnswered,
                Refresh, SessionTick, ToggleByUser, ToggleDelayed, OpenOtherMenu, HideOrShow, vars, pageVars
  <2> QED
    BY <2>1 DEF ChartInv, ashVars
<1> QED
  BY <1>1, <1>2, <1>3, <1>4, <1>5, <1>6 DEF Next
-----------------------------------------------------------------------------
\* The rest of the types.

\* The menus of the page.
LEMMA PageTyped ==
  ASSUME ListInv, RestTyped, [Next]_vars
  PROVE  watched' \in {"list", "charts"} /\ tab' \in {"session", "other"} /\ hidden' \in BOOLEAN
<1>1. CASE OpenSessionMenu \/ OpenOtherMenu \/ HideOrShow \/ (\E d \in Databases : SelectDatabase(d))
  BY <1>1 DEF OpenSessionMenu, OpenOtherMenu, HideOrShow, SelectDatabase, RestTyped
<1>2. CASE AnswerSessions \/ AnswerAsh \/ SortByDuration \/ (\E ticked \in SUBSET Session : TickBoxes(ticked))
           \/ KillSessions \/ (\E ok \in BOOLEAN : KillAnswered(ok)) \/ Refresh \/ SessionTick
           \/ ToggleByUser \/ ToggleDelayed \/ AshTick \/ (\E long \in BOOLEAN : ChooseRange(long))
           \/ UNCHANGED vars
  <2>1. UNCHANGED pageVars
    BY <1>2 DEF AnswerSessions, SessionsAnswered, AnswerAsh, AshActivityAnswered, AshTopSqlAnswered,
                SortByDuration, TickBoxes, KillSessions, KillAnswered, Refresh, SessionTick,
                ToggleByUser, ToggleDelayed, AshTick, ChooseRange, vars
  <2> QED
    BY <2>1 DEF pageVars, RestTyped
<1> QED
  BY <1>1, <1>2 DEF Next

\* A KILL goes to a database, because a ticked session was listed for one.
LEMMA KillTyped ==
  ASSUME ListInv, RestTyped, [Next]_vars
  PROVE  killing' \in SUBSET Databases
<1>1. CASE KillSessions
  <2>1. currentDbId \in Databases
    <3>1. listed # {}
      BY <1>1 DEF KillSessions, ListInv
    <3> QED
      BY <3>1 DEF ListInv
  <2> QED
    BY <1>1, <2>1 DEF KillSessions
<1>2. CASE \E ok \in BOOLEAN : KillAnswered(ok)
  BY <1>2 DEF KillAnswered
<1>3. CASE AnswerSessions \/ AnswerAsh \/ SortByDuration \/ (\E ticked \in SUBSET Session : TickBoxes(ticked))
           \/ Refresh \/ SessionTick \/ ToggleByUser \/ ToggleDelayed \/ AshTick
           \/ (\E long \in BOOLEAN : ChooseRange(long)) \/ (\E d \in Databases : SelectDatabase(d))
           \/ OpenSessionMenu \/ OpenOtherMenu \/ HideOrShow \/ UNCHANGED vars
  <2>1. killing' = killing
    BY <1>3 DEF AnswerSessions, SessionsAnswered, AnswerAsh, AshActivityAnswered, AshTopSqlAnswered,
                SortByDuration, TickBoxes, Refresh, SessionTick, ToggleByUser, ToggleDelayed, Toggled,
                FetchSessions, AshTick, ChooseRange, SelectDatabase, OpenSessionMenu, OpenOtherMenu,
                HideOrShow, vars, listVars
  <2> QED
    BY <2>1 DEF RestTyped
<1> QED
  BY <1>1, <1>2, <1>3 DEF Next

\* The refresh: its timers, its spinner and the clicks that were put off.
LEMMA RefreshTyped ==
  ASSUME ListInv, RestTyped, [Next]_vars
  PROVE  /\ auto' \in BOOLEAN /\ spinning' \in BOOLEAN
         /\ sessionTimers' \in Seq(Gen) /\ toggleClicks' \in 0..MaxClicks
<1>1. CASE AnswerSessions
  <2>1. PICK r \in sessionReqs, ok \in BOOLEAN, rows \in SUBSET Session : SessionsAnswered(r, ok, rows)
    BY <1>1 DEF AnswerSessions
  <2>2. spinning' \in BOOLEAN /\ auto' = auto /\ toggleClicks' = toggleClicks
    BY <2>1 DEF SessionsAnswered, SpinnerAfter, RestTyped
  <2>3. sessionTimers' \in {sessionTimers, Append(sessionTimers, "newest")}
    BY <2>1 DEF SessionsAnswered
  <2>4. sessionTimers' \in Seq(Gen)
    BY <2>3, TimersTyped DEF RestTyped, Gen
  <2> QED
    BY <2>2, <2>4 DEF RestTyped
<1>2. CASE SessionTick
  <2>1. Head(sessionTimers) \in Gen /\ Tail(sessionTimers) \in Seq(Gen)
    BY <1>2, TimersTyped DEF SessionTick, RestTyped
  <2>2. /\ auto' = auto /\ toggleClicks' = toggleClicks /\ spinning' \in {spinning, TRUE}
        /\ sessionTimers' \in {Tail(sessionTimers), Append(Tail(sessionTimers), Head(sessionTimers))}
    BY <1>2 DEF SessionTick
  <2>3. sessionTimers' \in Seq(Gen)
    BY <2>1, <2>2, TimersTyped
  <2> QED
    BY <2>2, <2>3 DEF RestTyped
<1>3. CASE ToggleByUser \/ ToggleDelayed
  <2>1. Toggled
    BY Zenon, <1>3 DEF ToggleByUser, ToggleDelayed
  <2>2. toggleClicks' \in 0..MaxClicks
    <3>1. toggleClicks' = toggleClicks \/ (toggleClicks > 0 /\ toggleClicks' = toggleClicks - 1)
      BY Zenon, <1>3 DEF ToggleByUser, ToggleDelayed
    <3> QED
      BY <3>1, BoundAssumption DEF RestTyped
  <2>3. auto' \in BOOLEAN /\ spinning' \in BOOLEAN
    BY <2>1 DEF Toggled, FetchSessions, RestTyped
  <2> DEFINE left == [i \in DOMAIN sessionTimers |-> Age(sessionTimers[i])]
  <2>4. sessionTimers' \in {Cancelled(sessionTimers), left, Append(left, "newest")}
    BY <2>1 DEF Toggled
  <2>5. Cancelled(sessionTimers) \in Seq(Gen) /\ left \in Seq(Gen)
    BY TimersTyped DEF RestTyped
  <2> HIDE DEF left
  <2>6. sessionTimers' \in Seq(Gen)
    BY <2>4, <2>5, TimersTyped DEF Gen
  <2> QED
    BY <2>2, <2>3, <2>6
<1>4. CASE OpenSessionMenu \/ (\E d \in Databases : SelectDatabase(d))
  <2>1. Bounded \/ UNCHANGED vars
    BY DEF Next
  <2>2. /\ auto' = auto /\ sessionTimers' = sessionTimers
        /\ toggleClicks' \in {toggleClicks, toggleClicks + 1}
    BY <1>4 DEF OpenSessionMenu, SelectDatabase, PutOffToggle
  <2>3. spinning' \in BOOLEAN
    BY <1>4 DEF OpenSessionMenu, SelectDatabase, SectionVisible, RestTyped
  <2>4. toggleClicks' \in 0..MaxClicks
    BY <2>1, <2>2, BoundAssumption DEF Bounded, vars, refreshVars, RestTyped
  <2> QED
    BY <2>2, <2>3, <2>4 DEF RestTyped
<1>5. CASE Refresh \/ (\E ok \in BOOLEAN : KillAnswered(ok))
  BY <1>5 DEF Refresh, KillAnswered, refreshVars, RestTyped
<1>6. CASE AnswerAsh \/ SortByDuration \/ (\E ticked \in SUBSET Session : TickBoxes(ticked))
           \/ KillSessions \/ AshTick \/ (\E long \in BOOLEAN : ChooseRange(long))
           \/ OpenOtherMenu \/ HideOrShow \/ UNCHANGED vars
  <2>1. UNCHANGED <<refreshVars, spinning>>
    BY <1>6 DEF AnswerAsh, AshActivityAnswered, AshTopSqlAnswered, SortByDuration, TickBoxes, KillSessions,
                AshTick, ChooseRange, OpenOtherMenu, HideOrShow, vars, listVars
  <2> QED
    BY <2>1 DEF refreshVars, RestTyped
<1> QED
  BY <1>1, <1>2, <1>3, <1>4, <1>5, <1>6 DEF Next

-----------------------------------------------------------------------------
\* The page begins cleared, with nothing asked.
LEMMA InitInv == Init => Inv
<1> SUFFICES ASSUME Init
             PROVE  Inv
  OBVIOUS
<1>1. ListInv
  BY DEF Init, ListInv, OneLatest
<1>2. <<>> \in Seq(Gen)
  OBVIOUS
<1>3. ChartInv
  BY <1>2 DEF Init, ChartInv
<1>4. RestTyped
  <2>1. 0 \in 0..MaxClicks
    BY BoundAssumption
  <2> QED
    BY <1>2, <2>1 DEF Init, RestTyped
<1> QED
  BY <1>1, <1>3, <1>4 DEF Inv

\* Every step keeps the invariant.
LEMMA NextInv ==
  ASSUME Inv, [Next]_vars, SortsWhileWaiting = FALSE
  PROVE  Inv'
<1>1. ListInv'
  BY ListStep
<1>2. ChartInv'
  BY ChartStep
<1>3. RestTyped'
  BY PageTyped, KillTyped, RefreshTyped DEF RestTyped, Inv
<1> QED
  BY <1>1, <1>2, <1>3 DEF Inv

\* The invariant says more than what is promised of the page.
LEMMA InvOfPage == Inv => PageOfCurrentDatabase
<1> SUFFICES ASSUME Inv
             PROVE  PageOfCurrentDatabase
  OBVIOUS
<1>1. TypeOK
  BY DEF Inv, ListInv, ChartInv, RestTyped, TypeOK
<1>2. ShowsCurrentDatabase /\ TickedOfCurrentDatabase
  BY DEF Inv, ListInv, ChartInv, ShowsCurrentDatabase, TickedOfCurrentDatabase
<1> QED
  BY <1>1, <1>2 DEF PageOfCurrentDatabase

\* Whatever the databases, the sessions and the number of requests on their way:
\* list and charts show the chosen database, and every ticked session was listed for
\* it, as long as nobody sorts the list while its answer is awaited.
THEOREM PageIsOfDatabase ==
  ASSUME SortsWhileWaiting = FALSE
  PROVE  Spec => []PageOfCurrentDatabase
<1>1. Init => Inv
  BY InitInv
<1>2. Inv /\ [Next]_vars => Inv'
  BY NextInv
<1>3. Inv => PageOfCurrentDatabase
  BY InvOfPage
<1> QED
  BY <1>1, <1>2, <1>3, PTL DEF Spec

\* The list of fetchSessions implements the guard dbagentLatestRequest: it is painted
\* once per question, by an answer about the chosen database, and every other step of
\* the page is a question, a choice of database or nothing to it.
THEOREM ListImplementsGuard ==
  ASSUME SortsWhileWaiting = FALSE
  PROVE  Spec => ListKeepsPromise
<1>1. Init => Inv
  BY InitInv
<1>2. Inv /\ [Next]_vars => Inv'
  BY NextInv
<1>3. Init => List!Init
  BY DEF Init, List!Init
<1>4. Inv /\ [Next]_vars => [List!Next]_(List!vars)
  BY ListStep
<1> QED
  BY <1>1, <1>2, <1>3, <1>4, PTL DEF Spec, ListKeepsPromise, List!Spec
-----------------------------------------------------------------------------
\* The polling chains.  A chain is a request of the newest generation or the timer that
\* follows it; sorting cannot disturb one, so nothing is assumed of the user here.
NewestOf(reqs) == {r \in reqs : r.gen = "newest"}
Alone(reqs) == \A r, s \in NewestOf(reqs) : r = s

\* What a step has to know of the requests and rounds on their way.
Asks ==
  /\ currentDbId \in Databases \cup {Blank} /\ longRange \in BOOLEAN /\ auto \in BOOLEAN
  /\ sessionReqs \in SUBSET SessionReq /\ ashRounds \in SUBSET AshRound

\* A timer that is pending is the only one and of the newest generation, and a chain is
\* either its request or its timer.
SessionChain ==
  /\ Alone(sessionReqs) /\ sessionTimers \in {<<>>, <<"newest">>}
  /\ NewestOf(sessionReqs) = {} \/ sessionTimers = <<>>
  /\ auto <=> NewestOf(sessionReqs) # {} \/ sessionTimers # <<>>
AshChain ==
  /\ Alone(ashRounds) /\ ashTimers \in {<<>>, <<"newest">>}
  /\ NewestOf(ashRounds) = {} \/ ashTimers = <<>>
  /\ currentDbId # Blank => NewestOf(ashRounds) # {} \/ ashTimers # <<>>

Chains == Asks /\ SessionChain /\ AshChain

\* The one timer there can be.
LEMMA OneTimer ==
  ASSUME NEW timers \in {<<>>, <<"newest">>}
  PROVE  /\ Cancelled(timers) = <<>>
         /\ [i \in DOMAIN timers |-> Age(timers[i])] \in {<<>>, <<"older">>}
         /\ timers = <<>> => [i \in DOMAIN timers |-> Age(timers[i])] = <<>>
         /\ Append(<<>>, "newest") = <<"newest">>
         /\ timers # <<>> => Head(timers) = "newest" /\ Tail(timers) = <<>>
<1>1. CASE timers = <<>>
  BY <1>1 DEF Cancelled
<1>2. CASE timers = <<"newest">>
  <2>1. Cancelled(timers) = [i \in 1..0 |-> Age(timers[i])]
    BY <1>2 DEF Cancelled
  <2>2. Cancelled(timers) = <<>>
    BY <2>1
  <2>3. [i \in DOMAIN timers |-> Age(timers[i])] = <<"older">>
    BY <1>2 DEF Age
  <2> QED
    BY <1>2, <2>2, <2>3
<1> QED
  BY <1>1, <1>2

\* The first timer of a queue.
LEMMA FirstTimer == Append(<<>>, "newest") = <<"newest">>
  OBVIOUS

\* A new generation: nothing on its way is of it.
LEMMA AgedChain ==
  /\ \A reqs \in SUBSET SessionReq : NewestOf(AgeAll(reqs)) = {}
  /\ \A rounds \in SUBSET AshRound : NewestOf(AgeAll(rounds)) = {}
<1>1. \A r \in SessionReq : [r EXCEPT !.gen = Age(@)].gen # "newest"
  BY DEF SessionReq, Age
<1>2. \A q \in AshRound : [q EXCEPT !.gen = Age(@)].gen # "newest"
  BY DEF AshRound, Age
<1> QED
  BY <1>1, <1>2 DEF AgeAll, NewestOf

\* A new request is the chain if it is of the newest generation, and nothing to it if not.
LEMMA BegunChain ==
  ASSUME NEW reqs \in SUBSET SessionReq, NEW d \in Databases, NEW g \in Gen
  PROVE  /\ g = "newest" /\ NewestOf(reqs) = {} =>
              Alone(Begin(reqs, d, g)) /\ NewestOf(Begin(reqs, d, g)) # {}
         /\ g # "newest" /\ Alone(reqs) =>
              Alone(Begin(reqs, d, g)) /\ (NewestOf(Begin(reqs, d, g)) = {} <=> NewestOf(reqs) = {})
<1> DEFINE new == [db |-> d, latest |-> TRUE, gen |-> g]
           old(r) == [r EXCEPT !.latest = FALSE]
<1>1. \A r \in reqs : old(r).gen = r.gen
  BY DEF SessionReq
<1>2. new.gen = g /\ Begin(reqs, d, g) = {old(r) : r \in reqs} \cup {new}
  BY DEF Begin
<1> HIDE DEF new, old
<1>3. \A r \in NewestOf(Begin(reqs, d, g)) :
        \/ r = new /\ g = "newest"
        \/ \E s \in NewestOf(reqs) : r = old(s)
  BY <1>1, <1>2 DEF NewestOf
<1>4. g = "newest" => new \in NewestOf(Begin(reqs, d, g))
  BY <1>2 DEF NewestOf
<1>5. \A s \in NewestOf(reqs) : old(s) \in NewestOf(Begin(reqs, d, g))
  BY <1>1, <1>2 DEF NewestOf
<1> QED
  BY <1>3, <1>4, <1>5 DEF Alone

\* The same of a round of the charts.
LEMMA StartedChain ==
  ASSUME NEW rounds \in SUBSET AshRound, NEW d \in Databases, NEW g \in Gen, longRange' \in BOOLEAN,
         NewestOf(rounds) = {}
  PROVE  /\ Alone(StartRound(rounds, d, g))
         /\ g = "newest" => NewestOf(StartRound(rounds, d, g)) # {}
<1> DEFINE old(q) == [q EXCEPT !.ashLatest = FALSE, !.topLatest = @ /\ longRange']
<1>1. \A q \in rounds : old(q).gen = q.gen
  BY DEF AshRound
<1>2. Round(d, g).gen = g /\ StartRound(rounds, d, g) = {old(q) : q \in rounds} \cup {Round(d, g)}
  BY DEF Round, StartRound
<1> HIDE DEF old
<1>3. NewestOf(StartRound(rounds, d, g)) \subseteq {Round(d, g)}
  BY <1>1, <1>2 DEF NewestOf
<1>4. g = "newest" => Round(d, g) \in NewestOf(StartRound(rounds, d, g))
  BY <1>2 DEF NewestOf
<1> QED
  BY <1>3, <1>4 DEF Alone

\* An answer ends the chain or hands it to its timer.
LEMMA AnswerChain ==
  ASSUME Asks, SessionChain, AnswerSessions
  PROVE  SessionChain'
<1>1. PICK r \in sessionReqs, ok \in BOOLEAN, rows \in SUBSET Session : SessionsAnswered(r, ok, rows)
  BY DEF AnswerSessions
<1>2. /\ sessionReqs' = sessionReqs \ {r} /\ auto' = auto
      /\ sessionTimers' = IF auto /\ r.gen = "newest" THEN Append(sessionTimers, "newest") ELSE sessionTimers
  BY <1>1 DEF SessionsAnswered, Resumes
<1>3. Alone(sessionReqs') /\ NewestOf(sessionReqs') = NewestOf(sessionReqs) \ {r}
  BY <1>2 DEF SessionChain, Alone, NewestOf
<1>4. CASE r.gen = "newest"
  <2>1. r \in NewestOf(sessionReqs) /\ NewestOf(sessionReqs') = {}
    BY <1>3, <1>4 DEF SessionChain, Alone, NewestOf
  <2>2. auto /\ sessionTimers = <<>>
    BY <2>1 DEF SessionChain
  <2>3. sessionTimers' = <<"newest">>
    BY <1>2, <1>4, <2>2, FirstTimer
  <2>4. Alone(sessionReqs') /\ auto'
    BY <1>2, <1>3, <2>2
  <2>5. <<"newest">> # <<>>
    OBVIOUS
  <2> QED
    BY <2>1, <2>3, <2>4, <2>5 DEF SessionChain
<1>5. CASE r.gen # "newest"
  <2>1. NewestOf(sessionReqs') = NewestOf(sessionReqs) /\ sessionTimers' = sessionTimers
    BY <1>2, <1>3, <1>5 DEF NewestOf
  <2> QED
    BY <1>2, <1>3, <2>1 DEF SessionChain
<1> QED
  BY <1>4, <1>5

\* The timer becomes the request, or waits for the menu; it is there while the refresh is on.
LEMMA TickChain ==
  ASSUME Asks, SessionChain, SessionTick
  PROVE  SessionChain'
<1>1. sessionTimers = <<"newest">> /\ NewestOf(sessionReqs) = {} /\ auto /\ auto' = auto
  BY DEF SessionTick, SessionChain
<1>2. Head(sessionTimers) = "newest" /\ Tail(sessionTimers) = <<>>
  BY <1>1, OneTimer
<1>3. CASE Asking("list")
  <2>1. sessionReqs' = Begin(sessionReqs, currentDbId, "newest") /\ sessionTimers' = <<>>
    BY <1>2, <1>3 DEF SessionTick
  <2>2. currentDbId \in Databases /\ sessionReqs \in SUBSET SessionReq /\ "newest" \in Gen
    BY <1>3 DEF Asking, Asks, Gen
  <2>3. Alone(sessionReqs') /\ NewestOf(sessionReqs') # {}
    BY <1>1, <2>1, <2>2, BegunChain
  <2> QED
    BY <1>1, <2>1, <2>3 DEF SessionChain
<1>4. CASE ~Asking("list")
  <2>1. sessionReqs' = sessionReqs /\ sessionTimers' = <<"newest">>
    BY <1>1, <1>2, <1>4, OneTimer DEF SessionTick, Resumes
  <2> QED
    BY <1>1, <2>1 DEF SessionChain
<1> QED
  BY <1>3, <1>4

\* Stop leaves no chain, start begins one.
LEMMA ToggleChain ==
  ASSUME Asks, SessionChain, Toggled
  PROVE  SessionChain'
<1>1. auto' = ~auto /\ auto' \in BOOLEAN /\ NewestOf(AgeAll(sessionReqs)) = {}
  BY AgedChain DEF Toggled, Asks
<1>2. CASE auto
  <2>1. sessionReqs' = AgeAll(sessionReqs) /\ sessionTimers' = <<>>
    BY <1>2, OneTimer DEF Toggled, SessionChain
  <2> QED
    BY <1>1, <1>2, <2>1 DEF SessionChain, Alone
<1>3. CASE ~auto
  <2>1. sessionTimers = <<>> /\ [i \in DOMAIN sessionTimers |-> Age(sessionTimers[i])] = <<>>
    BY <1>3, OneTimer DEF SessionChain
  <2>2. CASE Asking("list")
    <3>1. sessionReqs' = Begin(AgeAll(sessionReqs), currentDbId, "newest") /\ sessionTimers' = <<>>
      BY <1>3, <2>1, <2>2 DEF Toggled, FetchSessions
    <3>2. currentDbId \in Databases /\ AgeAll(sessionReqs) \in SUBSET SessionReq /\ "newest" \in Gen
      BY <2>2, AgeLatest DEF Asking, Asks, Gen
    <3>3. Alone(sessionReqs') /\ NewestOf(sessionReqs') # {}
      BY <1>1, <3>1, <3>2, BegunChain
    <3> QED
      BY <1>1, <1>3, <3>1, <3>3 DEF SessionChain
  <2>3. CASE ~Asking("list")
    <3>1. sessionReqs' = AgeAll(sessionReqs) /\ sessionTimers' = <<"newest">>
      BY <1>3, <2>1, <2>3, OneTimer DEF Toggled, FetchSessions
    <3> QED
      BY <1>1, <1>3, <3>1 DEF SessionChain, Alone
  <2> QED
    BY <2>2, <2>3
<1> QED
  BY <1>2, <1>3

\* The buttons and the choice of a database ask outside the chain.
LEMMA AskChain ==
  ASSUME Asks, SessionChain,
         Refresh \/ (\E ok \in BOOLEAN : KillAnswered(ok)) \/ OpenSessionMenu \/ (\E d \in Databases : SelectDatabase(d))
  PROVE  SessionChain'
<1>1. sessionTimers' = sessionTimers /\ auto' = auto
  BY DEF Refresh, KillAnswered, OpenSessionMenu, SelectDatabase, refreshVars
<1>2. \/ sessionReqs' = sessionReqs
      \/ \E d \in Databases : \/ sessionReqs' = Begin(sessionReqs, d, "none")
                              \/ sessionReqs' = Begin(Begin(sessionReqs, d, "none"), d, "none")
  BY DEF Refresh, KillAnswered, OpenSessionMenu, SelectDatabase, Asking, Asks
<1>3. sessionReqs \in SUBSET SessionReq /\ "none" \in Gen /\ Alone(sessionReqs)
  BY DEF Asks, Gen, SessionChain
<1>4. \A d \in Databases :
        /\ Begin(sessionReqs, d, "none") \in SUBSET SessionReq
        /\ Alone(Begin(sessionReqs, d, "none"))
        /\ NewestOf(Begin(sessionReqs, d, "none")) = {} <=> NewestOf(sessionReqs) = {}
  BY <1>3, BeginLatest, BegunChain
<1>5. Alone(sessionReqs') /\ (NewestOf(sessionReqs') = {} <=> NewestOf(sessionReqs) = {})
  BY <1>2, <1>3, <1>4, BegunChain
<1> QED
  BY <1>1, <1>5 DEF SessionChain

\* Every step keeps the chain of the list.
LEMMA SessionChainStep ==
  ASSUME Asks, SessionChain, [Next]_vars
  PROVE  SessionChain'
<1>1. CASE AnswerSessions
  BY <1>1, AnswerChain
<1>2. CASE SessionTick
  BY <1>2, TickChain
<1>3. CASE ToggleByUser \/ ToggleDelayed
  <2>1. Toggled
    BY Zenon, <1>3 DEF ToggleByUser, ToggleDelayed
  <2> QED
    BY <2>1, ToggleChain
<1>4. CASE Refresh \/ (\E ok \in BOOLEAN : KillAnswered(ok)) \/ OpenSessionMenu
           \/ (\E d \in Databases : SelectDatabase(d))
  BY <1>4, AskChain
<1>5. CASE AnswerAsh \/ SortByDuration \/ (\E ticked \in SUBSET Session : TickBoxes(ticked))
           \/ KillSessions \/ AshTick \/ (\E long \in BOOLEAN : ChooseRange(long))
           \/ OpenOtherMenu \/ HideOrShow \/ UNCHANGED vars
  <2>1. UNCHANGED <<sessionReqs, refreshVars>>
    BY <1>5 DEF AnswerAsh, AshActivityAnswered, AshTopSqlAnswered, SortByDuration, TickBoxes, KillSessions,
                AshTick, ChooseRange, OpenOtherMenu, HideOrShow, vars, listVars
  <2> QED
    BY <2>1 DEF refreshVars, SessionChain, Alone, NewestOf
<1> QED
  BY <1>1, <1>2, <1>3, <1>4, <1>5 DEF Next

\* The polling of the charts starts again as one chain, whatever was on its way.
LEMMA RestartChain ==
  ASSUME NEW rounds \in SUBSET AshRound, ashTimers \in {<<>>, <<"newest">>}, longRange' \in BOOLEAN,
         NEW d, NEW asking \in BOOLEAN, asking => d \in Databases,
         RestartAshPolling(rounds, ashTimers, d, asking)
  PROVE  AshChain'
<1>1. AgeAll(rounds) \in SUBSET AshRound /\ NewestOf(AgeAll(rounds)) = {} /\ Cancelled(ashTimers) = <<>>
  BY RoundsTyped, AgedChain, OneTimer
<1>2. CASE asking
  <2>1. ashRounds' = StartRound(AgeAll(rounds), d, "newest") /\ ashTimers' = <<>>
    BY <1>1, <1>2 DEF RestartAshPolling
  <2>2. Alone(ashRounds') /\ NewestOf(ashRounds') # {}
    BY <1>1, <1>2, <2>1, StartedChain DEF Gen
  <2> QED
    BY <2>1, <2>2 DEF AshChain
<1>3. CASE ~asking
  <2>1. ashRounds' = AgeAll(rounds) /\ ashTimers' = <<"newest">>
    BY <1>1, <1>3, OneTimer DEF RestartAshPolling
  <2> QED
    BY <1>1, <2>1 DEF AshChain, Alone
<1> QED
  BY <1>2, <1>3

\* An answer of a chart leaves the round in the chain until both are there.
LEMMA RoundAfterChain ==
  ASSUME Asks, AshChain, currentDbId' = currentDbId, NEW q \in ashRounds, NEW changed \in AshRound,
         changed.gen = q.gen, RoundAfter(q, changed)
  PROVE  AshChain'
<1>1. CASE changed.ash = "done" /\ changed.top = "done"
  <2>1. /\ ashRounds' = ashRounds \ {q}
        /\ ashTimers' = IF q.gen = "newest" THEN Append(ashTimers, "newest") ELSE ashTimers
    BY <1>1 DEF RoundAfter
  <2>2. Alone(ashRounds') /\ NewestOf(ashRounds') = NewestOf(ashRounds) \ {q}
    BY <2>1 DEF AshChain, Alone, NewestOf
  <2>3. CASE q.gen = "newest"
    <3>1. q \in NewestOf(ashRounds) /\ NewestOf(ashRounds') = {} /\ ashTimers = <<>>
      BY <2>2, <2>3 DEF AshChain, Alone, NewestOf
    <3>2. ashTimers' = <<"newest">>
      BY <2>1, <2>3, <3>1, FirstTimer
    <3> QED
      BY <2>2, <3>1, <3>2 DEF AshChain
  <2>4. CASE q.gen # "newest"
    <3>1. NewestOf(ashRounds') = NewestOf(ashRounds) /\ ashTimers' = ashTimers
      BY <2>1, <2>2, <2>4 DEF NewestOf
    <3> QED
      BY <2>2, <3>1 DEF AshChain
  <2> QED
    BY <2>3, <2>4
<1>2. CASE ~(changed.ash = "done" /\ changed.top = "done")
  <2>1. ashRounds' = (ashRounds \ {q}) \cup {changed} /\ ashTimers' = ashTimers
    BY <1>2 DEF RoundAfter
  <2>2. Alone(ashRounds') /\ (NewestOf(ashRounds') = {} <=> NewestOf(ashRounds) = {})
    BY <2>1 DEF AshChain, Alone, NewestOf
  <2> QED
    BY <2>1, <2>2 DEF AshChain
<1> QED
  BY <1>1, <1>2

\* The chart that was answered.
LEMMA ChartAnswerChain ==
  ASSUME Asks, AshChain, AnswerAsh
  PROVE  AshChain' /\ ashRounds' \in SUBSET AshRound
<1>1. PICK q \in ashRounds : \/ \E answer \in {"rows", "empty", "error"} : AshActivityAnswered(q, answer)
                             \/ \E ok \in BOOLEAN : AshTopSqlAnswered(q, ok)
  BY DEF AnswerAsh
<1> DEFINE steps == { [q EXCEPT !.ash = "realtime"], [q EXCEPT !.ash = "done", !.ashLatest = FALSE],
                      [q EXCEPT !.top = "done", !.topLatest = FALSE] }
<1>2. q \in AshRound
  BY DEF Asks
<1>3. \A changed \in steps : changed \in AshRound /\ changed.gen = q.gen
  BY <1>2 DEF AshRound
<1>4. currentDbId' = currentDbId /\ \E changed \in steps : RoundAfter(q, changed)
  BY <1>1 DEF AshActivityAnswered, AshTopSqlAnswered, pageVars
<1> HIDE DEF steps
<1>5. PICK changed \in steps : RoundAfter(q, changed)
  BY <1>4
<1>6. ashRounds' \in SUBSET AshRound
  BY <1>3, <1>5 DEF RoundAfter, Asks
<1> QED
  BY <1>3, <1>4, <1>5, <1>6, RoundAfterChain

\* The timer of the charts.
LEMMA ChartTickChain ==
  ASSUME Asks, AshChain, AshTick
  PROVE  AshChain' /\ ashRounds' \in SUBSET AshRound
<1>1. ashTimers = <<"newest">> /\ NewestOf(ashRounds) = {} /\ currentDbId' = currentDbId /\ longRange' = longRange
  BY DEF AshTick, AshChain, pageVars
<1>2. Head(ashTimers) = "newest" /\ Tail(ashTimers) = <<>> /\ "newest" \in Gen
  BY <1>1, OneTimer DEF Gen
<1>3. CASE Asking("charts")
  <2>1. ashRounds' = StartRound(ashRounds, currentDbId, "newest") /\ ashTimers' = <<>>
    BY <1>2, <1>3 DEF AshTick
  <2>2. currentDbId \in Databases /\ ashRounds \in SUBSET AshRound /\ longRange' \in BOOLEAN
    BY <1>1, <1>3 DEF Asking, Asks
  <2>3. Alone(ashRounds') /\ NewestOf(ashRounds') # {} /\ ashRounds' \in SUBSET AshRound
    BY <1>1, <1>2, <2>1, <2>2, StartedChain, StartedTyped
  <2> QED
    BY <2>1, <2>3 DEF AshChain
<1>4. CASE ~Asking("charts")
  <2>1. ashRounds' = ashRounds /\ ashTimers' = <<"newest">>
    BY <1>2, <1>4, OneTimer DEF AshTick
  <2> QED
    BY <1>1, <2>1 DEF AshChain, Asks
<1> QED
  BY <1>3, <1>4

\* What starts the polling again: a range, a database, the menu.
LEMMA RestartingChain ==
  ASSUME Asks, AshChain,
         (\E long \in BOOLEAN : ChooseRange(long)) \/ (\E d \in Databases : SelectDatabase(d)) \/ OpenSessionMenu
  PROVE  AshChain' /\ ashRounds' \in SUBSET AshRound
<1>1. ashTimers \in {<<>>, <<"newest">>} /\ ashTimers \in Seq(Gen) /\ ashRounds \in SUBSET AshRound
  <2>1. <<>> \in Seq(Gen) /\ <<"newest">> \in Seq(Gen)
    BY DEF Gen
  <2> QED
    BY <2>1 DEF AshChain, Asks
<1>2. CASE \E long \in BOOLEAN : ChooseRange(long)
  <2>1. /\ longRange' \in BOOLEAN /\ Asking("charts") \in BOOLEAN
        /\ RestartAshPolling(ashRounds, ashTimers, currentDbId, Asking("charts"))
    BY <1>2 DEF ChooseRange, Asking
  <2>2. Asking("charts") => currentDbId \in Databases
    BY DEF Asking, Asks
  <2> QED
    BY <1>1, <2>1, <2>2, RestartChain, RestartTyped
<1>3. CASE \E d \in Databases : SelectDatabase(d)
  <2>1. PICK d \in Databases : SelectDatabase(d)
    BY <1>3
  <2> DEFINE charts == SectionVisible(tab, hidden) /\ watched = "charts"
             asked == StartRound(Invalidated(AgeAll(ashRounds)), d, "newest")
             first == IF charts THEN {[q EXCEPT !.gen = "older"] : q \in asked} ELSE Invalidated(ashRounds)
  <2>2. RestartAshPolling(first, ashTimers, d, charts) /\ longRange' = longRange
    BY <2>1 DEF SelectDatabase
  <2>3. charts \in BOOLEAN /\ longRange' \in BOOLEAN /\ "newest" \in Gen
    BY <2>2 DEF SectionVisible, Asks, Gen
  <2>4. Invalidated(ashRounds) \in SUBSET AshRound /\ asked \in SUBSET AshRound
    BY <1>1, <2>3, RoundsTyped, StartedTyped
  <2> HIDE DEF asked, charts
  <2>5. first \in SUBSET AshRound
    BY <2>4, RoundsTyped
  <2> HIDE DEF first
  <2> QED
    BY <1>1, <2>2, <2>3, <2>5, RestartChain, RestartTyped
<1>4. CASE OpenSessionMenu
  <2> DEFINE charts == watched = "charts" /\ currentDbId # Blank
  <2>1. currentDbId' = currentDbId /\ longRange' = longRange
    BY <1>4 DEF OpenSessionMenu
  <2>2. CASE currentDbId = Blank
    <3>1. ashRounds' = ashRounds /\ ashTimers' = ashTimers
      BY <1>4, <2>2 DEF OpenSessionMenu
    <3> QED
      BY <1>1, <2>1, <3>1 DEF AshChain, Alone, NewestOf
  <2>3. CASE currentDbId # Blank
    <3>1. RestartAshPolling(ashRounds, ashTimers, currentDbId, charts)
      BY <1>4, <2>3 DEF OpenSessionMenu
    <3>2. charts \in BOOLEAN /\ (charts => currentDbId \in Databases) /\ longRange' \in BOOLEAN
      BY <2>1 DEF Asks
    <3> HIDE DEF charts
    <3> QED
      BY <1>1, <3>1, <3>2, RestartChain, RestartTyped
  <2> QED
    BY <2>2, <2>3
<1> QED
  BY <1>2, <1>3, <1>4

\* Every step keeps the chain of the charts.
LEMMA AshChainStep ==
  ASSUME Asks, AshChain, [Next]_vars
  PROVE  AshChain' /\ ashRounds' \in SUBSET AshRound
<1>1. CASE AnswerAsh
  BY <1>1, ChartAnswerChain
<1>2. CASE AshTick
  BY <1>2, ChartTickChain
<1>3. CASE (\E long \in BOOLEAN : ChooseRange(long)) \/ (\E d \in Databases : SelectDatabase(d)) \/ OpenSessionMenu
  BY <1>3, RestartingChain
<1>4. CASE AnswerSessions \/ SortByDuration \/ (\E ticked \in SUBSET Session : TickBoxes(ticked))
           \/ KillSessions \/ (\E ok \in BOOLEAN : KillAnswered(ok)) \/ Refresh \/ SessionTick
           \/ ToggleByUser \/ ToggleDelayed \/ OpenOtherMenu \/ HideOrShow \/ UNCHANGED vars
  <2>1. currentDbId' = currentDbId /\ UNCHANGED ashVars
    BY <1>4 DEF AnswerSessions, SessionsAnswered, SortByDuration, TickBoxes, KillSessions, KillAnswered,
                Refresh, SessionTick, ToggleByUser, ToggleDelayed, OpenOtherMenu, HideOrShow, vars, pageVars
  <2> QED
    BY <2>1 DEF ashVars, AshChain, Alone, NewestOf, Asks
<1> QED
  BY <1>1, <1>2, <1>3, <1>4 DEF Next

\* Requests stay requests.
LEMMA AsksStep ==
  ASSUME Asks, SessionChain, AshChain, [Next]_vars
  PROVE  Asks'
<1>1. ashRounds' \in SUBSET AshRound
  BY AshChainStep
<1>2. currentDbId' \in Databases \cup {Blank}
  BY DEF Asks, Next, AnswerSessions, SessionsAnswered, AnswerAsh, AshActivityAnswered, AshTopSqlAnswered,
         SortByDuration, TickBoxes, KillSessions, KillAnswered, Refresh, SessionTick, ToggleByUser,
         ToggleDelayed, AshTick, ChooseRange, SelectDatabase, OpenSessionMenu, OpenOtherMenu, HideOrShow,
         vars, pageVars
<1>3. longRange' \in BOOLEAN
  BY DEF Asks, Next, AnswerSessions, SessionsAnswered, AnswerAsh, AshActivityAnswered, AshTopSqlAnswered,
         SortByDuration, TickBoxes, KillSessions, KillAnswered, Refresh, SessionTick, ToggleByUser,
         ToggleDelayed, AshTick, ChooseRange, SelectDatabase, OpenSessionMenu, OpenOtherMenu, HideOrShow,
         vars, ashVars
<1>4. CASE ToggleByUser \/ ToggleDelayed
  <2>1. Toggled
    BY Zenon, <1>4 DEF ToggleByUser, ToggleDelayed
  <2>2. AgeAll(sessionReqs) \in SUBSET SessionReq
    BY AgeLatest DEF Asks
  <2>3. \/ sessionReqs' = AgeAll(sessionReqs)
        \/ currentDbId \in Databases /\ sessionReqs' = Begin(AgeAll(sessionReqs), currentDbId, "newest")
    BY <2>1 DEF Toggled, FetchSessions, Asking, Asks
  <2>4. auto' \in BOOLEAN /\ sessionReqs' \in SUBSET SessionReq
    BY <2>1, <2>2, <2>3, BeginLatest DEF Toggled, Gen
  <2> QED
    BY <1>1, <1>2, <1>3, <2>4 DEF Asks
<1>5. CASE ~(ToggleByUser \/ ToggleDelayed)
  <2>1. auto' = auto
    BY <1>5 DEF Next, AnswerSessions, SessionsAnswered, AnswerAsh, AshActivityAnswered, AshTopSqlAnswered,
         SortByDuration, TickBoxes, KillSessions, KillAnswered, Refresh, SessionTick, AshTick,
         ChooseRange, SelectDatabase, OpenSessionMenu, OpenOtherMenu, HideOrShow, vars, refreshVars
  <2>2. \/ sessionReqs' \in SUBSET sessionReqs
        \/ \E d \in Databases, g \in Gen : \/ sessionReqs' = Begin(sessionReqs, d, g)
                                           \/ sessionReqs' = Begin(Begin(sessionReqs, d, "none"), d, g)
    <3>1. CASE SessionTick
      <4>1. Head(sessionTimers) = "newest"
        BY <3>1, OneTimer DEF SessionTick, SessionChain
      <4> QED
        BY <3>1, <4>1 DEF SessionTick, Asking, Asks, Gen
    <3>2. CASE Refresh \/ (\E ok \in BOOLEAN : KillAnswered(ok)) \/ OpenSessionMenu
               \/ (\E d \in Databases : SelectDatabase(d))
      BY <3>2 DEF Refresh, KillAnswered, OpenSessionMenu, SelectDatabase, Asking, Asks, Gen
    <3>3. CASE AnswerSessions
      BY <3>3 DEF AnswerSessions, SessionsAnswered
    <3>4. CASE AnswerAsh \/ SortByDuration \/ (\E ticked \in SUBSET Session : TickBoxes(ticked))
               \/ KillSessions \/ AshTick \/ (\E long \in BOOLEAN : ChooseRange(long))
               \/ OpenOtherMenu \/ HideOrShow \/ UNCHANGED vars
      BY <3>4 DEF AnswerAsh, AshActivityAnswered, AshTopSqlAnswered, SortByDuration, TickBoxes, KillSessions,
                  AshTick, ChooseRange, OpenOtherMenu, HideOrShow, vars, listVars
    <3> QED
      BY <1>5, <3>1, <3>2, <3>3, <3>4 DEF Next
  <2>3. sessionReqs' \in SUBSET SessionReq
    <3>1. \A d \in Databases : Begin(sessionReqs, d, "none") \in SUBSET SessionReq
      BY BeginLatest DEF Asks, Gen
    <3> QED
      BY <2>2, <3>1, BeginLatest DEF Asks
  <2> QED
    BY <1>1, <1>2, <1>3, <2>1, <2>3 DEF Asks
<1> QED
  BY <1>4, <1>5

\* A chain of which one part is there counts one.
LEMMA LiveOfChain ==
  ASSUME NEW reqs, Alone(reqs), NEW timers \in {<<>>, <<"newest">>}, NewestOf(reqs) = {} \/ timers = <<>>
  PROVE  /\ Len(timers) <= 1
         /\ Live(reqs, timers) = IF NewestOf(reqs) # {} \/ timers # <<>> THEN 1 ELSE 0
<1>1. Cardinality(NewestOf(reqs)) = IF NewestOf(reqs) = {} THEN 0 ELSE 1
  <2>1. CASE NewestOf(reqs) = {}
    BY <2>1, FS_EmptySet
  <2>2. CASE NewestOf(reqs) # {}
    <3>1. PICK r : NewestOf(reqs) = {r}
      BY <2>2 DEF Alone
    <3> QED
      BY <2>2, <3>1, FS_Singleton
  <2> QED
    BY <2>1, <2>2
<1>2. Cardinality({i \in DOMAIN timers : timers[i] = "newest"}) = IF timers = <<>> THEN 0 ELSE 1
  <2>1. CASE timers = <<>>
    <3>1. {i \in DOMAIN timers : timers[i] = "newest"} = {}
      BY <2>1
    <3> QED
      BY <2>1, <3>1, FS_EmptySet
  <2>2. CASE timers = <<"newest">>
    <3>1. {i \in DOMAIN timers : timers[i] = "newest"} = {1}
      BY <2>2
    <3> QED
      BY <2>2, <3>1, FS_Singleton
  <2> QED
    BY <2>1, <2>2
<1>3. Live(reqs, timers) = Cardinality(NewestOf(reqs)) + Cardinality({i \in DOMAIN timers : timers[i] = "newest"})
  BY DEF Live, NewestOf
<1>4. Len(timers) <= 1
  <2>1. CASE timers = <<>>
    BY <2>1
  <2>2. CASE timers = <<"newest">>
    BY <2>2
  <2> QED
    BY <2>1, <2>2
<1>5. CASE timers = <<>>
  BY <1>1, <1>2, <1>3, <1>4, <1>5
<1>6. CASE timers # <<>>
  BY <1>1, <1>2, <1>3, <1>4, <1>6
<1> QED
  BY <1>5, <1>6

\* Whatever is clicked, stopped, started and put off, and however late the answers come:
\* the session list is polled by one chain while its refresh is on and by none while it is
\* off, the charts of a chosen database by one, and no two timers are ever pending.
THEOREM OneChain == Spec => []OneChainEach
<1>1. Init => Chains
  <2> SUFFICES ASSUME Init
               PROVE  Chains
    OBVIOUS
  <2>1. Asks
    BY DEF Init, Asks
  <2>2. SessionChain /\ AshChain
    BY DEF Init, SessionChain, AshChain, Alone, NewestOf
  <2> QED
    BY <2>1, <2>2 DEF Chains
<1>2. Chains /\ [Next]_vars => Chains'
  BY AsksStep, SessionChainStep, AshChainStep DEF Chains
<1>3. Chains => OneChainEach
  <2> SUFFICES ASSUME Chains
               PROVE  OneChainEach
    OBVIOUS
  <2>1. OneSessionChain
    BY LiveOfChain DEF Chains, SessionChain, OneSessionChain
  <2>2. OneAshChain
    BY LiveOfChain DEF Chains, AshChain, OneAshChain
  <2> QED
    BY <2>1, <2>2 DEF OneChainEach
<1> QED
  BY <1>1, <1>2, <1>3, PTL DEF Spec
=============================================================================
