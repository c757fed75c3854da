------------------------------ MODULE NdProofs ------------------------------
(* Proofs about the instance dashboard: the polling engine and the lock    *)
(* card (NdDashboard), the chart with its lists and drawer (NdTop) and the *)
(* card of the periodic checks (NdChecks), for every set of databases,     *)
(* holders, minutes, places and severities and every MaxOlder.             *)
EXTENDS NdChecks, WellFoundedInduction, TLAPS

-----------------------------------------------------------------------------
(* The inductive invariants                                                *)

\* The engine is of the chosen database while the view is chosen, and a behaviour that
\* follows another part finds the lock card as the page was opened.
EngineOfDatabase ==
  /\ active => dbId = currentDbId
  /\ watched \in {"top", "checks"} => last = NoAnswer /\ panel = NoPanel

\* The lock card.
CardInv ==
  TypeOK /\ EngineOfDatabase /\ StoppedStaysStopped /\ LockOfCurrentDatabase /\ PanelIsApproved

\* A request of the lists is of what was asked for last, and of the selected window.
ListsAsked ==
  /\ key # None => topAsks \subseteq {key} /\ (active => key.db = currentDbId)
  /\ sel # None /\ key # None => key.window = sel
  /\ sel # None => currentDbId # None /\ \A a \in topAsks : a.window = sel
  /\ active => \A a \in topAsks : a.db = currentDbId
  /\ sel = None => lists.shown # "rows" /\ (key # None => lists.shown # "skeleton")

\* The drawer shows or asks for what was asked for last, or for the selected window.
DrawerAsked ==
  /\ drawer.depth = 0 => drawerAsks = {} /\ drawer.of = None
  /\ active /\ key # None => drawerAsks \cup {drawer.of} \subseteq {None, key}
  /\ active /\ sel # None =>
       drawerAsks \cup {drawer.of} \subseteq {None, [db |-> currentDbId, window |-> sel]}

\* A behaviour that follows another part finds chart, lists and drawer empty.
TopQuiet ==
  watched # "top" =>
    /\ chart = NoChart /\ sel = None /\ key = None /\ lists.shown # "rows" /\ lists.of = None
    /\ topAsks = {} /\ drawer = NoDrawer /\ drawerAsks = {}

TopInv ==
  /\ FollowSelection /\ ListsAsked /\ DrawerAsked /\ TopQuiet

\* The last answer, and the database that is asked for the open detail.
ChecksAsked ==
  /\ cards.db = answer.db /\ (answer.db = None => answer.items = {})
  /\ detail.item # None => detail.card # None
  /\ active =>
       /\ detail.item # None => detail.card = currentDbId
       /\ detailAsks # {} => detail.item # None /\ detailAsks = {currentDbId}
  /\ watched # "checks" => answer = NoItems /\ cards = NoItems /\ detail = NoDetail /\ detailAsks = {}

ChecksInv == ChecksTypeOK /\ ChecksOfDatabase /\ CardsUnderFilter /\ ChecksAsked

-----------------------------------------------------------------------------
(* The engine: what aging, refreshing and resetting leave                  *)

\* Runs of an older generation are runs, and none of them is of the newest.
LEMMA AgedRuns ==
  /\ \A runs \in SUBSET Refresh : Aged(runs) \subseteq Refresh /\ Newest(Aged(runs)) = {}
  /\ \A runs \in SUBSET FastRun : Aged(runs) \subseteq FastRun
  /\ \A runs \in SUBSET SlowRun : Aged(runs) \subseteq SlowRun
<1>1. ASSUME NEW runs \in SUBSET Refresh
      PROVE  Aged(runs) \subseteq Refresh /\ Newest(Aged(runs)) = {}
  <2>1. \A r \in runs : [r EXCEPT !.gen = "older"] \in Refresh /\ [r EXCEPT !.gen = "older"].gen = "older"
    BY DEF Refresh, Gen
  <2> QED
    BY <2>1 DEF Aged, Newest
<1>2. ASSUME NEW runs \in SUBSET FastRun
      PROVE  Aged(runs) \subseteq FastRun
  <2>1. \A r \in runs : [r EXCEPT !.gen = "older"] \in FastRun
    BY DEF FastRun, Gen
  <2> QED
    BY <2>1 DEF Aged
<1>3. ASSUME NEW runs \in SUBSET SlowRun
      PROVE  Aged(runs) \subseteq SlowRun
  <2>1. \A r \in runs : [r EXCEPT !.gen = "older"] \in SlowRun
    BY DEF SlowRun, Gen
  <2> QED
    BY <2>1 DEF Aged
<1> QED
  BY <1>1, <1>2, <1>3

\* What no step but a refresh does with the timers.
Cancels == fastTimer' \in {fastTimer, FALSE} /\ slowTimer' \in {slowTimer, FALSE}

\* A refresh starts no timer, and in a visible view there is one afterwards.
LEMMA RefreshNowStep ==
  ASSUME NEW ongoing \in SUBSET Refresh, NEW visible \in BOOLEAN, NEW d,
         visible => d \in Databases, RefreshNow(ongoing, visible, d)
  PROVE  Cancels /\ refreshes' \subseteq Refresh /\ (visible => Newest(refreshes') # {})
<1>1. CASE Newest(ongoing) # {}
  BY <1>1 DEF RefreshNow, Cancels
<1>2. CASE Newest(ongoing) = {}
  <2> DEFINE q == [db |-> d, gen |-> "newest", fast |-> TRUE, slow |-> watched = "engine"]
  <2>1. q.gen = "newest"
    OBVIOUS
  <2>2. visible => q \in Refresh
    <3>1. (watched = "engine") \in BOOLEAN
      OBVIOUS
    <3> QED
      BY <3>1 DEF Refresh, Gen
  <2>3. Cancels /\ refreshes' = ongoing \cup (IF visible THEN {q} ELSE {})
    BY <1>2 DEF RefreshNow, Cancels
  <2> HIDE DEF q
  <2> QED
    BY <2>1, <2>2, <2>3 DEF Newest
<1> QED
  BY <1>1, <1>2

\* The types of everything but the card, and those of the card.
EngineTypes ==
  /\ watched \in {"engine", "card", "top", "checks"}
  /\ currentDbId \in Databases \cup {None} /\ dbId \in Databases \cup {None}
  /\ menu \in BOOLEAN /\ hidden \in BOOLEAN /\ active \in BOOLEAN /\ auto \in BOOLEAN
  /\ hooks \subseteq {"pause", "resume"}
  /\ fastTimer \in BOOLEAN /\ slowTimer \in BOOLEAN
  /\ refreshes \subseteq Refresh /\ fastRuns \subseteq FastRun /\ slowRuns \subseteq SlowRun
  /\ killCalls \subseteq [db : Databases, targets : SUBSET Holder]
Answer == [db : Databases \cup {None}, holders : SUBSET Holder, incident : BOOLEAN]
Panel == [open : BOOLEAN, db : Databases \cup {None}, listed : SUBSET Holder,
          checked : SUBSET Holder, gone : SUBSET Holder, busy : BOOLEAN]
CardTypes == last \in Answer /\ pending \in BOOLEAN /\ panel \in Panel /\ approved \subseteq Holder

\* They are the types of the whole.
LEMMA TypesOfAll == TypeOK <=> EngineTypes /\ CardTypes
BY DEF TypeOK, EngineTypes, CardTypes, Answer, Panel

\* The empty answer and the closed panel are an answer and a panel.
LEMMA EmptyCard == NoAnswer \in Answer /\ NoPanel \in Panel /\ NoAnswer.db = None /\ ~NoPanel.open
  /\ NoPanel.checked = {}
BY DEF NoAnswer, NoPanel, Answer, Panel

\* What is left to show of the card.
CardRest ==
  /\ LockOfCurrentDatabase /\ PanelIsApproved
  /\ watched \in {"top", "checks"} => last = NoAnswer /\ panel = NoPanel

\* A reset card is one of every database.
LEMMA ResetCard ==
  ASSUME CardReset
  PROVE  CardTypes' /\ CardRest'
BY EmptyCard DEF CardReset, CardTypes, CardRest, LockOfCurrentDatabase, PanelIsApproved

\* A card left alone is still one of the chosen database, if that is still chosen.
LEMMA KeptCard ==
  ASSUME CardTypes, CardRest, UNCHANGED cardVars, watched' = watched,
         active' => active /\ currentDbId' = currentDbId
  PROVE  CardTypes' /\ CardRest'
<1>1. last' = last /\ pending' = pending /\ panel' = panel /\ approved' = approved
  BY DEF cardVars
<1> QED
  BY <1>1 DEF CardTypes, CardRest, LockOfCurrentDatabase, PanelIsApproved

\* The invariant of the card in these parts.
LEMMA PartsOfCard ==
  CardInv <=> EngineTypes /\ CardTypes /\ CardRest /\ StoppedStaysStopped /\ (active => dbId = currentDbId)
BY TypesOfAll DEF CardInv, CardRest, EngineOfDatabase

\* Of the next state too.
LEMMA PartsOfCardNext ==
  ASSUME EngineTypes', CardTypes', CardRest', StoppedStaysStopped', active' => dbId' = currentDbId'
  PROVE  CardInv'
<1>1. TypeOK'
  BY DEF TypeOK, EngineTypes, CardTypes, Answer, Panel
<1> QED
  BY <1>1 DEF CardInv, CardRest, EngineOfDatabase

\* reset() leaves the engine with the database, and a refresh where the view is visible.
LEMMA ResetStep ==
  ASSUME EngineTypes, NEW visible \in BOOLEAN, NEW d \in Databases \cup {None},
         visible => d \in Databases, Reset(visible, d)
  PROVE  /\ dbId' = d /\ Cancels /\ CardReset
         /\ refreshes' \subseteq Refresh /\ fastRuns' \subseteq FastRun /\ slowRuns' \subseteq SlowRun
         /\ visible => Newest(refreshes') # {}
<1>1. Aged(refreshes) \in SUBSET Refresh /\ RefreshNow(Aged(refreshes), visible, d)
  BY AgedRuns DEF EngineTypes, Reset
<1>2. Cancels /\ refreshes' \subseteq Refresh /\ (visible => Newest(refreshes') # {})
  BY <1>1, RefreshNowStep
<1> QED
  BY <1>2, AgedRuns DEF EngineTypes, Reset

\* resume() too, or it leaves the card alone because it is of that database.
LEMMA ResumeStep ==
  ASSUME EngineTypes, NEW visible \in BOOLEAN, NEW d \in Databases \cup {None},
         visible => d \in Databases, Resume(visible, d)
  PROVE  /\ dbId' = d /\ Cancels /\ (CardReset \/ (dbId = d /\ UNCHANGED cardVars))
         /\ refreshes' \subseteq Refresh /\ fastRuns' \subseteq FastRun /\ slowRuns' \subseteq SlowRun
         /\ visible => Newest(refreshes') # {}
<1>1. CASE dbId # d
  <2>1. Reset(visible, d)
    BY <1>1 DEF Resume
  <2> QED
    BY <2>1, ResetStep
<1>2. CASE dbId = d /\ visible
  <2>1. RefreshNow(refreshes, visible, d) /\ UNCHANGED <<dbId, fastRuns, slowRuns, cardVars>>
    BY <1>2 DEF Resume
  <2>2. refreshes \in SUBSET Refresh
    BY DEF EngineTypes
  <2>3. Cancels /\ refreshes' \subseteq Refresh /\ (visible => Newest(refreshes') # {})
    BY <2>1, <2>2, RefreshNowStep
  <2> QED
    BY <1>2, <2>1, <2>3 DEF EngineTypes
<1>3. CASE dbId = d /\ ~visible
  <2>1. UNCHANGED <<dbId, refreshes, fastTimer, slowTimer, fastRuns, slowRuns, cardVars>>
    BY <1>3 DEF Resume
  <2> QED
    BY <1>3, <2>1 DEF EngineTypes, Cancels
<1> QED
  BY <1>1, <1>2, <1>3

-----------------------------------------------------------------------------
(* The steps of the engine and of its lock card                            *)

\* An answer leaves in an open panel the ticks of those who still hold.
LEMMA RefreshedPanel ==
  ASSUME NEW p \in Panel, NEW a \in Answer
  PROVE  /\ RefreshPanel(p, a) \in Panel
         /\ RefreshPanel(p, a).open = p.open /\ RefreshPanel(p, a).db = p.db
         /\ \A given \in SUBSET Holder : p.checked \subseteq given \cap (p.listed \ p.gone) =>
              RefreshPanel(p, a).checked \subseteq
                given \cap (RefreshPanel(p, a).listed \ RefreshPanel(p, a).gone)
<1> DEFINE q == RefreshPanel(p, a)
<1>1. /\ q = [open |-> p.open, db |-> p.db, listed |-> p.listed \cup a.holders,
              checked |-> p.checked \ (p.listed \ a.holders), gone |-> p.gone \cup (p.listed \ a.holders),
              busy |-> p.busy]
  <2>1. p = [open |-> p.open, db |-> p.db, listed |-> p.listed, checked |-> p.checked, gone |-> p.gone,
             busy |-> p.busy]
    BY DEF Panel
  <2>2. q = [p EXCEPT !.listed = p.listed \cup a.holders, !.gone = p.gone \cup (p.listed \ a.holders),
                      !.checked = p.checked \ (p.listed \ a.holders)]
    BY DEF RefreshPanel
  <2> HIDE DEF q
  <2> QED
    BY <2>1, <2>2
<1>2. /\ p.listed \subseteq Holder /\ p.checked \subseteq Holder /\ p.gone \subseteq Holder
      /\ a.holders \subseteq Holder /\ p.open \in BOOLEAN /\ p.busy \in BOOLEAN
      /\ p.db \in Databases \cup {None}
  BY DEF Panel, Answer
<1> HIDE DEF q
<1>3. q \in Panel
  BY <1>1, <1>2 DEF Panel
<1>4. q.open = p.open /\ q.db = p.db
  BY <1>1
<1>5. /\ q.checked = p.checked \ (p.listed \ a.holders) /\ q.listed = p.listed \cup a.holders
      /\ q.gone = p.gone \cup (p.listed \ a.holders)
  BY <1>1
<1>6. \A given \in SUBSET Holder : p.checked \subseteq given \cap (p.listed \ p.gone) =>
        q.checked \subseteq given \cap (q.listed \ q.gone)
  BY <1>5
<1> QED
  BY <1>3, <1>4, <1>6 DEF q

\* What the server answers about a database is of it.
LEMMA AnswerOfDatabase ==
  ASSUME NEW r, r.db \in Databases, NEW reply \in LockAnswer(r)
  PROVE  /\ reply.outcome \in {"ok", "failed", "refused"}
         /\ reply.outcome = "ok" => reply.lock \in Answer /\ reply.lock.db = r.db
<1>1. reply.outcome \in {"ok", "failed", "refused"}
  BY DEF LockAnswer
<1>2. ASSUME reply.outcome = "ok"
      PROVE  reply.lock \in Answers(r.db)
  BY <1>2 DEF LockAnswer
<1>3. \A a \in Answers(r.db) : a \in Answer /\ a.db = r.db
  BY DEF Answers, Answer
<1> QED
  BY <1>1, <1>2, <1>3

\* An answer reaches the card only if its database is still the chosen one.
LEMMA LoadLockStep ==
  ASSUME EngineTypes, CardTypes, CardRest, watched \in {"engine", "card"},
         NEW r, r.db \in Databases, NEW reply \in LockAnswer(r), LoadLock(r, reply),
         watched' = watched, active' = active, currentDbId' = currentDbId
  PROVE  CardTypes' /\ CardRest'
<1>1. CASE UNCHANGED cardVars
  BY <1>1, KeptCard
<1>2. CASE ~IsStale(r) /\ reply.outcome = "failed"
  <2>1. pending' = TRUE /\ last' = last /\ panel' = panel /\ approved' = approved
    BY <1>2 DEF LoadLock, LockEvent
  <2> QED
    BY <2>1 DEF CardTypes, CardRest, LockOfCurrentDatabase, PanelIsApproved
<1>3. CASE ~IsStale(r) /\ reply.outcome = "ok"
  <2>1. /\ last' = reply.lock /\ pending' = FALSE /\ panel' = Render(panel, reply.lock) /\ approved' = approved
    BY <1>3 DEF LoadLock, LockEvent
  <2>2. reply.lock \in Answer /\ reply.lock.db = currentDbId
    BY <1>3, AnswerOfDatabase DEF IsStale
  <2>3. panel \in Panel /\ approved \in SUBSET Holder /\ panel.checked \subseteq approved \cap (panel.listed \ panel.gone)
    BY DEF CardTypes, CardRest, PanelIsApproved
  <2> DEFINE p == Render(panel, reply.lock)
  <2>4. /\ p \in Panel /\ p.open = panel.open /\ p.db = panel.db
        /\ p.checked \subseteq approved \cap (p.listed \ p.gone)
    <3>1. p = panel \/ p = RefreshPanel(panel, reply.lock)
      BY DEF Render
    <3>2. CASE p = panel
      BY <2>3, <3>2
    <3>3. CASE p = RefreshPanel(panel, reply.lock)
      <4> HIDE DEF p
      <4> QED
        BY <2>2, <2>3, <3>3, RefreshedPanel
    <3> QED
      BY <3>1, <3>2, <3>3
  <2>5. panel' = p
    BY <2>1
  <2> HIDE DEF p
  <2>6. CardTypes'
    BY <2>1, <2>2, <2>4, <2>5 DEF CardTypes
  <2>7. LockOfCurrentDatabase' /\ PanelIsApproved'
    BY <2>1, <2>2, <2>4, <2>5 DEF CardRest, LockOfCurrentDatabase, PanelIsApproved
  <2> QED
    BY <2>6, <2>7 DEF CardRest
<1> QED
  BY <1>1, <1>2, <1>3, AnswerOfDatabase DEF LoadLock, LockEvent

\* What every step leaves of the engine when the page stays as it is.
PageStays == watched' = watched /\ currentDbId' = currentDbId /\ menu' = menu /\ hidden' = hidden /\ active' = active

\* A timer only starts where scheduleFast and scheduleSlow start one.
LEMMA Stopped ==
  ASSUME StoppedStaysStopped, auto' = auto, auto \in BOOLEAN,
         fastTimer' \in {fastTimer, FALSE, Schedules}, slowTimer' \in {slowTimer, FALSE, Schedules}
  PROVE  StoppedStaysStopped'
<1>1. CASE auto
  BY <1>1 DEF StoppedStaysStopped
<1>2. CASE ~auto
  <2>1. ~fastTimer /\ ~slowTimer /\ ~Schedules
    BY <1>2 DEF StoppedStaysStopped, Schedules
  <2>2. ~fastTimer' /\ ~slowTimer'
    <3>1. /\ fastTimer' = fastTimer \/ fastTimer' = FALSE \/ fastTimer' = Schedules
          /\ slowTimer' = slowTimer \/ slowTimer' = FALSE \/ slowTimer' = Schedules
      OBVIOUS
    <3>2. fastTimer # TRUE /\ slowTimer # TRUE /\ Schedules # TRUE
      BY <2>1
    <3>3. fastTimer' # TRUE /\ slowTimer' # TRUE
      BY <3>1, <3>2
    <3> QED
      BY <3>3
  <2> QED
    BY <2>2 DEF StoppedStaysStopped
<1> QED
  BY <1>1, <1>2

\* Steps of timers and answers.
LEMMA EngineRuns ==
  ASSUME CardInv, watched \in {"engine", "card"},
         \/ FastEnds(fastRuns) \/ SlowEnds(slowRuns) \/ RefreshEnds(refreshes)
         \/ FastTick \/ SlowTick \/ PauseHook
  PROVE  CardInv'
<1>1. EngineTypes /\ CardTypes /\ CardRest /\ StoppedStaysStopped /\ (active => dbId = currentDbId)
  BY PartsOfCard
<1>2. Schedules \in BOOLEAN /\ IsVisible \in BOOLEAN /\ (IsVisible => currentDbId \in Databases)
  BY <1>1 DEF Schedules, IsVisible, Shown, EngineTypes
<1>3. ASSUME NEW r \in fastRuns, NEW reply \in LockAnswer(r), FastRunEnds(r, reply)
      PROVE  CardInv'
  <2>1. PageStays /\ UNCHANGED <<hooks, dbId, auto, slowTimer, refreshes, slowRuns, killCalls>>
        /\ fastRuns' = fastRuns \ {r} /\ LoadLock(r, reply)
        /\ fastTimer' \in {fastTimer, Schedules}
    BY <1>3 DEF FastRunEnds, PageStays, pageVars
  <2>2. CardTypes' /\ CardRest'
    <3>1. r.db \in Databases
      BY <1>1 DEF EngineTypes, FastRun
    <3> QED
      BY <1>1, <2>1, <3>1, LoadLockStep DEF PageStays
  <2>3. EngineTypes'
    BY <1>1, <1>2, <2>1 DEF EngineTypes, PageStays
  <2>4. StoppedStaysStopped'
    BY <1>1, <2>1, Stopped DEF EngineTypes
  <2> QED
    BY <1>1, <2>1, <2>2, <2>3, <2>4, PartsOfCardNext DEF PageStays
<1>4. ASSUME NEW r \in slowRuns, SlowRunEnds(r)
      PROVE  CardInv'
  <2>1. PageStays /\ UNCHANGED <<hooks, dbId, auto, refreshes, fastRuns, killCalls>>
        /\ slowRuns' = slowRuns \ {r} /\ UNCHANGED cardVars
        /\ fastTimer' \in {fastTimer, Schedules} /\ slowTimer' \in {slowTimer, Schedules}
    BY <1>4 DEF SlowRunEnds, PageStays, pageVars
  <2>2. CardTypes' /\ CardRest'
    BY <1>1, <2>1, KeptCard DEF PageStays
  <2>3. EngineTypes'
    BY <1>1, <1>2, <2>1 DEF EngineTypes, PageStays
  <2>4. StoppedStaysStopped'
    BY <1>1, <2>1, Stopped DEF EngineTypes
  <2> QED
    BY <1>1, <2>1, <2>2, <2>3, <2>4, PartsOfCardNext DEF PageStays
<1>5. ASSUME NEW q \in refreshes, NEW changed \in {[q EXCEPT !.fast = FALSE], [q EXCEPT !.slow = FALSE]},
             RefreshHalfEnds(q, changed), PageStays,
             UNCHANGED <<hooks, dbId, auto, fastRuns, slowRuns, killCalls>>, CardTypes', CardRest'
      PROVE  CardInv'
  <2>1. q \in Refresh /\ changed \in Refresh
    BY <1>1 DEF EngineTypes, Refresh
  <2>2. /\ refreshes' \subseteq refreshes \cup {changed}
        /\ fastTimer' \in {fastTimer, Schedules} /\ slowTimer' \in {slowTimer, Schedules}
    BY <1>5 DEF RefreshHalfEnds
  <2>3. EngineTypes'
    BY <1>1, <1>2, <1>5, <2>1, <2>2 DEF EngineTypes, PageStays
  <2>4. StoppedStaysStopped'
    BY <1>1, <1>5, <2>2, Stopped DEF EngineTypes
  <2> QED
    BY <1>1, <1>5, <2>3, <2>4, PartsOfCardNext DEF PageStays
<1>6. ASSUME NEW q \in refreshes, NEW reply \in LockAnswer(q), RefreshFastEnds(q, reply)
      PROVE  CardInv'
  <2>1. PageStays /\ UNCHANGED <<hooks, dbId, auto, fastRuns, slowRuns, killCalls>>
        /\ LoadLock(q, reply) /\ RefreshHalfEnds(q, [q EXCEPT !.fast = FALSE])
    BY <1>6 DEF RefreshFastEnds, PageStays, pageVars
  <2>2. q.db \in Databases
    BY <1>1 DEF EngineTypes, Refresh
  <2>3. CardTypes' /\ CardRest'
    BY <1>1, <2>1, <2>2, LoadLockStep DEF PageStays
  <2> QED
    BY <1>5, <2>1, <2>3
<1>7. ASSUME NEW q \in refreshes, RefreshSlowEnds(q)
      PROVE  CardInv'
  <2>1. PageStays /\ UNCHANGED <<hooks, dbId, auto, fastRuns, slowRuns, killCalls>> /\ UNCHANGED cardVars
        /\ RefreshHalfEnds(q, [q EXCEPT !.slow = FALSE])
    BY <1>7 DEF RefreshSlowEnds, PageStays, pageVars
  <2>2. CardTypes' /\ CardRest'
    BY <1>1, <2>1, KeptCard DEF PageStays
  <2> QED
    BY <1>5, <2>1, <2>2
<1>8. CASE FastTick \/ SlowTick \/ PauseHook
  <2>1. PageStays /\ UNCHANGED <<dbId, auto, refreshes, killCalls>> /\ hooks' \subseteq hooks /\ UNCHANGED cardVars
    BY <1>8 DEF FastTick, SlowTick, PauseHook, PageStays, pageVars
  <2>2. CardTypes' /\ CardRest'
    BY <1>1, <2>1, KeptCard DEF PageStays
  <2>3. fastTimer' \in {fastTimer, FALSE} /\ slowTimer' \in {slowTimer, FALSE}
    <3>1. CASE FastTick
      BY <3>1 DEF FastTick
    <3>2. CASE SlowTick
      BY <3>2 DEF SlowTick
    <3>3. CASE PauseHook
      <4>1. CASE IsVisible
        BY <1>1, <3>3, <4>1 DEF PauseHook, EngineTypes
      <4>2. CASE ~IsVisible
        BY <3>3, <4>2 DEF PauseHook
      <4> QED
        BY <4>1, <4>2
    <3> QED
      BY <1>8, <3>1, <3>2, <3>3
  <2>4. fastRuns' \subseteq FastRun /\ slowRuns' \subseteq SlowRun
    <3>1. IsVisible => /\ [db |-> currentDbId, gen |-> "newest"] \in FastRun
                       /\ [db |-> currentDbId, gen |-> "newest", by |-> "timer"] \in SlowRun
      BY <1>2 DEF FastRun, SlowRun, Gen
    <3> QED
      BY <1>1, <1>8, <3>1 DEF FastTick, SlowTick, PauseHook, EngineTypes
  <2>5. EngineTypes'
    BY <1>1, <2>1, <2>3, <2>4 DEF EngineTypes, PageStays
  <2>6. StoppedStaysStopped'
    BY <1>1, <2>1, <2>3, Stopped DEF EngineTypes
  <2> QED
    BY <1>1, <2>1, <2>2, <2>5, <2>6, PartsOfCardNext DEF PageStays
<1> QED
  BY <1>3, <1>4, <1>6, <1>7, <1>8 DEF FastEnds, SlowEnds, RefreshEnds

\* A chosen view is the engine's as soon as it resumes.
LEMMA EngineResumes ==
  ASSUME CardInv, NEW visible \in BOOLEAN, visible => currentDbId' \in Databases,
         currentDbId' \in Databases \cup {None},
         \/ Resume(visible, currentDbId') /\ active
         \/ Reset(visible, currentDbId'),
         watched' = watched, auto' = auto, killCalls' = killCalls,
         menu' \in BOOLEAN, hidden' \in BOOLEAN, active' \in BOOLEAN, hooks' \subseteq {"pause", "resume"}
  PROVE  CardInv' /\ (visible => Newest(refreshes') # {})
<1> DEFINE d == currentDbId'
<1>1. EngineTypes /\ CardTypes /\ CardRest /\ StoppedStaysStopped /\ (active => dbId = currentDbId)
  BY PartsOfCard
<1>2. /\ dbId' = d /\ Cancels /\ (CardReset \/ (active /\ dbId = d /\ UNCHANGED cardVars))
      /\ refreshes' \subseteq Refresh /\ fastRuns' \subseteq FastRun /\ slowRuns' \subseteq SlowRun
      /\ visible => Newest(refreshes') # {}
  <2> HIDE DEF d
  <2>1. d \in Databases \cup {None} /\ (visible => d \in Databases)
    BY DEF d
  <2>2. CASE Resume(visible, d) /\ active
    BY <1>1, <2>1, <2>2, ResumeStep
  <2>3. CASE Reset(visible, d)
    BY <1>1, <2>1, <2>3, ResetStep
  <2> QED
    BY <2>2, <2>3 DEF d
<1>3. fastTimer' \in {fastTimer, FALSE} /\ slowTimer' \in {slowTimer, FALSE}
  BY <1>2 DEF Cancels
<1>4. EngineTypes'
  BY <1>1, <1>2, <1>3 DEF EngineTypes
<1>5. StoppedStaysStopped'
  BY <1>1, <1>3, Stopped DEF EngineTypes
<1>6. CardTypes' /\ CardRest'
  <2>1. CASE CardReset
    BY <2>1, ResetCard
  <2>2. CASE active /\ dbId = d /\ UNCHANGED cardVars
    <3>1. active' => active /\ currentDbId' = currentDbId
      BY <1>1, <2>2
    <3> QED
      BY <1>1, <2>2, <3>1, KeptCard
  <2> QED
    BY <1>2, <2>1, <2>2
<1> QED
  BY <1>2, <1>4, <1>5, <1>6, PartsOfCardNext

\* Steps that leave the card alone, of a view that stays chosen or is left.
LEMMA EngineKeepsCard ==
  ASSUME CardInv, watched' = watched, dbId' = dbId, killCalls' = killCalls, UNCHANGED cardVars,
         menu' \in BOOLEAN, hidden' \in BOOLEAN, active' \in BOOLEAN, auto' \in BOOLEAN,
         hooks' \subseteq {"pause", "resume"},
         currentDbId' \in Databases \cup {None}, active' => active /\ currentDbId' = currentDbId,
         refreshes' \subseteq Refresh, fastRuns' \subseteq FastRun, slowRuns' \subseteq SlowRun,
         \/ auto' = auto /\ fastTimer' \in {fastTimer, FALSE, Schedules} /\ slowTimer' \in {slowTimer, FALSE, Schedules}
         \/ fastTimer' = FALSE /\ slowTimer' = FALSE
         \/ auto' = TRUE /\ Cancels
  PROVE  CardInv'
<1>1. EngineTypes /\ CardTypes /\ CardRest /\ StoppedStaysStopped /\ (active => dbId = currentDbId)
  BY PartsOfCard
<1>2. Schedules \in BOOLEAN
  BY <1>1 DEF Schedules, IsVisible, Shown, EngineTypes
<1>3. fastTimer' \in BOOLEAN /\ slowTimer' \in BOOLEAN
  BY <1>1, <1>2 DEF EngineTypes, Cancels
<1>4. EngineTypes'
  BY <1>1, <1>3 DEF EngineTypes
<1>5. StoppedStaysStopped'
  <2>1. CASE auto' = auto /\ fastTimer' \in {fastTimer, FALSE, Schedules} /\ slowTimer' \in {slowTimer, FALSE, Schedules}
    BY <1>1, <2>1, Stopped DEF EngineTypes
  <2>2. CASE fastTimer' = FALSE /\ slowTimer' = FALSE
    BY <2>2 DEF StoppedStaysStopped
  <2>3. CASE auto' = TRUE
    BY <2>3 DEF StoppedStaysStopped
  <2> QED
    BY <2>1, <2>2, <2>3
<1>6. CardTypes' /\ CardRest'
  BY <1>1, KeptCard
<1> QED
  BY <1>1, <1>4, <1>5, <1>6, PartsOfCardNext

\* What the user, the browser and the put-off hooks do with the page.
LEMMA PageSteps ==
  ASSUME CardInv, watched \in {"engine", "card"},
         \/ ResumeHook \/ (\E d \in Databases : SelectDatabase(d))
         \/ \E b \in BOOLEAN : ChooseView(b) \/ ClickMenu(b)
         \/ GoBack \/ HideOrShow \/ ChooseRange \/ ChangePeriod \/ PressRefresh \/ Toggle
  PROVE  CardInv'
<1>1. EngineTypes /\ CardTypes /\ CardRest /\ StoppedStaysStopped /\ (active => dbId = currentDbId)
  BY PartsOfCard
<1>2. /\ \A chosen, onMenu, off \in BOOLEAN, d \in Databases \cup {None} :
           Shown(chosen, onMenu, off, d) \in BOOLEAN /\ (Shown(chosen, onMenu, off, d) => d \in Databases)
      /\ IsVisible \in BOOLEAN /\ (IsVisible => currentDbId \in Databases)
  BY <1>1 DEF Shown, IsVisible, EngineTypes
<1>3. refreshes \in SUBSET Refresh /\ fastRuns \subseteq FastRun /\ slowRuns \subseteq SlowRun
  BY <1>1 DEF EngineTypes
<1>4. CASE ResumeHook
  <2>1. UNCHANGED pageVars /\ UNCHANGED <<auto, killCalls>> /\ hooks' \subseteq {"pause", "resume"}
    BY <1>1, <1>4 DEF ResumeHook, EngineTypes
  <2>2. CASE active
    <3>1. Resume(IsVisible, currentDbId') /\ active
      BY <1>4, <2>1, <2>2 DEF ResumeHook, pageVars
    <3> QED
      BY <1>1, <1>2, <2>1, <3>1, EngineResumes DEF pageVars, EngineTypes
  <2>3. CASE ~active
    <3>1. UNCHANGED <<dbId, runVars, cardVars>>
      BY <1>4, <2>3 DEF ResumeHook
    <3> QED
      BY <1>1, <1>3, <2>1, <3>1, EngineKeepsCard DEF pageVars, runVars, EngineTypes
  <2> QED
    BY <2>2, <2>3
<1>5. ASSUME NEW d \in Databases, SelectDatabase(d)
      PROVE  CardInv'
  <2>1. currentDbId' = d /\ UNCHANGED <<watched, menu, hidden, active, hooks, auto, killCalls>>
    BY <1>5 DEF SelectDatabase
  <2>2. CASE active
    <3>1. Resume(Shown(active, menu, hidden, d), currentDbId')
      BY <1>5, <2>1, <2>2 DEF SelectDatabase
    <3>2. Shown(active, menu, hidden, d) \in BOOLEAN
      BY <1>1, <1>2 DEF EngineTypes
    <3> QED
      BY <1>1, <2>1, <2>2, <3>1, <3>2, EngineResumes DEF EngineTypes
  <2>3. CASE ~active
    <3>1. UNCHANGED <<dbId, runVars, cardVars>>
      BY <1>5, <2>3 DEF SelectDatabase
    <3> QED
      BY <1>1, <1>3, <2>1, <2>3, <3>1, EngineKeepsCard DEF runVars, EngineTypes
  <2> QED
    BY <2>2, <2>3
<1>6. ASSUME NEW b \in BOOLEAN, ChooseView(b)
      PROVE  CardInv'
  <2>1. active' = b /\ UNCHANGED <<watched, currentDbId, menu, hidden, hooks, auto, killCalls>>
    BY <1>6 DEF ChooseView
  <2>2. CASE b
    <3>1. Reset(Shown(TRUE, menu, hidden, currentDbId), currentDbId')
      BY <1>6, <2>1, <2>2 DEF ChooseView
    <3>2. /\ Shown(TRUE, menu, hidden, currentDbId) \in BOOLEAN
          /\ Shown(TRUE, menu, hidden, currentDbId) => currentDbId \in Databases
      BY <1>1, <1>2 DEF EngineTypes
    <3> QED
      BY <1>1, <2>1, <3>1, <3>2, EngineResumes DEF EngineTypes
  <2>3. CASE ~b
    <3>1. fastTimer' = FALSE /\ slowTimer' = FALSE /\ UNCHANGED <<dbId, refreshes, fastRuns, slowRuns, cardVars>>
      BY <1>6, <2>3 DEF ChooseView
    <3> QED
      BY <1>1, <1>3, <2>1, <2>3, <3>1, EngineKeepsCard DEF EngineTypes
  <2> QED
    BY <2>2, <2>3
<1>7. CASE (\E b \in BOOLEAN : ClickMenu(b)) \/ GoBack
  <2>1. /\ UNCHANGED <<watched, currentDbId, hidden, active, dbId, auto, runVars, cardVars, killCalls>>
        /\ menu' \in BOOLEAN /\ hooks' \subseteq {"pause", "resume"}
    BY <1>1, <1>7 DEF ClickMenu, GoBack, EngineTypes
  <2> QED
    BY <1>1, <1>3, <2>1, EngineKeepsCard DEF runVars, EngineTypes
<1>8. CASE HideOrShow
  <2>1. hidden' = ~hidden /\ UNCHANGED <<watched, currentDbId, menu, active, hooks, auto, killCalls>>
    BY <1>8 DEF HideOrShow
  <2>2. CASE hidden /\ Shown(active, menu, FALSE, currentDbId)
    <3>1. Resume(TRUE, currentDbId') /\ active /\ currentDbId \in Databases
      BY <1>1, <1>2, <1>8, <2>1, <2>2 DEF HideOrShow, Shown, EngineTypes
    <3> QED
      BY <1>1, <2>1, <3>1, EngineResumes DEF EngineTypes
  <2>3. CASE hidden /\ ~Shown(active, menu, FALSE, currentDbId)
    <3>1. UNCHANGED <<dbId, runVars, cardVars>>
      BY <1>8, <2>3 DEF HideOrShow
    <3> QED
      BY <1>1, <1>3, <2>1, <3>1, EngineKeepsCard DEF runVars, EngineTypes
  <2>4. CASE ~hidden
    <3>1. fastTimer' = FALSE /\ slowTimer' = FALSE /\ UNCHANGED <<dbId, refreshes, fastRuns, slowRuns, cardVars>>
      BY <1>8, <2>4 DEF HideOrShow
    <3> QED
      BY <1>1, <1>3, <2>1, <3>1, EngineKeepsCard DEF EngineTypes
  <2> QED
    BY <2>2, <2>3, <2>4
<1>9. CASE ChooseRange
  <2>1. /\ UNCHANGED pageVars /\ UNCHANGED <<hooks, dbId, auto, cardVars, killCalls>> /\ IsVisible
        /\ fastTimer' = FALSE /\ slowTimer' = FALSE
        /\ refreshes' = Aged(refreshes) /\ fastRuns' = Aged(fastRuns)
        /\ slowRuns' = Aged(slowRuns) \cup {[db |-> currentDbId, gen |-> "newest", by |-> "range"]}
    BY <1>9 DEF ChooseRange, RangeRun
  <2>2. [db |-> currentDbId, gen |-> "newest", by |-> "range"] \in SlowRun
    BY <1>2, <2>1 DEF SlowRun, Gen
  <2>3. refreshes' \subseteq Refresh /\ fastRuns' \subseteq FastRun /\ slowRuns' \subseteq SlowRun
    BY <1>3, <2>1, <2>2, AgedRuns
  <2> QED
    BY <1>1, <2>1, <2>3, EngineKeepsCard DEF pageVars, EngineTypes
<1>10. CASE ChangePeriod
  <2>1. /\ UNCHANGED pageVars /\ UNCHANGED <<hooks, dbId, auto, slowTimer, refreshes, fastRuns, slowRuns, cardVars, killCalls>>
        /\ fastTimer' = Schedules
    BY <1>10 DEF ChangePeriod
  <2> QED
    BY <1>1, <1>3, <2>1, EngineKeepsCard DEF pageVars, EngineTypes
<1>11. CASE PressRefresh
  <2>1. /\ UNCHANGED pageVars /\ UNCHANGED <<hooks, dbId, auto, fastRuns, slowRuns, cardVars, killCalls>>
        /\ RefreshNow(refreshes, TRUE, currentDbId) /\ IsVisible
    BY <1>11 DEF PressRefresh
  <2>2. Cancels /\ refreshes' \subseteq Refresh
    BY <1>2, <1>3, <2>1, RefreshNowStep
  <2> QED
    BY <1>1, <1>3, <2>1, <2>2, EngineKeepsCard DEF pageVars, Cancels, EngineTypes
<1>12. CASE Toggle
  <2>1. /\ UNCHANGED pageVars /\ UNCHANGED <<hooks, dbId, fastRuns, slowRuns, cardVars, killCalls>>
        /\ auto' = ~auto /\ IsVisible
        /\ IF auto THEN fastTimer' = FALSE /\ slowTimer' = FALSE /\ UNCHANGED refreshes
                   ELSE RefreshNow(refreshes, TRUE, currentDbId)
    BY <1>12 DEF Toggle
  <2>2. CASE auto
    BY <1>1, <1>3, <2>1, <2>2, EngineKeepsCard DEF pageVars, EngineTypes
  <2>3. CASE ~auto
    <3>1. Cancels /\ refreshes' \subseteq Refresh
      BY <1>2, <1>3, <2>1, <2>3, RefreshNowStep
    <3> QED
      BY <1>1, <1>3, <2>1, <2>3, <3>1, EngineKeepsCard DEF pageVars, EngineTypes
  <2> QED
    BY <2>2, <2>3
<1> QED
  BY <1>4, <1>5, <1>6, <1>7, <1>8, <1>9, <1>10, <1>11, <1>12

\* What the operator does with the kill panel, and the end of a kill.
LEMMA PanelSteps ==
  ASSUME CardInv, watched \in {"engine", "card"},
         \/ OpenPanel \/ (\E h \in Holder : TickRow(h)) \/ ClosePanel \/ ExecKill
         \/ \E c \in killCalls : KillAnswered(c)
  PROVE  CardInv'
<1>1. EngineTypes /\ CardTypes /\ CardRest /\ StoppedStaysStopped /\ (active => dbId = currentDbId)
  BY PartsOfCard
<1>2. /\ panel \in Panel /\ approved \subseteq Holder /\ last \in Answer /\ pending \in BOOLEAN
      /\ panel.checked \subseteq approved \cap (panel.listed \ panel.gone)
      /\ panel.listed \subseteq Holder /\ panel.checked \subseteq Holder
  BY <1>1 DEF CardTypes, CardRest, PanelIsApproved, Panel
<1>3. IsVisible \in BOOLEAN /\ (IsVisible => active /\ currentDbId \in Databases)
  BY <1>1 DEF Shown, IsVisible, EngineTypes
<1>4. ASSUME PageStays, UNCHANGED <<hooks, dbId, auto, fastRuns, slowRuns, last, pending>>,
             Cancels, refreshes' \subseteq Refresh,
             killCalls' \subseteq [db : Databases, targets : SUBSET Holder],
             panel' \in Panel, approved' \subseteq Holder,
             panel'.checked \subseteq approved' \cap (panel'.listed \ panel'.gone),
             active /\ panel'.open => panel'.db = currentDbId
      PROVE  CardInv'
  <2>1. fastTimer' \in {fastTimer, FALSE} /\ slowTimer' \in {slowTimer, FALSE}
    BY <1>4 DEF Cancels
  <2>2. EngineTypes'
    BY <1>1, <1>4, <2>1 DEF EngineTypes, PageStays
  <2>3. StoppedStaysStopped'
    BY <1>1, <1>4, <2>1, Stopped DEF EngineTypes
  <2>4. CardTypes'
    BY <1>2, <1>4 DEF CardTypes
  <2>5. LockOfCurrentDatabase' /\ PanelIsApproved'
    BY <1>1, <1>4 DEF CardRest, LockOfCurrentDatabase, PanelIsApproved, PageStays
  <2>6. watched' \notin {"top", "checks"}
    BY <1>4 DEF PageStays
  <2> QED
    BY <1>1, <1>4, <2>2, <2>3, <2>4, <2>5, <2>6, PartsOfCardNext DEF PageStays, CardRest
<1>5. ASSUME UNCHANGED <<pageVars, hooks, dbId, auto, runVars, last, pending>>
      PROVE  /\ PageStays /\ UNCHANGED <<hooks, dbId, auto, fastRuns, slowRuns, last, pending>>
             /\ Cancels /\ refreshes' \subseteq Refresh
  BY <1>1, <1>5 DEF PageStays, pageVars, runVars, Cancels, EngineTypes
<1>6. killCalls \subseteq [db : Databases, targets : SUBSET Holder]
  BY <1>1 DEF EngineTypes
<1>7. CASE OpenPanel
  <2> DEFINE p == [open |-> TRUE, db |-> currentDbId, listed |-> last.holders,
                   checked |-> last.holders, gone |-> {}, busy |-> FALSE]
  <2>1. /\ UNCHANGED <<pageVars, hooks, dbId, auto, runVars, last, pending>> /\ killCalls' = killCalls
        /\ panel' = p /\ approved' = last.holders /\ IsVisible
    BY <1>7 DEF OpenPanel
  <2>2. last.holders \subseteq Holder
    BY <1>2 DEF Answer
  <2>3. p \in Panel /\ p.checked = last.holders /\ p.listed = last.holders /\ p.gone = {} /\ p.db = currentDbId
    BY <1>1, <2>2 DEF Panel, EngineTypes
  <2> HIDE DEF p
  <2> QED
    BY <1>4, <1>5, <1>6, <2>1, <2>2, <2>3
<1>8. ASSUME NEW h \in Holder, TickRow(h)
      PROVE  CardInv'
  <2> DEFINE p == [panel EXCEPT !.checked = IF h \in panel.checked THEN panel.checked \ {h}
                                            ELSE panel.checked \cup {h}]
  <2>1. /\ UNCHANGED <<pageVars, hooks, dbId, auto, runVars, last, pending>> /\ killCalls' = killCalls
        /\ panel' = p /\ approved' = approved \cup {h} /\ h \in panel.listed \ panel.gone
    BY <1>8 DEF TickRow
  <2>2. /\ p \in Panel /\ p.checked \subseteq panel.checked \cup {h}
        /\ p.listed = panel.listed /\ p.gone = panel.gone /\ p.db = panel.db /\ p.open = panel.open
    BY <1>2 DEF Panel
  <2> HIDE DEF p
  <2>3. active /\ panel.open => panel.db = currentDbId
    BY <1>1 DEF CardRest, PanelIsApproved
  <2>4. p.checked \subseteq (approved \cup {h}) \cap (p.listed \ p.gone)
    BY <1>2, <2>1, <2>2
  <2>5. approved' \subseteq Holder
    BY <1>2, <2>1
  <2> QED
    BY <1>4, <1>5, <1>6, <2>1, <2>2, <2>3, <2>4, <2>5
<1>9. CASE ClosePanel
  <2>1. /\ UNCHANGED <<pageVars, hooks, dbId, auto, runVars, last, pending>> /\ killCalls' = killCalls
        /\ panel' = NoPanel /\ approved' = {}
    BY <1>9 DEF ClosePanel
  <2> QED
    BY <1>4, <1>5, <1>6, <2>1, EmptyCard
<1>10. CASE ExecKill
  <2> DEFINE p == [panel EXCEPT !.busy = TRUE]
             k == [db |-> panel.db, targets |-> panel.checked]
  <2>1. /\ UNCHANGED <<pageVars, hooks, dbId, auto, runVars, last, pending>>
        /\ killCalls' = killCalls \cup {k}
        /\ panel' = p /\ approved' = approved /\ IsVisible /\ panel.open
    BY <1>10 DEF ExecKill
  <2>2. /\ p \in Panel /\ p.checked = panel.checked
        /\ p.listed = panel.listed /\ p.gone = panel.gone /\ p.db = panel.db /\ p.open = panel.open
    BY <1>2 DEF Panel
  <2>3. active /\ panel.open => panel.db = currentDbId
    BY <1>1 DEF CardRest, PanelIsApproved
  <2>4. panel.db \in Databases
    BY <1>3, <2>1, <2>3
  <2>5. k \in [db : Databases, targets : SUBSET Holder]
    BY <1>2, <2>4
  <2> HIDE DEF p, k
  <2> QED
    BY <1>2, <1>4, <1>5, <1>6, <2>1, <2>2, <2>3, <2>5
<1>11. ASSUME NEW c \in killCalls, KillAnswered(c)
       PROVE  CardInv'
  <2>1. /\ PageStays /\ UNCHANGED <<hooks, dbId, auto, fastRuns, slowRuns, last, pending>>
        /\ killCalls' = killCalls \ {c} /\ panel' = NoPanel /\ approved' = {}
        /\ IF c.db = currentDbId THEN RefreshNow(refreshes, IsVisible, currentDbId)
                                 ELSE UNCHANGED <<refreshes, fastTimer, slowTimer>>
    BY <1>11 DEF KillAnswered, PageStays, pageVars
  <2>2. Cancels /\ refreshes' \subseteq Refresh
    <3>1. refreshes \in SUBSET Refresh
      BY <1>1 DEF EngineTypes
    <3>2. CASE c.db = currentDbId
      BY <1>3, <2>1, <3>1, <3>2, RefreshNowStep
    <3>3. CASE c.db # currentDbId
      BY <2>1, <3>1, <3>3 DEF Cancels
    <3> QED
      BY <3>2, <3>3
  <2> QED
    BY <1>4, <1>6, <2>1, <2>2, EmptyCard
<1> QED
  BY <1>7, <1>8, <1>9, <1>10, <1>11

\* At the start nobody is ticked and nothing runs.
LEMMA CardInitInv == Init => CardInv
<1> SUFFICES ASSUME Init
             PROVE  CardInv
  OBVIOUS
<1>1. last = NoAnswer /\ pending = FALSE /\ panel = NoPanel /\ approved = {}
  BY DEF Init
<1>2. CardTypes /\ CardRest
  BY <1>1, EmptyCard DEF CardTypes, CardRest, LockOfCurrentDatabase, PanelIsApproved
<1>3. EngineTypes /\ StoppedStaysStopped /\ (active => dbId = currentDbId)
  BY DEF Init, EngineTypes, StoppedStaysStopped
<1> QED
  BY <1>2, <1>3, PartsOfCard

\* Every step of the engine and the card keeps it.
LEMMA CardStep ==
  ASSUME CardInv, watched \in {"engine", "card"}, Next
  PROVE  CardInv'
BY EngineRuns, PageSteps, PanelSteps DEF Next

-----------------------------------------------------------------------------
(* Somebody asks again                                                     *)

\* Who will ask again is still there when it was there and the step did not take it.
LEMMA SomebodyStays ==
  ASSUME SomebodyAsksAgain, watched' = watched,
         IsVisible' /\ auto' => IsVisible /\ auto,
         fastTimer => fastTimer' \/ Newest(fastRuns') # {},
         Newest(fastRuns) # {} => Newest(fastRuns') # {} \/ fastTimer',
         Newest(refreshes) # {} => Newest(refreshes') # {} \/ fastTimer',
         (\E r \in slowRuns : r.by = "range") => (\E r \in slowRuns' : r.by = "range") \/ fastTimer',
         "resume" \in hooks => "resume" \in hooks'
  PROVE  SomebodyAsksAgain'
BY DEF SomebodyAsksAgain

\* Steps of timers and answers: whoever stops asking has started the timer.
LEMMA RunsAskAgain ==
  ASSUME CardInv, SomebodyAsksAgain, watched \in {"engine", "card"},
         \/ FastEnds(fastRuns) \/ SlowEnds(slowRuns) \/ RefreshEnds(refreshes)
         \/ FastTick \/ SlowTick \/ PauseHook
  PROVE  SomebodyAsksAgain'
<1>1. EngineTypes
  BY PartsOfCard
<1>2. /\ watched' = watched /\ auto' = auto
      /\ IsVisible' = IsVisible
      /\ "resume" \in hooks => "resume" \in hooks'
  <2>1. UNCHANGED <<pageVars, auto>> /\ ("resume" \in hooks => "resume" \in hooks')
    BY DEF FastEnds, SlowEnds, RefreshEnds, FastRunEnds, SlowRunEnds, RefreshFastEnds, RefreshSlowEnds,
           FastTick, SlowTick, PauseHook
  <2> QED
    BY <2>1 DEF pageVars, IsVisible
<1>3. IsVisible' /\ auto' => Schedules
  BY <1>2 DEF Schedules
<1> SUFFICES ASSUME IsVisible, auto, Schedules
             PROVE  SomebodyAsksAgain'
  BY <1>2, <1>3 DEF SomebodyAsksAgain
<1>4. ASSUME NEW r \in fastRuns, NEW reply \in LockAnswer(r), FastRunEnds(r, reply)
      PROVE  SomebodyAsksAgain'
  <2>1. /\ fastRuns' = fastRuns \ {r} /\ refreshes' = refreshes /\ slowRuns' = slowRuns
        /\ fastTimer' = IF r.gen = "newest" THEN Schedules ELSE fastTimer
    BY <1>4 DEF FastRunEnds
  <2>2. CASE r.gen = "newest"
    BY <1>2, <2>1, <2>2 DEF SomebodyAsksAgain
  <2>3. CASE r.gen # "newest"
    <3>1. Newest(fastRuns') = Newest(fastRuns)
      BY <2>1, <2>3 DEF Newest
    <3> QED
      BY <1>2, <2>1, <2>3, <3>1, SomebodyStays
  <2> QED
    BY <2>2, <2>3
<1>5. ASSUME NEW r \in slowRuns, SlowRunEnds(r)
      PROVE  SomebodyAsksAgain'
  <2>1. /\ slowRuns' = slowRuns \ {r} /\ refreshes' = refreshes /\ fastRuns' = fastRuns
        /\ fastTimer' = IF r.by = "range" THEN Schedules ELSE fastTimer
    BY <1>5 DEF SlowRunEnds
  <2>2. CASE r.by = "range"
    BY <1>2, <2>1, <2>2 DEF SomebodyAsksAgain
  <2>3. CASE r.by # "range"
    BY <1>2, <2>1, <2>3, SomebodyStays
  <2> QED
    BY <2>2, <2>3
<1>6. ASSUME NEW q \in refreshes, NEW changed \in {[q EXCEPT !.fast = FALSE], [q EXCEPT !.slow = FALSE]},
             RefreshHalfEnds(q, changed), fastRuns' = fastRuns, slowRuns' = slowRuns
      PROVE  SomebodyAsksAgain'
  <2>1. changed.gen = q.gen
    BY <1>1 DEF EngineTypes, Refresh
  <2>2. CASE changed.fast \/ changed.slow
    <3>1. refreshes' = (refreshes \ {q}) \cup {changed} /\ fastTimer' = fastTimer
      BY <1>6, <2>2 DEF RefreshHalfEnds
    <3>2. Newest(refreshes) # {} => Newest(refreshes') # {}
      BY <2>1, <3>1 DEF Newest
    <3> QED
      BY <1>2, <1>6, <3>1, <3>2, SomebodyStays
  <2>3. CASE ~(changed.fast \/ changed.slow) /\ q.gen = "newest"
    <3>1. fastTimer' = Schedules
      BY <1>6, <2>3 DEF RefreshHalfEnds
    <3> QED
      BY <1>2, <3>1 DEF SomebodyAsksAgain
  <2>4. CASE ~(changed.fast \/ changed.slow) /\ q.gen # "newest"
    <3>1. refreshes' = refreshes \ {q} /\ fastTimer' = fastTimer
      BY <1>6, <2>4 DEF RefreshHalfEnds
    <3>2. Newest(refreshes') = Newest(refreshes)
      BY <2>4, <3>1 DEF Newest
    <3> QED
      BY <1>2, <1>6, <3>1, <3>2, SomebodyStays
  <2> QED
    BY <2>2, <2>3, <2>4
<1>7. CASE RefreshEnds(refreshes)
  <2>1. PICK q \in refreshes : (\E reply \in LockAnswer(q) : RefreshFastEnds(q, reply)) \/ RefreshSlowEnds(q)
    BY <1>7 DEF RefreshEnds
  <2> QED
    BY <1>6, <2>1 DEF RefreshFastEnds, RefreshSlowEnds
<1>8. CASE FastTick
  <2> DEFINE r == [db |-> currentDbId, gen |-> "newest"]
  <2>1. fastRuns' = fastRuns \cup {r} /\ r.gen = "newest"
    BY <1>8 DEF FastTick
  <2>2. Newest(fastRuns') # {}
    BY <2>1 DEF Newest
  <2> QED
    BY <2>2 DEF SomebodyAsksAgain
<1>9. CASE SlowTick
  <2>1. UNCHANGED <<fastTimer, refreshes, fastRuns>> /\ slowRuns \subseteq slowRuns'
    BY <1>9 DEF SlowTick
  <2> QED
    BY <1>2, <2>1, SomebodyStays
<1>10. CASE PauseHook
  <2>1. UNCHANGED <<refreshes, fastRuns, slowRuns>> /\ (fastTimer => fastTimer')
    BY <1>10 DEF PauseHook
  <2> QED
    BY <1>2, <2>1, SomebodyStays
<1> QED
  BY <1>4, <1>5, <1>7, <1>8, <1>9, <1>10 DEF FastEnds, SlowEnds

\* A refresh, or a view that cannot be seen, is enough.
LEMMA AskedNow ==
  ASSUME \/ Newest(refreshes') # {}
         \/ ~IsVisible'
         \/ ~auto'
  PROVE  SomebodyAsksAgain'
BY DEF SomebodyAsksAgain

\* A step that leaves the runs, the refresh button and what can be seen alone.
LEMMA NobodyTaken ==
  ASSUME SomebodyAsksAgain, UNCHANGED <<pageVars, hooks, auto, runVars>>
  PROVE  SomebodyAsksAgain'
BY DEF SomebodyAsksAgain, pageVars, runVars, IsVisible, Shown, Newest

\* What the user and the browser do, but come back by the Back button.
LEMMA PageAsksAgain ==
  ASSUME ~ReturnsByHash, CardInv, SomebodyAsksAgain, watched \in {"engine", "card"},
         \/ ResumeHook \/ (\E d \in Databases : SelectDatabase(d))
         \/ \E b \in BOOLEAN : ChooseView(b) \/ ClickMenu(b)
         \/ GoBack \/ HideOrShow \/ ChooseRange \/ ChangePeriod \/ PressRefresh \/ Toggle
  PROVE  SomebodyAsksAgain'
<1>1. EngineTypes
  BY PartsOfCard
<1>2. /\ \A chosen, onMenu, off \in BOOLEAN, d \in Databases \cup {None} :
           Shown(chosen, onMenu, off, d) \in BOOLEAN /\ (Shown(chosen, onMenu, off, d) => d \in Databases)
      /\ IsVisible \in BOOLEAN /\ (IsVisible => currentDbId \in Databases /\ active)
  BY <1>1 DEF Shown, IsVisible, EngineTypes
<1>3. refreshes \in SUBSET Refresh
  BY <1>1 DEF EngineTypes
<1>4. IsVisible' = Shown(active', menu', hidden', currentDbId')
  BY DEF IsVisible
<1>5. CASE ResumeHook
  <2>1. UNCHANGED pageVars
    BY <1>5 DEF ResumeHook
  <2>2. IsVisible' = IsVisible
    BY <2>1 DEF IsVisible, pageVars
  <2>3. CASE active
    <3>1. Resume(IsVisible, currentDbId)
      BY <1>5, <2>3 DEF ResumeHook
    <3>2. IsVisible => Newest(refreshes') # {}
      <4>1. currentDbId \in Databases \cup {None}
        BY <1>1 DEF EngineTypes
      <4> QED
        BY <1>1, <1>2, <3>1, <4>1, ResumeStep
    <3> QED
      BY <2>2, <3>2, AskedNow
  <2>4. CASE ~active
    BY <1>2, <2>2, <2>4, AskedNow
  <2> QED
    BY <2>3, <2>4
<1>6. ASSUME NEW d \in Databases, SelectDatabase(d)
      PROVE  SomebodyAsksAgain'
  <2>1. currentDbId' = d /\ UNCHANGED <<watched, menu, hidden, active, hooks, auto, killCalls>>
    BY <1>6 DEF SelectDatabase
  <2>2. IsVisible' = Shown(active, menu, hidden, d) /\ Shown(active, menu, hidden, d) \in BOOLEAN
    BY <1>1, <1>2, <1>4, <2>1 DEF EngineTypes
  <2>3. CASE active
    <3>1. Resume(Shown(active, menu, hidden, d), d)
      BY <1>6, <2>3 DEF SelectDatabase
    <3>2. Shown(active, menu, hidden, d) => Newest(refreshes') # {}
      BY <1>1, <2>2, <3>1, ResumeStep
    <3> QED
      BY <2>2, <3>2, AskedNow
  <2>4. CASE ~active
    BY <2>2, <2>4, AskedNow DEF Shown
  <2> QED
    BY <2>3, <2>4
<1>7. ASSUME NEW b \in BOOLEAN, ChooseView(b)
      PROVE  SomebodyAsksAgain'
  <2>1. active' = b /\ UNCHANGED <<watched, currentDbId, menu, hidden, hooks, auto, killCalls>>
    BY <1>7 DEF ChooseView
  <2>2. CASE b
    <3> DEFINE v == Shown(TRUE, menu, hidden, currentDbId)
    <3>1. Reset(v, currentDbId)
      BY <1>7, <2>2 DEF ChooseView
    <3>2. v \in BOOLEAN /\ (v => currentDbId \in Databases) /\ currentDbId \in Databases \cup {None}
      BY <1>1, <1>2 DEF EngineTypes
    <3>3. IsVisible' = v
      BY <1>4, <2>1, <2>2 DEF Shown
    <3> HIDE DEF v
    <3>4. v => Newest(refreshes') # {}
      BY <1>1, <3>1, <3>2, ResetStep
    <3> QED
      BY <3>3, <3>4, AskedNow
  <2>3. CASE ~b
    BY <1>4, <2>1, <2>3, AskedNow DEF Shown
  <2> QED
    BY <2>2, <2>3
<1>8. ASSUME NEW b \in BOOLEAN, ClickMenu(b)
      PROVE  SomebodyAsksAgain'
  <2>1. menu' = b /\ (b => "resume" \in hooks')
    BY <1>8 DEF ClickMenu
  <2>2. CASE b
    BY <2>1, <2>2 DEF SomebodyAsksAgain
  <2>3. CASE ~b
    BY <1>4, <2>1, <2>3, AskedNow DEF Shown
  <2> QED
    BY <2>2, <2>3
<1>9. CASE GoBack
  <2>1. menu /\ menu' = ~menu
    BY <1>9 DEF GoBack
  <2> QED
    BY <1>4, <2>1, AskedNow DEF Shown
<1>10. CASE HideOrShow
  <2>1. hidden' = ~hidden /\ UNCHANGED <<watched, currentDbId, menu, active, hooks, auto, killCalls>>
    BY <1>10 DEF HideOrShow
  <2>2. CASE hidden /\ Shown(active, menu, FALSE, currentDbId)
    <3>1. Resume(TRUE, currentDbId) /\ currentDbId \in Databases
      BY <1>1, <1>2, <1>10, <2>2 DEF HideOrShow, Shown, EngineTypes
    <3>2. Newest(refreshes') # {}
      BY <1>1, <3>1, ResumeStep
    <3> QED
      BY <3>2, AskedNow
  <2>3. CASE hidden /\ ~Shown(active, menu, FALSE, currentDbId)
    BY <1>4, <2>1, <2>3, AskedNow DEF Shown
  <2>4. CASE ~hidden
    BY <1>4, <2>1, <2>4, AskedNow DEF Shown
  <2> QED
    BY <2>2, <2>3, <2>4
<1>11. CASE ChooseRange
  <2> DEFINE r == [db |-> currentDbId, gen |-> "newest", by |-> "range"]
  <2>1. slowRuns' = Aged(slowRuns) \cup {r} /\ r.by = "range"
    BY <1>11 DEF ChooseRange, RangeRun
  <2> QED
    BY <2>1 DEF SomebodyAsksAgain
<1>12. CASE ChangePeriod
  <2>1. fastTimer' = Schedules /\ UNCHANGED pageVars /\ auto' = auto
    BY <1>12 DEF ChangePeriod
  <2> QED
    BY <2>1 DEF SomebodyAsksAgain, Schedules, pageVars, IsVisible
<1>13. CASE PressRefresh
  <2>1. RefreshNow(refreshes, TRUE, currentDbId) /\ IsVisible
    BY <1>13 DEF PressRefresh
  <2>2. Newest(refreshes') # {}
    BY <1>2, <1>3, <2>1, RefreshNowStep
  <2> QED
    BY <2>2, AskedNow
<1>14. CASE Toggle
  <2>1. CASE auto
    <3>1. ~auto'
      BY <1>14, <2>1 DEF Toggle
    <3> QED
      BY <3>1, AskedNow
  <2>2. CASE ~auto
    <3>1. RefreshNow(refreshes, TRUE, currentDbId) /\ IsVisible
      BY <1>14, <2>2 DEF Toggle
    <3>2. Newest(refreshes') # {}
      BY <1>2, <1>3, <3>1, RefreshNowStep
    <3> QED
      BY <3>2, AskedNow
  <2> QED
    BY <2>1, <2>2
<1> QED
  BY <1>5, <1>6, <1>7, <1>8, <1>9, <1>10, <1>11, <1>12, <1>13, <1>14

\* Every step of the engine and its card, however the operator uses the kill panel.
LEMMA SomebodyStep ==
  ASSUME ~ReturnsByHash, CardInv, SomebodyAsksAgain, watched \in {"engine", "card"}, Next
  PROVE  SomebodyAsksAgain'
<1>1. CASE OpenPanel \/ (\E h \in Holder : TickRow(h)) \/ ClosePanel \/ ExecKill
  <2>1. UNCHANGED <<pageVars, hooks, auto, runVars>>
    BY <1>1 DEF OpenPanel, TickRow, ClosePanel, ExecKill
  <2> QED
    BY <2>1, NobodyTaken
<1>2. ASSUME NEW c \in killCalls, KillAnswered(c)
      PROVE  SomebodyAsksAgain'
  <2>1. /\ UNCHANGED <<pageVars, hooks, auto, fastRuns, slowRuns>>
        /\ IF c.db = currentDbId THEN RefreshNow(refreshes, IsVisible, currentDbId)
                                 ELSE UNCHANGED <<refreshes, fastTimer, slowTimer>>
    BY <1>2 DEF KillAnswered
  <2>2. CASE c.db = currentDbId
    <3>1. IsVisible \in BOOLEAN /\ (IsVisible => currentDbId \in Databases) /\ refreshes \in SUBSET Refresh
      BY PartsOfCard DEF Shown, IsVisible, EngineTypes
    <3>2. IsVisible => Newest(refreshes') # {}
      BY <2>1, <2>2, <3>1, RefreshNowStep
    <3>3. IsVisible' = IsVisible
      BY <2>1 DEF IsVisible, pageVars
    <3> QED
      BY <3>2, <3>3, AskedNow
  <2>3. CASE c.db # currentDbId
    BY <2>1, <2>3, NobodyTaken DEF runVars
  <2> QED
    BY <2>2, <2>3
<1> QED
  BY <1>1, <1>2, RunsAskAgain, PageAsksAgain DEF Next

-----------------------------------------------------------------------------
(* Chart, lists and drawer                                                 *)

ListsType == [shown : {"skeleton", "empty", "error", "rows"}, of : Of \cup {None},
              caption : Window \cup {None}, kept : BOOLEAN]
DrawerType == [depth : 0..2, of : Of \cup {None}]
ChartType == [base : Minute \cup {None}, best : Place \cup {None}, at : Place \cup {None}, user : BOOLEAN]

ListTypes ==
  /\ sel \in Window \cup {None} /\ key \in Of \cup {None}
  /\ lists \in ListsType /\ topAsks \subseteq Of /\ drawer \in DrawerType /\ drawerAsks \subseteq Of
\* The part of the invariant that the lists and the drawer keep, and that of the chart.
ListsInv == ListTypes /\ ListsUnderCaption /\ ListsOfSelection /\ ListsAsked /\ DrawerAsked
ChartInv ==
  /\ clock \in Minute /\ loads \subseteq Databases /\ otherRange \in BOOLEAN
  /\ chart \in ChartType /\ ListsFollowChart

\* The invariant in these parts; what the drawer shows follows from what it asks.
LEMMA PartsOfTop == TopInv <=> TypeOK /\ ListsInv /\ ChartInv /\ TopQuiet
<1>1. DrawerAsked => DrawerOfSelection
  BY DEF DrawerAsked, DrawerOfSelection
<1> QED
  BY <1>1 DEF TopInv, FollowSelection, TopTypeOK, ListsInv, ListTypes, ChartInv, ListsType, DrawerType, ChartType

\* Of the next state too.
LEMMA PartsOfTopNext ==
  ASSUME TypeOK', ListsInv', ChartInv', TopQuiet'
  PROVE  TopInv'
<1>1. DrawerOfSelection'
  BY DEF ListsInv, DrawerAsked, DrawerOfSelection
<1> QED
  BY <1>1 DEF TopInv, FollowSelection, TopTypeOK, ListsInv, ListTypes, ChartInv, ListsType, DrawerType, ChartType

\* A pair of a database and a window is no None, and tells its parts.
LEMMA PairOf ==
  ASSUME NEW d \in Databases, NEW w \in Window
  PROVE  /\ [db |-> d, window |-> w] \in Of /\ [db |-> d, window |-> w] # None /\ w # None
         /\ [db |-> d, window |-> w].db = d /\ [db |-> d, window |-> w].window = w
BY NoWindowAssumption DEF Of

\* The empty lists and the closed drawer.
LEMMA EmptyLists ==
  /\ NoLists \in ListsType /\ NoLists.of = None /\ NoLists.shown = "skeleton"
  /\ NoDrawer \in DrawerType /\ NoDrawer.of = None /\ NoDrawer.depth = 0
  /\ NoChart \in ChartType /\ NoChart.base = None
  /\ \A s \in {"empty", "error"} : /\ [NoLists EXCEPT !.shown = s] \in ListsType
                                   /\ [NoLists EXCEPT !.shown = s].of = None
                                   /\ [NoLists EXCEPT !.shown = s].shown = s
<1>1. NoLists \in ListsType /\ NoLists.of = None /\ NoLists.shown = "skeleton"
  BY DEF NoLists, ListsType
<1>2. NoDrawer \in DrawerType /\ NoDrawer.of = None /\ NoDrawer.depth = 0
  BY DEF NoDrawer, DrawerType
<1>3. NoChart \in ChartType /\ NoChart.base = None
  BY DEF NoChart, ChartType
<1>4. \A s \in {"empty", "error"} : /\ [NoLists EXCEPT !.shown = s] \in ListsType
                                    /\ [NoLists EXCEPT !.shown = s].of = None
                                    /\ [NoLists EXCEPT !.shown = s].shown = s
  BY DEF NoLists, ListsType
<1> QED
  BY <1>1, <1>2, <1>3, <1>4

\* A drawer that is painted anew shows nothing and asks at most for this window.
LEMMA Painted ==
  ASSUME NEW stack \in DrawerType, NEW window \in Window \cup {None},
         window # None => currentDbId \in Databases,
         stack.depth = 0 => drawerAsks = {} /\ stack.of = None,
         PaintDrawer(stack, window)
  PROVE  /\ drawer' \in DrawerType /\ drawer'.of = None /\ drawerAsks' \subseteq Of
         /\ drawer'.depth = 0 => drawerAsks' = {}
         /\ drawerAsks' \subseteq {[db |-> currentDbId, window |-> window]}
         /\ window = None => drawerAsks' = {}
<1>1. CASE stack.depth = 0
  BY <1>1 DEF PaintDrawer
<1>2. CASE stack.depth # 0
  <2>1. /\ drawer' = [stack EXCEPT !.of = None]
        /\ drawerAsks' = IF window = None THEN {} ELSE {[db |-> currentDbId, window |-> window]}
    BY <1>2 DEF PaintDrawer, OldGone
  <2>2. drawer' \in DrawerType /\ drawer'.of = None /\ drawer'.depth = stack.depth
    BY <2>1 DEF DrawerType
  <2>3. window # None => [db |-> currentDbId, window |-> window] \in Of
    BY PairOf
  <2> QED
    BY <1>2, <2>1, <2>2, <2>3
<1> QED
  BY <1>1, <1>2

\* The lists hear of a window: they ask for it unless they asked for it last.
LEMMA SelectedStep ==
  ASSUME ListsInv, active, currentDbId \in Databases, active' = active, currentDbId' = currentDbId,
         NEW window \in Window \cup {None}, Selected(window)
  PROVE  ListsInv' /\ sel' = window
<1> DEFINE k == [db |-> currentDbId, window |-> window]
<1>0. ListTypes /\ ListsUnderCaption /\ ListsOfSelection /\ ListsAsked /\ DrawerAsked
  BY DEF ListsInv
<1>1. sel' = window /\ window \in Window \cup {None}
  BY DEF Selected
<1>2. CASE window = None
  <2>1. lists' = [NoLists EXCEPT !.shown = "empty"] /\ UNCHANGED <<key, topAsks, drawer, drawerAsks>>
    BY <1>2 DEF Selected
  <2>2. lists' \in ListsType /\ lists'.of = None /\ lists'.shown = "empty"
    BY <2>1, EmptyLists
  <2>3. ListTypes'
    BY <1>0, <1>1, <2>1, <2>2 DEF ListTypes
  <2>4. ListsUnderCaption' /\ ListsOfSelection'
    BY <1>1, <1>2, <2>2 DEF ListsUnderCaption, ListsOfSelection
  <2>5. ListsAsked'
    BY <1>0, <1>1, <1>2, <2>1, <2>2 DEF ListsAsked
  <2>6. DrawerAsked'
    BY <1>0, <1>1, <1>2, <2>1 DEF DrawerAsked
  <2> QED
    BY <1>1, <2>3, <2>4, <2>5, <2>6 DEF ListsInv
<1>3. CASE window # None
  <2>1. k \in Of /\ k # None /\ k.db = currentDbId /\ k.window = window
    BY <1>3, PairOf
  <2>2. CASE k = key
    <3>1. UNCHANGED <<key, lists, topAsks, drawer, drawerAsks>>
      BY <1>3, <2>2 DEF Selected
    <3> HIDE DEF k
    <3>2. ListTypes'
      BY <1>0, <1>1, <3>1 DEF ListTypes
    <3>3. ListsUnderCaption'
      BY <1>0, <3>1 DEF ListsUnderCaption
    <3>4. topAsks \subseteq {key} /\ key # None /\ key.window = window
      BY <1>0, <2>1, <2>2 DEF ListsAsked
    <3>5. ListsOfSelection'
      <4>1. CASE sel = None
        <5>1. lists.shown \in {"empty", "error"}
          BY <1>0, <3>4, <4>1 DEF ListsAsked, ListTypes, ListsType
        <5> QED
          BY <3>1, <5>1 DEF ListsOfSelection
      <4>2. CASE sel # None
        <5>1. sel = window
          BY <1>0, <3>4, <4>2 DEF ListsAsked
        <5> QED
          BY <1>0, <1>1, <3>1, <5>1 DEF ListsOfSelection
      <4> QED
        BY <4>1, <4>2
    <3>6. ListsAsked'
      <4>1. currentDbId' # None
        BY NoneAssumption
      <4>2. \A a \in topAsks : a.window = window
        BY <3>4
      <4> QED
        BY <1>0, <1>1, <1>3, <3>1, <3>4, <4>1, <4>2 DEF ListsAsked
    <3>7. DrawerAsked'
      <4>1. drawerAsks \cup {drawer.of} \subseteq {None, k}
        BY <1>0, <2>2, <3>4 DEF DrawerAsked
      <4> QED
        BY <1>0, <1>1, <3>1, <4>1 DEF DrawerAsked, k
    <3> QED
      BY <1>1, <3>2, <3>3, <3>5, <3>6, <3>7 DEF ListsInv
  <2>3. CASE k # key
    <3>1. /\ key' = k /\ topAsks' = {k} /\ PaintDrawer(drawer, window)
          /\ lists' = [lists EXCEPT !.kept = FALSE]
      BY <1>3, <2>3 DEF Selected, LoadTop, Repaint, OldGone
    <3>2. /\ drawer' \in DrawerType /\ drawer'.of = None /\ drawerAsks' \subseteq Of
          /\ drawer'.depth = 0 => drawerAsks' = {}
          /\ drawerAsks' \subseteq {k}
      <4>1. drawer \in DrawerType /\ (drawer.depth = 0 => drawerAsks = {} /\ drawer.of = None)
        BY <1>0 DEF ListTypes, DrawerAsked
      <4> QED
        BY <3>1, <4>1, Painted
    <3>3. lists' \in ListsType /\ lists'.of = lists.of /\ lists'.caption = lists.caption
      BY <1>0, <3>1 DEF ListTypes, ListsType
    <3> HIDE DEF k
    <3>4. ListTypes'
      BY <1>1, <2>1, <3>1, <3>2, <3>3 DEF ListTypes
    <3>5. ListsUnderCaption'
      BY <1>0, <3>3 DEF ListsUnderCaption
    <3>6. ListsOfSelection'
      BY <3>1 DEF ListsOfSelection
    <3>7. ListsAsked'
      BY <1>1, <1>3, <2>1, <3>1, NoneAssumption DEF ListsAsked
    <3>8. DrawerAsked'
      BY <1>1, <3>1, <3>2 DEF DrawerAsked, k
    <3> QED
      BY <1>1, <3>4, <3>5, <3>6, <3>7, <3>8 DEF ListsInv
  <2> QED
    BY <2>2, <2>3
<1> QED
  BY <1>2, <1>3

\* A window announced by the chart is one of the chart's places.
LEMMA EmitStep ==
  ASSUME ListsInv, active, currentDbId \in Databases, active' = active, currentDbId' = currentDbId,
         NEW c \in ChartType, c.base \in Minute, EmitSelection(c)
  PROVE  ListsInv' /\ chart' = c /\ sel' = WindowAt(c)
<1>1. WindowAt(c) \in Window \cup {None}
  BY DEF WindowAt, Window, ChartType
<1> QED
  BY <1>1, SelectedStep DEF EmitSelection

\* Lists and drawer left alone, of a view that stays chosen or is left.
LEMMA ListsKept ==
  ASSUME ListsInv, UNCHANGED listVars, active' => active /\ currentDbId' = currentDbId,
         currentDbId' # None \/ currentDbId' = currentDbId
  PROVE  ListsInv'
BY DEF listVars, ListsInv, ListTypes, ListsUnderCaption, ListsOfSelection, ListsAsked, DrawerAsked

\* A reset leaves nothing that could be of another database.
LEMMA TopResetStep ==
  ASSUME TopReset
  PROVE  ListsInv' /\ chart' \in ChartType /\ chart'.base = None /\ ListsFollowChart'
<1>1. /\ key' = None /\ chart' = NoChart /\ sel' = None /\ lists' = NoLists /\ topAsks' = {}
      /\ drawer' = NoDrawer /\ drawerAsks' = {}
  BY DEF TopReset, OldGone
<1>2. ListTypes'
  BY <1>1, EmptyLists DEF ListTypes
<1>3. ListsUnderCaption' /\ ListsOfSelection' /\ ListsFollowChart'
  BY <1>1, EmptyLists DEF ListsUnderCaption, ListsOfSelection, ListsFollowChart
<1>4. ListsAsked' /\ DrawerAsked'
  BY <1>1, EmptyLists DEF ListsAsked, DrawerAsked
<1> QED
  BY <1>1, <1>2, <1>3, <1>4, EmptyLists DEF ListsInv

\* The parts of the dashboard that no engine follows leave the lock card as it was.
LEMMA CardElsewhere ==
  ASSUME CardInv, watched \in {"top", "checks"}, UNCHANGED engineVars,
         currentDbId' \in Databases \cup {None}, dbId' \in Databases \cup {None}, active' \in BOOLEAN,
         active' => dbId' = currentDbId'
  PROVE  CardInv'
<1>1. EngineTypes /\ CardTypes /\ CardRest /\ StoppedStaysStopped
  BY PartsOfCard
<1>2. /\ UNCHANGED <<watched, menu, hidden, hooks, auto, killCalls>> /\ UNCHANGED runVars /\ UNCHANGED cardVars
  BY DEF engineVars
<1>3. EngineTypes' /\ StoppedStaysStopped'
  BY <1>1, <1>2 DEF EngineTypes, runVars, StoppedStaysStopped
<1>4. last' = NoAnswer /\ panel' = NoPanel /\ pending' = pending /\ approved' = approved
  BY <1>1, <1>2 DEF CardRest, cardVars
<1>5. CardTypes'
  BY <1>1, <1>4, EmptyCard DEF CardTypes
<1>6. CardRest'
  BY <1>4, EmptyCard DEF CardRest, LockOfCurrentDatabase, PanelIsApproved
<1> QED
  BY <1>3, <1>5, <1>6, PartsOfCardNext

\* Most steps leave the page and its engine alone.
LEMMA CardRests ==
  ASSUME CardInv, watched \in {"top", "checks"}, UNCHANGED pageRest
  PROVE  /\ CardInv' /\ watched' = watched /\ currentDbId' = currentDbId /\ active' = active
         /\ TypeOK'
<1>1. UNCHANGED engineVars /\ currentDbId' = currentDbId /\ active' = active /\ dbId' = dbId
  BY DEF pageRest
<1>2. /\ currentDbId \in Databases \cup {None} /\ dbId \in Databases \cup {None} /\ active \in BOOLEAN
      /\ active => dbId = currentDbId
  BY PartsOfCard DEF EngineTypes
<1>3. CardInv'
  BY <1>1, <1>2, CardElsewhere
<1> QED
  BY <1>1, <1>3 DEF engineVars, CardInv

\* Steps of the engine that reach no chart, or begin a new generation of everything.
LEMMA EngineStepKeeps ==
  ASSUME CardInv, TopInv, watched \in {"top", "checks"},
         \/ \E d \in loads : ChartFailed(d)
         \/ RunSlowTasks \/ ChooseOtherRange \/ RefreshTop
         \/ \E d \in Databases : SelectInstance(d)
         \/ \E nd \in BOOLEAN : SwitchView(nd)
  PROVE  CardInv' /\ TopInv'
<1>1. TypeOK /\ ListsInv /\ ChartInv /\ TopQuiet
  BY PartsOfTop
<1>2. /\ currentDbId \in Databases \cup {None} /\ dbId \in Databases \cup {None} /\ active \in BOOLEAN
      /\ active => dbId = currentDbId
      /\ IsVisible => currentDbId \in Databases
  BY PartsOfCard DEF EngineTypes, IsVisible, Shown
<1>3. clock \in Minute /\ loads \subseteq Databases /\ otherRange \in BOOLEAN /\ chart \in ChartType /\ ListsFollowChart
  BY <1>1 DEF ChartInv
<1>4. CASE (\E d \in loads : ChartFailed(d)) \/ RunSlowTasks \/ ChooseOtherRange
  <2>1. /\ UNCHANGED pageRest /\ UNCHANGED listVars /\ UNCHANGED <<clock, chart>>
        /\ loads' \subseteq Databases /\ otherRange' \in BOOLEAN
    BY <1>2, <1>3, <1>4 DEF ChartFailed, RunSlowTasks, ChooseOtherRange
  <2>2. /\ CardInv' /\ watched' = watched /\ currentDbId' = currentDbId /\ active' = active /\ TypeOK'
    BY <2>1, CardRests
  <2>3. ListsInv'
    BY <1>1, <2>1, <2>2, ListsKept
  <2>4. ChartInv'
    BY <1>3, <2>1 DEF ChartInv, ListsFollowChart, listVars, WindowAt
  <2>5. TopQuiet'
    BY <1>1, <2>1, <2>2 DEF TopQuiet, listVars
  <2> QED
    BY <2>2, <2>3, <2>4, <2>5, PartsOfTopNext
<1>5. CASE RefreshTop
  <2>1. /\ UNCHANGED pageRest /\ UNCHANGED <<clock, otherRange, chart, sel, lists, topAsks, drawer, drawerAsks>>
        /\ loads' \subseteq Databases /\ key' = None
    BY <1>2, <1>3, <1>5 DEF RefreshTop
  <2>2. /\ CardInv' /\ watched' = watched /\ currentDbId' = currentDbId /\ active' = active /\ TypeOK'
    BY <2>1, CardRests
  <2>3. ListsInv'
    <3>1. ListTypes' /\ ListsUnderCaption' /\ ListsOfSelection'
      BY <1>1, <2>1, <2>2 DEF ListsInv, ListTypes, ListsUnderCaption, ListsOfSelection
    <3>2. ListsAsked' /\ DrawerAsked'
      BY <1>1, <2>1, <2>2 DEF ListsInv, ListsAsked, DrawerAsked
    <3> QED
      BY <3>1, <3>2 DEF ListsInv
  <2>4. ChartInv'
    BY <1>3, <2>1 DEF ChartInv, ListsFollowChart, WindowAt
  <2>5. TopQuiet'
    BY <1>1, <2>1, <2>2 DEF TopQuiet
  <2> QED
    BY <2>2, <2>3, <2>4, <2>5, PartsOfTopNext
<1>6. ASSUME ResetEngine(TRUE, currentDbId') \/ ResetEngine(currentDbId # None, currentDbId'),
             currentDbId' \in Databases \/ currentDbId' = currentDbId, active' \in BOOLEAN,
             UNCHANGED engineVars, UNCHANGED <<clock, otherRange>>
      PROVE  (currentDbId' = None => loads' = {}) => CardInv' /\ TopInv'
  <2> SUFFICES ASSUME currentDbId' = None => loads' = {}
               PROVE  CardInv' /\ TopInv'
    OBVIOUS
  <2>1. dbId' = currentDbId' /\ TopReset /\ loads' \subseteq {currentDbId'}
    BY <1>6 DEF ResetEngine
  <2>2. CardInv' /\ TypeOK' /\ watched' = watched
    <3>1. CardInv'
      BY <1>2, <1>6, <2>1, CardElsewhere
    <3> QED
      BY <1>6, <3>1 DEF CardInv, engineVars
  <2>3. ListsInv' /\ chart' \in ChartType /\ ListsFollowChart'
    BY <2>1, TopResetStep
  <2>4. loads' \subseteq Databases
    BY <1>2, <1>6, <2>1
  <2>5. ChartInv'
    BY <1>3, <1>6, <2>3, <2>4 DEF ChartInv
  <2>6. TopQuiet'
    BY <2>1, EmptyLists DEF TopQuiet, TopReset, OldGone
  <2> QED
    BY <2>2, <2>3, <2>5, <2>6, PartsOfTopNext
<1>7. ASSUME UNCHANGED engineVars, UNCHANGED <<clock, otherRange, dbId, loads, chart, listVars>>,
             active' \in BOOLEAN, active' => active /\ currentDbId' = currentDbId,
             currentDbId' \in Databases \/ currentDbId' = currentDbId
      PROVE  CardInv' /\ TopInv'
  <2>1. CardInv' /\ TypeOK' /\ watched' = watched
    <3>1. CardInv'
      BY <1>2, <1>7, CardElsewhere
    <3> QED
      BY <1>7, <3>1 DEF CardInv, engineVars
  <2>2. ListsInv'
    BY <1>1, <1>7, ListsKept, NoneAssumption
  <2>3. ChartInv'
    BY <1>3, <1>7 DEF ChartInv, ListsFollowChart, listVars, WindowAt
  <2>4. TopQuiet'
    BY <1>1, <1>7, <2>1 DEF TopQuiet, listVars
  <2> QED
    BY <2>1, <2>2, <2>3, <2>4, PartsOfTopNext
<1>8. ASSUME NEW d \in Databases, SelectInstance(d)
      PROVE  CardInv' /\ TopInv'
  <2>1. /\ currentDbId' = d /\ UNCHANGED engineVars /\ active' = active /\ UNCHANGED <<clock, otherRange>>
        /\ IF active /\ dbId # d THEN ResetEngine(TRUE, d) ELSE UNCHANGED <<dbId, loads, chart, listVars>>
    BY <1>8 DEF SelectInstance
  <2>2. CASE active /\ dbId # d
    BY <1>2, <1>6, <2>1, <2>2, NoneAssumption
  <2>3. CASE ~(active /\ dbId # d)
    BY <1>2, <1>7, <2>1, <2>3
  <2> QED
    BY <2>2, <2>3
<1>9. ASSUME NEW nd \in BOOLEAN, SwitchView(nd)
      PROVE  CardInv' /\ TopInv'
  <2>1. /\ active' = nd /\ UNCHANGED engineVars /\ currentDbId' = currentDbId /\ UNCHANGED <<clock, otherRange>>
        /\ IF nd THEN ResetEngine(currentDbId # None, currentDbId) ELSE UNCHANGED <<dbId, loads, chart, listVars>>
    BY <1>9 DEF SwitchView
  <2>2. CASE nd
    <3>1. currentDbId' = None => loads' = {}
      BY <2>1, <2>2 DEF ResetEngine
    <3> QED
      BY <1>6, <2>1, <2>2, <3>1
  <2>3. CASE ~nd
    BY <1>7, <2>1, <2>3
  <2> QED
    BY <2>2, <2>3
<1> QED
  BY <1>4, <1>5, <1>8, <1>9

\* A selection the chart makes itself is its busiest window; another one is the user's.
LEMMA ChartEmits ==
  ASSUME CardInv, TopInv, watched = "top", active, currentDbId \in Databases,
         NEW c \in ChartType, c.base \in Minute, c.user \/ c.at = c.best, EmitSelection(c),
         UNCHANGED pageRest, clock' \in Minute, loads' \subseteq Databases, otherRange' \in BOOLEAN
  PROVE  CardInv' /\ TopInv'
<1>1. ListsInv
  BY PartsOfTop
<1>2. CardInv' /\ watched' = watched /\ currentDbId' = currentDbId /\ active' = active /\ TypeOK'
  BY CardRests
<1>3. ListsInv' /\ chart' = c /\ sel' = WindowAt(c)
  BY <1>1, <1>2, EmitStep
<1>4. ListsFollowChart'
  BY <1>3 DEF ListsFollowChart, WindowAt
<1>5. ChartInv'
  BY <1>3, <1>4 DEF ChartInv
<1>6. TopQuiet'
  BY <1>2 DEF TopQuiet
<1> QED
  BY <1>2, <1>3, <1>5, <1>6, PartsOfTopNext

\* The chart: an answer, a drag, a choice, and the choice given back.
LEMMA ChartSteps ==
  ASSUME CardInv, TopInv, watched = "top",
         \/ \E d \in loads, best \in Place \cup {None} : ChartLoaded(d, best)
         \/ \E p \in Place : Drag(p) \/ SelectWindow(p)
         \/ ClearSelection
  PROVE  CardInv' /\ TopInv'
<1>1. TypeOK /\ ListsInv /\ ChartInv /\ TopQuiet
  BY PartsOfTop
<1>2. clock \in Minute /\ loads \subseteq Databases /\ otherRange \in BOOLEAN /\ chart \in ChartType /\ ListsFollowChart
  BY <1>1 DEF ChartInv
<1>3. IsVisible => active /\ currentDbId \in Databases
  BY <1>1 DEF TypeOK, IsVisible, Shown
<1>4. ASSUME UNCHANGED pageRest, UNCHANGED <<clock, listVars>>, loads' \subseteq Databases, otherRange' \in BOOLEAN,
             chart' \in ChartType, ListsFollowChart'
      PROVE  CardInv' /\ TopInv'
  <2>1. CardInv' /\ watched' = watched /\ currentDbId' = currentDbId /\ active' = active /\ TypeOK'
    BY <1>4, CardRests
  <2>2. ListsInv'
    BY <1>1, <1>4, <2>1, ListsKept
  <2>3. ChartInv'
    BY <1>2, <1>4 DEF ChartInv
  <2>4. TopQuiet'
    BY <2>1 DEF TopQuiet
  <2> QED
    BY <2>1, <2>2, <2>3, <2>4, PartsOfTopNext
<1>5. ASSUME NEW d \in loads, NEW best \in Place \cup {None}, ChartLoaded(d, best)
      PROVE  CardInv' /\ TopInv'
  <2> DEFINE c == [base |-> clock, best |-> best, user |-> chart.user /\ ~otherRange,
                   at |-> IF otherRange THEN None ELSE chart.at]
             e == [c EXCEPT !.at = best]
  <2>1. UNCHANGED pageRest /\ UNCHANGED clock /\ loads' \subseteq Databases /\ d \in Databases
    BY <1>2, <1>5 DEF ChartLoaded
  <2>2. (chart.user /\ ~otherRange) \in BOOLEAN /\ chart.at \in Place \cup {None}
    BY <1>2 DEF ChartType
  <2>3. c \in ChartType /\ c.base = clock
    BY <1>2, <2>2 DEF ChartType
  <2>4. CASE d # currentDbId \/ ~active
    <3>1. UNCHANGED <<otherRange, chart, listVars>>
      BY <1>5, <2>4 DEF ChartLoaded
    <3>2. ListsFollowChart'
      BY <1>2, <3>1 DEF ListsFollowChart, listVars, WindowAt
    <3> QED
      BY <1>2, <1>4, <2>1, <3>1, <3>2
  <2>5. CASE d = currentDbId /\ active
    <3>1. /\ otherRange' = FALSE
          /\ IF Selects(c) THEN AutoSelect(c) ELSE chart' = c /\ UNCHANGED listVars
      BY <1>5, <2>5 DEF ChartLoaded
    <3> HIDE DEF c
    <3>2. CASE Selects(c)
      <4>1. EmitSelection(e)
        BY <2>3, <3>1, <3>2 DEF AutoSelect, ChartType, c
      <4>2. e \in ChartType /\ e.base = clock /\ e.at = e.best
        BY <2>3 DEF ChartType, c
      <4> HIDE DEF e
      <4>3. clock' \in Minute /\ loads' \subseteq Databases /\ otherRange' \in BOOLEAN
        BY <1>2, <2>1, <3>1
      <4> QED
        BY <1>2, <2>1, <2>5, <4>1, <4>2, <4>3, ChartEmits
    <3>3. CASE ~Selects(c)
      <4>1. chart' = c /\ UNCHANGED listVars /\ c.user
        BY <3>1, <3>3 DEF Selects
      <4>2. ListsFollowChart'
        BY <4>1 DEF ListsFollowChart
      <4> QED
        BY <1>4, <2>1, <2>3, <3>1, <4>1, <4>2
    <3> QED
      BY <3>2, <3>3
  <2> QED
    BY <2>4, <2>5
<1>6. ASSUME NEW p \in Place, Drag(p)
      PROVE  CardInv' /\ TopInv'
  <2>1. chart' = [chart EXCEPT !.at = p, !.user = TRUE] /\ UNCHANGED pageRest /\ UNCHANGED <<clock, loads, otherRange, listVars>>
    BY <1>6 DEF Drag
  <2>2. chart' \in ChartType /\ chart'.user
    BY <1>2, <2>1 DEF ChartType
  <2>3. ListsFollowChart'
    BY <2>2 DEF ListsFollowChart
  <2> QED
    BY <1>2, <1>4, <2>1, <2>2, <2>3
<1>7. ASSUME NEW p \in Place, SelectWindow(p)
      PROVE  CardInv' /\ TopInv'
  <2> DEFINE c == [chart EXCEPT !.at = p, !.user = TRUE]
  <2>1. IsVisible /\ chart.base # None /\ EmitSelection(c) /\ UNCHANGED pageRest /\ UNCHANGED <<clock, loads, otherRange>>
    BY <1>7 DEF SelectWindow
  <2>2. c \in ChartType /\ c.base \in Minute /\ c.user
    BY <1>2, <2>1 DEF ChartType
  <2> HIDE DEF c
  <2> QED
    BY <1>2, <1>3, <2>1, <2>2, ChartEmits
<1>8. CASE ClearSelection
  <2> DEFINE c == [chart EXCEPT !.user = FALSE]
             e == [c EXCEPT !.at = c.best]
  <2>1. IsVisible /\ chart.base # None /\ EmitSelection(e) /\ UNCHANGED pageRest /\ UNCHANGED <<clock, loads, otherRange>>
    BY <1>8 DEF ClearSelection, AutoSelect
  <2>2. c \in ChartType /\ c.base \in Minute
    BY <1>2, <2>1 DEF ChartType
  <2> HIDE DEF c
  <2>3. e \in ChartType /\ e.base \in Minute /\ e.at = e.best
    BY <2>2 DEF ChartType
  <2> HIDE DEF e
  <2> QED
    BY <1>2, <1>3, <2>1, <2>3, ChartEmits
<1> QED
  BY <1>5, <1>6, <1>7, <1>8

\* The lists and the drawer: what the user asks of them, and the answers.
LEMMA ListSteps ==
  ASSUME CardInv, TopInv, watched = "top",
         \/ \E a \in topAsks, outcome \in {"ok", "failed", "refused"} : TopAnswered(a, outcome)
         \/ Retry
         \/ OpenDrawer \/ PushDrawer \/ Back \/ CloseDrawer
         \/ \E a \in drawerAsks, ok \in BOOLEAN : DrawerAnswered(a, ok)
         \/ Pass
  PROVE  CardInv' /\ TopInv'
<1>1. TypeOK /\ ListsInv /\ ChartInv /\ TopQuiet
  BY PartsOfTop
<1>2. ListTypes /\ ListsUnderCaption /\ ListsOfSelection /\ ListsAsked /\ DrawerAsked
  BY <1>1 DEF ListsInv
<1>3. IsVisible => active /\ currentDbId \in Databases
  BY <1>1 DEF TypeOK, IsVisible, Shown
<1>4. ASSUME UNCHANGED pageRest, UNCHANGED <<loads, otherRange, chart, sel>>, clock' \in Minute, ListsInv'
      PROVE  CardInv' /\ TopInv'
  <2>1. CardInv' /\ watched' = watched /\ TypeOK'
    BY <1>4, CardRests
  <2>2. ChartInv'
    BY <1>1, <1>4 DEF ChartInv, ListsFollowChart, WindowAt
  <2>3. TopQuiet'
    BY <2>1 DEF TopQuiet
  <2> QED
    BY <1>4, <2>1, <2>2, <2>3, PartsOfTopNext
<1>5. clock \in Minute
  BY <1>1 DEF ChartInv
<1>6. ASSUME NEW a \in topAsks, NEW outcome \in {"ok", "failed", "refused"}, TopAnswered(a, outcome)
      PROVE  CardInv' /\ TopInv'
  <2>1. /\ topAsks' = topAsks \ {a} /\ UNCHANGED pageRest
        /\ UNCHANGED <<clock, loads, otherRange, chart, sel, key, drawer, drawerAsks>>
        /\ lists' = IF a.db # currentDbId \/ (outcome = "ok" /\ sel = None) THEN lists
                    ELSE CASE outcome = "refused" -> [lists EXCEPT !.kept = TRUE]
                           [] outcome = "failed" -> [NoLists EXCEPT !.shown = "error"]
                           [] outcome = "ok" -> [shown |-> "rows", of |-> a, caption |-> sel, kept |-> FALSE]
    BY <1>6 DEF TopAnswered
  <2>2. currentDbId' = currentDbId /\ active' = active
    BY <2>1 DEF pageRest
  <2>3. a \in Of /\ topAsks \subseteq Of /\ sel \in Window \cup {None} /\ lists \in ListsType
    BY <1>2 DEF ListTypes
  <2>4. ASSUME lists' \in ListsType, ListsUnderCaption', ListsOfSelection',
               sel = None => lists'.shown # "rows" /\ (key # None => lists'.shown # "skeleton")
        PROVE  CardInv' /\ TopInv'
    <3>1. ListTypes' /\ DrawerAsked'
      BY <1>2, <2>1, <2>2, <2>3, <2>4 DEF ListTypes, DrawerAsked
    <3>2. ListsAsked'
      BY <1>2, <2>1, <2>2, <2>4 DEF ListsAsked
    <3> QED
      BY <1>4, <1>5, <2>1, <2>4, <3>1, <3>2 DEF ListsInv
  <2>5. CASE a.db # currentDbId \/ (outcome = "ok" /\ sel = None)
    <3>1. lists' = lists
      BY <2>1, <2>5
    <3>2. active => a.db = currentDbId
      BY <1>2 DEF ListsAsked
    <3>3. ListsOfSelection'
      BY <2>1, <2>2, <2>5, <3>2 DEF ListsOfSelection
    <3>4. ListsUnderCaption'
      BY <1>2, <2>2, <3>1 DEF ListsUnderCaption
    <3>5. sel = None => lists'.shown # "rows" /\ (key # None => lists'.shown # "skeleton")
      BY <1>2, <3>1 DEF ListsAsked
    <3> QED
      BY <2>3, <2>4, <3>1, <3>3, <3>4, <3>5
  <2>6. CASE a.db = currentDbId /\ outcome = "refused"
    <3>1. lists' = [lists EXCEPT !.kept = TRUE]
      BY <2>1, <2>6
    <3>2. /\ lists' \in ListsType /\ lists'.kept /\ lists'.of = lists.of /\ lists'.caption = lists.caption
          /\ lists'.shown = lists.shown
      BY <2>3, <3>1 DEF ListsType
    <3>3. ListsOfSelection'
      BY <3>2 DEF ListsOfSelection
    <3>4. ListsUnderCaption'
      BY <1>2, <2>2, <3>2 DEF ListsUnderCaption
    <3>5. sel = None => lists'.shown # "rows" /\ (key # None => lists'.shown # "skeleton")
      BY <1>2, <3>2 DEF ListsAsked
    <3> QED
      BY <2>4, <3>2, <3>3, <3>4, <3>5
  <2>7. CASE a.db = currentDbId /\ outcome = "failed"
    <3>1. lists' = [NoLists EXCEPT !.shown = "error"]
      BY <2>1, <2>7
    <3>2. lists' \in ListsType /\ lists'.of = None /\ lists'.shown = "error"
      BY <3>1, EmptyLists
    <3>3. ListsOfSelection' /\ ListsUnderCaption'
      BY <3>2 DEF ListsOfSelection, ListsUnderCaption
    <3> QED
      BY <2>4, <3>2, <3>3
  <2>8. CASE a.db = currentDbId /\ outcome = "ok" /\ sel # None
    <3>1. lists' = [shown |-> "rows", of |-> a, caption |-> sel, kept |-> FALSE]
      BY <2>1, <2>8
    <3>2. a.window = sel
      BY <1>2, <2>8 DEF ListsAsked
    <3>3. lists' \in ListsType
      BY <2>3, <3>1 DEF ListsType
    <3>4. ListsOfSelection' /\ ListsUnderCaption'
      BY <2>1, <2>2, <2>8, <3>1, <3>2 DEF ListsOfSelection, ListsUnderCaption
    <3> QED
      BY <2>4, <2>8, <3>3, <3>4
  <2> QED
    BY <2>5, <2>6, <2>7, <2>8
<1>7. CASE Retry
  <2> DEFINE k == [db |-> currentDbId, window |-> sel]
  <2>1. /\ IsVisible /\ lists.shown = "error" /\ sel # None /\ key' = None
        /\ topAsks' = {k} /\ lists' = [lists EXCEPT !.kept = FALSE]
        /\ UNCHANGED pageRest /\ UNCHANGED <<clock, loads, otherRange, chart, sel, drawer, drawerAsks>>
    BY <1>7 DEF Retry, LoadTop, OldGone
  <2>2. currentDbId' = currentDbId /\ active' = active
    BY <2>1 DEF pageRest
  <2>3. k \in Of /\ k.db = currentDbId /\ k.window = sel
    BY <1>2, <1>3, <2>1, PairOf DEF ListTypes
  <2> HIDE DEF k
  <2>4. /\ lists' \in ListsType /\ lists'.of = lists.of /\ lists'.caption = lists.caption
        /\ lists'.shown = lists.shown
    BY <1>2, <2>1 DEF ListTypes, ListsType
  <2>5. ListTypes'
    BY <1>2, <2>1, <2>3, <2>4 DEF ListTypes
  <2>6. ListsUnderCaption' /\ ListsOfSelection'
    BY <1>2, <2>1, <2>2, <2>4 DEF ListsUnderCaption, ListsOfSelection
  <2>7. ListsAsked'
    BY <1>2, <2>1, <2>2, <2>3, <2>4 DEF ListsAsked
  <2>8. DrawerAsked'
    BY <1>2, <2>1, <2>2 DEF DrawerAsked
  <2> QED
    BY <1>4, <1>5, <2>1, <2>5, <2>6, <2>7, <2>8 DEF ListsInv
<1>8. ASSUME UNCHANGED pageRest, UNCHANGED <<loads, otherRange, chart, sel, key, lists, topAsks>>, clock' \in Minute,
             drawer' \in DrawerType, drawerAsks' \subseteq Of, DrawerAsked'
      PROVE  CardInv' /\ TopInv'
  <2>1. currentDbId' = currentDbId /\ active' = active
    BY <1>8 DEF pageRest
  <2>2. ListTypes' /\ ListsUnderCaption' /\ ListsOfSelection' /\ ListsAsked'
    BY <1>2, <1>8, <2>1 DEF ListTypes, ListsUnderCaption, ListsOfSelection, ListsAsked
  <2> QED
    BY <1>4, <1>8, <2>2 DEF ListsInv
<1>9. ASSUME NEW depth \in 1..2, PaintDrawer([drawer EXCEPT !.depth = depth], sel),
             UNCHANGED pageRest, UNCHANGED <<clock, loads, otherRange, chart, sel, key, lists, topAsks>>
      PROVE  CardInv' /\ TopInv'
  <2> DEFINE stack == [drawer EXCEPT !.depth = depth]
             k == [db |-> currentDbId, window |-> sel]
  <2>1. stack \in DrawerType /\ stack.depth # 0
    BY <1>2 DEF ListTypes, DrawerType
  <2>2. sel \in Window \cup {None} /\ (sel # None => currentDbId \in Databases)
    BY <1>1, <1>2 DEF ListTypes, ListsAsked, TypeOK
  <2> HIDE DEF stack
  <2>3. /\ drawer' \in DrawerType /\ drawer'.of = None /\ drawerAsks' \subseteq Of
        /\ drawer'.depth = 0 => drawerAsks' = {}
        /\ drawerAsks' \subseteq {k} /\ (sel = None => drawerAsks' = {})
    <3>1. PaintDrawer(stack, sel)
      BY <1>9 DEF stack
    <3> QED
      BY <2>1, <2>2, <3>1, Painted
  <2>4. currentDbId' = currentDbId /\ active' = active
    BY <1>9 DEF pageRest
  <2>5. active /\ key # None /\ sel # None => key = k
    <3>1. ASSUME active, key # None, sel # None
          PROVE  key.db = currentDbId /\ key.window = sel /\ key \in Of
      BY <1>2, <3>1 DEF ListsAsked, ListTypes
    <3>2. \A x \in Of : x = [db |-> x.db, window |-> x.window]
      BY DEF Of
    <3> QED
      BY <3>1, <3>2
  <2>6. DrawerAsked'
    <3> HIDE DEF k
    <3>1. k' = k
      BY <1>9, <2>4 DEF k
    <3>2. active /\ key # None => drawerAsks' \subseteq {key}
      BY <2>3, <2>5
    <3>3. active' /\ key' # None => drawerAsks' \cup {drawer'.of} \subseteq {None, key'}
      BY <1>9, <2>3, <2>4, <3>2
    <3>4. drawerAsks' \cup {drawer'.of} \subseteq {None, k'}
      BY <2>3, <3>1
    <3> QED
      BY <2>3, <3>3, <3>4 DEF DrawerAsked, k
  <2> QED
    BY <1>5, <1>8, <1>9, <2>3, <2>6
<1>10. CASE OpenDrawer \/ PushDrawer \/ Back
  <2>1. PICK depth \in 1..2 :
          /\ PaintDrawer([drawer EXCEPT !.depth = depth], sel)
          /\ UNCHANGED pageRest /\ UNCHANGED <<clock, loads, otherRange, chart, sel, key, lists, topAsks>>
    <3>1. 1 \in 1..2 /\ 2 \in 1..2
      OBVIOUS
    <3> QED
      BY <1>10, <3>1 DEF OpenDrawer, PushDrawer, Back
  <2> QED
    BY <1>9, <2>1
<1>11. CASE CloseDrawer
  <2>1. /\ drawer' = NoDrawer /\ drawerAsks' = {} /\ UNCHANGED pageRest
        /\ UNCHANGED <<clock, loads, otherRange, chart, sel, key, lists, topAsks>>
    BY <1>11 DEF CloseDrawer, OldGone
  <2>2. DrawerAsked'
    BY <2>1, EmptyLists DEF DrawerAsked
  <2> QED
    BY <1>5, <1>8, <2>1, <2>2, EmptyLists
<1>12. ASSUME NEW a \in drawerAsks, NEW ok \in BOOLEAN, DrawerAnswered(a, ok)
       PROVE  CardInv' /\ TopInv'
  <2>1. /\ drawerAsks' = drawerAsks \ {a} /\ UNCHANGED pageRest
        /\ drawer' = IF ok /\ sel # None THEN [drawer EXCEPT !.of = a] ELSE drawer
        /\ UNCHANGED <<clock, loads, otherRange, chart, sel, key, lists, topAsks>>
    BY <1>12 DEF DrawerAnswered
  <2>2. currentDbId' = currentDbId /\ active' = active
    BY <2>1 DEF pageRest
  <2>3. a \in Of /\ drawer \in DrawerType /\ drawerAsks' \subseteq Of
    BY <1>2, <2>1 DEF ListTypes
  <2>4. drawer' \in DrawerType /\ drawer'.depth = drawer.depth /\ drawer'.of \in {drawer.of, a}
    <3>1. CASE ok /\ sel # None
      BY <2>1, <2>3, <3>1 DEF DrawerType
    <3>2. CASE ~(ok /\ sel # None)
      BY <2>1, <2>3, <3>2
    <3> QED
      BY <3>1, <3>2
  <2>5. DrawerAsked'
    <3>1. drawer.depth # 0
      BY <1>2 DEF DrawerAsked
    <3>2. drawerAsks' \cup {drawer'.of} \subseteq drawerAsks \cup {drawer.of}
      BY <2>1, <2>4
    <3> QED
      BY <1>2, <2>1, <2>2, <2>4, <3>1, <3>2 DEF DrawerAsked
  <2> QED
    BY <1>5, <1>8, <2>1, <2>3, <2>4, <2>5
<1>13. CASE Pass
  <2>1. clock' \in Minute /\ UNCHANGED pageRest /\ UNCHANGED <<loads, otherRange, chart, listVars>>
    BY <1>13 DEF Pass
  <2>2. ListsInv'
    <3>1. currentDbId' = currentDbId /\ active' = active
      BY <2>1 DEF pageRest
    <3> QED
      BY <1>1, <2>1, <3>1, ListsKept
  <2> QED
    BY <1>4, <2>1, <2>2 DEF listVars
<1> QED
  BY <1>6, <1>7, <1>10, <1>11, <1>12, <1>13

\* A set of minutes has a first one.
LEMMA FirstMinute == (CHOOSE m \in Minute : \A n \in Minute : m <= n) \in Minute
<1>1. PICK m \in Minute : \A n \in Minute : ~(<<n, m>> \in OpToRel(<, Nat))
  BY MinuteAssumption, NatLessThanWellFounded, WFMin
<1>2. ASSUME NEW n \in Minute, n < m
      PROVE  FALSE
  <2>1. <<n, m>> \in OpToRel(<, Nat)
    BY <1>2, MinuteAssumption DEF OpToRel
  <2> QED
    BY <1>1, <2>1
<1>3. \A n \in Minute : m <= n
  BY <1>2, MinuteAssumption
<1> QED
  BY <1>3

\* At the start chart, lists and drawer are empty.
LEMMA TopInitInv ==
  ASSUME TopInit
  PROVE  CardInv /\ TopInv
<1>1. CardInv
  BY CardInitInv DEF TopInit
<1>2. /\ clock \in Minute /\ loads = {} /\ otherRange = FALSE /\ chart = NoChart
      /\ sel = None /\ key = None /\ lists = NoLists /\ topAsks = {}
      /\ drawer = NoDrawer /\ drawerAsks = {}
  BY FirstMinute DEF TopInit
<1>3. ListsInv
  BY <1>2, EmptyLists DEF ListsInv, ListTypes, ListsUnderCaption, ListsOfSelection, ListsAsked, DrawerAsked
<1>4. ChartInv /\ TopQuiet
  BY <1>2, EmptyLists DEF ChartInv, ListsFollowChart, TopQuiet
<1> QED
  BY <1>1, <1>3, <1>4, PartsOfTop DEF CardInv

\* What a behaviour follows, it follows for ever.
LEMMA FollowsOne ==
  ASSUME Next
  PROVE  watched' = watched
<1>1. CASE FastEnds(fastRuns) \/ SlowEnds(slowRuns) \/ RefreshEnds(refreshes) \/ FastTick \/ SlowTick \/ PauseHook \/ ResumeHook
  BY <1>1 DEF FastEnds, SlowEnds, RefreshEnds, FastRunEnds, SlowRunEnds, RefreshFastEnds, RefreshSlowEnds,
              FastTick, SlowTick, PauseHook, ResumeHook, pageVars
<1>2. CASE (\E d \in Databases : SelectDatabase(d)) \/ (\E b \in BOOLEAN : ChooseView(b) \/ ClickMenu(b)) \/ GoBack \/ HideOrShow
  BY <1>2 DEF SelectDatabase, ChooseView, ClickMenu, GoBack, HideOrShow
<1>3. CASE ChooseRange \/ ChangePeriod \/ PressRefresh \/ Toggle
  BY <1>3 DEF ChooseRange, ChangePeriod, PressRefresh, Toggle, pageVars
<1>4. CASE OpenPanel \/ (\E h \in Holder : TickRow(h)) \/ ClosePanel \/ ExecKill \/ \E c \in killCalls : KillAnswered(c)
  BY <1>4 DEF OpenPanel, TickRow, ClosePanel, ExecKill, KillAnswered, pageVars
<1> QED
  BY <1>1, <1>2, <1>3, <1>4 DEF Next

\* Every step of the dashboard without its checks.
LEMMA TopStep ==
  ASSUME CardInv, TopInv, TopNext
  PROVE  CardInv' /\ TopInv'
<1>1. CASE watched \in {"engine", "card"} /\ Next /\ UNCHANGED topVars
  <2>1. CardInv' /\ watched' = watched
    BY <1>1, CardStep, FollowsOne
  <2>2. ChartInv /\ TopQuiet /\ sel = None /\ key = None /\ lists.shown # "rows" /\ lists.of = None
        /\ topAsks = {} /\ drawer = NoDrawer /\ drawerAsks = {} /\ chart = NoChart /\ ListTypes
    BY <1>1, PartsOfTop DEF TopQuiet, ListsInv
  <2>3. UNCHANGED <<clock, loads, otherRange, chart>> /\ UNCHANGED listVars
    BY <1>1 DEF topVars, listVars
  <2>4. ListsInv'
    BY <2>2, <2>3, EmptyLists DEF listVars, ListsInv, ListTypes, ListsUnderCaption, ListsOfSelection, ListsAsked, DrawerAsked
  <2>5. ChartInv' /\ TopQuiet'
    BY <2>1, <2>2, <2>3 DEF listVars, ChartInv, ListsFollowChart, WindowAt, TopQuiet
  <2> QED
    BY <2>1, <2>4, <2>5, PartsOfTopNext DEF CardInv
<1>2. CASE watched = "top" /\ (EngineStep \/ UserStep \/ AnswerStep)
  BY <1>2, EngineStepKeeps, ChartSteps, ListSteps DEF EngineStep, UserStep, AnswerStep
<1> QED
  BY <1>1, <1>2 DEF TopNext

-----------------------------------------------------------------------------
(* The card of the periodic checks                                         *)

Items == [db : Databases \cup {None}, items : SUBSET Severity]
DetailType == [card : Databases \cup {None}, item : Severity \cup {None}, of : Databases \cup {None}]
CheckTypes ==
  answer \in Items /\ filter \in Filters /\ cards \in Items /\ detail \in DetailType /\ detailAsks \subseteq Databases

\* The invariant of the card in parts.
LEMMA PartsOfChecks == ChecksInv <=> TopTypeOK /\ CheckTypes /\ ChecksOfDatabase /\ CardsUnderFilter /\ ChecksAsked
BY DEF ChecksInv, ChecksTypeOK, CheckTypes, Items, DetailType

\* Of the next state too.
LEMMA PartsOfChecksNext ==
  ASSUME TopInv', CheckTypes', ChecksOfDatabase', CardsUnderFilter', ChecksAsked'
  PROVE  ChecksInv'
BY DEF ChecksInv, ChecksTypeOK, CheckTypes, Items, DetailType, TopInv, FollowSelection

\* The card before an answer.
LEMMA EmptyChecks ==
  /\ NoItems \in Items /\ NoItems.db = None /\ NoItems.items = {}
  /\ NoDetail \in DetailType /\ NoDetail.item = None /\ NoDetail.of = None
BY DEF NoItems, NoDetail, Items, DetailType

\* The card left alone, of a view that stays chosen or is left.
LEMMA ChecksKept ==
  ASSUME CheckTypes, ChecksOfDatabase, CardsUnderFilter, ChecksAsked, UNCHANGED checkVars, TopInv',
         watched' = watched, active' => active /\ currentDbId' = currentDbId
  PROVE  ChecksInv'
<1>1. UNCHANGED <<answer, filter, cards, detail, detailAsks>>
  BY DEF checkVars
<1>2. CheckTypes' /\ CardsUnderFilter'
  BY <1>1 DEF CheckTypes, CardsUnderFilter
<1>3. ChecksOfDatabase'
  BY <1>1 DEF ChecksOfDatabase
<1>4. ChecksAsked'
  BY <1>1 DEF ChecksAsked
<1> QED
  BY <1>2, <1>3, <1>4, PartsOfChecksNext

\* The card after a reset.
LEMMA ChecksResetStep ==
  ASSUME filter \in Filters, ResetChecks, TopInv'
  PROVE  ChecksInv'
<1>1. answer' = NoItems /\ filter' = filter /\ cards' = NoItems /\ detail' = NoDetail /\ detailAsks' = {}
  BY DEF ResetChecks
<1>2. CheckTypes' /\ ChecksOfDatabase' /\ CardsUnderFilter'
  BY <1>1, EmptyChecks DEF CheckTypes, ChecksOfDatabase, CardsUnderFilter
<1>3. ChecksAsked'
  BY <1>1, EmptyChecks DEF ChecksAsked
<1> QED
  BY <1>2, <1>3, PartsOfChecksNext

\* The engine's steps around the card.
LEMMA ChecksEngineStep ==
  ASSUME CardInv, TopInv, ChecksInv, watched = "checks", ChecksEngine
  PROVE  CardInv' /\ TopInv' /\ ChecksInv'
<1>1. CardInv' /\ TopInv'
  BY EngineStepKeeps DEF ChecksEngine
<1>2. CheckTypes /\ ChecksOfDatabase /\ CardsUnderFilter /\ ChecksAsked
  BY PartsOfChecks
<1>3. CASE ResetChecks
  BY <1>1, <1>2, <1>3, ChecksResetStep DEF CheckTypes
<1>4. CASE /\ \/ (\E d \in loads : ChartFailed(d)) \/ RunSlowTasks \/ ChooseOtherRange
              \/ \E d \in Databases : SelectInstance(d) /\ ~(active /\ dbId # d)
              \/ SwitchView(FALSE)
           /\ UNCHANGED checkVars
  <2>1. watched' = watched
    BY <1>4 DEF ChartFailed, RunSlowTasks, ChooseOtherRange, SelectInstance, SwitchView, pageRest, engineVars
  <2>2. active' => active /\ currentDbId' = currentDbId
    <3>1. CASE (\E d \in loads : ChartFailed(d)) \/ RunSlowTasks \/ ChooseOtherRange
      BY <3>1 DEF ChartFailed, RunSlowTasks, ChooseOtherRange, pageRest
    <3>2. ASSUME NEW d \in Databases, SelectInstance(d), ~(active /\ dbId # d)
          PROVE  active' => active /\ currentDbId' = currentDbId
      <4>1. active => dbId = currentDbId
        BY PartsOfCard
      <4> QED
        BY <3>2, <4>1 DEF SelectInstance
    <3>3. CASE SwitchView(FALSE)
      BY <3>3 DEF SwitchView
    <3> QED
      BY <1>4, <3>1, <3>2, <3>3
  <2> QED
    BY <1>1, <1>2, <1>4, <2>1, <2>2, ChecksKept
<1> QED
  BY <1>3, <1>4 DEF ChecksEngine

\* Only the card of the checks moves.
LEMMA RestStays ==
  ASSUME CardInv, TopInv, UNCHANGED <<vars, topVars>>
  PROVE  /\ CardInv' /\ TopInv' /\ watched' = watched /\ currentDbId' = currentDbId /\ active' = active
<1>1. UNCHANGED pageVars /\ UNCHANGED <<hooks, dbId, auto, killCalls>> /\ UNCHANGED runVars /\ UNCHANGED cardVars
      /\ UNCHANGED topVars
  BY DEF vars
<1>2. EngineTypes /\ CardTypes /\ CardRest /\ StoppedStaysStopped /\ (active => dbId = currentDbId)
  BY PartsOfCard
<1>3. EngineTypes' /\ StoppedStaysStopped' /\ (active' => dbId' = currentDbId')
  BY <1>1, <1>2 DEF EngineTypes, pageVars, runVars, StoppedStaysStopped
<1>4. CardTypes' /\ CardRest'
  BY <1>1, <1>2, KeptCard DEF pageVars
<1>5. CardInv' /\ TypeOK'
  BY <1>3, <1>4, PartsOfCardNext DEF CardInv
<1>6. ListsInv' /\ ChartInv' /\ TopQuiet'
  <2>1. ListsInv /\ ChartInv /\ TopQuiet
    BY PartsOfTop
  <2>2. UNCHANGED listVars /\ UNCHANGED <<clock, loads, otherRange, chart>>
    BY <1>1 DEF topVars, listVars
  <2>3. ListsInv'
    BY <1>1, <2>1, <2>2, ListsKept DEF pageVars
  <2> QED
    BY <1>1, <2>1, <2>2, <2>3 DEF pageVars, listVars, ChartInv, ListsFollowChart, WindowAt, TopQuiet
<1> QED
  BY <1>1, <1>5, <1>6, PartsOfTopNext DEF pageVars

\* An answer of the checks, the filter, and the details of a check in the drawer.
LEMMA ChecksSteps ==
  ASSUME CardInv, TopInv, ChecksInv, watched = "checks",
         \/ \E d \in loads, items \in SUBSET Severity : ChecksLoaded(d, items)
         \/ \E f \in Filters : ChooseFilter(f)
         \/ \E item \in Severity : OpenCheck(item)
         \/ NewWindow \/ CloseDetail
         \/ \E d \in detailAsks, ok \in BOOLEAN : DetailAnswered(d, ok)
  PROVE  CardInv' /\ TopInv' /\ ChecksInv'
<1>1. CheckTypes /\ ChecksOfDatabase /\ CardsUnderFilter /\ ChecksAsked
  BY PartsOfChecks
<1>2. IsVisible => active /\ currentDbId \in Databases
  BY PartsOfCard DEF EngineTypes, IsVisible, Shown
<1>3. answer \in Items /\ filter \in Filters /\ cards \in Items /\ detail \in DetailType /\ detailAsks \subseteq Databases
  BY <1>1 DEF CheckTypes
<1>4. \A data \in Items : \A f :
        /\ [data EXCEPT !.items = {s \in data.items : f \in {"all", s}}] \in Items
        /\ [data EXCEPT !.items = {s \in data.items : f \in {"all", s}}].db = data.db
        /\ [data EXCEPT !.items = {s \in data.items : f \in {"all", s}}].items
             = {s \in data.items : f \in {"all", s}}
  BY DEF Items
<1>5. ASSUME NEW d \in loads, NEW items \in SUBSET Severity, ChecksLoaded(d, items)
      PROVE  CardInv' /\ TopInv' /\ ChecksInv'
  <2>1. /\ loads' = loads \ {d} /\ UNCHANGED pageRest /\ UNCHANGED <<clock, otherRange, chart, listVars>>
        /\ UNCHANGED <<filter, detail, detailAsks>>
    BY <1>5 DEF ChecksLoaded
  <2>2. CardInv' /\ TopInv'
    <3>1. ChartFailed(d)
      BY <2>1 DEF ChartFailed
    <3> QED
      BY <3>1, EngineStepKeeps
  <2>3. watched' = watched /\ currentDbId' = currentDbId /\ active' = active
    BY <2>1 DEF pageRest, engineVars
  <2>4. CASE d # currentDbId \/ ~active
    <3>1. UNCHANGED checkVars
      BY <1>5, <2>1, <2>4 DEF ChecksLoaded, checkVars
    <3> QED
      BY <1>1, <2>2, <2>3, <3>1, ChecksKept
  <2>5. CASE d = currentDbId /\ active
    <3>1. answer' = [db |-> d, items |-> items] /\ RenderCards(answer', filter)
      BY <1>5, <2>5 DEF ChecksLoaded
    <3>2. d \in Databases /\ d # None
      BY NoneAssumption, PartsOfTop DEF ChartInv
    <3>3. answer' \in Items /\ answer'.db = d
      BY <3>1, <3>2 DEF Items
    <3>4. cards' = [answer' EXCEPT !.items = {s \in answer'.items : filter \in {"all", s}}]
      BY <3>1, <3>2, <3>3 DEF RenderCards
    <3>5. cards' \in Items /\ cards'.db = d /\ cards'.items = {s \in answer'.items : filter \in {"all", s}}
      BY <1>4, <3>3, <3>4
    <3>6. CheckTypes' /\ CardsUnderFilter'
      BY <1>3, <2>1, <3>3, <3>5 DEF CheckTypes, CardsUnderFilter
    <3>7. ChecksOfDatabase' /\ ChecksAsked'
      BY <1>1, <2>1, <2>3, <2>5, <3>2, <3>3, <3>5 DEF ChecksOfDatabase, ChecksAsked
    <3> QED
      BY <2>2, <3>6, <3>7, PartsOfChecksNext
  <2> QED
    BY <2>4, <2>5
<1>6. ASSUME NEW f \in Filters, ChooseFilter(f)
      PROVE  CardInv' /\ TopInv' /\ ChecksInv'
  <2>1. filter' = f /\ RenderCards(answer, f) /\ UNCHANGED <<vars, topVars>> /\ UNCHANGED <<answer, detail, detailAsks>>
    BY <1>6 DEF ChooseFilter
  <2>2. /\ CardInv' /\ TopInv' /\ watched' = watched /\ currentDbId' = currentDbId /\ active' = active
    BY <2>1, RestStays
  <2>3. cards' \in Items /\ cards'.db = answer.db /\ cards'.items = {s \in answer.items : f \in {"all", s}}
    <3>1. CASE answer.db = None
      <4>1. cards' = cards
        BY <2>1, <3>1 DEF RenderCards
      <4>2. answer.items = {} /\ cards.items = {} /\ cards.db = answer.db
        BY <1>1, <3>1 DEF ChecksAsked, CardsUnderFilter
      <4> QED
        BY <1>3, <4>1, <4>2
    <3>2. CASE answer.db # None
      <4>1. cards' = [answer EXCEPT !.items = {s \in answer.items : f \in {"all", s}}]
        BY <2>1, <3>2 DEF RenderCards
      <4> QED
        BY <1>3, <1>4, <4>1
    <3> QED
      BY <3>1, <3>2
  <2>4. CheckTypes' /\ CardsUnderFilter'
    BY <1>3, <2>1, <2>3 DEF CheckTypes, CardsUnderFilter
  <2>5. ChecksOfDatabase'
    BY <1>1, <2>1, <2>2, <2>3 DEF ChecksOfDatabase, ChecksAsked
  <2>6. ChecksAsked'
    BY <1>1, <2>1, <2>2, <2>3 DEF ChecksAsked
  <2> QED
    BY <2>2, <2>4, <2>5, <2>6, PartsOfChecksNext
<1>7. ASSUME NEW item \in Severity, AskDetail(currentDbId, item), active, currentDbId \in Databases
      PROVE  CardInv' /\ TopInv' /\ ChecksInv'
  <2>1. /\ detail' = [card |-> currentDbId, item |-> item, of |-> None] /\ detailAsks' = {currentDbId}
        /\ UNCHANGED <<vars, topVars>> /\ UNCHANGED <<answer, filter, cards>>
    BY <1>7 DEF AskDetail
  <2>2. /\ CardInv' /\ TopInv' /\ watched' = watched /\ currentDbId' = currentDbId /\ active' = active
    BY <2>1, RestStays
  <2>3. CheckTypes'
    BY <1>3, <1>7, <2>1 DEF CheckTypes, DetailType
  <2>4. CardsUnderFilter' /\ ChecksOfDatabase'
    BY <1>1, <2>1, <2>2 DEF CardsUnderFilter, ChecksOfDatabase
  <2>5. item # None /\ currentDbId # None
    BY <1>7, SeverityAssumption, NoneAssumption
  <2>6. ChecksAsked'
    BY <1>1, <2>1, <2>2, <2>5 DEF ChecksAsked
  <2> QED
    BY <2>2, <2>3, <2>4, <2>6, PartsOfChecksNext
<1>8. ASSUME NEW item \in Severity, OpenCheck(item)
      PROVE  CardInv' /\ TopInv' /\ ChecksInv'
  <2>1. IsVisible /\ item \in cards.items /\ AskDetail(cards.db, item)
    BY <1>8 DEF OpenCheck
  <2>2. cards.db = currentDbId
    BY <1>1, <1>2, <2>1 DEF CardsUnderFilter, ChecksOfDatabase, ChecksAsked
  <2> QED
    BY <1>2, <1>7, <2>1, <2>2
<1>9. CASE NewWindow
  <2>1. active /\ detail.item # None /\ AskDetail(detail.card, detail.item)
    BY <1>9 DEF NewWindow
  <2>2. detail.card = currentDbId /\ currentDbId # None /\ currentDbId \in Databases /\ detail.item \in Severity
    BY <1>1, <1>3, <2>1 DEF ChecksAsked, DetailType
  <2> QED
    BY <1>7, <2>1, <2>2
<1>10. CASE CloseDetail
  <2>1. /\ detail' = NoDetail /\ detailAsks' = {}
        /\ UNCHANGED <<vars, topVars>> /\ UNCHANGED <<answer, filter, cards>>
    BY <1>10 DEF CloseDetail
  <2>2. /\ CardInv' /\ TopInv' /\ watched' = watched /\ currentDbId' = currentDbId /\ active' = active
    BY <2>1, RestStays
  <2>3. CheckTypes' /\ CardsUnderFilter' /\ ChecksOfDatabase'
    BY <1>1, <1>3, <2>1, <2>2, EmptyChecks DEF CheckTypes, CardsUnderFilter, ChecksOfDatabase
  <2>4. ChecksAsked'
    BY <1>1, <2>1, <2>2, EmptyChecks DEF ChecksAsked
  <2> QED
    BY <2>2, <2>3, <2>4, PartsOfChecksNext
<1>11. ASSUME NEW d \in detailAsks, NEW ok \in BOOLEAN, DetailAnswered(d, ok)
       PROVE  CardInv' /\ TopInv' /\ ChecksInv'
  <2>1. /\ detailAsks' = detailAsks \ {d} /\ detail' = IF ok THEN [detail EXCEPT !.of = d] ELSE detail
        /\ UNCHANGED <<vars, topVars>> /\ UNCHANGED <<answer, filter, cards>>
    BY <1>11 DEF DetailAnswered
  <2>2. /\ CardInv' /\ TopInv' /\ watched' = watched /\ currentDbId' = currentDbId /\ active' = active
    BY <2>1, RestStays
  <2>3. /\ detail' \in DetailType /\ detail'.item = detail.item /\ detail'.card = detail.card
        /\ detail'.of \in {detail.of, d}
    <3>1. CASE ok
      BY <1>3, <2>1, <3>1 DEF DetailType
    <3>2. CASE ~ok
      BY <1>3, <2>1, <3>2
    <3> QED
      BY <3>1, <3>2
  <2>4. CheckTypes' /\ CardsUnderFilter'
    BY <1>1, <1>3, <2>1, <2>3 DEF CheckTypes, CardsUnderFilter
  <2>5. active => d = currentDbId /\ detail.item # None /\ detail.card = currentDbId /\ detailAsks' = {}
    BY <1>1, <2>1 DEF ChecksAsked
  <2>6. ChecksOfDatabase'
    BY <1>1, <2>1, <2>2, <2>3, <2>5 DEF ChecksOfDatabase
  <2>7. ChecksAsked'
    BY <1>1, <2>1, <2>2, <2>3, <2>5 DEF ChecksAsked
  <2> QED
    BY <2>2, <2>4, <2>6, <2>7, PartsOfChecksNext
<1> QED
  BY <1>5, <1>6, <1>8, <1>9, <1>10, <1>11

-----------------------------------------------------------------------------
(* The dashboard as a whole                                                *)

DashboardInv == CardInv /\ TopInv /\ ChecksInv

\* At the start.
LEMMA DashboardInit ==
  ASSUME ChecksInit
  PROVE  DashboardInv /\ SomebodyAsksAgain
<1>1. CardInv /\ TopInv
  BY TopInitInv DEF ChecksInit
<1>2. answer = NoItems /\ filter = "all" /\ cards = NoItems /\ detail = NoDetail /\ detailAsks = {}
  BY DEF ChecksInit
<1>3. CheckTypes /\ ChecksOfDatabase /\ CardsUnderFilter
  BY <1>2, EmptyChecks DEF CheckTypes, ChecksOfDatabase, CardsUnderFilter, Filters
<1>4. ChecksAsked
  BY <1>2, EmptyChecks DEF ChecksAsked
<1>5. SomebodyAsksAgain
  BY DEF SomebodyAsksAgain, IsVisible, Shown, ChecksInit, TopInit, Init
<1> QED
  BY <1>1, <1>3, <1>4, <1>5, PartsOfChecks DEF DashboardInv, TopInv, FollowSelection

\* Every step keeps the invariant.
LEMMA DashboardStep ==
  ASSUME DashboardInv, [ChecksNext]_<<vars, topVars, checkVars>>
  PROVE  DashboardInv'
<1>0. CardInv /\ TopInv /\ ChecksInv
  BY DEF DashboardInv
<1>1. CheckTypes /\ ChecksOfDatabase /\ CardsUnderFilter /\ ChecksAsked
  BY <1>0, PartsOfChecks
<1>2. CASE watched # "checks" /\ TopNext /\ UNCHANGED checkVars
  <2>1. CardInv' /\ TopInv'
    BY <1>0, <1>2, TopStep
  <2>2. watched' = watched
    <3>1. CASE Next
      BY <3>1, FollowsOne
    <3>2. CASE EngineStep
      BY <3>2 DEF EngineStep, ChartFailed, ChartLoaded, RunSlowTasks, ChooseOtherRange, RefreshTop, SelectInstance,
                  SwitchView, pageRest, engineVars
    <3>3. CASE UserStep \/ AnswerStep
      BY <3>3 DEF UserStep, AnswerStep, Drag, SelectWindow, ClearSelection, Retry, OpenDrawer, PushDrawer, Back,
                  CloseDrawer, TopAnswered, DrawerAnswered, Pass, pageRest, engineVars
    <3> QED
      BY <1>2, <3>1, <3>2, <3>3 DEF TopNext
  <2>3. UNCHANGED <<answer, filter, cards, detail, detailAsks>>
    BY <1>2 DEF checkVars
  <2>4. answer = NoItems /\ cards = NoItems /\ detail = NoDetail /\ detailAsks = {}
    BY <1>1, <1>2 DEF ChecksAsked
  <2>5. CheckTypes' /\ CardsUnderFilter'
    BY <1>1, <2>3 DEF CheckTypes, CardsUnderFilter
  <2>6. ChecksOfDatabase' /\ ChecksAsked'
    BY <2>2, <2>3, <2>4, EmptyChecks DEF ChecksOfDatabase, ChecksAsked
  <2> QED
    BY <2>1, <2>5, <2>6, PartsOfChecksNext DEF DashboardInv
<1>3. CASE UNCHANGED <<vars, topVars, checkVars>>
  <2>1. CardInv' /\ TopInv' /\ watched' = watched /\ currentDbId' = currentDbId /\ active' = active
    BY <1>0, <1>3, RestStays
  <2> QED
    BY <1>1, <1>3, <2>1, ChecksKept DEF DashboardInv
<1> QED
  BY <1>0, <1>2, <1>3, ChecksEngineStep, ChecksSteps DEF ChecksNext, DashboardInv

\* Every step leaves somebody who asks again, unless the browser brings the view back.
LEMMA AsksAgainStep ==
  ASSUME ~ReturnsByHash, DashboardInv, SomebodyAsksAgain, [ChecksNext]_<<vars, topVars, checkVars>>
  PROVE  SomebodyAsksAgain'
<1>1. CASE watched \in {"engine", "card"} /\ Next
  BY <1>1, SomebodyStep DEF DashboardInv
<1>2. CASE UNCHANGED vars
  BY <1>2, NobodyTaken DEF vars
<1>3. CASE UNCHANGED engineVars /\ watched \notin {"engine", "card"}
  BY <1>3 DEF SomebodyAsksAgain, engineVars
<1>4. CASE watched \in {"top", "checks"} /\ ~(UNCHANGED vars)
  <2>1. CASE EngineStep \/ UserStep \/ AnswerStep
    <3>1. UNCHANGED engineVars
      <4>1. CASE EngineStep
        BY <4>1 DEF EngineStep, ChartFailed, ChartLoaded, RunSlowTasks, ChooseOtherRange, RefreshTop, SelectInstance,
                    SwitchView, pageRest
      <4>2. CASE UserStep \/ AnswerStep
        BY <4>2 DEF UserStep, AnswerStep, Drag, SelectWindow, ClearSelection, Retry, OpenDrawer, PushDrawer, Back,
                    CloseDrawer, TopAnswered, DrawerAnswered, Pass, pageRest
      <4> QED
        BY <2>1, <4>1, <4>2
    <3> QED
      BY <1>3, <1>4, <3>1
  <2>2. CASE ChecksEngine \/ \E d \in loads, items \in SUBSET Severity : ChecksLoaded(d, items)
    <3>1. UNCHANGED engineVars
      BY <2>2 DEF ChecksEngine, ChartFailed, RunSlowTasks, ChooseOtherRange, SelectInstance, SwitchView, ChecksLoaded,
                  pageRest
    <3> QED
      BY <1>3, <1>4, <3>1
  <2> QED
    BY <1>4, <2>1, <2>2 DEF ChecksNext, TopNext, ChooseFilter, OpenCheck, NewWindow, AskDetail, CloseDetail, DetailAnswered
<1>5. watched \in {"engine", "card", "top", "checks"}
  BY PartsOfCard DEF DashboardInv, EngineTypes
<1>6. CASE watched \in {"engine", "card"} /\ TopNext
  BY <1>1, <1>6 DEF TopNext
<1> QED
  BY <1>2, <1>4, <1>5, <1>6 DEF ChecksNext

\* However late the answers come and however often the database, the view and the filter
\* change: both cards are of the chosen database, and nobody is ticked for a kill whom the
\* operator was not shown ticked or ticked himself.
THEOREM CardsAreOfDatabase == ChecksSpec => []CardsOfDatabase
<1>1. ChecksInit => DashboardInv
  BY DashboardInit
<1>2. DashboardInv /\ [ChecksNext]_<<vars, topVars, checkVars>> => DashboardInv'
  BY DashboardStep
<1>3. DashboardInv => CardsOfDatabase
  BY DEF DashboardInv, CardInv, ChecksInv, CardsOfDatabase
<1> QED
  BY <1>1, <1>2, <1>3, PTL DEF ChecksSpec

\* Chart, lists and drawer tell of the selected window and of the chosen database.
THEOREM SelectionIsFollowed == ChecksSpec => []FollowSelection
<1>1. ChecksInit => DashboardInv
  BY DashboardInit
<1>2. DashboardInv /\ [ChecksNext]_<<vars, topVars, checkVars>> => DashboardInv'
  BY DashboardStep
<1>3. DashboardInv => FollowSelection
  BY DEF DashboardInv, TopInv
<1> QED
  BY <1>1, <1>2, <1>3, PTL DEF ChecksSpec

\* Nobody polls while the refresh is stopped, and while it is on and the card is visible
\* somebody will ask again, unless the Back button brings the dashboard back.
THEOREM LoopsRunAsWanted ==
  ASSUME ~ReturnsByHash
  PROVE  ChecksSpec => []LoopsAsWanted
<1>1. ChecksInit => DashboardInv /\ SomebodyAsksAgain
  BY DashboardInit
<1>2. /\ DashboardInv /\ SomebodyAsksAgain /\ [ChecksNext]_<<vars, topVars, checkVars>>
      => DashboardInv' /\ SomebodyAsksAgain'
  BY DashboardStep, AsksAgainStep
<1>3. DashboardInv /\ SomebodyAsksAgain => LoopsAsWanted
  BY DEF DashboardInv, CardInv, LoopsAsWanted
<1> QED
  BY <1>1, <1>2, <1>3, PTL DEF ChecksSpec
=============================================================================
