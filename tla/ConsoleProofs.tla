---------------------------- MODULE ConsoleProofs ----------------------------
(* Proofs about the console page with its panels (MonitorPanels), the       *)
(* performance analysis (PerfAnalysis) and the page around them             *)
(* (ConsolePage), for any instances, sessions, accounts, rights and menus   *)
(* and every bound on what is on its way.                                   *)
EXTENDS ConsolePage, FiniteSetTheorems, SequenceTheorems, WellFoundedInduction, TLAPS

-----------------------------------------------------------------------------
(* The inductive invariants                                                *)

\* The tablespace menu: only the newest request is one of the database it is in flight for,
\* and while its menu is shown that is the chosen one.
TsTypes ==
  /\ tsReqs \subseteq [db : Databases, latest : BOOLEAN]
  /\ tsRows \in Databases \cup {"blank", "choose", "error"}
  /\ tsOverlay \in BOOLEAN /\ tsSpinning \in BOOLEAN /\ tsInFlight \in Databases \cup {None}
TsInv ==
  /\ TsTypes /\ (tsSpinning => tsOverlay)
  /\ \A r \in tsReqs : r.latest => r.db = tsInFlight
  /\ section = "tablespace" /\ currentDbId # None =>
       IF tsOverlay THEN tsInFlight = currentDbId ELSE tsRows \in {"choose", "error", currentDbId}

\* The lock tree: unless another database was chosen or listed with rows on the screen, they
\* are of the chosen one, and so are the ticks.
RowsOfChosen ==
  ~tmAstray /\ currentDbId # None /\ tmRows # {} =>
    tmOf = currentDbId /\ \A s \in tmTicked : <<currentDbId, s>> \in tmApproved
\* Who is ticked was ticked by the user: a session that took over a SID is not, although
\* its row stands in the same place.
TickedByUser == tmTicked \subseteq {a[2] : a \in tmApproved}
ListInv ==
  /\ tmRows \subseteq Session /\ tmTicked \subseteq tmRows
  /\ tmOf \in Databases \cup {None} /\ (tmRows # {} => tmOf \in Databases)
  /\ tmApproved \subseteq Databases \X Session /\ tmAstray \in BOOLEAN
  /\ TickedByUser /\ RowsOfChosen
LoopInv ==
  /\ tmAuto \in BOOLEAN /\ tmSpinning \in BOOLEAN /\ tmTimers \in 0..MaxTimers
  /\ tmAsked \in [Databases \X BOOLEAN -> 0..MaxAsked]
TmInv == LoopInv /\ ListInv /\ tmKills \subseteq LockKill

\* The overview: one round of a database is open, if it is in flight.
OpenRounds == {r \in rounds : r.open}
RoundsInv ==
  /\ rounds \subseteq Round /\ inFlight = {r.db : r \in OpenRounds}
  /\ \A r, s \in OpenRounds : r.db = s.db => r = s
\* Unless another database was chosen, or answered late, since the button is there, it is
\* the chosen one's alarm that offers it.
LabelInv ==
  /\ view \in {"v2", "nd"} /\ painted \in [Widget -> Databases \cup {None}] /\ label \in Databases \cup {None}
  /\ killOffered \in BOOLEAN /\ alarmAstray \in BOOLEAN /\ hook \in BOOLEAN
  /\ killOffered /\ ~alarmAstray /\ currentDbId # None => painted["gate"] = currentDbId
IncidentsHit == \A i \in incidents : HitsAlarm(i)
IncidentInv ==
  incidents \subseteq Incident /\ IncidentsHit /\ \A i \in incidents : i.astray \/ i.db = i.alarm

MenuTypes == currentDbId \in Databases \cup {None} /\ section \in Section /\ lucide \in BOOLEAN
PanelInv == MenuTypes /\ TsInv /\ TmInv /\ RoundsInv /\ LabelInv /\ IncidentInv

\* The analysis: events that will be drawn are of the heading, and a search that is on its
\* way is the newest; before a database was searched there are only questions for clocks.
AsksInv ==
  \A a \in pfAsks :
    /\ a.kind = "search" => a.drawn /\ a.range # None
    /\ a.kind = "now" => ~a.awaited
    /\ a.kind = "events" /\ a.drawn => pfHead = [range |-> a.range, sel |-> a.sel]
NothingSearched == pfDb = None => pfRange = None /\ \A a \in pfAsks : a.kind = "now"
PerfInv == PerfTypeOK /\ EventsUnderHeading /\ OverlayAwaits /\ AsksInv /\ NothingSearched

\* The page behind the login: what was told is what was said, what is offered is open to
\* the account, and before the check has passed there is nothing.
Behind ==
  IF check = "passed"
  THEN /\ said # None /\ told.rights = said
       /\ config \in {"asked", "failed", "built"}
  ELSE config = "none"
Offered ==
  IF config = "built"
  THEN /\ links = Accessible(told.rights) \cap Databases
       /\ links = {} => noteLink = First(Accessible(told.rights) \cap Rdb)
  ELSE links = {} /\ noteLink = None
AccessInv == watched = "access" => Behind /\ Offered
\* A part that is followed alone has a page that offers every instance.
OtherInv ==
  watched # "access" =>
    /\ check = "passed" /\ button = "hidden" /\ config = "built" /\ links = Databases
    /\ ~landing /\ autoSelect = None /\ note = "none" /\ noteLink = None /\ page = "index"
    /\ told.rights = NoRights
PageTypes ==
  /\ watched \in Part
  /\ registered \in Registrations /\ server \in [Account -> Profiles] /\ valid \in BOOLEAN
  /\ told \in [token : Account \cup {None}, rights : Profile] /\ said \in Profiles \cup {None}
  /\ page \in {"index", "fleet"} \cup Rdb /\ jump \in Databases \cup Rdb \cup Gone \cup {None}
  /\ check \in {"asked", "passed", "refused"} /\ landing \in BOOLEAN
  /\ button \in {"asked", "hidden", "empty"} \cup Rdb
  /\ config \in {"none", "asked", "failed", "built"} /\ links \subseteq Databases
  /\ autoSelect \in links \cup {None} /\ currentDbId \in links \cup {None}
  /\ note \in {"none", "forbidden", "unregistered"} /\ noteLink \in Rdb \cup {None}
PageInv ==
  /\ PageTypes /\ SaysWhatIs /\ (check = "asked" => told.token # None)
  /\ AccessInv /\ OtherInv

\* The editor: the boxes without a tick are those the administrator means, as far as there
\* are boxes; those of the instances come with their list.
AccountTypes ==
  /\ acct \subseteq Id /\ popup \in {"closed", "oracle", "rdb"}
  /\ dbList \in {"asked", "failed", "loaded"}
  /\ known = None \/ known \subseteq Id
  /\ edit = None \/ edit \in [base : SUBSET Id, rows : SUBSET Id, unticked : SUBSET Id, meant : SUBSET Id]
  /\ saves \subseteq SUBSET Id
EditInv ==
  edit # None =>
    /\ edit.unticked = edit.rows \cap edit.meant
    /\ edit.meant \cap Menu \subseteq edit.rows
    /\ IF dbList = "loaded" THEN edit.meant \subseteq edit.rows
       ELSE edit.rows \subseteq Menu /\ edit.meant \ Menu = edit.base \ Menu
AccountInv == AccountTypes /\ EditInv

ConsoleInv == PanelInv /\ PerfInv /\ PageInv /\ AccountInv

-----------------------------------------------------------------------------
(* The tablespace menu                                                     *)

\* Where no tablespace request, database or menu changes, everything stays as it was.
LEMMA TsKept ==
  ASSUME TsInv, UNCHANGED tsVars,
         section' = "tablespace" /\ currentDbId' # None => section = section' /\ currentDbId = currentDbId'
  PROVE  TsInv'
BY DEF TsInv, TsTypes, tsVars

\* Opened or refreshed, the menu asks for the database chosen, or waits for it already.
LEMMA TsAsked ==
  ASSUME TsInv, NEW d \in Databases \cup {None}, currentDbId' = d,
         AskTablespaces(d) \/ OpenTablespaces(d)
  PROVE  TsInv'
<1>1. CASE d = None /\ AskTablespaces(d)
  <2>1. tsRows' = "choose" /\ UNCHANGED <<tsReqs, tsOverlay, tsSpinning, tsInFlight>>
    BY <1>1 DEF AskTablespaces
  <2> QED
    BY <2>1, <1>1 DEF TsInv, TsTypes
<1>2. CASE d # None /\ AskTablespaces(d)
  <2>1. /\ tsReqs' = {[r EXCEPT !.latest = FALSE] : r \in tsReqs} \cup {[db |-> d, latest |-> TRUE]}
        /\ tsRows' = "blank" /\ tsInFlight' = d /\ tsOverlay' = TRUE /\ tsSpinning' = ~lucide
    BY <1>2 DEF AskTablespaces
  <2>2. tsReqs' \subseteq [db : Databases, latest : BOOLEAN] /\ \A r \in tsReqs' : r.latest => r.db = d
    <3> DEFINE old(r) == [r EXCEPT !.latest = FALSE]
    <3>1. \A r \in tsReqs : old(r) \in [db : Databases, latest : BOOLEAN] /\ ~old(r).latest
      BY DEF TsInv, TsTypes
    <3>2. tsReqs' = {old(r) : r \in tsReqs} \cup {[db |-> d, latest |-> TRUE]}
      BY <2>1
    <3> HIDE DEF old
    <3>3. ASSUME NEW r \in tsReqs'
          PROVE  r \in [db : Databases, latest : BOOLEAN] /\ (r.latest => r.db = d)
      <4>1. CASE r = [db |-> d, latest |-> TRUE]
        BY <1>2, <4>1
      <4>2. CASE r \in {old(s) : s \in tsReqs}
        BY <3>1, <4>2
      <4> QED
        BY <3>2, <4>1, <4>2
    <3> QED
      BY <3>3
  <2>3. tsSpinning' \in BOOLEAN
    BY <2>1
  <2> QED
    BY <2>1, <2>2, <2>3, <1>2 DEF TsInv, TsTypes
<1>3. CASE UNCHANGED tsVars /\ SkipsOpening(d)
  BY <1>3 DEF TsInv, TsTypes, tsVars, SkipsOpening
<1> QED
  BY <1>1, <1>2, <1>3 DEF OpenTablespaces

\* An answer.
LEMMA TsStep ==
  ASSUME TsInv, NEW r, NEW ok \in BOOLEAN, TablespacesAnswered(r, ok)
  PROVE  TsInv'
<1>1. /\ r \in tsReqs /\ tsReqs' = tsReqs \ {r} /\ section' = section /\ currentDbId' = currentDbId
      /\ r.db \in Databases /\ r.latest \in BOOLEAN
  BY DEF TablespacesAnswered, menuVars, TsInv, TsTypes
<1>2. CASE ~r.latest
  BY <1>1, <1>2 DEF TablespacesAnswered, TsInv, TsTypes
<1>3. CASE r.latest
  <2>1. /\ tsOverlay' = FALSE /\ tsSpinning' = FALSE /\ tsInFlight' = None
        /\ tsRows' = IF r.db # currentDbId THEN tsRows ELSE IF ok THEN r.db ELSE "error"
    BY <1>1, <1>3 DEF TablespacesAnswered
  <2>2. r.db = tsInFlight /\ \A s \in tsReqs' : ~s.latest
    BY <1>1, <1>3 DEF TsInv, TsTypes
  <2>3. section = "tablespace" /\ currentDbId # None => tsRows' \in {"choose", "error", currentDbId}
    BY <2>1, <2>2 DEF TsInv
  <2>4. tsReqs' \subseteq [db : Databases, latest : BOOLEAN]
    BY <1>1 DEF TsInv, TsTypes
  <2>5. tsRows' \in Databases \cup {"blank", "choose", "error"}
    BY <1>1, <2>1 DEF TsInv, TsTypes
  <2> QED
    BY <1>1, <2>1, <2>2, <2>3, <2>4, <2>5 DEF TsInv, TsTypes
<1> QED
  BY <1>1, <1>2, <1>3

-----------------------------------------------------------------------------
(* The lock tree                                                           *)

\* Where no request, list, tick or timer of the lock tree changes.
LEMMA ListKept ==
  ASSUME ListInv, UNCHANGED <<tmListed, tmAstray>>, currentDbId' \in {currentDbId, None}
  PROVE  ListInv'
BY DEF ListInv, TickedByUser, RowsOfChosen, tmListed
LEMMA TmKept ==
  ASSUME TmInv, UNCHANGED tmVars, currentDbId' \in {currentDbId, None}
  PROVE  TmInv'
BY ListKept DEF TmInv, LoopInv, tmVars

\* What a request more leaves of the counters, within the bound.
LEMMA TmAsking ==
  ASSUME LoopInv, PanelsBounded, NEW d \in Databases, NEW loop \in BOOLEAN, NEW n \in {1, 2}, AskLocks(n, d, loop)
  PROVE  tmAsked' \in [Databases \X BOOLEAN -> 0..MaxAsked]
<1>1. MaxAsked \in Nat
  BY BoundAssumption
<1>2. \A q \in Databases \X BOOLEAN : tmAsked[q] \in Nat
  BY DEF LoopInv
<1>3. tmAsked' \in [Databases \X BOOLEAN -> Nat]
  BY <1>2 DEF AskLocks, LoopInv
<1>4. \A q \in Databases \X BOOLEAN : tmAsked'[q] <= MaxAsked
  BY <1>3 DEF PanelsBounded
<1> QED
  BY <1>1, <1>3, <1>4

\* One request less, one timer more or less.
LEMMA TmOver ==
  ASSUME LoopInv, NEW q \in Databases \X BOOLEAN, tmAsked[q] > 0, tmAsked' = [tmAsked EXCEPT ![q] = @ - 1]
  PROVE  tmAsked' \in [Databases \X BOOLEAN -> 0..MaxAsked]
<1>1. tmAsked[q] \in 0..MaxAsked /\ MaxAsked \in Nat
  BY BoundAssumption DEF LoopInv
<1>2. tmAsked[q] - 1 \in 0..MaxAsked
  BY <1>1
<1> QED
  BY <1>2 DEF LoopInv

\* A timer more, within the bound, or one less.
LEMMA TmTimer ==
  ASSUME LoopInv, PanelsBounded, tmTimers' \in {tmTimers, tmTimers + 1, NextTimer(tmTimers)}
                                 \/ (tmTimers > 0 /\ tmTimers' = tmTimers - 1)
  PROVE  tmTimers' \in 0..MaxTimers
<1>1. tmTimers \in Nat /\ MaxTimers \in Nat /\ tmTimers' <= MaxTimers
  BY BoundAssumption DEF LoopInv, PanelsBounded
<1> QED
  BY <1>1 DEF NextTimer

\* The list is asked for, by opening its menu or by the refresh button.
LEMMA TmFetched ==
  ASSUME LoopInv, PanelsBounded, NEW d \in Databases \cup {None}, NEW n \in {1, 2}, FetchLocks(n, d),
         lucide \in BOOLEAN, UNCHANGED <<tmAuto, tmTimers>>
  PROVE  LoopInv'
<1>1. CASE TmAsks("tmlock", d)
  <2>1. d \in Databases /\ AskLocks(n, d, FALSE) /\ tmSpinning' = ~lucide
    BY <1>1 DEF TmAsks, FetchLocks
  <2> QED
    BY <2>1, TmAsking DEF LoopInv
<1>2. CASE ~TmAsks("tmlock", d)
  BY <1>2 DEF FetchLocks, LoopInv
<1> QED
  BY <1>1, <1>2

\* The loop asks.
LEMMA TmLooped ==
  ASSUME LoopInv, PanelsBounded, MenuTypes, TmAsks(section, currentDbId), AskLocks(1, currentDbId, TRUE)
  PROVE  tmAsked' \in [Databases \X BOOLEAN -> 0..MaxAsked]
<1>1. currentDbId \in Databases
  BY DEF TmAsks, MenuTypes
<1> QED
  BY <1>1, TmAsking

\* The loop, the answers, the buttons and the boxes.  A KILL names who is ticked, where
\* they were ticked.
KillsAreTicked ==
  \A k \in tmKills' \ tmKills :
    /\ k.sessions \subseteq {a[2] : a \in tmApproved}
    /\ tmAstray \/ \A s \in k.sessions : <<k.to, s>> \in tmApproved
LEMMA TmStep ==
  ASSUME TmInv, MenuTypes, PanelsBounded, LocksNext, currentDbId' = currentDbId
  PROVE  TmInv' /\ KillsAreTicked
<1>0. LoopInv /\ ListInv /\ tmKills \subseteq LockKill
  BY DEF TmInv
<1>1. CASE LoopTick
  <2>1. tmAuto' = tmAuto /\ UNCHANGED <<tmListed, tmAstray, tmKills>> /\ tmTimers > 0
    BY <1>1 DEF LoopTick
  <2>2. tmTimers' \in 0..MaxTimers
    BY <1>0, <1>1, <2>1, TmTimer DEF LoopTick
  <2>3. tmAsked' \in [Databases \X BOOLEAN -> 0..MaxAsked] /\ tmSpinning' \in BOOLEAN
    <3>1. CASE tmAuto /\ TmAsks(section, currentDbId)
      <4>1. AskLocks(1, currentDbId, TRUE) /\ tmSpinning' = ~lucide
        BY <1>1, <3>1 DEF LoopTick
      <4> QED
        BY <1>0, <3>1, <4>1, TmLooped DEF MenuTypes
    <3>2. CASE ~(tmAuto /\ TmAsks(section, currentDbId))
      BY <1>0, <1>1, <3>2 DEF LoopTick, LoopInv
    <3> QED
      BY <3>1, <3>2
  <2>4. LoopInv'
    BY <1>0, <2>1, <2>2, <2>3 DEF LoopInv
  <2> QED
    BY <1>0, <2>1, <2>4, ListKept DEF TmInv, KillsAreTicked
<1>2. ASSUME NEW loop \in BOOLEAN, TmAnswers(loop)
      PROVE  TmInv' /\ KillsAreTicked
  <2>1. PICK d \in Databases, ok \in BOOLEAN, rows \in SUBSET Session : LocksAnswered(d, loop, ok, rows)
    BY <1>2 DEF TmAnswers, Listable
  <2>2. tmAsked' \in [Databases \X BOOLEAN -> 0..MaxAsked]
    <3>1. <<d, loop>> \in Databases \X BOOLEAN
      OBVIOUS
    <3> QED
      BY <1>0, <2>1, <3>1, TmOver DEF LocksAnswered
  <2>3. tmTimers' \in 0..MaxTimers
    BY <1>0, <2>1, TmTimer DEF LocksAnswered
  <2>4. /\ tmRows' = rows /\ tmOf' = (IF rows = {} THEN None ELSE d) /\ tmTicked' = tmTicked \cap rows
        /\ tmApproved' = {a \in tmApproved : a[2] \in rows}
        /\ tmAstray' = (rows # {} /\ (d # currentDbId \/ (tmAstray /\ tmTicked' # {})))
        /\ tmSpinning' \in BOOLEAN /\ tmAuto' = tmAuto /\ tmKills' = tmKills
    BY <1>0, <2>1 DEF LocksAnswered, TickedAgain, LoopInv
  <2>5. LoopInv'
    BY <1>0, <2>2, <2>3, <2>4 DEF LoopInv
  <2>6. \A s \in tmTicked : s \in rows => \A a \in tmApproved : a[2] = s => a \in tmApproved'
    BY <2>4
  <2>7. TickedByUser'
    BY <1>0, <2>4, <2>6 DEF ListInv, TickedByUser
  <2>8. RowsOfChosen'
    <3> SUFFICES ASSUME ~tmAstray', rows # {}
                 PROVE  tmOf' = currentDbId /\ \A s \in tmTicked' : <<currentDbId, s>> \in tmApproved'
      BY <2>4 DEF RowsOfChosen
    <3>1. d = currentDbId /\ tmOf' = d /\ (tmTicked' = {} \/ ~tmAstray)
      BY <1>0, <2>4 DEF ListInv
    <3>2. ASSUME NEW s \in tmTicked'
          PROVE  <<currentDbId, s>> \in tmApproved'
      <4>1. s \in tmTicked /\ s \in rows /\ s \in tmRows /\ ~tmAstray /\ currentDbId # None
        BY <1>0, <2>4, <3>1, <3>2, NoneAssumption DEF ListInv
      <4>2. <<currentDbId, s>> \in tmApproved
        BY <1>0, <4>1 DEF ListInv, RowsOfChosen
      <4> QED
        BY <2>6, <4>1, <4>2
    <3> QED
      BY <3>1, <3>2
  <2>9. ListInv'
    BY <1>0, <2>4, <2>7, <2>8 DEF ListInv
  <2> QED
    BY <1>0, <2>4, <2>5, <2>9 DEF TmInv, KillsAreTicked
<1>3. CASE RefreshLocks
  <2>1. FetchLocks(1, currentDbId) /\ UNCHANGED <<tmAuto, tmTimers, tmListed, tmAstray, tmKills>>
    BY <1>3 DEF RefreshLocks
  <2>2. LoopInv'
    BY <1>0, <2>1, TmFetched DEF MenuTypes
  <2> QED
    BY <1>0, <2>1, <2>2, ListKept DEF TmInv, KillsAreTicked
<1>4. CASE ToggleLocks
  <2>1. tmAuto' = ~tmAuto /\ UNCHANGED <<tmListed, tmAstray, tmKills>>
    BY <1>4 DEF ToggleLocks
  <2>2. tmTimers' \in 0..MaxTimers
    <3>1. tmTimers \in 0..MaxTimers /\ MaxTimers \in Nat
      BY <1>0, BoundAssumption DEF LoopInv
    <3>2. CASE tmAuto
      BY <1>4, <3>1, <3>2 DEF ToggleLocks, TimersCleared
    <3>3. CASE ~tmAuto
      <4>1. tmTimers' \in {tmTimers, tmTimers + 1}
        BY <1>4, <3>3 DEF ToggleLocks
      <4> QED
        BY <1>0, <4>1, TmTimer
    <3> QED
      BY <3>2, <3>3
  <2>3. tmAsked' \in [Databases \X BOOLEAN -> 0..MaxAsked] /\ tmSpinning' \in BOOLEAN
    <3>1. CASE ~tmAuto /\ TmAsks(section, currentDbId)
      <4>1. AskLocks(1, currentDbId, TRUE) /\ tmSpinning' = ~lucide
        BY <1>4, <3>1 DEF ToggleLocks
      <4> QED
        BY <1>0, <3>1, <4>1, TmLooped DEF MenuTypes
    <3>2. CASE ~(~tmAuto /\ TmAsks(section, currentDbId))
      BY <1>0, <1>4, <3>2 DEF ToggleLocks, LoopInv
    <3> QED
      BY <3>1, <3>2
  <2>4. LoopInv'
    BY <1>0, <2>1, <2>2, <2>3 DEF LoopInv
  <2> QED
    BY <1>0, <2>1, <2>4, ListKept DEF TmInv, KillsAreTicked
<1>5. ASSUME NEW ticked \in SUBSET tmRows, TickLocks(ticked)
      PROVE  TmInv' /\ KillsAreTicked
  <2>1. /\ tmTicked' = ticked
        /\ tmApproved' = {a \in tmApproved : a[2] \in ticked} \cup {<<tmOf, s>> : s \in ticked \ tmTicked}
        /\ ticked # tmTicked
        /\ UNCHANGED <<tmAuto, tmSpinning, tmTimers, tmAsked, tmRows, tmOf, tmAstray, tmKills>>
    BY <1>5 DEF TickLocks
  <2>2. tmOf \in Databases /\ ticked \subseteq Session
    BY <1>0, <2>1 DEF ListInv
  <2>3. tmApproved' \subseteq Databases \X Session
    BY <1>0, <2>1, <2>2 DEF ListInv
  <2>4. ASSUME NEW s \in ticked
        PROVE  \/ s \in tmTicked /\ \A a \in tmApproved : a[2] = s => a \in tmApproved'
               \/ <<tmOf, s>> \in tmApproved'
    BY <2>1
  <2>5. TickedByUser'
    <3> SUFFICES ASSUME NEW s \in ticked
                 PROVE  \E a \in tmApproved' : s = a[2]
      BY <2>1 DEF TickedByUser
    <3>1. CASE s \in tmTicked /\ \A a \in tmApproved : a[2] = s => a \in tmApproved'
      <4>1. \E a \in tmApproved : s = a[2]
        BY <1>0, <3>1 DEF ListInv, TickedByUser
      <4> QED
        BY <3>1, <4>1
    <3>2. CASE <<tmOf, s>> \in tmApproved'
      <4>1. <<tmOf, s>>[2] = s
        OBVIOUS
      <4> QED
        BY <3>2, <4>1
    <3> QED
      BY <2>4, <3>1, <3>2
  <2>6. RowsOfChosen'
    <3> SUFFICES ASSUME ~tmAstray, currentDbId # None, tmRows # {}
                 PROVE  tmOf = currentDbId /\ \A s \in ticked : <<currentDbId, s>> \in tmApproved'
      BY <2>1 DEF RowsOfChosen
    <3>1. tmOf = currentDbId /\ \A s \in tmTicked : <<currentDbId, s>> \in tmApproved
      BY <1>0 DEF ListInv, RowsOfChosen
    <3>2. ASSUME NEW s \in ticked
          PROVE  <<currentDbId, s>> \in tmApproved'
      <4>1. <<currentDbId, s>>[2] = s
        OBVIOUS
      <4> QED
        BY <2>4, <3>1, <4>1
    <3> QED
      BY <3>1, <3>2
  <2> QED
    BY <1>0, <2>1, <2>2, <2>3, <2>5, <2>6 DEF TmInv, LoopInv, ListInv, KillsAreTicked
<1>6. CASE KillLocks
  <2> DEFINE kill == [to |-> currentDbId, sessions |-> tmTicked]
  <2>1. /\ tmTicked # {} /\ currentDbId # None /\ tmKills' = tmKills \cup {kill}
        /\ UNCHANGED <<tmAuto, tmSpinning, tmTimers, tmAsked, tmListed, tmAstray>>
    BY <1>6 DEF KillLocks
  <2>2. kill \in LockKill
    BY <1>0, <2>1 DEF LockKill, ListInv, MenuTypes
  <2>3. kill.to = currentDbId /\ kill.sessions = tmTicked
    OBVIOUS
  <2> HIDE DEF kill
  <2>4. /\ kill.sessions \subseteq {a[2] : a \in tmApproved}
        /\ tmAstray \/ \A s \in kill.sessions : <<kill.to, s>> \in tmApproved
    BY <1>0, <2>1, <2>3 DEF ListInv, TickedByUser, RowsOfChosen
  <2>5. KillsAreTicked
    BY <2>1, <2>4 DEF KillsAreTicked
  <2>6. LoopInv' /\ ListInv' /\ tmKills' \subseteq LockKill
    BY <1>0, <2>1, <2>2, ListKept DEF LoopInv
  <2> QED
    BY <2>5, <2>6 DEF TmInv
<1>7. ASSUME NEW k \in tmKills, NEW ok \in BOOLEAN, LockKillAnswered(k, ok)
      PROVE  TmInv' /\ KillsAreTicked
  <2>1. tmKills' = tmKills \ {k} /\ UNCHANGED <<tmAuto, tmTimers, tmListed, tmAstray>>
    BY <1>7 DEF LockKillAnswered
  <2>2. LoopInv'
    <3>1. CASE FetchLocks(1, currentDbId)
      BY <1>0, <2>1, <3>1, TmFetched DEF MenuTypes
    <3>2. CASE UNCHANGED <<tmAsked, tmSpinning>>
      BY <1>0, <2>1, <3>2 DEF LoopInv
    <3> QED
      BY <1>7, <3>1, <3>2 DEF LockKillAnswered
  <2> QED
    BY <1>0, <2>1, <2>2, ListKept DEF TmInv, KillsAreTicked
<1> QED
  BY <1>1, <1>2, <1>3, <1>4, <1>5, <1>6, <1>7 DEF LocksNext

-----------------------------------------------------------------------------
(* The overview                                                            *)

\* Where no round begins or ends.
LEMMA RoundsKept == ASSUME RoundsInv, UNCHANGED <<rounds, inFlight>> PROVE RoundsInv'
BY DEF RoundsInv, OpenRounds

\* A round begins for a database that has none.
LEMMA RoundBegins ==
  ASSUME RoundsInv, NEW menu, NEW v, NEW d \in Databases \cup {None}, StartRound(menu, v, d)
  PROVE  RoundsInv'
<1>1. CASE UNCHANGED <<rounds, inFlight>>
  BY <1>1, RoundsKept
<1>2. CASE ~UNCHANGED <<rounds, inFlight>>
  <2> DEFINE new == [db |-> d, waiting |-> Followed, reading |-> {}, open |-> TRUE]
  <2>1. d \in Databases /\ d \notin inFlight /\ rounds' = rounds \cup {new} /\ inFlight' = inFlight \cup {d}
    BY <1>2 DEF StartRound, Started
  <2>2. new \in Round /\ new.db = d /\ new.open
    BY <2>1 DEF Round, Followed, Widget
  <2> HIDE DEF new
  <2>3. {r \in rounds' : r.open} = OpenRounds \cup {new}
    BY <2>1, <2>2 DEF OpenRounds
  <2>4. {r.db : r \in OpenRounds \cup {new}} = inFlight'
    BY <2>1, <2>2 DEF RoundsInv
  <2>5. \A r \in OpenRounds : r.db # d
    BY <2>1 DEF RoundsInv
  <2>6. \A r, s \in OpenRounds \cup {new} : r.db = s.db => r = s
    BY <2>2, <2>5 DEF RoundsInv
  <2>7. rounds' \subseteq Round
    BY <2>1, <2>2 DEF RoundsInv
  <2>8. OpenRounds' = OpenRounds \cup {new}
    BY <2>3 DEF OpenRounds
  <2> QED
    BY <2>4, <2>6, <2>7, <2>8 DEF RoundsInv
<1> QED
  BY <1>1, <1>2

\* A request of a round is over.
LEMMA RoundGoesOn ==
  ASSUME RoundsInv, NEW r \in rounds, NEW w, NEW rejected \in BOOLEAN, RoundAfter(r, w, rejected)
  PROVE  RoundsInv'
<1> DEFINE rest == [r EXCEPT !.waiting = @ \ {w}, !.reading = @ \ {w}]
           none == rest.waiting \cup rest.reading = {}
           now == [rest EXCEPT !.open = @ /\ ~rejected /\ ~none]
<1>1. /\ r \in Round /\ r.db \in Databases /\ r.waiting \in SUBSET Widget /\ r.reading \in SUBSET Widget
      /\ r.open \in BOOLEAN
  BY DEF RoundsInv, Round
<1>2. /\ rounds' = (rounds \ {r}) \cup (IF none THEN {} ELSE {now})
      /\ inFlight' = IF r.open /\ ~now.open THEN inFlight \ {r.db} ELSE inFlight
  BY DEF RoundAfter
<1>3. /\ now \in Round /\ now.db = r.db
      /\ now.open => r.open /\ ~none
  <2>1. rest \in Round /\ rest.db = r.db /\ rest.open = r.open
    BY <1>1 DEF Round
  <2> HIDE DEF rest
  <2> QED
    BY <2>1 DEF Round
<1> HIDE DEF now, none
<1>4. rounds' \subseteq Round
  BY <1>2, <1>3 DEF RoundsInv
<1>5. OpenRounds' = (OpenRounds \ {r}) \cup (IF now.open THEN {now} ELSE {})
  BY <1>2, <1>3 DEF OpenRounds
<1>6. CASE ~r.open
  <2>1. OpenRounds' = OpenRounds /\ inFlight' = inFlight
    BY <1>2, <1>3, <1>5, <1>6 DEF OpenRounds
  <2> QED
    BY <1>4, <2>1 DEF RoundsInv
<1>7. CASE r.open
  <2>1. r \in OpenRounds /\ \A s \in OpenRounds \ {r} : s.db # r.db
    BY <1>7 DEF OpenRounds, RoundsInv
  <2>2. CASE now.open
    <3>1. OpenRounds' = (OpenRounds \ {r}) \cup {now} /\ inFlight' = inFlight
      BY <1>2, <1>5, <2>2
    <3>2. {s.db : s \in (OpenRounds \ {r}) \cup {now}} = inFlight
      BY <1>3, <2>1 DEF RoundsInv
    <3>3. \A s, t \in (OpenRounds \ {r}) \cup {now} : s.db = t.db => s = t
      BY <1>3, <2>1 DEF RoundsInv
    <3> QED
      BY <1>4, <3>1, <3>2, <3>3 DEF RoundsInv
  <2>3. CASE ~now.open
    <3>1. OpenRounds' = OpenRounds \ {r} /\ inFlight' = inFlight \ {r.db}
      BY <1>2, <1>5, <1>7, <2>3
    <3>2. {s.db : s \in OpenRounds \ {r}} = inFlight \ {r.db}
      BY <2>1 DEF RoundsInv
    <3>3. \A s, t \in OpenRounds \ {r} : s.db = t.db => s = t
      BY DEF RoundsInv
    <3> QED
      BY <1>4, <3>1, <3>2, <3>3 DEF RoundsInv
  <2> QED
    BY <2>2, <2>3
<1> QED
  BY <1>1, <1>6, <1>7

\* The headers of an answer arrive: the round waits on.
LEMMA RoundReads ==
  ASSUME RoundsInv, NEW r \in rounds, NEW w \in Widget, UNCHANGED inFlight,
         rounds' = (rounds \ {r}) \cup {[r EXCEPT !.waiting = @ \ {w}, !.reading = @ \cup {w}]}
  PROVE  RoundsInv'
<1> DEFINE now == [r EXCEPT !.waiting = @ \ {w}, !.reading = @ \cup {w}]
<1>1. r \in Round
  BY DEF RoundsInv
<1>2. now \in Round /\ now.db = r.db /\ now.open = r.open
  BY <1>1 DEF Round
<1>3. rounds' = (rounds \ {r}) \cup {now}
  OBVIOUS
<1> HIDE DEF now
<1>4. OpenRounds' = IF r.open THEN (OpenRounds \ {r}) \cup {now} ELSE OpenRounds
  BY <1>2, <1>3 DEF OpenRounds
<1>5. r.open => r \in OpenRounds
  BY DEF OpenRounds
<1>6. rounds' \subseteq Round
  BY <1>2, <1>3 DEF RoundsInv
<1>7. {q.db : q \in OpenRounds'} = inFlight
  BY <1>2, <1>4, <1>5 DEF RoundsInv
<1>8. \A q, t \in OpenRounds' : q.db = t.db => q = t
  BY <1>2, <1>4, <1>5 DEF RoundsInv
<1> QED
  BY <1>6, <1>7, <1>8 DEF RoundsInv

\* Then a database has one open round, or none.
LEMMA RoundsCounted == RoundsInv => OneRoundPerDatabase
<1> SUFFICES ASSUME RoundsInv, NEW d \in Databases
             PROVE  Cardinality({r \in rounds : r.open /\ r.db = d}) = IF d \in inFlight THEN 1 ELSE 0
  BY DEF OneRoundPerDatabase
<1> DEFINE mine == {r \in rounds : r.open /\ r.db = d}
<1>1. mine = {r \in OpenRounds : r.db = d}
  BY DEF OpenRounds
<1>2. CASE d \in inFlight
  <2>1. PICK r \in OpenRounds : r.db = d
    BY <1>2 DEF RoundsInv
  <2>2. mine = {r}
    BY <1>1, <2>1 DEF RoundsInv
  <2> QED
    BY <1>2, <2>2, FS_Singleton
<1>3. CASE d \notin inFlight
  <2>1. mine = {}
    BY <1>1, <1>3 DEF RoundsInv
  <2> QED
    BY <1>3, <2>1, FS_EmptySet
<1> QED
  BY <1>2, <1>3

-----------------------------------------------------------------------------
(* The incident button                                                     *)

\* Where the button is not pressed and nothing of it is answered.
LEMMA IncidentKept == ASSUME IncidentInv, UNCHANGED incidents PROVE IncidentInv'
BY DEF IncidentInv, IncidentsHit, HitsAlarm

\* It is pressed, the holders are read, the KILL is answered.
LEMMA IncidentStep ==
  ASSUME IncidentInv, MenuTypes, LabelInv, IncidentNext
  PROVE  IncidentInv'
<1>1. CASE PressIncident
  <2> DEFINE new == [db |-> currentDbId, step |-> "reading", sentTo |-> None, kinds |-> {},
                     alarm |-> painted["gate"], astray |-> alarmAstray]
  <2>1. incidents' = incidents \cup {new} /\ currentDbId \in Databases /\ killOffered
    BY <1>1 DEF PressIncident, MenuTypes
  <2>2. painted["gate"] \in Databases \cup {None} /\ (alarmAstray \/ painted["gate"] = currentDbId)
    BY <2>1, NoneAssumption DEF LabelInv, Widget
  <2>3. new \in Incident /\ new.step # "killing" /\ (new.astray \/ new.db = new.alarm)
    BY <2>1, <2>2 DEF Incident, LabelInv
  <2> HIDE DEF new
  <2> QED
    BY <2>1, <2>3 DEF IncidentInv, IncidentsHit, HitsAlarm
<1>2. ASSUME NEW i \in incidents, NEW held \in SUBSET {"TM", "TX"}, NEW yes \in BOOLEAN, HoldersRead(i, held, yes)
      PROVE  IncidentInv'
  <2> DEFINE next == [i EXCEPT !.step = "killing", !.sentTo = SentTo(i), !.kinds = KindsKilled(held)]
  <2>1. i \in Incident /\ (i.astray \/ i.db = i.alarm)
    BY DEF IncidentInv
  <2>2. incidents' \subseteq (incidents \ {i}) \cup (IF KindsKilled(held) # {} THEN {next} ELSE {})
    BY <1>2 DEF HoldersRead
  <2>3. /\ next \in Incident /\ next.sentTo = i.db /\ next.kinds = KindsKilled(held)
        /\ next.astray = i.astray /\ next.alarm = i.alarm /\ next.db = i.db
    BY <2>1 DEF Incident, SentTo, KindsKilled
  <2>4. KindsKilled(held) # {} => KindsKilled(held) = {"TM"}
    BY DEF KindsKilled
  <2> HIDE DEF next
  <2> QED
    BY <2>1, <2>2, <2>3, <2>4 DEF IncidentInv, IncidentsHit, HitsAlarm
<1>3. ASSUME NEW i \in incidents, NEW ok \in BOOLEAN, IncidentKilled(i, ok)
      PROVE  IncidentInv'
  BY <1>3 DEF IncidentKilled, IncidentInv, IncidentsHit, HitsAlarm
<1> QED
  BY <1>1, <1>2, <1>3 DEF IncidentNext

-----------------------------------------------------------------------------
(* The panels together                                                     *)

\* Where nothing that is drawn changes.
LEMMA LabelKept ==
  ASSUME LabelInv, UNCHANGED <<view, painted, label, killOffered, alarmAstray, hook>>,
         currentDbId' \in {currentDbId, None}
  PROVE  LabelInv'
BY DEF LabelInv

\* A request fails, or its answer is read: what is painted is its own.
LEMMA NotPainted ==
  ASSUME LabelInv, NEW w, NEW d, Offer(w, d, FALSE), UNCHANGED <<currentDbId, view, painted, label, hook>>
  PROVE  LabelInv'
BY DEF LabelInv, Offer
LEMMA WidgetPainted ==
  ASSUME LabelInv, MenuTypes, RoundsInv, NEW r \in rounds, NEW w \in Widget, NEW ok \in BOOLEAN,
         NEW on \in BOOLEAN, w = "gate" \/ ~on, BodyRead(r, w, ok, on)
  PROVE  LabelInv'
<1>1. /\ r.db \in Databases /\ UNCHANGED <<currentDbId, view, hook>> /\ Offer(w, r.db, on)
      /\ ok \/ w = "overview"
      /\ painted' = IF ok THEN [painted EXCEPT ![w] = r.db] ELSE painted
      /\ label' = label \/ label' = NameOf(painted'["overview"], currentDbId)
  BY DEF BodyRead, RoundsInv, Round, menuVars
<1>2. painted' \in [Widget -> Databases \cup {None}]
  BY <1>1 DEF LabelInv
<1>3. label' \in Databases \cup {None}
  BY <1>1, <1>2 DEF LabelInv, NameOf, Widget
<1>4. CASE w = "gate"
  <2>1. killOffered' = on /\ alarmAstray' = (on /\ r.db # currentDbId) /\ ok
    BY <1>1, <1>4 DEF Offer
  <2>2. painted'["gate"] = r.db
    BY <1>1, <1>4, <2>1 DEF LabelInv
  <2> QED
    BY <1>1, <1>2, <1>3, <2>1, <2>2 DEF LabelInv
<1>5. CASE w # "gate"
  <2>1. UNCHANGED <<killOffered, alarmAstray>>
    BY <1>1, <1>5 DEF Offer
  <2>2. painted'["gate"] = painted["gate"]
    BY <1>1, <1>5 DEF LabelInv, Widget
  <2> QED
    BY <1>1, <1>2, <1>3, <2>1, <2>2 DEF LabelInv
<1> QED
  BY <1>4, <1>5

\* What opening a menu, or choosing a database in it, does to the panels.
LEMMA SwitchStep ==
  ASSUME PanelInv, PanelsBounded, NEW menu \in Section, NEW d \in Databases \cup {None},
         SwitchTab(menu, d), section' = menu, currentDbId' = d
  PROVE  TsInv' /\ TmInv' /\ tmKills' = tmKills
<1>1. TsInv'
  <2>1. CASE menu = "tablespace"
    BY <2>1, TsAsked DEF SwitchTab, PanelInv
  <2>2. CASE menu # "tablespace"
    BY <2>2, TsKept DEF SwitchTab, PanelInv
  <2> QED
    BY <2>1, <2>2
<1>2. UNCHANGED <<tmListed, tmKills>> /\ LoopInv'
  <2>1. CASE menu = "tmlock"
    <3>1. UNCHANGED <<tmAuto, tmTimers, tmListed, tmKills>> /\ \E n \in {1, 2} : FetchLocks(n, d)
      BY <2>1 DEF SwitchTab, OpenLocks
    <3> QED
      BY <3>1, TmFetched DEF PanelInv, TmInv, MenuTypes
  <2>2. CASE menu # "tmlock"
    BY <2>2 DEF SwitchTab, PanelInv, TmInv, LoopInv
  <2> QED
    BY <2>1, <2>2
<1>3. ListInv'
  <2>1. CASE d = currentDbId
    <3>1. tmAstray' = tmAstray
      BY <2>1 DEF SwitchTab, PanelInv, TmInv, ListInv
    <3> QED
      BY <1>2, <2>1, <3>1, ListKept DEF PanelInv, TmInv
  <2>2. CASE d # currentDbId
    <3>1. tmAstray' = (tmAstray \/ tmRows # {})
      BY <2>2 DEF SwitchTab
    <3>2. UNCHANGED <<tmRows, tmTicked, tmOf, tmApproved>>
      BY <1>2 DEF tmListed
    <3> QED
      BY <3>1, <3>2 DEF PanelInv, TmInv, ListInv, TickedByUser, RowsOfChosen
  <2> QED
    BY <2>1, <2>2
<1> QED
  BY <1>1, <1>2, <1>3 DEF TmInv, PanelInv

\* The database is chosen by the user, or by the page itself.
LEMMA SelectStep ==
  ASSUME PanelInv, PanelsBounded, NEW d \in Databases, SelectDatabase(d)
  PROVE  PanelInv' /\ KillsAreTicked
<1>1. /\ currentDbId' = d /\ SwitchTab(section, d) /\ StartRound(section, view, d)
      /\ UNCHANGED <<section, lucide, view, painted, label, killOffered, hook, incidents>>
      /\ alarmAstray' = (alarmAstray \/ (killOffered /\ d # currentDbId))
  BY DEF SelectDatabase
<1>2. TsInv' /\ TmInv' /\ tmKills' = tmKills
  BY <1>1, SwitchStep DEF PanelInv, MenuTypes
<1>3. RoundsInv'
  BY <1>1, RoundBegins DEF PanelInv
<1>4. LabelInv'
  BY <1>1 DEF PanelInv, LabelInv
<1>5. MenuTypes' /\ IncidentInv'
  BY <1>1, IncidentKept DEF PanelInv, MenuTypes
<1> QED
  BY <1>2, <1>3, <1>4, <1>5 DEF PanelInv, KillsAreTicked

\* Where nothing of the panels changes but that no database is chosen any more.
LEMMA PanelsKept ==
  ASSUME PanelInv, UNCHANGED <<section, lucide, tsVars, tmVars, v2Vars>>, currentDbId' \in {currentDbId, None}
  PROVE  PanelInv'
<1>1. TsInv' /\ TmInv'
  BY TsKept, TmKept DEF PanelInv
<1>2. RoundsInv' /\ LabelInv' /\ IncidentInv'
  BY RoundsKept, LabelKept, IncidentKept DEF PanelInv, v2Vars
<1>3. MenuTypes'
  BY DEF PanelInv, MenuTypes
<1> QED
  BY <1>1, <1>2, <1>3 DEF PanelInv

\* The panels' own steps.
LEMMA PanelsStep ==
  ASSUME PanelInv, PanelsBounded, PanelsNext
  PROVE  PanelInv' /\ KillsAreTicked
<1>0. MenuTypes /\ TsInv /\ TmInv /\ RoundsInv /\ LabelInv /\ IncidentInv
  BY DEF PanelInv
<1>1. CASE RefreshTablespaces
  <2>1. /\ AskTablespaces(currentDbId) /\ UNCHANGED <<currentDbId, section, lucide, tmVars, v2Vars>>
        /\ currentDbId \in Databases \cup {None} /\ tmKills' = tmKills
    BY <1>0, <1>1 DEF RefreshTablespaces, MenuTypes, menuVars, tmVars
  <2>2. TsInv'
    BY <1>0, <2>1, TsAsked
  <2> QED
    BY <1>0, <2>1, <2>2, TmKept, RoundsKept, LabelKept, IncidentKept DEF PanelInv, v2Vars, MenuTypes, KillsAreTicked
<1>2. ASSUME NEW r, NEW ok \in BOOLEAN, TablespacesAnswered(r, ok)
      PROVE  PanelInv' /\ KillsAreTicked
  <2>1. UNCHANGED <<currentDbId, section, lucide, tmVars, v2Vars>> /\ tmKills' = tmKills
    BY <1>2 DEF TablespacesAnswered, menuVars, tmVars
  <2> QED
    BY <1>0, <1>2, <2>1, TsStep, TmKept, RoundsKept, LabelKept, IncidentKept
    DEF PanelInv, v2Vars, MenuTypes, KillsAreTicked
<1>3. CASE LocksNext
  <2>1. UNCHANGED <<currentDbId, section, lucide, tsVars, v2Vars>>
    BY <1>3 DEF LocksNext, LoopTick, TmAnswers, LocksAnswered, RefreshLocks, ToggleLocks, TickLocks, KillLocks,
                LockKillAnswered, menuVars
  <2>2. TmInv' /\ KillsAreTicked
    BY <1>0, <1>3, <2>1, TmStep
  <2> QED
    BY <1>0, <2>1, <2>2, TsKept, RoundsKept, LabelKept, IncidentKept DEF PanelInv, v2Vars, MenuTypes
<1>4. CASE PollTick \/ (\E v \in {"v2", "nd"} : SetView(v)) \/ DashboardHook
  <2>1. /\ UNCHANGED <<currentDbId, section, lucide, tsVars, tmVars, painted, label, killOffered, alarmAstray, incidents>>
        /\ view' \in {"v2", "nd"} /\ hook' \in BOOLEAN /\ tmKills' = tmKills
        /\ \E v : StartRound(section, v, currentDbId)
    BY <1>0, <1>4 DEF PollTick, SetView, DashboardHook, LabelInv, menuVars, shownVars, tmVars
  <2>2. RoundsInv'
    BY <1>0, <2>1, RoundBegins DEF MenuTypes
  <2>3. LabelInv'
    BY <1>0, <2>1 DEF LabelInv
  <2> QED
    BY <1>0, <2>1, <2>2, <2>3, TsKept, TmKept, IncidentKept DEF PanelInv, MenuTypes, KillsAreTicked
<1>5. ASSUME NEW r \in rounds, NEW w \in Widget, NEW ok \in BOOLEAN,
             \/ HeadersArrived(r, w, ok) \/ BodyFailed(r, w) \/ WidgetAborted(r, w)
             \/ \E on \in BOOLEAN : (w = "gate" \/ ~on) /\ BodyRead(r, w, ok, on)
      PROVE  PanelInv' /\ KillsAreTicked
  <2>1. UNCHANGED <<currentDbId, section, lucide, tsVars, tmVars, incidents>> /\ tmKills' = tmKills
    BY <1>5 DEF HeadersArrived, BodyFailed, WidgetAborted, BodyRead, menuVars, tmVars
  <2>2. RoundsInv'
    <3>1. CASE HeadersArrived(r, w, ok) /\ ok
      BY <1>0, <3>1, RoundReads DEF HeadersArrived
    <3>2. CASE \E rejected \in BOOLEAN : RoundAfter(r, w, rejected)
      BY <1>0, <3>2, RoundGoesOn
    <3> QED
      BY <1>5, <3>1, <3>2 DEF HeadersArrived, BodyFailed, WidgetAborted, BodyRead
  <2>3. LabelInv'
    <3>1. CASE HeadersArrived(r, w, ok) /\ ok
      BY <1>0, <2>1, <3>1, LabelKept DEF HeadersArrived
    <3>2. CASE (HeadersArrived(r, w, ok) /\ ~ok) \/ BodyFailed(r, w) \/ WidgetAborted(r, w)
      <4>1. Offer(w, r.db, FALSE) /\ UNCHANGED <<view, painted, label, hook>>
        BY <3>2 DEF HeadersArrived, BodyFailed, WidgetAborted
      <4> QED
        BY <1>0, <2>1, <4>1, NotPainted
    <3>3. CASE \E on \in BOOLEAN : (w = "gate" \/ ~on) /\ BodyRead(r, w, ok, on)
      BY <1>0, <3>3, WidgetPainted
    <3> QED
      BY <1>5, <3>1, <3>2, <3>3
  <2> QED
    BY <1>0, <2>1, <2>2, <2>3, TsKept, TmKept, IncidentKept DEF PanelInv, MenuTypes, KillsAreTicked
<1>6. CASE IncidentNext
  <2>1. /\ UNCHANGED <<currentDbId, section, lucide, tsVars, tmVars, view, painted, label, killOffered, alarmAstray, hook>>
        /\ tmKills' = tmKills
        /\ UNCHANGED <<rounds, inFlight>> \/ StartRound(section, view, currentDbId)
    BY <1>6 DEF IncidentNext, PressIncident, HoldersRead, IncidentKilled, menuVars, shownVars, tmVars
  <2>2. IncidentInv'
    BY <1>0, <1>6, IncidentStep
  <2>3. RoundsInv'
    BY <1>0, <2>1, RoundsKept, RoundBegins DEF MenuTypes
  <2> QED
    BY <1>0, <2>1, <2>2, <2>3, TsKept, TmKept, LabelKept DEF PanelInv, MenuTypes, KillsAreTicked
<1>7. ASSUME NEW menu \in Section, OpenMenu(menu)
      PROVE  PanelInv' /\ KillsAreTicked
  <2>1. /\ section' = menu /\ SwitchTab(menu, currentDbId) /\ hook' = (hook \/ menu = "dashboard")
        /\ UNCHANGED <<currentDbId, lucide, view, rounds, inFlight, painted, label, killOffered, alarmAstray, incidents>>
    BY <1>7 DEF OpenMenu, shownVars
  <2>2. TsInv' /\ TmInv' /\ tmKills' = tmKills
    BY <1>0, <2>1, SwitchStep DEF PanelInv, MenuTypes
  <2>3. LabelInv' /\ MenuTypes'
    BY <1>0, <2>1 DEF LabelInv, MenuTypes
  <2> QED
    BY <1>0, <2>1, <2>2, <2>3, RoundsKept, IncidentKept DEF PanelInv, KillsAreTicked
<1>8. CASE TsAnswers(tsReqs)
  BY <1>2, <1>8 DEF TsAnswers
<1>9. CASE WidgetAnswers \/ \E d \in Databases : TimeLimit(d)
  BY <1>5, <1>9 DEF WidgetAnswers, TimeLimit
<1> QED
  BY <1>1, <1>3, <1>4, <1>6, <1>7, <1>8, <1>9 DEF PanelsNext

-----------------------------------------------------------------------------
(* The performance analysis                                                *)

\* What becomes of requests that are old: those that still count are as they were, except
\* that nothing waits for them, or draws them.
LEMMA OldSearches ==
  ASSUME NEW asks \in SUBSET Ask
  PROVE  /\ SearchesOld(asks) \subseteq Ask
         /\ \A a \in SearchesOld(asks) :
              /\ a.kind # "search" /\ ~a.awaited /\ a.drawn
              /\ \E b \in asks : a.kind = b.kind /\ a.range = b.range /\ a.sel = b.sel /\ b.drawn
<1> DEFINE old(a) == [a EXCEPT !.drawn = @ /\ a.kind # "search", !.awaited = FALSE]
<1>1. \A a \in asks : /\ old(a) \in Ask /\ ~old(a).awaited /\ old(a).kind = a.kind
                      /\ old(a).range = a.range /\ old(a).sel = a.sel
                      /\ old(a).drawn => a.drawn /\ a.kind # "search"
  BY DEF Ask
<1>2. SearchesOld(asks) = NotOld({old(a) : a \in asks})
  BY DEF SearchesOld
<1> HIDE DEF old
<1>3. \A a \in SearchesOld(asks) : (a.drawn \/ a.awaited) /\ \E b \in asks : a = old(b)
  BY <1>2 DEF NotOld
<1> QED
  BY <1>1, <1>3

\* Events asked for under an earlier heading are not drawn; what is awaited stays awaited.
LEMMA OldEvents ==
  ASSUME NEW asks \in SUBSET Ask
  PROVE  /\ EventsOld(asks) \subseteq Ask
         /\ \A a \in EventsOld(asks) :
              /\ a.drawn => a.kind # "events"
              /\ \E b \in asks : /\ a.kind = b.kind /\ a.range = b.range /\ a.sel = b.sel
                                 /\ a.awaited = b.awaited /\ (a.kind # "events" => a.drawn = b.drawn)
         /\ \A b \in asks : b.awaited \/ (b.kind = "search" /\ b.drawn) =>
              \E a \in EventsOld(asks) : a.awaited \/ a.kind = "search"
<1> DEFINE old(a) == [a EXCEPT !.drawn = @ /\ a.kind # "events"]
<1>1. \A a \in asks : /\ old(a) \in Ask /\ old(a).awaited = a.awaited /\ old(a).kind = a.kind
                      /\ old(a).range = a.range /\ old(a).sel = a.sel
                      /\ old(a).drawn => a.kind # "events"
                      /\ a.kind # "events" => old(a).drawn = a.drawn
  BY DEF Ask
<1>2. EventsOld(asks) = NotOld({old(a) : a \in asks})
  BY DEF EventsOld
<1> HIDE DEF old
<1>3. \A a \in EventsOld(asks) : \E b \in asks : a = old(b)
  BY <1>2 DEF NotOld
<1>4. \A b \in asks : old(b).drawn \/ old(b).awaited => old(b) \in EventsOld(asks)
  BY <1>2 DEF NotOld
<1>5. \A b \in asks : b.awaited \/ (b.kind = "search" /\ b.drawn) =>
        old(b) \in EventsOld(asks) /\ (old(b).awaited \/ old(b).kind = "search")
  BY <1>1, <1>4
<1> QED
  BY <1>1, <1>3, <1>5

\* What the invariant says of a set of requests under a heading.
AsksUnder(asks, head) ==
  \A a \in asks :
    /\ a.kind = "search" => a.drawn /\ a.range # None
    /\ a.kind = "now" => ~a.awaited
    /\ a.kind = "events" /\ a.drawn => head = [range |-> a.range, sel |-> a.sel]

\* A search begins.
LEMMA SearchBegins ==
  ASSUME PerfInv, NEW d \in Databases, NEW range \in PerfRange,
         NEW asks, asks \subseteq pfAsks, StartSearch(d, range, asks),
         UNCHANGED <<pfHead, pfEvents>>, pfInit' \in Databases \cup {None}
  PROVE  PerfInv'
<1> DEFINE new == [kind |-> "search", db |-> d, range |-> range, sel |-> FALSE, drawn |-> TRUE, awaited |-> FALSE]
<1>1. /\ pfDb' = d /\ pfRange' = range /\ pfSel' = FALSE /\ pfOverlay' = TRUE
      /\ pfAsks' = SearchesOld(asks) \cup {new}
  BY DEF StartSearch
<1>2. new \in Ask /\ new.kind = "search" /\ new.drawn /\ new.range = range
  BY DEF Ask
<1> HIDE DEF new
<1>3. asks \subseteq Ask
  BY DEF PerfInv, PerfTypeOK
<1>4. SearchesOld(asks) \subseteq Ask
  BY <1>3, OldSearches
<1>5. \A a \in SearchesOld(asks) : /\ a.kind # "search" /\ ~a.awaited
                                   /\ a.kind = "events" => pfHead = [range |-> a.range, sel |-> a.sel]
  <2> SUFFICES ASSUME NEW a \in SearchesOld(asks)
               PROVE  /\ a.kind # "search" /\ ~a.awaited
                      /\ a.kind = "events" => pfHead = [range |-> a.range, sel |-> a.sel]
    OBVIOUS
  <2>1. /\ a.kind # "search" /\ ~a.awaited
        /\ \E b \in asks : a.kind = b.kind /\ a.range = b.range /\ a.sel = b.sel /\ b.drawn
    BY <1>3, OldSearches
  <2> QED
    BY <2>1 DEF PerfInv, AsksInv
<1>6. PerfTypeOK'
  BY <1>1, <1>2, <1>4 DEF PerfInv, PerfTypeOK
<1>7. AsksInv'
  BY <1>1, <1>2, <1>5, RangeAssumption DEF AsksInv
<1>8. EventsUnderHeading' /\ OverlayAwaits' /\ NothingSearched'
  BY <1>1, <1>2, NoneAssumption DEF PerfInv, EventsUnderHeading, OverlayAwaits, NothingSearched
<1> QED
  BY <1>6, <1>7, <1>8 DEF PerfInv

\* Events are asked for under a heading of their own.
LEMMA EventsAsked ==
  ASSUME PerfInv, NEW d \in Databases, NEW range \in PerfRange, NEW sel \in BOOLEAN,
         NEW asks, asks \subseteq pfAsks, NEW awaited \in BOOLEAN, LoadEvents(d, range, sel, asks, awaited),
         pfDb # None, UNCHANGED <<pfDb, pfInit>>, pfRange' = range, pfSel' \in BOOLEAN, pfOverlay' \in BOOLEAN,
         pfOverlay' => awaited \/ \E a \in asks : a.awaited \/ a.kind = "search"
  PROVE  PerfInv'
<1> DEFINE new == [kind |-> "events", db |-> d, range |-> range, sel |-> sel, drawn |-> TRUE, awaited |-> awaited]
           head == [range |-> range, sel |-> sel]
<1>1. pfHead' = head /\ pfEvents' = None /\ pfAsks' = EventsOld(asks) \cup {new}
  BY DEF LoadEvents
<1>2. /\ new \in Ask /\ new.kind = "events" /\ new.drawn /\ head = [range |-> new.range, sel |-> new.sel]
      /\ new.awaited = awaited /\ head \in [range : PerfRange, sel : BOOLEAN]
  BY DEF Ask
<1> HIDE DEF new, head
<1>3. asks \subseteq Ask
  BY DEF PerfInv, PerfTypeOK
<1>4. EventsOld(asks) \subseteq Ask
  BY <1>3, OldEvents
<1>5. \A a \in EventsOld(asks) : /\ a.kind = "search" => a.drawn /\ a.range # None
                                 /\ a.kind = "now" => ~a.awaited
                                 /\ ~(a.kind = "events" /\ a.drawn)
  <2> SUFFICES ASSUME NEW a \in EventsOld(asks)
               PROVE  /\ a.kind = "search" => a.drawn /\ a.range # None
                      /\ a.kind = "now" => ~a.awaited
                      /\ ~(a.kind = "events" /\ a.drawn)
    OBVIOUS
  <2>1. /\ a.drawn => a.kind # "events"
        /\ \E b \in asks : /\ a.kind = b.kind /\ a.range = b.range
                           /\ a.awaited = b.awaited /\ (a.kind # "events" => a.drawn = b.drawn)
    BY <1>3, OldEvents
  <2> QED
    BY <2>1 DEF PerfInv, AsksInv
<1>6. AsksInv'
  BY <1>1, <1>2, <1>5 DEF AsksInv
<1>7. PerfTypeOK'
  BY <1>1, <1>2, <1>4 DEF PerfInv, PerfTypeOK
<1>8. pfOverlay' => \E a \in pfAsks' : a.awaited \/ a.kind = "search"
  <2>1. CASE awaited
    BY <1>1, <1>2, <2>1
  <2>2. ASSUME NEW b \in asks, b.awaited \/ b.kind = "search"
        PROVE  \E a \in pfAsks' : a.awaited \/ a.kind = "search"
    <3>1. b.awaited \/ (b.kind = "search" /\ b.drawn)
      BY <2>2 DEF PerfInv, AsksInv
    <3> QED
      BY <1>1, <1>3, <3>1, OldEvents
  <2> QED
    BY <2>1, <2>2
<1> QED
  BY <1>1, <1>6, <1>7, <1>8 DEF PerfInv, EventsUnderHeading, OverlayAwaits, NothingSearched

\* The first look at a database asks for its clock.
LEMMA NowAsked ==
  ASSUME PerfInv, NEW d \in Databases \cup {None}, NEW asks \in SUBSET Ask,
         NEW head, pfHead' = head, AsksUnder(asks, head), AskNow(d, asks), UNCHANGED <<pfDb, pfOverlay>>,
         \A a \in asks : \E b \in pfAsks : a.kind = b.kind,
         \/ asks = pfAsks /\ UNCHANGED <<pfRange, pfSel, pfHead, pfEvents>>
         \/ pfRange' = None /\ pfSel' = FALSE /\ pfHead' = None /\ pfEvents' = None
  PROVE  PerfInv'
<1> DEFINE new == [kind |-> "now", db |-> d, range |-> None, sel |-> FALSE, drawn |-> TRUE, awaited |-> FALSE]
<1>1. /\ pfAsks' = asks \/ (d # None /\ pfAsks' = asks \cup {new})
      /\ pfInit' \in Databases \cup {None}
  BY DEF AskNow, PerfInv, PerfTypeOK
<1>2. (d # None => new \in Ask) /\ new.kind = "now" /\ ~new.awaited
  BY DEF Ask
<1> HIDE DEF new
<1>3. pfAsks' \subseteq Ask /\ AsksInv'
  BY <1>1, <1>2 DEF AsksUnder, AsksInv
<1>4. PerfTypeOK'
  BY <1>1, <1>3 DEF PerfInv, PerfTypeOK
<1>5. EventsUnderHeading'
  BY DEF PerfInv, EventsUnderHeading
<1>6. OverlayAwaits' /\ NothingSearched'
  BY <1>1, <1>2 DEF PerfInv, OverlayAwaits, NothingSearched
<1> QED
  BY <1>3, <1>4, <1>5, <1>6 DEF PerfInv

\* The steps of the analysis.
LEMMA PerfStep ==
  ASSUME PerfInv, MenuTypes, PerfNext
  PROVE  PerfInv' /\ UNCHANGED panelVars
<1>1. pfAsks \subseteq Ask /\ AsksInv
  BY DEF PerfInv, PerfTypeOK
<1>2. ASSUME NEW range \in PerfRange, Search(range)
      PROVE  PerfInv'
  <2>1. /\ currentDbId \in Databases /\ StartSearch(currentDbId, range, pfAsks)
        /\ UNCHANGED <<pfInit, pfHead, pfEvents>>
    BY <1>2 DEF Search, MenuTypes
  <2>2. pfInit \in Databases \cup {None}
    BY DEF PerfInv, PerfTypeOK
  <2> QED
    BY <2>1, <2>2, SearchBegins
<1>3. ASSUME NEW sel \in BOOLEAN, SelectPart(sel)
      PROVE  PerfInv'
  <2>1. /\ pfRange # None /\ pfSel' = sel /\ LoadEvents(pfDb, pfRange, sel, pfAsks, FALSE)
        /\ UNCHANGED <<pfDb, pfRange, pfInit, pfOverlay>>
    BY <1>3 DEF SelectPart
  <2>2. pfRange \in PerfRange /\ pfOverlay \in BOOLEAN
    BY <2>1 DEF PerfInv, PerfTypeOK
  <2>3. pfDb \in Databases
    BY <2>1 DEF PerfInv, PerfTypeOK, NothingSearched
  <2>4. pfOverlay => \E a \in pfAsks : a.awaited \/ a.kind = "search"
    BY <2>1 DEF PerfInv, OverlayAwaits
  <2> QED
    BY <2>1, <2>2, <2>3, <2>4, NoneAssumption, EventsAsked
<1>4. ASSUME HistoryTick
      PROVE  PerfInv'
  <2>1. currentDbId \in Databases \cup {None} /\ UNCHANGED <<pfDb, pfOverlay>>
    BY <1>4 DEF HistoryTick, MenuTypes
  <2>2. CASE pfRange # None /\ pfDb # currentDbId
    <3> DEFINE asks == SearchesOld(EventsOld(pfAsks))
    <3>1. /\ pfRange' = None /\ pfSel' = FALSE /\ pfHead' = None /\ pfEvents' = None
          /\ AskNow(currentDbId, asks)
      BY <1>4, <2>2 DEF HistoryTick
    <3>2. EventsOld(pfAsks) \subseteq Ask
      BY <1>1, OldEvents
    <3>3. asks \subseteq Ask
      BY <3>2, OldSearches
    <3>4. AsksUnder(asks, None)
      <4> SUFFICES ASSUME NEW a \in asks
                   PROVE  a.kind # "search" /\ ~a.awaited /\ a.kind # "events"
        BY DEF AsksUnder
      <4>1. /\ a.kind # "search" /\ ~a.awaited
            /\ \E b \in EventsOld(pfAsks) : a.kind = b.kind /\ b.drawn
        BY <3>2, OldSearches
      <4>2. \A b \in EventsOld(pfAsks) : b.drawn => b.kind # "events"
        BY <1>1, OldEvents
      <4> QED
        BY <4>1, <4>2
    <3>5. \A a \in asks : \E b \in pfAsks : a.kind = b.kind
      BY <1>1, <3>2, OldSearches, OldEvents
    <3> HIDE DEF asks
    <3> QED
      BY <2>1, <3>1, <3>3, <3>4, <3>5, NowAsked
  <2>3. CASE ~(pfRange # None /\ pfDb # currentDbId)
    <3>1. AskNow(currentDbId, pfAsks) /\ UNCHANGED <<pfRange, pfSel, pfHead, pfEvents>>
      BY <1>4, <2>3 DEF HistoryTick
    <3>2. AsksUnder(pfAsks, pfHead)
      BY <1>1, <3>1 DEF AsksUnder, AsksInv
    <3> QED
      BY <1>1, <2>1, <3>1, <3>2, NowAsked
  <2> QED
    BY <2>2, <2>3
<1>5. ASSUME NEW a \in pfAsks, NEW ok \in BOOLEAN, SearchAnswered(a, ok)
      PROVE  PerfInv'
  <2>1. a.kind = "search" /\ a \in Ask /\ a.range \in PerfRange /\ a.db \in Databases /\ pfDb # None
    BY <1>1, <1>5 DEF SearchAnswered, AsksInv, Ask, PerfInv, NothingSearched
  <2>2. UNCHANGED <<pfDb, pfSel, pfInit>> /\ pfSel \in BOOLEAN
    BY <1>5 DEF SearchAnswered, PerfInv, PerfTypeOK
  <2>3. CASE ok /\ a.db = currentDbId
    <3>1. /\ pfRange' = Cut(a.range) /\ LoadEvents(a.db, pfRange', pfSel, pfAsks \ {a}, TRUE)
          /\ pfOverlay' = (pfOverlay /\ ~Hides(ok /\ a.db = currentDbId))
      BY <1>5, <2>3 DEF SearchAnswered
    <3>2. pfRange' \in PerfRange /\ pfOverlay' \in BOOLEAN
      BY <2>1, <3>1 DEF Cut, PerfRange
    <3> QED
      BY <2>1, <2>2, <3>1, <3>2, EventsAsked
  <2>4. CASE ~(ok /\ a.db = currentDbId)
    <3>1. /\ pfAsks' = pfAsks \ {a} /\ UNCHANGED <<pfRange, pfHead>> /\ pfEvents' \in {None, pfEvents}
          /\ pfOverlay' = FALSE
      BY <1>5, <2>4 DEF SearchAnswered, Hides
    <3> QED
      BY <2>2, <3>1 DEF PerfInv, PerfTypeOK, EventsUnderHeading, OverlayAwaits, AsksInv, NothingSearched
  <2> QED
    BY <2>3, <2>4
<1>6. ASSUME NEW a \in pfAsks, NEW ok \in BOOLEAN, EventsAnswered(a, ok)
      PROVE  PerfInv'
  <2>1. /\ a.kind = "events" /\ pfAsks' = pfAsks \ {a}
        /\ UNCHANGED <<pfDb, pfRange, pfSel, pfInit, pfHead>> /\ pfOverlay' = (pfOverlay /\ ~a.awaited)
        /\ \/ pfEvents' \in {None, pfEvents}
           \/ a.drawn /\ pfEvents' = [range |-> a.range, sel |-> a.sel]
    BY <1>6 DEF EventsAnswered
  <2>2. pfEvents' \in {None, pfHead}
    BY <1>1, <2>1 DEF PerfInv, EventsUnderHeading, AsksInv
  <2>3. AsksInv' /\ PerfTypeOK'
    BY <2>1, <2>2 DEF PerfInv, PerfTypeOK, AsksInv
  <2>4. OverlayAwaits' /\ NothingSearched'
    BY <2>1 DEF PerfInv, OverlayAwaits, NothingSearched
  <2> QED
    BY <2>1, <2>2, <2>3, <2>4 DEF PerfInv, EventsUnderHeading
<1>7. ASSUME NEW a \in pfAsks, NEW ok \in BOOLEAN, NowAnswered(a, ok)
      PROVE  PerfInv'
  <2>1. /\ a.kind = "now" /\ ~a.awaited /\ a.db \in Databases /\ UNCHANGED <<pfHead, pfEvents>>
        /\ pfInit' \in Databases \cup {None}
    BY <1>1, <1>7 DEF NowAnswered, AsksInv, Ask, InitAfterFailure, PerfInv, PerfTypeOK
  <2>2. CASE ok /\ pfRange = None /\ a.db = currentDbId
    <3>1. StartSearch(a.db, "recent", pfAsks \ {a}) /\ "recent" \in PerfRange
      BY <1>7, <2>2 DEF NowAnswered, PerfRange
    <3> QED
      BY <2>1, <3>1, SearchBegins
  <2>3. CASE ~(ok /\ pfRange = None /\ a.db = currentDbId)
    <3>1. pfAsks' = pfAsks \ {a} /\ UNCHANGED <<pfDb, pfRange, pfSel, pfOverlay>>
      BY <1>7, <2>3 DEF NowAnswered
    <3> QED
      BY <2>1, <3>1 DEF PerfInv, PerfTypeOK, EventsUnderHeading, OverlayAwaits, AsksInv, NothingSearched
  <2> QED
    BY <2>2, <2>3
<1>8. UNCHANGED panelVars
  BY DEF PerfNext, PerfAnswers, Search, SelectPart, HistoryTick, SearchAnswered, EventsAnswered, NowAnswered
<1> QED
  BY <1>2, <1>3, <1>4, <1>5, <1>6, <1>7, <1>8 DEF PerfNext, PerfAnswers

-----------------------------------------------------------------------------
(* The page: what an account may see                                       *)

\* Some number comes first.
LEMMA LeastNumber ==
  ASSUME NEW T \in SUBSET Nat, T # {}
  PROVE  \E m \in T : \A n \in T : m <= n
<1>1. PICK m \in T : \A n \in T : ~(<<n, m>> \in OpToRel(<, Nat))
  BY NatLessThanWellFounded, WFMin
<1>2. ASSUME NEW n \in T, n < m
      PROVE  FALSE
  BY <1>1, <1>2 DEF OpToRel
<1> QED
  BY <1>2

\* The first instance of some that are configured is one of them.
LEMMA FirstIsOne ==
  ASSUME NEW S \in SUBSET (Databases \cup Rdb), S # {}
  PROVE  First(S) \in S
<1> DEFINE Places == {i \in DOMAIN Listed : Listed[i] \in S}
           Earliest(i) == Listed[i] \in S /\ \A j \in 1..(i - 1) : Listed[j] \notin S
<1>1. DOMAIN Listed = 1..Len(Listed) /\ Len(Listed) \in Nat
  BY ListedAssumption, LenProperties
<1>2. Range(Listed) = {Listed[i] : i \in DOMAIN Listed}
  BY DEF Range
<1>3. Places # {} /\ Places \subseteq Nat
  BY <1>1, <1>2, ListedAssumption
<1>4. PICK i \in Places : \A j \in Places : i <= j
  BY <1>3, LeastNumber
<1>5. Earliest(i)
  BY <1>1, <1>4
<1>6. Earliest(CHOOSE k \in DOMAIN Listed : Earliest(k))
  BY <1>4, <1>5
<1> QED
  BY <1>6 DEF First

\* What an account may see of one kind is configured, and of that kind.
LEMMA AccessibleIsRegistered ==
  ASSUME PageTypes, NEW rights
  PROVE  Accessible(rights) \subseteq registered /\ registered \subseteq Databases \cup Rdb
BY ListedAssumption, RegistrationsAssumption DEF Accessible, PageTypes

\* Who can see something on another page is sent to one of those.
LEMMA FirstElsewhere ==
  ASSUME PageTypes, NEW rights
  PROVE  /\ First(Accessible(rights) \cap Rdb) \in Rdb \cup {None}
         /\ Accessible(rights) \cap Rdb # {} =>
              First(Accessible(rights) \cap Rdb) \in Accessible(rights) \cap Rdb
<1>1. Accessible(rights) \cap Rdb \subseteq Databases \cup Rdb
  OBVIOUS
<1>2. Accessible(rights) \cap Rdb = {} => First(Accessible(rights) \cap Rdb) = None
  BY DEF First
<1>3. Accessible(rights) \cap Rdb # {} => First(Accessible(rights) \cap Rdb) \in Accessible(rights) \cap Rdb
  BY <1>1, FirstIsOne
<1> QED
  BY <1>2, <1>3

\* Rights: what the server knows, and what the page was told.
RightTypes ==
  /\ watched \in Part
  /\ registered \in Registrations /\ server \in [Account -> Profiles] /\ valid \in BOOLEAN
  /\ told \in [token : Account \cup {None}, rights : Profile] /\ said \in Profiles \cup {None}

\* A page that is loaded shows nothing and says nothing.
LEMMA FreshPage ==
  ASSUME watched = "access", watched' = watched, RightTypes',
         NEW j \in Databases \cup Rdb \cup Gone \cup {None}, Fresh(told'.token, j)
  PROVE  PageInv' /\ page' = "index"
<1>1. /\ page' = "index" /\ jump' = j /\ currentDbId' = None /\ landing' = FALSE /\ button' = "asked"
      /\ config' = "none" /\ links' = {} /\ autoSelect' = None /\ note' = "none" /\ noteLink' = None
      /\ check' = IF told'.token = None THEN "refused" ELSE "asked"
  BY DEF Fresh
<1>2. PageTypes'
  BY <1>1 DEF RightTypes, PageTypes
<1>3. SaysWhatIs' /\ Behind' /\ Offered' /\ (check' = "asked" => told'.token # None)
  BY <1>1 DEF SaysWhatIs, Behind, Offered
<1> QED
  BY <1>1, <1>2, <1>3 DEF PageInv, AccessInv, OtherInv

\* What an instance is has no name of the page's own.
LEMMA RdbNames ==
  ASSUME NEW d \in Rdb
  PROVE  d \notin {"index", "fleet", "asked", "hidden", "empty"} /\ d # None
BY NameAssumption

\* A page, a reload, a way out: loading and logging out.
LEMMA LoadStep ==
  ASSUME PageInv, NEW j \in registered \cup Gone \cup {None}, Load(j)
  PROVE  PageInv' /\ page' = "index"
<1>1. /\ watched = "access" /\ watched' = watched /\ UNCHANGED rightVars /\ Fresh(told'.token, j)
  BY DEF Load, panelRest, rightVars
<1>2. RightTypes'
  BY <1>1 DEF PageInv, PageTypes, RightTypes, rightVars
<1>3. j \in Databases \cup Rdb \cup Gone \cup {None}
  BY AccessibleIsRegistered DEF PageInv
<1> QED
  BY <1>1, <1>2, <1>3, FreshPage

\* Logged out, nothing is told, said or offered any more.
LEMMA LogoutStep ==
  ASSUME PageInv, NEW newPassword \in BOOLEAN, Logout(newPassword)
  PROVE  PageInv' /\ page' = "index"
<1>1. /\ watched = "access" /\ watched' = watched /\ UNCHANGED <<registered, server>>
      /\ valid' = FALSE /\ said' = None /\ Fresh(None, jump)
      /\ told' = [token |-> None, rights |-> IF newPassword
                    THEN [NoRights EXCEPT !.fleet = told.rights.fleet, !.auto = told.rights.auto] ELSE NoRights]
  BY DEF Logout, Forgotten, panelRest
<1>2. told.rights \in Profile /\ jump \in Databases \cup Rdb \cup Gone \cup {None}
  BY DEF PageInv, PageTypes
<1>3. NoRights \in Profile
  BY DEF NoRights, Profile
<1>4. [NoRights EXCEPT !.fleet = told.rights.fleet, !.auto = told.rights.auto] \in Profile
  BY <1>2, <1>3 DEF Profile
<1>5. told' \in [token : Account \cup {None}, rights : Profile] /\ told'.token = None
  BY <1>1, <1>3, <1>4
<1>6. RightTypes'
  BY <1>1, <1>5 DEF PageInv, PageTypes, RightTypes
<1> QED
  BY <1>1, <1>2, <1>5, <1>6, FreshPage

\* The button that leads to the other engines.
LEMMA ButtonStep ==
  ASSUME PageInv, watched = "access", NEW ok \in BOOLEAN, ButtonDecided(ok)
  PROVE  PageInv' /\ page' = page
<1>1. /\ UNCHANGED <<currentDbId, watched, rightVars, page, jump, check, landing, config, links, autoSelect, note, noteLink>>
      /\ \/ button' = "hidden"
         \/ button' = "empty" /\ registered \cap Rdb = {}
         \/ button' = First(Accessible(told.rights) \cap Rdb) /\ Accessible(told.rights) \cap Rdb # {}
  BY DEF ButtonDecided, NoneRegistered, contentVars, panelVars, menuVars
<1>2. button' \in {"hidden", "empty"} \cup Rdb /\ (button' = "empty" => registered \cap Rdb = {})
  BY <1>1, FirstElsewhere, RdbNames DEF PageInv
<1>3. PageTypes' /\ SaysWhatIs'
  BY <1>1, <1>2 DEF PageInv, PageTypes, SaysWhatIs, rightVars
<1> QED
  BY <1>1, <1>3 DEF PageInv, AccessInv, OtherInv, Behind, Offered, rightVars, Accessible, Restricted, First

\* The check of the session.
LEMMA CheckStep ==
  ASSUME PageInv, watched = "access", NEW ok \in BOOLEAN, CheckAnswered(ok)
  PROVE  PageInv' /\ page' = page
<1>1. /\ check = "asked"
      /\ UNCHANGED <<currentDbId, watched, registered, server, valid, page, jump, landing, button, links, autoSelect,
                     note, noteLink>>
  BY DEF CheckAnswered, contentVars, panelVars, menuVars
<1>2. told.token \in Account /\ config = "none" /\ links = {} /\ noteLink = None
  BY <1>1 DEF PageInv, PageTypes, AccessInv, Behind, Offered
<1>3. SaysWhatIs'
  BY <1>1 DEF PageInv, SaysWhatIs
<1>4. CASE Opens(ok)
  <2>1. /\ check' = "passed" /\ config' = "asked" /\ said' = server[told.token]
        /\ told' = [told EXCEPT !.rights = server[told.token]]
    BY <1>4 DEF CheckAnswered, Opens, Stored
  <2>2. server[told.token] \in Profiles /\ server[told.token] \in Profile /\ server[told.token] # None
    BY <1>2, ProfilesAssumption DEF PageInv, PageTypes
  <2>3. told' \in [token : Account \cup {None}, rights : Profile] /\ told'.rights = said'
    BY <2>1, <2>2 DEF PageInv, PageTypes
  <2>4. PageTypes'
    BY <1>1, <2>1, <2>2, <2>3 DEF PageInv, PageTypes
  <2>5. Behind' /\ Offered'
    BY <1>1, <1>2, <2>1, <2>2, <2>3 DEF Behind, Offered
  <2> QED
    BY <1>1, <1>3, <2>1, <2>4, <2>5 DEF PageInv, AccessInv, OtherInv
<1>5. CASE ~Opens(ok)
  <2>1. check' = "refused" /\ UNCHANGED <<config, told, said>>
    BY <1>5 DEF CheckAnswered
  <2>2. PageTypes'
    BY <1>1, <2>1 DEF PageInv, PageTypes
  <2>3. Behind' /\ Offered'
    BY <1>1, <1>2, <2>1 DEF Behind, Offered
  <2> QED
    BY <1>1, <1>3, <2>1, <2>2, <2>3 DEF PageInv, AccessInv, OtherInv
<1> QED
  BY <1>4, <1>5

\* A login: behind its overlay there was nothing, and there still is nothing.
LEMMA LoginStep ==
  ASSUME PageInv, watched = "access", NEW a \in Account, Login(a)
  PROVE  PageInv' /\ (page' = "fleet" /\ page # "fleet" => said' # None /\ CanFleet(said'))
<1>1. /\ check = "refused" /\ valid' = TRUE /\ said' = server[a]
      /\ told' = [token |-> a, rights |-> server[a]]
      /\ \/ CanFleet(told'.rights) /\ page' = "fleet" /\ landing' = landing
         \/ landing' = TRUE /\ page' = page
      /\ UNCHANGED <<currentDbId, watched, registered, server, jump, check, button, config, links, autoSelect,
                     note, noteLink>>
  BY DEF Login, Stored, contentVars, panelVars, menuVars
<1>2. server[a] \in Profiles /\ server[a] \in Profile /\ server[a] # None
  BY ProfilesAssumption DEF PageInv, PageTypes
<1>3. config = "none" /\ links = {} /\ noteLink = None
  BY <1>1 DEF PageInv, AccessInv, Behind, Offered
<1>4. told' \in [token : Account \cup {None}, rights : Profile] /\ told'.rights = said'
  BY <1>1, <1>2
<1>5. PageTypes'
  <2>1. page' \in {"index", "fleet"} \cup Rdb /\ landing' \in BOOLEAN
    BY <1>1 DEF PageInv, PageTypes
  <2> QED
    BY <1>1, <1>2, <1>4, <2>1 DEF PageInv, PageTypes
<1>6. Behind' /\ Offered' /\ SaysWhatIs'
  BY <1>1, <1>3 DEF Behind, Offered, PageInv, SaysWhatIs
<1> QED
  BY <1>1, <1>2, <1>4, <1>5, <1>6 DEF PageInv, AccessInv, OtherInv

\* After a login the page stays, or it is left for an instance elsewhere.
LEMMA LandingStep ==
  ASSUME PageInv, watched = "access", NEW ok \in BOOLEAN, LandingAnswered(ok)
  PROVE  PageInv' /\ page' # "fleet"
<1>1. watched' = watched /\ UNCHANGED rightVars
  BY DEF LandingAnswered, panelRest
<1>2. CASE ok /\ Accessible(told.rights) \cap Databases = {} /\ Accessible(told.rights) \cap Rdb # {}
  <2>1. /\ page' = First(Accessible(told.rights) \cap Rdb) /\ landing' = FALSE
        /\ UNCHANGED <<jump, currentDbId, check, button, config, links, autoSelect, note, noteLink>>
    BY <1>2 DEF LandingAnswered
  <2>2. page' \in Rdb
    BY <1>2, <2>1, FirstElsewhere DEF PageInv
  <2>3. PageTypes'
    <3>1. UNCHANGED <<watched, registered, server, valid, told, said>>
      BY <1>1 DEF rightVars
    <3>2. page' \in {"index", "fleet"} \cup Rdb /\ landing' \in BOOLEAN
      BY <2>1, <2>2
    <3> QED
      BY <2>1, <3>1, <3>2 DEF PageInv, PageTypes
  <2>4. SaysWhatIs'
    BY <1>1, <2>1 DEF PageInv, SaysWhatIs, rightVars
  <2> QED
    BY <1>1, <2>4, <2>1, <2>2, <2>3, RdbNames
    DEF PageInv, AccessInv, OtherInv, Behind, Offered, rightVars, Accessible, Restricted, First
<1>3. CASE ~(ok /\ Accessible(told.rights) \cap Databases = {} /\ Accessible(told.rights) \cap Rdb # {})
  <2>1. Fresh(told'.token, jump)
    BY <1>1, <1>3 DEF LandingAnswered, rightVars
  <2>2. RightTypes' /\ jump \in Databases \cup Rdb \cup Gone \cup {None}
    BY <1>1 DEF PageInv, PageTypes, RightTypes, rightVars
  <2> QED
    BY <1>1, <2>1, <2>2, FreshPage
<1> QED
  BY <1>2, <1>3

\* The configuration: what is offered, what is selected of it, and the way elsewhere.
LEMMA ConfigStep ==
  ASSUME PageInv, watched = "access", NEW ok \in BOOLEAN, ConfigAnswered(ok)
  PROVE  PageInv' /\ (page' # "fleet" \/ page' = page)
<1>1. /\ config = "asked"
      /\ UNCHANGED <<currentDbId, watched, rightVars, jump, check, landing, button>>
  BY DEF ConfigAnswered, contentVars, panelVars, menuVars
<1>2. check = "passed" /\ said # None /\ told.rights = said /\ links = {} /\ noteLink = None
  BY <1>1 DEF PageInv, AccessInv, Behind, Offered
<1>3. autoSelect = None /\ currentDbId = None
  BY <1>2 DEF PageInv, PageTypes
<1>4. CASE ~ok
  <2>1. config' = "failed" /\ UNCHANGED <<page, links, autoSelect, note, noteLink>>
    BY <1>4 DEF ConfigAnswered
  <2>2. PageTypes' /\ SaysWhatIs' /\ Behind' /\ Offered'
    BY <1>1, <1>2, <2>1 DEF PageInv, PageTypes, SaysWhatIs, Behind, Offered, rightVars
  <2> QED
    BY <1>1, <2>1, <2>2 DEF PageInv, AccessInv, OtherInv, rightVars
<1>5. CASE ok /\ jump \in registered \cap Rdb
  <2>1. page' = jump /\ UNCHANGED <<config, links, autoSelect, note, noteLink>>
    BY <1>5 DEF ConfigAnswered
  <2>2. PageTypes' /\ SaysWhatIs' /\ Behind' /\ Offered'
    BY <1>1, <1>2, <1>5, <2>1 DEF PageInv, PageTypes, SaysWhatIs, Behind, Offered, rightVars
  <2> QED
    BY <1>1, <1>5, <2>1, <2>2, RdbNames DEF PageInv, AccessInv, OtherInv, rightVars
<1>6. CASE ok /\ ~(jump \in registered \cap Rdb)
  <2> DEFINE offered == Accessible(told.rights) \cap Databases
  <2>1. /\ config' = "built" /\ links' = offered /\ page' = page
        /\ autoSelect' = IF jump = None THEN IF FirstOffered(offered) \in offered THEN FirstOffered(offered) ELSE None
                         ELSE IF jump \in JumpsTo(offered) \cap registered THEN jump ELSE None
        /\ note' = IF offered # {} THEN "none"
                   ELSE IF NoneRegistered(Databases) THEN "unregistered" ELSE "forbidden"
        /\ noteLink' = IF OffersLink(offered) THEN First(Accessible(told.rights) \cap Rdb) ELSE None
    BY <1>6 DEF ConfigAnswered
  <2>2. autoSelect' \in links' \cup {None}
    BY <2>1 DEF JumpsTo
  <2>3. noteLink' \in Rdb \cup {None} /\ (links' = {} => noteLink' = First(Accessible(told.rights) \cap Rdb))
    BY <2>1, FirstElsewhere DEF PageInv, OffersLink
  <2>4. SaysWhatIs'
    BY <1>1, <2>1 DEF PageInv, SaysWhatIs, NoneRegistered, rightVars
  <2>5. PageTypes'
    BY <1>1, <1>3, <2>1, <2>2, <2>3 DEF PageInv, PageTypes, rightVars
  <2>6. Behind'
    BY <1>1, <1>2, <2>1 DEF Behind, rightVars
  <2>7. Offered'
    BY <1>1, <2>1, <2>3 DEF Offered, rightVars, Accessible, Restricted, First
  <2> QED
    BY <1>1, <2>1, <2>4, <2>5, <2>6, <2>7 DEF PageInv, AccessInv, OtherInv, rightVars
<1> QED
  BY <1>4, <1>5, <1>6

\* A click of the user's, or of the page's own, chooses what is offered.
LEMMA ChosenStep ==
  ASSUME PageInv, NEW d \in links, currentDbId' = d, autoSelect' \in {autoSelect, None},
         UNCHANGED <<watched, rightVars, page, jump, check, landing, button, config, links, note, noteLink>>
  PROVE  PageInv'
<1>1. UNCHANGED <<registered, server, valid, told, said>>
  BY DEF rightVars
<1>2. PageTypes' /\ SaysWhatIs'
  BY <1>1 DEF PageInv, PageTypes, SaysWhatIs
<1>3. AccessInv'
  BY <1>1 DEF PageInv, AccessInv, Behind, Offered, Accessible, Restricted, First
<1>4. OtherInv'
  BY <1>1 DEF PageInv, OtherInv
<1> QED
  BY <1>1, <1>2, <1>3, <1>4 DEF PageInv

\* Where nothing of the page and of the rights changes.
LEMMA PageKept == ASSUME PageInv, UNCHANGED <<watched, currentDbId, rightVars, pageVars>> PROVE PageInv'
<1>1. UNCHANGED <<registered, server, valid, told, said, page, jump, check, landing, button, config, links,
                  autoSelect, note, noteLink>>
  BY DEF rightVars, pageVars
<1>2. PageTypes' /\ SaysWhatIs'
  BY <1>1 DEF PageInv, PageTypes, SaysWhatIs
<1>3. AccessInv'
  BY <1>1 DEF PageInv, AccessInv, Behind, Offered, Accessible, Restricted, First
<1>4. OtherInv'
  BY <1>1 DEF PageInv, OtherInv
<1> QED
  BY <1>1, <1>2, <1>3, <1>4 DEF PageInv

\* A way out, for who has the right to it.
LEMMA LeaveStep ==
  ASSUME PageInv, Leave
  PROVE  /\ PageInv'
         /\ page' = "fleet" /\ page # "fleet" => said' # None /\ CanFleet(said')
<1>1. /\ check = "passed" /\ page = "index"
      /\ UNCHANGED <<currentDbId, watched, registered, server, valid, told, said, jump, check, landing, button,
                     config, links, autoSelect, note, noteLink>>
      /\ \/ button \in Rdb /\ page' = button
         \/ noteLink # None /\ page' = noteLink
         \/ CanFleet(told.rights) /\ page' = "fleet"
  BY DEF Leave, contentVars, panelVars, menuVars, rightVars
<1>2. watched = "access"
  <2> SUFFICES ASSUME watched # "access"
               PROVE  FALSE
    OBVIOUS
  <2>1. button = "hidden" /\ noteLink = None /\ told.rights = NoRights
    BY DEF PageInv, OtherInv
  <2>2. ~CanFleet(told.rights)
    BY <2>1 DEF CanFleet, NoRights
  <2> QED
    BY <1>1, <2>1, <2>2, RdbNames
<1>3. said # None /\ told.rights = said
  BY <1>1, <1>2 DEF PageInv, AccessInv, Behind
<1>4. /\ page' \in Rdb \cup {"fleet"}
      /\ page' = "fleet" => CanFleet(told.rights)
  <2>1. noteLink \in Rdb \cup {None}
    BY DEF PageInv, PageTypes
  <2> QED
    BY <1>1, <2>1, RdbNames
<1>5. PageTypes' /\ SaysWhatIs'
  BY <1>1, <1>4 DEF PageInv, PageTypes, SaysWhatIs
<1>6. Behind' /\ Offered'
  BY <1>1, <1>2 DEF PageInv, AccessInv, Behind, Offered, Accessible, Restricted, First
<1> QED
  BY <1>1, <1>2, <1>3, <1>4, <1>5, <1>6 DEF PageInv, AccessInv, OtherInv

\* Elsewhere: what the server knows changes, but not what it said.
LEMMA ElsewhereStep ==
  ASSUME PageInv, Expire \/ \E a \in Account, p \in Profiles : ChangeRights(a, p)
  PROVE  PageInv' /\ page' = page
<1>1. /\ watched = "access"
      /\ UNCHANGED <<currentDbId, watched, registered, told, said, page, jump, check, landing, button,
                     config, links, autoSelect, note, noteLink>>
  BY DEF Expire, ChangeRights, contentVars, panelVars, menuVars, pageVars
<1>2. valid' \in BOOLEAN /\ server' \in [Account -> Profiles]
  BY DEF Expire, ChangeRights, PageInv, PageTypes
<1>3. PageTypes' /\ SaysWhatIs'
  BY <1>1, <1>2 DEF PageInv, PageTypes, SaysWhatIs
<1>4. Behind' /\ Offered'
  BY <1>1 DEF PageInv, AccessInv, Behind, Offered, Accessible, Restricted, First
<1> QED
  BY <1>1, <1>3, <1>4 DEF PageInv, AccessInv, OtherInv

\* All steps of the page: nobody is sent to the fleet page without the right to it, and
\* the panels see that a database is chosen, or none any more.
LEMMA PageStep ==
  ASSUME PageInv, PageNext
  PROVE  /\ PageInv'
         /\ page' = "fleet" /\ page # "fleet" => said' # None /\ CanFleet(said')
         /\ \/ \E d \in Databases : SelectDatabase(d)
            \/ UNCHANGED <<section, lucide, tsVars, tmVars, v2Vars>> /\ currentDbId' \in {currentDbId, None}
         /\ UNCHANGED <<watched, perfVars, acctVars>>
<1>1. ASSUME NEW j \in registered \cup Gone \cup {None}, Load(j)
      PROVE  PageInv' /\ page' = "index"
  BY <1>1, LoadStep
<1>2. ASSUME NEW newPassword \in BOOLEAN, Logout(newPassword)
      PROVE  PageInv' /\ page' = "index"
  BY <1>2, LogoutStep
<1>3. ASSUME NEW ok \in BOOLEAN, \/ ButtonDecided(ok) \/ CheckAnswered(ok) \/ LandingAnswered(ok)
                                 \/ ConfigAnswered(ok)
      PROVE  PageInv' /\ (page' # "fleet" \/ page' = page)
  <2>1. watched = "access"
    BY <1>3 DEF ButtonDecided, CheckAnswered, LandingAnswered, ConfigAnswered, PageInv, OtherInv
  <2> QED
    BY <1>3, <2>1, ButtonStep, CheckStep, LandingStep, ConfigStep
<1>4. ASSUME NEW a \in Account, Login(a)
      PROVE  PageInv' /\ (page' = "fleet" /\ page # "fleet" => said' # None /\ CanFleet(said'))
  <2>1. watched = "access"
    BY <1>4 DEF Login, PageInv, OtherInv
  <2> QED
    BY <1>4, <2>1, LoginStep
<1>5. CASE AutoSelect
  <2>1. /\ autoSelect \in links /\ autoSelect \in Databases /\ SelectDatabase(autoSelect) /\ autoSelect' = None
        /\ UNCHANGED <<perfVars, rightVars, page, jump, check, landing, button, config, links, note, noteLink, acctVars>>
    BY <1>5 DEF AutoSelect, PageInv, PageTypes
  <2>2. currentDbId' = autoSelect /\ watched' = watched
    BY <2>1 DEF SelectDatabase
  <2>3. PageInv'
    BY <2>1, <2>2, ChosenStep
  <2> QED
    BY <2>1, <2>2, <2>3
<1>6. ASSUME NEW d \in Databases, ClickInstance(d)
      PROVE  /\ PageInv' /\ page' = page /\ SelectDatabase(d)
             /\ UNCHANGED <<watched, perfVars, acctVars>>
  <2>1. /\ d \in links /\ SelectDatabase(d) /\ UNCHANGED <<perfVars, rightVars, pageVars, acctVars>>
    BY <1>6 DEF ClickInstance
  <2>2. currentDbId' = d /\ watched' = watched
    BY <2>1 DEF SelectDatabase
  <2>3. PageInv'
    BY <2>1, <2>2, ChosenStep DEF pageVars
  <2> QED
    BY <2>1, <2>2, <2>3 DEF pageVars
<1>7. ASSUME \/ \E j \in registered \cup Gone \cup {None} : Load(j)
             \/ \E ok \in BOOLEAN : ButtonDecided(ok) \/ CheckAnswered(ok) \/ LandingAnswered(ok)
             \/ Configured \/ (\E a \in Account : Login(a) \/ \E p \in Profiles : ChangeRights(a, p))
             \/ Leave \/ Expire \/ \E newPassword \in BOOLEAN : Logout(newPassword)
      PROVE  /\ UNCHANGED <<section, lucide, tsVars, tmVars, v2Vars>> /\ currentDbId' \in {currentDbId, None}
             /\ UNCHANGED <<watched, perfVars, acctVars>>
  BY <1>7 DEF Load, ButtonDecided, CheckAnswered, LandingAnswered, Configured, ConfigAnswered, Login,
              ChangeRights, Leave, Expire, Logout, Fresh, panelRest, contentVars, panelVars, menuVars
<1>8. CASE Leave
  BY <1>7, <1>8, LeaveStep
<1>9. CASE Expire \/ \E a \in Account, p \in Profiles : ChangeRights(a, p)
  BY <1>7, <1>9, ElsewhereStep
<1>10. CASE Configured
  BY <1>3, <1>7, <1>10 DEF Configured
<1>11. CASE Selectable
  BY <1>6, <1>11 DEF Selectable
<1> QED
  BY <1>1, <1>2, <1>3, <1>4, <1>5, <1>7, <1>8, <1>9, <1>10, <1>11 DEF PageNext

-----------------------------------------------------------------------------
(* The editor of an account's restrictions                                 *)

\* Where the popup of an account does not change.
LEMMA AccountKept == ASSUME AccountInv, UNCHANGED acctVars PROVE AccountInv'
BY DEF AccountInv, AccountTypes, EditInv, acctVars

\* The rows: those of the menus are menus, those of the instances are none.
LEMMA RowsOfMenus ==
  ASSUME PageTypes, NEW hidden \in SUBSET Id
  PROVE  /\ MenuRows(hidden) \subseteq Menu /\ hidden \cap Menu \subseteq MenuRows(hidden)
         /\ DbRows(hidden) \subseteq Id \ Menu /\ hidden \ Menu \subseteq DbRows(hidden)
<1>1. registered \subseteq Id \ Menu
  BY ListedAssumption, RegistrationsAssumption, MenuAssumption DEF PageTypes, Id
<1> QED
  BY <1>1 DEF MenuRows, DbRows, RowsFor, MenuItems, Menu

\* The list of instances arrives under an open view: what could not be unticked was not.
LEMMA ListStep ==
  ASSUME AccountInv, PageTypes, NEW ok \in BOOLEAN, DbListAnswered(ok)
  PROVE  AccountInv' /\ saves' = saves
<1>1. /\ dbList = "asked" /\ dbList' = IF ok THEN "loaded" ELSE "failed"
      /\ UNCHANGED <<acct, popup, known, saves>>
  BY DEF DbListAnswered
<1>2. CASE edit = None \/ ~ok
  <2>1. edit' = edit
    BY <1>2 DEF DbListAnswered
  <2> QED
    BY <1>1, <1>2, <2>1 DEF AccountInv, AccountTypes, EditInv
<1>3. CASE ~(edit = None \/ ~ok)
  <2> DEFINE rows == DbRows(edit.base)
             next == [edit EXCEPT !.rows = @ \cup rows, !.unticked = @ \cup (edit.base \cap rows)]
  <2>1. edit' = next /\ dbList' = "loaded"
    BY <1>1, <1>3 DEF DbListAnswered
  <2>2. edit \in [base : SUBSET Id, rows : SUBSET Id, unticked : SUBSET Id, meant : SUBSET Id]
    BY <1>3 DEF AccountInv, AccountTypes
  <2>3. rows \subseteq Id \ Menu /\ edit.base \ Menu \subseteq rows
    BY <2>2, RowsOfMenus
  <2> HIDE DEF rows
  <2>4. /\ next \in [base : SUBSET Id, rows : SUBSET Id, unticked : SUBSET Id, meant : SUBSET Id]
        /\ next.rows = edit.rows \cup rows /\ next.unticked = edit.unticked \cup (edit.base \cap rows)
        /\ next.meant = edit.meant
    BY <2>2, <2>3
  <2>5. /\ edit.unticked = edit.rows \cap edit.meant /\ edit.meant \cap Menu \subseteq edit.rows
        /\ edit.rows \subseteq Menu /\ edit.meant \ Menu = edit.base \ Menu
    BY <1>1, <1>3 DEF AccountInv, EditInv
  <2> HIDE DEF next
  <2>6. next.unticked = next.rows \cap next.meant /\ next.meant \subseteq next.rows
    BY <2>3, <2>4, <2>5
  <2> QED
    BY <1>1, <2>1, <2>4, <2>6 DEF AccountInv, AccountTypes, EditInv
<1> QED
  BY <1>2, <1>3

\* The view is opened.
LEMMA EditStep ==
  ASSUME AccountInv, PageTypes, OpenEdit
  PROVE  AccountInv' /\ saves' = saves
<1> DEFINE rows == MenuRows(known) \cup (IF dbList = "loaded" THEN DbRows(known) ELSE {})
           next == [base |-> known, rows |-> rows, unticked |-> rows \cap known, meant |-> known]
<1>1. known \in SUBSET Id /\ edit' = next /\ UNCHANGED <<acct, popup, dbList, known, saves>>
  BY DEF OpenEdit, AccountInv, AccountTypes
<1>2. /\ MenuRows(known) \subseteq Menu /\ known \cap Menu \subseteq MenuRows(known)
      /\ DbRows(known) \subseteq Id \ Menu /\ known \ Menu \subseteq DbRows(known) /\ Menu \subseteq Id
  BY <1>1, RowsOfMenus DEF Id
<1>3. /\ rows \subseteq Id /\ known \cap Menu \subseteq rows
      /\ IF dbList = "loaded" THEN known \subseteq rows ELSE rows \subseteq Menu
  BY <1>1, <1>2
<1> HIDE DEF rows
<1>4. /\ next \in [base : SUBSET Id, rows : SUBSET Id, unticked : SUBSET Id, meant : SUBSET Id]
      /\ next.base = known /\ next.rows = rows /\ next.unticked = rows \cap known /\ next.meant = known
  BY <1>1, <1>3
<1> HIDE DEF next
<1> QED
  BY <1>1, <1>3, <1>4 DEF AccountInv, AccountTypes, EditInv

\* A box, or all boxes of a kind, that are there.
LEMMA TickStep ==
  ASSUME AccountInv, NEW ids \in SUBSET edit.rows, NEW on \in BOOLEAN, Tick(ids, on)
  PROVE  AccountInv' /\ saves' = saves
<1> DEFINE next == IF on THEN [edit EXCEPT !.unticked = @ \ ids, !.meant = @ \ ids]
                         ELSE [edit EXCEPT !.unticked = @ \cup ids, !.meant = @ \cup ids]
<1>1. edit # None /\ edit' = next /\ UNCHANGED <<acct, popup, dbList, known, saves>>
  BY DEF Tick
<1>2. edit \in [base : SUBSET Id, rows : SUBSET Id, unticked : SUBSET Id, meant : SUBSET Id]
  BY <1>1 DEF AccountInv, AccountTypes
<1>3. /\ next \in [base : SUBSET Id, rows : SUBSET Id, unticked : SUBSET Id, meant : SUBSET Id]
      /\ next.base = edit.base /\ next.rows = edit.rows
      /\ on => next.unticked = edit.unticked \ ids /\ next.meant = edit.meant \ ids
      /\ ~on => next.unticked = edit.unticked \cup ids /\ next.meant = edit.meant \cup ids
  BY <1>2
<1>4. /\ edit.unticked = edit.rows \cap edit.meant /\ edit.meant \cap Menu \subseteq edit.rows
      /\ IF dbList = "loaded" THEN edit.meant \subseteq edit.rows
         ELSE edit.rows \subseteq Menu /\ edit.meant \ Menu = edit.base \ Menu
  BY <1>1 DEF AccountInv, EditInv
<1> HIDE DEF next
<1>5. next.unticked = next.rows \cap next.meant /\ next.meant \cap Menu \subseteq next.rows
  BY <1>3, <1>4
<1>6. IF dbList = "loaded" THEN next.meant \subseteq next.rows
      ELSE next.rows \subseteq Menu /\ next.meant \ Menu = next.base \ Menu
  BY <1>3, <1>4
<1> QED
  BY <1>1, <1>3, <1>5, <1>6 DEF AccountInv, AccountTypes, EditInv

\* All steps of the popup: what is saved is what the administrator means.
LEMMA AccountStep ==
  ASSUME AccountInv, PageTypes, AccountsNext
  PROVE  /\ AccountInv'
         /\ \A hidden \in saves' \ saves : hidden = edit.meant
<1>1. CASE (\E opener \in {"oracle", "rdb"} : OpenPopup(opener)) \/ ClosePopup \/ CancelEdit \/ UsersListed
  <2>1. popup \in {"closed", "oracle", "rdb"}
    BY DEF AccountInv, AccountTypes
  <2>2. /\ UNCHANGED <<acct, saves>> /\ popup' \in {"closed", "oracle", "rdb"}
        /\ dbList' \in {"asked", dbList} /\ known' \in {None, acct, known}
        /\ edit' = None \/ UNCHANGED <<edit, dbList>>
    BY <1>1, <2>1 DEF OpenPopup, ClosePopup, CancelEdit, UsersListed
  <2> QED
    BY <2>2 DEF AccountInv, AccountTypes, EditInv
<1>2. CASE \E ok \in BOOLEAN : DbListAnswered(ok)
  BY <1>2, ListStep
<1>3. CASE OpenEdit
  BY <1>3, EditStep
<1>4. CASE edit # None /\ \E on \in BOOLEAN :
             \/ \E id \in edit.rows : Tick({id}, on)
             \/ Tick(edit.rows \cap Menu, on) \/ Tick(edit.rows \ Menu, on)
  <2>1. \A id \in edit.rows : {id} \in SUBSET edit.rows
    OBVIOUS
  <2>2. edit.rows \cap Menu \in SUBSET edit.rows /\ edit.rows \ Menu \in SUBSET edit.rows
    OBVIOUS
  <2> QED
    BY <1>4, <2>1, <2>2, TickStep
<1>5. CASE Save
  <2>1. /\ edit # None /\ dbList = "loaded" /\ saves' = saves \cup {edit.unticked}
        /\ UNCHANGED <<acct, popup, dbList, known, edit>>
    BY <1>5 DEF Save, BlockedByDbLoadFailure
  <2>2. edit.unticked = edit.meant /\ edit.unticked \in SUBSET Id
    BY <2>1 DEF AccountInv, AccountTypes, EditInv
  <2> QED
    BY <2>1, <2>2 DEF AccountInv, AccountTypes, EditInv
<1>6. ASSUME NEW hidden \in saves, NEW stored \in BOOLEAN, NEW arrives \in BOOLEAN,
             SaveAnswered(hidden, stored, arrives)
      PROVE  AccountInv' /\ saves' \subseteq saves
  <2>1. /\ saves' = saves \ {hidden} /\ acct' \in {hidden, acct} /\ UNCHANGED <<popup, dbList>>
        /\ edit' \in {None, edit} /\ known' \in {None, known}
    BY <1>6 DEF SaveAnswered
  <2> QED
    BY <2>1 DEF AccountInv, AccountTypes, EditInv
<1> QED
  BY <1>1, <1>2, <1>3, <1>4, <1>5, <1>6 DEF AccountsNext

-----------------------------------------------------------------------------
(* The console                                                             *)

\* A page without rows, requests, rounds or dialogs; or one part of it with every instance.
LEMMA ConsoleInit == Init => ConsoleInv
<1> SUFFICES ASSUME Init
             PROVE  ConsoleInv
  OBVIOUS
<1>1. PanelInv
  <2>1. MenuTypes /\ TsInv /\ LabelInv /\ IncidentInv
    BY DEF Init, PanelsInit, MenuTypes, Section, TsInv, TsTypes, LabelInv, IncidentInv, IncidentsHit, HitsAlarm
  <2>2. TmInv
    <3>1. 0 \in 0..MaxAsked /\ 0 \in 0..MaxTimers /\ 1 \in 0..MaxTimers
      BY BoundAssumption
    <3>2. LoopInv
      BY <3>1 DEF Init, PanelsInit, LoopInv
    <3>3. ListInv /\ tmKills = {}
      BY DEF Init, PanelsInit, ListInv, TickedByUser, RowsOfChosen
    <3> QED
      BY <3>2, <3>3 DEF TmInv
  <2>3. RoundsInv
    BY DEF Init, PanelsInit, RoundsInv, OpenRounds
  <2> QED
    BY <2>1, <2>2, <2>3 DEF PanelInv
<1>2. PerfInv
  BY DEF Init, PerfInit, PerfInv, PerfTypeOK, EventsUnderHeading, OverlayAwaits, AsksInv, NothingSearched
<1>3. PageInv
  <2>1. told.rights = NoRights /\ told \in [token : Account \cup {None}, rights : Profile] /\ told.token = None
    BY DEF Init, NoRights, Profile
  <2>2. PageTypes
    BY <2>1 DEF Init, PanelsInit, PageTypes
  <2>3. SaysWhatIs /\ (check = "asked" => told.token # None)
    BY DEF Init, SaysWhatIs
  <2>4. AccessInv /\ OtherInv
    BY <2>1 DEF Init, AccessInv, OtherInv, Behind, Offered
  <2> QED
    BY <2>2, <2>3, <2>4 DEF PageInv
<1>4. AccountInv
  <2>1. registered \cup Gone \cup Menu \subseteq Id
    BY ListedAssumption, RegistrationsAssumption DEF Init, Id
  <2> QED
    BY <2>1 DEF Init, AccountInv, AccountTypes, EditInv
<1> QED
  BY <1>1, <1>2, <1>3, <1>4 DEF ConsoleInv

\* Steps of the panels leave page and rights alone.
LEMMA PanelsStay ==
  ASSUME PanelsNext
  PROVE  UNCHANGED <<watched, currentDbId>>
<1>1. CASE RefreshTablespaces \/ TsAnswers(tsReqs)
  BY <1>1 DEF RefreshTablespaces, TsAnswers, TablespacesAnswered, menuVars
<1>2. CASE LocksNext
  BY <1>2 DEF LocksNext, LoopTick, TmAnswers, LocksAnswered, RefreshLocks, ToggleLocks, TickLocks, KillLocks,
              LockKillAnswered, menuVars
<1>3. CASE WidgetAnswers \/ \E d \in Databases : TimeLimit(d)
  <2>1. ASSUME NEW r, NEW w, NEW ok, NEW on,
               HeadersArrived(r, w, ok) \/ BodyFailed(r, w) \/ BodyRead(r, w, ok, on) \/ WidgetAborted(r, w)
        PROVE  UNCHANGED <<watched, currentDbId>>
    BY <2>1 DEF HeadersArrived, BodyRead, BodyFailed, WidgetAborted, menuVars
  <2> QED
    BY <1>3, <2>1 DEF WidgetAnswers, TimeLimit
<1>4. CASE PollTick \/ (\E v \in {"v2", "nd"} : SetView(v)) \/ DashboardHook
  BY <1>4 DEF PollTick, SetView, DashboardHook, menuVars
<1>5. CASE IncidentNext
  BY <1>5 DEF IncidentNext, PressIncident, HoldersRead, IncidentKilled, menuVars
<1>6. CASE \E menu \in Section : OpenMenu(menu)
  BY <1>6 DEF OpenMenu
<1> QED
  BY <1>1, <1>2, <1>3, <1>4, <1>5, <1>6 DEF PanelsNext

\* Nor do steps of the analysis.
LEMMA PerfStays ==
  ASSUME PerfNext
  PROVE  UNCHANGED watched
BY DEF PerfNext, PerfAnswers, Search, SelectPart, HistoryTick, SearchAnswered, EventsAnswered, NowAnswered

\* Where nothing of the analysis changes.
LEMMA PerfKept == ASSUME PerfInv, UNCHANGED perfVars PROVE PerfInv'
BY DEF PerfInv, PerfTypeOK, EventsUnderHeading, OverlayAwaits, AsksInv, NothingSearched, perfVars

\* What a step may never do.
StepKeepsRights ==
  /\ KillsAreTicked
  /\ page' = "fleet" /\ page # "fleet" => said' # None /\ CanFleet(said')
  /\ \A hidden \in saves' \ saves : hidden = edit.meant

\* Every step of the console keeps the invariant, and is none of those that may never be.
LEMMA ConsoleStep ==
  ASSUME ConsoleInv, Next
  PROVE  ConsoleInv' /\ StepKeepsRights
<1>1. PanelsBounded /\ (PageNext \/ AccountsNext \/ PanelStep)
  BY DEF Next
<1>2. PanelInv /\ PerfInv /\ PageInv /\ AccountInv
  BY DEF ConsoleInv
<1>3. CASE PageNext
  <2>1. /\ PageInv' /\ (page' = "fleet" /\ page # "fleet" => said' # None /\ CanFleet(said'))
        /\ UNCHANGED <<watched, perfVars, acctVars>>
    BY <1>2, <1>3, PageStep
  <2>2. PanelInv' /\ KillsAreTicked
    <3>1. CASE \E d \in Databases : SelectDatabase(d)
      BY <1>1, <1>2, <3>1, SelectStep
    <3>2. CASE UNCHANGED <<section, lucide, tsVars, tmVars, v2Vars>> /\ currentDbId' \in {currentDbId, None}
      BY <1>2, <3>2, PanelsKept DEF tmVars, KillsAreTicked
    <3> QED
      BY <1>2, <1>3, <3>1, <3>2, PageStep
  <2>3. PerfInv' /\ AccountInv' /\ saves' = saves
    BY <1>2, <2>1, PerfKept, AccountKept DEF acctVars
  <2> QED
    BY <2>1, <2>2, <2>3 DEF ConsoleInv, StepKeepsRights
<1>4. CASE AccountsNext
  <2>1. UNCHANGED <<contentVars, watched, rightVars, pageVars>>
    BY <1>4 DEF AccountsNext, OpenPopup, ClosePopup, UsersListed, DbListAnswered, OpenEdit, CancelEdit, Save,
                Tick, SaveAnswered, acctRest
  <2>2. PanelInv' /\ PerfInv'
    BY <1>2, <2>1, PanelsKept, PerfKept DEF contentVars, panelVars, menuVars
  <2>3. PageInv'
    BY <1>2, <2>1, PageKept DEF contentVars, panelVars, menuVars
  <2>4. AccountInv' /\ \A hidden \in saves' \ saves : hidden = edit.meant
    BY <1>2, <1>4, AccountStep DEF PageInv
  <2>5. tmKills' = tmKills /\ page' = page
    BY <2>1 DEF contentVars, panelVars, tmVars, pageVars
  <2> QED
    BY <2>2, <2>3, <2>4, <2>5 DEF ConsoleInv, StepKeepsRights, KillsAreTicked
<1>5. CASE PanelStep
  <2>1. UNCHANGED <<rightVars, pageVars, acctVars>> /\ ((PanelsNext /\ UNCHANGED perfVars) \/ PerfNext)
    BY <1>5 DEF PanelStep
  <2>2. CASE PanelsNext /\ UNCHANGED perfVars
    <3>1. PanelInv' /\ PerfInv' /\ KillsAreTicked
      BY <1>1, <1>2, <2>2, PanelsStep, PerfKept
    <3>2. PageInv' /\ AccountInv'
      BY <1>2, <2>1, <2>2, PanelsStay, PageKept, AccountKept
    <3> QED
      BY <2>1, <3>1, <3>2 DEF ConsoleInv, StepKeepsRights, pageVars, acctVars
  <2>3. CASE PerfNext
    <3>1. PerfInv' /\ UNCHANGED panelVars /\ watched' = watched
      BY <1>2, <2>3, PerfStep, PerfStays DEF PanelInv
    <3>2. PanelInv'
      BY <1>2, <3>1, PanelsKept DEF panelVars, menuVars
    <3>3. PageInv' /\ AccountInv'
      BY <1>2, <2>1, <3>1, PageKept, AccountKept DEF panelVars, menuVars
    <3> QED
      BY <2>1, <3>1, <3>2, <3>3 DEF ConsoleInv, StepKeepsRights, KillsAreTicked, pageVars, acctVars, panelVars, tmVars
  <2> QED
    BY <2>1, <2>2, <2>3
<1> QED
  BY <1>1, <1>3, <1>4, <1>5

\* Where nothing changes.
LEMMA ConsoleKept ==
  ASSUME ConsoleInv, UNCHANGED vars
  PROVE  ConsoleInv' /\ StepKeepsRights
<1>1. UNCHANGED <<watched, panelVars, perfVars, rightVars, pageVars, acctVars>>
  BY DEF vars, contentVars
<1>2. PanelInv' /\ PerfInv'
  BY <1>1, PanelsKept, PerfKept DEF ConsoleInv, panelVars, menuVars
<1>3. PageInv' /\ AccountInv'
  BY <1>1, PageKept, AccountKept DEF ConsoleInv, panelVars, menuVars
<1> QED
  BY <1>1, <1>2, <1>3 DEF ConsoleInv, StepKeepsRights, KillsAreTicked, panelVars, tmVars, pageVars, acctVars

\* Whichever databases and menus are chosen while requests are on their way, and in whatever
\* order they end: the tablespaces that show without overlay are the chosen database's, the
\* events those of their heading, an overlay over an analysis has something to wait for, and
\* a database is asked for its widgets once at a time.
THEOREM PanelsAreTrue == Spec => []PanelsOfTheirDatabase
<1>1. ConsoleInv /\ [Next]_vars => ConsoleInv'
  BY ConsoleStep, ConsoleKept
<1>2. ConsoleInv => PanelsOfTheirDatabase
  <2> SUFFICES ASSUME ConsoleInv
               PROVE  PanelsOfTheirDatabase
    OBVIOUS
  <2>1. TypeOK
    <3>1. PanelsTypeOK
      BY DEF ConsoleInv, PanelInv, MenuTypes, TsInv, TsTypes, TmInv, LoopInv, ListInv, RoundsInv, LabelInv, IncidentInv,
             PanelsTypeOK, OpenRounds, Round
    <3> QED
      BY <3>1 DEF ConsoleInv, PerfInv, PageInv, PageTypes, AccountInv, AccountTypes, TypeOK
  <2>2. TablespacesOfChosen
    BY DEF ConsoleInv, PanelInv, TsInv, TablespacesOfChosen
  <2>3. OneRoundPerDatabase
    BY RoundsCounted DEF ConsoleInv, PanelInv
  <2> QED
    BY <2>1, <2>2, <2>3 DEF ConsoleInv, PerfInv, PanelsOfTheirDatabase
<1> QED
  BY <1>1, <1>2, ConsoleInit, PTL DEF Spec

\* However often the lock tree is drawn again, and whatever is chosen while the incident
\* button waits: who is ticked was ticked by the user, a KILL of the lock tree goes where
\* they were ticked and one of the incident button to TM holders of the database whose alarm
\* offered it, unless another database was chosen or answered late before the click.
THEOREM KillsAreChosen == Spec => KillsWhomTheUserChose
<1>1. ConsoleInv /\ [Next]_vars => ConsoleInv'
  BY ConsoleStep, ConsoleKept
<1>2. ConsoleInv /\ [Next]_vars => [\A i \in incidents' \ incidents : HitsAlarm(i)]_incidents
  BY <1>1 DEF ConsoleInv, PanelInv, IncidentInv, IncidentsHit
<1>3. ConsoleInv /\ [Next]_vars =>
        [\A k \in tmKills' \ tmKills :
           /\ k.sessions \subseteq {a[2] : a \in tmApproved}
           /\ tmAstray \/ \A s \in k.sessions : <<k.to, s>> \in tmApproved]_<<tmKills, tmApproved, tmAstray>>
  BY ConsoleStep, ConsoleKept DEF StepKeepsRights, KillsAreTicked
<1> QED
  BY <1>1, <1>2, <1>3, ConsoleInit, PTL DEF Spec, KillsWhomTheUserChose, KillsWhereTicked, IncidentHitsAlarm

\* Whoever logs in, out and in again, whatever fails and whatever an administrator changes
\* meanwhile: the page offers, selects and says what the server granted.
THEOREM PageIsOfAccount == Spec => []PageOfAccount
<1>1. ConsoleInv /\ [Next]_vars => ConsoleInv'
  BY ConsoleStep, ConsoleKept
<1>2. ConsoleInv => PageOfAccount
  <2> SUFFICES ASSUME ConsoleInv
               PROVE  PageOfAccount
    OBVIOUS
  <2>1. PageTypes /\ SaysWhatIs /\ AccessInv
    BY DEF ConsoleInv, PageInv
  <2>2. NothingBeforeLogin
    BY <2>1 DEF PageTypes, AccessInv, Behind, Offered, NothingBeforeLogin
  <2>3. SelectedIsAllowed
    <3> SUFFICES ASSUME watched = "access", ({currentDbId, autoSelect} \ {None}) # {}
                 PROVE  said # None /\ ({currentDbId, autoSelect} \ {None}) \subseteq Accessible(said)
      BY DEF SelectedIsAllowed
    <3>1. ({currentDbId, autoSelect} \ {None}) \subseteq links /\ links # {}
      BY <2>1 DEF PageTypes
    <3>2. check = "passed" /\ links \subseteq Accessible(told.rights)
      BY <2>1, <3>1 DEF AccessInv, Behind, Offered
    <3> QED
      BY <2>1, <3>1, <3>2 DEF AccessInv, Behind
  <2>4. NotStranded
    <3> SUFFICES ASSUME watched = "access", config = "built", Accessible(said) # {}, links = {}
                 PROVE  noteLink \in Accessible(said)
      BY DEF NotStranded
    <3>1. told.rights = said
      BY <2>1 DEF AccessInv, Behind
    <3>2. Accessible(said) \cap Databases = {} /\ noteLink = First(Accessible(said) \cap Rdb)
      BY <2>1, <3>1 DEF AccessInv, Offered
    <3>3. Accessible(said) \cap Rdb # {}
      BY <2>1, <3>2, AccessibleIsRegistered
    <3> QED
      BY <2>1, <3>2, <3>3, FirstElsewhere
  <2> QED
    BY <2>1, <2>2, <2>3, <2>4 DEF PageOfAccount
<1> QED
  BY <1>1, <1>2, ConsoleInit, PTL DEF Spec

\* No step gives away a right: the fleet page opens for who may see it, and what is saved
\* for an account is what the administrator meant.
THEOREM RightsAreKept == Spec => RightsKept
<1>1. ConsoleInv /\ [Next]_vars => ConsoleInv'
  BY ConsoleStep, ConsoleKept
<1>2. ConsoleInv /\ [Next]_vars => StepKeepsRights
  BY ConsoleStep, ConsoleKept
<1>3. StepKeepsRights => [page' = "fleet" /\ page # "fleet" => said' # None /\ CanFleet(said')]_<<page, said>>
  BY DEF StepKeepsRights
<1>4. StepKeepsRights => [\A hidden \in saves' \ saves : hidden = edit.meant]_<<saves, edit>>
  BY DEF StepKeepsRights
<1> QED
  BY <1>1, <1>2, <1>3, <1>4, ConsoleInit, PTL DEF Spec, RightsKept, FleetOnlyIfGranted, RestrictionsKept
=============================================================================
