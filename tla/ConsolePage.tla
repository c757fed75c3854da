---------------------------- MODULE ConsolePage ----------------------------
(***************************************************************************)
(* The page around the panels: who is logged in and what the browser was   *)
(* told of their rights (session storage), where the page sends them, which *)
(* instances it offers and which it selects (app.js, dbagent-common.js),   *)
(* and the account popup in which an administrator edits those rights      *)
(* (account-mgmt.html).  For the panels of MonitorPanels the page is one   *)
(* that offers every instance.                                             *)
(***************************************************************************)
EXTENDS PerfAnalysis, SequencesExt

CONSTANTS
  Rdb,            \* instances of the other engines
  Listed,         \* all instances in the order of the configuration
  Registrations,  \* what may be registered
  Gone,           \* ids that are hidden for an account and not registered any more
  Account,
  Profiles,       \* rights an account may have: [admin, hidden, fleet, auto]
  MenuConst,      \* DBAGENT_MENU_GROUPS
  NavOnly,        \* menus of index.html that are missing there
  MaxSaves        \* bound: saves of the popup on their way

ASSUME ListedAssumption ==
  Listed \in Seq(Databases \cup Rdb) /\ IsInjective(Listed) /\ Range(Listed) = Databases \cup Rdb
ASSUME RegistrationsAssumption == Registrations \subseteq SUBSET Range(Listed)

VARIABLES
  registered,   \* instances in the configuration
  server,       \* rights of the accounts, at the server
  valid,        \* does the server still know the token?
  told,         \* sessionStorage
  said,         \* what the server said last of the account logged in (history variable)
  page,         \* "index", "fleet", or an instance of the page of its engine
  jump,         \* ?db_id= of index.html
  check,        \* checkAuth: "asked", "passed", "refused" (the login overlay)
  landing,      \* resolveLandingPage is on its way
  button,       \* the RDB button: "asked", "hidden", "empty" or where it leads
  config,       \* the tree of instances: "none", "asked", "failed", "built"
  links,        \* instances that can be clicked
  autoSelect,   \* the click that waits 100 ms
  note,         \* the explanation in an empty tree: "none", "forbidden", "unregistered"
  noteLink,     \* and where its link leads
  acct,         \* instances and menus hidden for the account that is edited, at the server
  popup,        \* the popup: closed, or whose window opened it
  dbList,       \* its list of instances: "asked", "failed", "loaded"
  known,        \* its list of accounts: what it says of the account, if it is there
  edit,         \* the edit view, if it is open
  saves         \* saved sets on their way to the server

contentVars == <<panelVars, perfVars>>
rightVars == <<registered, server, valid, told, said>>
pageVars == <<page, jump, check, landing, button, config, links, autoSelect, note, noteLink>>
acctVars == <<acct, popup, dbList, known, edit, saves>>
vars == <<watched, contentVars, rightVars, pageVars, acctVars>>

-----------------------------------------------------------------------------
Profile == [admin : BOOLEAN, hidden : SUBSET (Databases \cup Rdb), fleet : BOOLEAN, auto : BOOLEAN]
ASSUME ProfilesAssumption == Profiles \subseteq Profile /\ None \notin Profiles
Menu == MenuConst \cup NavOnly
Id == Databases \cup Rdb \cup Gone \cup Menu
ASSUME MenuAssumption == Menu \cap (Databases \cup Rdb \cup Gone) = {}
ASSUME NameAssumption ==
  Rdb \cap {"index", "fleet", "asked", "hidden", "empty"} = {} /\ None \notin Rdb \cup Account
NoRights == [admin |-> FALSE, hidden |-> {}, fleet |-> FALSE, auto |-> FALSE]
Part == {"access", "accounts", "history", "tablespace", "tmlock", "lockkill", "v2", "incident"}

\* Every variable keeps its type; at most the instances on offer are selected.
TypeOK ==
  /\ PanelsTypeOK /\ PerfTypeOK /\ watched \in Part
  /\ registered \in Registrations /\ server \in [Account -> Profiles] /\ valid \in BOOLEAN
  /\ told \in [token : Account \cup {None}, rights : Profile] /\ said \in Profiles \cup {None}
  /\ page \in {"index", "fleet"} \cup Rdb /\ jump \in Databases \cup Rdb \cup Gone \cup {None}
  /\ check \in {"asked", "passed", "refused"} /\ landing \in BOOLEAN
  /\ button \in {"asked", "hidden", "empty"} \cup Rdb
  /\ config \in {"none", "asked", "failed", "built"} /\ links \subseteq Databases
  /\ autoSelect \in links \cup {None} /\ currentDbId \in links \cup {None}
  /\ note \in {"none", "forbidden", "unregistered"} /\ noteLink \in Rdb \cup {None}
  /\ acct \subseteq Id /\ popup \in {"closed", "oracle", "rdb"}
  /\ dbList \in {"asked", "failed", "loaded"}
  /\ known = None \/ known \subseteq Id
  /\ edit = None \/ edit \in [base : SUBSET Id, rows : SUBSET Id, unticked : SUBSET Id, meant : SUBSET Id]
  /\ saves \subseteq SUBSET Id

-----------------------------------------------------------------------------
\* Rights, as the page judges them from what it was told.

Restricted(rights) == IF rights.admin THEN {} ELSE rights.hidden
\* dbagentAccessibleInstances
Accessible(rights) == registered \ Restricted(rights)
\* canFleetOverview and dbagentCanFleetOverview
CanFleet(rights) == rights.admin \/ rights.fleet
\* acc.rdb[0], or the first instance of the tree
First(instances) ==
  IF instances = {} THEN None ELSE Listed[CHOOSE i \in DOMAIN Listed :
    Listed[i] \in instances /\ \A j \in 1..(i - 1) : Listed[j] \notin instances]

\* What a login or checkAuth stores of the server's answer.
Stored(p) == p

\* emptyOracle and emptyRdb: counted before the rights are applied.
NoneRegistered(kind) == registered \cap kind = {}

-----------------------------------------------------------------------------
\* Loading index.html: the RDB button asks for the configuration before checkAuth.
Fresh(token, j) ==
  /\ page' = "index" /\ jump' = j /\ currentDbId' = None
  /\ check' = IF token = None THEN "refused" ELSE "asked"
  /\ landing' = FALSE /\ button' = "asked" /\ config' = "none"
  /\ links' = {} /\ autoSelect' = None /\ note' = "none" /\ noteLink' = None

panelRest == <<watched, section, lucide, tsVars, tmVars, v2Vars, perfVars>>

\* A bookmark, a reload, a card of the fleet page, the ORACLE button of an RDB page.
Load(j) ==
  /\ watched = "access"
  /\ Fresh(told.token, j)
  /\ UNCHANGED <<panelRest, rightVars, acctVars>>

\* The RDB button judges by what it was told so far.
ButtonDecided(ok) ==
  /\ page = "index" /\ button = "asked"
  /\ LET mine == Accessible(told.rights) IN
     button' = IF ~ok THEN "hidden"
               ELSE IF NoneRegistered(Rdb) THEN "empty"
               ELSE IF told.token # None /\ mine \cap Databases # {} /\ mine \cap Rdb # {}
               THEN First(mine \cap Rdb) ELSE "hidden"
  /\ UNCHANGED <<contentVars, watched, rightVars, page, jump, check, landing, config, links,
                 autoSelect, note, noteLink, acctVars>>

Opens(ok) == ok /\ valid

\* checkAuth after its await, and what follows it in the same turn.
CheckAnswered(ok) ==
  /\ page = "index" /\ check = "asked"
  /\ IF Opens(ok)
     THEN /\ check' = "passed" /\ config' = "asked"
          /\ told' = [told EXCEPT !.rights = Stored(server[told.token])]
          /\ said' = IF ok THEN server[told.token] ELSE None
     ELSE check' = "refused" /\ UNCHANGED <<config, told, said>>
  /\ UNCHANGED <<contentVars, watched, registered, server, valid, page, jump, landing, button, links,
                 autoSelect, note, noteLink, acctVars>>

\* A login that succeeds: to the fleet page, or to find out where to.
Login(a) ==
  /\ page = "index" /\ check = "refused"
  /\ valid' = TRUE /\ said' = server[a]
  /\ told' = [token |-> a, rights |-> Stored(server[a])]
  /\ IF CanFleet(told'.rights) /\ told'.rights.auto
     THEN page' = "fleet" /\ UNCHANGED landing
     ELSE landing' = TRUE /\ UNCHANGED page
  /\ UNCHANGED <<contentVars, watched, registered, server, jump, check, button, config, links,
                 autoSelect, note, noteLink, acctVars>>

\* resolveLandingPage: away from here only if all instances of the account are elsewhere.
LandingAnswered(ok) ==
  /\ page = "index" /\ landing
  /\ LET mine == Accessible(told.rights) IN
     IF ok /\ mine \cap Databases = {} /\ mine \cap Rdb # {}
     THEN /\ page' = First(mine \cap Rdb) /\ landing' = FALSE
          /\ UNCHANGED <<jump, currentDbId, check, button, config, links, autoSelect, note, noteLink>>
     ELSE Fresh(told.token, jump)
  /\ UNCHANGED <<panelRest, rightVars, acctVars>>

\* What is selected without being asked for: the first instance on offer.
FirstOffered(offered) == First(offered)

\* Mutant: whatever the address asks for is selected.
JumpAnyway(offered) == {jump}
JumpsTo(offered) == {jump} \cap offered

OffersLink(offered) == offered = {}

\* The answer of /api/config; a failure has no handler.
ConfigAnswered(ok) ==
  /\ page = "index" /\ config = "asked"
  /\ IF ~ok THEN config' = "failed" /\ UNCHANGED <<page, links, autoSelect, note, noteLink>>
     ELSE IF jump \in registered \cap Rdb
     THEN page' = jump /\ UNCHANGED <<config, links, autoSelect, note, noteLink>>
     ELSE LET offered == Accessible(told.rights) \cap Databases IN
       /\ config' = "built" /\ links' = offered /\ UNCHANGED page
       /\ autoSelect' = IF jump = None THEN IF FirstOffered(offered) \in offered THEN FirstOffered(offered) ELSE None
                        ELSE IF jump \in JumpsTo(offered) \cap registered THEN jump ELSE None
       /\ note' = IF offered # {} THEN "none"
                  ELSE IF NoneRegistered(Databases) THEN "unregistered" ELSE "forbidden"
       /\ noteLink' = IF OffersLink(offered) THEN First(Accessible(told.rights) \cap Rdb) ELSE None
  /\ UNCHANGED <<contentVars, watched, rightVars, jump, check, landing, button, acctVars>>

\* The 100 ms are over: the click on the instance.
AutoSelect ==
  /\ page = "index" /\ autoSelect # None
  /\ SelectDatabase(autoSelect) /\ autoSelect' = None
  /\ UNCHANGED <<perfVars, rightVars, page, jump, check, landing, button, config, links, note, noteLink, acctVars>>

\* A click on an instance in the tree; the dropdown over the title clicks the same
\* link, unless it is the chosen one's.
ClickInstance(d) ==
  /\ page = "index" /\ d \in links
  /\ SelectDatabase(d)
  /\ UNCHANGED <<perfVars, rightVars, pageVars, acctVars>>

\* The RDB button or the link in the note.
Leave ==
  /\ page = "index" /\ check = "passed"
  /\ \/ button \in Rdb /\ page' = button
     \/ noteLink # None /\ page' = noteLink
     \/ CanFleet(told.rights) /\ page' = "fleet"
  /\ UNCHANGED <<contentVars, watched, rightVars, jump, check, landing, button, config, links,
                 autoSelect, note, noteLink, acctVars>>

\* What a logout forgets: everything, but a new password keeps the fleet flags.
Forgotten(newPassword) ==
  IF newPassword THEN [NoRights EXCEPT !.fleet = told.rights.fleet, !.auto = told.rights.auto] ELSE NoRights
\* The turn after the awaited request, in which the token goes and the page reloads.  While
\* the request is under way the page just goes on, and on the server the session may have
\* ended already, as after Expire.
Logout(newPassword) ==
  /\ page = "index" /\ check = "passed" /\ watched = "access"
  /\ told' = [token |-> None, rights |-> Forgotten(newPassword)]
  /\ valid' = FALSE /\ said' = None
  /\ Fresh(None, jump)
  /\ UNCHANGED <<panelRest, registered, server, acctVars>>

\* Elsewhere: the session expires, an administrator changes somebody's rights.
Expire ==
  /\ watched = "access" /\ valid /\ valid' = FALSE
  /\ UNCHANGED <<contentVars, watched, registered, server, told, said, pageVars, acctVars>>
ChangeRights(a, p) ==
  /\ watched = "access" /\ server' = [server EXCEPT ![a] = p]
  /\ UNCHANGED <<contentVars, watched, registered, valid, told, said, pageVars, acctVars>>

-----------------------------------------------------------------------------
\* The account popup, on one account.

\* dbagentMenuGroups: with the menus of the page that opened the popup, if it has any.
MenuItems == MenuConst \cup (IF popup = "oracle" THEN NavOnly ELSE {})

\* Mutant: an id that is not in the list has no row.
RowsKnown(items, hidden) == items
\* withUnknown, and the group of unknown menus: a hidden id always has a row.
RowsFor(items, hidden) == items \cup hidden

DbRows(hidden) == RowsFor(registered, hidden \ Menu)
MenuRows(hidden) == RowsFor(MenuItems, hidden \cap Menu)

acctRest == <<contentVars, watched, rightVars, pageVars>>

OpenPopup(opener) ==
  /\ watched = "accounts" /\ popup = "closed" /\ popup' = opener
  /\ dbList' = "asked" /\ known' = None /\ edit' = None
  /\ UNCHANGED <<acctRest, acct, saves>>
ClosePopup ==
  /\ popup # "closed" /\ popup' = "closed"
  /\ dbList' = "asked" /\ known' = None /\ edit' = None
  /\ UNCHANGED <<acctRest, acct, saves>>

\* loadUserList: nobody can be chosen while the list is fetched or where that failed.
UsersListed ==
  /\ popup # "closed" /\ known = None /\ known' = acct
  /\ UNCHANGED <<acctRest, acct, popup, dbList, edit, saves>>

\* The instances arrive, or not: the view that is open is drawn again.
DbListAnswered(ok) ==
  /\ popup # "closed" /\ dbList = "asked"
  /\ dbList' = IF ok THEN "loaded" ELSE "failed"
  /\ edit' = IF edit = None \/ ~ok THEN edit
             ELSE [edit EXCEPT !.rows = @ \cup DbRows(edit.base),
                               !.unticked = @ \cup (edit.base \cap DbRows(edit.base))]
  /\ UNCHANGED <<acctRest, acct, popup, known, saves>>

\* showEditView
OpenEdit ==
  /\ popup # "closed" /\ edit = None /\ known # None
  /\ LET rows == MenuRows(known) \cup (IF dbList = "loaded" THEN DbRows(known) ELSE {})
     IN edit' = [base |-> known, rows |-> rows, unticked |-> rows \cap known, meant |-> known]
  /\ UNCHANGED <<acctRest, acct, popup, dbList, known, saves>>

CancelEdit == edit # None /\ edit' = None /\ UNCHANGED <<acctRest, acct, popup, dbList, known, saves>>

\* A box, or the box over all instances or all menus; "meant" is what the user meant.
Tick(ids, on) ==
  /\ edit # None /\ ids # {}
  /\ edit' = IF on THEN [edit EXCEPT !.unticked = @ \ ids, !.meant = @ \ ids]
                   ELSE [edit EXCEPT !.unticked = @ \cup ids, !.meant = @ \cup ids]
  /\ UNCHANGED <<acctRest, acct, popup, dbList, known, saves>>

BlockedByDbLoadFailure == dbList # "loaded"

\* The save button: collectHidden.
Save ==
  /\ edit # None /\ ~BlockedByDbLoadFailure
  /\ saves' = saves \cup {edit.unticked}
  /\ UNCHANGED <<acctRest, acct, popup, dbList, known, edit>>

\* The server stores it, or not; the answer, if it arrives, closes the view and asks
\* for the accounts again.
SaveAnswered(hidden, stored, arrives) ==
  /\ hidden \in saves /\ saves' = saves \ {hidden}
  /\ acct' = IF stored THEN hidden ELSE acct
  /\ IF popup # "closed" /\ stored /\ arrives THEN edit' = None /\ known' = None ELSE UNCHANGED <<edit, known>>
  /\ UNCHANGED <<acctRest, popup, dbList>>

-----------------------------------------------------------------------------
Init ==
  /\ watched \in Part /\ PanelsInit /\ PerfInit
  /\ registered \in Registrations /\ server \in [Account -> Profiles]
  /\ valid = FALSE /\ told = [token |-> None, rights |-> NoRights] /\ said = None
  /\ page = "index" /\ jump = None /\ landing = FALSE /\ autoSelect = None
  /\ note = "none" /\ noteLink = None
  /\ IF watched = "access"
     THEN check = "refused" /\ button = "asked" /\ config = "none" /\ links = {}
     ELSE check = "passed" /\ button = "hidden" /\ config = "built" /\ links = Databases
  /\ watched # "access" =>    \* nothing else looks at rights; rows of instances are alike
       /\ server = [a \in Account |-> CHOOSE p \in Profiles : TRUE]
       /\ registered \subseteq Databases /\ Cardinality(registered) = 1
  /\ acct \in (IF watched = "accounts" THEN SUBSET (registered \cup Gone \cup Menu) ELSE {{}})
  /\ popup = "closed" /\ dbList = "asked" /\ known = None /\ edit = None /\ saves = {}

Configured == \E ok \in BOOLEAN : ConfigAnswered(ok)
Selectable == \E d \in Databases : watched # "accounts" /\ ClickInstance(d)

PageNext ==
  \/ \E j \in registered \cup Gone \cup {None} : Load(j)
  \/ \E ok \in BOOLEAN : ButtonDecided(ok) \/ CheckAnswered(ok) \/ LandingAnswered(ok)
  \/ Configured \/ AutoSelect \/ Selectable
  \/ \E a \in Account : Login(a) \/ \E p \in Profiles : ChangeRights(a, p)
  \/ Leave \/ Expire \/ \E newPassword \in BOOLEAN : Logout(newPassword)

AccountsNext ==
  \/ \E opener \in {"oracle", "rdb"} : OpenPopup(opener)
  \/ ClosePopup \/ UsersListed \/ OpenEdit \/ CancelEdit \/ Save
  \/ \E ok \in BOOLEAN : DbListAnswered(ok)
  \/ edit # None /\ \E on \in BOOLEAN :
       \/ \E id \in edit.rows : Tick({id}, on)
       \/ Tick(edit.rows \cap Menu, on) \/ Tick(edit.rows \ Menu, on)
  \/ \E hidden \in saves, stored, arrives \in BOOLEAN : SaveAnswered(hidden, stored, arrives)

PanelStep ==
  /\ \/ PanelsNext /\ UNCHANGED perfVars
     \/ PerfNext
  /\ UNCHANGED <<rightVars, pageVars, acctVars>>
Next == (PageNext \/ AccountsNext \/ PanelStep) /\ PanelsBounded /\ Cardinality(saves') <= MaxSaves

\* Timers fire, the request for the configuration is answered or fails, and every request
\* of the dashboard that waits for its headers has a time limit of its own.  A behaviour
\* follows one part, so the timers never wait for one another.
Timers ==
  \/ Configured \/ AutoSelect
  \/ /\ \/ HistoryTick
        \/ LoopTick /\ PanelsBounded /\ UNCHANGED perfVars
     /\ UNCHANGED <<rightVars, pageVars, acctVars>>
Service(d) == TimeLimit(d) /\ UNCHANGED <<perfVars, rightVars, pageVars, acctVars>>
Clock(d) == ClockRead(d) /\ UNCHANGED <<rightVars, pageVars, acctVars>>

Spec == Init /\ [][Next]_vars
FairSpec ==
  /\ Spec
  /\ WF_vars(Timers) /\ \A d \in Databases : WF_vars(Service(d)) /\ SF_vars(Clock(d))

-----------------------------------------------------------------------------
\* Behind the login overlay there is nothing: no instance is offered or selected
\* before the server has said who it is, also where its check failed.
NothingBeforeLogin ==
  watched = "access" /\ (check # "passed" \/ said = None) =>
    links = {} /\ currentDbId = None /\ autoSelect = None /\ noteLink = None

\* What is selected, asked for by the address, by default or by a click, is registered
\* and open to the account, as the server said.
SelectedIsAllowed ==
  watched = "access" /\ ({currentDbId, autoSelect} \ {None}) # {} =>
    /\ said # None
    /\ ({currentDbId, autoSelect} \ {None}) \subseteq Accessible(said)

\* Whoever may use something finds a way to it on the finished page.
NotStranded ==
  watched = "access" /\ page = "index" /\ config = "built" /\ Accessible(said) # {} =>
    links # {} \/ noteLink \in Accessible(said)

\* "None is registered" is only said where that is so, and not of an account that may
\* not use what there is.
SaysWhatIs ==
  /\ button = "empty" => registered \cap Rdb = {}
  /\ note = "unregistered" => registered \cap Databases = {}
  /\ note = "forbidden" => registered \cap Databases # {}

\* Nobody is sent to the fleet page who has no right to it, whoever used the browser
\* before and however they left.
FleetOnlyIfGranted == [][page' = "fleet" /\ page # "fleet" => said' # None /\ CanFleet(said')]_<<page, said>>

\* What is saved for an account is what it had, changed by the boxes the administrator
\* clicked: nothing is opened because a list was not there, or an id not in it.
RestrictionsKept == [][\A hidden \in saves' \ saves : hidden = edit.meant]_<<saves, edit>>

\* A page that opens for an account with an instance to look at comes to show one.
Settles == watched = "access" /\ page = "index" /\ check = "passed" /\ jump = None /\ links # {}
SomethingIsSelected == Settles ~> (currentDbId # None \/ ~Settles)

\* The tablespaces that can be seen are the chosen database's, events stand under the
\* heading of their range, an overlay has something to wait for, and a database is asked
\* for its widgets once at a time.
PanelsOfTheirDatabase ==
  TypeOK /\ TablespacesOfChosen /\ OneRoundPerDatabase /\ EventsUnderHeading /\ OverlayAwaits

\* A KILL from the lock tree or the overview hits whom the user ticked or the alarm named,
\* in the database that was ticked or raised it, unless the user went to another one first.
KillsWhomTheUserChose == KillsWhereTicked /\ IncidentHitsAlarm

\* Nothing is offered or selected that the server did not grant, whoever may use something
\* finds a way to it, and what the page says of registrations is so.  (The RDB button is
\* judged by what was told before the check.)
PageOfAccount == NothingBeforeLogin /\ SelectedIsAllowed /\ NotStranded /\ SaysWhatIs

\* No step of the page gives away a right: nobody comes to the fleet page without it, and
\* saving an account opens nothing the administrator did not open.
RightsKept == FleetOnlyIfGranted /\ RestrictionsKept

\* Nothing on the page waits for ever, unless an answer stops half-way: rounds end, widgets
\* come to show the chosen database, the lock loop and the analysis come, an instance is
\* selected.
PageGoesOn == RoundsEnd /\ WidgetsSettle /\ LoopGoesOn /\ AnalysisArrives /\ SomethingIsSelected
=============================================================================
