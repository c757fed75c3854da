------------------------------ MODULE AiPages ------------------------------
(***************************************************************************)
(* The pages of app.js on which a user sends a text and waits: the AI DBA  *)
(* menu (tuning, current SQL, SQL writer, chat, error search) and the SQL  *)
(* runner.  They share the account lists and otherwise nothing, so a       *)
(* behaviour follows one part: the simple pages, the bind variables of the *)
(* current SQL, its analysis, the SQL writer, or the rendering of one      *)
(* answer.  The user is the administrator, who has the bind variables.     *)
(***************************************************************************)
EXTENDS Naturals, Sequences, FiniteSets, SequencesExt

CONSTANTS
  Databases,
  Query,        \* SQL texts
  Bind,         \* bind variables
  BindsOf,      \* extractTunnerCurrentBindNames: the bind variables of a text
  Owner, Name,  \* a table is an owner and a name
  None,
  CollapseAt,   \* TUNNER_CURRENT_BIND_COLLAPSE_THRESHOLD
  MaxAsked,     \* bound: requests of one kind on their way
  MaxTables,    \* bound: tables added to the SQL writer
  MaxLines      \* bound: lines of an answer

ASSUME NoneAssumption == None \notin Query \cup Databases
ASSUME BindAssumption == BindsOf \in [Query \cup {None} -> SUBSET Bind] /\ BindsOf[None] = {}
ASSUME BoundAssumption == {CollapseAt, MaxAsked, MaxTables, MaxLines} \subseteq Nat

VARIABLES
  watched,      \* "pages", "binds", "current", "writer" or "answer"
  page,         \* per simple page: [asked, enabled, shown]
  view,         \* the AI DBA view and the tab of the tuner: [aidba, tab, lit]
  accounts,     \* account list of a page: [asked, of], and the chosen database
  query,        \* tunner-current-input
  binds,        \* tunnerCurrentBindValues: the names that have a value
  expanded,     \* tunnerCurrentBindExpanded
  fieldsShown,  \* is the list of fields displayed?
  fields, filled,       \* the fields drawn last, and those that show a value
  capturing,    \* is the button of bind_capture disabled, its request on its way?
  checks,       \* quick checks on their way, with their query
  checkOn, analyzeOn,   \* is the button enabled?
  lastPlan,     \* tunnerCurrentLastPlan: the query it was measured for
  result,       \* what tunner-current-result shows
  analyses,     \* analyses and follow-ups on their way
  history,      \* tunnerCurrentAnswerHistory: below which plans its answers stand
  strayed,      \* history variable: was the plan, or the text, another statement's?
  contextAstray,        \* history variable: did an answer join the context of others?
  tables, chips,        \* sqlWriterTables, and the list drawn of it
  pending, preview,     \* sqlWriterPendingTable, and the preview drawn of it
  lookups, lookupOn,    \* table lookups on their way
  generating, generateOn,
  reader        \* the loop over the lines of an answer

pagesVars == <<page, view, accounts>>
bindVars == <<binds, expanded, fieldsShown, fields, filled, capturing>>
planVars == <<checks, checkOn, analyzeOn, lastPlan, result, analyses, history, strayed, contextAstray>>
currentVars == <<query, bindVars, planVars>>
writerVars == <<tables, chips, pending, preview, lookups, lookupOn, generating, generateOn>>
vars == <<watched, pagesVars, currentVars, writerVars, reader>>

-----------------------------------------------------------------------------
Page == {"tuning", "advisor", "search", "chat", "runner"}
\* The pages whose handler returns while its button is disabled.
Guarded == {"tuning", "advisor"}
View == {"tunner", "chatbot", "writer", "regex"}
TunnerTab == {"current", "advice"}
Table == Owner \X Name
LineKind == {"fence", "blank", "heading", "rule", "bullet", "text"}

Idle == [asked |-> 0, enabled |-> TRUE, shown |-> "empty"]
NoResult == [shown |-> "empty", plan |-> None, analysis |-> "none", of |-> None]
NoReader == [rest |-> <<>>, read |-> 0, inCode |-> FALSE, code |-> 0, afterBlock |-> TRUE,
             gap |-> FALSE, html |-> <<>>, over |-> TRUE]

\* A request for an analysis: the text and the plan it sends, the plan below which its
\* answer goes, whether that place is on the page.  The number tells equal ones apart.
Request == [nr : 1..MaxAsked, query : Query \cup {None}, plan : Query \cup {None}, below : Query,
            attached : BOOLEAN, followup : BOOLEAN]

TypeOK ==
  /\ watched \in {"pages", "binds", "current", "writer", "answer"}
  /\ page \in [Page -> [asked : 0..MaxAsked, enabled : BOOLEAN,
                        shown : {"empty", "running", "answer", "error"}]]
  /\ view \in [aidba : View, tab : TunnerTab, lit : SUBSET TunnerTab]
  /\ accounts \in [db : Databases, asked : SUBSET Databases, of : Databases \cup {None}]
  /\ query \in Query \cup {None} /\ binds \subseteq Bind /\ fields \subseteq Bind /\ filled \subseteq Bind
  /\ expanded \in BOOLEAN /\ fieldsShown \in BOOLEAN /\ capturing \in BOOLEAN
  /\ checks \subseteq Query /\ checkOn \in BOOLEAN /\ analyzeOn \in BOOLEAN
  /\ lastPlan \in Query \cup {None}
  /\ result \in [shown : {"empty", "running", "error", "plan"}, plan : Query \cup {None},
                 analysis : {"none", "running", "error", "typing", "typed"}, of : Query \cup {None}]
  /\ analyses \subseteq Request /\ history \subseteq Query
  /\ strayed \in BOOLEAN /\ contextAstray \in BOOLEAN
  /\ tables \in Seq(Table) /\ chips \in Seq(Table)
  /\ pending \in Table \cup {None} /\ preview \in Table \cup {None}
  /\ lookups \in 0..MaxAsked /\ lookupOn \in BOOLEAN
  /\ generating \in 0..MaxAsked /\ generateOn \in BOOLEAN
  /\ reader.rest \in Seq(LineKind) /\ reader.html \in Seq(LineKind \cup {"gap", "newline", "pre"})

Init ==
  /\ watched \in {"pages", "binds", "current", "writer", "answer"}
  /\ page = [p \in Page |-> Idle]
  /\ view = [aidba |-> "tunner", tab |-> "current", lit |-> {"current"}]
  /\ accounts \in [db : Databases, asked : {{}}, of : {None}]
  /\ query = None /\ binds = {} /\ expanded = FALSE /\ capturing = FALSE
  /\ fieldsShown = FALSE /\ fields = {} /\ filled = {} /\ checks = {}
  /\ checkOn = TRUE /\ analyzeOn = FALSE /\ lastPlan = None
  /\ result = NoResult /\ analyses = {} /\ history = {} /\ strayed = FALSE /\ contextAstray = FALSE
  /\ tables = <<>> /\ chips = <<>> /\ pending = None /\ preview = None
  /\ lookups = 0 /\ lookupOn = TRUE /\ generating = 0 /\ generateOn = FALSE
  /\ reader = NoReader

-----------------------------------------------------------------------------
\* The simple pages.

\* runSqlTuning and run: button and key do nothing while the button is disabled.
MayAsk(p) == p \in Guarded => page[p].enabled

\* doErrorSearch, doChatSend and runSql, and the other two, up to their request;
\* the error search has no button to disable.
Ask(p) ==
  /\ watched = "pages" /\ MayAsk(p)
  /\ page' = [page EXCEPT ![p] = [asked |-> @.asked + 1, enabled |-> p = "search", shown |-> "running"]]
  /\ UNCHANGED <<watched, view, accounts, currentVars, writerVars, reader>>

\* Mutant: an answer that reports a failure leaves the spinner.
ShownOnSuccess(old, ok) == IF ok THEN "answer" ELSE old
ShownAfter(old, ok) == IF ok THEN "answer" ELSE "error"

\* ... and the rest of them, success, failure and broken connection alike.
Answered(p, ok) ==
  /\ page[p].asked > 0
  /\ page' = [page EXCEPT ![p] = [asked |-> @.asked - 1, enabled |-> TRUE,
                                  shown |-> ShownAfter(@.shown, ok)]]
  /\ UNCHANGED <<watched, view, accounts, currentVars, writerVars, reader>>

\* The clear buttons; they stop nothing that is on its way.
Clear(p) ==
  /\ watched = "pages" /\ p # "search"
  /\ page' = [page EXCEPT ![p].shown = "empty"]
  /\ UNCHANGED <<watched, view, accounts, currentVars, writerVars, reader>>

\* refreshTunnerTabStyles: a tab is lit while the tuner is the view.
LitTabs(aidba, tab) == IF aidba = "tunner" THEN {tab} ELSE {}
ActivateView(aidba, tab) == view' = [aidba |-> aidba, tab |-> tab, lit |-> LitTabs(aidba, tab)]

\* The button of the tuner leads to its default tab, the others to their view.
ClickView(v) ==
  /\ watched = "pages"
  /\ ActivateView(v, IF v = "tunner" THEN "current" ELSE view.tab)
  /\ UNCHANGED <<watched, page, accounts, currentVars, writerVars, reader>>
ClickTunnerTab(t) ==
  /\ watched = "pages"
  /\ ActivateView("tunner", t)
  /\ UNCHANGED <<watched, page, accounts, currentVars, writerVars, reader>>

-----------------------------------------------------------------------------
\* loadSqlRunnerAccounts and its two siblings: asked for the chosen database
\* when the menu is opened or the database chosen, shown when it is there.
LoadAccounts(d) ==
  /\ watched = "pages"
  /\ accounts' = [accounts EXCEPT !.db = d, !.asked = @ \cup {d}]
  /\ UNCHANGED <<watched, page, view, currentVars, writerVars, reader>>
AccountsLoaded(d) ==
  /\ d \in accounts.asked
  /\ accounts' = [accounts EXCEPT !.asked = @ \ {d}, !.of = d]
  /\ UNCHANGED <<watched, page, view, currentVars, writerVars, reader>>

-----------------------------------------------------------------------------
\* The bind variables of the current SQL.

Collapses(q) == Cardinality(BindsOf[q]) > CollapseAt

\* renderTunnerCurrentBindFields: nothing is drawn while the fields are folded.
DrawFields(q, values, open) ==
  /\ fieldsShown' = (BindsOf[q] # {} /\ (Collapses(q) => open))
  /\ IF fieldsShown' \/ BindsOf[q] = {}
     THEN fields' = BindsOf[q] /\ filled' = values \cap BindsOf[q]
     ELSE UNCHANGED <<fields, filled>>

\* What is typed in a field is the value of its variable.
TypeValue(b, given) ==
  /\ watched = "binds" /\ fieldsShown /\ b \in fields
  /\ binds' = IF given THEN binds \cup {b} ELSE binds \ {b}
  /\ filled' = IF given THEN filled \cup {b} ELSE filled \ {b}
  /\ UNCHANGED <<watched, pagesVars, query, expanded, fieldsShown, fields, capturing, planVars,
                 writerVars, reader>>

\* The button that folds and unfolds is there when the fields are many.
Toggle ==
  /\ watched = "binds" /\ Collapses(query)
  /\ expanded' = ~expanded /\ DrawFields(query, binds, ~expanded)
  /\ UNCHANGED <<watched, pagesVars, query, binds, capturing, planVars, writerVars, reader>>

\* bind_capture, of the statement whose hash value is in the box beside the fields:
\* its values are added to those there are by then, and the fields unfolded.
CaptureBinds ==
  /\ watched = "binds" /\ ~capturing /\ BindsOf[query] # {}
  /\ capturing' = TRUE
  /\ UNCHANGED <<watched, pagesVars, query, binds, expanded, fieldsShown, fields, filled, planVars,
                 writerVars, reader>>
CaptureAnswered(ok, values) ==
  /\ capturing /\ capturing' = FALSE
  /\ IF ok THEN /\ binds' = binds \cup values /\ expanded' = TRUE
                /\ DrawFields(query, binds \cup values, TRUE)
           ELSE UNCHANGED <<binds, expanded, fieldsShown, fields, filled>>
  /\ UNCHANGED <<watched, pagesVars, query, planVars, writerVars, reader>>

-----------------------------------------------------------------------------
\* The analysis of the current SQL.

\* Everything in tunner-current-result is replaced: what was typed or awaited
\* in it belongs to an element nobody sees.
Detach(reqs) == {[r EXCEPT !.attached = FALSE] : r \in reqs}
\* renderTunnerCurrentPlan
RenderPlan(q) ==
  /\ result' = [shown |-> "plan", plan |-> q, analysis |-> "none", of |-> None]
  /\ analyses' = Detach(analyses)
RenderHandedPlan(q) == RenderPlan(q)
RenderText(shown) == result' = [NoResult EXCEPT !.shown = shown] /\ analyses' = Detach(analyses)

\* Mutant: an edit drops the answers and keeps the plan.
ForgetContext == history' = {} /\ strayed' = FALSE /\ contextAstray' = FALSE /\ UNCHANGED lastPlan
\* tunnerCurrentLastPlan = null and tunnerCurrentAnswerHistory = [].
Forget == lastPlan' = None /\ history' = {} /\ strayed' = FALSE /\ contextAstray' = FALSE

\* The input handler: another text locks the analysis until it was checked.
Edit(q) ==
  /\ watched \in {"binds", "current"}
  /\ query' = q /\ DrawFields(q, binds, expanded)
  /\ Forget /\ analyzeOn' = FALSE
  /\ UNCHANGED <<watched, pagesVars, binds, expanded, capturing, checks, checkOn, result, analyses,
                 writerVars, reader>>

\* A click on a disabled button does nothing, the key clicks it too.
MayCheck == checkOn

QuickCheck ==
  /\ watched = "current" /\ query # None /\ MayCheck
  /\ checks' = checks \cup {query} /\ checkOn' = FALSE
  /\ Forget /\ analyzeOn' = FALSE
  /\ RenderText("running")
  /\ UNCHANGED <<watched, pagesVars, query, bindVars, writerVars, reader>>

\* Its answer is shown whatever the text in the box is by then.
QuickCheckAnswered(q, ok) ==
  /\ q \in checks
  /\ checks' = checks \ {q} /\ checkOn' = TRUE
  /\ IF ok THEN lastPlan' = q /\ strayed' = (q # query) /\ analyzeOn' = TRUE /\ RenderPlan(q)
           ELSE RenderText("error") /\ UNCHANGED <<lastPlan, strayed, analyzeOn>>
  /\ UNCHANGED <<watched, pagesVars, query, bindVars, history, contextAstray, writerVars, reader>>

\* A new request with the text and the plan there are, for the place below the plan shown.
\* The bind values go along as they are.
Sent(followup) == [nr |-> CHOOSE n \in 1..MaxAsked : \A r \in analyses : r.nr # n,
                   query |-> query, plan |-> lastPlan, below |-> result.plan,
                   attached |-> TRUE, followup |-> followup]
FreeNumber == \E n \in 1..MaxAsked : \A r \in analyses : r.nr # n

\* Emptying the place of an analysis takes the follow-up questions in it off the page.
WithoutFollowUps(reqs) == {r \in reqs : ~r.followup} \cup Detach({r \in reqs : r.followup})

\* The click on the analysis, up to its request: the context of the last one is dropped.
Analyze ==
  /\ watched = "current" /\ analyzeOn /\ lastPlan # None /\ result.shown = "plan" /\ FreeNumber
  /\ analyzeOn' = FALSE
  /\ history' = {} /\ contextAstray' = FALSE
  /\ result' = [result EXCEPT !.analysis = "running", !.of = None]
  /\ analyses' = WithoutFollowUps(analyses) \cup {Sent(FALSE)}
  /\ UNCHANGED <<watched, pagesVars, query, bindVars, checks, checkOn, lastPlan, strayed, writerVars, reader>>

\* The answer goes to the element that was there when it was asked for.
HasPlace(r) == r.attached

\* A failure leaves the context as it is; an answer begins or continues it, seen or not.
AnalysisAnswered(r, ok) ==
  /\ r \in analyses
  /\ analyzeOn' = (analyzeOn \/ ~r.followup)
  /\ IF HasPlace(r) /\ ~r.followup
     THEN /\ result' = [result EXCEPT !.analysis = IF ok THEN "typing" ELSE "error", !.of = r.plan]
          /\ analyses' = WithoutFollowUps(analyses \ {r})
     ELSE result' = result /\ analyses' = analyses \ {r}
  /\ history' = IF ~ok THEN history ELSE IF r.followup THEN history \cup {r.below} ELSE {r.below}
  /\ contextAstray' = IF ok THEN ~r.attached \/ (r.followup /\ contextAstray) ELSE contextAstray
  /\ UNCHANGED <<watched, pagesVars, query, bindVars, checks, checkOn, lastPlan, strayed, writerVars, reader>>

\* typeHtmlInto: after the last letter the follow-up question is offered; the loop stops
\* without it when its element has left the page.
TypingEnds ==
  /\ result.analysis = "typing"
  /\ result' = [result EXCEPT !.analysis = "typed"]
  /\ UNCHANGED <<watched, pagesVars, query, bindVars, checks, checkOn, analyzeOn, lastPlan,
                 analyses, history, strayed, contextAstray, writerVars, reader>>

\* renderTunnerCurrentFollowup and submitFollowup: one question at a time, with the text
\* and the plan there are by then.
FollowUp ==
  /\ result.analysis = "typed" /\ FreeNumber
  /\ ~\E r \in analyses : r.followup /\ r.attached
  /\ analyses' = analyses \cup {Sent(TRUE)}
  /\ UNCHANGED <<watched, pagesVars, query, bindVars, checks, checkOn, analyzeOn, lastPlan,
                 result, history, strayed, contextAstray, writerVars, reader>>

ClearCurrent ==
  /\ watched \in {"binds", "current"}
  /\ query' = None /\ binds' = {} /\ expanded' = FALSE /\ DrawFields(None, {}, FALSE)
  /\ Forget /\ analyzeOn' = FALSE
  /\ RenderText("empty")
  /\ UNCHANGED <<watched, pagesVars, capturing, checks, checkOn, writerVars, reader>>

\* openSqlTuningFromPopup: the session's text and binds, and its plan if it has one.
HandOver(q, values, hasPlan) ==
  /\ watched \in {"binds", "current"}
  /\ query' = q /\ binds' = values /\ DrawFields(q, values, expanded)
  /\ IF hasPlan
     THEN lastPlan' = q /\ strayed' = FALSE /\ analyzeOn' = TRUE /\ RenderHandedPlan(q)
     ELSE /\ strayed' = (strayed \/ lastPlan \notin {None, q})
          /\ UNCHANGED <<lastPlan, analyzeOn, result, analyses>>
  /\ UNCHANGED <<watched, pagesVars, expanded, capturing, checks, checkOn, history, contextAstray,
                 writerVars, reader>>

-----------------------------------------------------------------------------
\* The SQL writer.

\* renderSqlWriterTableList
DrawTables(ts) == chips' = ts /\ generateOn' = (ts # <<>>)

PreviewHidden == preview' = None

\* doLookup up to its request, by button, key or the choice of an owner.
Lookup ==
  /\ watched = "writer" /\ lookupOn
  /\ lookupOn' = FALSE /\ lookups' = lookups + 1
  /\ pending' = None /\ PreviewHidden
  /\ UNCHANGED <<watched, pagesVars, currentVars, tables, chips, generating, generateOn, reader>>

\* The rest of it: a table, several owners to choose from, or a failure.
LookupAnswered(t) ==
  /\ lookups > 0
  /\ lookups' = lookups - 1 /\ lookupOn' = TRUE
  /\ pending' = IF t = None THEN pending ELSE t
  /\ preview' = IF t = None THEN preview ELSE t     \* formatTablePreview
  /\ UNCHANGED <<watched, pagesVars, currentVars, tables, chips, generating, generateOn, reader>>

\* A table of the same name is replaced, whoever owns it: the others are kept in order.
Others(ts, name) ==
  LET Kept[i \in 0..Len(ts)] ==
        IF i = 0 THEN <<>>
        ELSE IF ts[i][2] = name THEN Kept[i - 1] ELSE Append(Kept[i - 1], ts[i])
  IN Kept[Len(ts)]
Added(ts, t) == Append(Others(ts, t[2]), t)

AddTable ==
  /\ watched = "writer" /\ pending # None
  /\ tables' = Added(tables, pending) /\ DrawTables(tables')
  /\ pending' = None /\ preview' = None
  /\ UNCHANGED <<watched, pagesVars, currentVars, lookups, lookupOn, generating, reader>>

\* Mutant: the list is not drawn again, its other crosses keep their index.
ChipsWithout(ts, i) == chips' = RemoveAt(chips, i) /\ generateOn' = (ts # <<>>) /\ tables' = ts
DrawWithout(ts, i) == tables' = RemoveAt(ts, i) /\ DrawTables(tables')
\* The cross of a chip removes the table at the index it was drawn with.
RemoveTable(i) ==
  /\ i \in DOMAIN chips
  /\ DrawWithout(tables, i)
  /\ UNCHANGED <<watched, pagesVars, currentVars, pending, preview, lookups, lookupOn, generating, reader>>

\* runGenerate; its answer gives the SQL and the buttons that pass it on.
Generate ==
  /\ watched = "writer" /\ generateOn /\ tables # <<>>
  /\ generateOn' = FALSE /\ generating' = generating + 1
  /\ UNCHANGED <<watched, pagesVars, currentVars, tables, chips, pending, preview, lookups, lookupOn, reader>>
GenerateAnswered ==
  /\ generating > 0
  /\ generating' = generating - 1 /\ generateOn' = TRUE
  /\ UNCHANGED <<watched, pagesVars, currentVars, tables, chips, pending, preview, lookups, lookupOn, reader>>

ClearWriter ==
  /\ watched = "writer"
  /\ tables' = <<>> /\ pending' = None /\ preview' = None /\ DrawTables(<<>>)
  /\ UNCHANGED <<watched, pagesVars, currentVars, lookups, lookupOn, generating, reader>>

-----------------------------------------------------------------------------
\* formatAiMarkdownAnswer and formatAdvisorAnswer, line by line.

StartAnswer(lines) ==
  /\ watched = "answer" /\ reader.over
  /\ reader' = [NoReader EXCEPT !.rest = lines, !.read = 0, !.over = FALSE]
  /\ UNCHANGED <<watched, pagesVars, currentVars, writerVars>>

Block(r, kind) == [r EXCEPT !.html = Append(@, kind), !.afterBlock = TRUE, !.gap = FALSE]
\* flushCode: the lines collected so far become one box.
FlushCode(r) == [Block(r, "pre") EXCEPT !.code = 0, !.inCode = FALSE]

\* A gap only between two paragraphs; next to a block its margin is the gap.
Separator(r) == IF r.afterBlock THEN <<>> ELSE IF r.gap THEN <<"gap">> ELSE <<"newline">>
Paragraph(r) == [r EXCEPT !.html = @ \o Separator(r) \o <<"text">>, !.afterBlock = FALSE, !.gap = FALSE]

ReadLine(r, line) ==
  CASE r.inCode /\ line = "fence" -> FlushCode(r)
    [] r.inCode /\ line # "fence" -> [r EXCEPT !.code = @ + 1]
    [] ~r.inCode /\ line = "fence" -> [r EXCEPT !.inCode = TRUE]
    [] ~r.inCode /\ line = "blank" -> [r EXCEPT !.gap = TRUE]
    [] ~r.inCode /\ line \in {"heading", "rule", "bullet"} -> Block(r, line)
    [] ~r.inCode /\ line = "text" -> Paragraph(r)

Read ==
  /\ ~reader.over /\ reader.rest # <<>>
  /\ reader' = [ReadLine(reader, Head(reader.rest)) EXCEPT !.rest = Tail(@), !.read = @ + 1]
  /\ UNCHANGED <<watched, pagesVars, currentVars, writerVars>>

\* A box that is still open at the end is drawn, too.
LastBox(r) == IF r.inCode THEN [FlushCode(r) EXCEPT !.inCode = FALSE] ELSE r
EndAnswer ==
  /\ ~reader.over /\ reader.rest = <<>>
  /\ reader' = [LastBox(reader) EXCEPT !.over = TRUE]
  /\ UNCHANGED <<watched, pagesVars, currentVars, writerVars>>

-----------------------------------------------------------------------------
\* The bounds, not the code's.
Bounded ==
  /\ \A p \in Page : page'[p].asked <= MaxAsked
  /\ generating' <= MaxAsked /\ lookups' <= MaxAsked
  /\ Len(tables') <= MaxTables

\* Only pages that are used at the same time can be told apart by their order.
OnePage(p) == \A other \in Page \ {p} : page[other] = Idle
Answers == UNION {[1..n -> LineKind] : n \in 0..MaxLines}

AnswerPages == \E p \in Page, ok \in BOOLEAN : Answered(p, ok)
\* The values of a session are followed where the bind variables are.
NewText ==
  \/ \E q \in Query \cup {None} : Edit(q)
  \/ ClearCurrent
  \/ \E q \in Query, hasPlan \in BOOLEAN, values \in SUBSET Bind :
       (values # {} => watched = "binds") /\ HandOver(q, values, hasPlan)
AnswerCapture == \E ok \in BOOLEAN, values \in SUBSET Bind : CaptureAnswered(ok, values)
AnswerChecks == \E q \in checks, ok \in BOOLEAN : QuickCheckAnswered(q, ok)
AnswerAnalyses == \E r \in analyses, ok \in BOOLEAN : AnalysisAnswered(r, ok)
AnswerLookups == \E t \in Table \cup {None} : LookupAnswered(t)

Next ==
  /\ \/ \E p \in Page : OnePage(p) /\ (Ask(p) \/ Clear(p))
     \/ AnswerPages
     \/ (\E v \in View : ClickView(v)) \/ (\E t \in TunnerTab : ClickTunnerTab(t))
     \/ \E d \in Databases : LoadAccounts(d) \/ AccountsLoaded(d)
     \/ NewText
     \/ (\E b \in Bind, given \in BOOLEAN : TypeValue(b, given)) \/ Toggle
     \/ CaptureBinds \/ AnswerCapture
     \/ QuickCheck \/ AnswerChecks \/ Analyze \/ AnswerAnalyses \/ TypingEnds \/ FollowUp
     \/ Lookup \/ AnswerLookups \/ AddTable \/ (\E i \in DOMAIN chips : RemoveTable(i))
     \/ Generate \/ GenerateAnswered \/ ClearWriter
     \/ (\E lines \in Answers : StartAnswer(lines)) \/ Read \/ EndAnswer
  /\ Bounded

Spec == Init /\ [][Next]_vars
\* Requests are answered or fail in the end; nothing is assumed of the user.
FairSpec ==
  /\ Spec
  /\ \A p \in Page : WF_vars((\E ok \in BOOLEAN : Answered(p, ok)) /\ Bounded)
  /\ WF_vars(AnswerChecks /\ Bounded) /\ WF_vars(AnswerLookups /\ Bounded)

-----------------------------------------------------------------------------
\* Tuning, advisor, quick check and table lookup have one request on its way at a
\* time, by whichever of button and key it is sent.
OneAtATime ==
  /\ \A p \in Guarded : page[p].asked <= 1
  /\ Cardinality(checks) <= 1 /\ lookups <= 1

\* A tab of the tuner looks chosen only while the tuner is what is displayed.
LitTabIsDisplayed == \A t \in view.lit : view.aidba = "tunner" /\ view.tab = t

\* The plan on the screen is the one an analysis would be made of, if any: whatever
\* is checked, handed over, edited and cleared while answers are awaited.
PlanOnScreenIsAnalysed == result.shown = "plan" => lastPlan \in {None, result.plan}

\* Below a plan there is only an analysis of that plan, also when it was asked for
\* before another plan replaced the one it is about.
AnalysisUnderItsPlan ==
  result.analysis \in {"typing", "typed"} => result.shown = "plan" /\ result.of = result.plan

\* The fields for bind variables, while there are any to be seen, are those of the text
\* in the box and show the values that would be sent; hidden are they when there are
\* none, or when they are many and nobody unfolded them.
FieldsOfQuery ==
  /\ fieldsShown => fields = BindsOf[query] /\ filled = binds \cap fields
  /\ ~fieldsShown => BindsOf[query] = {} \/ (Collapses(query) /\ ~expanded)

\* What is added to the writer's tables is what the preview shows, and the list on
\* the screen is the list that is sent, with one table of each name.
WriterShowsItsTables ==
  /\ preview = pending
  /\ chips = tables
  /\ IsInjective([i \in DOMAIN tables |-> tables[i][2]])

\* No line of an answer is lost, in a box that was never closed neither.
NoLineLost == reader.over => ~reader.inCode /\ reader.code = 0
\* A gap stands between two paragraphs and nowhere else.
GapBetweenParagraphs ==
  \A i \in DOMAIN reader.html : reader.html[i] \in {"gap", "newline"} =>
    i > 1 /\ i < Len(reader.html) /\ reader.html[i - 1] = "text" /\ reader.html[i + 1] = "text"

\* A page that says it is running says something else in the end.
SpinnersEnd == \A p \in Page : page[p].shown = "running" ~> page[p].shown # "running"

\* A text is sent with the plan measured for it, and a follow-up question with answers
\* about the plan it stands below: but for a plan or a text that came late or alone
\* (HandOver, QuickCheckAnswered), a question after an edit, which has no plan, and
\* answers whose place was replaced meanwhile.
SentTogether ==
  [][\A r \in analyses' \ analyses : r.attached =>
       /\ r.plan \in {None, r.query} \/ strayed
       /\ r.plan = None => r.followup
       /\ r.followup => history \subseteq {r.below} \/ contextAstray
    ]_<<analyses, history, strayed, contextAstray>>

\* The tuner never pairs an analysis, a plan, a follow-up question or fields with a
\* statement that is not theirs, in the cases SentTogether does not except.
AnalysisOfItsPlan ==
  []PlanOnScreenIsAnalysed /\ []AnalysisUnderItsPlan /\ []FieldsOfQuery /\ SentTogether

\* The other pages show what they have: one request at a time, the tab that is lit, the
\* tables that will be sent, every line of an answer.
ShownIsWhatIs ==
  TypeOK /\ OneAtATime /\ LitTabIsDisplayed /\ WriterShowsItsTables /\ NoLineLost /\ GapBetweenParagraphs
=============================================================================
