---------------------------- MODULE PagesProofs ----------------------------
(***************************************************************************)
(* Proofs about the pages a user works on beside the console: the AI pages *)
(* of app.js, for any texts, bind variables, tables and lines and any      *)
(* number of requests on their way, and the tabs of the other engines, for *)
(* any sessions, units and lock waits.                                     *)
(*                                                                         *)
(* The first part is about AiPages, the second about RdbViews.             *)
(***************************************************************************)
EXTENDS AiPages, RdbViews, FiniteSetTheorems, SequenceTheorems, WellFoundedInduction, TLAPS

-----------------------------------------------------------------------------
\* The analysis of the current SQL: plan, analysis, questions and fields belong to one
\* statement.

Result == [shown : {"empty", "running", "error", "plan"}, plan : Query \cup {None},
           analysis : {"none", "running", "error", "typing", "typed"}, of : Query \cup {None}]

\* An analysis that has its place on the screen is about the plan above that place, and a
\* question was asked below it.
AttachedToItsPlan ==
  \A r \in analyses : r.attached =>
    result.shown = "plan" /\ r.below = result.plan /\ (~r.followup => r.plan = r.below)
\* The plan is that of the text, unless one of them came without the other.
PlanIsOfText == lastPlan \in {None, query} \/ strayed
\* The context is that of the analysis on the screen, unless an answer joined it unseen.
ContextIsOfPlan ==
  result.analysis \in {"typing", "typed"} /\ ~contextAstray => history \subseteq {result.of}

Types == /\ query \in Query \cup {None} /\ lastPlan \in Query \cup {None}
         /\ checks \subseteq Query /\ result \in Result /\ analyses \subseteq Request
         /\ history \subseteq Query
PlanIsKnown == result.shown = "plan" => result.plan \in Query
OnScreen == PlanIsKnown /\ PlanOnScreenIsAnalysed /\ AnalysisUnderItsPlan /\ AttachedToItsPlan
Inv == Types /\ OnScreen /\ FieldsOfQuery /\ PlanIsOfText /\ ContextIsOfPlan

\* What SentTogether says of one step.
SentNow ==
  \A r \in analyses' \ analyses : r.attached =>
    /\ r.plan \in {None, r.query} \/ strayed
    /\ r.plan = None => r.followup
    /\ r.followup => history \subseteq {r.below} \/ contextAstray

-----------------------------------------------------------------------------
\* Once the result is replaced nobody has a place in it.
LEMMA DetachAll ==
  ASSUME NEW S \in SUBSET Request
  PROVE  Detach(S) \subseteq Request /\ \A r \in Detach(S) : ~r.attached
<1>1. \A r \in S : [r EXCEPT !.attached = FALSE] \in Request /\ ~[r EXCEPT !.attached = FALSE].attached
  BY DEF Request
<1> QED
  BY <1>1 DEF Detach

\* Once the place of an analysis is emptied no question has a place in it.
LEMMA DropFollowUps ==
  ASSUME NEW S \in SUBSET Request
  PROVE  /\ WithoutFollowUps(S) \subseteq Request
         /\ \A r \in WithoutFollowUps(S) : r.attached => r \in S /\ ~r.followup
<1> DEFINE F == {r \in S : r.followup}
<1>1. Detach(F) \subseteq Request /\ \A r \in Detach(F) : ~r.attached
  BY DetachAll
<1>2. WithoutFollowUps(S) = {r \in S : ~r.followup} \cup Detach(F)
  BY DEF WithoutFollowUps
<1> HIDE DEF F
<1> QED
  BY <1>1, <1>2

\* What is sent anew is a request.
LEMMA SentRequest ==
  ASSUME Types, FreeNumber, NEW followup \in BOOLEAN, result.plan \in Query
  PROVE  /\ Sent(followup) \in Request /\ Sent(followup).attached
         /\ Sent(followup).query = query /\ Sent(followup).plan = lastPlan
         /\ Sent(followup).below = result.plan /\ Sent(followup).followup = followup
<1> DEFINE n == CHOOSE k \in 1..MaxAsked : \A r \in analyses : r.nr # k
<1>1. n \in 1..MaxAsked
  BY DEF FreeNumber
<1>2. Sent(followup) = [nr |-> n, query |-> query, plan |-> lastPlan, below |-> result.plan,
                        attached |-> TRUE, followup |-> followup]
  BY DEF Sent
<1> HIDE DEF n
<1> QED
  BY <1>1, <1>2 DEF Request, Types

\* The result is replaced by a plan ...
LEMMA ReplacedByPlan ==
  ASSUME Inv, NEW q \in Query, RenderPlan(q), lastPlan' \in {None, q}
  PROVE  /\ result' \in Result /\ analyses' \subseteq Request
         /\ OnScreen' /\ ContextIsOfPlan' /\ SentNow
<1>1. analyses' \subseteq Request /\ AttachedToItsPlan' /\ SentNow
  BY DetachAll DEF RenderPlan, Inv, Types, AttachedToItsPlan, SentNow
<1>2. result' = [shown |-> "plan", plan |-> q, analysis |-> "none", of |-> None]
  BY DEF RenderPlan
<1> QED
  BY <1>1, <1>2 DEF Result, OnScreen, PlanIsKnown, PlanOnScreenIsAnalysed, AnalysisUnderItsPlan, ContextIsOfPlan

\* ... or by a word.
LEMMA ReplacedByText ==
  ASSUME Inv, NEW s \in {"running", "error", "empty"}, RenderText(s)
  PROVE  /\ result' \in Result /\ analyses' \subseteq Request
         /\ OnScreen' /\ ContextIsOfPlan' /\ SentNow
<1>1. analyses' \subseteq Request /\ AttachedToItsPlan' /\ SentNow
  BY DetachAll DEF RenderText, Inv, Types, AttachedToItsPlan, SentNow
<1>2. result' = [shown |-> s, plan |-> None, analysis |-> "none", of |-> None]
  BY DEF RenderText, NoResult
<1> QED
  BY <1>1, <1>2 DEF Result, OnScreen, PlanIsKnown, PlanOnScreenIsAnalysed, AnalysisUnderItsPlan, ContextIsOfPlan

\* The fields that are drawn are those of the text and show what would be sent.
LEMMA FieldsDrawn ==
  ASSUME NEW q, NEW values, NEW open, DrawFields(q, values, open),
         query' = q, binds' = values, expanded' = open
  PROVE  FieldsOfQuery'
<1>1. (fieldsShown' \/ BindsOf[q] = {}) => fields' = BindsOf[q] /\ filled' = values \cap BindsOf[q]
  BY DEF DrawFields
<1>2. fieldsShown' = (BindsOf[q] # {} /\ (Collapses(q) => open))
  BY DEF DrawFields
<1> QED
  BY <1>1, <1>2 DEF FieldsOfQuery, Collapses

\* The values: typed, folded, unfolded or captured, the fields show them.
LEMMA BindStep ==
  ASSUME Inv, \/ \E b \in Bind, given \in BOOLEAN : TypeValue(b, given)
              \/ Toggle \/ CaptureBinds \/ AnswerCapture
  PROVE  Inv' /\ SentNow
<1>1. query' = query /\ UNCHANGED planVars
  BY DEF TypeValue, Toggle, CaptureBinds, AnswerCapture, CaptureAnswered
<1>2. FieldsOfQuery'
  <2>1. CASE \E b \in Bind, given \in BOOLEAN : TypeValue(b, given)
    <3>1. PICK b \in Bind, given \in BOOLEAN : TypeValue(b, given)
      BY <2>1
    <3>2. /\ fieldsShown /\ b \in fields /\ UNCHANGED <<query, expanded, fieldsShown, fields>>
          /\ fields = BindsOf[query] /\ filled = binds \cap fields
      BY <3>1 DEF TypeValue, Inv, FieldsOfQuery
    <3>3. filled' = binds' \cap fields
      <4>1. CASE given
        BY <3>1, <3>2, <4>1 DEF TypeValue
      <4>2. CASE ~given
        BY <3>1, <3>2, <4>2 DEF TypeValue
      <4> QED
        BY <4>1, <4>2
    <3> QED
      BY <3>2, <3>3 DEF FieldsOfQuery, Collapses
  <2>2. CASE Toggle
    BY <2>2, FieldsDrawn DEF Toggle
  <2>3. CASE CaptureBinds
    BY <2>3 DEF CaptureBinds, Inv, FieldsOfQuery, Collapses
  <2>4. CASE AnswerCapture
    <3>1. PICK ok \in BOOLEAN, values \in SUBSET Bind : CaptureAnswered(ok, values)
      BY <2>4 DEF AnswerCapture
    <3>2. CASE ok
      <4>1. /\ DrawFields(query, binds \cup values, TRUE)
            /\ binds' = binds \cup values /\ expanded' = TRUE /\ query' = query
        BY <3>1, <3>2 DEF CaptureAnswered
      <4> QED
        BY <4>1, FieldsDrawn
    <3>3. CASE ~ok
      BY <3>1, <3>3 DEF CaptureAnswered, Inv, FieldsOfQuery, Collapses
    <3> QED
      BY <3>2, <3>3
  <2> QED
    BY <2>1, <2>2, <2>3, <2>4
<1> QED
  BY <1>1, <1>2 DEF planVars, Inv, Types, OnScreen, PlanIsKnown, PlanOnScreenIsAnalysed, AnalysisUnderItsPlan,
                    AttachedToItsPlan, PlanIsOfText, ContextIsOfPlan, SentNow

\* Another text, by hand, by hand-over or by clearing, has its own fields; what is known
\* of the old one is forgotten, or marked as astray.
LEMMA TextStep ==
  ASSUME Inv, NewText
  PROVE  Inv' /\ SentNow
<1>1. CASE \E q \in Query \cup {None} : Edit(q)
  <2>1. PICK q \in Query \cup {None} : Edit(q)
    BY <1>1
  <2>2. /\ query' = q /\ binds' = binds /\ expanded' = expanded /\ DrawFields(q, binds, expanded)
        /\ Forget /\ checks' = checks /\ result' = result /\ analyses' = analyses
    BY <2>1 DEF Edit
  <2>3. FieldsOfQuery'
    BY <2>2, FieldsDrawn
  <2> QED
    BY <2>2, <2>3 DEF Forget, Inv, Types, OnScreen, PlanIsKnown, PlanOnScreenIsAnalysed, AnalysisUnderItsPlan,
                      AttachedToItsPlan, PlanIsOfText, ContextIsOfPlan, SentNow
<1>2. CASE ClearCurrent
  <2>1. /\ query' = None /\ binds' = {} /\ expanded' = FALSE /\ DrawFields(None, {}, FALSE)
        /\ Forget /\ checks' = checks /\ RenderText("empty")
    BY <1>2 DEF ClearCurrent
  <2>2. FieldsOfQuery'
    BY <2>1, FieldsDrawn
  <2>3. lastPlan' = None /\ history' = {} /\ PlanIsOfText'
    BY <2>1 DEF Forget, PlanIsOfText
  <2>4. result' \in Result /\ analyses' \subseteq Request /\ OnScreen' /\ ContextIsOfPlan' /\ SentNow
    BY <2>1, ReplacedByText
  <2> QED
    BY <2>1, <2>2, <2>3, <2>4 DEF Inv, Types
<1>3. CASE \E q \in Query, hasPlan \in BOOLEAN, values \in SUBSET Bind :
             (values # {} => watched = "binds") /\ HandOver(q, values, hasPlan)
  <2>1. PICK q \in Query, hasPlan \in BOOLEAN, values \in SUBSET Bind : HandOver(q, values, hasPlan)
    BY <1>3
  <2>2. /\ query' = q /\ binds' = values /\ expanded' = expanded /\ DrawFields(q, values, expanded)
        /\ checks' = checks /\ history' = history /\ contextAstray' = contextAstray
    BY <2>1 DEF HandOver
  <2>3. FieldsOfQuery'
    BY <2>2, FieldsDrawn
  <2>4. CASE hasPlan
    <3>1. lastPlan' = q /\ RenderPlan(q)
      BY <2>1, <2>4 DEF HandOver, RenderHandedPlan
    <3>2. result' \in Result /\ analyses' \subseteq Request /\ OnScreen' /\ ContextIsOfPlan' /\ SentNow
      BY <3>1, ReplacedByPlan
    <3> QED
      BY <2>2, <2>3, <3>1, <3>2 DEF Inv, Types, PlanIsOfText
  <2>5. CASE ~hasPlan
    <3>1. UNCHANGED <<lastPlan, result, analyses>> /\ strayed' = (strayed \/ lastPlan \notin {None, q})
      BY <2>1, <2>5 DEF HandOver
    <3>2. PlanIsOfText'
      BY <2>2, <3>1 DEF PlanIsOfText
    <3> QED
      BY <2>2, <2>3, <3>1, <3>2 DEF Inv, Types, OnScreen, PlanIsKnown, PlanOnScreenIsAnalysed, AnalysisUnderItsPlan,
                                    AttachedToItsPlan, ContextIsOfPlan, SentNow
  <2> QED
    BY <2>4, <2>5
<1> QED
  BY <1>1, <1>2, <1>3 DEF NewText

\* The check clears the screen, and its answer shows the plan of the text it was about.
LEMMA CheckStep ==
  ASSUME Inv, QuickCheck \/ AnswerChecks
  PROVE  Inv' /\ SentNow
<1>1. query' = query /\ FieldsOfQuery'
  BY DEF QuickCheck, AnswerChecks, QuickCheckAnswered, bindVars, Inv, FieldsOfQuery, Collapses
<1>2. CASE QuickCheck
  <2>1. checks' = checks \cup {query} /\ query \in Query /\ Forget /\ RenderText("running")
    BY <1>2 DEF QuickCheck, Inv, Types
  <2>2. lastPlan' = None /\ history' = {} /\ PlanIsOfText'
    BY <2>1 DEF Forget, PlanIsOfText
  <2>3. result' \in Result /\ analyses' \subseteq Request /\ OnScreen' /\ ContextIsOfPlan' /\ SentNow
    BY <2>1, ReplacedByText
  <2> QED
    BY <1>1, <2>1, <2>2, <2>3 DEF Inv, Types
<1>3. CASE AnswerChecks
  <2>1. PICK q \in checks, ok \in BOOLEAN : QuickCheckAnswered(q, ok)
    BY <1>3 DEF AnswerChecks
  <2>2. q \in Query /\ checks' \subseteq Query /\ history' = history /\ contextAstray' = contextAstray
    BY <2>1 DEF QuickCheckAnswered, Inv, Types
  <2>3. \/ lastPlan' = q /\ RenderPlan(q) /\ strayed' = (q # query)
        \/ lastPlan' = lastPlan /\ RenderText("error") /\ strayed' = strayed
    BY <2>1 DEF QuickCheckAnswered
  <2>4. lastPlan' \in Query \cup {None} /\ PlanIsOfText'
    BY <1>1, <2>2, <2>3 DEF Inv, Types, PlanIsOfText
  <2>5. result' \in Result /\ analyses' \subseteq Request /\ OnScreen' /\ ContextIsOfPlan' /\ SentNow
    BY <2>2, <2>3, ReplacedByPlan, ReplacedByText
  <2> QED
    BY <1>1, <2>2, <2>4, <2>5 DEF Inv, Types
<1> QED
  BY <1>2, <1>3

\* The analysis is sent with the plan on the screen and takes its place below it.
LEMMA AnalyzeStep ==
  ASSUME Inv, Analyze
  PROVE  Inv' /\ SentNow
<1>1. /\ query' = query /\ checks' = checks /\ lastPlan' = lastPlan /\ strayed' = strayed /\ history' = {}
      /\ FieldsOfQuery'
  BY DEF Analyze, bindVars, Inv, FieldsOfQuery, Collapses
<1>2. /\ result' = [result EXCEPT !.analysis = "running", !.of = None]
      /\ analyses' = WithoutFollowUps(analyses) \cup {Sent(FALSE)}
      /\ lastPlan \in Query /\ result.shown = "plan" /\ lastPlan = result.plan /\ FreeNumber
  BY DEF Analyze, Inv, Types, OnScreen, PlanOnScreenIsAnalysed
<1>3. result' \in Result /\ result'.shown = "plan" /\ result'.plan = result.plan /\ result'.analysis = "running"
  BY <1>2 DEF Inv, Types, Result
<1> DEFINE new == Sent(FALSE)
<1>4. /\ new \in Request /\ new.attached /\ new.query = query /\ new.plan = lastPlan /\ new.below = lastPlan
      /\ ~new.followup
  BY <1>2, SentRequest DEF Inv
<1>5. /\ WithoutFollowUps(analyses) \subseteq Request
      /\ \A r \in WithoutFollowUps(analyses) : r.attached => r \in analyses
  BY DropFollowUps DEF Inv, Types
<1> HIDE DEF new
<1>6. OnScreen'
  BY <1>1, <1>2, <1>3, <1>4, <1>5 DEF Inv, OnScreen, PlanIsKnown, PlanOnScreenIsAnalysed, AnalysisUnderItsPlan,
                                     AttachedToItsPlan, new
<1>7. SentNow
  BY <1>2, <1>4, <1>5, NoneAssumption DEF Inv, PlanIsOfText, SentNow, new
<1> QED
  BY <1>1, <1>2, <1>3, <1>4, <1>5, <1>6, <1>7 DEF Inv, Types, PlanIsOfText, ContextIsOfPlan, new

\* A question is sent with the context of the analysis it stands below.
LEMMA FollowUpStep ==
  ASSUME Inv, FollowUp
  PROVE  Inv' /\ SentNow
<1>1. /\ UNCHANGED <<query, checks, lastPlan, result, history, strayed, contextAstray>> /\ FieldsOfQuery'
      /\ analyses' = analyses \cup {Sent(TRUE)} /\ FreeNumber /\ result.analysis = "typed"
  BY DEF FollowUp, bindVars, Inv, FieldsOfQuery, Collapses
<1>2. result.shown = "plan" /\ result.of = result.plan
  BY <1>1 DEF Inv, OnScreen, AnalysisUnderItsPlan
<1>3. result.plan \in Query
  BY <1>2 DEF Inv, OnScreen, PlanIsKnown
<1> DEFINE new == Sent(TRUE)
<1>4. /\ new \in Request /\ new.attached /\ new.query = query /\ new.plan = lastPlan
      /\ new.below = result.plan /\ new.followup
  BY <1>1, <1>3, SentRequest DEF Inv
<1> HIDE DEF new
<1>5. OnScreen'
  BY <1>1, <1>2, <1>4 DEF Inv, OnScreen, PlanIsKnown, PlanOnScreenIsAnalysed, AnalysisUnderItsPlan,
                          AttachedToItsPlan, new
<1>6. SentNow
  BY <1>1, <1>2, <1>4 DEF Inv, PlanIsOfText, ContextIsOfPlan, SentNow, new
<1> QED
  BY <1>1, <1>4, <1>5, <1>6 DEF Inv, Types, PlanIsOfText, ContextIsOfPlan, new

\* The answer goes below the plan it was asked for, or is not seen; and so is the context.
LEMMA AnalysisAnsweredStep ==
  ASSUME Inv, AnswerAnalyses
  PROVE  Inv' /\ SentNow
<1>1. PICK r \in analyses, ok \in BOOLEAN : AnalysisAnswered(r, ok)
  BY DEF AnswerAnalyses
<1>2. /\ UNCHANGED <<query, checks, lastPlan, strayed>> /\ FieldsOfQuery' /\ PlanIsOfText'
      /\ r \in Request /\ history' \subseteq Query
  BY <1>1 DEF AnalysisAnswered, bindVars, Inv, Types, Request, FieldsOfQuery, Collapses, PlanIsOfText
<1>3. contextAstray' = IF ok THEN ~r.attached \/ (r.followup /\ contextAstray) ELSE contextAstray
  BY <1>1 DEF AnalysisAnswered
<1>4. history' = IF ~ok THEN history ELSE IF r.followup THEN history \cup {r.below} ELSE {r.below}
  BY <1>1 DEF AnalysisAnswered
<1>5. CASE r.attached /\ ~r.followup
  <2>1. /\ result' = [result EXCEPT !.analysis = IF ok THEN "typing" ELSE "error", !.of = r.plan]
        /\ analyses' = WithoutFollowUps(analyses \ {r})
    BY <1>1, <1>5 DEF AnalysisAnswered, HasPlace
  <2>2. r.plan \in Query /\ r.below = r.plan /\ result.shown = "plan" /\ r.plan = result.plan
    BY <1>2, <1>5 DEF Inv, OnScreen, AttachedToItsPlan, Request
  <2>3. /\ result' \in Result /\ result'.shown = "plan" /\ result'.plan = result.plan
        /\ result'.of = result.plan /\ result'.analysis = IF ok THEN "typing" ELSE "error"
    BY <2>1, <2>2 DEF Inv, Types, Result
  <2>4. /\ analyses' \subseteq Request
        /\ \A t \in analyses' : t.attached => t \in analyses
    BY <2>1, DropFollowUps DEF Inv, Types
  <2>5. OnScreen'
    BY <1>2, <2>2, <2>3, <2>4 DEF Inv, OnScreen, PlanIsKnown, PlanOnScreenIsAnalysed, AnalysisUnderItsPlan,
                                  AttachedToItsPlan
  <2>6. ContextIsOfPlan'
    BY <1>4, <1>5, <2>2, <2>3 DEF ContextIsOfPlan
  <2> QED
    BY <1>2, <2>3, <2>4, <2>5, <2>6 DEF Inv, Types, SentNow
<1>6. CASE ~r.attached \/ r.followup
  <2>1. result' = result /\ analyses' = analyses \ {r}
    BY <1>1, <1>6 DEF AnalysisAnswered, HasPlace
  <2>2. OnScreen'
    BY <1>2, <2>1 DEF Inv, OnScreen, PlanIsKnown, PlanOnScreenIsAnalysed, AnalysisUnderItsPlan,
                      AttachedToItsPlan
  <2>3. ContextIsOfPlan'
    <3>1. CASE ok /\ r.attached
      <4>1. r.below = result.plan
        BY <3>1 DEF Inv, OnScreen, AttachedToItsPlan
      <4>2. history' = history \cup {r.below} /\ (contextAstray' <=> contextAstray)
        BY <1>3, <1>4, <1>6, <3>1
      <4> QED
        BY <2>1, <4>1, <4>2 DEF Inv, OnScreen, AnalysisUnderItsPlan, ContextIsOfPlan
    <3>2. CASE ok /\ ~r.attached
      BY <1>3, <3>2 DEF ContextIsOfPlan
    <3>3. CASE ~ok
      BY <1>3, <1>4, <2>1, <3>3 DEF Inv, ContextIsOfPlan
    <3> QED
      BY <3>1, <3>2, <3>3
  <2> QED
    BY <1>2, <2>1, <2>2, <2>3 DEF Inv, Types, SentNow
<1> QED
  BY <1>5, <1>6

\* What was typed is what was answered.
LEMMA TypingStep ==
  ASSUME Inv, TypingEnds
  PROVE  Inv' /\ SentNow
<1>1. /\ result.analysis = "typing" /\ result' = [result EXCEPT !.analysis = "typed"]
      /\ UNCHANGED <<query, checks, lastPlan, strayed, analyses, history, contextAstray>> /\ FieldsOfQuery'
  BY DEF TypingEnds, bindVars, Inv, FieldsOfQuery, Collapses
<1>2. /\ result' \in Result /\ result'.shown = result.shown /\ result'.plan = result.plan
      /\ result'.of = result.of
  BY <1>1 DEF Inv, Types, Result
<1> QED
  BY <1>1, <1>2 DEF Inv, Types, OnScreen, PlanIsKnown, PlanOnScreenIsAnalysed, AnalysisUnderItsPlan,
                    AttachedToItsPlan, PlanIsOfText, ContextIsOfPlan, SentNow

\* The other pages do not touch it.
LEMMA OtherStep ==
  ASSUME Inv, UNCHANGED currentVars
  PROVE  Inv' /\ SentNow
  BY DEF currentVars, bindVars, planVars, Inv, Types, OnScreen, PlanIsKnown, PlanOnScreenIsAnalysed,
         AnalysisUnderItsPlan, AttachedToItsPlan, FieldsOfQuery, Collapses, PlanIsOfText, ContextIsOfPlan, SentNow

\* Every step keeps the invariant, and sends together what belongs together.
LEMMA NextInv ==
  ASSUME Inv, [Next]_vars
  PROVE  Inv' /\ SentNow
<1>1. CASE NewText
  BY <1>1, TextStep
<1>2. CASE (\E b \in Bind, given \in BOOLEAN : TypeValue(b, given)) \/ Toggle \/ CaptureBinds \/ AnswerCapture
  BY <1>2, BindStep
<1>3. CASE QuickCheck \/ AnswerChecks \/ Analyze \/ AnswerAnalyses \/ TypingEnds \/ FollowUp
  BY <1>3, CheckStep, AnalyzeStep, AnalysisAnsweredStep, TypingStep, FollowUpStep
<1>4. CASE \/ \E p \in Page : OnePage(p) /\ (Ask(p) \/ Clear(p))
           \/ AnswerPages
           \/ (\E v \in View : ClickView(v)) \/ (\E t \in TunnerTab : ClickTunnerTab(t))
           \/ \E d \in Databases : LoadAccounts(d) \/ AccountsLoaded(d)
  <2>1. UNCHANGED currentVars
    BY <1>4 DEF Ask, Clear, AnswerPages, Answered, ClickView, ClickTunnerTab, LoadAccounts, AccountsLoaded
  <2> QED
    BY <2>1, OtherStep
<1>5. CASE \/ Lookup \/ AnswerLookups \/ AddTable \/ (\E i \in DOMAIN chips : RemoveTable(i))
           \/ Generate \/ GenerateAnswered \/ ClearWriter
           \/ (\E lines \in Answers : StartAnswer(lines)) \/ Read \/ EndAnswer \/ UNCHANGED vars
  <2>1. UNCHANGED currentVars
    BY <1>5 DEF Lookup, AnswerLookups, LookupAnswered, AddTable, RemoveTable, Generate, GenerateAnswered,
                ClearWriter, StartAnswer, Read, EndAnswer, vars
  <2> QED
    BY <2>1, OtherStep
<1> QED
  BY <1>1, <1>2, <1>3, <1>4, <1>5 DEF Next

\* At the start nothing is shown and nothing asked.
LEMMA InitInv == Init => Inv
<1> SUFFICES ASSUME Init
             PROVE  Inv
  OBVIOUS
<1>1. result = [shown |-> "empty", plan |-> None, analysis |-> "none", of |-> None] /\ analyses = {}
  BY DEF Init, NoResult
<1>2. Types /\ OnScreen /\ PlanIsOfText /\ ContextIsOfPlan
  BY <1>1 DEF Init, Types, Result, OnScreen, PlanIsKnown, AttachedToItsPlan, PlanOnScreenIsAnalysed,
              AnalysisUnderItsPlan, PlanIsOfText, ContextIsOfPlan
<1>3. FieldsOfQuery
  BY BindAssumption DEF Init, FieldsOfQuery
<1> QED
  BY <1>2, <1>3 DEF Inv

\* Whatever is typed, folded, captured, checked, analysed, asked, handed over, edited and
\* cleared while answers are on their way, in whichever order they come: a plan on the
\* screen is the one that would be analysed, an analysis below it is about it, the fields
\* that are seen are those of the text and show the values that would be sent; and a text
\* is sent with its own plan and context, but where one came without the other.
THEOREM AnalysisIsOfItsPlan == Spec => AnalysisOfItsPlan
<1>1. Init => Inv
  BY InitInv
<1>2. Inv /\ [Next]_vars => Inv'
  BY NextInv
<1>3. Inv => PlanOnScreenIsAnalysed /\ AnalysisUnderItsPlan /\ FieldsOfQuery
  BY DEF Inv, OnScreen
<1>4. Inv /\ [Next]_vars =>
        [\A r \in analyses' \ analyses : r.attached =>
           /\ r.plan \in {None, r.query} \/ strayed
           /\ r.plan = None => r.followup
           /\ r.followup => history \subseteq {r.below} \/ contextAstray
        ]_<<analyses, history, strayed, contextAstray>>
  BY NextInv DEF SentNow
<1> QED
  BY <1>1, <1>2, <1>3, <1>4, PTL DEF Spec, AnalysisOfItsPlan, SentTogether

-----------------------------------------------------------------------------
\* The other AI pages show what is.

\* A set of numbers with 0 and the successor of each of its numbers has all of them.
LEMMA Numbers ==
  ASSUME NEW S \in SUBSET Nat, 0 \in S, \A n \in S : n + 1 \in S
  PROVE  S = Nat
<1> SUFFICES ASSUME S # Nat
             PROVE  FALSE
  OBVIOUS
<1> DEFINE T == Nat \ S
<1>1. T \subseteq Nat /\ T # {}
  OBVIOUS
<1>2. PICK m \in T : \A n \in T : ~(<<n, m>> \in OpToRel(<, Nat))
  <2> HIDE DEF T
  <2> QED
    BY <1>1, NatLessThanWellFounded, WFMin
<1>3. m # 0 /\ m \in Nat /\ m - 1 \in Nat
  OBVIOUS
<1>4. m - 1 \notin T
  <2>1. ASSUME m - 1 \in T
        PROVE  <<m - 1, m>> \in OpToRel(<, Nat)
    BY <1>3 DEF OpToRel
  <2> QED
    BY <1>2, <2>1
<1>5. m - 1 + 1 \in S
  BY <1>3, <1>4
<1>6. m - 1 + 1 = m
  BY <1>3
<1> QED
  BY <1>5, <1>6

\* What Others builds from the first tables on.
Step(ts, name, f, i) == IF i = 0 THEN <<>>
                        ELSE IF ts[i][2] = name THEN f[i - 1] ELSE Append(f[i - 1], ts[i])

\* The table kept so far: some of the first i, in their order.
KeptOf(ts, name, s, i) ==
  /\ s \in Seq(Table)
  /\ \A j \in 1..Len(s) : \E m \in 1..i : s[j] = ts[m] /\ ts[m][2] # name
  /\ \A j, k \in 1..Len(s) : s[j][2] = s[k][2] => j = k

\* No two tables of one name.
OneOfEachName(ts) == \A j, k \in 1..Len(ts) : ts[j][2] = ts[k][2] => j = k

\* The recursion is well defined on every list.
LEMMA KeptExists ==
  ASSUME NEW ts \in Seq(Table), NEW name
  PROVE  \A n \in Nat : \E f : f = [i \in 0..n |-> Step(ts, name, f, i)]
<1> DEFINE S == {n \in Nat : \E f : f = [i \in 0..n |-> Step(ts, name, f, i)]}
<1>1. 0 \in S
  <2> DEFINE f == [i \in 0..0 |-> <<>>]
  <2>1. f = [i \in 0..0 |-> Step(ts, name, f, i)]
    BY DEF Step
  <2> QED
    BY <2>1
<1>2. ASSUME NEW n \in S
      PROVE  n + 1 \in S
  <2>1. PICK f : f = [i \in 0..n |-> Step(ts, name, f, i)]
    BY <1>2
  <2> DEFINE g == [i \in 0..(n + 1) |-> IF i = n + 1 THEN Step(ts, name, f, n + 1) ELSE f[i]]
  <2>0. \A i \in 0..n : f[i] = Step(ts, name, f, i)
    BY <2>1, Zenon
  <2>2. \A i \in 0..n : i \in 0..(n + 1) /\ g[i] = f[i]
    BY <1>2
  <2>9. g[n + 1] = Step(ts, name, f, n + 1)
    BY <1>2
  <2>8. \A i \in 0..(n + 1) : i = n + 1 \/ i \in 0..n
    BY <1>2
  <2>7. g = [i \in 0..(n + 1) |-> g[i]]
    OBVIOUS
  <2> HIDE DEF g
  <2>3. \A i \in 0..(n + 1) : g[i] = Step(ts, name, g, i)
    <3>1. TAKE i \in 0..(n + 1)
    <3>2. CASE i = 0
      <4>0. i \in 0..n
        BY <1>2, <3>2
      <4>1. g[i] = f[i] /\ f[i] = Step(ts, name, f, i)
        BY <2>0, <2>2, <4>0
      <4> QED
        BY <3>2, <4>1 DEF Step
    <3>3. CASE i # 0
      <4>1. i - 1 \in 0..n /\ g[i - 1] = f[i - 1]
        BY <1>2, <2>2, <3>3
      <4>2. Step(ts, name, g, i) = Step(ts, name, f, i)
        BY <3>3, <4>1 DEF Step
      <4>3. g[i] = Step(ts, name, f, i)
        BY <2>0, <2>2, <2>8, <2>9
      <4> QED
        BY <4>2, <4>3
    <3> QED
      BY <3>2, <3>3
  <2>4. g = [i \in 0..(n + 1) |-> Step(ts, name, g, i)]
    BY <2>3, <2>7
  <2> QED
    BY <1>2, <2>4
<1> HIDE DEF S
<1>3. S = Nat
  BY <1>1, <1>2, Numbers DEF S
<1> QED
  BY <1>3 DEF S

\* Others keeps tables of other names only, and no two of one name if there were none.
LEMMA OthersKept ==
  ASSUME NEW ts \in Seq(Table), NEW name, OneOfEachName(ts)
  PROVE  KeptOf(ts, name, Others(ts, name), Len(ts))
<1> DEFINE Kept == CHOOSE f : f = [i \in 0..Len(ts) |->
                     IF i = 0 THEN <<>>
                     ELSE IF ts[i][2] = name THEN f[i - 1] ELSE Append(f[i - 1], ts[i])]
<1>0. Len(ts) \in Nat
  OBVIOUS
<1>1. Kept = [i \in 0..Len(ts) |-> Step(ts, name, Kept, i)]
  <2>1. \E f : f = [i \in 0..Len(ts) |-> Step(ts, name, f, i)]
    BY <1>0, KeptExists
  <2> QED
    BY <2>1 DEF Step
<1>2. Others(ts, name) = Kept[Len(ts)]
  BY DEF Others
<1> HIDE DEF Kept
<1>9. \A i \in 0..Len(ts) : Kept[i] = Step(ts, name, Kept, i)
  BY <1>1, Zenon
<1> DEFINE S == {n \in Nat : n <= Len(ts) => KeptOf(ts, name, Kept[n], n)}
<1>3. 0 \in S
  <2>1. Kept[0] = <<>>
    BY <1>0, <1>9 DEF Step
  <2>2. Kept[0] \in Seq(Table) /\ Len(Kept[0]) = 0
    BY <2>1, EmptySeq
  <2>3. KeptOf(ts, name, Kept[0], 0)
    BY <2>2 DEF KeptOf
  <2> QED
    BY <2>3
<1>4. ASSUME NEW n \in S
      PROVE  n + 1 \in S
  <2> SUFFICES ASSUME n + 1 <= Len(ts)
               PROVE  KeptOf(ts, name, Kept[n + 1], n + 1)
    BY <1>4
  <2>1. n \in Nat /\ n + 1 \in 1..Len(ts) /\ n + 1 \in 0..Len(ts) /\ n <= Len(ts)
    BY <1>0, <1>4
  <2>2. KeptOf(ts, name, Kept[n], n)
    BY <1>4, <2>1
  <2>3. Kept[n + 1] = IF ts[n + 1][2] = name THEN Kept[n] ELSE Append(Kept[n], ts[n + 1])
    <3>1. n + 1 # 0 /\ n + 1 - 1 = n
      BY <2>1
    <3> QED
      BY <1>9, <2>1, <3>1 DEF Step
  <2>4. CASE ts[n + 1][2] = name
    <3>1. \A m \in 1..n : m \in 1..(n + 1)
      BY <2>1
    <3>2. KeptOf(ts, name, Kept[n], n + 1)
      BY <2>2, <3>1 DEF KeptOf
    <3>3. Kept[n + 1] = Kept[n]
      BY <2>3, <2>4
    <3> QED
      BY <3>2, <3>3
  <2>5. CASE ts[n + 1][2] # name
    <3> DEFINE s == Kept[n]
               x == ts[n + 1]
               r == Append(s, x)
    <3>1. s \in Seq(Table) /\ Len(s) \in Nat /\ x \in Table
      BY <2>1, <2>2 DEF KeptOf
    <3>2. /\ r \in Seq(Table) /\ Len(r) = Len(s) + 1 /\ r[Len(s) + 1] = x
          /\ \A j \in 1..Len(s) : r[j] = s[j]
      BY <3>1, AppendProperties
    <3>3. Kept[n + 1] = r
      BY <2>3, <2>5
    <3>4. \A j \in 1..Len(s) : \E m \in 1..n : s[j] = ts[m] /\ ts[m][2] # name
      BY <2>2 DEF KeptOf
    <3>5. \A j, k \in 1..Len(s) : s[j][2] = s[k][2] => j = k
      BY <2>2 DEF KeptOf
    <3>6. \A j \in 1..Len(s) : s[j][2] # x[2]
      <4>1. TAKE j \in 1..Len(s)
      <4>2. PICK m \in 1..n : s[j] = ts[m]
        BY <3>4
      <4>3. m \in 1..Len(ts) /\ n + 1 \in 1..Len(ts) /\ m # n + 1
        BY <1>0, <2>1
      <4> QED
        BY <4>2, <4>3 DEF OneOfEachName
    <3> HIDE DEF r, x, s
    <3>7. \A j \in 1..Len(r) : j = Len(s) + 1 \/ j \in 1..Len(s)
      BY <3>1, <3>2
    <3>8. \A j \in 1..Len(r) : \E m \in 1..(n + 1) : r[j] = ts[m] /\ ts[m][2] # name
      <4>1. TAKE j \in 1..Len(r)
      <4>2. CASE j = Len(s) + 1
        <5>1. r[j] = ts[n + 1] /\ n + 1 \in 1..(n + 1)
          BY <2>1, <3>2, <4>2 DEF x
        <5> QED
          BY <2>5, <5>1
      <4>3. CASE j \in 1..Len(s)
        <5>1. PICK m \in 1..n : s[j] = ts[m] /\ ts[m][2] # name
          BY <3>4, <4>3
        <5>2. m \in 1..(n + 1) /\ r[j] = s[j]
          BY <2>1, <3>2, <4>3
        <5> QED
          BY <5>1, <5>2
      <4> QED
        BY <3>7, <4>2, <4>3
    <3>9. \A j, k \in 1..Len(r) : r[j][2] = r[k][2] => j = k
      BY <3>2, <3>5, <3>6, <3>7
    <3> QED
      BY <3>2, <3>3, <3>8, <3>9 DEF KeptOf
  <2> QED
    BY <2>4, <2>5
<1> HIDE DEF S
<1>5. S = Nat
  BY <1>3, <1>4, Numbers DEF S
<1>6. KeptOf(ts, name, Kept[Len(ts)], Len(ts))
  BY <1>0, <1>5 DEF S
<1> QED
  BY <1>2, <1>6

\* A table is added as the only one of its name.
LEMMA AddedKeepsNames ==
  ASSUME NEW ts \in Seq(Table), NEW t \in Table, OneOfEachName(ts)
  PROVE  Added(ts, t) \in Seq(Table) /\ OneOfEachName(Added(ts, t))
<1> DEFINE s == Others(ts, t[2])
           r == Append(s, t)
<1>1. KeptOf(ts, t[2], s, Len(ts))
  BY OthersKept
<1> HIDE DEF s
<1>2. s \in Seq(Table) /\ Len(s) \in Nat
  BY <1>1 DEF KeptOf
<1>3. /\ r \in Seq(Table) /\ Len(r) = Len(s) + 1 /\ r[Len(s) + 1] = t
      /\ \A j \in 1..Len(s) : r[j] = s[j]
  BY <1>2, AppendProperties
<1>4. \A j \in 1..Len(s) : s[j][2] # t[2]
  BY <1>1 DEF KeptOf
<1>5. \A j, k \in 1..Len(s) : s[j][2] = s[k][2] => j = k
  BY <1>1 DEF KeptOf
<1>6. Added(ts, t) = r
  BY DEF Added, s
<1> HIDE DEF r
<1>7. \A j \in 1..Len(r) : j = Len(s) + 1 \/ j \in 1..Len(s)
  BY <1>2, <1>3
<1>8. \A j, k \in 1..Len(r) : r[j][2] = r[k][2] => j = k
  BY <1>3, <1>4, <1>5, <1>7
<1> QED
  BY <1>3, <1>6, <1>8 DEF OneOfEachName

\* Removing one table leaves the others.
LEMMA RemovedKeepsNames ==
  ASSUME NEW ts \in Seq(Table), NEW i \in 1..Len(ts), OneOfEachName(ts)
  PROVE  RemoveAt(ts, i) \in Seq(Table) /\ OneOfEachName(RemoveAt(ts, i))
<1> DEFINE a == SubSeq(ts, 1, i - 1)
           b == SubSeq(ts, i + 1, Len(ts))
           r == a \o b
           n == Len(ts)
<1>1. n \in Nat /\ i \in Nat /\ 1 <= i /\ i <= n
  OBVIOUS
<1>2. a \in Seq(Table) /\ Len(a) = i - 1 /\ \A j \in 1..(i - 1) : a[j] = ts[j]
  OBVIOUS
<1>3. b \in Seq(Table) /\ Len(b) = n - i /\ \A j \in 1..(n - i) : b[j] = ts[i + j]
  OBVIOUS
<1>5. RemoveAt(ts, i) = r
  BY DEF RemoveAt
<1> HIDE DEF a, b
<1>7. /\ r \in Seq(Table) /\ Len(r) = Len(a) + Len(b)
      /\ \A j \in 1..Len(a) + Len(b) : r[j] = IF j <= Len(a) THEN a[j] ELSE b[j - Len(a)]
  BY <1>2, <1>3, ConcatProperties
<1> HIDE DEF r
<1>8. Len(r) = n - 1
  BY <1>1, <1>2, <1>3, <1>7
<1>4. \A j \in 1..(n - 1) : r[j] = IF j < i THEN ts[j] ELSE ts[j + 1]
  <2>1. TAKE j \in 1..(n - 1)
  <2>2. CASE j < i
    <3>1. j \in 1..(i - 1) /\ j <= Len(a) /\ j \in 1..Len(a) + Len(b)
      BY <1>1, <1>2, <1>3, <2>2
    <3> QED
      BY <1>2, <1>7, <2>2, <3>1
  <2>3. CASE ~(j < i)
    <3>1. /\ j - (i - 1) \in 1..(n - i) /\ ~(j <= Len(a)) /\ j \in 1..Len(a) + Len(b)
          /\ i + (j - (i - 1)) = j + 1 /\ j - Len(a) = j - (i - 1)
      BY <1>1, <1>2, <1>3, <2>3
    <3> QED
      BY <1>3, <1>7, <2>3, <3>1
  <2> QED
    BY <2>2, <2>3
<1>6. \A j, k \in 1..(n - 1) : r[j][2] = r[k][2] => j = k
  <2>1. TAKE j \in 1..(n - 1), k \in 1..(n - 1)
  <2> DEFINE J == IF j < i THEN j ELSE j + 1
             K == IF k < i THEN k ELSE k + 1
  <2>2. J \in 1..n /\ K \in 1..n /\ (J = K => j = k)
    BY <1>1
  <2>3. r[j] = ts[J] /\ r[k] = ts[K]
    BY <1>4
  <2> QED
    BY <2>2, <2>3 DEF OneOfEachName
<1> QED
  BY <1>5, <1>6, <1>7, <1>8 DEF OneOfEachName

-----------------------------------------------------------------------------
\* The simple pages: a guarded button that is enabled has no request on its way.
PageState == [asked : 0..MaxAsked, enabled : BOOLEAN, shown : {"empty", "running", "answer", "error"}]
SimplePages ==
  /\ page \in [Page -> PageState]
  /\ view \in [aidba : View, tab : TunnerTab, lit : SUBSET TunnerTab]
  /\ accounts \in [db : Databases, asked : SUBSET Databases, of : Databases \cup {None}]
  /\ \A p \in Guarded : page[p].asked <= 1 /\ (page[p].enabled => page[p].asked = 0)
  /\ LitTabIsDisplayed

\* The current SQL: an enabled button has no check on its way.
CurrentPage ==
  /\ binds \subseteq Bind /\ fields \subseteq Bind /\ filled \subseteq Bind
  /\ expanded \in BOOLEAN /\ fieldsShown \in BOOLEAN /\ capturing \in BOOLEAN
  /\ checkOn \in BOOLEAN /\ analyzeOn \in BOOLEAN /\ strayed \in BOOLEAN /\ contextAstray \in BOOLEAN
  /\ (checkOn => checks = {}) /\ \E q : checks \subseteq {q}

\* The SQL writer: the list on the screen is the list that is sent.
WriterPage ==
  /\ tables \in Seq(Table) /\ chips = tables /\ OneOfEachName(tables)
  /\ pending \in Table \cup {None} /\ preview = pending
  /\ lookups \in 0..MaxAsked /\ lookupOn \in BOOLEAN /\ lookups <= 1 /\ (lookupOn => lookups = 0)
  /\ generating \in 0..MaxAsked /\ generateOn \in BOOLEAN

\* The answer: a text that no block follows is the last of what was drawn.
Html == LineKind \cup {"gap", "newline", "pre"}
Between(html) ==
  \A i \in 1..Len(html) : html[i] \in {"gap", "newline"} =>
    i > 1 /\ i < Len(html) /\ html[i - 1] = "text" /\ html[i + 1] = "text"
Drawn(r) ==
  /\ r.html \in Seq(Html) /\ Between(r.html)
  /\ ~r.afterBlock => r.html # <<>> /\ r.html[Len(r.html)] = "text"
Lines(r) ==
  /\ r = [rest |-> r.rest, read |-> r.read, inCode |-> r.inCode, code |-> r.code,
          afterBlock |-> r.afterBlock, gap |-> r.gap, html |-> r.html, over |-> r.over]
  /\ r.rest \in Seq(LineKind) /\ r.inCode \in BOOLEAN
  /\ ~r.inCode => r.code = 0
AnswerPage == Lines(reader) /\ Drawn(reader) /\ (reader.over => ~reader.inCode)

Rest == /\ watched \in {"pages", "binds", "current", "writer", "answer"}
        /\ SimplePages /\ CurrentPage /\ WriterPage /\ AnswerPage

\* The parts of the invariant together say what the pages show.
LEMMA RestIsShown ==
  ASSUME Inv, Rest
  PROVE  ShownIsWhatIs
<1>1. Cardinality(checks) <= 1
  <2>1. PICK q : checks \subseteq {q}
    BY DEF Rest, CurrentPage
  <2>2. IsFiniteSet({q}) /\ Cardinality({q}) = 1
    BY FS_Singleton
  <2>3. Cardinality(checks) <= Cardinality({q})
    BY <2>1, <2>2, FS_Subset
  <2> QED
    BY <2>2, <2>3
<1>2. OneAtATime
  BY <1>1 DEF Rest, SimplePages, WriterPage, OneAtATime
<1>3. WriterShowsItsTables
  <2>1. DOMAIN tables = 1..Len(tables)
    BY LenProperties DEF Rest, WriterPage
  <2>2. IsInjective([i \in DOMAIN tables |-> tables[i][2]])
    BY <2>1 DEF Rest, WriterPage, OneOfEachName, IsInjective
  <2> QED
    BY <2>2 DEF Rest, WriterPage, WriterShowsItsTables
<1>4. NoLineLost
  BY DEF Rest, AnswerPage, Lines, NoLineLost
<1>5. GapBetweenParagraphs
  <2>1. DOMAIN reader.html = 1..Len(reader.html)
    BY LenProperties DEF Rest, AnswerPage, Drawn
  <2> QED
    BY <2>1 DEF Rest, AnswerPage, Drawn, Between, GapBetweenParagraphs
<1>6. TypeOK
  BY DEF Inv, Types, Result, Rest, SimplePages, PageState, CurrentPage, WriterPage, AnswerPage, Lines,
         Drawn, Html, TypeOK
<1>7. LitTabIsDisplayed
  BY DEF Rest, SimplePages
<1> QED
  BY <1>2, <1>3, <1>4, <1>5, <1>6, <1>7 DEF ShownIsWhatIs

-----------------------------------------------------------------------------
\* A guarded page asks while it may, which is when nothing of it is on its way.
LEMMA AskStep ==
  ASSUME SimplePages, Bounded, NEW p \in Page, Ask(p)
  PROVE  SimplePages'
<1>1. page' = [page EXCEPT ![p] = [asked |-> @.asked + 1, enabled |-> p = "search", shown |-> "running"]]
  BY DEF Ask
<1>2. page[p] \in PageState /\ page[p].asked \in Nat /\ page[p].asked + 1 \in Nat
  BY DEF SimplePages, PageState
<1>3. page'[p] = [asked |-> page[p].asked + 1, enabled |-> p = "search", shown |-> "running"]
  BY <1>1 DEF SimplePages
<1>4. page'[p].asked <= MaxAsked
  BY DEF Bounded
<1>5. page'[p] \in PageState
  BY <1>2, <1>3, <1>4, BoundAssumption DEF PageState
<1>6. page' \in [Page -> PageState]
  BY <1>1, <1>3, <1>5 DEF SimplePages
<1>7. \A g \in Guarded : page'[g].asked <= 1 /\ (page'[g].enabled => page'[g].asked = 0)
  <2>1. TAKE g \in Guarded
  <2>2. CASE g = p
    <3>1. page[p].asked = 0 /\ p # "search"
      BY <2>2 DEF Ask, MayAsk, SimplePages, Guarded
    <3>2. page'[p].asked = 1
      BY <1>3, <3>1
    <3>3. page'[p].enabled = (p = "search")
      BY <1>3
    <3> QED
      <4>1. ~page'[p].enabled
        BY <3>1, <3>3, Zenon
      <4>2. page'[p].asked <= 1
        BY <3>2
      <4> QED
        BY <2>2, <4>1, <4>2, Zenon
  <2>3. CASE g # p
    <3>1. page'[g] = page[g]
      BY <1>1, <2>3 DEF SimplePages, Guarded, Page
    <3> QED
      BY <3>1 DEF SimplePages
  <2> QED
    BY <2>2, <2>3
<1> QED
  BY <1>6, <1>7 DEF Ask, SimplePages, LitTabIsDisplayed

\* An answer enables the button again.
LEMMA AnsweredStep ==
  ASSUME SimplePages, NEW p \in Page, NEW ok \in BOOLEAN, Answered(p, ok)
  PROVE  SimplePages'
<1>1. /\ page[p].asked > 0
      /\ page' = [page EXCEPT ![p] = [asked |-> @.asked - 1, enabled |-> TRUE, shown |-> ShownAfter(@.shown, ok)]]
  BY DEF Answered
<1>2. page[p] \in PageState /\ page[p].asked \in 0..MaxAsked
  BY DEF SimplePages, PageState
<1>3. page'[p] = [asked |-> page[p].asked - 1, enabled |-> TRUE, shown |-> ShownAfter(page[p].shown, ok)]
  BY <1>1 DEF SimplePages
<1>4. page[p].asked - 1 \in 0..MaxAsked
  BY <1>1, <1>2, BoundAssumption
<1>5. page'[p] \in PageState
  BY <1>3, <1>4 DEF PageState, ShownAfter
<1>6. page' \in [Page -> PageState]
  BY <1>1, <1>3, <1>5 DEF SimplePages
<1>7. \A g \in Guarded : page'[g].asked <= 1 /\ (page'[g].enabled => page'[g].asked = 0)
  <2>1. TAKE g \in Guarded
  <2>2. CASE g = p
    <3>1. page[p].asked = 1
      BY <1>1, <1>2, <2>2 DEF SimplePages
    <3> QED
      BY <1>3, <2>2, <3>1
  <2>3. CASE g # p
    <3>1. page'[g] = page[g]
      BY <1>1, <2>3 DEF SimplePages, Guarded, Page
    <3> QED
      BY <3>1 DEF SimplePages
  <2> QED
    BY <2>2, <2>3
<1> QED
  BY <1>6, <1>7 DEF Answered, SimplePages, LitTabIsDisplayed

\* Clearing stops nothing; another view lights its tab; accounts come and go.
LEMMA SimpleStep ==
  ASSUME SimplePages, Bounded,
         \/ \E p \in Page : OnePage(p) /\ (Ask(p) \/ Clear(p))
         \/ AnswerPages
         \/ (\E v \in View : ClickView(v)) \/ (\E t \in TunnerTab : ClickTunnerTab(t))
         \/ \E d \in Databases : LoadAccounts(d) \/ AccountsLoaded(d)
  PROVE  SimplePages'
<1>1. CASE \E p \in Page : Ask(p)
  BY <1>1, AskStep
<1>2. CASE AnswerPages
  BY <1>2, AnsweredStep DEF AnswerPages
<1>3. CASE \E p \in Page : Clear(p)
  <2>1. PICK p \in Page : Clear(p)
    BY <1>3
  <2>2. page' = [page EXCEPT ![p].shown = "empty"] /\ view' = view /\ accounts' = accounts
    BY <2>1 DEF Clear
  <2>3. page[p] \in PageState
    BY DEF SimplePages
  <2>4. /\ page'[p] = [page[p] EXCEPT !.shown = "empty"] /\ page'[p] \in PageState
        /\ page'[p].asked = page[p].asked /\ page'[p].enabled = page[p].enabled
    BY <2>2, <2>3 DEF SimplePages, PageState
  <2>5. \A g \in Page \ {p} : page'[g] = page[g]
    BY <2>2 DEF SimplePages
  <2>6. page' \in [Page -> PageState]
    BY <2>2, <2>4, <2>5 DEF SimplePages
  <2>7. \A g \in Guarded : page'[g].asked = page[g].asked /\ page'[g].enabled = page[g].enabled
    BY <2>4, <2>5 DEF Guarded, Page
  <2> QED
    BY <2>2, <2>6, <2>7 DEF SimplePages, LitTabIsDisplayed
<1>4. CASE (\E v \in View : ClickView(v)) \/ (\E t \in TunnerTab : ClickTunnerTab(t))
  <2>1. PICK v \in View, t \in TunnerTab : ActivateView(v, t)
    BY <1>4 DEF ClickView, ClickTunnerTab, SimplePages, View, TunnerTab
  <2>2. view' = [aidba |-> v, tab |-> t, lit |-> LitTabs(v, t)]
    BY <2>1 DEF ActivateView
  <2>3. view' \in [aidba : View, tab : TunnerTab, lit : SUBSET TunnerTab] /\ LitTabIsDisplayed'
    BY <2>2 DEF LitTabs, LitTabIsDisplayed
  <2>4. page' = page /\ accounts' = accounts
    BY <1>4 DEF ClickView, ClickTunnerTab
  <2> QED
    BY <2>3, <2>4 DEF SimplePages
<1>5. CASE \E d \in Databases : LoadAccounts(d) \/ AccountsLoaded(d)
  <2>1. PICK d \in Databases : LoadAccounts(d) \/ AccountsLoaded(d)
    BY <1>5
  <2>2. accounts' \in [db : Databases, asked : SUBSET Databases, of : Databases \cup {None}]
    <3> DEFINE A == [db : Databases, asked : SUBSET Databases, of : Databases \cup {None}]
    <3>1. accounts \in A
      BY DEF SimplePages
    <3>2. CASE LoadAccounts(d)
      <4>1. accounts' = [accounts EXCEPT !.db = d, !.asked = @ \cup {d}]
        BY <3>2 DEF LoadAccounts
      <4> QED
        BY <3>1, <4>1
    <3>3. CASE AccountsLoaded(d)
      <4>1. accounts' = [accounts EXCEPT !.asked = @ \ {d}, !.of = d]
        BY <3>3 DEF AccountsLoaded
      <4> QED
        BY <3>1, <4>1
    <3> QED
      BY <2>1, <3>2, <3>3
  <2>3. page' = page /\ view' = view
    BY <2>1 DEF LoadAccounts, AccountsLoaded
  <2> QED
    BY <2>2, <2>3 DEF SimplePages, LitTabIsDisplayed
<1> QED
  BY <1>1, <1>2, <1>3, <1>4, <1>5

\* The fields that are drawn are bind variables.
LEMMA FieldsDrawnType ==
  ASSUME NEW q \in Query \cup {None}, NEW values \in SUBSET Bind, NEW open \in BOOLEAN,
         DrawFields(q, values, open), CurrentPage
  PROVE  fields' \subseteq Bind /\ filled' \subseteq Bind /\ fieldsShown' \in BOOLEAN
<1>1. BindsOf[q] \subseteq Bind
  BY BindAssumption
<1>2. fieldsShown' = (BindsOf[q] # {} /\ (Collapses(q) => open))
  BY DEF DrawFields
<1>3. fieldsShown' \in BOOLEAN
  BY <1>2, Zenon
<1> QED
  BY <1>1, <1>3 DEF DrawFields, CurrentPage

\* The current SQL: one check at a time, and fields are bind variables.
LEMMA CurrentStep ==
  ASSUME Inv, CurrentPage,
         \/ NewText \/ (\E b \in Bind, given \in BOOLEAN : TypeValue(b, given))
         \/ Toggle \/ CaptureBinds \/ AnswerCapture
         \/ QuickCheck \/ AnswerChecks \/ Analyze \/ AnswerAnalyses \/ TypingEnds \/ FollowUp
  PROVE  CurrentPage'
<1>1. query \in Query \cup {None} /\ binds \subseteq Bind /\ expanded \in BOOLEAN /\ lastPlan \in Query \cup {None}
  BY DEF Inv, Types, CurrentPage
<1>2. CASE \E q \in Query \cup {None} : Edit(q)
  <2>1. PICK q \in Query \cup {None} : Edit(q)
    BY <1>2
  <2>2. /\ DrawFields(q, binds, expanded) /\ Forget /\ analyzeOn' = FALSE
        /\ UNCHANGED <<binds, expanded, capturing, checks, checkOn>>
    BY <2>1 DEF Edit
  <2>3. fields' \subseteq Bind /\ filled' \subseteq Bind /\ fieldsShown' \in BOOLEAN
    BY <1>1, <2>2, FieldsDrawnType
  <2> QED
    BY <2>2, <2>3 DEF Forget, CurrentPage
<1>3. CASE ClearCurrent
  <2>1. /\ binds' = {} /\ expanded' = FALSE /\ DrawFields(None, {}, FALSE) /\ Forget /\ analyzeOn' = FALSE
        /\ UNCHANGED <<capturing, checks, checkOn>>
    BY <1>3 DEF ClearCurrent
  <2>2. fields' \subseteq Bind /\ filled' \subseteq Bind /\ fieldsShown' \in BOOLEAN
    BY <2>1, FieldsDrawnType
  <2> QED
    BY <2>1, <2>2 DEF Forget, CurrentPage
<1>4. CASE \E q \in Query, hasPlan \in BOOLEAN, values \in SUBSET Bind :
             (values # {} => watched = "binds") /\ HandOver(q, values, hasPlan)
  <2>1. PICK q \in Query, hasPlan \in BOOLEAN, values \in SUBSET Bind : HandOver(q, values, hasPlan)
    BY <1>4
  <2>2. /\ binds' = values /\ DrawFields(q, values, expanded)
        /\ UNCHANGED <<expanded, capturing, checks, checkOn, contextAstray>>
    BY <2>1 DEF HandOver
  <2>3. fields' \subseteq Bind /\ filled' \subseteq Bind /\ fieldsShown' \in BOOLEAN
    BY <1>1, <2>2, FieldsDrawnType
  <2>4. strayed' \in BOOLEAN /\ (analyzeOn' = analyzeOn \/ analyzeOn' = TRUE)
    BY <2>1 DEF HandOver, CurrentPage
  <2> QED
    BY <2>2, <2>3, <2>4 DEF CurrentPage
<1>5. CASE (\E b \in Bind, given \in BOOLEAN : TypeValue(b, given)) \/ Toggle \/ CaptureBinds \/ AnswerCapture
  <2>1. UNCHANGED planVars
    BY <1>5 DEF TypeValue, Toggle, CaptureBinds, AnswerCapture, CaptureAnswered
  <2>2. /\ binds' \subseteq Bind /\ fields' \subseteq Bind /\ filled' \subseteq Bind
        /\ expanded' \in BOOLEAN /\ fieldsShown' \in BOOLEAN /\ capturing' \in BOOLEAN
    <3>1. CASE \E b \in Bind, given \in BOOLEAN : TypeValue(b, given)
      BY <3>1 DEF TypeValue, CurrentPage
    <3>2. CASE Toggle
      <4>1. /\ expanded' = ~expanded /\ DrawFields(query, binds, ~expanded)
            /\ UNCHANGED <<binds, capturing>>
        BY <3>2 DEF Toggle
      <4>2. (~expanded) \in BOOLEAN
        BY <1>1, Zenon
      <4>3. fields' \subseteq Bind /\ filled' \subseteq Bind /\ fieldsShown' \in BOOLEAN
        BY <1>1, <4>1, <4>2, FieldsDrawnType
      <4> QED
        BY <4>1, <4>2, <4>3 DEF CurrentPage
    <3>3. CASE CaptureBinds
      BY <3>3 DEF CaptureBinds, CurrentPage
    <3>4. CASE AnswerCapture
      <4>1. PICK ok \in BOOLEAN, values \in SUBSET Bind : CaptureAnswered(ok, values)
        BY <3>4 DEF AnswerCapture
      <4>2. CASE ok
        <5>1. /\ binds' = binds \cup values /\ expanded' = TRUE /\ DrawFields(query, binds \cup values, TRUE)
              /\ capturing' = FALSE
          BY <4>1, <4>2 DEF CaptureAnswered
        <5>2. fields' \subseteq Bind /\ filled' \subseteq Bind /\ fieldsShown' \in BOOLEAN
          BY <1>1, <5>1, FieldsDrawnType
        <5> QED
          BY <1>1, <5>1, <5>2
      <4>3. CASE ~ok
        BY <4>1, <4>3 DEF CaptureAnswered, CurrentPage
      <4> QED
        BY <4>2, <4>3
    <3> QED
      BY <1>5, <3>1, <3>2, <3>3, <3>4
  <2> QED
    BY <2>1, <2>2 DEF planVars, CurrentPage
<1>6. CASE QuickCheck
  <2>1. checks = {} /\ checks' = {query}
    BY <1>6 DEF QuickCheck, MayCheck, CurrentPage
  <2> QED
    BY <1>6, <2>1 DEF QuickCheck, Forget, bindVars, CurrentPage
<1>7. CASE AnswerChecks
  <2>1. PICK q \in checks, ok \in BOOLEAN : QuickCheckAnswered(q, ok)
    BY <1>7 DEF AnswerChecks
  <2>2. checks' = {}
    BY <2>1 DEF QuickCheckAnswered, CurrentPage
  <2>3. strayed' \in BOOLEAN /\ analyzeOn' \in BOOLEAN
    BY <2>1 DEF QuickCheckAnswered, CurrentPage
  <2> QED
    BY <2>1, <2>2, <2>3 DEF QuickCheckAnswered, bindVars, CurrentPage
<1>8. CASE Analyze \/ TypingEnds \/ FollowUp
  <2>1. /\ UNCHANGED <<bindVars, checks, checkOn, strayed>>
        /\ analyzeOn' = analyzeOn \/ analyzeOn' = FALSE
        /\ contextAstray' = contextAstray \/ contextAstray' = FALSE
    BY <1>8 DEF Analyze, TypingEnds, FollowUp
  <2> QED
    BY <2>1 DEF bindVars, CurrentPage
<1>9. CASE AnswerAnalyses
  <2>1. PICK r \in analyses, ok \in BOOLEAN : AnalysisAnswered(r, ok)
    BY <1>9 DEF AnswerAnalyses
  <2>2. r.followup \in BOOLEAN /\ r.attached \in BOOLEAN
    BY DEF Inv, Types, Request
  <2>3. analyzeOn' \in BOOLEAN /\ contextAstray' \in BOOLEAN
    BY <2>1, <2>2 DEF AnalysisAnswered, CurrentPage
  <2>4. UNCHANGED <<bindVars, checks, checkOn, strayed>>
    BY <2>1 DEF AnalysisAnswered
  <2> QED
    BY <2>3, <2>4 DEF bindVars, CurrentPage
<1> QED
  BY <1>2, <1>3, <1>4, <1>5, <1>6, <1>7, <1>8, <1>9 DEF NewText

\* The SQL writer: what is added and removed is added to and removed from what is drawn.
LEMMA WriterStep ==
  ASSUME WriterPage, Bounded,
         \/ Lookup \/ AnswerLookups \/ AddTable \/ (\E i \in DOMAIN chips : RemoveTable(i))
         \/ Generate \/ GenerateAnswered \/ ClearWriter
  PROVE  WriterPage'
<1>1. MaxAsked \in Nat /\ lookups' <= MaxAsked /\ generating' <= MaxAsked
  BY BoundAssumption DEF Bounded
<1>2. CASE Lookup
  <2>1. lookups = 0 /\ lookups' = 1
    BY <1>2 DEF Lookup, WriterPage
  <2> QED
    <3>1. /\ lookupOn' = FALSE /\ pending' = None /\ preview' = None
          /\ UNCHANGED <<tables, chips, generating, generateOn>>
      BY <1>2 DEF Lookup, PreviewHidden
    <3>2. lookups' \in 0..MaxAsked
      BY <1>1, <2>1
    <3>3. lookups' <= 1
      BY <2>1
    <3>4. ~lookupOn' /\ lookupOn' \in BOOLEAN
      BY <3>1, Zenon
    <3> QED
      BY <3>1, <3>2, <3>3, <3>4 DEF WriterPage
<1>3. CASE AnswerLookups
  <2>1. PICK t \in Table \cup {None} : LookupAnswered(t)
    BY <1>3 DEF AnswerLookups
  <2>2. lookups = 1 /\ lookups' = 0
    BY <2>1 DEF LookupAnswered, WriterPage
  <2> QED
    BY <1>1, <2>1, <2>2 DEF LookupAnswered, WriterPage
<1>4. CASE AddTable
  <2>1. pending \in Table /\ tables' = Added(tables, pending)
    BY <1>4 DEF AddTable, WriterPage
  <2>2. tables' \in Seq(Table) /\ OneOfEachName(tables')
    BY <2>1, AddedKeepsNames DEF WriterPage
  <2>3. chips' = tables' /\ generateOn' \in BOOLEAN /\ pending' = None /\ preview' = None
    BY <1>4 DEF AddTable, DrawTables
  <2> QED
    BY <1>4, <2>2, <2>3 DEF AddTable, WriterPage
<1>5. CASE \E i \in DOMAIN chips : RemoveTable(i)
  <2>1. PICK i \in DOMAIN chips : RemoveTable(i)
    BY <1>5
  <2>2. i \in 1..Len(tables)
    BY <2>1, LenProperties DEF WriterPage
  <2>3. tables' = RemoveAt(tables, i) /\ chips' = tables' /\ generateOn' \in BOOLEAN
    BY <2>1 DEF RemoveTable, DrawWithout, DrawTables
  <2>4. tables' \in Seq(Table) /\ OneOfEachName(tables')
    BY <2>2, <2>3, RemovedKeepsNames DEF WriterPage
  <2> QED
    BY <2>1, <2>3, <2>4 DEF RemoveTable, WriterPage
<1>6. CASE Generate \/ GenerateAnswered
  <2>1. generating' \in Nat
    BY <1>6 DEF Generate, GenerateAnswered, WriterPage
  <2> QED
    <3>1. generateOn' \in BOOLEAN /\ UNCHANGED <<tables, chips, pending, preview, lookups, lookupOn>>
      BY <1>6 DEF Generate, GenerateAnswered
    <3>2. generating' \in 0..MaxAsked
      BY <1>1, <2>1
    <3> QED
      BY <3>1, <3>2 DEF WriterPage
<1>7. CASE ClearWriter
  <2>1. tables' = <<>> /\ chips' = <<>> /\ pending' = None /\ preview' = None /\ generateOn' \in BOOLEAN
    BY <1>7 DEF ClearWriter, DrawTables
  <2>2. tables' \in Seq(Table) /\ Len(tables') = 0
    BY <2>1, EmptySeq
  <2>3. OneOfEachName(tables')
    BY <2>2 DEF OneOfEachName
  <2> QED
    BY <1>7, <2>1, <2>2, <2>3 DEF ClearWriter, WriterPage
<1> QED
  BY <1>2, <1>3, <1>4, <1>5, <1>6, <1>7

\* What was drawn keeps its gaps between paragraphs when more is drawn behind it.
LEMMA StillBetween ==
  ASSUME NEW h \in Seq(Html), Between(h), NEW b \in Seq(Html), Len(h) <= Len(b),
         \A j \in 1..Len(h) : b[j] = h[j], NEW i \in 1..Len(h), b[i] \in {"gap", "newline"}
  PROVE  i > 1 /\ i < Len(b) /\ b[i - 1] = "text" /\ b[i + 1] = "text"
<1>1. Len(h) \in Nat /\ Len(b) \in Nat
  BY LenProperties
<1>2. h[i] \in {"gap", "newline"}
  OBVIOUS
<1>3. i > 1 /\ i < Len(h) /\ h[i - 1] = "text" /\ h[i + 1] = "text"
  BY <1>2 DEF Between
<1>4. i - 1 \in 1..Len(h) /\ i + 1 \in 1..Len(h) /\ i < Len(b)
  BY <1>1, <1>3
<1>5. b[i - 1] = h[i - 1] /\ b[i + 1] = h[i + 1]
  BY <1>4
<1> QED
  BY <1>3, <1>4, <1>5

\* Appending a block, which is no gap, keeps every gap between two paragraphs.
LEMMA BlockDrawn ==
  ASSUME NEW r, Drawn(r), Lines(r), NEW kind \in Html \ {"gap", "newline"}
  PROVE  Drawn(Block(r, kind)) /\ Lines(Block(r, kind))
<1> DEFINE h == r.html
           b == Append(h, kind)
           n == Len(h)
<1>1. h \in Seq(Html) /\ n \in Nat /\ Between(h)
  BY DEF Drawn
<1>2. /\ b \in Seq(Html) /\ Len(b) = n + 1 /\ b[n + 1] = kind
      /\ \A j \in 1..n : b[j] = h[j]
  BY <1>1, AppendProperties
<1> HIDE DEF b
<1>3. Between(b)
  <2> SUFFICES ASSUME NEW i \in 1..Len(b), b[i] \in {"gap", "newline"}
               PROVE  i > 1 /\ i < Len(b) /\ b[i - 1] = "text" /\ b[i + 1] = "text"
    BY DEF Between
  <2>1. i # n + 1
    BY <1>2
  <2>2. i \in 1..n
    BY <1>1, <1>2, <2>1
  <2>3. n <= Len(b)
    BY <1>1, <1>2
  <2> HIDE DEF h
  <2> QED
    BY <1>1, <1>2, <2>2, <2>3, StillBetween
<1>4. Block(r, kind) = [rest |-> r.rest, read |-> r.read, inCode |-> r.inCode, code |-> r.code,
                            afterBlock |-> TRUE, gap |-> FALSE, html |-> b, over |-> r.over]
  <2>1. Block(r, kind) = [r EXCEPT !.html = b, !.afterBlock = TRUE, !.gap = FALSE]
    BY DEF Block, b
  <2> QED
    BY <2>1 DEF Lines
<1>5. Lines(Block(r, kind))
  BY <1>4 DEF Lines
<1> QED
  BY <1>2, <1>3, <1>4, <1>5 DEF Drawn

\* A paragraph is set off from the one above it, and from nothing else.
LEMMA ParagraphDrawn ==
  ASSUME NEW r, Drawn(r), Lines(r)
  PROVE  Drawn(Paragraph(r)) /\ Lines(Paragraph(r))
<1> DEFINE h == r.html
           s == Separator(r)
           p == h \o s
           b == p \o <<"text">>
           n == Len(h)
<1>1. h \in Seq(Html) /\ n \in Nat /\ Between(h)
  BY DEF Drawn
<1>2. <<"text">> \in Seq(Html) /\ Len(<<"text">>) = 1 /\ <<"text">>[1] = "text"
  BY DEF Html, LineKind
<1>3. Paragraph(r) = [rest |-> r.rest, read |-> r.read, inCode |-> r.inCode, code |-> r.code,
                      afterBlock |-> FALSE, gap |-> FALSE, html |-> b, over |-> r.over]
  <2>1. Paragraph(r) = [r EXCEPT !.html = b, !.afterBlock = FALSE, !.gap = FALSE]
    BY DEF Paragraph
  <2> HIDE DEF b
  <2> QED
    BY <2>1 DEF Lines
<1>4. Lines(Paragraph(r))
  <2> HIDE DEF b
  <2> QED
    BY <1>3 DEF Lines
<1>5. CASE r.afterBlock
  <2>1. p = h
    <3>1. s = <<>>
      BY <1>5 DEF Separator
    <3> QED
      BY <1>1, <3>1, ConcatEmptySeq
  <2>2. /\ b \in Seq(Html) /\ Len(b) = n + 1
        /\ \A j \in 1..n : b[j] = h[j]
        /\ b[n + 1] = "text"
    <3>1. "text" \in Html
      BY DEF Html, LineKind
    <3>2. b = Append(h, "text")
      BY <1>1, <2>1, <3>1, AppendIsConcat
    <3> HIDE DEF b
    <3> QED
      BY <1>1, <3>1, <3>2, AppendProperties
  <2> HIDE DEF b
  <2>3. Between(b)
    <3> SUFFICES ASSUME NEW i \in 1..Len(b), b[i] \in {"gap", "newline"}
                 PROVE  i > 1 /\ i < Len(b) /\ b[i - 1] = "text" /\ b[i + 1] = "text"
      BY DEF Between
    <3>1. i # n + 1
      BY <2>2
    <3>2. i \in 1..n
      BY <1>1, <2>2, <3>1
    <3>3. n <= Len(b)
      BY <1>1, <2>2
    <3> HIDE DEF h
    <3> QED
      BY <1>1, <2>2, <3>2, <3>3, StillBetween
  <2>4. b # <<>> /\ b[Len(b)] = "text"
    BY <1>1, <2>2, EmptySeq
  <2> QED
    BY <1>3, <1>4, <2>2, <2>3, <2>4 DEF Drawn
<1>6. CASE ~r.afterBlock
  <2>1. PICK g \in {"gap", "newline"} : s = <<g>>
    BY <1>6 DEF Separator
  <2>2. /\ b \in Seq(Html) /\ Len(b) = n + 2
        /\ \A j \in 1..n : b[j] = h[j]
        /\ b[n + 1] = g /\ b[n + 2] = "text"
    <3>1. "text" \in Html /\ g \in Html
      BY DEF Html, LineKind
    <3>2. p = Append(h, g)
      BY <1>1, <2>1, <3>1, AppendIsConcat
    <3> HIDE DEF p, s
    <3>3. p \in Seq(Html) /\ Len(p) = n + 1 /\ p[n + 1] = g /\ \A j \in 1..n : p[j] = h[j]
      BY <1>1, <3>1, <3>2, AppendProperties
    <3>4. b = Append(p, "text")
      BY <3>1, <3>3, AppendIsConcat
    <3> HIDE DEF b
    <3>5. b \in Seq(Html) /\ Len(b) = Len(p) + 1 /\ b[Len(p) + 1] = "text" /\ \A j \in 1..Len(p) : b[j] = p[j]
      BY <3>1, <3>3, <3>4, AppendProperties
    <3>6. n + 1 + 1 = n + 2 /\ n + 1 \in 1..(n + 1) /\ \A j \in 1..n : j \in 1..(n + 1)
      BY <1>1
    <3> QED
      BY <3>3, <3>5, <3>6
  <2> HIDE DEF b, s
  <2>3. n # 0 /\ h[n] = "text"
    BY <1>1, <1>6, EmptySeq DEF Drawn
  <2>4. Between(b)
    <3> SUFFICES ASSUME NEW i \in 1..Len(b), b[i] \in {"gap", "newline"}
                 PROVE  i > 1 /\ i < Len(b) /\ b[i - 1] = "text" /\ b[i + 1] = "text"
      BY DEF Between
    <3>1. i # n + 2
      BY <2>2
    <3>2. CASE i \in 1..n
      <4>1. n <= Len(b)
        BY <1>1, <2>2
      <4> HIDE DEF h
      <4> QED
        BY <1>1, <2>2, <3>2, <4>1, StillBetween
    <3>3. CASE i = n + 1
      <4>1. i - 1 = n /\ n \in 1..n /\ i + 1 = n + 2 /\ i > 1 /\ i < n + 2
        BY <1>1, <2>3, <3>3
      <4> QED
        BY <2>2, <2>3, <4>1
    <3> QED
      BY <1>1, <2>2, <3>1, <3>2, <3>3
  <2>5. b # <<>> /\ b[Len(b)] = "text"
    BY <1>1, <2>2, EmptySeq
  <2> QED
    BY <1>3, <1>4, <2>2, <2>4, <2>5 DEF Drawn
<1> QED
  BY <1>5, <1>6

\* Every line of an answer goes to the box that is open, or is drawn.
LEMMA LineDrawn ==
  ASSUME NEW r, Drawn(r), Lines(r), NEW line \in LineKind
  PROVE  Drawn(ReadLine(r, line)) /\ Lines(ReadLine(r, line)) /\ ReadLine(r, line).over = r.over /\ ReadLine(r, line).rest = r.rest
<1>1. ASSUME NEW q, Lines(q), q.html = r.html, q.afterBlock = r.afterBlock
      PROVE  Drawn(q)
  BY <1>1 DEF Drawn
<1>0. r = [rest |-> r.rest, read |-> r.read, inCode |-> r.inCode, code |-> r.code,
           afterBlock |-> r.afterBlock, gap |-> r.gap, html |-> r.html, over |-> r.over]
  BY DEF Lines
<1>2. CASE r.inCode /\ line = "fence"
  <2>1. Drawn(Block(r, "pre")) /\ Lines(Block(r, "pre"))
    BY BlockDrawn DEF Html
  <2> DEFINE q == Block(r, "pre")
             p == ReadLine(r, line)
  <2>2. q.over = r.over /\ q.rest = r.rest
    BY DEF Block, Lines
  <2>6. Drawn(q) /\ Lines(q)
    BY <2>1
  <2>5. p = [q EXCEPT !.code = 0, !.inCode = FALSE]
    BY <1>2 DEF ReadLine, FlushCode
  <2> HIDE DEF q, p
  <2>3. p = [rest |-> q.rest, read |-> q.read, inCode |-> FALSE, code |-> 0,
             afterBlock |-> q.afterBlock, gap |-> q.gap, html |-> q.html, over |-> q.over]
    BY <2>5, <2>6 DEF Lines
  <2>4. Drawn(p) /\ Lines(p) /\ p.over = r.over /\ p.rest = r.rest
    BY <2>2, <2>3, <2>6 DEF Drawn, Lines
  <2> QED
    BY <2>4 DEF p
<1>3. CASE r.inCode /\ line # "fence"
  <2> DEFINE p == ReadLine(r, line)
  <2>1. p = [r EXCEPT !.code = @ + 1]
    BY <1>3 DEF ReadLine
  <2> HIDE DEF p
  <2>2. p = [rest |-> r.rest, read |-> r.read, inCode |-> r.inCode, code |-> r.code + 1,
             afterBlock |-> r.afterBlock, gap |-> r.gap, html |-> r.html, over |-> r.over]
    BY <1>0, <2>1
  <2>3. Lines(p) /\ p.html = r.html /\ p.afterBlock = r.afterBlock /\ p.over = r.over /\ p.rest = r.rest
    BY <1>3, <2>2 DEF Lines
  <2> QED
    BY <1>1, <2>3 DEF p
<1>4. CASE ~r.inCode /\ line = "fence"
  <2> DEFINE p == ReadLine(r, line)
  <2>1. p = [r EXCEPT !.inCode = TRUE]
    BY <1>4 DEF ReadLine
  <2> HIDE DEF p
  <2>2. p = [rest |-> r.rest, read |-> r.read, inCode |-> TRUE, code |-> r.code,
             afterBlock |-> r.afterBlock, gap |-> r.gap, html |-> r.html, over |-> r.over]
    BY <1>0, <2>1
  <2>3. Lines(p) /\ p.html = r.html /\ p.afterBlock = r.afterBlock /\ p.over = r.over /\ p.rest = r.rest
    BY <2>2 DEF Lines
  <2> QED
    BY <1>1, <2>3 DEF p
<1>5. CASE ~r.inCode /\ line = "blank"
  <2> DEFINE p == ReadLine(r, line)
  <2>1. p = [r EXCEPT !.gap = TRUE]
    BY <1>5 DEF ReadLine
  <2> HIDE DEF p
  <2>2. p = [rest |-> r.rest, read |-> r.read, inCode |-> r.inCode, code |-> r.code,
             afterBlock |-> r.afterBlock, gap |-> TRUE, html |-> r.html, over |-> r.over]
    BY <1>0, <2>1
  <2>3. Lines(p) /\ p.html = r.html /\ p.afterBlock = r.afterBlock /\ p.over = r.over /\ p.rest = r.rest
    BY <2>2 DEF Lines
  <2> QED
    BY <1>1, <2>3 DEF p
<1>6. CASE ~r.inCode /\ line \in {"heading", "rule", "bullet"}
  <2>1. ReadLine(r, line) = Block(r, line)
    BY <1>6 DEF ReadLine
  <2>2. Block(r, line).over = r.over /\ Block(r, line).rest = r.rest
    BY DEF Block, Lines
  <2>3. line \in Html \ {"gap", "newline"}
    BY <1>6 DEF Html, LineKind
  <2> QED
    BY <2>1, <2>2, <2>3, BlockDrawn
<1>7. CASE ~r.inCode /\ line = "text"
  <2>1. ReadLine(r, line) = Paragraph(r)
    BY <1>7 DEF ReadLine
  <2>2. Paragraph(r).over = r.over /\ Paragraph(r).rest = r.rest
    BY DEF Paragraph, Lines
  <2> QED
    BY <2>1, <2>2, ParagraphDrawn
<1> QED
  BY <1>2, <1>3, <1>4, <1>5, <1>6, <1>7 DEF LineKind

\* An answer is begun, read line by line and ended, with its last box.
LEMMA ReaderStep ==
  ASSUME AnswerPage, (\E lines \in Answers : StartAnswer(lines)) \/ Read \/ EndAnswer
  PROVE  AnswerPage'
<1>1. CASE \E lines \in Answers : StartAnswer(lines)
  <2>1. PICK lines \in Answers : StartAnswer(lines)
    BY <1>1
  <2>2. lines \in Seq(LineKind)
    <3>1. PICK n \in 0..MaxLines : lines \in [1..n -> LineKind]
      BY DEF Answers
    <3>2. n \in Nat
      BY <3>1, BoundAssumption
    <3> QED
      BY <3>1, <3>2
  <2>3. reader' = [rest |-> lines, read |-> 0, inCode |-> FALSE, code |-> 0, afterBlock |-> TRUE,
                   gap |-> FALSE, html |-> <<>>, over |-> FALSE]
    BY <2>1 DEF StartAnswer, NoReader
  <2>4. reader'.html \in Seq(Html) /\ Len(reader'.html) = 0 /\ reader'.afterBlock
    BY <2>3, EmptySeq
  <2>5. Drawn(reader')
    BY <2>4 DEF Drawn, Between
  <2>6. Lines(reader') /\ ~reader'.over
    BY <2>2, <2>3 DEF Lines
  <2> QED
    BY <2>5, <2>6 DEF AnswerPage
<1>2. CASE Read
  <2> DEFINE line == Head(reader.rest)
             r == ReadLine(reader, line)
  <2>1. /\ reader.rest # <<>> /\ ~reader.over
        /\ reader' = [r EXCEPT !.rest = Tail(@), !.read = @ + 1]
    BY <1>2 DEF Read
  <2>2. line \in LineKind
    BY <2>1 DEF AnswerPage, Lines
  <2>3. Drawn(r) /\ Lines(r) /\ r.over = reader.over /\ r.rest = reader.rest
    BY <2>2, LineDrawn DEF AnswerPage
  <2>4. r.rest # <<>>
    BY <2>1, <2>3
  <2> HIDE DEF r
  <2>5. reader' = [rest |-> Tail(r.rest), read |-> r.read + 1, inCode |-> r.inCode, code |-> r.code,
                   afterBlock |-> r.afterBlock, gap |-> r.gap, html |-> r.html, over |-> r.over]
    BY <2>1, <2>3 DEF Lines
  <2>6. Tail(r.rest) \in Seq(LineKind)
    BY <2>3, <2>4 DEF Lines
  <2>7. Lines(reader') /\ Drawn(reader') /\ ~reader'.over
    BY <2>1, <2>3, <2>5, <2>6 DEF Lines, Drawn
  <2> QED
    BY <2>7 DEF AnswerPage
<1>3. CASE EndAnswer
  <2> DEFINE r == LastBox(reader)
  <2>1. reader' = [r EXCEPT !.over = TRUE]
    BY <1>3 DEF EndAnswer
  <2>2. Drawn(r) /\ Lines(r) /\ ~r.inCode
    <3>1. CASE ~reader.inCode
      BY <3>1 DEF LastBox, AnswerPage
    <3>2. CASE reader.inCode
      <4>1. ReadLine(reader, "fence") = FlushCode(reader)
        BY <3>2 DEF ReadLine
      <4>2. Drawn(FlushCode(reader)) /\ Lines(FlushCode(reader))
        BY <4>1, LineDrawn DEF AnswerPage, LineKind
      <4> DEFINE f == FlushCode(reader)
      <4>3. r = [f EXCEPT !.inCode = FALSE]
        BY <3>2 DEF LastBox
      <4>4. f.inCode = FALSE
        BY DEF FlushCode, Block, AnswerPage, Lines
      <4> HIDE DEF f
      <4>5. Drawn(f) /\ Lines(f)
        BY <4>2 DEF f
      <4>6. r = f
        BY <4>3, <4>4, <4>5 DEF Lines
      <4> QED
        BY <4>4, <4>5, <4>6
    <3> QED
      BY <3>1, <3>2
  <2> HIDE DEF r
  <2>3. reader' = [rest |-> r.rest, read |-> r.read, inCode |-> r.inCode, code |-> r.code,
                   afterBlock |-> r.afterBlock, gap |-> r.gap, html |-> r.html, over |-> TRUE]
    BY <2>1, <2>2 DEF Lines
  <2>4. Lines(reader') /\ Drawn(reader') /\ ~reader'.inCode
    BY <2>2, <2>3 DEF Lines, Drawn
  <2> QED
    BY <2>4 DEF AnswerPage
<1> QED
  BY <1>1, <1>2, <1>3

\* What a step of one part leaves alone stays in its place.
LEMMA Frame ==
  /\ SimplePages /\ UNCHANGED pagesVars => SimplePages'
  /\ CurrentPage /\ UNCHANGED currentVars => CurrentPage'
  /\ WriterPage /\ UNCHANGED writerVars => WriterPage'
  /\ AnswerPage /\ UNCHANGED reader => AnswerPage'
  BY DEF pagesVars, currentVars, bindVars, planVars, writerVars, SimplePages, LitTabIsDisplayed, CurrentPage, WriterPage, AnswerPage

\* Every step keeps every part.
LEMMA RestStep ==
  ASSUME Inv, Rest, [Next]_vars
  PROVE  Rest'
<1>1. CASE /\ \/ \E p \in Page : OnePage(p) /\ (Ask(p) \/ Clear(p))
              \/ AnswerPages
              \/ (\E v \in View : ClickView(v)) \/ (\E t \in TunnerTab : ClickTunnerTab(t))
              \/ \E d \in Databases : LoadAccounts(d) \/ AccountsLoaded(d)
           /\ Bounded
  <2>1. UNCHANGED <<watched, currentVars, writerVars, reader>>
    BY <1>1 DEF Ask, Clear, AnswerPages, Answered, ClickView, ClickTunnerTab, LoadAccounts, AccountsLoaded
  <2>2. SimplePages'
    BY <1>1, SimpleStep DEF Rest
  <2> QED
    BY <2>1, <2>2, Frame DEF Rest
<1>2. CASE \/ NewText \/ (\E b \in Bind, given \in BOOLEAN : TypeValue(b, given))
           \/ Toggle \/ CaptureBinds \/ AnswerCapture
           \/ QuickCheck \/ AnswerChecks \/ Analyze \/ AnswerAnalyses \/ TypingEnds \/ FollowUp
  <2>1. UNCHANGED <<watched, pagesVars, writerVars, reader>>
    BY <1>2 DEF NewText, Edit, ClearCurrent, HandOver, TypeValue, Toggle, CaptureBinds, AnswerCapture,
                CaptureAnswered, QuickCheck, AnswerChecks, QuickCheckAnswered, Analyze, AnswerAnalyses,
                AnalysisAnswered, TypingEnds, FollowUp
  <2>2. CurrentPage'
    BY <1>2, CurrentStep DEF Rest
  <2> QED
    BY <2>1, <2>2, Frame DEF Rest
<1>3. CASE /\ \/ Lookup \/ AnswerLookups \/ AddTable \/ (\E i \in DOMAIN chips : RemoveTable(i))
              \/ Generate \/ GenerateAnswered \/ ClearWriter
           /\ Bounded
  <2>1. UNCHANGED <<watched, pagesVars, currentVars, reader>>
    BY <1>3 DEF Lookup, AnswerLookups, LookupAnswered, AddTable, RemoveTable, Generate, GenerateAnswered, ClearWriter
  <2>2. WriterPage'
    BY <1>3, WriterStep DEF Rest
  <2> QED
    BY <2>1, <2>2, Frame DEF Rest
<1>4. CASE (\E lines \in Answers : StartAnswer(lines)) \/ Read \/ EndAnswer
  <2>1. UNCHANGED <<watched, pagesVars, currentVars, writerVars>>
    BY <1>4 DEF StartAnswer, Read, EndAnswer
  <2>2. AnswerPage'
    BY <1>4, ReaderStep DEF Rest
  <2> QED
    BY <2>1, <2>2, Frame DEF Rest
<1>5. CASE UNCHANGED vars
  BY <1>5, Frame DEF vars, Rest
<1> QED
  BY <1>1, <1>2, <1>3, <1>4, <1>5 DEF Next

\* At the start every page is empty.
LEMMA RestInit == Init => Rest
<1> SUFFICES ASSUME Init
             PROVE  Rest
  OBVIOUS
<1>1. SimplePages
  <2>1. Idle \in PageState /\ Idle.asked = 0
    BY BoundAssumption DEF Idle, PageState
  <2>2. \A p \in Page : page[p] = Idle
    BY DEF Init
  <2>3. Guarded \subseteq Page
    BY DEF Guarded, Page
  <2>4. page \in [Page -> PageState]
    BY <2>1 DEF Init
  <2>5. \A p \in Guarded : page[p].asked <= 1 /\ (page[p].enabled => page[p].asked = 0)
    BY <2>1, <2>2, <2>3
  <2>6. view = [aidba |-> "tunner", tab |-> "current", lit |-> {"current"}]
    BY DEF Init
  <2>7. accounts \in [db : Databases, asked : {{}}, of : {None}]
    BY DEF Init
  <2>8. accounts \in [db : Databases, asked : SUBSET Databases, of : Databases \cup {None}]
    BY <2>7
  <2> QED
    BY <2>4, <2>5, <2>6, <2>8 DEF SimplePages, LitTabIsDisplayed, View, TunnerTab
<1>2. CurrentPage
  BY DEF Init, CurrentPage
<1>3. WriterPage
  <2>1. tables \in Seq(Table) /\ Len(tables) = 0
    BY EmptySeq DEF Init
  <2>2. OneOfEachName(tables)
    BY <2>1 DEF OneOfEachName
  <2> QED
    <3>1. /\ chips = tables /\ pending = None /\ preview = None /\ lookups = 0 /\ generating = 0
          /\ lookupOn = TRUE /\ generateOn = FALSE
      BY DEF Init
    <3>2. 0 \in 0..MaxAsked
      BY BoundAssumption
    <3>3. lookupOn \in BOOLEAN /\ generateOn \in BOOLEAN
      BY <3>1, Zenon
    <3>4. lookups \in 0..MaxAsked /\ generating \in 0..MaxAsked /\ lookups <= 1 /\ lookups = 0
      BY <3>1, <3>2
    <3>5. chips = tables /\ pending \in Table \cup {None} /\ preview = pending
      BY <3>1, Zenon
    <3> QED
      BY <2>1, <2>2, <3>3, <3>4, <3>5 DEF WriterPage
<1>4. AnswerPage
  <2>1. reader = [rest |-> <<>>, read |-> 0, inCode |-> FALSE, code |-> 0, afterBlock |-> TRUE,
                  gap |-> FALSE, html |-> <<>>, over |-> TRUE]
    BY DEF Init, NoReader
  <2>2. reader.html \in Seq(Html) /\ Len(reader.html) = 0 /\ reader.rest \in Seq(LineKind) /\ reader.afterBlock
    BY <2>1, EmptySeq
  <2>3. Drawn(reader)
    BY <2>2 DEF Drawn, Between
  <2>4. Lines(reader) /\ ~reader.inCode
    BY <2>1, <2>2 DEF Lines
  <2> QED
    BY <2>3, <2>4 DEF AnswerPage
<1> QED
  BY <1>1, <1>2, <1>3, <1>4 DEF Init, Rest

\* Whatever is asked, answered, cleared, added and removed, on whichever page: one request
\* at a time where the page says so, the tab that is lit is displayed, the writer's list is
\* the one that will be sent, and every line of an answer is drawn in its place.
THEOREM PagesShowWhatIs == Spec => []ShownIsWhatIs
<1>1. Init => Inv /\ Rest
  BY InitInv, RestInit
<1>2. Inv /\ Rest /\ [Next]_vars => Inv' /\ Rest'
  BY NextInv, RestStep
<1>3. Inv /\ Rest => ShownIsWhatIs
  BY RestIsShown
<1> QED
  BY <1>1, <1>2, <1>3, PTL DEF Spec

-----------------------------------------------------------------------------
\* The tabs of the other engines: whom a KILL goes to and who can be selected for one.

\* The window has its parts; a button that kills belongs to a confirmation, and kills
\* whom that was opened for.
ButtonOfConfirmation ==
  /\ modal = [open |-> modal.open, title |-> modal.title, of |-> modal.of, body |-> modal.body, go |-> modal.go]
  /\ modal.go # {} => modal.title = "confirm" /\ modal.go = modal.of

\* Who has no boxes has nobody selected, and what a failed load left is no list.
Selection ==
  /\ ~admin \/ followed = "capacity" => checked = {}
  /\ table.shown # "rows" => table.rows = {}

\* A tab that is displayed is a tab.
Tabs == visible \subseteq Tab /\ activeView \in Tab /\ followed \in Loaded

RdbInv == ButtonOfConfirmation /\ Selection /\ Tabs /\ ActiveTabIsVisible /\ SelectedIsListed

-----------------------------------------------------------------------------
\* The tab that is shown is visible if one is.
LEMMA ShownIsVisible ==
  ASSUME NEW tabs \in SUBSET Tab, NEW tab \in Tab
  PROVE  TabToShow(tabs, tab) \in Tab /\ (TabToShow(tabs, tab) \in tabs \/ tabs = {})
  BY DEF TabToShow, FirstVisible, Tab

\* A load leaves the selection and shows an empty list only where it asks nothing.
LEMMA LoadStep ==
  ASSUME RdbInv, NEW tab, NEW by, Load(tab, by), UNCHANGED <<followed, admin, checked>>
  PROVE  Selection' /\ SelectedIsListed'
<1>1. CASE tab # followed \/ dbId
  <2>1. table' = table
    BY <1>1 DEF Load
  <2> QED
    BY <2>1 DEF RdbInv, Selection, SelectedIsListed
<1>2. CASE tab = followed /\ ~dbId
  <2>1. table' = [shown |-> "error", rows |-> {}, waits |-> {}]
    BY <1>2 DEF Load, NoTable
  <2> QED
    BY <2>1 DEF RdbInv, Selection, SelectedIsListed
<1> QED
  BY <1>1, <1>2

\* Showing, hiding and refreshing tabs.
LEMMA TabStep ==
  ASSUME RdbInv, \/ \E v \in Tab : ClickTab(v)
              \/ \E tabs \in {Tab, Tab \ {followed}} : SyncActiveTab(tabs)
              \/ RefreshViews \/ Reload
  PROVE  RdbInv'
<1>1. modal' = modal /\ UNCHANGED <<followed, admin, checked>>
  BY DEF ClickTab, SyncActiveTab, RefreshViews, Reload, tabVars
<1>2. ButtonOfConfirmation'
  BY <1>1 DEF RdbInv, ButtonOfConfirmation
<1>3. CASE \E v \in Tab : ClickTab(v)
  <2>1. PICK v \in Tab : ClickTab(v)
    BY <1>3
  <2>2. visible' = visible /\ activeView' = TabToShow(visible, v) /\ Load(activeView', "tab")
    BY <2>1 DEF ClickTab, ShowView
  <2>3. Tabs' /\ ActiveTabIsVisible'
    BY <1>1, <2>2, ShownIsVisible DEF RdbInv, Tabs, ActiveTabIsVisible
  <2> QED
    BY <1>1, <1>2, <2>2, <2>3, LoadStep DEF RdbInv
<1>4. CASE \E tabs \in {Tab, Tab \ {followed}} : SyncActiveTab(tabs)
  <2>1. PICK tabs \in {Tab, Tab \ {followed}} : SyncActiveTab(tabs)
    BY <1>4
  <2>2. /\ tabs \in SUBSET Tab /\ visible' = tabs /\ activeView' = TabToShow(tabs, activeView)
        /\ Load(activeView', "tab")
    BY <2>1 DEF SyncActiveTab, ShowView
  <2>3. Tabs' /\ ActiveTabIsVisible'
    BY <1>1, <2>2, ShownIsVisible DEF RdbInv, Tabs, ActiveTabIsVisible
  <2> QED
    BY <1>1, <1>2, <2>2, <2>3, LoadStep DEF RdbInv
<1>5. CASE RefreshViews \/ Reload
  <2>1. UNCHANGED tabVars /\ (Load(activeView, "tab") \/ Load(followed, "reload"))
    BY <1>5 DEF RefreshViews, Reload
  <2>2. Tabs' /\ ActiveTabIsVisible'
    BY <1>1, <2>1 DEF tabVars, RdbInv, Tabs, ActiveTabIsVisible
  <2> QED
    BY <1>1, <1>2, <2>1, <2>2, LoadStep DEF RdbInv
<1> QED
  BY <1>3, <1>4, <1>5

\* A list that is drawn keeps of the selection who is on it.
LEMMA AnswerStep ==
  ASSUME RdbInv, NEW by, LoadAnswered(by)
  PROVE  RdbInv'
<1>1. modal' = modal /\ UNCHANGED <<followed, tabVars>>
  BY DEF LoadAnswered, LoadFailed, SessionsLoaded, LocksLoaded, CapacityLoaded, LoadOver
<1>2. ButtonOfConfirmation' /\ Tabs' /\ ActiveTabIsVisible'
  BY <1>1 DEF tabVars, RdbInv, ButtonOfConfirmation, Tabs, ActiveTabIsVisible
<1>3. RenderError \/ \E rows, waits : Rendered(rows, waits)
  BY DEF LoadAnswered, LoadFailed, SessionsLoaded, LocksLoaded, CapacityLoaded
<1>4. CASE RenderError
  <2>1. table' = [shown |-> "error", rows |-> {}, waits |-> {}] /\ checked' = checked
    BY <1>4 DEF RenderError, NoTable
  <2> QED
    BY <1>1, <1>2, <2>1 DEF tabVars, RdbInv, Selection, SelectedIsListed
<1>5. CASE \E rows, waits : Rendered(rows, waits)
  <2>1. PICK rows, waits : Rendered(rows, waits)
    BY <1>5
  <2>2. /\ table' = [shown |-> "rows", rows |-> rows, waits |-> waits]
        /\ checked' = IF admin /\ followed # "capacity" THEN checked \cap Sids(rows) ELSE checked
    BY <2>1 DEF Rendered, WireChecks
  <2>3. checked' \subseteq Sids(rows) /\ (checked = {} => checked' = {})
    BY <2>2 DEF RdbInv, Selection
  <2> QED
    BY <1>1, <1>2, <2>2, <2>3 DEF tabVars, RdbInv, Selection, SelectedIsListed
<1> QED
  BY <1>3, <1>4, <1>5

\* Ticking selects who is listed.
LEMMA TickStep ==
  ASSUME RdbInv, (\E row \in table.rows : TickBox(row)) \/ (\E on \in BOOLEAN : TickAll(on))
  PROVE  RdbInv'
<1>1. modal' = modal /\ table' = table /\ UNCHANGED <<followed, tabVars>> /\ admin /\ followed # "capacity"
  BY DEF TickBox, TickAll
<1>2. checked' \subseteq checked \cup Sids(table.rows)
  BY DEF TickBox, TickAll, Sids
<1> QED
  BY <1>1, <1>2 DEF tabVars, RdbInv, ButtonOfConfirmation, Tabs, ActiveTabIsVisible, Selection, SelectedIsListed

\* What opens, answers and closes the window.
WindowAction ==
  \/ \E row \in table.rows : OpenDetail(row)
  \/ CloseModal \/ ConfirmKill \/ RunKill
  \/ \E x \in details : DetailAnswered(x)
  \/ \E ids \in kills, outcome \in {"results", "error", "failed"} : KillAnswered(ids, outcome)

\* The window: opened for a row, for whom is selected, or for whom was confirmed.
LEMMA WindowStep ==
  ASSUME RdbInv, WindowAction
  PROVE  RdbInv'
<1>1. UNCHANGED <<followed, tabVars>> /\ table' = table /\ (checked' = checked \/ checked' = {})
  BY DEF WindowAction, OpenDetail, CloseModal, ConfirmKill, RunKill, DetailAnswered, KillAnswered, tableVars
<1>2. Tabs' /\ ActiveTabIsVisible' /\ Selection' /\ SelectedIsListed'
  BY <1>1 DEF tabVars, RdbInv, Tabs, ActiveTabIsVisible, Selection, SelectedIsListed
<1>3. ButtonOfConfirmation'
  <2>1. CASE (\E row \in table.rows : OpenDetail(row)) \/ RunKill
    BY <2>1 DEF OpenDetail, RunKill, OpenModal, ButtonOfConfirmation
  <2>2. CASE ConfirmKill
    BY <2>2 DEF ConfirmKill, OpenModal, ButtonOfConfirmation
  <2>3. CASE CloseModal
    BY <2>3 DEF CloseModal, RdbInv, ButtonOfConfirmation
  <2>4. CASE \/ \E x \in details : DetailAnswered(x)
             \/ \E ids \in kills, outcome \in {"results", "error", "failed"} : KillAnswered(ids, outcome)
    <3>1. modal' = [modal EXCEPT !.body = "answer"]
      BY <2>4 DEF DetailAnswered, KillAnswered
    <3> QED
      BY <3>1 DEF RdbInv, ButtonOfConfirmation
  <2> QED
    BY <2>1, <2>2, <2>3, <2>4 DEF WindowAction
<1> QED
  BY <1>2, <1>3 DEF RdbInv

\* Every step keeps the invariant.
LEMMA RdbNextInv ==
  ASSUME RdbInv, [RdbNext]_rdbVars
  PROVE  RdbInv'
<1>1. CASE \/ \E v \in Tab : ClickTab(v)
           \/ \E tabs \in {Tab, Tab \ {followed}} : SyncActiveTab(tabs)
           \/ RefreshViews \/ Reload
  BY <1>1, TabStep
<1>2. CASE \E by \in {"tab", "reload", "kill"} : LoadAnswered(by)
  BY <1>2, AnswerStep
<1>3. CASE (\E row \in table.rows : TickBox(row)) \/ (\E on \in BOOLEAN : TickAll(on))
  BY <1>3, TickStep
<1>4. CASE WindowAction
  BY <1>4, WindowStep
<1>5. CASE UNCHANGED rdbVars
  BY <1>5 DEF rdbVars, tabVars, tableVars, RdbInv, ButtonOfConfirmation, Selection, Tabs, ActiveTabIsVisible,
              SelectedIsListed
<1> QED
  BY <1>1, <1>2, <1>3, <1>4, <1>5 DEF RdbNext, WindowAction

\* At the start there is no window, no list and nobody selected.
LEMMA RdbInitInv == RdbInit => RdbInv
  BY DEF RdbInit, NoModal, NoTable, Tab, RdbInv, ButtonOfConfirmation, Selection, Tabs, ActiveTabIsVisible,
         SelectedIsListed

\* Only the button of a confirmation asks for a KILL.
LEMMA KillStep ==
  ASSUME RdbInv, [RdbNext]_rdbVars, NEW ids \in kills' \ kills
  PROVE  modal.title = "confirm" /\ ids = modal.of
<1>1. CASE RunKill
  <2>1. modal.go # {} /\ ids = modal.go
    BY <1>1 DEF RunKill, Confirmed
  <2> QED
    BY <2>1 DEF RdbInv, ButtonOfConfirmation
<1>2. CASE \/ \E v \in Tab : ClickTab(v)
           \/ \E tabs \in {Tab, Tab \ {followed}} : SyncActiveTab(tabs)
           \/ RefreshViews \/ Reload
  BY <1>2 DEF ClickTab, SyncActiveTab, RefreshViews, Reload, callVars
<1>3. CASE \E by \in {"tab", "reload", "kill"} : LoadAnswered(by)
  BY <1>3 DEF LoadAnswered, LoadFailed, SessionsLoaded, LocksLoaded, CapacityLoaded, LoadOver, callVars
<1>4. CASE (\E row \in table.rows : TickBox(row) \/ OpenDetail(row)) \/ (\E on \in BOOLEAN : TickAll(on))
  BY <1>4 DEF TickBox, TickAll, OpenDetail, callVars
<1>5. CASE \/ CloseModal \/ ConfirmKill
           \/ \E x \in details : DetailAnswered(x)
           \/ \E i \in kills, outcome \in {"results", "error", "failed"} : KillAnswered(i, outcome)
           \/ UNCHANGED rdbVars
  BY <1>5 DEF CloseModal, ConfirmKill, DetailAnswered, KillAnswered, callVars, rdbVars
<1> QED
  BY <1>1, <1>2, <1>3, <1>4, <1>5 DEF RdbNext

\* However loads, answers and earlier KILLs change the selection below the open window:
\* a KILL is sent only from a confirmation, and for those it was opened to list.
THEOREM KillsTheConfirmed == RdbSpec => KillsWhatWasConfirmed
<1>1. RdbInit => RdbInv
  BY RdbInitInv
<1>2. RdbInv /\ [RdbNext]_rdbVars => RdbInv'
  BY RdbNextInv
<1>3. RdbInv /\ [RdbNext]_rdbVars => [\A ids \in kills' \ kills : modal.title = "confirm" /\ ids = modal.of]_rdbVars
  BY KillStep
<1> QED
  BY <1>1, <1>2, <1>3, PTL DEF RdbSpec, KillsWhatWasConfirmed

-----------------------------------------------------------------------------
\* The lock tree: a row is a branch without repetition, except perhaps for its end.

\* The waits the tree is drawn of, and what it was drawn as.
TreeOfWaits ==
  followed = "locks" =>
    /\ table.waits \subseteq Session \X (Session \cup {Unknown})
    /\ \E longest \in Session \cup {Unknown} : table.rows = LockRows(table.waits, longest)

\* What a branch is, apart from the bound on its length.
IsBranch(waits, longest, path) ==
  /\ path \in [1..Len(path) -> Nodes(waits)] /\ Len(path) \in Nat \ {0}
  /\ path[1] \in Roots(waits, longest)
  /\ \A i \in 2..Len(path) : <<path[i], path[i - 1]>> \in waits
  /\ \A i, j \in 1..(Len(path) - 1) : path[i] = path[j] => i = j

\* Who takes part in a wait is a session, so there are no more of them than sessions.
LEMMA NodesFinite ==
  ASSUME NEW waits \in SUBSET (Session \X (Session \cup {Unknown}))
  PROVE  /\ Nodes(waits) \subseteq Session /\ IsFiniteSet(Nodes(waits))
         /\ Cardinality(Nodes(waits)) \in Nat /\ Cardinality(Session) \in Nat
         /\ Cardinality(Nodes(waits)) <= Cardinality(Session)
<1>1. Nodes(waits) \subseteq Session
  BY UnknownAssumption DEF Nodes
<1> QED
  BY <1>1, SessionAssumption, FS_Subset, FS_CardinalityType

\* A sequence without repetition is no longer than its set has elements.
LEMMA DistinctIsShort ==
  ASSUME NEW S, IsFiniteSet(S), NEW k \in Nat, NEW f,
         \A i \in 1..k : f[i] \in S,
         \A i, j \in 1..k : f[i] = f[j] => i = j
  PROVE  k <= Cardinality(S)
<1> DEFINE g == [i \in 1..k |-> f[i]]
<1>1. g \in Injection(1..k, S)
  BY DEF Injection, IsInjective
<1>2. Cardinality(1..k) <= Cardinality(S)
  BY <1>1, FS_Injection
<1>3. Cardinality(1..k) = k
  BY FS_Interval
<1> QED
  BY <1>2, <1>3

\* The rows of the tree are its branches: the bound on their length excludes none.
LEMMA RowsAreBranches ==
  ASSUME NEW waits \in SUBSET (Session \X (Session \cup {Unknown})), NEW longest, NEW path
  PROVE  /\ path \in LockRows(waits, longest) => IsBranch(waits, longest, path)
         /\ IsBranch(waits, longest, path) =>
              path \in LockRows(waits, longest) /\ Len(path) <= Cardinality(Nodes(waits)) + 1
<1> DEFINE N == Nodes(waits)
           M == Cardinality(Session) + 2
           Few(p) == ~Repeated(SubSeq(p, 1, Len(p) - 1))
<1>1. /\ IsFiniteSet(N) /\ Cardinality(N) \in Nat /\ Cardinality(Session) \in Nat
      /\ Cardinality(N) <= Cardinality(Session)
  BY NodesFinite
<1>2. ASSUME NEW k \in Nat \ {0}, NEW p \in [1..k -> N]
      PROVE  /\ Len(p) = k
             /\ Few(p) <=> \A i, j \in 1..(k - 1) : p[i] = p[j] => i = j
  <2>1. p \in Seq(N) /\ Len(p) = k
    BY <1>2
  <2>2. /\ SubSeq(p, 1, k - 1) \in Seq(N) /\ Len(SubSeq(p, 1, k - 1)) = k - 1
        /\ \A i \in 1..(k - 1) : SubSeq(p, 1, k - 1)[i] = p[i]
    BY <1>2, <2>1
  <2>3. DOMAIN SubSeq(p, 1, k - 1) = 1..(k - 1)
    BY <2>2
  <2> QED
    BY <2>1, <2>2, <2>3 DEF Repeated, Distinct
<1>3. ASSUME path \in LockRows(waits, longest)
      PROVE  IsBranch(waits, longest, path)
  <2>1. PICK k \in 1..M : path \in [1..k -> N]
    BY <1>3 DEF LockRows
  <2>2. Len(path) = k /\ k \in Nat \ {0}
    BY <1>1, <1>2, <2>1
  <2>3. /\ path[1] \in Roots(waits, longest)
        /\ \A i \in 2..Len(path) : <<path[i], path[i - 1]>> \in waits
        /\ Few(path)
    BY <1>3 DEF LockRows
  <2> QED
    BY <1>2, <2>1, <2>2, <2>3 DEF IsBranch
<1>4. ASSUME IsBranch(waits, longest, path)
      PROVE  path \in LockRows(waits, longest) /\ Len(path) <= Cardinality(N) + 1
  <2> DEFINE k == Len(path)
  <2>1. path \in [1..k -> N] /\ k \in Nat \ {0}
    BY <1>4 DEF IsBranch
  <2>2. \A i, j \in 1..(k - 1) : path[i] = path[j] => i = j
    BY <1>4 DEF IsBranch
  <2>3. k - 1 \in Nat /\ \A i \in 1..(k - 1) : path[i] \in N
    BY <2>1
  <2>4. k - 1 <= Cardinality(N)
    BY <1>1, <2>2, <2>3, DistinctIsShort
  <2>5. k \in 1..M
    BY <1>1, <2>1, <2>4
  <2>6. Few(path)
    BY <1>2, <2>1, <2>2
  <2>7. path \in UNION {[1..n -> N] : n \in 1..M}
    BY <2>1, <2>5
  <2>8. path[1] \in Roots(waits, longest) /\ \A i \in 2..Len(path) : <<path[i], path[i - 1]>> \in waits
    BY <1>4 DEF IsBranch
  <2> QED
    BY <1>1, <2>1, <2>4, <2>6, <2>7, <2>8 DEF LockRows
<1> QED
  BY <1>3, <1>4

\* A branch that ends by repeating a session passes that session before it ends.
LEMMA BranchWithoutRepetition ==
  ASSUME NEW waits \in SUBSET (Session \X (Session \cup {Unknown})), NEW longest, NEW path,
         IsBranch(waits, longest, path)
  PROVE  \E q : /\ IsBranch(waits, longest, q) /\ Sid(q) = Sid(path)
                /\ \A i, j \in 1..Len(q) : q[i] = q[j] => i = j
<1> DEFINE k == Len(path)
<1>0. k \in Nat \ {0}
  BY DEF IsBranch
<1>1. path \in [1..k -> Nodes(waits)] /\ k \in Nat \ {0} /\ path \in Seq(Nodes(waits))
  BY DEF IsBranch
<1>2. \A i, j \in 1..(k - 1) : path[i] = path[j] => i = j
  BY DEF IsBranch
<1>3. CASE \E i \in 1..(k - 1) : path[i] = path[k]
  <2>1. PICK n \in 1..(k - 1) : path[n] = path[k]
    BY <1>3
  <2> DEFINE q == SubSeq(path, 1, n)
  <2>2. q \in Seq(Nodes(waits)) /\ Len(q) = n /\ \A i \in 1..n : q[i] = path[i]
    BY <1>1, <2>1
  <2> HIDE DEF q
  <2>3. q \in [1..n -> Nodes(waits)] /\ n \in Nat \ {0} /\ n <= k
    BY <1>0, <2>1, <2>2, LenProperties
  <2>4. q[1] \in Roots(waits, longest)
    BY <2>2, <2>3 DEF IsBranch
  <2>5. \A i \in 2..n : <<q[i], q[i - 1]>> \in waits
    <3>1. TAKE i \in 2..n
    <3>2. i \in 2..k /\ i \in 1..n /\ i - 1 \in 1..n
      BY <1>1, <2>3
    <3> QED
      BY <2>2, <3>2 DEF IsBranch
  <2>6. \A i, j \in 1..n : q[i] = q[j] => i = j
    <3>1. \A i \in 1..n : i \in 1..(k - 1)
      BY <1>1, <2>1
    <3> QED
      BY <1>2, <2>2, <3>1
  <2>7. Sid(q) = Sid(path)
    BY <2>1, <2>2, <2>3 DEF Sid
  <2>8. IsBranch(waits, longest, q)
    <3>1. Len(q) = n
      BY <2>2
    <3>2. \A i, j \in 1..(n - 1) : q[i] = q[j] => i = j
      BY <2>3, <2>6
    <3> QED
      BY <2>3, <2>4, <2>5, <3>1, <3>2 DEF IsBranch
  <2> QED
    BY <2>2, <2>6, <2>7, <2>8
<1>4. CASE \A i \in 1..(k - 1) : path[i] # path[k]
  <2>1. \A i \in 1..k : i = k \/ i \in 1..(k - 1)
    BY <1>0
  <2>2. \A i, j \in 1..k : path[i] = path[j] => i = j
    BY <1>2, <1>4, <2>1
  <2> QED
    BY <2>2
<1> QED
  BY <1>3, <1>4

\* Who waits for the last session of a branch without repetition goes on with it.
LEMMA BranchGoesOn ==
  ASSUME NEW waits \in SUBSET (Session \X (Session \cup {Unknown})), NEW longest, NEW q, NEW n,
         IsBranch(waits, longest, q), \A i, j \in 1..Len(q) : q[i] = q[j] => i = j,
         n \in Nodes(waits), <<n, Sid(q)>> \in waits
  PROVE  IsBranch(waits, longest, Append(q, n)) /\ Sid(Append(q, n)) = n
<1> DEFINE k == Len(q)
           p == Append(q, n)
<1>1. q \in [1..k -> Nodes(waits)] /\ k \in Nat \ {0} /\ q \in Seq(Nodes(waits))
  BY DEF IsBranch
<1>2. /\ p \in Seq(Nodes(waits)) /\ Len(p) = k + 1 /\ p[k + 1] = n
      /\ \A i \in 1..k : p[i] = q[i]
  BY <1>1, AppendProperties
<1> HIDE DEF p
<1>3. p \in [1..(k + 1) -> Nodes(waits)] /\ k + 1 \in Nat \ {0}
  BY <1>1, <1>2, LenProperties
<1>4. p[1] \in Roots(waits, longest)
  BY <1>1, <1>2 DEF IsBranch
<1>5. \A i \in 2..(k + 1) : <<p[i], p[i - 1]>> \in waits
  <2>1. TAKE i \in 2..(k + 1)
  <2>2. CASE i = k + 1
    <3>1. p[i] = n /\ p[i - 1] = q[k]
      BY <1>1, <1>2, <2>2
    <3> QED
      BY <3>1 DEF Sid
  <2>3. CASE i \in 2..k
    <3>1. p[i] = q[i] /\ p[i - 1] = q[i - 1]
      BY <1>1, <1>2, <2>3
    <3> QED
      BY <2>3, <3>1 DEF IsBranch
  <2> QED
    BY <1>1, <2>2, <2>3
<1>6. \A i, j \in 1..k : p[i] = p[j] => i = j
  BY <1>2
<1>7. k + 1 - 1 = k
  BY <1>1
<1>8. Sid(p) = n
  BY <1>2 DEF Sid
<1>9. IsBranch(waits, longest, p)
  <2>1. Len(p) = k + 1
    BY <1>2
  <2> QED
    BY <1>3, <1>4, <1>5, <1>6, <1>7, <2>1 DEF IsBranch
<1> QED
  BY <1>8, <1>9 DEF p

\* Every row ends with somebody who takes part in a wait.
LEMMA RowsOfNodes ==
  ASSUME NEW waits \in SUBSET (Session \X (Session \cup {Unknown})), NEW longest
  PROVE  Sids(LockRows(waits, longest)) \subseteq Nodes(waits)
<1>1. \A r \in LockRows(waits, longest) : IsBranch(waits, longest, r)
  BY RowsAreBranches
<1>2. \A r \in LockRows(waits, longest) : Sid(r) \in Nodes(waits)
  BY <1>1 DEF IsBranch, Sid
<1> QED
  BY <1>2 DEF Sids

\* Nobody who takes part in a wait is missing, unless sessions wait in a closed circle.
LEMMA NobodyIsMissing ==
  ASSUME NEW waits \in SUBSET (Session \X (Session \cup {Unknown})), NEW longest, ~Deadlocked(waits)
  PROVE  Sids(LockRows(waits, longest)) = Nodes(waits)
<1> DEFINE N == Nodes(waits)
           rows == LockRows(waits, longest)
           C == N \ Sids(rows)
<1>1. N \subseteq Session
  BY NodesFinite
<1>2. Sids(rows) \subseteq N
  BY RowsOfNodes
<1>3. ASSUME NEW n \in C
      PROVE  Parents(waits, n) # {} /\ Parents(waits, n) \subseteq C
  <2>1. Parents(waits, n) # {}
    <3> SUFFICES ASSUME Parents(waits, n) = {}
                 PROVE  FALSE
      OBVIOUS
    <3>1. \A b \in Session : n \notin Children(waits, b)
      <4>1. ASSUME NEW b \in Session, n \in Children(waits, b)
            PROVE  FALSE
        <5>1. PICK w \in waits : w[2] = b /\ w[1] = n
          BY <4>1 DEF Children
        <5>2. b \in N
          BY <5>1, UnknownAssumption DEF Nodes
        <5> QED
          BY <4>1, <5>2 DEF Parents
      <4> QED
        BY <4>1
    <3>2. n \in Parentless(waits)
      BY <1>3, <3>1 DEF Parentless
    <3>3. n \in Roots(waits, longest)
      BY <3>2 DEF Roots
    <3>4. Len(<<n>>) = 1 /\ <<n>>[1] = n /\ <<n>> \in [1..1 -> N]
      BY <1>3
    <3>5. IsBranch(waits, longest, <<n>>)
      BY <3>3, <3>4 DEF IsBranch
    <3>6. <<n>> \in rows /\ Sid(<<n>>) = n
      BY <3>4, <3>5, RowsAreBranches DEF Sid
    <3>7. n \in Sids(rows)
      BY <3>6 DEF Sids
    <3> QED
      BY <1>3, <3>7
  <2>2. ASSUME NEW b \in Parents(waits, n), b \in Sids(rows)
        PROVE  FALSE
    <3>1. PICK r \in rows : Sid(r) = b
      BY <2>2 DEF Sids
    <3>2. IsBranch(waits, longest, r)
      BY <3>1, RowsAreBranches
    <3>3. PICK q : /\ IsBranch(waits, longest, q) /\ Sid(q) = b
                   /\ \A i, j \in 1..Len(q) : q[i] = q[j] => i = j
      BY <3>1, <3>2, BranchWithoutRepetition
    <3>4. <<n, b>> \in waits
      <4>1. PICK w \in waits : w[2] = b /\ w[1] = n
        BY <2>2 DEF Parents, Children
      <4> QED
        BY <4>1
    <3>5. IsBranch(waits, longest, Append(q, n)) /\ Sid(Append(q, n)) = n
      BY <1>3, <3>3, <3>4, BranchGoesOn
    <3>6. Append(q, n) \in rows
      BY <3>5, RowsAreBranches
    <3>7. n \in Sids(rows)
      BY <3>5, <3>6 DEF Sids
    <3> QED
      BY <1>3, <3>7
  <2>3. Parents(waits, n) \subseteq N
    BY DEF Parents
  <2> QED
    BY <2>1, <2>2, <2>3
<1>4. C = {}
  BY <1>3 DEF Deadlocked
<1> QED
  BY <1>2, <1>4

\* What the invariant is needed for.
LEMMA TreeOfWaitsIsWhole ==
  ASSUME TreeOfWaits
  PROVE  TreeIsWhole
<1> SUFFICES ASSUME followed = "locks"
             PROVE  /\ ~Deadlocked(table.waits) => Sids(table.rows) = Nodes(table.waits)
                    /\ \A r \in table.rows : Len(r) <= Cardinality(Nodes(table.waits)) + 1
  BY DEF TreeIsWhole, EverybodyInTree, TreeIsFinite
<1>1. table.waits \in SUBSET (Session \X (Session \cup {Unknown}))
  BY DEF TreeOfWaits
<1>2. PICK longest \in Session \cup {Unknown} : table.rows = LockRows(table.waits, longest)
  BY DEF TreeOfWaits
<1> QED
  BY <1>1, <1>2, NobodyIsMissing, RowsAreBranches

-----------------------------------------------------------------------------
\* Lists of sessions list sessions.
RowsOfSessions == followed # "capacity" => Sids(table.rows) \subseteq Session

RdbTyped == RdbTypeOK /\ RowsOfSessions /\ TreeOfWaits

Sender == {"tab", "reload", "kill"}

\* Loads are counted up and down within the bound.
LEMMA LoadsStep ==
  ASSUME RdbTyped, RdbBounded, NEW by \in Sender,
         \/ loads' = loads
         \/ loads' = [loads EXCEPT ![by] = @ + 1]
         \/ loads[by] > 0 /\ loads' = [loads EXCEPT ![by] = @ - 1]
  PROVE  loads' \in [Sender -> 0..MaxLoads]
<1>1. loads \in [Sender -> 0..MaxLoads] /\ MaxLoads \in Nat
  BY RdbBoundAssumption DEF RdbTyped, RdbTypeOK, Sender
<1>2. loads' \in [Sender -> Nat]
  BY <1>1
<1>3. loads'["tab"] + loads'["reload"] + loads'["kill"] <= MaxLoads
  BY DEF RdbBounded
<1>4. \A x \in Sender : loads'[x] <= MaxLoads
  BY <1>1, <1>2, <1>3 DEF Sender
<1> QED
  BY <1>1, <1>2, <1>4

\* An empty list has no rows and a tree of no waits has none either.
LEMMA NoRows ==
  /\ Sids({}) = {}
  /\ \A longest : LockRows({}, longest) = {}
<1>1. Nodes({}) = {} /\ Parentless({}) = {}
  BY DEF Nodes, Parentless
<1>2. \A longest : Roots({}, longest) = {}
  BY <1>1 DEF Roots
<1> QED
  BY <1>2 DEF Sids, LockRows

\* A load that starts, or is refused where no instance was chosen.
LEMMA LoadTyped ==
  ASSUME RdbTyped, RdbBounded, NEW tab, NEW by \in Sender, Load(tab, by),
         UNCHANGED <<followed, admin, dbId, checked, modal, details, kills>>,
         visible' \subseteq Tab, activeView' \in Tab, busy' \in BOOLEAN
  PROVE  RdbTyped'
<1>1. loads' \in [Sender -> 0..MaxLoads]
  BY LoadsStep DEF Load
<1>2. CASE UNCHANGED <<table, boxes>>
  BY <1>1, <1>2 DEF RdbTyped, RdbTypeOK, RowsOfSessions, TreeOfWaits, Sender
<1>3. CASE table' = NoTable("error") /\ boxes' = {}
  <2>1. table' = [shown |-> "error", rows |-> {}, waits |-> {}] /\ table'.rows = {} /\ table'.waits = {}
        /\ table'.shown = "error"
    BY <1>3 DEF NoTable
  <2>2. RowsOfSessions' /\ TreeOfWaits' /\ Sids(table'.rows) = {}
    BY <2>1, NoRows DEF RowsOfSessions, TreeOfWaits
  <2>3. RdbTypeOK'
    BY <1>1, <1>3, <2>1, <2>2 DEF RdbTyped, RdbTypeOK, Sender
  <2> QED
    BY <2>2, <2>3 DEF RdbTyped
<1> QED
  BY <1>2, <1>3 DEF Load

\* Showing, hiding and refreshing tabs.
LEMMA TabTyped ==
  ASSUME RdbInv, RdbTyped, RdbBounded,
         \/ \E v \in Tab : ClickTab(v)
         \/ \E tabs \in {Tab, Tab \ {followed}} : SyncActiveTab(tabs)
         \/ RefreshViews \/ Reload
  PROVE  RdbTyped'
<1>1. Tabs'
  BY TabStep DEF RdbInv
<1>2. visible' \subseteq Tab /\ activeView' \in Tab
  BY <1>1 DEF Tabs
<1>3. /\ UNCHANGED <<followed, admin, dbId, checked, modal, details, kills>>
      /\ busy' \in BOOLEAN
  BY DEF ClickTab, SyncActiveTab, RefreshViews, Reload, tabVars, callVars, BusyWhileLoading, RdbTyped, RdbTypeOK
<1>4. Load(activeView', "tab") \/ Load(activeView, "tab") \/ Load(followed, "reload")
  BY DEF ClickTab, SyncActiveTab, ShowView, RefreshViews, Reload
<1> QED
  BY <1>2, <1>3, <1>4, LoadTyped DEF Sender

\* What is drawn is drawn of an answer.
LEMMA AnswerTyped ==
  ASSUME RdbInv, RdbTyped, RdbBounded, NEW by \in Sender, LoadAnswered(by)
  PROVE  RdbTyped'
<1>1. /\ LoadOver(by) /\ UNCHANGED <<followed, admin, dbId, visible, activeView, modal, details, kills>>
      /\ busy' \in BOOLEAN
  BY DEF LoadAnswered, LoadFailed, SessionsLoaded, LocksLoaded, CapacityLoaded, LoadOver, tabVars, callVars
<1>2. loads' \in [Sender -> 0..MaxLoads]
  BY <1>1, LoadsStep DEF LoadOver
<1>3. CASE RenderError
  <2>1. table' = [shown |-> "error", rows |-> {}, waits |-> {}] /\ table'.rows = {} /\ table'.waits = {}
        /\ table'.shown = "error" /\ boxes' = {} /\ checked' = checked
    BY <1>3 DEF RenderError, NoTable
  <2>2. RowsOfSessions' /\ TreeOfWaits' /\ Sids(table'.rows) = {}
    BY <2>1, NoRows DEF RowsOfSessions, TreeOfWaits
  <2>3. RdbTypeOK'
    BY <1>1, <1>2, <2>1, <2>2 DEF RdbTyped, RdbTypeOK, Sender
  <2> QED
    BY <2>2, <2>3 DEF RdbTyped
<1>4. ASSUME NEW rows, NEW waits \in SUBSET (Session \X (Session \cup {Unknown})), Rendered(rows, waits),
             Sids(rows) \subseteq Session \cup Unit,
             followed # "capacity" => Sids(rows) \subseteq Session,
             followed = "locks" => \E longest \in Session \cup {Unknown} : rows = LockRows(waits, longest)
      PROVE  RdbTyped'
  <2>1. table' = [shown |-> "rows", rows |-> rows, waits |-> waits] /\ table'.rows = rows /\ table'.waits = waits
        /\ table'.shown = "rows"
    BY <1>4 DEF Rendered
  <2>2. boxes' \subseteq rows /\ checked' \subseteq checked
    BY <1>4 DEF Rendered, WireChecks
  <2>3. RowsOfSessions' /\ TreeOfWaits'
    BY <1>1, <1>4, <2>1 DEF RowsOfSessions, TreeOfWaits
  <2>4. RdbTypeOK'
    BY <1>1, <1>2, <1>4, <2>1, <2>2 DEF RdbTyped, RdbTypeOK, Sender
  <2> QED
    BY <2>3, <2>4 DEF RdbTyped
<1>5. \A S : Sids({<<s>> : s \in S}) = S
  <2>1. \A s : Sid(<<s>>) = s
    BY DEF Sid
  <2> QED
    BY <2>1 DEF Sids
<1>6. ASSUME NEW ids \in SUBSET Listed, SessionsLoaded(by, ids)
      PROVE  RdbTyped'
  <2>1. followed = "sessions" /\ Rendered({<<s>> : s \in ids}, {})
    BY <1>6 DEF SessionsLoaded, RenderSessions
  <2>2. Sids({<<s>> : s \in ids}) \subseteq Session
    BY <1>5, <1>6, AnswersAssumption
  <2> QED
    BY <1>4, <2>1, <2>2
<1>7. ASSUME NEW waits \in LockAnswers, NEW longest \in Nodes(waits) \cup {Unknown}, LocksLoaded(by, waits, longest)
      PROVE  RdbTyped'
  <2>1. waits \in SUBSET (Session \X (Session \cup {Unknown}))
    BY AnswersAssumption
  <2>2. followed = "locks" /\ Rendered(LockRows(waits, longest), waits)
    BY <1>7 DEF LocksLoaded, RenderLockTree
  <2>3. Sids(LockRows(waits, longest)) \subseteq Session
    BY <2>1, RowsOfNodes, NodesFinite
  <2>4. longest \in Session \cup {Unknown}
    BY <2>1, NodesFinite
  <2> QED
    BY <1>4, <2>1, <2>2, <2>3, <2>4
<1>8. ASSUME NEW units \in SUBSET Unit, CapacityLoaded(by, units)
      PROVE  RdbTyped'
  <2>1. followed = "capacity" /\ Rendered({<<u>> : u \in units}, {})
    BY <1>8 DEF CapacityLoaded, RenderCapacity
  <2>2. Sids({<<u>> : u \in units}) \subseteq Unit
    BY <1>5, <1>8
  <2> QED
    BY <1>4, <2>1, <2>2
<1> QED
  BY <1>3, <1>6, <1>7, <1>8 DEF LoadAnswered, LoadFailed

\* Boxes are those of rows.
LEMMA TickTyped ==
  ASSUME RdbTyped, (\E row \in table.rows : TickBox(row)) \/ (\E on \in BOOLEAN : TickAll(on))
  PROVE  RdbTyped'
<1>1. /\ UNCHANGED <<followed, admin, dbId, visible, activeView, loads, busy, table, modal, details, kills>>
      /\ followed # "capacity"
  BY DEF TickBox, TickAll, tabVars, callVars
<1>2. boxes' \subseteq table.rows /\ checked' \subseteq checked \cup Sids(table.rows)
  BY DEF TickBox, TickAll, Sids, RdbTyped, RdbTypeOK
<1>3. checked' \subseteq Session
  BY <1>1, <1>2 DEF RdbTyped, RdbTypeOK, RowsOfSessions
<1>4. RdbTypeOK'
  BY <1>1, <1>2, <1>3 DEF RdbTyped, RdbTypeOK
<1> QED
  BY <1>1, <1>4 DEF RdbTyped, RowsOfSessions, TreeOfWaits

\* The window and what is asked from it.
LEMMA WindowTyped ==
  ASSUME RdbInv, RdbTyped, RdbBounded, WindowAction
  PROVE  RdbTyped'
<1>1. /\ UNCHANGED <<followed, admin, dbId, visible, activeView, busy, table, boxes>>
      /\ checked' = checked \/ checked' = {}
  BY DEF WindowAction, OpenDetail, CloseModal, ConfirmKill, RunKill, DetailAnswered, KillAnswered, tableVars, tabVars
<1>2. loads' = loads \/ loads' = [loads EXCEPT !["kill"] = @ + 1]
  BY DEF WindowAction, OpenDetail, CloseModal, ConfirmKill, RunKill, DetailAnswered, KillAnswered
<1>3. loads' \in [Sender -> 0..MaxLoads]
  BY <1>2, LoadsStep DEF Sender
<1>4. /\ modal'.title \in {"none", "detail", "confirm", "kill"}
      /\ modal'.body \in {"none", "loading", "list", "answer"}
      /\ modal'.go \subseteq Session /\ modal'.of \subseteq Session \cup Unit
  <2> DEFINE W(m) == /\ m.title \in {"none", "detail", "confirm", "kill"}
                     /\ m.body \in {"none", "loading", "list", "answer"}
                     /\ m.go \subseteq Session /\ m.of \subseteq Session \cup Unit
  <2>1. W(modal) /\ checked \subseteq Session
    BY DEF RdbTyped, RdbTypeOK
  <2>2. \A row \in table.rows : Sid(row) \in Session \cup Unit
    BY DEF RdbTyped, RdbTypeOK, Sids
  <2>3. CASE \E row \in table.rows : OpenDetail(row)
    BY <2>2, <2>3 DEF OpenDetail, OpenModal
  <2>4. CASE ConfirmKill
    BY <2>1, <2>4 DEF ConfirmKill, OpenModal
  <2>5. CASE RunKill
    BY <2>1, <2>5 DEF RunKill, OpenModal, Confirmed
  <2>6. CASE CloseModal
    <3>1. modal' = [modal EXCEPT !.open = FALSE, !.go = {}]
      BY <2>6 DEF CloseModal
    <3> QED
      BY <2>1, <3>1 DEF RdbInv, ButtonOfConfirmation
  <2>7. CASE \/ \E x \in details : DetailAnswered(x)
             \/ \E ids \in kills, outcome \in {"results", "error", "failed"} : KillAnswered(ids, outcome)
    <3>1. modal' = [modal EXCEPT !.body = "answer"]
      BY <2>7 DEF DetailAnswered, KillAnswered
    <3> QED
      BY <2>1, <3>1 DEF RdbInv, ButtonOfConfirmation
  <2> QED
    BY <2>3, <2>4, <2>5, <2>6, <2>7 DEF WindowAction
<1>5. details' \subseteq Session \cup Unit /\ kills' \subseteq SUBSET Session
  <2>1. \A row \in table.rows : Sid(row) \in Session \cup Unit
    BY DEF RdbTyped, RdbTypeOK, Sids
  <2>2. modal.go \subseteq Session
    BY DEF RdbTyped, RdbTypeOK
  <2>3. details \subseteq Session \cup Unit /\ kills \subseteq SUBSET Session
    BY DEF RdbTyped, RdbTypeOK
  <2>4. CASE \E row \in table.rows : OpenDetail(row)
    BY <2>1, <2>3, <2>4 DEF OpenDetail
  <2>5. CASE CloseModal \/ ConfirmKill
    BY <2>3, <2>5 DEF CloseModal, ConfirmKill, callVars
  <2>6. CASE RunKill
    BY <2>2, <2>3, <2>6 DEF RunKill, Confirmed
  <2>7. CASE \E x \in details : DetailAnswered(x)
    BY <2>3, <2>7 DEF DetailAnswered
  <2>8. CASE \E ids \in kills, outcome \in {"results", "error", "failed"} : KillAnswered(ids, outcome)
    BY <2>3, <2>8 DEF KillAnswered
  <2> QED
    BY <2>4, <2>5, <2>6, <2>7, <2>8 DEF WindowAction
<1>6. RdbTypeOK'
  BY <1>1, <1>3, <1>4, <1>5 DEF RdbTyped, RdbTypeOK, Sender
<1> QED
  BY <1>1, <1>6 DEF RdbTyped, RowsOfSessions, TreeOfWaits

\* Every step leaves everything in its place.
LEMMA RdbTypedStep ==
  ASSUME RdbInv, RdbTyped, [RdbNext]_rdbVars
  PROVE  RdbTyped'
<1>1. CASE /\ \/ \E v \in Tab : ClickTab(v)
              \/ \E tabs \in {Tab, Tab \ {followed}} : SyncActiveTab(tabs)
              \/ RefreshViews \/ Reload
           /\ RdbBounded
  BY <1>1, TabTyped
<1>2. CASE (\E by \in Sender : LoadAnswered(by)) /\ RdbBounded
  BY <1>2, AnswerTyped
<1>3. CASE (\E row \in table.rows : TickBox(row)) \/ (\E on \in BOOLEAN : TickAll(on))
  BY <1>3, TickTyped
<1>4. CASE WindowAction /\ RdbBounded
  BY <1>4, WindowTyped
<1>5. CASE UNCHANGED rdbVars
  BY <1>5 DEF rdbVars, tabVars, tableVars, callVars, RdbTyped, RdbTypeOK, RowsOfSessions, TreeOfWaits
<1> QED
  BY <1>1, <1>2, <1>3, <1>4, <1>5 DEF RdbNext, WindowAction, Sender

\* At the start there is nothing on the page.
LEMMA RdbTypedInit == RdbInit => RdbTyped
<1> SUFFICES ASSUME RdbInit
             PROVE  RdbTyped
  OBVIOUS
<1>1. table.rows = {} /\ table.waits = {} /\ table.shown = "blank"
  BY DEF RdbInit, NoTable
<1>2. RowsOfSessions /\ TreeOfWaits
  BY <1>1, NoRows DEF RowsOfSessions, TreeOfWaits
<1>3. modal.title = "none" /\ modal.body = "none" /\ modal.go = {} /\ modal.of = {}
  BY DEF RdbInit, NoModal
<1>4. loads \in [Sender -> 0..MaxLoads]
  BY RdbBoundAssumption DEF RdbInit, Sender
<1>5. RdbTypeOK
  BY <1>1, <1>3, <1>4, NoRows DEF RdbInit, RdbTypeOK, Sender, Tab
<1> QED
  BY <1>2, <1>5 DEF RdbTyped

\* Whatever tabs are hidden, loads overlap and rows are ticked: everything on the page is
\* of its kind, the panel displayed has its button, and who is selected is listed.
THEOREM PageStaysCoherent == RdbSpec => []PageIsCoherent
<1>1. RdbInit => RdbInv /\ RdbTyped
  BY RdbInitInv, RdbTypedInit
<1>2. RdbInv /\ RdbTyped /\ [RdbNext]_rdbVars => RdbInv' /\ RdbTyped'
  BY RdbNextInv, RdbTypedStep
<1>3. RdbInv /\ RdbTyped => PageIsCoherent
  BY DEF RdbInv, RdbTyped, PageIsCoherent
<1> QED
  BY <1>1, <1>2, <1>3, PTL DEF RdbSpec

\* However sessions wait for each other, with holders that are known or not: the tree ends,
\* and misses nobody unless some wait for each other in a circle nobody outside blocks.
THEOREM TreeMissesNobody == RdbSpec => []TreeIsWhole
<1>1. RdbInit => RdbInv /\ RdbTyped
  BY RdbInitInv, RdbTypedInit
<1>2. RdbInv /\ RdbTyped /\ [RdbNext]_rdbVars => RdbInv' /\ RdbTyped'
  BY RdbNextInv, RdbTypedStep
<1>3. RdbInv /\ RdbTyped => TreeIsWhole
  BY TreeOfWaitsIsWhole DEF RdbTyped
<1> QED
  BY <1>1, <1>2, <1>3, PTL DEF RdbSpec
=============================================================================
